----------------------------- MODULE LinkAddress ----------------------------
(***************************************************************************)
(* The addresses of link layer frames (gateway/link/address.rs): 16 bits,  *)
(* of which the first tells whether the frame is from or to the gateway    *)
(* whose id the others are.                                                *)
(***************************************************************************)
EXTENDS Naturals

CONSTANTS InvalidGatewayID, NoGatewayID

DirectionBit == 2^15

\* Address::from(u16)
AddressOf(value) == [to |-> value \div DirectionBit = 0, id |-> value % DirectionBit]

\* u16::from(Address)
ValueOf(address) == IF address.to THEN address.id ELSE address.id + DirectionBit

\* GatewayID::try_from
GatewayIDOf(value) == IF value < DirectionBit THEN value ELSE InvalidGatewayID

\* gateway_id and enumeration_gateway_id: the gateway that a payload names, in
\* the form of an address to it.
NamedGatewayID(value) ==
  IF AddressOf(value).to THEN AddressOf(value).id ELSE NoGatewayID
=============================================================================

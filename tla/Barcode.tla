------------------------------- MODULE Barcode ------------------------------
(***************************************************************************)
(* Barcodes (barcode.rs): long addresses with the prefix 04 C0 5B written  *)
(* as a leading digit, a dash, more digits without leading zeros, and a    *)
(* letter for a CRC-4 of the whole address.                                *)
(*                                                                         *)
(* An address is the sequence of its 16 nibbles.  A barcode is             *)
(*   [leading, digits, check]                                              *)
(* with digits a sequence of nibbles and check the letter's index in C2H.  *)
(***************************************************************************)
EXTENDS SequencesExt, Bits

CONSTANT Invalid   \* InvalidBarcodeError

Prefix == <<0, 4, 12, 0, 5, 11>>

BarcodeTable ==
  <<0, 3, 6, 5, 12, 15, 10, 9, 11, 8, 13, 14, 7, 4, 1, 2, 5, 6, 3, 0, 9, 10, 15, 12,
    14, 13, 8, 11, 2, 1, 4, 7, 10, 9, 12, 15, 6, 5, 0, 3, 1, 2, 7, 4, 13, 14, 11, 8,
    15, 12, 9, 10, 3, 0, 5, 6, 4, 7, 2, 1, 8, 11, 14, 13, 7, 4, 1, 2, 11, 8, 13, 14,
    12, 15, 10, 9, 0, 3, 6, 5, 2, 1, 4, 7, 14, 13, 8, 11, 9, 10, 15, 12, 5, 6, 3, 0,
    13, 14, 11, 8, 1, 2, 7, 4, 6, 5, 0, 3, 10, 9, 12, 15, 8, 11, 14, 13, 4, 7, 2, 1,
    3, 0, 5, 6, 15, 12, 9, 10, 14, 13, 8, 11, 2, 1, 4, 7, 5, 6, 3, 0, 9, 10, 15, 12,
    11, 8, 13, 14, 7, 4, 1, 2, 0, 3, 6, 5, 12, 15, 10, 9, 4, 7, 2, 1, 8, 11, 14, 13,
    15, 12, 9, 10, 3, 0, 5, 6, 1, 2, 7, 4, 13, 14, 11, 8, 10, 9, 12, 15, 6, 5, 0, 3,
    9, 10, 15, 12, 5, 6, 3, 0, 2, 1, 4, 7, 14, 13, 8, 11, 12, 15, 10, 9, 0, 3, 6, 5,
    7, 4, 1, 2, 11, 8, 13, 14, 3, 0, 5, 6, 15, 12, 9, 10, 8, 11, 14, 13, 4, 7, 2, 1,
    6, 5, 0, 3, 10, 9, 12, 15, 13, 14, 11, 8, 1, 2, 7, 4>>

\* Mutant: the checksum so far is left out.
CrcStepByByteAlone(crc, byte) == BarcodeTable[byte + 1]

CrcStep(crc, byte) == BarcodeTable[Xor8(byte, crc * 16) + 1]

BarcodeCrc(address) ==
  LET crc[i \in 0..8] ==
        IF i = 0 THEN 2
        ELSE CrcStep(crc[i - 1], 16 * address[2 * i - 1] + address[2 * i])
  IN  crc[8]

\* Display, for an address with the prefix.  All nine digits may be skipped.
Format(address) ==
  LET rest == SubSeq(address, 8, 16)
      first == SelectInSeq(rest, LAMBDA nibble : nibble # 0)
  IN  [leading |-> address[7],
       digits  |-> IF first = 0 THEN <<>> ELSE SubSeq(rest, first, 9),
       check   |-> BarcodeCrc(address)]

Zeros(n) == [i \in 1..n |-> 0]

\* Mutant: the digits are not aligned to the right.
AssembledLeft(barcode) ==
  Prefix \o <<barcode.leading>> \o barcode.digits \o Zeros(9 - Len(barcode.digits))

\* rest | (0x04c05b0 | leading) << 36
Assembled(barcode) ==
  LET high == Prefix \o <<barcode.leading>> \o Zeros(9)
      rest == Zeros(16 - Len(barcode.digits)) \o barcode.digits
  IN  [i \in 1..16 |-> Or4(high[i], rest[i])]

\* FromStr.  At least five characters: the digit, the dash and the letter
\* leave two digits.  More than 16 are more than 64 bits, but for leading
\* zeros, which are left out here as is the sign that is read in front of them.
Parse(barcode) ==
  IF Len(barcode.digits) \in 2..16 /\ BarcodeCrc(Assembled(barcode)) = barcode.check
    THEN Assembled(barcode)
    ELSE Invalid
=============================================================================

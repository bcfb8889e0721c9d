----------------------------- MODULE Measurement ----------------------------
(***************************************************************************)
(* The measurements of a power report (pv/application/power_report.rs,     *)
(* observer/event.rs): two numbers of 12 bits in three bytes, of which the *)
(* temperature is signed.  Values are in the units they are sent in.       *)
(***************************************************************************)
EXTENDS Integers

CONSTANTS NotTwelveBits

IsTwelveBits(n) == n < 2^12

\* <(u16, u16)>::from
NumbersOf(bytes) ==
  <<(256 * bytes[1] + bytes[2]) \div 16, (256 * bytes[2] + bytes[3]) % 2^12>>

\* U12Pair::try_from: the byte in the middle is half of both.
PairOf(a, b) ==
  IF IsTwelveBits(a) /\ IsTwelveBits(b)
    THEN <<a \div 16, 16 * (a % 16) + b \div 256, b % 256>>
    ELSE NotTwelveBits

\* The 12 bits of a temperature as those of an i16 with four more of its sign.
AsSigned(bits) == IF bits < 2^15 THEN bits ELSE bits - 2^16
Temperature(bits) == AsSigned(IF bits < 2^11 THEN bits ELSE bits + 15 * 2^12)
=============================================================================

-------------------------------- MODULE Bits --------------------------------
(***************************************************************************)
(* The operators ^ and | on numbers of 16, 8, 4 and 2 bits and on single   *)
(* bits, each in terms of its halves.                                      *)
(***************************************************************************)
EXTENDS Naturals

Xor1(a, b) == (a + b) % 2
Xor2(a, b) == 2 * Xor1(a \div 2, b \div 2) + Xor1(a % 2, b % 2)
Xor4(a, b) == 4 * Xor2(a \div 4, b \div 4) + Xor2(a % 4, b % 4)
Xor8(a, b) == 16 * Xor4(a \div 16, b \div 16) + Xor4(a % 16, b % 16)
Xor16(a, b) == 256 * Xor8(a \div 256, b \div 256) + Xor8(a % 256, b % 256)

Or1(a, b) == IF a + b = 0 THEN 0 ELSE 1
Or2(a, b) == 2 * Or1(a \div 2, b \div 2) + Or1(a % 2, b % 2)
Or4(a, b) == 4 * Or2(a \div 4, b \div 4) + Or2(a % 4, b % 4)
=============================================================================

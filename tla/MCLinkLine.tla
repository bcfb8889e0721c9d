----------------------------- MODULE MCLinkLine -----------------------------
(***************************************************************************)
(* LinkLine with three frames: one that just fits and needs escaping, a    *)
(* short one that looks like a start delimiter, and one that is too long   *)
(* and runs over on an escaped byte, followed by bytes that look like      *)
(* delimiters.                                                             *)
(***************************************************************************)
EXTENDS LinkLine

(***************************************************************************)
(* The code gives the receiver module Checksum for its checksum, which     *)
(* computes what crc.rs:44 expects.                                        *)
(***************************************************************************)
Checksums == INSTANCE Checksum

ASSUME ChecksumVectors ==
  /\ Checksums!FrameCrc(<<>>) = \h8408
  /\ Checksums!FrameCrc(<<\h92, \h01>>) = \h3788
  /\ Checksums!FrameCrc(<<\h12, \h01, \h01, \h48, \h00, \h01, \h18, \h82, \h04>>) = \h5DCF

MCByte == (0..8) \cup {126, 36, 35, 37, 164, 163, 165, 255} \cup (200..202)

MCBodies == {<<7>>, <<126, 8>>, <<0, 8, 7, 36, 7>>}

\* An ideal checksum: noise cannot produce it and it fits one body only.  Nothing
\* is the exception: a zero fits it, as its checksum is one that noise may hit on.
MCCrc(body) ==
  CASE body = <<>> -> <<0>>
    [] body = <<7>> -> <<200>>
    [] body = <<126, 8>> -> <<201>>
    [] body = <<0, 8, 7, 36, 7>> -> <<202>>
    [] OTHER -> <<0, 0>>
=============================================================================

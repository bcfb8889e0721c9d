------------------------------- MODULE Capture ------------------------------
(***************************************************************************)
(* Capture files (capture.rs): records of a length, a time and that many   *)
(* bytes.  A capture is here the sequence of its records' lengths, times   *)
(* and bytes, each of these an element; compression is left out.           *)
(***************************************************************************)
EXTENDS Naturals, Sequences

CONSTANTS
  MaxData,       \* u16::MAX: how much data a record holds
  Millisecond,   \* how many ticks of the system time
  UnexpectedEof  \* what is read of a record without all of its data

ASSUME CaptureConstants == MaxData \in Nat \ {0} /\ Millisecond \in Nat \ {0}

\* set_timestamp and timestamp: a time is stored in milliseconds.
Stamp(time) == time \div Millisecond
TimeOf(stamp) == stamp * Millisecond

Record(bytes, time) == <<Len(bytes), Stamp(time)>> \o bytes

\* Mutant: nothing is split, and the length is cut to its 16 bits.
WriteUnsplit(bytes, time) == <<Len(bytes) % (MaxData + 1), Stamp(time)>> \o bytes

\* The loop of Writer::write: data too long for a record is continued in the next.
Split(writing, time) ==
  IF Len(writing.left) > MaxData
    THEN [capture |-> writing.capture \o Record(SubSeq(writing.left, 1, MaxData), time),
          left |-> SubSeq(writing.left, MaxData + 1, Len(writing.left))]
    ELSE writing

Write(bytes, time) ==
  LET after[n \in 0..Len(bytes)] ==
        IF n = 0 THEN [capture |-> <<>>, left |-> bytes] ELSE Split(after[n - 1], time)
      split == after[Len(bytes)]
  IN  split.capture \o Record(split.left, time)

\* Reader::next, by what it gave so far and what is left of the capture: where
\* that ends before or within the length and time of a record, it is over without
\* an error.
NextRecord(records) ==
  LET end == 2 + records.left[1]
  IN  CASE Len(records.left) < 2 -> [given |-> records.given, left |-> <<>>]
        [] Len(records.left) >= 2 /\ Len(records.left) < end ->
             [given |-> Append(records.given, UnexpectedEof), left |-> <<>>]
        [] OTHER ->
             [given |-> Append(records.given, [data |-> SubSeq(records.left, 3, end),
                                               time |-> TimeOf(records.left[2])]),
              left  |-> SubSeq(records.left, end + 1, Len(records.left))]

\* All it gives: after so many calls there is nothing left.
Read(capture) ==
  LET after[n \in 0..Len(capture)] ==
        IF n = 0 THEN [given |-> <<>>, left |-> capture] ELSE NextRecord(after[n - 1])
  IN  after[Len(capture)].given
=============================================================================

------------------------------ MODULE LossyLink -----------------------------
(***************************************************************************)
(* What the link layer promises the transport layer: of the frames that    *)
(* were sent some are delivered, unaltered, in the order they were sent,   *)
(* and each at most once.  Nothing is promised about which.                *)
(***************************************************************************)
EXTENDS Naturals, Sequences

CONSTANT Frames   \* the frames that can be sent

VARIABLES
  sent,      \* the frames sent, oldest first
  received   \* the frames delivered, oldest first

IsSubsequence(s, t) ==
  \E at \in [1..Len(s) -> 1..Len(t)] :
    /\ \A i \in 1..Len(s) : s[i] = t[at[i]]
    /\ \A i, j \in 1..Len(s) : i < j => at[i] < at[j]

LossyInit ==
  /\ sent = <<>>
  /\ received = <<>>

Send(f) ==
  /\ sent' = Append(sent, f)
  /\ UNCHANGED received

Deliver(f) ==
  /\ received' = Append(received, f)
  /\ IsSubsequence(received', sent)
  /\ UNCHANGED sent

LossyNext == \E f \in Frames : Send(f) \/ Deliver(f)

LossySpec == LossyInit /\ [][LossyNext]_<<sent, received>>
=============================================================================

--------------------------- MODULE SequenceProofs ---------------------------
(***************************************************************************)
(* What the proofs about loops and sequences share: counting up to a       *)
(* number, a loop of some turns, and sequences put behind each other.      *)
(***************************************************************************)
EXTENDS SequencesExt, FiniteSetTheorems, SequenceTheorems, WellFoundedInduction, TLAPS

(***************************************************************************)
(* Induction up to a number, for a set: the library's theorems take a      *)
(* predicate.                                                              *)
(***************************************************************************)
LEMMA CountingUp ==
  ASSUME NEW n \in Nat, NEW S \in SUBSET (1..n),
         n >= 1 => 1 \in S,
         \A k \in S : k + 1 \in 1..n => k + 1 \in S
  PROVE  S = 1..n
<1> DEFINE Missing == (1..n) \ S
           Before(k) == {m \in Missing : m < k}
           All == {Before(k) : k \in Missing}
<1> SUFFICES ASSUME Missing # {} PROVE FALSE
  OBVIOUS
<1>1. IsFiniteSet(1..n)
  BY FS_Interval
<1>2. IsFiniteSet(Missing)
  BY <1>1, FS_Subset
<1>3. IsWellFoundedOn(StrictSubsetOrdering(Missing), SUBSET Missing)
  BY <1>2, FS_StrictSubsetOrderingWellFounded, FS_FiniteSubsetsOfFinite
<1>4. All \subseteq SUBSET Missing /\ All # {}
  OBVIOUS
<1>5. PICK least \in All : \A before \in All : <<before, least>> \notin StrictSubsetOrdering(Missing)
  <2> HIDE DEF All
  <2> QED
    BY <1>3, <1>4, WFMin
<1>6. PICK first \in Missing : least = Before(first)
  BY <1>5
<1>7. \A k \in Missing : ~(k < first)
  <2> SUFFICES ASSUME NEW k \in Missing, k < first PROVE FALSE
    OBVIOUS
  <2>1. Before(k) \subseteq Before(first) /\ k \in Before(first) /\ k \notin Before(k)
    OBVIOUS
  <2>2. <<Before(k), least>> \in StrictSubsetOrdering(Missing)
    BY <1>6, <2>1 DEF StrictSubsetOrdering
  <2> QED
    BY <1>5, <2>2
<1>8. first # 1
  OBVIOUS
<1>9. first - 1 \in 1..n /\ first - 1 \notin Missing
  BY <1>7, <1>8
<1>10. first - 1 \in S /\ (first - 1) + 1 = first
  BY <1>9
<1> QED
  BY <1>10

(***************************************************************************)
(* A loop of n turns over the states U has a result, and stays in U.       *)
(***************************************************************************)
IsLoop(f, n, U, first, next) ==
  /\ f \in [0..n -> U]
  /\ f[0] = first
  /\ \A i \in 1..n : f[i] = next[i][f[i - 1]]

LEMMA LoopExists ==
  ASSUME NEW n \in Nat, NEW U, NEW first \in U, NEW next \in [1..n -> [U -> U]]
  PROVE  \E f : IsLoop(f, n, U, first, next)
<1> DEFINE Turns(f, k) ==
             /\ f \in [0..k -> U]
             /\ f = [i \in 0..k |-> IF i = 0 THEN first ELSE next[i][f[i - 1]]]
           S == {k \in 1..n : \E f : Turns(f, k)}
<1>1. ASSUME NEW k \in 0..n - 1, NEW f, Turns(f, k)
      PROVE  k + 1 \in S
  <2> DEFINE g == [i \in 0..k + 1 |-> IF i = 0 THEN first ELSE next[i][f[i - 1]]]
  <2>1. \A i \in 0..k : g[i] = f[i] /\ f[i] \in U
    <3> SUFFICES ASSUME NEW i \in 0..k PROVE g[i] = f[i] /\ f[i] \in U
      OBVIOUS
    <3>1. f[i] = IF i = 0 THEN first ELSE next[i][f[i - 1]]
      BY <1>1
    <3> QED
      BY <1>1, <3>1
  <2>2. ASSUME NEW i \in 1..k + 1
        PROVE  g[i] = next[i][g[i - 1]] /\ g[i] \in U
    <3>1. i - 1 \in 0..k /\ i \in 1..n
      OBVIOUS
    <3>2. g[i - 1] = f[i - 1] /\ f[i - 1] \in U
      BY <2>1, <3>1
    <3>3. g[i] = next[i][f[i - 1]]
      OBVIOUS
    <3> HIDE DEF g
    <3>4. next[i] \in [U -> U]
      BY <3>1
    <3> QED
      BY <3>2, <3>3, <3>4
  <2>3. g[0] = first /\ DOMAIN g = 0..k + 1
    OBVIOUS
  <2>4. Turns(g, k + 1)
    <3>0. g = [i \in 0..k + 1 |-> g[i]]
      OBVIOUS
    <3> HIDE DEF g
    <3>1. \A i \in 0..k + 1 : g[i] = IF i = 0 THEN first ELSE next[i][g[i - 1]]
      BY <2>2, <2>3
    <3>2. \A i \in 0..k + 1 : g[i] \in U
      BY <2>2, <2>3
    <3> QED
      BY <3>0, <3>1, <3>2
  <2> HIDE DEF Turns, g
  <2> QED
    BY <2>4
<1> DEFINE start == [i \in 0..0 |-> first]
<1>2. Turns(start, 0)
  OBVIOUS
<1> HIDE DEF Turns, start
<1>3. n >= 1 => 1 \in S
  BY <1>1, <1>2
<1>4. S = 1..n
  <2>1. ASSUME NEW k \in S, k + 1 \in 1..n
        PROVE  k + 1 \in S
    <3>1. k \in 0..n - 1 /\ \E f : Turns(f, k)
      BY <2>1
    <3> QED
      BY <1>1, <3>1
  <2>2. S \in SUBSET (1..n)
    OBVIOUS
  <2> HIDE DEF S
  <2> QED
    BY <1>3, <2>1, <2>2, CountingUp
<1>5. \E f : Turns(f, n)
  <2>1. CASE n = 0
    BY <1>2, <2>1
  <2>2. CASE n # 0
    BY <1>4, <2>2
  <2> QED
    BY <2>1, <2>2
<1>6. PICK f : Turns(f, n)
  BY <1>5
<1>7. f[0] = first /\ \A i \in 1..n : f[i] = next[i][f[i - 1]]
  BY <1>6 DEF Turns
<1> QED
  BY <1>6, <1>7 DEF Turns, IsLoop

LEMMA LoopStays ==
  ASSUME NEW n \in Nat, NEW U, NEW f, f[0] \in U[0],
         \A i \in 1..n : f[i - 1] \in U[i - 1] => f[i] \in U[i]
  PROVE  \A i \in 0..n : f[i] \in U[i]
<1> DEFINE S == {k \in 1..n : f[k] \in U[k]}
<1>1. n >= 1 => 1 \in S
  OBVIOUS
<1>2. ASSUME NEW k \in S, k + 1 \in 1..n
      PROVE  k + 1 \in S
  BY <1>2
<1>3. S = 1..n
  <2>1. S \in SUBSET (1..n)
    OBVIOUS
  <2> HIDE DEF S
  <2> QED
    BY <1>1, <1>2, <2>1, CountingUp
<1> QED
  BY <1>3
-----------------------------------------------------------------------------
LEMMA ElementOf ==
  ASSUME NEW S, NEW s \in Seq(S), NEW i \in 1..Len(s)
  PROVE  s[i] \in S
OBVIOUS

(***************************************************************************)
(* FlattenSeq puts the sequences behind each other, one by one.            *)
(***************************************************************************)
AreParts(parts, seqs, n) ==
  /\ parts[1] = seqs[1]
  /\ \A i \in 2..n : parts[i] = parts[i - 1] \o seqs[i]

LEMMA FlattenSteps ==
  ASSUME NEW n \in Nat \ {0}, NEW seqs, Len(seqs) = n
  PROVE  \E parts : FlattenSeq(seqs) = parts[n] /\ AreParts(parts, seqs, n)
<1> DEFINE Step(f, k) == [i \in 1..k |-> IF i = 1 THEN seqs[i] ELSE f[i - 1] \o seqs[i]]
           Follows(f, k) == f = Step(f, k)
           S == {k \in 1..n : \E f : Follows(f, k)}
           flatten == CHOOSE flatten : flatten = Step(flatten, n)
<1>1. 1 \in S
  <2> DEFINE f == [i \in 1..1 |-> seqs[1]]
  <2>1. Follows(f, 1)
    OBVIOUS
  <2> HIDE DEF f, Follows
  <2> QED
    BY <2>1
<1>2. ASSUME NEW k \in S, k + 1 \in 1..n
      PROVE  k + 1 \in S
  <2>1. PICK f : Follows(f, k)
    <3> HIDE DEF Follows
    <3> QED
      OBVIOUS
  <2> DEFINE g == Step(f, k + 1)
  <2>2. \A i \in 1..k : g[i] = f[i]
    <3> SUFFICES ASSUME NEW i \in 1..k PROVE g[i] = f[i]
      OBVIOUS
    <3>1. f[i] = IF i = 1 THEN seqs[i] ELSE f[i - 1] \o seqs[i]
      BY <2>1
    <3> QED
      BY <3>1
  <2>3. Follows(g, k + 1)
    <3> SUFFICES ASSUME NEW i \in 1..k + 1, i # 1
                 PROVE  g[i - 1] \o seqs[i] = f[i - 1] \o seqs[i]
      OBVIOUS
    <3>1. i - 1 \in 1..k
      OBVIOUS
    <3>2. g[i - 1] = f[i - 1]
      BY <2>2, <3>1
    <3> HIDE DEF g
    <3> QED
      BY <3>2
  <2> HIDE DEF Follows, g
  <2> QED
    BY <1>2, <2>3
<1>3. S = 1..n
  <2> HIDE DEF S
  <2>1. S \in SUBSET (1..n)
    BY DEF S
  <2> QED
    BY <1>1, <1>2, <2>1, CountingUp
<1>4. flatten = Step(flatten, n)
  <2>1. \E f : Follows(f, n)
    <3> HIDE DEF Follows
    <3>1. n \in S
      BY <1>3
    <3> QED
      BY <3>1
  <2> HIDE DEF Step
  <2> QED
    BY <2>1
<1>5. FlattenSeq(seqs) = flatten[n]
  BY DEF FlattenSeq
<1> HIDE DEF flatten
<1>6. \A i \in 1..n : flatten[i] = IF i = 1 THEN seqs[i] ELSE flatten[i - 1] \o seqs[i]
  BY <1>4
<1> HIDE DEF Step, Follows, S
<1>7. flatten[1] = seqs[1]
  <2>1. 1 \in 1..n
    OBVIOUS
  <2> QED
    BY <1>6, <2>1
<1>8. ASSUME NEW i \in 2..n
      PROVE  flatten[i] = flatten[i - 1] \o seqs[i]
  <2>1. i \in 1..n /\ i # 1
    OBVIOUS
  <2> QED
    BY <1>6, <2>1
<1>9. AreParts(flatten, seqs, n)
  BY <1>7, <1>8 DEF AreParts
<1> QED
  BY <1>5, <1>9

(***************************************************************************)
(* So what it makes of sequences over a set is one, and begins like the    *)
(* first of them.                                                          *)
(***************************************************************************)
LEMMA FlattenedIsSeq ==
  ASSUME NEW W, NEW n \in Nat \ {0}, NEW seqs, Len(seqs) = n,
         \A i \in 1..n : seqs[i] \in Seq(W),
         Len(seqs[1]) > 0
  PROVE  /\ FlattenSeq(seqs) \in Seq(W)
         /\ FlattenSeq(seqs)[1] = seqs[1][1]
<1>1. PICK parts : FlattenSeq(seqs) = parts[n] /\ AreParts(parts, seqs, n)
  BY FlattenSteps
<1> DEFINE Good(part) == part \in Seq(W) /\ Len(part) > 0 /\ part[1] = seqs[1][1]
           S == {k \in 1..n : Good(parts[k])}
<1>2. 1 \in S
  BY <1>1 DEF AreParts
<1>3. ASSUME NEW k \in S, k + 1 \in 1..n
      PROVE  k + 1 \in S
  <2>1. k + 1 \in 2..n /\ (k + 1) - 1 = k
    BY <1>3
  <2>2. parts[k + 1] = parts[k] \o seqs[k + 1]
    BY <1>1, <2>1 DEF AreParts
  <2>3. Good(parts[k]) /\ seqs[k + 1] \in Seq(W)
    BY <1>3
  <2> DEFINE part == parts[k]
             next == seqs[k + 1]
  <2>4. Good(part \o next)
    <3>1. part \in Seq(W) /\ next \in Seq(W) /\ Len(part) > 0 /\ part[1] = seqs[1][1]
      BY <2>3
    <3> HIDE DEF part, next
    <3>2. part \o next \in Seq(W) /\ Len(part \o next) = Len(part) + Len(next)
      BY <3>1, ConcatProperties
    <3>3. Len(part) \in Nat /\ Len(next) \in Nat
      BY <3>1, LenProperties
    <3>4. (part \o next)[1] = part[1]
      BY <3>1, <3>3, ConcatProperties
    <3> QED
      BY <3>1, <3>2, <3>3, <3>4
  <2> QED
    BY <1>3, <2>2, <2>4
<1>4. S = 1..n
  <2> HIDE DEF S
  <2>1. S \in SUBSET (1..n)
    BY DEF S
  <2> QED
    BY <1>2, <1>3, <2>1, CountingUp
<1>5. n \in S
  BY <1>4
<1> QED
  BY <1>1, <1>5

\* One sequence is left as it is.
LEMMA FlattenOne ==
  ASSUME NEW seqs, Len(seqs) = 1
  PROVE  FlattenSeq(seqs) = seqs[1]
<1>1. PICK parts : FlattenSeq(seqs) = parts[1] /\ AreParts(parts, seqs, 1)
  BY FlattenSteps
<1> QED
  BY <1>1 DEF AreParts

LEMMA FlattenNone ==
  ASSUME NEW seqs, seqs = <<>>
  PROVE  FlattenSeq(seqs) = <<>>
BY DEF FlattenSeq

LEMMA OneAndOther ==
  ASSUME NEW a, NEW b
  PROVE  <<a>> \o <<b>> = <<a, b>>
<1> DEFINE S == {a, b}
           s == <<a>> \o <<b>>
           t == <<a, b>>
<1>1. <<a>> \in Seq(S) /\ <<b>> \in Seq(S)
  OBVIOUS
<1>2. s \in Seq(S) /\ Len(s) = 2 /\ s[1] = a /\ s[2] = b
  BY <1>1
<1>3. t \in Seq(S) /\ Len(t) = 2 /\ t[1] = a /\ t[2] = b
  OBVIOUS
<1> HIDE DEF s, t, S
<1>4. \A i \in 1..Len(s) : s[i] = t[i]
  BY <1>2, <1>3
<1>5. s = t
  BY <1>2, <1>3, <1>4, SeqEqual
<1> QED
  BY <1>5 DEF s, t

(***************************************************************************)
(* What is put together begins with every one of its parts.                *)
(***************************************************************************)
Begins(s, t) == Len(t) <= Len(s) /\ \A j \in 1..Len(t) : s[j] = t[j]

LEMMA BeginsTransitive ==
  ASSUME NEW W, NEW s \in Seq(W), NEW t \in Seq(W), NEW u \in Seq(W), Begins(s, t), Begins(t, u)
  PROVE  Begins(s, u)
<1>1. Len(s) \in Nat /\ Len(t) \in Nat /\ Len(u) \in Nat
  OBVIOUS
<1> QED
  BY <1>1 DEF Begins

LEMMA BeginsAppended ==
  ASSUME NEW W, NEW s \in Seq(W), NEW t \in Seq(W), NEW u \in Seq(W), Begins(s, u)
  PROVE  Begins(s \o t, u) /\ Begins(s \o t, s)
<1>1. s \o t \in Seq(W) /\ Len(s \o t) = Len(s) + Len(t) /\ \A j \in 1..Len(s) : (s \o t)[j] = s[j]
  BY ConcatProperties
<1> DEFINE st == s \o t
<1> HIDE DEF st
<1> QED
  BY <1>1 DEF Begins, st

LEMMA PartsInPlace ==
  ASSUME NEW W, NEW n \in Nat \ {0}, NEW seqs, \A i \in 1..n : seqs[i] \in Seq(W),
         NEW parts, AreParts(parts, seqs, n)
  PROVE  \A i \in 1..n : parts[i] \in Seq(W) /\ Begins(parts[n], parts[i])
<1> DEFINE Good(k) == \A i \in 1..k : parts[i] \in Seq(W) /\ Begins(parts[k], parts[i])
           S == {k \in 1..n : Good(k)}
<1>1. 1 \in S
  BY DEF AreParts, Begins
<1>2. ASSUME NEW k \in S, k + 1 \in 1..n
      PROVE  k + 1 \in S
  <2>1. k + 1 \in 2..n /\ (k + 1) - 1 = k /\ k \in 1..n /\ Good(k)
    BY <1>2
  <2>2. parts[k + 1] = parts[k] \o seqs[k + 1] /\ seqs[k + 1] \in Seq(W)
    BY <1>2, <2>1 DEF AreParts
  <2>3. parts[k] \in Seq(W)
    BY <2>1
  <2>4. parts[k + 1] \in Seq(W)
    BY <2>2, <2>3, ConcatProperties
  <2>5. ASSUME NEW i \in 1..k + 1
        PROVE  parts[i] \in Seq(W) /\ Begins(parts[k + 1], parts[i])
    <3>1. CASE i = k + 1
      BY <2>4, <3>1 DEF Begins
    <3>2. CASE i # k + 1
      <4>1. i \in 1..k
        BY <2>1, <3>2
      <4>2. parts[i] \in Seq(W) /\ Begins(parts[k], parts[i])
        BY <2>1, <4>1
      <4> QED
        BY <2>2, <2>3, <4>2, BeginsAppended
    <3> QED
      BY <3>1, <3>2
  <2>6. Good(k + 1)
    BY <2>5
  <2> QED
    BY <1>2, <2>6
<1>3. S = 1..n
  <2>1. S \in SUBSET (1..n)
    OBVIOUS
  <2> HIDE DEF S
  <2> QED
    BY <1>1, <1>2, <2>1, CountingUp
<1>4. n \in S
  BY <1>3
<1> QED
  BY <1>4

LEMMA FoundInPlace ==
  ASSUME NEW W, NEW s \in Seq(W), NEW t \in Seq(W), NEW all \in Seq(W), Begins(all, s \o t)
  PROVE  SubSeq(all, Len(s) + 1, Len(s \o t)) = t
<1> DEFINE found == SubSeq(all, Len(s) + 1, Len(s \o t))
<1>1. /\ s \o t \in Seq(W) /\ Len(s \o t) = Len(s) + Len(t)
      /\ \A j \in 1..Len(t) : (s \o t)[Len(s) + j] = t[j]
  BY ConcatProperties
<1>2. Len(s) \in Nat /\ Len(t) \in Nat /\ Len(all) \in Nat /\ Len(s) + Len(t) <= Len(all)
  BY <1>1, LenProperties DEF Begins
<1>3. found \in Seq(W) /\ Len(found) = Len(t) /\ \A j \in 1..Len(t) : found[j] = all[Len(s) + j]
  <2>1. Len(s) + 1 \in 1..Len(all) + 1 /\ Len(s) + Len(t) \in Len(s)..Len(all)
    BY <1>2
  <2> QED
    BY <1>1, <1>2, <2>1, SubSeqProperties
<1>4. ASSUME NEW j \in 1..Len(t)
      PROVE  found[j] = t[j]
  <2>1. Len(s) + j \in 1..Len(s \o t)
    BY <1>1, <1>2
  <2> QED
    BY <1>1, <1>3, <2>1 DEF Begins
<1> HIDE DEF found
<1> QED
  BY <1>3, <1>4, SeqEqual DEF found

LEMMA FlattenAppend ==
  ASSUME NEW W, NEW s \in Seq(Seq(W)), NEW x \in Seq(W)
  PROVE  /\ FlattenSeq(s) \in Seq(W)
         /\ FlattenSeq(Append(s, x)) = FlattenSeq(s) \o x
<1> DEFINE n == Len(s)
           t == Append(s, x)
<1>1. /\ n \in Nat /\ Len(t) = n + 1 /\ t[n + 1] = x
      /\ \A i \in 1..n : t[i] = s[i] /\ s[i] \in Seq(W)
  <2> DEFINE V == Seq(W)
  <2>1. s \in Seq(V) /\ x \in V
    OBVIOUS
  <2> HIDE DEF V
  <2>2. Len(t) = n + 1 /\ t[n + 1] = x /\ \A i \in 1..n : t[i] = s[i]
    BY <2>1, AppendProperties
  <2>3. n \in Nat /\ \A i \in 1..n : s[i] \in V
    BY <2>1, ElementOf
  <2> QED
    BY <2>2, <2>3 DEF V
<1> HIDE DEF n, t
<1>2. n + 1 \in Nat \ {0} /\ \A i \in 1..n + 1 : t[i] \in Seq(W)
  <2>1. n \in Nat
    BY <1>1
  <2>2. n + 1 \in Nat \ {0} /\ \A i \in 1..n + 1 : i = n + 1 \/ i \in 1..n
    BY <2>1
  <2> QED
    BY <1>1, <2>2
<1>3. PICK parts : FlattenSeq(t) = parts[n + 1] /\ AreParts(parts, t, n + 1)
  BY <1>1, <1>2, FlattenSteps
<1>4. CASE n = 0
  <2>1. s = <<>> /\ FlattenSeq(s) = <<>>
    BY <1>4, FlattenNone DEF n
  <2>2. FlattenSeq(t) = x
    BY <1>1, <1>3, <1>4 DEF AreParts
  <2>3. <<>> \o x = x /\ <<>> \in Seq(W)
    BY ConcatEmptySeq
  <2> QED
    BY <2>1, <2>2, <2>3 DEF t
<1>5. CASE n # 0
  <2>1. n \in Nat \ {0} /\ Len(s) = n /\ \A i \in 1..n : s[i] \in Seq(W)
    BY <1>1, <1>5 DEF n
  <2>2. PICK before : FlattenSeq(s) = before[n] /\ AreParts(before, s, n)
    BY <2>1, FlattenSteps
  <2>3. before[n] \in Seq(W)
    <3>1. \A i \in 1..n : before[i] \in Seq(W) /\ Begins(before[n], before[i])
      BY <2>1, <2>2, PartsInPlace
    <3> QED
      BY <2>1, <3>1
  <2> DEFINE S == {k \in 1..n : parts[k] = before[k]}
  <2>4. 1 \in S
    BY <1>1, <1>3, <2>1, <2>2 DEF AreParts
  <2>5. ASSUME NEW k \in S, k + 1 \in 1..n
        PROVE  k + 1 \in S
    <3>1. k + 1 \in 2..n /\ k + 1 \in 2..n + 1 /\ (k + 1) - 1 = k /\ parts[k] = before[k]
      BY <1>1, <2>5
    <3>2. parts[k + 1] = parts[k] \o t[k + 1] /\ before[k + 1] = before[k] \o s[k + 1]
      BY <1>3, <2>2, <3>1 DEF AreParts
    <3> QED
      BY <1>1, <2>5, <3>1, <3>2
  <2>6. S = 1..n
    <3>1. S \in SUBSET (1..n)
      OBVIOUS
    <3> HIDE DEF S
    <3> QED
      BY <1>1, <2>4, <2>5, <3>1, CountingUp
  <2>7. parts[n] = before[n]
    <3>1. n \in 1..n
      <4>1. n \in Nat \ {0}
        BY <2>1
      <4> QED
        BY <4>1
    <3> QED
      BY <2>6, <3>1
  <2>8. n + 1 \in 2..n + 1 /\ (n + 1) - 1 = n
    BY <2>1
  <2>9. parts[n + 1] = parts[n] \o x
    BY <1>1, <1>3, <2>8 DEF AreParts
  <2> HIDE DEF S
  <2> QED
    BY <1>3, <2>2, <2>3, <2>7, <2>9 DEF t
<1> QED
  BY <1>4, <1>5

LEMMA WithoutLast ==
  ASSUME NEW W, NEW s \in Seq(W), NEW x
  PROVE  /\ Append(s, x) # <<>> /\ Len(Append(s, x)) = Len(s) + 1
         /\ Last(Append(s, x)) = x /\ Front(Append(s, x)) = s
<1> DEFINE V == W \cup {x}
           t == Append(s, x)
<1>1. s \in Seq(V) /\ x \in V
  OBVIOUS
<1> HIDE DEF V
<1>2. /\ t \in Seq(V) /\ t # <<>> /\ Len(t) = Len(s) + 1 /\ t[Len(s) + 1] = x
      /\ \A i \in 1..Len(s) : t[i] = s[i]
  BY <1>1, AppendProperties
<1> HIDE DEF t
<1>3. Len(s) \in Nat
  OBVIOUS
<1>4. Last(t) = x
  BY <1>2 DEF Last
<1>5. Front(t) = SubSeq(t, 1, Len(s))
  BY <1>2, <1>3 DEF Front
<1>6. SubSeq(t, 1, Len(s)) = s
  <2> DEFINE u == SubSeq(t, 1, Len(s))
  <2>1. 1 \in Int /\ Len(s) \in Int /\ \A i \in 1..Len(s) : t[i] \in V
    BY <1>1, <1>2, <1>3, ElementOf
  <2>2. /\ u \in Seq(V) /\ Len(u) = IF 1 <= Len(s) THEN Len(s) - 1 + 1 ELSE 0
        /\ \A i \in 1..Len(s) - 1 + 1 : u[i] = t[1 + i - 1]
    BY <2>1, SubSeqProperties
  <2> HIDE DEF u
  <2>3. Len(u) = Len(s) /\ \A i \in 1..Len(u) : u[i] = s[i]
    BY <1>2, <1>3, <2>2
  <2> QED
    BY <1>1, <2>2, <2>3, SeqEqual DEF u
<1> QED
  BY <1>2, <1>4, <1>5, <1>6 DEF t

LEMMA ThreeParts ==
  ASSUME NEW s \in Seq(Nat), NEW t \in Seq(Nat), NEW u \in Seq(Nat)
  PROVE  (s \o t) \o u = s \o (t \o u)
<1> DEFINE Numbers == Nat
<1>1. s \in Seq(Numbers) /\ t \in Seq(Numbers) /\ u \in Seq(Numbers)
  OBVIOUS
<1> HIDE DEF Numbers
<1> QED
  BY <1>1, ConcatAssociative

\* What follows the first numbers of a sequence, up to some other.
LEMMA RestOf ==
  ASSUME NEW s \in Seq(Nat), NEW m \in 0..Len(s), NEW c \in 0..m
  PROVE  /\ SubSeq(s, c + 1, m) \in Seq(Nat) /\ Len(SubSeq(s, c + 1, m)) = m - c
         /\ \A j \in 1..m - c : SubSeq(s, c + 1, m)[j] = s[c + j]
<1> DEFINE rest == SubSeq(s, c + 1, m)
<1>1. Len(s) \in Nat /\ m \in Nat /\ m <= Len(s) /\ c \in Nat /\ c <= m
  OBVIOUS
<1>2. \A j \in c + 1..m : s[j] \in Nat
  <2>1. \A j \in c + 1..m : j \in 1..Len(s)
    BY <1>1
  <2> QED
    BY <2>1, ElementOf
<1>3. c + 1 \in Int /\ m \in Int
  BY <1>1
<1>4. /\ rest \in Seq(Nat) /\ Len(rest) = IF c + 1 <= m THEN m - (c + 1) + 1 ELSE 0
      /\ \A j \in 1..m - (c + 1) + 1 : rest[j] = s[(c + 1) + j - 1]
  <2> DEFINE Numbers == Nat
  <2>1. \A j \in c + 1..m : s[j] \in Numbers
    BY <1>2
  <2> HIDE DEF Numbers
  <2>2. /\ rest \in Seq(Numbers) /\ Len(rest) = IF c + 1 <= m THEN m - (c + 1) + 1 ELSE 0
        /\ \A j \in 1..m - (c + 1) + 1 : rest[j] = s[(c + 1) + j - 1]
    BY <1>3, <2>1, SubSeqProperties
  <2> QED
    BY <2>2 DEF Numbers
<1> HIDE DEF rest
<1>5. Len(rest) = m - c /\ \A j \in 1..m - c : rest[j] = s[c + j]
  BY <1>1, <1>4
<1> QED
  BY <1>4, <1>5 DEF rest
=============================================================================

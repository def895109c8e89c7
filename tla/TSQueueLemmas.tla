--------------------------- MODULE TSQueueLemmas ---------------------------
(* What the operations of TSQueue return, for queues over any set S.       *)
EXTENDS TSQueue, SequenceTheorems, TLAPS

\* The linked tasks of a queue over S are members of S.
LEMMA ElemsType ==
  ASSUME NEW S, NEW s \in Seq(S)
  PROVE  Elems(s) \subseteq S
BY DEF Elems

\* A linked task has a position.
LEMMA PosType ==
  ASSUME NEW S, NEW s \in Seq(S), NEW t \in Elems(s)
  PROVE  Pos(s, t) \in 1..Len(s) /\ s[Pos(s, t)] = t
<1>1. \E i \in 1..Len(s) : s[i] = t
  BY DEF Elems
<1> QED
  BY <1>1 DEF Pos

\* front() and next() return a task or null.
LEMMA FrontType ==
  ASSUME NEW S, NEW s \in Seq(S), NEW null
  PROVE  FrontOf(s, null) \in S \cup {null}
BY DEF FrontOf

LEMMA NextType ==
  ASSUME NEW S, NEW s \in Seq(S), NEW t, NEW null
  PROVE  NextOf(s, t, null) \in S \cup {null}
<1>1. CASE t \in Elems(s) /\ Pos(s, t) < Len(s)
  <2>1. Pos(s, t) + 1 \in 1..Len(s)
    BY <1>1, PosType
  <2> QED
    BY <1>1, <2>1 DEF NextOf
<1>2. CASE ~(t \in Elems(s) /\ Pos(s, t) < Len(s))
  BY <1>2 DEF NextOf
<1> QED
  BY <1>1, <1>2

\* erase() shortens the queue by the erased task.
LEMMA EraseType ==
  ASSUME NEW S, NEW s \in Seq(S), NEW t
  PROVE  /\ Erase(s, t) \in Seq(S)
         /\ Len(Erase(s, t)) = IF t \in Elems(s) THEN Len(s) - 1 ELSE Len(s)
<1>1. CASE t \in Elems(s)
  <2>1. Pos(s, t) \in 1..Len(s) /\ Len(s) \in Nat /\ Len(s) - 1 \in Nat
    BY <1>1, PosType
  <2>2. Erase(s, t) = [j \in 1..(Len(s) - 1) |-> IF j < Pos(s, t) THEN s[j] ELSE s[j + 1]]
    BY <1>1 DEF Erase
  <2>3. \A j \in 1..(Len(s) - 1) : (IF j < Pos(s, t) THEN s[j] ELSE s[j + 1]) \in S
    BY <2>1
  <2>4. Erase(s, t) \in [1..(Len(s) - 1) -> S]
    BY <2>2, <2>3
  <2> QED
    BY <1>1, <2>1, <2>4, IsASeq, LenProperties
<1>2. CASE t \notin Elems(s)
  BY <1>2 DEF Erase
<1> QED
  BY <1>1, <1>2

\* pop_back(n) splits the queue.
LEMMA BackType ==
  ASSUME NEW S, NEW s \in Seq(S), NEW n \in Nat
  PROVE  /\ BackCount(s, n) \in 0..Len(s)
         /\ BackLeft(s, n) \in Seq(S) /\ Len(BackLeft(s, n)) = Len(s) - BackCount(s, n)
         /\ BackTaken(s, n) \in Seq(S) /\ Len(BackTaken(s, n)) = BackCount(s, n)
<1>1. BackCount(s, n) \in 0..Len(s)
  BY DEF BackCount
<1> DEFINE c == BackCount(s, n)
<1>2. Len(s) \in Nat /\ c \in Nat /\ c <= Len(s)
  BY <1>1
<1> HIDE DEF c
<1>3. \A i \in 1..(Len(s) - c) : s[i] \in S
  BY <1>2
<1>4. \A i \in (Len(s) - c + 1)..Len(s) : s[i] \in S
  BY <1>2
<1>5. /\ SubSeq(s, 1, Len(s) - c) \in Seq(S)
      /\ Len(SubSeq(s, 1, Len(s) - c)) = Len(s) - c
  BY <1>2, <1>3, SubSeqProperties
<1>6. /\ SubSeq(s, Len(s) - c + 1, Len(s)) \in Seq(S)
      /\ Len(SubSeq(s, Len(s) - c + 1, Len(s))) = c
  BY <1>2, <1>4, SubSeqProperties
<1> QED
  BY <1>1, <1>5, <1>6 DEF BackLeft, BackTaken, c

\* cut(n) splits the list.
LEMMA CutType ==
  ASSUME NEW S, NEW s \in Seq(S), NEW n \in 1..Len(s)
  PROVE  CutTaken(s, n) \in Seq(S) /\ CutLeft(s, n) \in Seq(S)
<1>1. \A i \in 1..n : s[i] \in S
  OBVIOUS
<1>2. \A i \in (n + 1)..Len(s) : s[i] \in S
  OBVIOUS
<1> QED
  BY <1>1, <1>2, SubSeqProperties DEF CutTaken, CutLeft
=============================================================================

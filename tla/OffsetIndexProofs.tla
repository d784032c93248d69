------------------------- MODULE OffsetIndexProofs --------------------------
(***************************************************************************)
(* The offset index holds exact checkpoints, for every stride, every size  *)
(* of frames and batches, and every order of appends, truncations, moves   *)
(* of the read start and restarts; and so every lookup is exact and short. *)
(***************************************************************************)
EXTENDS OffsetIndex, TLAPS, WellFoundedInduction

\* A leaf with no prover named may take each prover this long (in seconds).
USE ZenonT(20), SMTT(40)

(***************************************************************************)
(* Slices of checkpoints.                                                  *)
(***************************************************************************)

Has(s, e) == \E i \in 1..Len(s) : s[i] = e

\* There is a first position of T in 1..n, or none and it is n + 1.
LEMMA LeastPosition ==
  ASSUME NEW n \in Nat, NEW T
  PROVE  \E i \in 1..(n + 1) : (i <= n => i \in T) /\ \A j \in 1..(i - 1) : j \notin T
<1> DEFINE above == {i \in 1..(n + 1) : i \in T \/ i = n + 1}
           R == OpToRel(<, Nat)
<1>1. above # {} /\ above \subseteq Nat /\ \A i \in above : i \in 1..(n + 1)
  OBVIOUS
<1>2. IsWellFoundedOn(R, Nat)
  BY NatLessThanWellFounded, Zenon
<1>3. PICK i \in above : \A j \in above : ~(<<j, i>> \in R)
  <2> HIDE DEF above, R
  <2> QED BY <1>1, <1>2, WFMin, Zenon
<1>4. \A j, k \in Nat : j < k => <<j, k>> \in R
  <2>1. R = {p \in Nat \X Nat : p[1] < p[2]}
    BY DEF OpToRel
  <2> QED BY <2>1, Zenon
<1>5. \A j \in above : ~(j < i)
  <2> HIDE DEF above, R
  <2> QED BY <1>1, <1>3, <1>4
<1> HIDE DEF R
<1> QED BY <1>5

\* sort.Search finds it.
LEMMA SearchFacts ==
  ASSUME NEW n \in Nat, NEW T
  PROVE  /\ Search(n, T) \in 1..(n + 1)
         /\ Search(n, T) <= n => Search(n, T) \in T
         /\ \A j \in 1..(Search(n, T) - 1) : j \notin T
BY LeastPosition DEF Search

\* Set puts the checkpoint in its place, replaces at most the one with the
\* same index, and keeps the order.
LEMMA SetFacts ==
  ASSUME NEW s \in Seq(Position), Ascending(s), NEW e \in Position
  PROVE  /\ Set(s, e) \in Seq(Position)
         /\ Ascending(Set(s, e))
         /\ Has(Set(s, e), e)
         /\ \A x : Has(Set(s, e), x) => x = e \/ Has(s, x)
         /\ \A x : Has(s, x) /\ x.index # e.index => Has(Set(s, e), x)
<1> DEFINE T == {k \in 1..Len(s) : s[k].index >= e.index}
           i == Search(Len(s), T)
           t == Set(s, e)
<1>0. e.index \in Nat /\ \A k \in 1..Len(s) : s[k] \in Position /\ s[k].index \in Nat
  <2>1. \A k \in 1..Len(s) : s[k] \in Position
    OBVIOUS
  <2> QED BY <2>1 DEF Position
<1>1. /\ i \in 1..(Len(s) + 1)
      /\ i <= Len(s) => s[i].index >= e.index
      /\ \A j \in 1..(i - 1) : s[j].index < e.index
  <2>1. /\ i \in 1..(Len(s) + 1)
        /\ i <= Len(s) => i \in T
        /\ \A j \in 1..(i - 1) : j \notin T
    <3> HIDE DEF T
    <3> QED BY SearchFacts, SMTT(20)
  <2> HIDE DEF i
  <2> QED BY <1>0, <2>1
<1> HIDE DEF i
<1>2. CASE s = << >> \/ e.index > s[Len(s)].index
  <2>1. t = Append(s, e)
    BY <1>2 DEF Set
  <2>2. \A j \in 1..Len(s) : s[j].index < e.index
    BY <1>0, <1>2 DEF Ascending
  <2> HIDE DEF t
  <2>3. t \in Seq(Position) /\ Len(t) = Len(s) + 1 /\ t[Len(s) + 1] = e
        /\ \A j \in 1..Len(s) : t[j] = s[j]
    BY <2>1
  <2>4. ASSUME NEW a \in 1..Len(t), NEW b \in 1..Len(t), a < b
        PROVE  t[a].index < t[b].index
    <3>1. a \in 1..Len(s) /\ t[a] = s[a]
      BY <2>3, <2>4
    <3>2. CASE b = Len(s) + 1
      BY <2>2, <2>3, <3>1, <3>2
    <3>3. CASE b \in 1..Len(s)
      BY <2>3, <2>4, <3>1, <3>3 DEF Ascending
    <3> QED BY <2>3, <3>2, <3>3
  <2>5. Has(t, e) /\ (\A x : Has(t, x) => x = e \/ Has(s, x)) /\ \A x : Has(s, x) => Has(t, x)
    BY <2>3 DEF Has
  <2> QED BY <2>3, <2>4, <2>5 DEF t, Ascending
<1>3. CASE ~(s = << >> \/ e.index > s[Len(s)].index)
  <2>1. Len(s) \in 1..Len(s) /\ s[Len(s)].index >= e.index /\ i \in 1..Len(s)
    BY <1>0, <1>1, <1>3
  <2>2. \A j \in i..Len(s) : s[j].index >= s[i].index
    BY <1>0, <2>1 DEF Ascending
  <2>3. CASE s[i].index = e.index
    <3>1. t = [s EXCEPT ![i] = e]
      BY <1>3, <2>3 DEF Set, i
    <3> HIDE DEF t
    <3>2. t \in Seq(Position) /\ Len(t) = Len(s) /\ t[i] = e
          /\ \A j \in 1..Len(s) : j # i => t[j] = s[j]
      BY <2>1, <3>1
    <3>3. Ascending(t)
      BY <1>0, <2>1, <2>3, <3>2 DEF Ascending
    <3>4. Has(t, e) /\ (\A x : Has(t, x) => x = e \/ Has(s, x))
      BY <2>1, <3>2 DEF Has
    <3>5. \A x : Has(s, x) /\ x.index # e.index => Has(t, x)
      BY <2>1, <2>3, <3>2 DEF Has
    <3> QED BY <3>2, <3>3, <3>4, <3>5 DEF t
  <2>4. CASE s[i].index # e.index
    <3>1. t = Insert(s, i, e)
      BY <1>3, <2>4 DEF Set, i
    <3> HIDE DEF t
    <3>2. /\ t = [k \in 1..(Len(s) + 1) |->
                   IF k < i THEN s[k] ELSE IF k = i THEN e ELSE s[k - 1]]
      BY <3>1 DEF Insert
    <3>3. Len(t) = Len(s) + 1 /\ t[i] = e
          /\ (\A j \in 1..(i - 1) : t[j] = s[j])
          /\ (\A j \in (i + 1)..(Len(s) + 1) : t[j] = s[j - 1])
      BY <2>1, <3>2
    <3>4. t \in Seq(Position)
      BY <1>0, <2>1, <3>2
    <3>5. \A j \in i..Len(s) : s[j].index > e.index
      BY <1>0, <1>1, <2>1, <2>2, <2>4
    <3>6. ASSUME NEW a \in 1..Len(t), NEW b \in 1..Len(t), a < b
          PROVE  t[a].index < t[b].index
      <4>1. CASE b < i
        <5>1. t[a] = s[a] /\ t[b] = s[b] /\ a \in 1..Len(s) /\ b \in 1..Len(s)
          BY <2>1, <3>3, <3>6, <4>1
        <5> QED BY <3>6, <5>1 DEF Ascending
      <4>2. CASE b = i
        <5>1. t[a] = s[a] /\ a \in 1..(i - 1) /\ t[b] = e
          BY <2>1, <3>3, <3>6, <4>2, SMTT(20)
        <5> QED BY <1>1, <5>1
      <4>3. CASE a = i
        <5>1. t[a] = e /\ t[b] = s[b - 1] /\ b - 1 \in i..Len(s)
          BY <2>1, <3>3, <3>6, <4>3, SMTT(20)
        <5>2. e.index < s[b - 1].index /\ s[b - 1].index \in Nat
          BY <1>0, <2>1, <3>5, <5>1
        <5> QED BY <5>1, <5>2
      <4>4. CASE a < i /\ i < b
        <5>1. t[a] = s[a] /\ t[b] = s[b - 1] /\ a \in 1..Len(s) /\ b - 1 \in i..Len(s)
          BY <2>1, <3>3, <4>4, SMTT(20)
        <5>2. s[a].index < e.index /\ e.index < s[b - 1].index
          BY <1>1, <2>1, <3>5, <4>4, <5>1
        <5> QED BY <1>0, <2>1, <5>1, <5>2
      <4>5. CASE i < a
        <5>1. t[a] = s[a - 1] /\ t[b] = s[b - 1] /\ a - 1 \in 1..Len(s) /\ b - 1 \in 1..Len(s)
          BY <2>1, <3>3, <3>6, <4>5, SMTT(20)
        <5> QED BY <3>6, <5>1 DEF Ascending
      <4> QED BY <2>1, <3>3, <3>6, <4>1, <4>2, <4>3, <4>4, <4>5, SMTT(20)
    <3>7. Has(t, e) /\ (\A x : Has(t, x) => x = e \/ Has(s, x))
      BY <2>1, <3>3, SMTT(20) DEF Has
    <3>8. ASSUME NEW x, Has(s, x)
          PROVE  Has(t, x)
      <4>1. PICK j \in 1..Len(s) : s[j] = x
        BY <3>8 DEF Has
      <4>2. t[j] = x \/ t[j + 1] = x
        BY <2>1, <3>3, <4>1, SMTT(20)
      <4> QED BY <3>3, <4>1, <4>2, SMTT(20) DEF Has
    <3> QED BY <3>4, <3>6, <3>7, <3>8 DEF t, Ascending
  <2> QED BY <2>3, <2>4
<1> QED BY <1>2, <1>3

\* The position TruncateAfter and TruncateBefore cut at.
LEMMA FindFacts ==
  ASSUME NEW s \in Seq(Position), Ascending(s), s # << >>, NEW x \in Nat
  PROVE  LET i == findFrameIndex(s, x)
         IN  /\ i \in 1..Len(s)
             /\ \A j \in 1..Len(s) : s[j].index <= x => j <= i
             /\ (\E j \in 1..Len(s) : s[j].index <= x) => \A j \in 1..i : s[j].index <= x
<1> DEFINE T == {k \in 1..Len(s) : s[k].index > x}
           i == Search(Len(s), T)
<1>0. \A k \in 1..Len(s) : s[k].index \in Nat
  <2>1. \A k \in 1..Len(s) : s[k] \in Position
    OBVIOUS
  <2> QED BY <2>1 DEF Position
<1>1. i \in 1..(Len(s) + 1) /\ (i <= Len(s) => i \in T) /\ \A j \in 1..(i - 1) : j \notin T
  <2> HIDE DEF T
  <2> QED BY SearchFacts, SMTT(20)
<1>2. findFrameIndex(s, x) = IF i = 1 THEN 1 ELSE i - 1
  BY DEF findFrameIndex, FirstAbove
<1> HIDE DEF i
<1>3. Len(s) \in Nat \ {0}
  OBVIOUS
<1>4. \A j \in 1..Len(s) : s[j].index <= x => j < i
  BY <1>0, <1>1, SMTT(20) DEF Ascending
<1> QED BY <1>0, <1>1, <1>2, <1>3, <1>4, SMTT(20)

\* It is the first one when all checkpoints are above x.
LEMMA NoFloor ==
  ASSUME NEW s \in Seq(Position), s # << >>, NEW x \in Nat,
         \A j \in 1..Len(s) : s[j].index > x
  PROVE  findFrameIndex(s, x) = 1
<1> DEFINE T == {k \in 1..Len(s) : s[k].index > x}
           i == Search(Len(s), T)
<1>1. i \in 1..(Len(s) + 1) /\ \A j \in 1..(i - 1) : j \notin T
  <2> HIDE DEF T
  <2> QED BY SearchFacts, SMTT(20)
<1>2. findFrameIndex(s, x) = IF i = 1 THEN 1 ELSE i - 1
  BY DEF findFrameIndex, FirstAbove
<1> HIDE DEF i
<1>3. Len(s) \in Nat \ {0}
  OBVIOUS
<1> QED BY <1>1, <1>2, <1>3

\* TruncateAfter keeps exactly the checkpoints at or below x, when there is
\* one.
LEMMA TruncateAfterFacts ==
  ASSUME NEW s \in Seq(Position), Ascending(s), NEW x \in Nat, Has(s, First)
  PROVE  LET t == TruncateAfter(s, x)
         IN  /\ t \in Seq(Position)
             /\ Ascending(t)
             /\ \A e : Has(t, e) <=> Has(s, e) /\ e.index <= x
<1> DEFINE n == findFrameIndex(s, x)
           t == TruncateAfter(s, x)
<1>1. s # << >> /\ \E j \in 1..Len(s) : s[j].index <= x
  BY DEF Has, First
<1>2. n \in 1..Len(s) /\ (\A j \in 1..Len(s) : s[j].index <= x => j <= n)
      /\ \A j \in 1..n : s[j].index <= x
  BY <1>1, FindFacts
<1>3. t = SubSeq(s, 1, n)
  BY <1>1 DEF TruncateAfter
<1> HIDE DEF n, t
<1>4. t \in Seq(Position) /\ Len(t) = n /\ \A j \in 1..n : t[j] = s[j]
  BY <1>2, <1>3
<1>5. Ascending(t)
  BY <1>2, <1>4, SMTT(20) DEF Ascending
<1>6. ASSUME NEW e, Has(t, e)
      PROVE  Has(s, e) /\ e.index <= x
  <2>1. PICK j \in 1..n : s[j] = e
    BY <1>4, <1>6 DEF Has
  <2> QED BY <1>2, <2>1 DEF Has
<1>7. ASSUME NEW e, Has(s, e), e.index <= x
      PROVE  Has(t, e)
  <2>1. PICK j \in 1..Len(s) : s[j] = e
    BY <1>7 DEF Has
  <2>2. j \in 1..n
    BY <1>2, <1>7, <2>1
  <2> QED BY <1>4, <2>1, <2>2 DEF Has
<1> QED BY <1>4, <1>5, <1>6, <1>7 DEF t

\* TruncateBefore keeps every checkpoint at or above x, and adds none.
LEMMA TruncateBeforeFacts ==
  ASSUME NEW s \in Seq(Position), Ascending(s), NEW x \in Nat
  PROVE  LET t == TruncateBefore(s, x)
         IN  /\ t \in Seq(Position)
             /\ Ascending(t)
             /\ \A e : Has(t, e) => Has(s, e)
             /\ \A e : Has(s, e) /\ e.index >= x => Has(t, e)
<1> DEFINE n == findFrameIndex(s, x)
           t == TruncateBefore(s, x)
<1>1. CASE s = << >>
  BY <1>1 DEF TruncateBefore
<1>2. CASE s # << >>
  <2>1. n \in 1..Len(s) /\ (\A j \in 1..Len(s) : s[j].index <= x => j <= n)
        /\ ((\E j \in 1..Len(s) : s[j].index <= x) => \A j \in 1..n : s[j].index <= x)
    BY <1>2, FindFacts
  <2>2. t = SubSeq(s, n, Len(s))
    BY <1>2 DEF TruncateBefore
  <2>0. \A k \in 1..Len(s) : s[k].index \in Nat
    <3>1. \A k \in 1..Len(s) : s[k] \in Position
      OBVIOUS
    <3> QED BY <3>1 DEF Position
  <2>7. \A j \in 1..Len(s) : s[j].index >= x => j >= n
    <3>1. CASE \E j \in 1..Len(s) : s[j].index <= x
      BY <2>0, <2>1, <3>1 DEF Ascending
    <3>2. CASE ~\E j \in 1..Len(s) : s[j].index <= x
      <4>1. n = 1
        BY <2>0, <1>2, <3>2, NoFloor
      <4> QED BY <4>1
    <3> QED BY <3>1, <3>2
  <2> HIDE DEF n, t
  <2>3. t \in Seq(Position) /\ Len(t) = Len(s) - n + 1
        /\ \A j \in 1..Len(t) : t[j] = s[n + j - 1]
    BY <2>1, <2>2
  <2>8. \A j \in 1..Len(t) : n + j - 1 \in 1..Len(s)
    BY <2>1, <2>3
  <2>4. ASSUME NEW a \in 1..Len(t), NEW b \in 1..Len(t), a < b
        PROVE  t[a].index < t[b].index
    <3>1. n + a - 1 \in 1..Len(s) /\ n + b - 1 \in 1..Len(s) /\ n + a - 1 < n + b - 1
      BY <2>1, <2>4, <2>8
    <3> QED BY <2>3, <3>1 DEF Ascending
  <2>5. \A e : Has(t, e) => Has(s, e)
    BY <2>3, <2>8 DEF Has
  <2>6. ASSUME NEW e, Has(s, e), e.index >= x
        PROVE  Has(t, e)
    <3>1. PICK j \in 1..Len(s) : s[j] = e
      BY <2>6 DEF Has
    <3>2. j >= n
      BY <2>6, <2>7, <3>1
    <3>3. j - n + 1 \in 1..Len(t) /\ t[j - n + 1] = e
      BY <2>1, <2>3, <3>1, <3>2
    <3> QED BY <3>3 DEF Has
  <2> QED BY <2>3, <2>4, <2>5, <2>6 DEF t, Ascending
<1> QED BY <1>1, <1>2

\* In an index whose checkpoints are those of a table F, Set adds one of F
\* and loses none.
LEMMA SetExact ==
  ASSUME NEW s \in Seq(Position), Ascending(s), NEW e \in Position, NEW F,
         e.offset = F[e.index], \A x : Has(s, x) => x.offset = F[x.index]
  PROVE  LET t == Set(s, e)
         IN  /\ t \in Seq(Position)
             /\ Ascending(t)
             /\ \A x : Has(t, x) <=> Has(s, x) \/ x = e
<1> DEFINE t == Set(s, e)
<1>1. /\ t \in Seq(Position) /\ Ascending(t) /\ Has(t, e)
      /\ \A x : Has(t, x) => x = e \/ Has(s, x)
      /\ \A x : Has(s, x) /\ x.index # e.index => Has(t, x)
  BY SetFacts
<1> HIDE DEF t
<1>2. ASSUME NEW x, Has(s, x), x.index = e.index
      PROVE  x = e
  <2>1. x \in Position
    BY <1>2 DEF Has
  <2>2. x.offset = e.offset
    BY <1>2
  <2> QED BY ONLY <1>2, <2>1, <2>2, e \in Position, SMTT(30) DEF Position
<1> QED BY <1>1, <1>2 DEF t

\* After anchorSparseIndex the three anchors are in the index, and nothing
\* else is new or lost.
LEMMA AnchorFacts ==
  ASSUME NEW s \in Seq(Position), Ascending(s),
         NEW st \in Position, NEW wr \in Position, NEW F,
         \A x : Has(s, x) \/ x \in {First, st, wr} => x.offset = F[x.index]
  PROVE  LET t == Anchor(s, st, wr)
         IN  /\ t \in Seq(Position)
             /\ Ascending(t)
             /\ \A x : Has(t, x) <=> Has(s, x) \/ x \in {First, st, wr}
<1> DEFINE t1 == Set(s, First)
           t2 == Set(t1, st)
           t3 == Set(t2, wr)
<1>0. First \in Position
  BY IndexConstants DEF First, Position
<1>1. t1 \in Seq(Position) /\ Ascending(t1) /\ \A x : Has(t1, x) <=> Has(s, x) \/ x = First
  BY <1>0, SetExact
<1> HIDE DEF t1
<1>2. t2 \in Seq(Position) /\ Ascending(t2) /\ \A x : Has(t2, x) <=> Has(t1, x) \/ x = st
  BY <1>1, SetExact
<1> HIDE DEF t2
<1>3. t3 \in Seq(Position) /\ Ascending(t3) /\ \A x : Has(t3, x) <=> Has(t2, x) \/ x = wr
  BY <1>1, <1>2, SetExact
<1>4. Anchor(s, st, wr) = t3
  BY DEF Anchor, t1, t2
<1> HIDE DEF t3
<1> QED BY <1>1, <1>2, <1>3, <1>4

\* The index of a new segment has one checkpoint.
LEMMA FreshFacts ==
  LET t == Anchor(<< >>, First, First)
  IN  /\ t \in Seq(Position) /\ Ascending(t)
      /\ \A x : Has(t, x) <=> x = First
<1> DEFINE F == [k \in Nat |-> HeaderSize]
           s == << >>
<1>0. First \in Position
  BY IndexConstants DEF First, Position
<1>1. s \in Seq(Position) /\ Ascending(s) /\ \A x : ~Has(s, x)
  BY DEF Ascending, Has
<1>2. First.offset = F[First.index]
  BY DEF First
<1>3. \A x : Has(s, x) \/ x \in {First, First, First} => x.offset = F[x.index]
  BY <1>1, <1>2
<1>4. LET t == Anchor(s, First, First)
      IN  /\ t \in Seq(Position) /\ Ascending(t)
          /\ \A x : Has(t, x) <=> Has(s, x) \/ x \in {First, First, First}
  <2> HIDE DEF F, s
  <2> QED BY <1>0, <1>1, <1>3, AnchorFacts
<1> QED BY <1>1, <1>4

(***************************************************************************)
(* The inductive invariant.                                                *)
(***************************************************************************)

\* Frames are not empty, so they start at different offsets.
FileAscends ==
  \A i, j \in 0..Len(ends) : i < j => OffsetOf(i) < OffsetOf(j)

\* The position up to which frames have been sampled.
reach == IF pc \in {"append", "load"} THEN at.index ELSE write.index

\* Read start, end and the position of a loop are places of frames.
Positions ==
  /\ start = Frame(start.index)
  /\ write = Frame(write.index)
  /\ pc \in {"append", "load", "build"} => at = Frame(at.index) /\ at.index <= Len(ends)
  /\ pc \in {"idle", "build"} => write.index = Len(ends)
  /\ write.index <= Len(ends)
  /\ start.index <= reach
  /\ reach <= Len(ends)
  /\ write.index <= reach
  /\ pc # "load" => start.index <= write.index

\* Every multiple of the stride that has been sampled is in the index, with
\* the anchors, and nothing behind what has been sampled.
Sampling ==
  /\ \A i \in 1..Len(entries) : entries[i].index <= reach
  /\ Has(entries, First)
  /\ Has(entries, start)
  /\ pc # "load" => Has(entries, write)
  /\ \A m \in start.index..(reach - 1) : m % Stride = 0 => Has(entries, Frame(m))

IndexInv ==
  /\ TypeOK
  /\ CheckpointsExact
  /\ FileAscends
  /\ Positions
  /\ Sampling

\* OffsetOf and Frame of a given file.
Off(es, k) == IF k = 0 THEN HeaderSize ELSE es[k]

Place(es, k) == [index |-> k, offset |-> Off(es, k)]

\* What the invariant says of a checkpoint.
LEMMA EntryFacts ==
  ASSUME IndexInv, NEW x, Has(entries, x)
  PROVE  /\ x \in Position
         /\ x.index <= reach
         /\ x.index <= Len(ends)
         /\ x.offset = Off(ends, x.index)
<1>1. PICK i \in 1..Len(entries) : entries[i] = x
  BY DEF Has
<1>2. x \in Position
  BY <1>1 DEF IndexInv, TypeOK
<1>3. x.index <= Len(ends) /\ x.offset = OffsetOf(x.index) /\ x.index <= reach
  BY <1>1 DEF IndexInv, CheckpointsExact, Sampling
<1> QED BY <1>2, <1>3 DEF Off, OffsetOf

\* Offsets are numbers.
LEMMA OffsetFacts ==
  ASSUME NEW es \in Seq(Nat)
  PROVE  /\ \A k \in 0..Len(es) : Off(es, k) \in Nat /\ Place(es, k) \in Position
         /\ First = Place(es, 0)
         /\ Len(es) \in Nat
BY IndexConstants DEF Off, Place, First, Position

\* A cut of the file leaves the places of the frames before it.
LEMMA CutFacts ==
  ASSUME TypeOK, FileAscends, NEW n \in 0..Len(ends), ends' = SubSeq(ends, 1, n)
  PROVE  /\ ends' \in Seq(Nat)
         /\ Len(ends') = n
         /\ \A k \in 0..n : Off(ends', k) = Off(ends, k) /\ Place(ends', k) = Place(ends, k)
         /\ FileAscends'
<1>1. ends' \in Seq(Nat) /\ Len(ends') = n /\ \A k \in 1..n : ends'[k] = ends[k]
  BY DEF TypeOK
<1>2. \A k \in 0..n : Off(ends', k) = Off(ends, k)
  BY <1>1 DEF Off
<1>3. \A k \in 0..n : Place(ends', k) = Place(ends, k)
  BY <1>2 DEF Place
<1>4. FileAscends'
  BY <1>1 DEF FileAscends, OffsetOf
<1> QED BY <1>1, <1>2, <1>3, <1>4

\* The invariant from what the lemmas above say of the checkpoints.
LEMMA FromEntries ==
  ASSUME TypeOK', FileAscends', Positions', Ascending(entries'),
         \A x : Has(entries', x) => x.index <= reach' /\ x.offset = Off(ends', x.index),
         Has(entries', First), Has(entries', start'),
         pc' # "load" => Has(entries', write'),
         \A m \in start'.index..(reach' - 1) :
            m % Stride = 0 => Has(entries', Place(ends', m))
  PROVE  IndexInv'
<1>1. \A i \in 1..Len(entries') : Has(entries', entries'[i])
  BY DEF Has
<1>2. \A i \in 1..Len(entries') :
        entries'[i].index <= reach' /\ entries'[i].offset = Off(ends', entries'[i].index)
  BY <1>1
<1>3. reach' <= Len(ends') /\ reach' \in Nat /\ Len(ends') \in Nat
  BY SMTT(20) DEF TypeOK, Positions, reach, Position
<1>4. \A i \in 1..Len(entries') : entries'[i].index \in Nat
  <2>1. \A i \in 1..Len(entries') : entries'[i] \in Position
    BY DEF TypeOK
  <2> QED BY <2>1 DEF Position
<1>5. \A i \in 1..Len(entries') : entries'[i].index <= Len(ends')
  BY <1>2, <1>3, <1>4, SMTT(20)
<1>6. CheckpointsExact'
  BY <1>2, <1>5 DEF CheckpointsExact, Ascending, OffsetOf, Off
<1>7. Sampling'
  BY <1>2 DEF Sampling, Has, First, Frame, OffsetOf, Place, Off
<1> QED BY <1>6, <1>7 DEF IndexInv

\* The invariant in the terms of the lemmas.
LEMMA InvFacts ==
  ASSUME IndexInv
  PROVE  /\ entries \in Seq(Position) /\ Ascending(entries) /\ ends \in Seq(Nat)
         /\ start \in Position /\ write \in Position /\ at \in Position
         /\ start.index \in 0..Len(ends) /\ start = Place(ends, start.index)
         /\ write.index \in 0..Len(ends) /\ write = Place(ends, write.index)
         /\ reach \in 0..Len(ends)
         /\ \A i, j \in 0..Len(ends) : i < j => Off(ends, i) < Off(ends, j)
         /\ Has(entries, First) /\ Has(entries, start)
         /\ pc # "load" => Has(entries, write)
         /\ \A m \in start.index..(reach - 1) : m % Stride = 0 => Has(entries, Place(ends, m))
<1>1. entries \in Seq(Position) /\ Ascending(entries) /\ ends \in Seq(Nat)
  BY DEF IndexInv, TypeOK, CheckpointsExact
<1>2. /\ start \in Position /\ write \in Position /\ at \in Position
      /\ start.index \in 0..Len(ends) /\ write.index \in 0..Len(ends) /\ reach \in 0..Len(ends)
  BY SMTT(20) DEF IndexInv, TypeOK, Positions, Position, reach
<1>3. start = Place(ends, start.index) /\ write = Place(ends, write.index)
  BY DEF IndexInv, Positions, Place, Off, Frame, OffsetOf
<1>4. \A i, j \in 0..Len(ends) : i < j => Off(ends, i) < Off(ends, j)
  BY DEF IndexInv, FileAscends, OffsetOf, Off
<1>5. /\ Has(entries, First) /\ Has(entries, start)
      /\ pc # "load" => Has(entries, write)
      /\ \A m \in start.index..(reach - 1) : m % Stride = 0 => Has(entries, Place(ends, m))
  BY DEF IndexInv, Sampling, Place, Off, Frame, OffsetOf
<1> QED BY <1>1, <1>2, <1>3, <1>4, <1>5

\* Where a lookup starts: a checkpoint that is exact and not past the target.
LEMMA FloorFacts ==
  ASSUME IndexInv, NEW x \in Nat
  PROVE  /\ LET e == ForFrameIndex(entries, x)
            IN  /\ e.index \in 0..Len(ends) /\ e.index <= x
                /\ e.offset = Off(ends, e.index)
         /\ LET e == ForOffset(entries, x)
            IN  /\ e.index \in 0..Len(ends) /\ (HeaderSize <= x => e.offset <= x)
                /\ e.offset = Off(ends, e.index)
<1>1. \A y : Has(entries, y) => y \in Position /\ y.index <= Len(ends) /\ y.offset = Off(ends, y.index)
  BY EntryFacts
<1>2. \A j \in 1..Len(entries) : Has(entries, entries[j])
  BY DEF Has
<1>3. /\ First.index \in 0..Len(ends) /\ First.index <= x /\ First.offset = Off(ends, First.index)
      /\ HeaderSize <= x => First.offset <= x
  BY InvFacts, IndexConstants DEF First, Off
<1>4. Len(entries) \in Nat /\ Len(ends) \in Nat
  BY InvFacts
<1>5. ASSUME NEW T
      PROVE  LET i == Search(Len(entries), T)
                 e == Floor(entries, i)
             IN  /\ e.index \in 0..Len(ends) /\ e.offset = Off(ends, e.index)
                 /\ e = First \/ \E j \in 1..Len(entries) : j \notin T /\ e = entries[j]
  <2> DEFINE i == Search(Len(entries), T)
  <2>1. i \in 1..(Len(entries) + 1) /\ \A j \in 1..(i - 1) : j \notin T
    BY <1>4, SearchFacts
  <2> HIDE DEF i
  <2>2. CASE i = 1
    BY <1>3, <2>2 DEF Floor, i
  <2>3. CASE i # 1
    <3>1. i - 1 \in 1..Len(entries) /\ i - 1 \notin T /\ Floor(entries, i) = entries[i - 1]
      BY <1>4, <2>1, <2>3 DEF Floor
    <3>2. entries[i - 1].index \in 0..Len(ends) /\ entries[i - 1].offset = Off(ends, entries[i - 1].index)
      BY <1>1, <1>2, <1>4, <3>1 DEF Position
    <3> QED BY <3>1, <3>2 DEF i
  <2> QED BY <2>2, <2>3
<1>6. \A j \in 1..Len(entries) : entries[j].index \in Nat /\ entries[j].offset \in Nat
  BY <1>1, <1>2 DEF Position
<1>7. LET e == ForFrameIndex(entries, x)
      IN  /\ e.index \in 0..Len(ends) /\ e.index <= x
          /\ e.offset = Off(ends, e.index)
  <2> DEFINE T == {j \in 1..Len(entries) : entries[j].index > x}
             e == Floor(entries, Search(Len(entries), T))
  <2>1. /\ e.index \in 0..Len(ends) /\ e.offset = Off(ends, e.index)
        /\ e = First \/ \E j \in 1..Len(entries) : j \notin T /\ e = entries[j]
    <3> HIDE DEF T
    <3> QED BY <1>5
  <2>2. ForFrameIndex(entries, x) = e
    BY DEF ForFrameIndex, FirstAbove
  <2> HIDE DEF e
  <2> QED BY <1>3, <1>6, <2>1, <2>2
<1>8. LET e == ForOffset(entries, x)
      IN  /\ e.index \in 0..Len(ends) /\ (HeaderSize <= x => e.offset <= x)
          /\ e.offset = Off(ends, e.index)
  <2> DEFINE T == {j \in 1..Len(entries) : entries[j].offset > x}
             e == Floor(entries, Search(Len(entries), T))
  <2>1. /\ e.index \in 0..Len(ends) /\ e.offset = Off(ends, e.index)
        /\ e = First \/ \E j \in 1..Len(entries) : j \notin T /\ e = entries[j]
    <3> HIDE DEF T
    <3> QED BY <1>5
  <2>2. ForOffset(entries, x) = e
    BY DEF ForOffset
  <2> HIDE DEF e
  <2> QED BY <1>3, <1>6, <2>1, <2>2
<1> QED BY <1>7, <1>8

\* A lookup by index ends at the frame's place.
LEMMA OffsetLookup ==
  ASSUME IndexInv, NEW n \in 0..Len(ends)
  PROVE  offsetForIndex(entries, n) = Off(ends, n)
<1> DEFINE e == ForFrameIndex(entries, n)
<1>1. Len(ends) \in Nat
  BY InvFacts
<1>2. e.index \in 0..Len(ends) /\ e.index <= n /\ e.offset = Off(ends, e.index)
  BY <1>1, FloorFacts
<1>3. offsetForIndex(entries, n) = IF n = 0 THEN HeaderSize ELSE Walk(e, n - e.index)
  BY DEF offsetForIndex
<1> HIDE DEF e
<1> QED BY <1>1, <1>2, <1>3 DEF Walk, OffsetOf, Off

\* A lookup by offset ends at the frame that starts there, and fails when
\* none does.
LEMMA IndexLookup ==
  ASSUME IndexInv, NEW offset \in Nat, HeaderSize <= offset
  PROVE  /\ \A n \in 0..Len(ends) : Off(ends, n) = offset => indexForOffset(entries, offset) = n
         /\ (\A n \in 0..Len(ends) : Off(ends, n) # offset) => indexForOffset(entries, offset) = Fail
<1> DEFINE e == ForOffset(entries, offset)
           hits == {k \in 0..Len(ends) : Walk(e, k) = offset}
<1>1. Len(ends) \in Nat /\ ends \in Seq(Nat) /\ HeaderSize \in Nat
      /\ (\A k \in 0..Len(ends) : Off(ends, k) \in Nat)
      /\ \A i, j \in 0..Len(ends) : i < j => Off(ends, i) < Off(ends, j)
  BY InvFacts, OffsetFacts, IndexConstants
<1>2. e.index \in 0..Len(ends) /\ e.offset <= offset /\ e.offset = Off(ends, e.index)
  BY FloorFacts
<1>3. indexForOffset(entries, offset) =
        IF offset = HeaderSize THEN 0
        ELSE IF hits = {} THEN Fail ELSE e.index + CHOOSE k \in hits : TRUE
  BY DEF indexForOffset
<1> HIDE DEF e
<1>4. \A k \in 0..Len(ends) :
         k \in hits <=> e.index + k <= Len(ends) /\ Off(ends, e.index + k) = offset
  BY <1>1, <1>2 DEF Walk, OffsetOf, Off, Fail
<1>5. hits \subseteq 0..Len(ends)
  OBVIOUS
<1> HIDE DEF hits
<1>6. Off(ends, 0) = HeaderSize
  BY DEF Off
<1>7. ASSUME NEW n \in 0..Len(ends), Off(ends, n) = offset
      PROVE  indexForOffset(entries, offset) = n
  <2>1. e.index <= n
    BY <1>1, <1>2, <1>7
  <2>2. n - e.index \in hits
    <3>1. n - e.index \in 0..Len(ends) /\ e.index + (n - e.index) = n
      BY <1>1, <1>2, <2>1
    <3> HIDE DEF e
    <3> QED BY <1>1, <1>4, <1>7, <3>1
  <2>3. ASSUME NEW k \in hits
        PROVE  e.index + k = n
    <3>1. e.index + k \in 0..Len(ends) /\ Off(ends, e.index + k) = Off(ends, n)
      BY <1>1, <1>2, <1>4, <1>5, <1>7
    <3> QED BY <1>1, <3>1
  <2>4. CASE offset = HeaderSize
    BY <1>1, <1>3, <1>6, <1>7, <2>4
  <2>5. CASE offset # HeaderSize
    BY <1>3, <2>2, <2>3, <2>5
  <2> QED BY <2>4, <2>5
<1>8. ASSUME \A n \in 0..Len(ends) : Off(ends, n) # offset
      PROVE  indexForOffset(entries, offset) = Fail
  <2>1. offset # HeaderSize
    BY <1>1, <1>6, <1>8
  <2>2. hits = {}
    BY <1>1, <1>2, <1>4, <1>5, <1>8
  <2> QED BY <1>3, <2>1, <2>2
<1> QED BY <1>7, <1>8

(***************************************************************************)
(* Every operation keeps the invariant.                                    *)
(***************************************************************************)

\* Append writes frames, which no checkpoint is of.
LEMMA WriteFrameInv ==
  ASSUME IndexInv, WriteFrame
  PROVE  IndexInv'
<1>1. PICK size \in Sizes : ends' = Append(ends, OffsetOf(Len(ends)) + size)
  BY DEF WriteFrame
<1>2. Len(ends) \in Nat /\ OffsetOf(Len(ends)) \in Nat /\ size \in Nat \ {0} /\ ends \in Seq(Nat)
  BY InvFacts, OffsetFacts, IndexConstants, SMTT(20) DEF Off, OffsetOf
<1>3. /\ ends' \in Seq(Nat) /\ Len(ends') = Len(ends) + 1
      /\ \A k \in 1..Len(ends) : ends'[k] = ends[k]
      /\ ends'[Len(ends) + 1] = OffsetOf(Len(ends)) + size
  BY <1>1, <1>2
<1>4. \A k \in 0..Len(ends) : Off(ends', k) = Off(ends, k) /\ Place(ends', k) = Place(ends, k)
  BY <1>2, <1>3 DEF Off, Place
<1>5. Off(ends', Len(ends) + 1) = Off(ends, Len(ends)) + size
  BY <1>2, <1>3 DEF Off, OffsetOf
<1>6. TypeOK'
  BY <1>3 DEF WriteFrame, IndexInv, TypeOK
<1>7. ASSUME NEW i \in 0..Len(ends'), NEW j \in 0..Len(ends'), i < j
      PROVE  Off(ends', i) < Off(ends', j)
  <2>1. i \in 0..Len(ends) /\ Off(ends', i) = Off(ends, i) /\ Off(ends, i) \in Nat
    BY <1>2, <1>3, <1>4, <1>7, OffsetFacts, SMTT(20)
  <2>2. CASE j = Len(ends) + 1
    <3>1. Off(ends, i) <= Off(ends, Len(ends)) /\ Off(ends, Len(ends)) \in Nat
      <4>1. i = Len(ends) \/ i < Len(ends)
        BY <1>2, <2>1
      <4>2. Len(ends) \in 0..Len(ends) /\ Off(ends, Len(ends)) \in Nat
        BY <1>2, OffsetFacts
      <4> QED BY <2>1, <4>1, <4>2, InvFacts
    <3> QED BY <1>2, <1>5, <2>1, <2>2, <3>1
  <2>3. CASE j \in 0..Len(ends)
    BY <1>4, <1>7, <2>1, <2>3, InvFacts
  <2> QED BY <1>2, <1>3, <2>2, <2>3
<1>8. FileAscends'
  BY <1>7 DEF FileAscends, OffsetOf, Off
<1>9. reach' = reach /\ reach = write.index /\ pc' = "write"
  BY DEF WriteFrame, reach
<1>10. Positions'
  <2>1. start = Place(ends', start.index) /\ write = Place(ends', write.index)
        /\ start.index <= write.index /\ write.index <= Len(ends')
    <3>1. start.index \in 0..Len(ends) /\ start = Place(ends, start.index)
          /\ write.index \in 0..Len(ends) /\ write = Place(ends, write.index)
      BY InvFacts
    <3>2. start.index <= write.index
      BY DEF WriteFrame, IndexInv, Positions
    <3>3. Place(ends', start.index) = Place(ends, start.index)
          /\ Place(ends', write.index) = Place(ends, write.index)
      BY <1>4, <3>1 DEF Place
    <3> QED BY <1>2, <1>3, <3>1, <3>2, <3>3
  <2> QED BY <1>2, <1>3, <1>9, <2>1 DEF WriteFrame, Positions, Place, Off, Frame, OffsetOf, Position, IndexInv, TypeOK
<1>11. \A x : Has(entries, x) => x.index <= reach /\ x.offset = Off(ends', x.index)
  <2>1. \A x : Has(entries, x) => x.index \in 0..Len(ends) /\ x.index <= reach /\ x.offset = Off(ends, x.index)
    BY EntryFacts DEF Position
  <2> QED BY <1>4, <2>1
<1>12. \A m \in start.index..(reach - 1) : m % Stride = 0 => Has(entries, Place(ends', m))
  <2>1. \A m \in start.index..(reach - 1) : m \in 0..Len(ends)
    BY <1>2, InvFacts
  <2> QED BY <1>4, <2>1, InvFacts
<1> QED
  BY <1>6, <1>8, <1>9, <1>10, <1>11, <1>12, InvFacts, FromEntries DEF WriteFrame, CheckpointsExact

\* Trim takes back only frames behind every checkpoint.
LEMMA WriteFailsInv ==
  ASSUME IndexInv, WriteFails
  PROVE  IndexInv'
<1>1. ends' = SubSeq(ends, 1, write.index) /\ pc = "write" /\ pc' = "idle"
      /\ entries' = entries /\ start' = start /\ write' = write /\ at' = at
  BY DEF WriteFails
<1>2. write.index \in 0..Len(ends) /\ TypeOK /\ FileAscends
  BY InvFacts DEF IndexInv
<1>3. /\ ends' \in Seq(Nat) /\ Len(ends') = write.index /\ FileAscends'
      /\ \A k \in 0..write.index : Off(ends', k) = Off(ends, k) /\ Place(ends', k) = Place(ends, k)
  BY <1>1, <1>2, CutFacts
<1>4. TypeOK'
  BY <1>1, <1>3 DEF IndexInv, TypeOK
<1>5. reach' = reach /\ reach = write.index /\ start.index \in 0..write.index
  BY <1>1, InvFacts DEF reach, IndexInv, Positions
<1>6. Positions'
  <2>1. start = Place(ends', start.index) /\ write = Place(ends', write.index)
    BY <1>2, <1>3, <1>5, InvFacts
  <2> QED BY <1>1, <1>2, <1>3, <1>5, <2>1, SMTT(20) DEF Positions, Place, Off, Frame, OffsetOf
<1>7. \A x : Has(entries, x) => x.index <= reach /\ x.offset = Off(ends', x.index)
  <2>1. \A x : Has(entries, x) => x.index \in 0..write.index /\ x.offset = Off(ends, x.index)
    BY <1>2, <1>5, EntryFacts DEF Position
  <2> QED BY <1>3, <1>5, <2>1
<1>8. \A m \in start.index..(reach - 1) : m % Stride = 0 => Has(entries, Place(ends', m))
  <2>1. \A m \in start.index..(reach - 1) : m \in 0..write.index
    BY <1>2, <1>5
  <2> QED BY <1>3, <2>1, InvFacts
<1> QED
  BY <1>1, <1>3, <1>4, <1>5, <1>6, <1>7, <1>8, InvFacts, FromEntries

\* The loops begin at a place of a frame, with nothing to sample before it.
LEMMA LoopBeginsInv ==
  ASSUME IndexInv, Persisted \/ BuildIndex \/ Built
  PROVE  IndexInv'
<1>1. /\ entries' = entries /\ ends' = ends /\ start' = start /\ write' = write
      /\ \/ pc = "write" /\ pc' = "append" /\ at' = write
         \/ pc = "idle" /\ pc' = "build" /\ at' = start
         \/ pc = "build" /\ pc' = "idle" /\ at' = at
  BY DEF Persisted, BuildIndex, Built
<1>2. TypeOK' /\ CheckpointsExact' /\ FileAscends'
  BY <1>1 DEF IndexInv, TypeOK, CheckpointsExact, FileAscends, OffsetOf, Ascending
<1>3. reach' = reach
  BY <1>1 DEF reach
<1>4. Positions'
  BY <1>1, <1>3, InvFacts DEF IndexInv, Positions, Frame, OffsetOf, reach
<1>5. Sampling'
  BY <1>1, <1>3 DEF IndexInv, Sampling, Has, Frame, OffsetOf, First
<1> QED BY <1>2, <1>4, <1>5 DEF IndexInv

\* A frame is sampled at its place.
LEMMA SampleInv ==
  ASSUME IndexInv, Sample
  PROVE  IndexInv'
<1>1. /\ pc \in {"append", "load", "build"} /\ at.index < Len(ends)
      /\ entries' = SparseSet(entries, at) /\ at' = Frame(at.index + 1)
      /\ ends' = ends /\ start' = start /\ write' = write /\ pc' = pc
  BY DEF Sample
<1>2. at \in Position /\ at.index \in Nat /\ at = Place(ends, at.index) /\ Len(ends) \in Nat
  BY <1>1, InvFacts, SMTT(20) DEF IndexInv, Positions, Place, Off, Frame, OffsetOf, Position
<1>3. at' = Place(ends, at.index + 1) /\ at' \in Position /\ at'.index = at.index + 1
  <2>1. at' = Place(ends, at.index + 1)
    BY <1>1 DEF Place, Off, Frame, OffsetOf
  <2>2. at.index + 1 \in 0..Len(ends)
    BY <1>1, <1>2
  <2>3. Place(ends, at.index + 1) \in Position
    BY <2>2, InvFacts, OffsetFacts
  <2> QED BY <2>1, <2>3 DEF Place
<1>4. /\ entries' \in Seq(Position) /\ Ascending(entries')
      /\ \A x : Has(entries', x) => Has(entries, x) \/ x = at
      /\ \A x : Has(entries, x) => Has(entries', x)
      /\ at.index % Stride = 0 => Has(entries', at)
  <2> DEFINE F == [k \in Nat |-> Off(ends, k)]
  <2>1. at.offset = F[at.index] /\ \A x : Has(entries, x) => x.offset = F[x.index]
    BY <1>2, EntryFacts, SMTT(20) DEF Place, Position
  <2> HIDE DEF F
  <2>2. LET t == Set(entries, at)
        IN  /\ t \in Seq(Position)
            /\ Ascending(t)
            /\ \A x : Has(t, x) <=> Has(entries, x) \/ x = at
    BY <1>2, <2>1, InvFacts, SetExact
  <2> QED BY <1>1, <2>2, InvFacts DEF SparseSet
<1>5. TypeOK'
  BY <1>1, <1>3, <1>4 DEF IndexInv, TypeOK
<1>6. FileAscends'
  BY <1>1 DEF IndexInv, FileAscends, OffsetOf
<1>7. /\ pc \in {"append", "load"} => reach = at.index /\ reach' = at.index + 1
      /\ pc = "build" => reach = write.index /\ reach' = write.index /\ write.index = Len(ends)
  BY <1>1, <1>3 DEF reach, IndexInv, Positions
<1>8. Positions'
  BY <1>1, <1>2, <1>3, <1>7, InvFacts DEF IndexInv, Positions, Place, Off, Frame, OffsetOf
<1>9. \A x : Has(entries', x) => x.index <= reach' /\ x.offset = Off(ends', x.index)
  <2>1. \A x : Has(entries, x) => x.index \in Nat /\ x.index <= reach /\ x.offset = Off(ends, x.index)
    BY EntryFacts, SMTT(20) DEF Position
  <2>2. at.index <= reach' /\ reach <= reach' /\ at.offset = Off(ends, at.index) /\ reach \in Nat /\ reach' \in Nat
    BY <1>1, <1>2, <1>7, InvFacts DEF Place
  <2> QED BY <1>1, <1>2, <1>4, <2>1, <2>2, SMTT(20)
<1>10. \A m \in start.index..(reach' - 1) : m % Stride = 0 => Has(entries', Place(ends', m))
  <2>1. \A m \in start.index..(reach - 1) : m % Stride = 0 => Has(entries', Place(ends, m))
    BY <1>4, InvFacts
  <2>2. \A m \in start.index..(reach' - 1) : m \in start.index..(reach - 1) \/ m = at.index
    BY <1>1, <1>2, <1>7, InvFacts
  <2> QED BY <1>1, <1>2, <1>4, <2>1, <2>2
<1> QED
  BY <1>1, <1>4, <1>5, <1>6, <1>8, <1>9, <1>10, InvFacts, FromEntries

\* The end of a loop is the terminal anchor.
LEMMA SampledInv ==
  ASSUME IndexInv, Sampled
  PROVE  IndexInv'
<1>1. /\ pc \in {"append", "load"} /\ at.index = Len(ends) /\ pc' = "idle"
      /\ write' = at /\ entries' = Set(entries, at)
      /\ ends' = ends /\ start' = start /\ at' = at
  BY DEF Sampled
<1>2. at \in Position /\ at = Place(ends, at.index) /\ Len(ends) \in Nat
  BY <1>1, InvFacts DEF IndexInv, Positions, Place, Off, Frame, OffsetOf
<1>3. /\ entries' \in Seq(Position) /\ Ascending(entries')
      /\ \A x : Has(entries', x) <=> Has(entries, x) \/ x = at
  <2> DEFINE F == [k \in Nat |-> Off(ends, k)]
  <2>1. at.offset = F[at.index] /\ \A x : Has(entries, x) => x.offset = F[x.index]
    BY <1>1, <1>2, EntryFacts, SMTT(20) DEF Place, Position
  <2> HIDE DEF F
  <2>2. LET t == Set(entries, at)
        IN  /\ t \in Seq(Position)
            /\ Ascending(t)
            /\ \A x : Has(t, x) <=> Has(entries, x) \/ x = at
    BY <1>2, <2>1, InvFacts, SetExact
  <2> QED BY <1>1, <2>2
<1>4. TypeOK' /\ FileAscends'
  BY <1>1, <1>2, <1>3 DEF IndexInv, TypeOK, FileAscends, OffsetOf
<1>5. reach = at.index /\ reach' = at.index
  BY <1>1 DEF reach
<1>6. Positions'
  BY <1>1, <1>2, <1>5, InvFacts DEF IndexInv, Positions, Place, Off, Frame, OffsetOf
<1>7. \A x : Has(entries', x) => x.index <= reach' /\ x.offset = Off(ends', x.index)
  <2>1. \A x : Has(entries, x) => x.index <= reach /\ x.offset = Off(ends, x.index)
    BY EntryFacts
  <2>2. at.index <= at.index /\ at.offset = Off(ends, at.index)
    BY <1>1, <1>2 DEF Place
  <2> QED BY <1>1, <1>3, <1>5, <2>1, <2>2
<1>8. \A m \in start.index..(reach - 1) : m % Stride = 0 => Has(entries', Place(ends', m))
  BY <1>1, <1>3, InvFacts
<1> QED
  BY <1>1, <1>3, <1>4, <1>5, <1>6, <1>7, <1>8, InvFacts, FromEntries

\* Truncate cuts file and index at the same frame.
LEMMA TruncateInv ==
  ASSUME IndexInv, Truncate
  PROVE  IndexInv'
<1>1. PICK idx \in start.index..write.index :
        /\ ends' = SubSeq(ends, 1, idx)
        /\ write' = [index |-> idx, offset |-> offsetForIndex(entries, idx)]
  BY DEF Truncate
<1>2. /\ pc = "idle" /\ pc' = "idle" /\ start' = start /\ at' = at
      /\ entries' = Anchor(TruncateAfter(entries, idx), start, write')
  BY <1>1 DEF Truncate
<1>3. /\ idx \in 0..Len(ends) /\ idx \in Nat /\ start.index \in Nat /\ start.index <= idx
      /\ idx <= write.index /\ write.index \in Nat
  BY InvFacts DEF Position
<1>4. /\ ends' \in Seq(Nat) /\ Len(ends') = idx /\ FileAscends'
      /\ \A k \in 0..idx : Off(ends', k) = Off(ends, k) /\ Place(ends', k) = Place(ends, k)
  BY <1>1, <1>3, CutFacts DEF IndexInv
<1>5. write' = Place(ends, idx) /\ write' = Place(ends', idx) /\ write' \in Position
  <2>1. write' = Place(ends, idx)
    BY <1>1, <1>3, OffsetLookup DEF Place
  <2> QED BY <1>3, <1>4, <2>1, InvFacts, OffsetFacts
<1>6. start = Place(ends', start.index)
  BY <1>3, <1>4, InvFacts
<1> DEFINE s == TruncateAfter(entries, idx)
<1>7. /\ s \in Seq(Position) /\ Ascending(s)
      /\ \A x : Has(s, x) <=> Has(entries, x) /\ x.index <= idx
  BY <1>3, InvFacts, TruncateAfterFacts
<1> HIDE DEF s
<1>8. \A x : Has(s, x) \/ x \in {First, start, write'} =>
         x.index \in 0..idx /\ x.offset = Off(ends', x.index)
  <2>1. \A x : Has(s, x) => x.index \in 0..idx /\ x.offset = Off(ends, x.index)
    BY <1>3, <1>7, EntryFacts DEF Position
  <2>2. First.index \in 0..idx /\ First.offset = Off(ends', First.index)
    BY <1>3 DEF First, Off
  <2>3. start.index \in 0..idx /\ start.offset = Off(ends', start.index)
    BY <1>3, <1>6 DEF Place
  <2>4. write'.index \in 0..idx /\ write'.offset = Off(ends', write'.index)
    BY <1>3, <1>5 DEF Place
  <2> QED BY <1>4, <2>1, <2>2, <2>3, <2>4
<1>9. /\ entries' \in Seq(Position) /\ Ascending(entries')
      /\ \A x : Has(entries', x) <=> Has(s, x) \/ x \in {First, start, write'}
  <2> DEFINE F == [k \in 0..idx |-> Off(ends', k)]
  <2>1. \A x : Has(s, x) \/ x \in {First, start, write'} => x.offset = F[x.index]
    BY <1>8
  <2> HIDE DEF F
  <2>2. LET t == Anchor(s, start, write')
        IN  /\ t \in Seq(Position)
            /\ Ascending(t)
            /\ \A x : Has(t, x) <=> Has(s, x) \/ x \in {First, start, write'}
    <3>1. start \in Position
      BY InvFacts
    <3> QED BY <1>5, <1>7, <2>1, <3>1, AnchorFacts, SMTT(20)
  <2> QED BY <1>2, <2>2 DEF s
<1>10. TypeOK'
  BY <1>2, <1>4, <1>5, <1>9 DEF IndexInv, TypeOK
<1>11. reach' = idx /\ reach = write.index /\ write'.index = idx
  BY <1>1, <1>2 DEF reach
<1>12. Positions'
  BY <1>2, <1>3, <1>4, <1>5, <1>6, <1>11, SMTT(20) DEF Positions, Place, Off, Frame, OffsetOf
<1>13. \A x : Has(entries', x) => x.index <= reach' /\ x.offset = Off(ends', x.index)
  BY <1>3, <1>8, <1>9, <1>11
<1>14. ASSUME NEW m \in start.index..(reach' - 1), m % Stride = 0
       PROVE  Has(entries', Place(ends', m))
  <2>1. m \in start.index..(reach - 1) /\ m \in 0..idx
    BY <1>3, <1>11
  <2>2. Has(entries, Place(ends, m)) /\ Place(ends, m).index = m
    BY <1>14, <2>1, InvFacts DEF Place
  <2> QED BY <1>3, <1>4, <1>7, <1>9, <2>1, <2>2
<1> QED
  BY <1>2, <1>4, <1>9, <1>10, <1>12, <1>13, <1>14, FromEntries

\* SetReadOffset forgets checkpoints, none of them behind the read start.
LEMMA SetReadOffsetInv ==
  ASSUME IndexInv, SetReadOffset
  PROVE  IndexInv'
<1>1. PICK idx \in start.index..write.index :
        start' = [index |-> indexForOffset(entries, offsetForIndex(entries, idx)),
                  offset |-> offsetForIndex(entries, idx)]
  BY DEF SetReadOffset
<1>2. /\ pc = "idle" /\ pc' = "idle" /\ ends' = ends /\ write' = write /\ at' = at
      /\ entries' = Anchor(TruncateBefore(entries, start'.index), start', write)
  BY DEF SetReadOffset
<1>3. /\ idx \in 0..Len(ends) /\ idx \in Nat /\ start.index \in Nat /\ start.index <= idx
      /\ idx <= write.index /\ write.index \in Nat
  BY InvFacts DEF Position
<1>4. start' = Place(ends, idx) /\ start' \in Position /\ start'.index = idx
  <2>1. offsetForIndex(entries, idx) = Off(ends, idx)
    BY <1>3, OffsetLookup
  <2>2. Off(ends, idx) \in Nat /\ HeaderSize <= Off(ends, idx) /\ Place(ends, idx) \in Position
    <3>1. Off(ends, 0) = HeaderSize /\ 0 \in 0..Len(ends) /\ Off(ends, idx) \in Nat
          /\ Place(ends, idx) \in Position
      BY <1>3, InvFacts, OffsetFacts DEF Off
    <3>2. idx = 0 \/ Off(ends, 0) < Off(ends, idx)
      BY <1>3, <3>1, InvFacts
    <3> QED BY <3>1, <3>2, IndexConstants
  <2>3. indexForOffset(entries, Off(ends, idx)) = idx
    BY <1>3, <2>2, IndexLookup
  <2> QED BY <1>1, <2>1, <2>2, <2>3 DEF Place
<1> DEFINE s == TruncateBefore(entries, idx)
<1>5. /\ s \in Seq(Position) /\ Ascending(s)
      /\ \A x : Has(s, x) => Has(entries, x)
      /\ \A x : Has(entries, x) /\ x.index >= idx => Has(s, x)
  BY <1>3, InvFacts, TruncateBeforeFacts
<1> HIDE DEF s
<1>6. reach' = write.index /\ reach = write.index /\ write.index = Len(ends)
  BY <1>2 DEF reach, IndexInv, Positions
<1>7. \A x : Has(s, x) \/ x \in {First, start', write} =>
         x.index \in 0..Len(ends) /\ x.offset = Off(ends, x.index)
  <2>1. \A x : Has(s, x) => x.index \in 0..Len(ends) /\ x.offset = Off(ends, x.index)
    BY <1>5, <1>6, EntryFacts DEF Position
  <2>2. First.index \in 0..Len(ends) /\ First.offset = Off(ends, First.index)
    BY <1>3 DEF First, Off
  <2>3. start'.index \in 0..Len(ends) /\ start'.offset = Off(ends, start'.index)
    BY <1>3, <1>4 DEF Place
  <2>4. write.index \in 0..Len(ends) /\ write.offset = Off(ends, write.index)
    BY InvFacts DEF Place
  <2> QED BY <2>1, <2>2, <2>3, <2>4
<1>8. /\ entries' \in Seq(Position) /\ Ascending(entries')
      /\ \A x : Has(entries', x) <=> Has(s, x) \/ x \in {First, start', write}
  <2> DEFINE F == [k \in 0..Len(ends) |-> Off(ends, k)]
  <2>1. \A x : Has(s, x) \/ x \in {First, start', write} => x.offset = F[x.index]
    BY <1>7
  <2> HIDE DEF F
  <2>2. LET t == Anchor(s, start', write)
        IN  /\ t \in Seq(Position)
            /\ Ascending(t)
            /\ \A x : Has(t, x) <=> Has(s, x) \/ x \in {First, start', write}
    <3>1. write \in Position
      BY InvFacts
    <3> QED BY <1>4, <1>5, <2>1, <3>1, AnchorFacts, SMTT(20)
  <2> QED BY <1>2, <1>4, <2>2 DEF s
<1>9. TypeOK' /\ FileAscends'
  BY <1>2, <1>4, <1>8 DEF IndexInv, TypeOK, FileAscends, OffsetOf
<1>10. Positions'
  BY <1>2, <1>3, <1>4, <1>6, InvFacts DEF Positions, Place, Off, Frame, OffsetOf
<1>11. \A x : Has(entries', x) => x.index <= reach' /\ x.offset = Off(ends', x.index)
  BY <1>2, <1>3, <1>6, <1>7, <1>8
<1>12. ASSUME NEW m \in start'.index..(reach' - 1), m % Stride = 0
       PROVE  Has(entries', Place(ends', m))
  <2>1. m \in start.index..(reach - 1) /\ m >= idx
    BY <1>3, <1>4, <1>6
  <2>2. Has(entries, Place(ends, m)) /\ Place(ends, m).index = m
    BY <1>12, <2>1, InvFacts DEF Place
  <2> QED BY <1>2, <1>5, <1>8, <2>1, <2>2
<1> QED
  BY <1>2, <1>8, <1>9, <1>10, <1>11, <1>12, FromEntries

\* Load starts from the anchors of the file it finds.
LEMMA LoadInv ==
  ASSUME IndexInv, Load
  PROVE  IndexInv'
<1>1. PICK n \in start.index..Len(ends) :
        /\ ends' = SubSeq(ends, 1, n) /\ write' = First
        /\ entries' = Anchor(Anchor(<< >>, First, First), start, First)
        /\ pc' = "load" /\ at' = start /\ start' = start
  BY DEF Load
<1>2. n \in 0..Len(ends) /\ start.index \in 0..n /\ start.index \in Nat /\ n \in Nat
  BY InvFacts DEF Position
<1>3. /\ ends' \in Seq(Nat) /\ Len(ends') = n /\ FileAscends'
      /\ \A k \in 0..n : Off(ends', k) = Off(ends, k) /\ Place(ends', k) = Place(ends, k)
  BY <1>1, <1>2, CutFacts DEF IndexInv
<1>4. /\ start = Place(ends', start.index) /\ start \in Position
      /\ First = Place(ends', 0) /\ First \in Position /\ First.index = 0
  BY <1>2, <1>3, InvFacts, OffsetFacts, IndexConstants DEF First, Position
<1> DEFINE s == Anchor(<< >>, First, First)
<1>5. s \in Seq(Position) /\ Ascending(s) /\ \A x : Has(s, x) <=> x = First
  BY FreshFacts
<1>6. entries' = Anchor(s, start, First)
  BY <1>1
<1> HIDE DEF s
<1>7. \A x \in {First, start} : x.index \in 0..n /\ x.offset = Off(ends', x.index)
  BY <1>2, <1>4 DEF Place
<1>8. /\ entries' \in Seq(Position) /\ Ascending(entries')
      /\ \A x : Has(entries', x) <=> x \in {First, start}
  <2> DEFINE F == [k \in 0..n |-> Off(ends', k)]
  <2>1. \A x : Has(s, x) \/ x \in {First, start, First} => x.offset = F[x.index]
    BY <1>5, <1>7
  <2> HIDE DEF F
  <2>2. LET t == Anchor(s, start, First)
        IN  /\ t \in Seq(Position)
            /\ Ascending(t)
            /\ \A x : Has(t, x) <=> Has(s, x) \/ x \in {First, start, First}
    BY <1>4, <1>5, <2>1, AnchorFacts, SMTT(20)
  <2> QED BY <1>5, <1>6, <2>2
<1>9. TypeOK'
  BY <1>1, <1>3, <1>4, <1>8 DEF IndexInv, TypeOK
<1>10. reach' = start.index
  BY <1>1 DEF reach
<1>11. Positions'
  BY <1>1, <1>2, <1>3, <1>4, <1>10, SMTT(20) DEF Positions, Place, Off, Frame, OffsetOf
<1>12. \A x : Has(entries', x) => x.index <= reach' /\ x.offset = Off(ends', x.index)
  BY <1>2, <1>4, <1>7, <1>8, <1>10
<1>13. \A m \in start.index..(reach' - 1) : FALSE
  BY <1>2, <1>10
<1> QED
  BY <1>1, <1>3, <1>8, <1>9, <1>11, <1>12, <1>13, FromEntries

\* A new segment satisfies the invariant.
LEMMA InitInv == Init => IndexInv
<1> SUFFICES ASSUME Init
             PROVE  IndexInv
  OBVIOUS
<1>1. entries = Anchor(<< >>, First, First) /\ ends = << >> /\ start = First /\ write = First
      /\ pc = "idle" /\ at = First /\ First.index = 0 /\ First \in Position
  BY IndexConstants DEF Init, First, Position
<1>2. entries \in Seq(Position) /\ Ascending(entries) /\ \A x : Has(entries, x) <=> x = First
  BY <1>1, FreshFacts
<1>3. \A i \in 1..Len(entries) : entries[i] = First
  BY <1>2 DEF Has
<1>4. reach = 0 /\ Len(ends) = 0 /\ First = Frame(0) /\ ends \in Seq(Nat)
  BY <1>1 DEF reach, Frame, OffsetOf, First
<1>5. TypeOK /\ FileAscends
  BY <1>1, <1>2, <1>4 DEF TypeOK, FileAscends
<1>6. CheckpointsExact
  BY <1>1, <1>2, <1>3, <1>4, SMTT(20) DEF CheckpointsExact, Frame
<1>7. Positions
  BY <1>1, <1>4 DEF Positions
<1>8. Sampling
  BY <1>1, <1>2, <1>3, <1>4 DEF Sampling
<1> QED BY <1>5, <1>6, <1>7, <1>8 DEF IndexInv

\* Every step keeps it.
LEMMA StepInv == IndexInv /\ [Next]_vars => IndexInv'
<1> SUFFICES ASSUME IndexInv, [Next]_vars
             PROVE  IndexInv'
  OBVIOUS
<1>1. CASE UNCHANGED vars
  <2>1. reach' = reach
    BY <1>1 DEF vars, reach
  <2> QED BY <1>1, <2>1, SMTT(20) DEF IndexInv, TypeOK, CheckpointsExact, FileAscends, Positions, Sampling,
        vars, Ascending, OffsetOf, Frame, First, Has
<1>2. CASE Next
  BY <1>2, WriteFrameInv, WriteFailsInv, LoopBeginsInv, SampleInv, SampledInv, TruncateInv,
     SetReadOffsetInv, LoadInv DEF Next
<1> QED BY <1>1, <1>2

\* The invariant holds of every reachable state.
LEMMA IndexInvariant == Spec => []IndexInv
BY InitInv, StepInv, PTL DEF Spec

\* Between two multiples of the stride there are fewer frames than the stride.
LEMMA Multiple ==
  ASSUME NEW n \in Nat
  PROVE  \E m \in 0..n : m % Stride = 0 /\ n < m + Stride
<1> DEFINE d == Stride
<1>0. d \in Nat /\ d > 0
  BY IndexConstants
<1> HIDE DEF d
<1>1. n % d \in 0..(d - 1) /\ n \div d \in Int
  BY <1>0
<1>2. n = d * (n \div d) + (n % d)
  BY <1>0
<1>3. \A q \in Int : (d * q) % d = 0
  BY <1>0
<1>4. n - (n % d) = d * (n \div d) /\ n - (n % d) \in Int /\ n % d <= n
  BY <1>0, <1>1, <1>2
<1> QED BY <1>0, <1>1, <1>3, <1>4 DEF d

(***************************************************************************)
(* The theorems.                                                           *)
(***************************************************************************)

\* For every stride, frame size and history, the checkpoints ascend and each
\* is the exact place of a frame (Set, TruncateAfter, TruncateBefore,
\* anchorSparseIndex and their callers in segment.go).
THEOREM IndexExact == Spec => []CheckpointsExact
<1>1. IndexInv => CheckpointsExact
  BY DEF IndexInv
<1> QED BY <1>1, IndexInvariant, PTL

\* Find, Truncate and SetReadOffset are always told the right place, and an
\* offset inside a frame is always refused (offsetForIndex, indexForOffset).
THEOREM FindsExact == Spec => []LookupsExact
<1>1. ASSUME IndexInv
      PROVE  LookupsExact
  <2>1. ASSUME NEW n \in start.index..write.index
        PROVE  offsetForIndex(entries, n) = OffsetOf(n)
    <3>1. n \in 0..Len(ends)
      BY <1>1, InvFacts DEF Position
    <3> QED BY <1>1, <3>1, OffsetLookup DEF Off, OffsetOf
  <2>2. ASSUME NEW offset \in HeaderSize..write.offset
        PROVE  LET n == indexForOffset(entries, offset)
               IN  IF \E k \in 0..Len(ends) : OffsetOf(k) = offset
                   THEN n # Fail /\ OffsetOf(n) = offset
                   ELSE n = Fail
    <3>1. offset \in Nat /\ HeaderSize <= offset /\ Len(ends) \in Nat
      BY <1>1, InvFacts, IndexConstants, SMTT(20) DEF Position
    <3>2. \A k \in 0..Len(ends) : OffsetOf(k) = Off(ends, k) /\ k # Fail
      BY <3>1 DEF Off, OffsetOf, Fail
    <3> QED BY <1>1, <3>1, <3>2, IndexLookup
  <2> QED BY <2>1, <2>2 DEF LookupsExact
<1> QED BY <1>1, IndexInvariant, PTL

\* A lookup in the readable range reads fewer headers than the stride.
THEOREM WalksShort == Spec => []ShortWalks
<1>1. ASSUME IndexInv, pc # "load", NEW n \in start.index..write.index
      PROVE  \E i \in 1..Len(entries) :
               entries[i].index <= n /\ n < entries[i].index + Stride
  <2>1. start.index \in Nat /\ write.index \in Nat /\ n \in Nat /\ Stride \in Nat \ {0}
        /\ reach \in Nat /\ write.index <= reach
    BY <1>1, InvFacts, IndexConstants, SMTT(20) DEF Position, IndexInv, Positions
  <2>2. PICK m \in 0..n : m % Stride = 0 /\ n < m + Stride
    BY <2>1, Multiple
  <2>3. CASE m < start.index
    <3>1. start.index <= n /\ n < start.index + Stride
      BY <2>1, <2>2, <2>3
    <3> QED BY <1>1, <3>1, InvFacts DEF Has
  <2>4. CASE m >= start.index /\ m < reach
    <3>1. Has(entries, Place(ends, m)) /\ Place(ends, m).index = m
      BY <1>1, <2>1, <2>2, <2>4, InvFacts DEF Place
    <3> QED BY <2>1, <2>2, <3>1 DEF Has
  <2>5. CASE m >= reach
    <3>1. m = write.index /\ n = write.index
      BY <2>1, <2>2, <2>5
    <3>2. PICK i \in 1..Len(entries) : entries[i] = write
      BY <1>1, InvFacts DEF Has
    <3> QED BY <2>1, <3>1, <3>2
  <2> QED BY <2>1, <2>2, <2>3, <2>4, <2>5
<1>2. IndexInv => ShortWalks
  BY <1>1 DEF ShortWalks
<1> QED BY <1>2, IndexInvariant, PTL
=============================================================================

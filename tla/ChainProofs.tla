---------------------------- MODULE ChainProofs -----------------------------
(***************************************************************************)
(* The theorems about module Chain, for every configuration, every set of  *)
(* batches and every combination of failing storage calls that a theorem   *)
(* does not except: the shape of the chain and its bounds, what a reader   *)
(* finds and what none does, and what the chain counts.                    *)
(***************************************************************************)
EXTENDS ChainStepProofs, ChainReadProofs, ChainExactProofs, WellFoundedInduction

\* A leaf with no prover named may take each prover this long (in seconds).
USE ZenonT(20), SMTT(40)

(***************************************************************************)
(* The theorems.                                                           *)
(***************************************************************************)
\* The inductive invariant holds in every reachable state of the chain.
THEOREM Inductive == Spec => []IInv
BY InitInv, NextInv, PTL DEF Spec

\* Handlers and storage keep the types the code gives them, whatever is
\* appended, truncated or forced out and whatever storage call fails.
THEOREM TypeCorrect == Spec => []TypeOK
<1>1. IInv => TypeOK
  BY DEF IInv
<1> QED BY <1>1, Inductive, PTL

\* The segments of a chain cover one gapless range of sequence numbers, and
\* only the first can have lost records at its front.
THEOREM ChainContiguous == Spec => []Contiguous
<1>1. IInv => Contiguous
  BY DEF IInv
<1> QED BY <1>1, Inductive, PTL

\* The running total never exceeds MaxDiskSize and the chain never holds more
\* than MaxSegments segments, for every limit at least as large as a header.
THEOREM RetentionHolds == Spec => []RetentionBounds
<1>1. IInv => RetentionBounds
  BY DEF IInv
<1> QED BY <1>1, Inductive, PTL

-----------------------------------------------------------------------------
(***************************************************************************)
(* What a reader finds.                                                    *)
(***************************************************************************)
\* No record whose Append succeeded is lost, moved to another sequence number
\* or replaced before it is truncated or reaped, whatever is appended, truncated,
\* forced out or closed and whatever storage call fails, one excepted: an fsync
\* that fails after TruncateAfter has cut the file, with which the code leaves
\* the segment longer than its file (run truncate_sync_fault).
THEOREM AckedStayReadable ==
  ASSUME "truncateSync" \notin Faulty
  PROVE  Spec => []AckedReadable
<1>1. IInv /\ RInv => AckedReadable
  BY ScanFinds DEF AckedReadable
<1>2. IInv /\ RInv /\ [Next]_vars => (IInv /\ RInv)'
  BY NextInv, NextRead
<1>3. Init => IInv /\ RInv
  BY InitInv, InitRead
<1> QED BY <1>1, <1>2, <1>3, PTL DEF Spec

-----------------------------------------------------------------------------
(***************************************************************************)
(* What the chain counts.                                                  *)
(***************************************************************************)
\* A running sum is the only function with its recursive equation.
LEMMA SumsUnique ==
  ASSUME NEW n \in Nat, NEW c, NEW t, Sums(t, c, n), NEW f,
         f = [i \in 0..n |-> IF i = 0 THEN 0 ELSE f[i - 1] + c[i]]
  PROVE  f[n] = t[n]
<1> DEFINE bad == {i \in 0..n : f[i] # t[i]}
           R == OpToRel(<, Nat)
<1>1. SUFFICES ASSUME bad # {} PROVE FALSE
  <2>1. n \in 0..n
    OBVIOUS
  <2> QED BY <1>1, <2>1
<1>2. bad \subseteq Nat
  BY SMTT(20)
<1>3. IsWellFoundedOn(R, Nat)
  BY NatLessThanWellFounded, Zenon
<1>4. PICK i \in bad : \A j \in bad : ~(<<j, i>> \in R)
  <2> HIDE DEF bad, R
  <2> QED BY <1>1, <1>2, <1>3, WFMin, ZenonT(40)
<1>5. \A j, k \in Nat : j < k => <<j, k>> \in R
  <2>1. R = {p \in Nat \X Nat : p[1] < p[2]}
    BY DEF OpToRel
  <2> QED BY <2>1, Zenon
<1> HIDE DEF R
<1>6. i \in 0..n /\ f[i] # t[i]
  OBVIOUS
<1>7. f[i] = IF i = 0 THEN 0 ELSE f[i - 1] + c[i]
  BY <1>6
<1>8. i # 0
  BY <1>6, <1>7 DEF Sums
<1>9. i \in 1..n /\ i - 1 \in 0..n /\ i - 1 \in Nat /\ i \in Nat /\ i - 1 < i
  BY <1>6, <1>8, SMTT(20)
<1>10. i - 1 \notin bad
  <2> HIDE DEF bad
  <2> QED BY <1>4, <1>5, <1>9, ZenonT(40)
<1>11. f[i - 1] = t[i - 1]
  BY <1>9, <1>10
<1>12. t[i] = t[i - 1] + c[i]
  BY <1>9 DEF Sums
<1> QED BY <1>6, <1>7, <1>8, <1>11, <1>12

\* The total that the properties define is the last of the sums.
LEMMA SumsTotal ==
  ASSUME NEW n \in Nat, NEW c, NEW t, Sums(t, c, n)
  PROVE  (CHOOSE f : f = [i \in 0..n |-> IF i = 0 THEN 0 ELSE f[i - 1] + c[i]])[n] = t[n]
<1>1. t = [i \in 0..n |-> IF i = 0 THEN 0 ELSE t[i - 1] + c[i]]
  BY SMTT(20) DEF Sums
<1> DEFINE P(f) == f = [i \in 0..n |-> IF i = 0 THEN 0 ELSE f[i - 1] + c[i]]
<1>2. P(CHOOSE f : P(f))
  <2>1. \E f : P(f)
    BY <1>1
  <2> HIDE DEF P
  <2> QED BY <2>1, Zenon
<1>3. PICK g : g = CHOOSE f : P(f)
  OBVIOUS
<1>4. g = [i \in 0..n |-> IF i = 0 THEN 0 ELSE g[i - 1] + c[i]]
  BY <1>2, <1>3
<1>5. g[n] = t[n]
  BY <1>4, SumsUnique, SMTT(20)
<1> QED BY <1>3, <1>5

\* The chain's running total, which is all that admission looks at, is the sum
\* of the sizes of the segment files that are in the directory, at every step of
\* every handler and whatever storage calls fail: a failed removal, a create
\* that is undone, a write that is trimmed and a truncation that is abandoned
\* halfway all leave it exact.
THEOREM TotalIsExact == Spec => []Accounting
<1>1. IInv /\ SInv => Accounting
  <2> SUFFICES ASSUME IInv, SInv PROVE Accounting
    OBVIOUS
  <2>1. PICK t : Totals(t)
    BY DEF SInv
  <2>2. PICK n \in Nat : n = Len(segs)
    BY SMTT(20) DEF IInv, TypeOK
  <2>3. PICK c : c = Counted
    OBVIOUS
  <2>4. Sums(t, c, n) /\ diskSize = t[n]
    BY <2>1, <2>2, <2>3 DEF Totals
  <2>5. diskSize = (CHOOSE f : f = [i \in 0..n |-> IF i = 0 THEN 0 ELSE f[i - 1] + c[i]])[n]
    BY <2>4, SumsTotal
  <2>6. \A i \in 0..n : i # 0 => c[i] = CountedSize(segs[i])
    BY <2>2, <2>3, SMTT(20) DEF Counted
  <2>7. \A f : [i \in 0..n |-> IF i = 0 THEN 0 ELSE f[i - 1] + c[i]]
             = [i \in 0..n |-> IF i = 0 THEN 0 ELSE f[i - 1] + CountedSize(segs[i])]
    BY <2>6
  <2>8. diskSize =
          (CHOOSE f : f = [i \in 0..n |-> IF i = 0 THEN 0 ELSE f[i - 1] + CountedSize(segs[i])])[n]
    BY <2>5, <2>7
  <2> QED BY <2>2, <2>8 DEF Accounting
<1>2. IInv /\ SInv /\ [Next]_vars => (IInv /\ SInv)'
  BY NextInv, NextSize
<1>3. Init => IInv /\ SInv
  BY InitInv, InitSize
<1> QED BY <1>1, <1>2, <1>3, PTL DEF Spec

\* With two segments allowed and room for two of them on disk, Append never
\* gives up for want of space: the segments that admission reaps always make
\* room for the batch, whatever calls have failed before.
THEOREM AppendFindsRoom == Spec => []ReapingMakesRoom
<1>1. SInv => ReapingMakesRoom
  BY DEF SInv
<1>2. IInv /\ SInv /\ [Next]_vars => (IInv /\ SInv)'
  BY NextInv, NextSize
<1>3. Init => IInv /\ SInv
  BY InitInv, InitSize
<1> QED BY <1>1, <1>2, <1>3, PTL DEF Spec

-----------------------------------------------------------------------------
(***************************************************************************)
(* And what no reader finds.                                               *)
(***************************************************************************)
\* sort.Search misses a sequence number only outside the chain: the segments are
\* gapless, so the first one that ends behind it also starts by then.
LEMMA KeepIndexNone ==
  ASSUME IInv, segs # <<>>, NEW seq \in Nat, KeepIndex(seq) = 0
  PROVE  seq < StartSequence(segs[1]) \/ seq >= NextSequence(lastSegment)
<1> SUFFICES ASSUME ~(seq < StartSequence(segs[1])), ~(seq >= NextSequence(lastSegment))
             PROVE  FALSE
  OBVIOUS
<1>1. PICK l \in Nat \ {0} : l = Len(segs)
  BY LastFacts
<1>2. 1 \in 1..l /\ l \in 1..l /\ lastSegment = segs[l]
  BY <1>1, LastFacts, SMTT(20)
<1>3. \A i \in 1..l : NextSequence(segs[i]) \in Nat /\ StartSequence(segs[i]) \in Nat
  BY <1>1, SegmentFacts
<1>4. StartSequence(segs[1]) <= seq /\ NextSequence(segs[l]) > seq
  BY <1>2, <1>3, SMTT(20)
<1> DEFINE behind == {i \in 1..l : NextSequence(segs[i]) > seq}
           R == OpToRel(<, Nat)
<1>5. behind # {} /\ behind \subseteq Nat
  BY <1>2, <1>4, SMTT(20)
<1>6. IsWellFoundedOn(R, Nat)
  BY NatLessThanWellFounded, Zenon
<1>7. PICK i \in behind : \A j \in behind : ~(<<j, i>> \in R)
  <2> HIDE DEF behind, R
  <2> QED BY <1>5, <1>6, WFMin, ZenonT(40)
<1>8. \A j, k \in Nat : j < k => <<j, k>> \in R
  <2>1. R = {p \in Nat \X Nat : p[1] < p[2]}
    BY DEF OpToRel
  <2> QED BY <2>1, Zenon
<1> HIDE DEF R
<1>9. i \in 1..l /\ NextSequence(segs[i]) > seq /\ i \in Nat
  BY SMTT(20)
<1>10. \A j \in 1..(i - 1) : j \in Nat /\ j < i /\ j \in 1..l
  BY <1>9, SMTT(20)
<1>11. \A j \in 1..(i - 1) : NextSequence(segs[j]) <= seq
  <2> SUFFICES ASSUME NEW j \in 1..(i - 1) PROVE NextSequence(segs[j]) <= seq
    OBVIOUS
  <2>1. j \notin behind
    <3> HIDE DEF behind
    <3> QED BY <1>7, <1>8, <1>9, <1>10, ZenonT(40)
  <2> QED BY <1>3, <1>10, <2>1, SMTT(20)
<1> HIDE DEF behind
<1>12. StartSequence(segs[i]) <= seq
  <2>1. CASE i = 1
    BY <1>4, <2>1
  <2>2. CASE i # 1
    <3>1. i \in 2..Len(segs) /\ i - 1 \in 1..(i - 1) /\ i \in 1..Len(segs)
      BY <1>1, <1>9, <2>2
    <3>2. segs[i].base = NextSequence(segs[i - 1]) /\ segs[i].startIndex = 0 /\ segs[i].base \in Nat
      BY <3>1, SegmentFacts DEF IInv, Contiguous
    <3>3. NextSequence(segs[i - 1]) <= seq
      BY <1>11, <3>1
    <3> QED BY <3>2, <3>3, SMTT(20) DEF StartSequence
  <2> QED BY <2>1, <2>2
<1> DEFINE found == {j \in 1..Len(segs) : /\ NextSequence(segs[j]) > seq
                                          /\ \A k \in 1..(j - 1) : NextSequence(segs[k]) <= seq
                                          /\ StartSequence(segs[j]) <= seq}
<1>13. i \in found /\ 0 \notin found
  BY <1>1, <1>9, <1>11, <1>12, SMTT(20)
<1>14. KeepIndex(seq) = IF found = {} THEN 0 ELSE CHOOSE j \in found : TRUE
  BY DEF KeepIndex
<1> HIDE DEF found
<1> QED BY <1>13, <1>14

\* Every step of every handler keeps it so.
LEMMA NextExact ==
  ASSUME Faulty \cap LeavingCalls = {}, "close" \notin Ops
  PROVE  IInv /\ RInv /\ EInv /\ [Next]_vars => EInv'
<1> SUFFICES ASSUME IInv, RInv, EInv, [Next]_vars PROVE EInv'
  OBVIOUS
<1>1. CASE Call
  <2>1. ASSUME NEW q \in TruncateSeqs, TruncateBeforeCall(q) \/ TruncateAfterCall(q)
        PROVE  EInv'
    <3>1. q \in Nat /\ segs # <<>>
      BY <2>1, InputAssumption DEF TruncateBeforeCall, TruncateAfterCall
    <3>2. KeepIndex(q) = 0 => q < StartSequence(segs[1]) \/ q >= NextSequence(lastSegment)
      BY <3>1, KeepIndexNone
    <3> QED BY <2>1, <3>2, TruncateCallExact
  <2>2. ~CloseCall
    BY DEF CloseCall
  <2> QED BY <1>1, <2>1, <2>2, AppendCallExact, SyncExact DEF Call
<1>2. CASE Append_
  BY <1>2, AdmitExact, ReapExact, FailsExact, WriteExact, PersistExact, TrimExact DEF Append_
<1>3. CASE Create_
  BY <1>3, CreateExact, FailsExact, SyncDirectoryExact DEF Create_
<1>4. CASE Truncate_
  BY <1>4, DropExact, DropDoneExact, SetReadExact, TruncateExact DEF Truncate_
<1>5. CASE SyncStep
  BY <1>5, SyncExact
<1>6. CASE UNCHANGED vars
  <2>1. UNCHANGED <<segs, files, dir, pc, op, acked>>
    BY <1>6 DEF vars, chainVars, storageVars
  <2> QED BY <2>1, UnchangedExact
<1> QED BY <1>1, <1>2, <1>3, <1>4, <1>5, <1>6 DEF Next, Step

\* Nothing is readable but what was appended with success and neither truncated
\* nor reaped since: no record of a batch that failed, none that was truncated.
\* It needs what the code needs for it: that the calls which take records away
\* (the ones of LeavingCalls) succeed, and that a closed chain takes no calls.
\* Creates, writes and fsyncs of data may fail at any point.
THEOREM NothingElseAppears ==
  ASSUME Faulty \cap LeavingCalls = {}, "close" \notin Ops
  PROVE  Spec => []NothingElseReadable
<1>0. "truncateSync" \notin Faulty
  BY DEF LeavingCalls
<1>1. IInv /\ EInv => NothingElseReadable
  BY ScanAdds DEF NothingElseReadable
<1>2. IInv /\ RInv /\ EInv /\ [Next]_vars => (IInv /\ RInv /\ EInv)'
  BY <1>0, NextInv, NextRead, NextExact
<1>3. Init => IInv /\ RInv /\ EInv
  BY InitInv, InitRead, InitExact
<1> QED BY <1>1, <1>2, <1>3, PTL DEF Spec
=============================================================================

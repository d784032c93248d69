---------------------------- MODULE OffsetIndex ----------------------------
(***************************************************************************)
(* The sparse offset index of one segment: checkpoints from which a lookup *)
(* walks the frame headers to the frame it wants (index/offset.go), and    *)
(* the operations of the segment that keep it (segment.go).                *)
(*                                                                         *)
(* The loops that sample the index, in Append and in the scan of Load and  *)
(* BuildIndex, take one step per frame: a scanner looks positions up       *)
(* without the lock of the chain and may come between two of them.  Each   *)
(* call of Set is one step; what two unsynchronised goroutines do to one   *)
(* slice is outside the model.                                             *)
(***************************************************************************)
EXTENDS Integers, Sequences

CONSTANTS
    Stride,      \* sparseIndexStride
    HeaderSize,  \* bytes of the segment header: the offset of frame 0
    Sizes,       \* the sizes a frame may have, its header included
    MaxBatch,    \* most payloads of one Append
    MaxFrames    \* bound: frames of the file

ASSUME IndexConstants ==
    /\ Stride \in Nat \ {0}
    /\ HeaderSize \in Nat
    /\ Sizes \subseteq Nat \ {0}
    /\ MaxBatch \in Nat
    /\ MaxFrames \in Nat

VARIABLES
    entries,  \* the checkpoints, [index, offset], in the order of the slice
    ends,     \* the file: ends[i] is where frame i - 1 ends
    start,    \* startIndex and startOffset, as one record
    write,    \* writeIndex and writeOffset
    pc,       \* "idle", or the loop under way: "append", "load", "build"
    at        \* the frame that loop has come to

vars == <<entries, ends, start, write, pc, at>>

Position == [index : Nat, offset : Nat]

Fail == -1

(***************************************************************************)
(* The index, on a slice s of checkpoints.                                 *)
(***************************************************************************)

\* sort.Search: the first of n positions that passes the test, here one of
\* `passing`, and the position past the end when none does.
Search(n, passing) ==
    CHOOSE i \in 1..(n + 1) :
        /\ i <= n => i \in passing
        /\ \A j \in 1..(i - 1) : j \notin passing

\* The first checkpoint above an index.
FirstAbove(s, index) == Search(Len(s), {i \in 1..Len(s) : s[i].index > index})

Insert(s, i, e) ==
    [k \in 1..(Len(s) + 1) |->
        IF k < i THEN s[k] ELSE IF k = i THEN e ELSE s[k - 1]]

Set(s, e) ==
    LET i == Search(Len(s), {k \in 1..Len(s) : s[k].index >= e.index})
    IN  IF s = << >> \/ e.index > s[Len(s)].index
        THEN Append(s, e)
        ELSE IF s[i].index = e.index THEN [s EXCEPT ![i] = e]
        ELSE Insert(s, i, e)

\* Leaves out a frame too many.
SparseSetMutant(s, e) == IF e.index % (Stride + 1) # 0 THEN s ELSE Set(s, e)

SparseSet(s, e) == IF e.index % Stride # 0 THEN s ELSE Set(s, e)

\* The position of the last checkpoint at or below index, the first one when
\* all are above it.
findFrameIndex(s, index) ==
    LET i == FirstAbove(s, index)
    IN  IF i = 1 THEN 1 ELSE i - 1

\* Leaves the checkpoints of what is cut.
TruncateAfterMutant(s, index) == s

TruncateAfter(s, index) ==
    IF s = << >> THEN s ELSE SubSeq(s, 1, findFrameIndex(s, index))

TruncateBefore(s, index) ==
    IF s = << >> THEN s ELSE SubSeq(s, findFrameIndex(s, index), Len(s))

First == [index |-> 0, offset |-> HeaderSize]

\* The floor of a lookup: the last checkpoint before position i, and frame 0
\* when there is none.
Floor(s, i) == IF i = 1 THEN First ELSE s[i - 1]

ForFrameIndex(s, index) == Floor(s, FirstAbove(s, index))

ForOffset(s, offset) ==
    Floor(s, Search(Len(s), {i \in 1..Len(s) : s[i].offset > offset}))

(***************************************************************************)
(* The segment: walks over the headers of the file.                        *)
(***************************************************************************)

OffsetOf(index) == IF index = 0 THEN HeaderSize ELSE ends[index]

Frame(index) == [index |-> index, offset |-> OffsetOf(index)]

\* The offset after k headers have been read from position e on.  ReadHeader
\* accepts the header of frame `index` only where that frame starts, and the
\* length in it leads to the next frame.
Walk(e, k) ==
    IF k = 0 THEN e.offset
    ELSE IF e.index + k <= Len(ends) /\ e.offset = OffsetOf(e.index)
         THEN OffsetOf(e.index + k)
         ELSE Fail

\* Reads one header too many.
offsetForIndexMutant(s, target) ==
    LET e == ForFrameIndex(s, target)
    IN  IF target = 0 THEN HeaderSize ELSE Walk(e, target - e.index + 1)

offsetForIndex(s, target) ==
    LET e == ForFrameIndex(s, target)
    IN  IF target = 0 THEN HeaderSize ELSE Walk(e, target - e.index)

\* The walk ends at the first offset that is not below the target, which
\* must be the target itself, or fails on the way.
indexForOffset(s, target) ==
    LET e    == ForOffset(s, target)
        hits == {k \in 0..Len(ends) : Walk(e, k) = target}
    IN  IF target = HeaderSize THEN 0
        ELSE IF hits = {} THEN Fail
        ELSE e.index + CHOOSE k \in hits : TRUE

\* anchorSparseIndex
Anchor(s, st, wr) == Set(Set(Set(s, First), st), wr)

(***************************************************************************)
(* Operations of the segment.                                              *)
(***************************************************************************)

\* newSegment
Init ==
    /\ entries = Anchor(<< >>, First, First)
    /\ ends = << >>
    /\ start = First
    /\ write = First
    /\ pc = "idle"
    /\ at = First

\* Append writes the frames of its batch behind the ones it knows of.
WriteFrame ==
    /\ pc \in {"idle", "write"}
    /\ Len(ends) < MaxFrames
    /\ Len(ends) - write.index < MaxBatch
    /\ \E size \in Sizes : ends' = Append(ends, OffsetOf(Len(ends)) + size)
    /\ pc' = "write"
    /\ UNCHANGED <<entries, start, write, at>>

\* The write or its sync fails: Trim cuts the file, the index stays.
WriteFails ==
    /\ pc = "write"
    /\ ends' = SubSeq(ends, 1, write.index)
    /\ pc' = "idle"
    /\ UNCHANGED <<entries, start, write, at>>

\* The batch is persisted; the loop over its frames begins.
Persisted ==
    /\ pc = "write"
    /\ pc' = "append"
    /\ at' = write
    /\ UNCHANGED <<entries, ends, start, write>>

\* One frame of the loop of Append or of scanFramesFromReadStart.
Sample ==
    /\ pc \in {"append", "load", "build"}
    /\ at.index < Len(ends)
    /\ entries' = SparseSet(entries, at)
    /\ at' = Frame(at.index + 1)
    /\ UNCHANGED <<ends, start, write, pc>>

\* The end of Append and of Load, with the terminal anchor.
Sampled ==
    /\ pc \in {"append", "load"}
    /\ at.index = Len(ends)
    /\ write' = at
    /\ entries' = Set(entries, at)
    /\ pc' = "idle"
    /\ UNCHANGED <<ends, start, at>>

BuildIndex ==
    /\ pc = "idle"
    /\ pc' = "build"
    /\ at' = start
    /\ UNCHANGED <<entries, ends, start, write>>

Built ==
    /\ pc = "build"
    /\ at.index = Len(ends)
    /\ pc' = "idle"
    /\ UNCHANGED <<entries, ends, start, write, at>>

\* Truncate(seq): Find refuses an index outside startIndex..writeIndex, so
\* the read start is never moved here.
Truncate ==
    /\ pc = "idle"
    /\ \E idx \in start.index..write.index :
        LET offset == offsetForIndex(entries, idx)
        IN  /\ offset # Fail
            /\ ends' = SubSeq(ends, 1, idx)
            /\ write' = [index |-> idx, offset |-> offset]
    /\ entries' = Anchor(TruncateAfter(entries, write'.index), start, write')
    /\ UNCHANGED <<start, pc, at>>

\* SetReadOffset(offset), of an offset TruncateBefore of the chain looked up.
SetReadOffset ==
    /\ pc = "idle"
    /\ \E idx \in start.index..write.index :
        LET offset == offsetForIndex(entries, idx)
            read   == indexForOffset(entries, offset)
        IN  /\ offset # Fail /\ read # Fail
            /\ start' = [index |-> read, offset |-> offset]
    /\ entries' = Anchor(TruncateBefore(entries, start'.index), start', write)
    /\ UNCHANGED <<ends, write, pc, at>>

\* The process stops, at any point and with any part of the file behind the
\* read start lost, and Load opens the segment: a new one, whose read start
\* is the one in the header, then the scan from there.
Load ==
    \E n \in start.index..Len(ends) :
        LET fresh == Anchor(<< >>, First, First)
        IN  /\ ends' = SubSeq(ends, 1, n)
            /\ write' = First
            /\ entries' = Anchor(fresh, start, First)
            /\ pc' = "load"
            /\ at' = start
            /\ UNCHANGED start

Next ==
    \/ WriteFrame \/ WriteFails \/ Persisted
    \/ Sample \/ Sampled
    \/ BuildIndex \/ Built
    \/ Truncate \/ SetReadOffset
    \/ Load

Spec == Init /\ [][Next]_vars

(***************************************************************************)
(* What the index promises.                                                *)
(***************************************************************************)

\* The order Search relies on.
Ascending(s) == \A i, j \in 1..Len(s) : i < j => s[i].index < s[j].index

TypeOK ==
    /\ entries \in Seq(Position)
    /\ ends \in Seq(Nat)
    /\ start \in Position
    /\ write \in Position
    /\ pc \in {"idle", "write", "append", "load", "build"}
    /\ at \in Position

\* At every step, also between two steps of a loop, the checkpoints ascend
\* and each is the exact place of a frame of the file or of its end.  A stale
\* one, left by a truncation, would send a lookup into the middle of a frame
\* written later.  (Set, TruncateAfter, TruncateBefore.)
CheckpointsExact ==
    /\ Ascending(entries)
    /\ \A i \in 1..Len(entries) :
        /\ entries[i].index <= Len(ends)
        /\ entries[i].offset = OffsetOf(entries[i].index)

\* Every readable frame, and the end, is found where it is, and an offset is
\* taken for a frame's only if it is one.  (offsetForIndex, indexForOffset:
\* what Find, Truncate and SetReadOffset move the segment to.)
LookupsExact ==
    /\ \A n \in start.index..write.index : offsetForIndex(entries, n) = OffsetOf(n)
    /\ \A offset \in HeaderSize..write.offset :
        LET n == indexForOffset(entries, offset)
        IN  IF \E k \in 0..Len(ends) : OffsetOf(k) = offset
            THEN n # Fail /\ OffsetOf(n) = offset
            ELSE n = Fail

\* A lookup between the read start and the end reads fewer headers than the
\* stride, whatever batches, truncations and restarts came before.  (The
\* checkpoints of SparseSet, and the anchors.)
ShortWalks ==
    pc # "load" => \A n \in start.index..write.index :
        \E i \in 1..Len(entries) : entries[i].index <= n /\ n < entries[i].index + Stride
=============================================================================

-------------------------- MODULE ChainStepProofs ---------------------------
(***************************************************************************)
(* Every step of Append, of the creation of a segment, of the truncations, *)
(* of Sync and of Close keeps the inductive invariant of ChainFacts; and   *)
(* the same for the invariant about what the chain counts.                 *)
(***************************************************************************)
EXTENDS ChainFacts

\* A leaf with no prover named may take each prover this long (in seconds).
USE ZenonT(20), SMTT(40)

(***************************************************************************)
(* What the storage calls, and a return, do to the invariant.              *)
(***************************************************************************)
\* A step without a storage call.
LEMMA FsIdleFacts ==
  ASSUME StorageTypes, FsIdle
  PROVE  StorageTypes' /\ UNCHANGED files
BY DEF StorageTypes, FsIdle, storageVars

\* fsync changes no file the process sees.
LEMMA FsSyncFacts ==
  ASSUME StorageTypes, NEW n \in 1..Len(files), FsSync(n)
  PROVE  StorageTypes' /\ UNCHANGED files
<1>1. stable' \in Seq(File) /\ Len(stable') = Len(stable)
  BY DEF StorageTypes, FsSync
<1> QED BY <1>1 DEF StorageTypes, FsSync

\* Neither does unlink.
LEMMA FsRemoveFacts ==
  ASSUME StorageTypes, NEW n, FsRemove(n)
  PROVE  StorageTypes' /\ UNCHANGED files
BY Zenon DEF StorageTypes, FsRemove

\* A directory sync forgets the files that have no name any more.
LEMMA FsSyncDirFacts ==
  ASSUME StorageTypes, FsSyncDir
  PROVE  /\ StorageTypes' /\ Len(files') = Len(files)
         /\ \A m \in 1..Len(files) : files'[m] = files[m] \/ files'[m] = EmptyFile(0)
<1>1. EmptyFile(0) \in File
  BY EmptyFileFacts
<1>2. Len(files) \in Nat /\ \A n \in 1..Len(files) : files[n] \in File /\ stable[n] \in File
  BY DEF StorageTypes
<1>3. /\ \A n \in 1..Len(files) : (IF n \in dir THEN files[n] ELSE EmptyFile(0)) \in File
      /\ \A n \in 1..Len(files) : (IF n \in dir THEN stable[n] ELSE EmptyFile(0)) \in File
  BY <1>1, <1>2
<1>4. files' \in Seq(File) /\ Len(files') = Len(files)
  BY <1>2, <1>3, FunctionIsSeq, SMTT(20) DEF FsSyncDir
<1>5. stable' \in Seq(File) /\ Len(stable') = Len(files)
  BY <1>2, <1>3, FunctionIsSeq, SMTT(20) DEF FsSyncDir
<1>6. \A m \in 1..Len(files) : files'[m] = files[m] \/ files'[m] = EmptyFile(0)
  BY DEF FsSyncDir
<1> QED BY <1>4, <1>5, <1>6 DEF StorageTypes, FsSyncDir

\* A handler that returns leaves no obligation behind.
LEMMA ReturnFacts ==
  ASSUME NEW r \in Results, Return(r)
  PROVE  HandlerTypes' /\ Control' /\ pc' \in {"idle", "down"}
<1>1. NoOp \in Op
  BY DEF NoOp, Op, Kinds
<1>2. pc' \in {"idle", "down"}
  BY DEF Return
<1>3. AppendControl' /\ CreateControl' /\ DropControl' /\ CutControl'
  BY <1>2 DEF AppendControl, CreateControl, DropControl, CutControl, AppendSteps, CreateSteps
<1> QED BY <1>1, <1>2, <1>3 DEF Return, HandlerTypes, Labels, Control

\* A step that leaves segments, frames and total alone.
LEMMA QuietFacts ==
  ASSUME IInv, UNCHANGED <<segs, diskSize>>, Len(files') = Len(files),
         \A n \in 1..Len(files) : files'[n].frames = files[n].frames
  PROVE  SegmentFiles' /\ Contiguous' /\ Covered' /\ RetentionBounds' /\ ChainTypes'
<1>1. segs' \in Seq(Segment) /\ Len(segs) \in Nat
  BY SMTT(20) DEF IInv, TypeOK
<1>2. \A i \in 1..Len(segs') : SameButOpen(segs'[i], segs[0 + i])
  BY <1>1 DEF SameButOpen, SamePlace
<1>3. Len(segs') + 0 <= Len(segs)
  BY <1>1
<1>4. SegmentFiles' /\ Contiguous' /\ Covered'
  BY <1>1, <1>2, <1>3, Sublist, Zenon
<1> QED BY <1>4 DEF IInv, RetentionBounds, TypeOK, ChainTypes

\* A write to a segment's file that leaves the segment's own frames alone.
LEMMA WriteOver ==
  ASSUME IInv, NEW i \in 1..Len(segs), NEW f \in File,
         FsWrite(segs[i].ino, f), Ordered(f.frames),
         EndsBy(f.frames, segs[i].writeIndex, segs[i].writeOffset)
  PROVE  /\ StorageTypes' /\ Len(files') = Len(files) /\ files'[segs[i].ino] = f
         /\ \A n \in 1..Len(files') : Ordered(files'[n].frames)
         /\ \A j \in 1..Len(segs) :
              EndsBy(files'[segs[j].ino].frames, segs[j].writeIndex, segs[j].writeOffset)
<1>1. /\ StorageTypes' /\ Len(files') = Len(files)
      /\ \A m \in 1..Len(files) : files'[m] = IF m = segs[i].ino THEN f ELSE files[m]
  BY SegmentFacts, TypeParts, FsWriteFacts, SMTT(20) DEF IInv
<1>2. files'[segs[i].ino] = f
  BY <1>1, SegmentFacts
<1>3. \A j \in 1..Len(segs) : j # i => segs[j].ino # segs[i].ino
  <2> SUFFICES ASSUME NEW j \in 1..Len(segs), j # i
               PROVE  segs[j].ino # segs[i].ino
    OBVIOUS
  <2>1. segs[j].ino \in Nat /\ segs[i].ino \in Nat
    BY SegmentFacts, SMTT(20)
  <2>2. j < i \/ i < j
    OBVIOUS
  <2>3. segs[j].ino < segs[i].ino \/ segs[i].ino < segs[j].ino
    BY <2>2 DEF IInv, SegmentFiles
  <2> QED BY <2>1, <2>3
<1>4. \A n \in 1..Len(files') : Ordered(files'[n].frames)
  BY <1>1 DEF IInv, Covered
<1>5. \A j \in 1..Len(segs) : EndsBy(files'[segs[j].ino].frames, segs[j].writeIndex, segs[j].writeOffset)
  BY <1>1, <1>2, <1>3, SegmentFacts, Zenon
<1> QED BY <1>1, <1>2, <1>4, <1>5

\* The same when the segments are left alone too.
LEMMA WriteKeeps ==
  ASSUME IInv, UNCHANGED <<segs, diskSize>>, NEW i \in 1..Len(segs), NEW f \in File,
         FsWrite(segs[i].ino, f), Ordered(f.frames),
         EndsBy(f.frames, segs[i].writeIndex, segs[i].writeOffset)
  PROVE  /\ StorageTypes' /\ ChainTypes' /\ SegmentFiles' /\ Contiguous' /\ Covered'
         /\ RetentionBounds' /\ Len(files') = Len(files) /\ files'[segs[i].ino] = f
<1>1. /\ StorageTypes' /\ Len(files') = Len(files) /\ files'[segs[i].ino] = f
      /\ \A n \in 1..Len(files') : Ordered(files'[n].frames)
      /\ \A j \in 1..Len(segs) :
           EndsBy(files'[segs[j].ino].frames, segs[j].writeIndex, segs[j].writeOffset)
  BY WriteOver
<1>2. Covered'
  BY <1>1, Zenon DEF Covered, EndsBy, Ordered
<1>3. SegmentFiles' /\ Contiguous'
  BY <1>1, Zenon DEF IInv, SegmentFiles, Contiguous, NextSequence
<1> QED BY <1>1, <1>2, <1>3 DEF IInv, RetentionBounds, TypeOK, ChainTypes

\* The invariant follows from its parts.
LEMMA Assemble ==
  ASSUME StorageTypes', ChainTypes', HandlerTypes', HistoryTypes', SegmentFiles',
         Contiguous', Covered', RetentionBounds', Control'
  PROVE  IInv'
BY TypeParts DEF IInv

\* A step that touches neither storage, segments nor the total, and returns.
LEMMA QuietReturn ==
  ASSUME IInv, FsIdle, UNCHANGED <<segs, diskSize>>, NEW r \in Results, Return(r), HistoryTypes'
  PROVE  IInv'
<1>1. StorageTypes' /\ UNCHANGED files
  BY TypeParts, FsIdleFacts DEF IInv
<1>2. SegmentFiles' /\ Contiguous' /\ Covered' /\ RetentionBounds' /\ ChainTypes'
  BY <1>1, QuietFacts
<1>3. HandlerTypes' /\ Control'
  BY ReturnFacts
<1> QED BY <1>1, <1>2, <1>3, Assemble

\* Moving the end of the last segment, and no other, keeps what the invariant
\* says about segments when the frames up to there end by there.
LEMMA LastMoved ==
  ASSUME IInv, segs # <<>>, NEW n \in Nat, NEW off \in Nat, MovesLast(n, off),
         off >= HeaderSize, lastSegment.startIndex <= n,
         Len(files') = Len(files),
         \A m \in 1..Len(files') : Ordered(files'[m].frames),
         \A i \in 1..Len(segs) :
           EndsBy(files'[segs[i].ino].frames, segs[i].writeIndex, segs[i].writeOffset),
         EndsBy(files'[lastSegment.ino].frames, n, off)
  PROVE  segs' \in Seq(Segment) /\ Len(segs') = Len(segs) /\ SegmentFiles' /\ Contiguous' /\ Covered'
<1> DEFINE l == Len(segs)
           t == [segs[l] EXCEPT !.writeIndex = n, !.writeOffset = off]
<1>1. l \in Nat /\ l \in 1..l /\ lastSegment = segs[l]
  BY LastFacts, ZenonT(30)
<1>2. segs[l] \in Segment /\ segs[l].startIndex \in Nat
  BY <1>1, SegmentFacts
<1>3. t \in Segment
  <2> HIDE DEF l
  <2> QED BY <1>2, MovedFacts, Zenon
<1>4. /\ segs' \in Seq(Segment) /\ Len(segs') = l
      /\ \A i \in 1..l : i # l => segs'[i] = segs[i]
      /\ segs'[l] = t
  <2>1. segs \in Seq(Segment)
    BY DEF IInv, TypeOK
  <2>2. segs' = [segs EXCEPT ![l] = t]
    BY <1>1, <2>1, Zenon DEF MovesLast
  <2> HIDE DEF t
  <2> QED BY <1>1, <1>3, <2>1, <2>2
<1>5. /\ segs'[l].ino = segs[l].ino /\ segs'[l].base = segs[l].base
      /\ segs'[l].startIndex = segs[l].startIndex
      /\ segs'[l].writeIndex = n /\ segs'[l].writeOffset = off
  BY <1>2, <1>4 DEF Segment
<1> HIDE DEF l, t
<1>6. SegmentFiles'
  <2>1. \A i \in 1..l : segs'[i].ino = segs[i].ino /\ segs'[i].writeOffset >= HeaderSize
    <3>1. segs'[l].ino = segs[l].ino /\ segs'[l].writeOffset >= HeaderSize
      BY <1>5
    <3>2. \A i \in 1..l : segs[i].writeOffset >= HeaderSize
      BY SegmentFacts DEF l
    <3> QED BY <1>4, <3>1, <3>2
  <2> QED BY <1>4, <2>1 DEF IInv, SegmentFiles, l
<1>7. Contiguous'
  <2>1. \A i \in 1..l : segs'[i].startIndex <= segs'[i].writeIndex
    <3>1. segs'[l].startIndex <= segs'[l].writeIndex
      BY <1>1, <1>5
    <3>2. \A i \in 1..l : segs[i].startIndex <= segs[i].writeIndex
      BY SegmentFacts DEF l
    <3> QED BY <1>4, <3>1, <3>2
  <2>2. ASSUME NEW i \in 2..l
        PROVE  segs'[i].base = NextSequence(segs'[i - 1]) /\ segs'[i].startIndex = 0
    <3>1. i \in 1..l /\ i - 1 \in 1..l /\ i - 1 # l
      BY <1>1
    <3>2. segs'[i - 1] = segs[i - 1] /\ segs'[i].base = segs[i].base /\ segs'[i].startIndex = segs[i].startIndex
      BY <1>4, <1>5, <3>1
    <3> QED BY <3>2 DEF IInv, Contiguous, l
  <2> QED BY <1>4, <2>1, <2>2 DEF Contiguous, NextSequence
<1>8. Covered'
  <2>1. ASSUME NEW i \in 1..l
        PROVE  EndsBy(files'[segs'[i].ino].frames, segs'[i].writeIndex, segs'[i].writeOffset)
    BY <1>1, <1>4, <1>5, ZenonT(30) DEF l
  <2> QED BY <1>4, <2>1, ZenonT(30) DEF Covered, EndsBy, Ordered
<1> QED BY <1>4, <1>6, <1>7, <1>8, Zenon DEF l

-----------------------------------------------------------------------------
(***************************************************************************)
(* The steps of Append, but for the creation of a segment.                 *)
(***************************************************************************)
\* The entry of Append: refused as too large, admitted, or an empty chain.
LEMMA AppendCallInv ==
  ASSUME IInv, NEW b \in Batches, AppendTooLarge(b) \/ AppendCall(b) \/ AppendPanics(b)
  PROVE  IInv'
<1>0. StorageTypes /\ ChainTypes /\ HandlerTypes /\ HistoryTypes /\ b \in Seq(Nat) /\ Len(b) \in Nat
  BY TypeParts, BatchFacts DEF IInv
<1>1. CASE AppendTooLarge(b)
  <2>1. HistoryTypes'
    BY <1>0, <1>1 DEF AppendTooLarge, HistoryTypes
  <2> QED BY <1>1, <2>1, QuietReturn DEF AppendTooLarge, Results
<1>2. CASE AppendCall(b)
  <2>1. StorageTypes' /\ UNCHANGED files
    BY <1>0, <1>2, FsIdleFacts DEF AppendCall
  <2>2. SegmentFiles' /\ Contiguous' /\ Covered' /\ RetentionBounds' /\ ChainTypes'
    BY <1>2, <2>1, QuietFacts DEF AppendCall
  <2>3. HistoryTypes'
    BY <1>0, <1>2, SMTT(20) DEF AppendCall, HistoryTypes
  <2>4. op' \in Op /\ op'.kind = "append" /\ op'.batch = b
    BY <1>0, <1>2, Zenon DEF AppendCall, NoOp, Op, Kinds, HistoryTypes
  <2>5. HandlerTypes'
    BY <1>0, <1>2, <2>4 DEF AppendCall, HandlerTypes, Labels
  <2>6. Control'
    BY <1>2, <2>4 DEF AppendCall, Control, AppendControl, CreateControl, DropControl,
       CutControl, AppendSteps, CreateSteps
  <2> QED BY <2>1, <2>2, <2>3, <2>5, <2>6, Assemble
<1>3. CASE AppendPanics(b)
  <2>1. StorageTypes' /\ UNCHANGED files
    BY <1>0, <1>3, FsIdleFacts DEF AppendPanics
  <2>2. SegmentFiles' /\ Contiguous' /\ Covered' /\ RetentionBounds' /\ ChainTypes'
    BY <1>3, <2>1, QuietFacts DEF AppendPanics
  <2>3. Idle \in [on : BOOLEAN, todo : Seq(Nat), upto : SUBSET (Nat \X Nat)]
    BY DEF Idle
  <2>4. HistoryTypes'
    BY <1>0, <1>3, <2>3 DEF AppendPanics, HistoryTypes
  <2>5. HandlerTypes'
    BY <1>0, <1>3 DEF AppendPanics, HandlerTypes, Labels
  <2>6. Control'
    BY <1>3 DEF AppendPanics, Control, AppendControl, CreateControl, DropControl,
       CutControl, AppendSteps, CreateSteps
  <2> QED BY <2>1, <2>2, <2>4, <2>5, <2>6, Assemble
<1> QED BY <1>1, <1>2, <1>3

\* Admission leaves room for what it lets through.
LEMMA AdmitInv ==
  ASSUME IInv, Admit
  PROVE  IInv'
<1>0. /\ StorageTypes /\ ChainTypes /\ HandlerTypes /\ HistoryTypes
      /\ pc = "admit" /\ FsIdle
      /\ UNCHANGED <<segs, diskSize, syncer, acked, durable, nextId, faults>>
  BY TypeParts DEF IInv, Admit
<1>1. StorageTypes' /\ UNCHANGED files
  BY <1>0, FsIdleFacts
<1>2. SegmentFiles' /\ Contiguous' /\ Covered' /\ RetentionBounds' /\ ChainTypes'
  BY <1>0, <1>1, QuietFacts
<1>3. HistoryTypes'
  BY <1>0 DEF HistoryTypes
<1>4. op.kind = "append" /\ op.batch \in Batches /\ segs # <<>>
  BY <1>0 DEF IInv, Control, AppendControl, AppendSteps
<1>5. AppendSize(op.batch) \in Nat /\ diskSize \in Int /\ MaxDiskSize \in Nat /\ MaxSegments \in Nat
  BY <1>0, <1>4, BatchFacts, ConfigAssumption DEF ChainTypes
<1>6. Len(segs) \in Nat /\ NextSequence(lastSegment) \in Nat
  BY <1>4, LastFacts, SegmentFacts
<1>7. CASE needReap /\ ~canReap /\ Return(IF overDisk THEN "diskFull" ELSE "segmentFull")
  <2>1. HandlerTypes' /\ Control'
    BY <1>7, ReturnFacts DEF Results
  <2> QED BY <1>1, <1>2, <1>3, <2>1, Assemble
<1>8. CASE needReap /\ canReap /\ Goto("reap")
  <2>1. HandlerTypes'
    BY <1>0, <1>8 DEF Goto, HandlerTypes, Labels
  <2>2. Control'
    BY <1>0, <1>4, <1>8 DEF Goto, canReap, Control, AppendControl, CreateControl, DropControl,
       CutControl, AppendSteps, CreateSteps
  <2> QED BY <1>1, <1>2, <1>3, <2>1, <2>2, Assemble
<1>9. CASE /\ ~needReap /\ rotate
           /\ pc' = "create"
           /\ op' = [op EXCEPT !.base = nextStartSeq]
           /\ UNCHANGED ret
  <2>1. op' \in Op /\ op'.kind = op.kind /\ op'.batch = op.batch /\ op'.base = NextSequence(lastSegment)
    BY <1>0, <1>6, <1>9, Zenon DEF HandlerTypes, Op, nextStartSeq
  <2>2. HandlerTypes'
    BY <1>0, <1>9, <2>1 DEF HandlerTypes, Labels
  <2>3. Fits(HeaderSize + AppendSize(op.batch)) /\ (MaxSegments > 0 => Len(segs) < MaxSegments)
    BY <1>5, <1>6, <1>9 DEF needReap, overDisk, required, Fits, HeaderSize
  <2>4. Fits(HeaderSize + AppendSize(op.batch))' /\ (lastSegment = lastSegment')
    BY <1>0, <2>1, <2>3 DEF Fits, lastSegment
  <2>5. CreateControl'
    BY <1>0, <1>4, <1>9, <2>1, <2>3, <2>4 DEF CreateControl, CreateSteps, NextSequence
  <2>6. AppendControl' /\ DropControl' /\ CutControl'
    BY <1>9 DEF AppendControl, DropControl, CutControl, AppendSteps
  <2> QED BY <1>1, <1>2, <1>3, <2>2, <2>5, <2>6, Assemble DEF Control
<1>10. CASE ~needReap /\ ~rotate /\ Goto("write")
  <2>1. HandlerTypes'
    BY <1>0, <1>10 DEF Goto, HandlerTypes, Labels
  <2>2. Fits(AppendSize(op.batch))
    BY <1>5, <1>10 DEF needReap, overDisk, required, Fits
  <2>3. AppendControl'
    BY <1>0, <1>4, <1>10, <2>2 DEF Goto, AppendControl, AppendSteps, Fits
  <2>4. CreateControl' /\ DropControl' /\ CutControl'
    BY <1>10 DEF Goto, CreateControl, DropControl, CutControl, CreateSteps
  <2> QED BY <1>1, <1>2, <1>3, <2>1, <2>3, <2>4, Assemble DEF Control
<1> QED BY <1>7, <1>8, <1>9, <1>10 DEF Admit

\* Reaping takes the first segment and its bytes away.
LEMMA ReapInv ==
  ASSUME IInv, ReapOldest \/ ReapFails
  PROVE  IInv'
<1>0. StorageTypes /\ ChainTypes /\ HandlerTypes /\ HistoryTypes /\ "error" \in Results
  BY TypeParts DEF IInv, Results
<1>1. CASE ReapFails
  <2>1. HistoryTypes'
    BY <1>0, <1>1, SMTT(20) DEF ReapFails, HistoryTypes, Fault
  <2> QED BY <1>0, <1>1, <2>1, QuietReturn DEF ReapFails
<1>2. CASE ReapOldest
  <2>0. /\ pc = "reap" /\ FsRemove(segs[1].ino) /\ segs' = Tail(segs)
        /\ diskSize' = diskSize - Size(segs[1])
        /\ acked' \subseteq acked /\ durable' \subseteq durable
        /\ UNCHANGED <<syncer, nextId>>
        /\ \/ Goto("admit") /\ UNCHANGED faults
           \/ Return("error") /\ (Fault("close") \/ UNCHANGED faults)
    BY <1>2 DEF ReapOldest, Retain
  <2>1. Len(segs) > 1 /\ Len(segs) \in Nat /\ op.kind = "append" /\ op.batch \in Batches
    BY <1>0, <2>0 DEF IInv, Control, AppendControl, AppendSteps, ChainTypes
  <2>2. StorageTypes' /\ UNCHANGED files
    BY <1>0, <2>0, FsRemoveFacts
  <2>3. /\ segs' \in Seq(Segment) /\ Len(segs') = Len(segs) - 1 /\ segs' # <<>>
        /\ \A i \in 1..Len(segs') : segs'[i] = segs[1 + i]
    BY <1>0, <2>0, <2>1, TailFacts DEF ChainTypes
  <2>4. SegmentFiles' /\ Contiguous' /\ Covered'
    <3>1. \A i \in 1..Len(segs') : SameButOpen(segs'[i], segs[1 + i])
      BY <2>3 DEF SameButOpen, SamePlace
    <3>2. 1 \in Nat /\ Len(segs') + 1 <= Len(segs)
      BY <2>1, <2>3
    <3> QED BY <2>2, <2>3, <3>1, <3>2, Sublist
  <2>5. segs[1].writeOffset \in Nat
    BY <2>1, SegmentFacts, SMTT(20)
  <2>6. ChainTypes' /\ RetentionBounds'
    <3>1. diskSize' \in Int /\ diskSize' <= diskSize /\ Len(segs') <= Len(segs) /\ Len(segs') \in Nat
      BY <1>0, <2>0, <2>1, <2>3, <2>5 DEF ChainTypes, Size
    <3> QED BY <1>0, <2>1, <2>3, <3>1, ConfigAssumption DEF IInv, RetentionBounds, ChainTypes
  <2>7. HistoryTypes'
    <3>1. acked' \in SUBSET (Nat \X Nat) /\ durable' \in SUBSET (Nat \X Nat)
      BY <1>0, <2>0 DEF HistoryTypes
    <3>2. faults' \in Nat
      BY <1>0, <2>0, SMTT(20) DEF HistoryTypes, Fault
    <3> QED BY <1>0, <2>0, <3>1, <3>2 DEF HistoryTypes
  <2>8. HandlerTypes' /\ Control'
    <3>1. CASE Goto("admit")
      <4>1. HandlerTypes'
        BY <1>0, <3>1 DEF Goto, HandlerTypes, Labels
      <4>2. Control'
        BY <2>1, <2>3, <3>1 DEF Goto, Control, AppendControl, CreateControl, DropControl,
           CutControl, AppendSteps, CreateSteps
      <4> QED BY <4>1, <4>2
    <3>2. CASE Return("error")
      BY <1>0, <3>2, ReturnFacts
    <3> QED BY <2>0, <3>1, <3>2
  <2> QED BY <2>2, <2>4, <2>6, <2>7, <2>8, Assemble
<1> QED BY <1>1, <1>2

\* The frames of the last segment's file with a part of the batch behind those
\* the segment counts.
LEMMA WithBatchFacts ==
  ASSUME IInv, op.batch \in Batches, segs # <<>>, NEW j \in 0..Len(op.batch), NEW k \in Nat
  PROVE  /\ WithBatch(j, k) \in File
         /\ Ordered(WithBatch(j, k).frames)
         /\ EndsBy(WithBatch(j, k).frames, lastSegment.writeIndex, lastSegment.writeOffset)
         /\ EndsBy(WithBatch(j, k).frames, lastSegment.writeIndex + j,
                   lastSegment.writeOffset + SizeOfFirst(op.batch, j))
<1>1. Len(segs) \in 1..Len(segs) /\ lastSegment = segs[Len(segs)]
  BY LastFacts
<1>2. /\ lastSegment.writeIndex \in Nat /\ lastSegment.writeOffset \in Nat
      /\ lastSegment.writeOffset >= HeaderSize
      /\ files[lastSegment.ino] \in File /\ Ordered(files[lastSegment.ino].frames)
      /\ EndsBy(files[lastSegment.ino].frames, lastSegment.writeIndex, lastSegment.writeOffset)
  BY <1>1, SegmentFacts
<1>3. op.id \in Nat
  BY DEF IInv, TypeOK, Op
<1>4. IsBatch(op.batch)
  BY InputAssumption
<1> QED BY <1>2, <1>3, <1>4, WrittenFile, Zenon DEF WithBatch

\* The batch goes behind the frames the last segment counts.
LEMMA WriteInv ==
  ASSUME IInv, WriteBegin \/ WriteClosed \/ PersistFails
  PROVE  IInv'
<1>0. StorageTypes /\ ChainTypes /\ HandlerTypes /\ HistoryTypes /\ "error" \in Results
  BY TypeParts DEF IInv, Results
<1>1. CASE WriteClosed
  <2>1. HistoryTypes'
    BY <1>0, <1>1 DEF WriteClosed, HistoryTypes
  <2> QED BY <1>0, <1>1, <2>1, QuietReturn DEF WriteClosed
<1>2. CASE PersistFails
  <2>1. HistoryTypes'
    BY <1>0, <1>2, SMTT(20) DEF PersistFails, HistoryTypes, Fault
  <2>2. StorageTypes' /\ UNCHANGED files
    BY <1>0, <1>2, FsIdleFacts DEF PersistFails
  <2>3. SegmentFiles' /\ Contiguous' /\ Covered' /\ RetentionBounds' /\ ChainTypes'
    BY <1>2, <2>2, QuietFacts DEF PersistFails
  <2>4. HandlerTypes'
    BY <1>0, <1>2 DEF PersistFails, Goto, HandlerTypes, Labels
  <2>5. Control'
    BY <1>2, Zenon DEF IInv, PersistFails, Goto, Control, AppendControl, CreateControl,
       DropControl, CutControl, AppendSteps, CreateSteps
  <2> QED BY <2>1, <2>2, <2>3, <2>4, <2>5, Assemble
<1>3. CASE WriteBegin
  <2> DEFINE l == Len(segs)
  <2>1. /\ pc = "write" /\ Goto("writing")
        /\ UNCHANGED <<segs, diskSize, syncer, acked, durable, nextId, faults>>
        /\ op.kind = "append" /\ op.batch \in Batches /\ segs # <<>>
        /\ Fits(AppendSize(op.batch))
    BY <1>3 DEF WriteBegin, IInv, Control, AppendControl, AppendSteps
  <2>2. PICK j \in 0..(Len(op.batch) - 1) : \E k \in {0} \cup Cuts(FrameSize(op.batch, j + 1)) :
          FsWrite(lastSegment.ino, WithBatch(j, k))
    BY <1>3 DEF WriteBegin
  <2>3. PICK k \in {0} \cup Cuts(FrameSize(op.batch, j + 1)) :
          FsWrite(lastSegment.ino, WithBatch(j, k))
    BY <2>2
  <2>4. j \in 0..Len(op.batch) /\ k \in Nat
    BY <2>1, CutsFacts
  <2>5. l \in 1..Len(segs) /\ lastSegment = segs[l]
    BY <2>1, LastFacts
  <2>6. /\ WithBatch(j, k) \in File
        /\ Ordered(WithBatch(j, k).frames)
        /\ EndsBy(WithBatch(j, k).frames, segs[l].writeIndex, segs[l].writeOffset)
    BY <2>1, <2>4, <2>5, WithBatchFacts, ZenonT(30)
  <2>7. /\ StorageTypes' /\ ChainTypes' /\ SegmentFiles' /\ Contiguous' /\ Covered'
        /\ RetentionBounds'
    BY <2>1, <2>3, <2>5, <2>6, WriteKeeps, ZenonT(30)
  <2>8. HistoryTypes' /\ HandlerTypes'
    BY <1>0, <2>1, ZenonT(30) DEF HistoryTypes, HandlerTypes, Goto, Labels
  <2>9. Control'
    BY <2>1, Zenon DEF Goto, Control, AppendControl, CreateControl, DropControl, CutControl,
       AppendSteps, CreateSteps, Fits
  <2> QED BY <2>7, <2>8, <2>9, Assemble
<1> QED BY <1>1, <1>2, <1>3

\* Only the last segment grows, to where the batch that was admitted ends.
LEMMA CommitInv ==
  ASSUME IInv, pc \in {"writing", "syncAppend"}, CommitAppend, StorageTypes',
         Len(files') = Len(files),
         \A n \in 1..Len(files') : Ordered(files'[n].frames),
         \A i \in 1..Len(segs) :
           EndsBy(files'[segs[i].ino].frames, segs[i].writeIndex, segs[i].writeOffset),
         EndsBy(files'[lastSegment.ino].frames, lastSegment.writeIndex + Len(op.batch),
                lastSegment.writeOffset + AppendSize(op.batch)),
         UNCHANGED <<syncer, nextId, faults>>
  PROVE  IInv'
<1> DEFINE l == Len(segs)
           size == AppendSize(op.batch)
           n == lastSegment.writeIndex + Len(op.batch)
           off == lastSegment.writeOffset + size
           new == {<<NextSequence(lastSegment) + i - 1, op.id + i>> : i \in 1..Len(op.batch)}
<1>0. StorageTypes /\ ChainTypes /\ HandlerTypes /\ HistoryTypes
  BY TypeParts DEF IInv
<1>1. op.batch \in Batches /\ segs # <<>> /\ Fits(size)
  BY DEF IInv, Control, AppendControl, AppendSteps
<1>2. l \in Nat /\ l \in 1..l /\ lastSegment = segs[l]
  BY <1>1, LastFacts
<1>3. Len(op.batch) \in Nat /\ size \in Nat
  BY <1>1, BatchFacts
<1>4. n \in Nat /\ off \in Nat /\ off >= HeaderSize /\ lastSegment.startIndex <= n
  <2>1. /\ lastSegment.startIndex \in Nat /\ lastSegment.writeIndex \in Nat
        /\ lastSegment.writeOffset \in Nat /\ lastSegment.writeOffset >= HeaderSize
        /\ lastSegment.startIndex <= lastSegment.writeIndex
    BY <1>2, SegmentFacts
  <2> HIDE DEF size
  <2> QED BY <1>3, <2>1 DEF HeaderSize
<1>5. MovesLast(n, off)
  BY <1>0, <1>2 DEF CommitAppend, MovesLast, ChainTypes
<1>6. segs' \in Seq(Segment) /\ Len(segs') = l /\ SegmentFiles' /\ Contiguous' /\ Covered'
  <2>1. EndsBy(files'[lastSegment.ino].frames, n, off)
    BY Zenon
  <2> HIDE DEF n, off
  <2> QED BY <1>1, <1>4, <1>5, <2>1, LastMoved
<1> HIDE DEF size, l, n, off
<1>9. ChainTypes' /\ RetentionBounds'
  <2>1. diskSize' = diskSize + size /\ diskSize \in Int
    BY <1>0 DEF CommitAppend, size, ChainTypes
  <2> QED BY <1>1, <1>3, <1>6, <2>1, ConfigAssumption DEF ChainTypes, RetentionBounds, IInv, Fits, l
<1>10. HistoryTypes'
  <2>1. NextSequence(lastSegment) \in Nat /\ op.id \in Nat
    BY <1>0, <1>2, SegmentFacts DEF HandlerTypes, Op, l
  <2>2. new \in SUBSET (Nat \X Nat)
    BY <1>3, <2>1, SMTT(20)
  <2>3. acked' = acked \cup new /\ durable' \in {durable, durable \cup new}
    BY DEF CommitAppend
  <2> HIDE DEF new
  <2> QED BY <1>0, <2>2, <2>3 DEF HistoryTypes
<1>11. HandlerTypes' /\ Control'
  BY ReturnFacts DEF CommitAppend, Results
<1> QED BY <1>6, <1>9, <1>10, <1>11, Assemble

\* The whole batch is there: it is counted at once, or after an fsync.
LEMMA PersistInv ==
  ASSUME IInv, WriteEnd \/ SyncAppend
  PROVE  IInv'
<1> DEFINE l == Len(segs)
           n == Len(op.batch)
<1>0. StorageTypes /\ ChainTypes /\ HandlerTypes /\ HistoryTypes
  BY TypeParts DEF IInv
<1>1. pc \in {"writing", "syncAppend"} /\ UNCHANGED <<syncer, nextId, faults>>
  BY DEF WriteEnd, SyncAppend
<1>2. op.kind = "append" /\ op.batch \in Batches /\ segs # <<>> /\ Fits(AppendSize(op.batch))
  BY <1>1 DEF IInv, Control, AppendControl, AppendSteps
<1>3. l \in 1..Len(segs) /\ lastSegment = segs[l] /\ segs[l].ino \in 1..Len(files)
  BY <1>2, LastFacts, SegmentFacts
<1>4. CASE SyncAppend
  <2>1. StorageTypes' /\ UNCHANGED files
    BY <1>0, <1>3, <1>4, FsSyncFacts DEF SyncAppend
  <2>2. EndsBy(files[lastSegment.ino].frames, lastSegment.writeIndex + Len(op.batch),
               lastSegment.writeOffset + AppendSize(op.batch))
    BY <1>4 DEF SyncAppend, IInv, Control, AppendControl
  <2>3. \A i \in 1..Len(files) : Ordered(files[i].frames)
    BY DEF IInv, Covered
  <2>4. \A i \in 1..Len(segs) :
          EndsBy(files[segs[i].ino].frames, segs[i].writeIndex, segs[i].writeOffset)
    BY DEF IInv, Covered
  <2>5. CommitAppend
    BY <1>4 DEF SyncAppend
  <2> QED BY <1>1, <2>1, <2>2, <2>3, <2>4, <2>5, CommitInv
<1>5. CASE WriteEnd
  <2>1. FsWrite(segs[l].ino, WithBatch(n, 0)) /\ pc = "writing"
    BY <1>3, <1>5 DEF WriteEnd
  <2>2. /\ WithBatch(n, 0) \in File /\ Ordered(WithBatch(n, 0).frames)
        /\ EndsBy(WithBatch(n, 0).frames, segs[l].writeIndex, segs[l].writeOffset)
        /\ EndsBy(WithBatch(n, 0).frames, segs[l].writeIndex + n,
                  segs[l].writeOffset + AppendSize(op.batch))
    <3>1. n \in 0..Len(op.batch) /\ 0 \in Nat /\ SizeOfFirst(op.batch, n) = AppendSize(op.batch)
      BY <1>2, BatchFacts DEF SizeOfFirst, AppendSize
    <3> QED BY <1>2, <1>3, <3>1, WithBatchFacts, Zenon
  <2>3. CASE SyncOnAppend
    <3>1. Goto("syncAppend") /\ UNCHANGED <<segs, diskSize, acked, durable>>
      BY <1>5, <2>3 DEF WriteEnd
    <3>2. /\ StorageTypes' /\ ChainTypes' /\ SegmentFiles' /\ Contiguous' /\ Covered'
          /\ RetentionBounds' /\ files'[segs[l].ino] = WithBatch(n, 0)
      BY <1>3, <2>1, <2>2, <3>1, WriteKeeps, ZenonT(30)
    <3>3. HistoryTypes' /\ HandlerTypes'
      BY <1>0, <1>1, <3>1 DEF HistoryTypes, HandlerTypes, Goto, Labels
    <3>4. EndsBy(files'[lastSegment'.ino].frames, lastSegment'.writeIndex + Len(op'.batch),
                 lastSegment'.writeOffset + AppendSize(op'.batch))
      BY <1>3, <2>2, <3>1, <3>2, ZenonT(30) DEF Goto, lastSegment
    <3>5. AppendControl'
      BY <1>2, <3>1, <3>4 DEF Goto, AppendControl, AppendSteps, Fits, EndsBy, AppendSize, lastSegment
    <3>6. CreateControl' /\ DropControl' /\ CutControl'
      BY <3>1 DEF Goto, CreateControl, DropControl, CutControl, CreateSteps
    <3> QED BY <3>2, <3>3, <3>5, <3>6, Assemble DEF Control
  <2>4. CASE ~SyncOnAppend
    <3>1. CommitAppend
      BY <1>5, <2>4 DEF WriteEnd
    <3>2. /\ StorageTypes' /\ Len(files') = Len(files) /\ files'[segs[l].ino] = WithBatch(n, 0)
          /\ \A i \in 1..Len(files') : Ordered(files'[i].frames)
          /\ \A i \in 1..Len(segs) :
               EndsBy(files'[segs[i].ino].frames, segs[i].writeIndex, segs[i].writeOffset)
      BY <1>3, <2>1, <2>2, WriteOver, ZenonT(30)
    <3>3. EndsBy(files'[lastSegment.ino].frames, lastSegment.writeIndex + Len(op.batch),
                 lastSegment.writeOffset + AppendSize(op.batch))
      BY <1>3, <2>2, <3>2
    <3> QED BY <1>1, <3>1, <3>2, <3>3, CommitInv
  <2> QED BY <2>3, <2>4
<1> QED BY <1>4, <1>5

\* Trim cuts what the segment does not count.
LEMMA TrimInv ==
  ASSUME IInv, Trim \/ TrimSync \/ TrimFails
  PROVE  IInv'
<1> DEFINE l == Len(segs)
           f == Truncated(files[segs[l].ino], segs[l].writeIndex, segs[l].writeOffset)
<1>0. StorageTypes /\ ChainTypes /\ HandlerTypes /\ HistoryTypes /\ "error" \in Results
  BY TypeParts DEF IInv, Results
<1>1. pc \in {"trim", "trimSync"} /\ UNCHANGED <<segs, diskSize, syncer, acked, durable, nextId>>
  BY DEF Trim, TrimSync, TrimFails
<1>2. op.kind = "append" /\ op.batch \in Batches /\ segs # <<>>
  BY <1>1, ZenonT(30) DEF IInv, Control, AppendControl, AppendSteps
<1>3. l \in 1..Len(segs) /\ lastSegment = segs[l] /\ segs[l].ino \in 1..Len(files)
  BY <1>2, LastFacts, SegmentFacts
<1>4. CASE TrimFails
  <2>1. HistoryTypes'
    BY <1>0, <1>4 DEF TrimFails, HistoryTypes
  <2> QED BY <1>0, <1>4, <2>1, QuietReturn DEF TrimFails
<1>5. CASE TrimSync
  <2>1. StorageTypes' /\ UNCHANGED files
    BY <1>0, <1>3, <1>5, FsSyncFacts DEF TrimSync
  <2>2. SegmentFiles' /\ Contiguous' /\ Covered' /\ RetentionBounds' /\ ChainTypes'
    BY <1>1, <2>1, QuietFacts
  <2>3. HistoryTypes'
    BY <1>0, <1>5 DEF TrimSync, HistoryTypes
  <2>4. HandlerTypes' /\ Control'
    BY <1>0, <1>5, ReturnFacts DEF TrimSync
  <2> QED BY <2>1, <2>2, <2>3, <2>4, Assemble
<1>6. CASE Trim
  <2>1. f \in File /\ Ordered(f.frames) /\ EndsBy(f.frames, segs[l].writeIndex, segs[l].writeOffset)
    BY <1>3, SegmentFacts, TruncatedFile, ZenonT(30)
  <2>2. FsWrite(segs[l].ino, f) /\ Goto("trimSync") /\ UNCHANGED faults
    BY <1>3, <1>6 DEF Trim
  <2> HIDE DEF f
  <2>3. /\ StorageTypes' /\ ChainTypes' /\ SegmentFiles' /\ Contiguous' /\ Covered'
        /\ RetentionBounds'
    BY <1>1, <1>3, <2>1, <2>2, WriteKeeps
  <2>4. HistoryTypes' /\ HandlerTypes'
    BY <1>0, <1>1, <2>2 DEF HistoryTypes, HandlerTypes, Goto, Labels
  <2>5. Control'
    BY <1>1, <1>2, <2>2 DEF Goto, Control, AppendControl, CreateControl, DropControl,
       CutControl, AppendSteps, CreateSteps
  <2> QED BY <2>3, <2>4, <2>5, Assemble
<1> QED BY <1>4, <1>5, <1>6

(***************************************************************************)
(* The steps that create a segment file.                                   *)
(***************************************************************************)
\* The file of the new segment comes behind those of the others.
LEMMA CreateFileInv ==
  ASSUME IInv, CreateFile \/ CreateFileFails
  PROVE  IInv'
<1>0. StorageTypes /\ ChainTypes /\ HandlerTypes /\ HistoryTypes /\ "error" \in Results
  BY TypeParts DEF IInv, Results
<1>1. CASE CreateFileFails
  <2>1. HistoryTypes'
    BY <1>0, <1>1, SMTT(20) DEF CreateFileFails, HistoryTypes, Fault
  <2> QED BY <1>0, <1>1, <2>1, QuietReturn DEF CreateFileFails
<1>2. CASE CreateFile
  <2>1. /\ pc = "create" /\ FsCreate(op.base) /\ Goto("writeHeader")
        /\ UNCHANGED <<segs, diskSize, syncer, acked, durable, nextId, faults>>
    BY <1>2 DEF CreateFile
  <2>2. op.base \in Nat
    BY <1>0 DEF HandlerTypes, Op
  <2>3. /\ StorageTypes' /\ Len(files') = Len(files) + 1
        /\ \A m \in 1..Len(files) : files'[m] = files[m]
        /\ files'[Len(files) + 1].frames = <<>>
    BY <1>0, <2>1, <2>2, FsCreateFacts, EmptyFileFacts
  <2>4. Len(files) \in Nat
    BY <1>0 DEF StorageTypes
  <2>5. \A i \in 1..Len(segs) : segs[i].ino \in 1..Len(files) /\ segs[i].ino \in 1..Len(files')
    BY <2>3, <2>4, SegmentFacts
  <2>6. SegmentFiles' /\ Contiguous'
    BY <2>1, <2>5, ZenonT(30) DEF IInv, SegmentFiles, Contiguous, NextSequence
  <2>7. Covered'
    <3>1. \A n \in 1..Len(files') : Ordered(files'[n].frames)
      <4> SUFFICES ASSUME NEW n \in 1..Len(files')
                   PROVE  Ordered(files'[n].frames)
        OBVIOUS
      <4>1. CASE n \in 1..Len(files)
        BY <4>1, <2>3 DEF IInv, Covered
      <4>2. CASE n = Len(files) + 1
        BY <4>2, <2>3 DEF Ordered
      <4> QED BY <4>1, <4>2, <2>3, <2>4
    <3>2. \A i \in 1..Len(segs) :
            EndsBy(files'[segs[i].ino].frames, segs[i].writeIndex, segs[i].writeOffset)
      BY <2>3, <2>5 DEF IInv, Covered
    <3> QED BY <2>1, <3>1, <3>2 DEF Covered, EndsBy, Ordered
  <2>8. RetentionBounds' /\ ChainTypes' /\ HistoryTypes' /\ HandlerTypes'
    BY <1>0, <2>1 DEF IInv, RetentionBounds, ChainTypes, HistoryTypes, HandlerTypes, Goto, Labels
  <2>9. CreateControl'
    <3>1. Len(files') > 0 /\ \A i \in 1..Len(segs) : segs[i].ino < Len(files')
      BY <2>3, <2>4, <2>5
    <3> QED BY <2>1, <3>1 DEF Goto, IInv, Control, CreateControl, CreateSteps, Fits, lastSegment, NextSequence
  <2>10. AppendControl' /\ DropControl' /\ CutControl'
    BY <2>1 DEF Goto, AppendControl, DropControl, CutControl, AppendSteps
  <2> QED BY <2>3, <2>6, <2>7, <2>8, <2>9, <2>10, Assemble DEF Control
<1> QED BY <1>1, <1>2

\* Neither the header nor its fsync touches a frame.
LEMMA HeaderInv ==
  ASSUME IInv, WriteHeader \/ WriteHeaderFails \/ SyncHeader \/ SyncNewFails
  PROVE  IInv'
<1> DEFINE n == Len(files)
           torn == [files[n] EXCEPT !.hdr = "torn", !.size = HeaderSize - 1]
<1>0. StorageTypes /\ ChainTypes /\ HandlerTypes /\ HistoryTypes /\ "error" \in Results
  BY TypeParts DEF IInv, Results
<1>1. /\ pc \in CreateSteps \ {"create"}
      /\ UNCHANGED <<segs, diskSize, syncer, acked, durable, nextId>>
  BY DEF WriteHeader, WriteHeaderFails, SyncHeader, SyncNewFails, CreateSteps
<1>2. n \in Nat /\ n \in 1..n /\ files[n] \in File
  BY <1>0, <1>1 DEF IInv, Control, CreateControl, StorageTypes
<1>3. /\ NewHeader(files[n]) \in File /\ NewHeader(files[n]).frames = files[n].frames
      /\ torn \in File /\ torn.frames = files[n].frames
  <2>1. {"ok", "torn"} \subseteq HdrStates /\ HeaderSize \in Nat /\ HeaderSize - 1 \in Nat
    BY DEF HdrStates, HeaderSize
  <2>2. NewHeader(files[n]) \in File /\ NewHeader(files[n]).frames = files[n].frames
    BY <1>2, <2>1, HeaderFacts, ZenonT(30) DEF NewHeader
  <2>3. torn \in File /\ torn.frames = files[n].frames
    BY <1>2, <2>1, HeaderFacts, Zenon
  <2> QED BY <2>2, <2>3
<1>4. CASE SyncNewFails
  <2>1. HistoryTypes'
    BY <1>0, <1>4, SMTT(20) DEF SyncNewFails, HistoryTypes, Fault
  <2> QED BY <1>0, <1>4, <2>1, QuietReturn DEF SyncNewFails
<1>5. ASSUME NEW f \in File, f.frames = files[n].frames, FsWrite(n, f)
      PROVE  /\ StorageTypes' /\ ChainTypes' /\ SegmentFiles' /\ Contiguous' /\ Covered'
             /\ RetentionBounds' /\ Len(files') = n
  <2>1. /\ StorageTypes' /\ Len(files') = n
        /\ \A m \in 1..n : files'[m] = IF m = n THEN f ELSE files[m]
    BY <1>0, <1>2, <1>5, FsWriteFacts
  <2>2. \A m \in 1..n : files'[m].frames = files[m].frames
    BY <2>1, <1>5
  <2> QED BY <1>1, <2>1, <2>2, QuietFacts
<1>6. CASE WriteHeaderFails
  <2>1. HistoryTypes' /\ Return("error")
    BY <1>0, <1>6, SMTT(20) DEF WriteHeaderFails, HistoryTypes, Fault
  <2>2. CASE FsIdle
    BY <1>0, <1>1, <2>1, <2>2, QuietReturn
  <2>3. CASE FsWrite(n, torn)
    <3> HIDE DEF torn
    <3>1. HandlerTypes' /\ Control'
      BY <1>0, <2>1, ReturnFacts
    <3> QED BY <1>3, <1>5, <2>1, <2>3, <3>1, Assemble
  <2> QED BY <1>6, <2>2, <2>3 DEF WriteHeaderFails
<1>7. ASSUME pc' \in CreateSteps \ {"create"}, UNCHANGED op, Len(files') = n
      PROVE  Control'
  <2>1. CreateControl'
    BY <1>1, <1>7 DEF IInv, Control, CreateControl, CreateSteps, Fits, lastSegment, NextSequence
  <2>2. AppendControl' /\ DropControl' /\ CutControl'
    BY <1>7 DEF AppendControl, DropControl, CutControl, AppendSteps, CreateSteps
  <2> QED BY <2>1, <2>2 DEF Control
<1>8. CASE WriteHeader
  <2>1. FsWrite(n, NewHeader(files[n])) /\ Goto("syncHeader") /\ UNCHANGED faults
    BY <1>8 DEF WriteHeader
  <2>2. HistoryTypes' /\ HandlerTypes'
    BY <1>0, <1>1, <2>1 DEF HistoryTypes, HandlerTypes, Goto, Labels
  <2>3. /\ StorageTypes' /\ ChainTypes' /\ SegmentFiles' /\ Contiguous' /\ Covered'
        /\ RetentionBounds' /\ Len(files') = n
    BY <1>3, <1>5, <2>1
  <2>4. Control'
    BY <1>7, <2>1, <2>3 DEF Goto, CreateSteps
  <2> QED BY <2>2, <2>3, <2>4, Assemble
<1>9. CASE SyncHeader
  <2>1. FsSync(n) /\ Goto("syncDir") /\ UNCHANGED faults
    BY <1>9 DEF SyncHeader
  <2>2. StorageTypes' /\ UNCHANGED files
    BY <1>0, <1>2, <2>1, FsSyncFacts
  <2>3. SegmentFiles' /\ Contiguous' /\ Covered' /\ RetentionBounds' /\ ChainTypes'
    BY <1>1, <2>2, QuietFacts
  <2>4. HistoryTypes' /\ HandlerTypes'
    BY <1>0, <1>1, <2>1 DEF HistoryTypes, HandlerTypes, Goto, Labels
  <2>5. Control'
    BY <1>7, <2>1, <2>2 DEF Goto, CreateSteps
  <2> QED BY <2>2, <2>3, <2>4, <2>5, Assemble
<1> QED BY <1>4, <1>6, <1>8, <1>9

\* The new segment starts where the last one ends, or is the only one.
LEMMA SyncDirectoryInv ==
  ASSUME IInv, SyncDirectory
  PROVE  IInv'
<1> DEFINE l == Len(segs)
           s == newSegment(Len(files), op.base)
<1>0. StorageTypes /\ ChainTypes /\ HandlerTypes /\ HistoryTypes
  BY TypeParts DEF IInv
<1>1. /\ pc = "syncDir" /\ FsSyncDir /\ segs' = Append(segs, s) /\ diskSize' = diskSize + HeaderSize
      /\ IF op.kind = "append" THEN Goto("write") ELSE Return("ok")
      /\ UNCHANGED <<syncer, acked, durable, nextId, faults>>
  BY DEF SyncDirectory
<1>2. /\ \/ /\ op.kind = "append" /\ op.batch \in Batches /\ segs # <<>>
            /\ op.base = NextSequence(lastSegment)
            /\ MaxSegments > 0 => Len(segs) < MaxSegments
            /\ Fits(HeaderSize + AppendSize(op.batch))
         \/ op.kind = "afterAll" /\ segs = <<>> /\ Fits(HeaderSize)
      /\ Len(files) > 0 /\ \A i \in 1..l : segs[i].ino < Len(files)
  BY <1>1 DEF IInv, Control, CreateControl, CreateSteps
<1>3. /\ StorageTypes' /\ Len(files') = Len(files)
      /\ \A m \in 1..Len(files) : files'[m].frames = files[m].frames \/ files'[m].frames = <<>>
  BY <1>0, <1>1, FsSyncDirFacts, EmptyFileFacts
<1>4. l \in Nat /\ Len(files) \in Nat /\ op.base \in Nat /\ diskSize \in Int
  BY <1>0 DEF StorageTypes, ChainTypes, HandlerTypes, Op
<1>5. /\ s \in Segment /\ s.ino = Len(files) /\ s.base = op.base /\ s.startIndex = 0
      /\ s.writeIndex = 0 /\ s.writeOffset = HeaderSize
  BY <1>4 DEF newSegment, Segment, HeaderSize
<1> HIDE DEF s
<1>6. /\ segs' \in Seq(Segment) /\ Len(segs') = l + 1
      /\ \A i \in 1..l : segs'[i] = segs[i]
      /\ segs'[l + 1] = s
  BY <1>0, <1>1, <1>5 DEF ChainTypes
<1> HIDE DEF l
<1>7. SegmentFiles'
  <2>1. \A i \in 1..Len(segs') : segs'[i].ino \in 1..Len(files') /\ segs'[i].writeOffset >= HeaderSize
    <3>1. \A i \in 1..l : segs[i].ino \in 1..Len(files) /\ segs[i].writeOffset >= HeaderSize
      BY DEF IInv, SegmentFiles, l
    <3>2. s.ino \in 1..Len(files) /\ s.writeOffset >= HeaderSize
      BY <1>2, <1>4, <1>5 DEF HeaderSize
    <3> QED BY <1>3, <1>4, <1>6, <3>1, <3>2
  <2>2. ASSUME NEW i \in 1..Len(segs'), NEW j \in 1..Len(segs'), i < j
        PROVE  segs'[i].ino < segs'[j].ino
    <3>1. CASE j \in 1..l
      <4>1. i \in 1..l
        BY <1>4, <2>2, <3>1
      <4> QED BY <1>6, <2>2, <3>1, <4>1 DEF IInv, SegmentFiles, l
    <3>2. CASE j = l + 1
      BY <1>2, <1>4, <1>5, <1>6, <2>2, <3>2, SMTT(20)
    <3> QED BY <1>4, <1>6, <3>1, <3>2
  <2> QED BY <2>1, <2>2 DEF SegmentFiles
<1>8. Contiguous'
  <2>1. \A i \in 1..Len(segs') : segs'[i].startIndex <= segs'[i].writeIndex
    BY <1>4, <1>5, <1>6, SMTT(20) DEF IInv, Contiguous, l
  <2>2. ASSUME NEW i \in 2..Len(segs')
        PROVE  segs'[i].base = NextSequence(segs'[i - 1]) /\ segs'[i].startIndex = 0
    <3>1. CASE i \in 2..l
      BY <1>4, <1>6, <3>1, SMTT(20) DEF IInv, Contiguous, l
    <3>2. CASE i = l + 1
      <4>1. l \in 1..l /\ segs # <<>>
        BY <1>0, <1>4, <2>2, <1>6, <3>2 DEF l, ChainTypes
      <4>2. op.base = NextSequence(segs[l])
        BY <1>2, <4>1 DEF lastSegment, l
      <4> QED BY <1>4, <1>5, <1>6, <3>2, <4>1, <4>2, SMTT(20)
    <3> QED BY <1>4, <1>6, <3>1, <3>2
  <2> QED BY <2>1, <2>2 DEF Contiguous, NextSequence
<1>9. Covered'
  <2>1. \A n \in 1..Len(files') : Ordered(files'[n].frames)
    <3>1. Ordered(<<>>)
      BY DEF Ordered
    <3> QED BY <1>3, <3>1 DEF IInv, Covered
  <2>2. ASSUME NEW i \in 1..Len(segs')
        PROVE  EndsBy(files'[segs'[i].ino].frames, segs'[i].writeIndex, segs'[i].writeOffset)
    <3>1. CASE i \in 1..l
      <4>1. /\ segs[i].ino \in 1..Len(files)
            /\ EndsBy(files[segs[i].ino].frames, segs[i].writeIndex, segs[i].writeOffset)
        BY <3>1, SegmentFacts DEF l
      <4>2. EndsBy(<<>>, segs[i].writeIndex, segs[i].writeOffset)
        BY DEF EndsBy
      <4> QED BY <1>3, <1>6, <3>1, <4>1, <4>2
    <3>2. CASE i = l + 1
      BY <1>5, <1>6, <3>2, SMTT(20) DEF EndsBy
    <3> QED BY <1>4, <1>6, <3>1, <3>2
  <2> QED BY <2>1, <2>2 DEF Covered, EndsBy, Ordered
<1>10. ChainTypes' /\ RetentionBounds'
  <2>1. diskSize' \in Int
    BY <1>1, <1>4 DEF HeaderSize
  <2>2. CASE segs = <<>>
    <3>1. l = 0
      BY <2>2 DEF l
    <3> QED BY <1>1, <1>2, <1>4, <1>6, <2>1, <2>2, <3>1, ConfigAssumption, SMTT(20)
            DEF Fits, RetentionBounds, ChainTypes
  <2>3. CASE segs # <<>>
    <3>1. AppendSize(op.batch) \in Nat
      BY <1>2, <2>3, BatchFacts
    <3> QED BY <1>1, <1>2, <1>4, <1>6, <2>1, <2>3, <3>1, ConfigAssumption
            DEF Fits, RetentionBounds, ChainTypes, HeaderSize, l
  <2> QED BY <2>2, <2>3
<1>11. HistoryTypes'
  BY <1>0, <1>1 DEF HistoryTypes
<1>12. HandlerTypes' /\ Control'
  <2>1. CASE op.kind # "append"
    BY <1>1, <2>1, ReturnFacts DEF Results
  <2>2. CASE op.kind = "append"
    <3>1. Goto("write") /\ op.batch \in Batches /\ Fits(HeaderSize + AppendSize(op.batch))
      BY <1>1, <1>2, <2>2
    <3>2. HandlerTypes'
      BY <1>0, <3>1 DEF Goto, HandlerTypes, Labels
    <3>3. AppendSize(op.batch) \in Nat /\ segs' # <<>>
      BY <1>4, <1>6, <3>1, BatchFacts
    <3>4. Fits(AppendSize(op.batch))'
      BY <1>1, <1>4, <3>1, <3>3, ConfigAssumption DEF Fits, HeaderSize, Goto, AppendSize
    <3>5. AppendControl'
      BY <2>2, <3>1, <3>3, <3>4 DEF Goto, AppendControl, AppendSteps
    <3>6. CreateControl' /\ DropControl' /\ CutControl'
      BY <3>1 DEF Goto, CreateControl, DropControl, CutControl, CreateSteps
    <3> QED BY <3>2, <3>5, <3>6 DEF Control
  <2> QED BY <2>1, <2>2
<1> QED BY <1>3, <1>7, <1>8, <1>9, <1>10, <1>11, <1>12, Assemble

(***************************************************************************)
(* The steps of the truncations.                                           *)
(***************************************************************************)
\* The entry of both: the segment to keep is the one that holds seq.
LEMMA TruncateCallInv ==
  ASSUME IInv, NEW seq \in TruncateSeqs, TruncateBeforeCall(seq) \/ TruncateAfterCall(seq)
  PROVE  IInv'
<1> DEFINE K == KeepIndex(seq)
           l == Len(segs)
<1>0. StorageTypes /\ ChainTypes /\ HandlerTypes /\ HistoryTypes /\ seq \in Nat /\ "ok" \in Results
  BY TypeParts, InputAssumption DEF IInv, Results
<1>1. /\ segs # <<>> /\ FsIdle /\ UNCHANGED <<segs, diskSize, syncer, nextId, faults>>
      /\ acked' \subseteq acked /\ durable' \subseteq durable
  BY DEF TruncateBeforeCall, TruncateAfterCall, Retain
<1>2. l \in Nat /\ l >= 1
  BY <1>1, LastFacts
<1>3. K = 0 \/ (K \in 1..l /\ Holds(segs[K], seq))
  BY <1>0, KeepIndexFacts
<1>4. HistoryTypes'
  BY <1>0, <1>1 DEF HistoryTypes
<1>5. CASE Return("ok")
  BY <1>0, <1>1, <1>4, <1>5, QuietReturn
<1>6. ASSUME NEW kind \in Kinds, NEW from \in Nat, NEW to \in Nat, Drop(kind, seq, from, to),
             from \in 1..(to + 1),
             \/ kind = "beforeAll" /\ to = l - 1
             \/ kind = "beforeKeep" /\ to < l /\ Holds(segs[to + 1], seq)
             \/ kind = "afterAll" /\ to = l /\ from = 1
             \/ kind = "afterKeep" /\ to = l /\ K \in 1..l /\ Holds(segs[K], seq)
      PROVE  IInv'
  <2>1. StorageTypes' /\ UNCHANGED files
    BY <1>0, <1>1, FsIdleFacts
  <2>2. SegmentFiles' /\ Contiguous' /\ Covered' /\ RetentionBounds' /\ ChainTypes'
    BY <1>1, <2>1, QuietFacts
  <2>3. K \in Nat
    BY <1>2, <1>3
  <2> HIDE DEF K
  <2>4. /\ op' \in Op /\ op'.kind = kind /\ op'.seq = seq /\ op'.keep = K /\ op'.i = from /\ op'.n = to
        /\ pc' = "drop" /\ UNCHANGED ret
    <3>1. op' = [kind |-> kind, batch |-> <<>>, id |-> 0, seq |-> seq, keep |-> K,
                 i |-> from, n |-> to, base |-> 0]
      BY <1>6, Zenon DEF Drop, NoOp, K
    <3>2. <<>> \in Seq(Nat) /\ pc' = "drop" /\ UNCHANGED ret
      BY <1>6 DEF Drop
    <3> QED BY <1>0, <2>3, <3>1, <3>2 DEF Op
  <2>5. HandlerTypes'
    BY <1>0, <2>4 DEF HandlerTypes, Labels
  <2>6. DropControl'
    <3>1. segs' = segs /\ op'.i \in 1..(op'.n + 1)
      BY <1>1, <1>6, <2>4
    <3>2. \/ op'.kind = "beforeAll" /\ op'.n = Len(segs) - 1
          \/ op'.kind = "beforeKeep" /\ op'.n < Len(segs) /\ Holds(segs[op'.n + 1], op'.seq)
          \/ op'.kind = "afterAll" /\ op'.n = Len(segs) /\ ~(op'.i > 1)
          \/ /\ op'.kind = "afterKeep" /\ op'.n = Len(segs)
             /\ op'.keep \in 1..Len(segs) /\ Holds(segs[op'.keep], op'.seq)
      BY <1>6, <2>4
    <3> QED BY <1>1, <3>1, <3>2 DEF DropControl, Holds, StartSequence, NextSequence
  <2>7. AppendControl' /\ CreateControl' /\ CutControl'
    BY <2>4, Zenon DEF AppendControl, CreateControl, CutControl, AppendSteps, CreateSteps
  <2> QED BY <1>4, <2>1, <2>2, <2>5, <2>6, <2>7, Assemble DEF Control
<1> HIDE DEF K
<1>7. CASE TruncateBeforeCall(seq)
  <2>1. CASE Drop("beforeAll", seq, 1, l - 1)
    BY <1>2, <1>6, <2>1 DEF Kinds
  <2>2. CASE K # 0 /\ Drop("beforeKeep", seq, 1, K - 1)
    BY <1>2, <1>3, <1>6, <2>2 DEF Kinds
  <2> QED BY <1>5, <1>7, <2>1, <2>2 DEF TruncateBeforeCall, K
<1>8. CASE TruncateAfterCall(seq)
  <2>1. CASE Drop("afterAll", seq, 1, l)
    BY <1>2, <1>6, <2>1 DEF Kinds
  <2>2. CASE K # 0 /\ Drop("afterKeep", seq, K + 1, l)
    BY <1>2, <1>3, <1>6, <2>2 DEF Kinds
  <2> QED BY <1>5, <1>8, <2>1, <2>2 DEF TruncateAfterCall, K
<1> QED BY <1>7, <1>8

\* A truncation loop closes segments and takes their bytes off the total.
LEMMA DropInv ==
  ASSUME IInv, DropSegment \/ DropFails
  PROVE  IInv'
<1>0. StorageTypes /\ ChainTypes /\ HandlerTypes /\ HistoryTypes /\ "error" \in Results
  BY TypeParts DEF IInv, Results
<1>1. pc = "drop" /\ op.i <= op.n /\ Closes(op.i) /\ UNCHANGED <<syncer, acked, durable, nextId>>
  BY DEF DropSegment, DropFails, Closes
<1>2. /\ segs # <<>> /\ op.i \in 1..(op.n + 1)
      /\ \/ op.kind = "beforeAll" /\ op.n = Len(segs) - 1
         \/ op.kind = "beforeKeep" /\ op.n < Len(segs) /\ Holds(segs[op.n + 1], op.seq)
         \/ op.kind = "afterAll" /\ op.n = Len(segs) /\ (op.i > 1 => Fits(HeaderSize))
         \/ /\ op.kind = "afterKeep" /\ op.n = Len(segs)
            /\ op.keep \in 1..Len(segs) /\ Holds(segs[op.keep], op.seq)
  BY <1>1 DEF IInv, Control, DropControl
<1>3. op.i \in Nat /\ op.n \in Nat /\ Len(segs) \in Nat /\ diskSize \in Int
  BY <1>0 DEF HandlerTypes, Op, ChainTypes
<1>4. op.i \in 1..Len(segs)
  BY <1>1, <1>2, <1>3
<1>5. segs[op.i].writeOffset \in Nat /\ segs[op.i].writeOffset >= HeaderSize
  BY <1>4, SegmentFacts
<1>6. CASE DropFails
  <2>1. StorageTypes' /\ UNCHANGED files
    BY <1>0, <1>6, FsIdleFacts DEF DropFails
  <2>2. /\ segs' \in Seq(Segment) /\ Len(segs') = Len(segs)
        /\ SegmentFiles' /\ Contiguous' /\ Covered'
    BY <1>1, <1>4, <2>1, ClosedFacts
  <2>3. ChainTypes' /\ RetentionBounds'
    BY <1>0, <1>6, <2>2 DEF DropFails, ChainTypes, IInv, RetentionBounds
  <2>4. HistoryTypes'
    BY <1>0, <1>6, SMTT(20) DEF DropFails, HistoryTypes, Fault
  <2>5. HandlerTypes' /\ Control'
    BY <1>0, <1>6, ReturnFacts DEF DropFails
  <2> QED BY <2>1, <2>2, <2>3, <2>4, <2>5, Assemble
<1>7. CASE DropSegment
  <2>1. StorageTypes' /\ UNCHANGED files
    BY <1>0, <1>7, FsRemoveFacts DEF DropSegment
  <2>2. /\ segs' \in Seq(Segment) /\ Len(segs') = Len(segs)
        /\ \A i \in 1..Len(segs) : SameButOpen(segs'[i], segs[i])
        /\ SegmentFiles' /\ Contiguous' /\ Covered'
    BY <1>1, <1>4, <2>1, ClosedFacts
  <2>3. /\ diskSize' = diskSize - segs[op.i].writeOffset
        /\ op' = [op EXCEPT !.i = op.i + 1]
        /\ UNCHANGED <<pc, ret, syncer, acked, durable, nextId, faults>>
    BY <1>7 DEF DropSegment, Size
  <2>4. ChainTypes' /\ RetentionBounds' /\ Fits(HeaderSize)'
    <3>1. diskSize' \in Int
      BY <1>3, <1>5, <2>3
    <3>2. MaxDiskSize > 0 => diskSize <= MaxDiskSize
      BY DEF IInv, RetentionBounds
    <3>3. MaxDiskSize > 0 => diskSize' <= MaxDiskSize /\ diskSize' + HeaderSize <= MaxDiskSize
      <4>1. \A d, w, m \in Int : d <= m /\ w >= 64 => d - w <= m /\ (d - w) + 64 <= m
        BY SMTT(20)
      <4>2. /\ diskSize \in Int /\ MaxDiskSize \in Int
            /\ segs[op.i].writeOffset \in Int /\ segs[op.i].writeOffset >= 64
        BY <1>3, <1>5, ConfigAssumption DEF HeaderSize
      <4> QED BY <2>3, <3>2, <4>1, <4>2 DEF HeaderSize
    <3>4. ChainTypes' /\ Fits(HeaderSize)'
      BY <2>2, <3>1, <3>3 DEF ChainTypes, Fits
    <3> QED BY <2>2, <3>3, <3>4 DEF IInv, RetentionBounds
  <2>5. HistoryTypes'
    BY <1>0, <2>3 DEF HistoryTypes
  <2>6. /\ op' \in Op /\ op'.i = op.i + 1 /\ op'.n = op.n /\ op'.kind = op.kind
        /\ op'.seq = op.seq /\ op'.keep = op.keep
    <3>1. op.i + 1 \in Nat
      BY <1>3
    <3> QED BY <1>0, <2>3, <3>1 DEF HandlerTypes, Op
  <2>7. HandlerTypes'
    BY <1>0, <2>3, <2>6 DEF HandlerTypes
  <2>8. DropControl'
    <3>1. segs' # <<>> /\ op'.i \in 1..(op'.n + 1)
      BY <1>1, <1>2, <1>3, <2>2, <2>6, SMTT(20)
    <3>2. \A i \in 1..Len(segs) : Holds(segs[i], op.seq) => Holds(segs'[i], op'.seq)
      BY <2>2, <2>6 DEF Holds, SameButOpen, SamePlace, StartSequence, NextSequence
    <3>3. op.n < Len(segs) => op.n + 1 \in 1..Len(segs)
      BY <1>3
    <3>4. \/ op'.kind = "beforeAll" /\ op'.n = Len(segs') - 1
          \/ op'.kind = "beforeKeep" /\ op'.n < Len(segs') /\ Holds(segs'[op'.n + 1], op'.seq)
          \/ op'.kind = "afterAll" /\ op'.n = Len(segs')
          \/ /\ op'.kind = "afterKeep" /\ op'.n = Len(segs')
             /\ op'.keep \in 1..Len(segs') /\ Holds(segs'[op'.keep], op'.seq)
      BY <1>2, <2>2, <2>6, <3>2, <3>3
    <3> QED BY <2>4, <3>1, <3>4 DEF DropControl, Holds, StartSequence, NextSequence
  <2>9. AppendControl' /\ CreateControl' /\ CutControl'
    BY <1>1, <2>3 DEF AppendControl, CreateControl, CutControl, AppendSteps, CreateSteps
  <2> QED BY <2>1, <2>2, <2>4, <2>5, <2>7, <2>8, <2>9, Assemble DEF Control
<1> QED BY <1>6, <1>7

\* The loop is done: what is left of the chain is one stretch of it.
LEMMA DropDoneInv ==
  ASSUME IInv, DropDone
  PROVE  IInv'
<1> DEFINE l == Len(segs)
<1>0. StorageTypes /\ ChainTypes /\ HandlerTypes /\ HistoryTypes /\ "ok" \in Results
  BY TypeParts DEF IInv, Results
<1>1. /\ pc = "drop" /\ op.i > op.n /\ FsIdle
      /\ UNCHANGED <<diskSize, syncer, acked, durable, nextId, faults>>
  BY DEF DropDone
<1>2. /\ segs # <<>> /\ op.i \in 1..(op.n + 1)
      /\ \/ op.kind = "beforeAll" /\ op.n = Len(segs) - 1
         \/ op.kind = "beforeKeep" /\ op.n < Len(segs) /\ Holds(segs[op.n + 1], op.seq)
         \/ op.kind = "afterAll" /\ op.n = Len(segs) /\ (op.i > 1 => Fits(HeaderSize))
         \/ /\ op.kind = "afterKeep" /\ op.n = Len(segs)
            /\ op.keep \in 1..Len(segs) /\ Holds(segs[op.keep], op.seq)
  BY <1>1 DEF IInv, Control, DropControl
<1>3. op.i \in Nat /\ op.n \in Nat /\ op.i = op.n + 1 /\ op.seq \in Nat /\ op.keep \in Nat
  BY <1>0, <1>1, <1>2, SMTT(20) DEF HandlerTypes, Op
<1>4. l \in Nat /\ l \in 1..l /\ lastSegment = segs[l]
  BY <1>2, LastFacts
<1>5. StorageTypes' /\ UNCHANGED files
  BY <1>0, <1>1, FsIdleFacts
<1>6. HistoryTypes'
  BY <1>0, <1>1 DEF HistoryTypes
<1>7. ASSUME segs' \in Seq(Segment), Len(segs') <= l
      PROVE  ChainTypes' /\ RetentionBounds'
  <2>1. Len(segs') \in Nat
    BY <1>7
  <2> QED BY <1>0, <1>1, <1>4, <1>7, <2>1, ConfigAssumption, SMTT(20)
             DEF ChainTypes, IInv, RetentionBounds
<1>8. CASE /\ op.kind = "beforeAll"
           /\ pc' = "setRead"
           /\ op' = [op EXCEPT !.i = Len(segs), !.n = lastSegment.writeIndex]
           /\ UNCHANGED <<segs, ret>>
  <2>1. SegmentFiles' /\ Contiguous' /\ Covered' /\ RetentionBounds' /\ ChainTypes'
    BY <1>1, <1>5, <1>8, QuietFacts
  <2>2. segs[l].writeIndex \in Nat
    BY <1>4, SegmentFacts, Zenon
  <2>3. op' \in Op /\ op'.i = l /\ op'.n = segs[l].writeIndex /\ op'.kind = "beforeAll"
    BY <1>0, <1>4, <1>8, <2>2, Zenon DEF HandlerTypes, Op
  <2>4. HandlerTypes'
    BY <1>0, <1>8, <2>3 DEF HandlerTypes, Labels
  <2>5. CutControl'
    BY <1>4, <1>8, <2>2, <2>3 DEF CutControl
  <2>6. AppendControl' /\ CreateControl' /\ DropControl'
    BY <1>8 DEF AppendControl, CreateControl, DropControl, AppendSteps, CreateSteps
  <2> QED BY <1>5, <1>6, <2>1, <2>4, <2>5, <2>6, Assemble DEF Control
<1>9. CASE /\ op.kind = "beforeKeep"
           /\ segs' = SubSeq(segs, op.i, Len(segs))
           /\ IF StartSequence(segs[op.i]) < op.seq
              THEN /\ pc' = "setRead"
                   /\ op' = [op EXCEPT !.i = 1, !.n = readIndex]
                   /\ UNCHANGED ret
              ELSE Return("ok")
  <2>1. op.i \in 1..l /\ l \in op.i..l /\ Holds(segs[op.i], op.seq) /\ CutTo(op.i, l)
    BY <1>2, <1>3, <1>4, <1>9 DEF CutTo
  <2>2. /\ segs' \in Seq(Segment) /\ Len(segs') = l - op.i + 1 /\ Len(segs') <= l
        /\ \A i \in 1..Len(segs') : segs'[i] = segs[(op.i - 1) + i]
        /\ SegmentFiles' /\ Contiguous' /\ Covered'
    BY <1>5, <2>1, CutFacts
  <2>3. 1 \in 1..Len(segs') /\ segs'[1] = segs[op.i]
    <3>1. 1 \in 1..Len(segs') /\ (op.i - 1) + 1 = op.i
      BY <1>3, <1>4, <2>1, <2>2, SMTT(30)
    <3>2. segs'[1] = segs[(op.i - 1) + 1]
      BY <2>2, <3>1
    <3> QED BY <3>1, <3>2
  <2>4. HandlerTypes' /\ Control'
    <3>1. CASE Return("ok")
      BY <1>0, <3>1, ReturnFacts
    <3>2. CASE /\ pc' = "setRead"
               /\ op' = [op EXCEPT !.i = 1, !.n = readIndex]
               /\ UNCHANGED ret
      <4>1. readIndex \in Nat /\ readIndex <= segs[op.i].writeIndex
        <5>1. segs[op.i].base \in Nat /\ segs[op.i].writeIndex \in Nat /\ segs[op.i].startIndex \in Nat
          BY <2>1, SegmentFacts, ZenonT(30)
        <5>2. /\ segs[op.i].base + segs[op.i].startIndex <= op.seq
              /\ op.seq < segs[op.i].base + segs[op.i].writeIndex
          BY <2>1 DEF Holds, StartSequence, NextSequence
        <5>3. \A b, r, w, q \in Nat : b + r <= q /\ q < b + w => q - b \in Nat /\ q - b <= w
          BY SMTT(20)
        <5> QED BY <1>3, <5>1, <5>2, <5>3 DEF readIndex
      <4>2. op' \in Op /\ op'.i = 1 /\ op'.n = readIndex /\ op'.kind = "beforeKeep"
        BY <1>0, <1>9, <3>2, <4>1, ZenonT(30) DEF HandlerTypes, Op
      <4>3. HandlerTypes'
        BY <1>0, <3>2, <4>2 DEF HandlerTypes, Labels
      <4>4. CutControl'
        BY <2>3, <3>2, <4>1, <4>2 DEF CutControl
      <4>5. AppendControl' /\ CreateControl' /\ DropControl'
        BY <3>2 DEF AppendControl, CreateControl, DropControl, AppendSteps, CreateSteps
      <4> QED BY <4>3, <4>4, <4>5 DEF Control
    <3> QED BY <1>9, <3>1, <3>2
  <2> QED BY <1>5, <1>6, <1>7, <2>2, <2>4, Assemble
<1>10. CASE /\ op.kind = "afterAll"
            /\ segs' = <<>>
            /\ pc' = "create"
            /\ op' = [op EXCEPT !.base = StartSeq]
            /\ UNCHANGED ret
  <2>1. Fits(HeaderSize)'
    <3>1. Fits(HeaderSize)
      BY <1>2, <1>3, <1>4, <1>10
    <3> QED BY <1>1, <3>1 DEF Fits
  <2>2. segs' \in Seq(Segment) /\ Len(segs') = 0 /\ Len(segs') <= l
    BY <1>4, <1>10
  <2>3. SegmentFiles' /\ Contiguous' /\ Covered'
    <3>1. \A i \in 1..Len(segs') : SameButOpen(segs'[i], segs[0 + i])
      BY <2>2
    <3> QED BY <1>5, <2>2, <3>1, Sublist
  <2>4. op' \in Op /\ op'.kind = "afterAll"
    BY <1>0, <1>10, ConfigAssumption, ZenonT(30) DEF HandlerTypes, Op
  <2>5. HandlerTypes'
    BY <1>0, <1>10, <2>4 DEF HandlerTypes, Labels
  <2>6. CreateControl'
    BY <1>10, <2>1, <2>4 DEF CreateControl, CreateSteps
  <2>7. AppendControl' /\ DropControl' /\ CutControl'
    BY <1>10 DEF AppendControl, DropControl, CutControl, AppendSteps
  <2> QED BY <1>5, <1>6, <1>7, <2>2, <2>3, <2>5, <2>6, <2>7, Assemble DEF Control
<1>11. CASE /\ op.kind = "afterKeep"
            /\ segs' = SubSeq(segs, 1, op.keep)
            /\ Goto("truncate")
  <2>1. op.keep \in 1..l /\ Holds(segs[op.keep], op.seq) /\ CutTo(1, op.keep)
    BY <1>2, <1>11 DEF CutTo
  <2>2. 1 \in 1..l /\ op.keep \in 1..l
    BY <1>4, <2>1
  <2>3. /\ segs' \in Seq(Segment) /\ Len(segs') = op.keep - 1 + 1 /\ Len(segs') <= l
        /\ \A i \in 1..Len(segs') : segs'[i] = segs[(1 - 1) + i]
        /\ SegmentFiles' /\ Contiguous' /\ Covered'
    BY <1>5, <2>1, <2>2, CutFacts
  <2>4. Len(segs') = op.keep /\ segs' # <<>> /\ lastSegment' = segs[op.keep]
    <3>1. Len(segs') = op.keep /\ op.keep \in 1..Len(segs') /\ (1 - 1) + op.keep = op.keep
      BY <1>3, <2>1, <2>3, SMTT(20)
    <3>2. segs'[op.keep] = segs[(1 - 1) + op.keep]
      BY <2>3, <3>1
    <3>3. segs'[op.keep] = segs[op.keep] /\ segs' # <<>>
      BY <2>3, <3>1, <3>2
    <3> QED BY <3>1, <3>3 DEF lastSegment
  <2>5. HandlerTypes'
    BY <1>0, <1>11 DEF Goto, HandlerTypes, Labels
  <2>6. CutControl'
    BY <1>11, <2>1, <2>4 DEF Goto, CutControl, Holds, StartSequence, NextSequence
  <2>7. AppendControl' /\ CreateControl' /\ DropControl'
    BY <1>11, Zenon DEF Goto, AppendControl, CreateControl, DropControl, AppendSteps, CreateSteps
  <2> QED BY <1>5, <1>6, <1>7, <2>3, <2>5, <2>6, <2>7, Assemble DEF Control
<1> QED BY <1>8, <1>9, <1>10, <1>11 DEF DropDone

\* SetReadOffset touches no frame and moves the read start of the first
\* segment, at most to its end.
LEMMA SetReadInv ==
  ASSUME IInv, SetRead \/ SetReadSync \/ SetReadFails
  PROVE  IInv'
<1> DEFINE l == Len(segs)
           k == op.i
           f == [files[segs[k].ino] EXCEPT !.meta = op.n]
<1>0. StorageTypes /\ ChainTypes /\ HandlerTypes /\ HistoryTypes /\ {"ok", "error"} \subseteq Results
  BY TypeParts DEF IInv, Results
<1>1. /\ pc \in {"setRead", "setReadSync"}
      /\ UNCHANGED <<diskSize, syncer, acked, durable, nextId>>
  BY DEF SetRead, SetReadSync, SetReadFails
<1>2. /\ k \in 1..l /\ op.n <= segs[k].writeIndex
      /\ \/ op.kind = "beforeAll" /\ k = l
         \/ op.kind = "beforeKeep" /\ k = 1
  BY <1>1, Zenon DEF IInv, Control, CutControl
<1>3. op.n \in Nat /\ l \in Nat
  BY <1>0 DEF HandlerTypes, Op, ChainTypes
<1>4. segs[k] \in Segment /\ segs[k].ino \in 1..Len(files) /\ files[segs[k].ino] \in File
  BY <1>2, SegmentFacts, ZenonT(30)
<1>5. CASE SetReadFails
  <2>1. HistoryTypes'
    BY <1>0, <1>5, SMTT(20) DEF SetReadFails, HistoryTypes, Fault
  <2> QED BY <1>0, <1>5, <2>1, QuietReturn, ZenonT(30) DEF SetReadFails
<1>6. CASE SetRead
  <2>1. FsWrite(segs[k].ino, f) /\ Goto("setReadSync") /\ UNCHANGED <<segs, faults>>
    BY <1>6 DEF SetRead
  <2>2. f \in File /\ f.frames = files[segs[k].ino].frames
    BY <1>3, <1>4, ZenonT(30) DEF File
  <2> HIDE DEF f
  <2>3. /\ StorageTypes' /\ ChainTypes' /\ SegmentFiles' /\ Contiguous' /\ Covered'
        /\ RetentionBounds'
    <3>1. Ordered(f.frames) /\ EndsBy(f.frames, segs[k].writeIndex, segs[k].writeOffset)
      BY <1>2, <2>2, SegmentFacts, ZenonT(30)
    <3> QED BY <1>1, <1>2, <2>1, <2>2, <3>1, WriteKeeps, Zenon
  <2>4. HistoryTypes' /\ HandlerTypes'
    BY <1>0, <1>1, <2>1 DEF HistoryTypes, HandlerTypes, Goto, Labels
  <2>5. Control'
    BY <1>2, <2>1, Zenon DEF Goto, Control, AppendControl, CreateControl, DropControl, CutControl,
       AppendSteps, CreateSteps
  <2> QED BY <2>3, <2>4, <2>5, Assemble
<1>7. CASE SetReadSync
  <2> DEFINE t == [segs[k] EXCEPT !.startIndex = op.n]
  <2>1. FsSync(segs[k].ino) /\ Return("ok") /\ UNCHANGED faults
    BY <1>7 DEF SetReadSync
  <2>2. StorageTypes' /\ UNCHANGED files
    BY <1>0, <1>4, <2>1, FsSyncFacts
  <2>3. HistoryTypes'
    BY <1>0, <1>1, <2>1 DEF HistoryTypes
  <2>4. HandlerTypes' /\ Control'
    BY <1>0, <2>1, ReturnFacts
  <2>5. /\ t \in Segment /\ t.ino = segs[k].ino /\ t.base = segs[k].base /\ t.startIndex = op.n
        /\ t.writeIndex = segs[k].writeIndex /\ t.writeOffset = segs[k].writeOffset
    BY <1>3, <1>4, Zenon DEF Segment
  <2>6. /\ segs' \in Seq(Segment) /\ Len(segs') = l - k + 1 /\ segs'[1] = t
        /\ \A i \in 2..Len(segs') : segs'[i] = segs[(k - 1) + i]
    BY <1>7, ReadMoved
  <2> HIDE DEF t
  <2>7. \A q \in Nat : \A e \in 1..q : \A m \in Nat : m = q - e + 1 =>
          /\ e - 1 \in Nat /\ m + (e - 1) <= q /\ m <= q
          /\ \A i \in 2..m : (e - 1) + i \in 2..q
    OBVIOUS
  <2>8. k - 1 \in Nat /\ Len(segs') + (k - 1) <= l /\ Len(segs') \in Nat /\ Len(segs') <= l
    <3>1. Len(segs') \in Nat
      BY <2>6
    <3> HIDE DEF l, k
    <3> QED BY <1>2, <1>3, <2>6, <2>7, <3>1
  <2>9. \A i \in 2..Len(segs') : (k - 1) + i \in 2..l
    <3> HIDE DEF l, k
    <3> QED BY <1>2, <1>3, <2>6, <2>7, <2>8
  <2>10. ASSUME NEW i \in 1..Len(segs')
         PROVE  SamePlace(segs'[i], segs[(k - 1) + i]) /\ segs'[i].startIndex <= segs'[i].writeIndex
    <3>1. CASE i = 1
      <4>1. (k - 1) + i = k
        BY <1>2, <3>1
      <4> QED BY <1>2, <2>5, <2>6, <3>1, <4>1, Zenon DEF SamePlace
    <3>2. CASE i # 1
      <4>1. i \in 2..Len(segs') /\ (k - 1) + i \in 1..l
        BY <2>8, <2>9, <3>2
      <4>2. segs[(k - 1) + i].startIndex <= segs[(k - 1) + i].writeIndex
        BY <4>1, SegmentFacts
      <4> QED BY <2>6, <4>1, <4>2 DEF SamePlace
    <3> QED BY <3>1, <3>2
  <2>11. \A i \in 2..Len(segs') : segs'[i].startIndex = 0
    BY <2>6, <2>9, ZenonT(30) DEF IInv, Contiguous
  <2>12. SegmentFiles' /\ Contiguous' /\ Covered'
    BY <2>2, <2>6, <2>8, <2>10, <2>11, Stretch, ZenonT(30)
  <2>13. ChainTypes' /\ RetentionBounds'
    BY <1>0, <1>1, <1>3, <2>6, <2>8, ConfigAssumption, SMTT(30) DEF ChainTypes, IInv, RetentionBounds
  <2> QED BY <2>2, <2>3, <2>4, <2>12, <2>13, Assemble
<1> QED BY <1>5, <1>6, <1>7

-----------------------------------------------------------------------------
(***************************************************************************)
(* The cut of TruncateAfter, and Sync.                                     *)
(***************************************************************************)
\* The last segment is cut, first in the file and, once that is forced out, in
\* memory; the total never grows by it.
LEMMA TruncateInv ==
  ASSUME IInv, TruncateFile \/ TruncateSync \/ TruncateFails
  PROVE  IInv'
<1> DEFINE l == Len(segs)
           f == files[segs[l].ino]
<1>0. StorageTypes /\ ChainTypes /\ HandlerTypes /\ HistoryTypes /\ {"ok", "error"} \subseteq Results
  BY TypeParts DEF IInv, Results
<1>1. pc \in {"truncate", "truncateSync"} /\ UNCHANGED <<syncer, acked, durable, nextId>>
  BY DEF TruncateFile, TruncateSync, TruncateFails
<1>2. segs # <<>> /\ Holds(lastSegment, op.seq)
  BY <1>1 DEF IInv, Control, CutControl
<1>3. l \in 1..l /\ lastSegment = segs[l]
  BY <1>2, LastFacts
<1>4. keepIdx \in Nat /\ segs[l].startIndex <= keepIdx /\ keepIdx <= segs[l].writeIndex
  BY <1>2, <1>3, KeepIdxFacts
<1>5. /\ segs[l].ino \in 1..Len(files) /\ f \in File /\ Ordered(f.frames)
      /\ EndsBy(f.frames, segs[l].writeIndex, segs[l].writeOffset)
      /\ segs[l].writeOffset \in Nat /\ segs[l].writeOffset >= HeaderSize
      /\ segs[l].writeIndex \in Nat
  BY <1>3, SegmentFacts, ZenonT(30)
<1>7. CASE TruncateFails
  <2>1. HistoryTypes'
    BY <1>0, <1>7, SMTT(20) DEF TruncateFails, HistoryTypes, Fault
  <2> QED BY <1>0, <1>7, <2>1, QuietReturn DEF TruncateFails
<1>8. CASE TruncateFile
  <2>1. PICK off \in keepOffsets :
             FsWrite(segs[l].ino, Truncated(f, keepIdx, off)) /\ op' = [op EXCEPT !.n = off]
    BY <1>3, <1>8, ZenonT(30) DEF TruncateFile
  <2>2. pc' = "truncateSync" /\ UNCHANGED <<segs, diskSize, ret, faults>>
    BY <1>8 DEF TruncateFile
  <2>3. /\ off \in Nat /\ HeaderSize <= off /\ off <= segs[l].writeOffset
        /\ EndsBy(f.frames, keepIdx, off)
    BY <1>2, <1>3, KeepOffsetFacts, ZenonT(30)
  <2> DEFINE g == Truncated(f, keepIdx, off)
  <2> HIDE DEF f
  <2>4. /\ g \in File /\ Ordered(g.frames) /\ EndsBy(g.frames, keepIdx, off)
        /\ EndsBy(g.frames, segs[l].writeIndex, segs[l].writeOffset)
    BY <1>4, <1>5, <2>3, TruncatedFile, ZenonT(30)
  <2>5. FsWrite(segs[l].ino, g)
    BY <2>1
  <2> HIDE DEF g
  <2>6. /\ StorageTypes' /\ ChainTypes' /\ SegmentFiles' /\ Contiguous' /\ Covered'
        /\ RetentionBounds' /\ files'[segs[l].ino] = g
    BY <1>3, <2>2, <2>4, <2>5, WriteKeeps, ZenonT(30)
  <2>7. op' \in Op /\ op'.n = off /\ op'.seq = op.seq
    BY <1>0, <2>1, <2>3 DEF HandlerTypes, Op
  <2>8. HistoryTypes' /\ HandlerTypes'
    BY <1>0, <1>1, <2>2, <2>7 DEF HistoryTypes, HandlerTypes, Labels
  <2>9. lastSegment' = segs[l] /\ keepIdx' = keepIdx
    BY <1>3, <2>2, <2>7 DEF lastSegment, keepIdx
  <2>10. CutControl'
    <3>1. /\ HeaderSize <= op'.n /\ op'.n <= lastSegment'.writeOffset
          /\ EndsBy(files'[lastSegment'.ino].frames, keepIdx', op'.n)
      BY <2>3, <2>4, <2>6, <2>7, <2>9
    <3>2. segs' # <<>> /\ Holds(lastSegment', op'.seq)
      BY <1>2, <1>3, <2>2, <2>7, <2>9
    <3> QED BY <2>2, <3>1, <3>2, ZenonT(30)
            DEF CutControl, EndsBy, Holds, StartSequence, NextSequence, HeaderSize
  <2>11. Control'
    BY <2>2, <2>10 DEF Control, AppendControl, CreateControl, DropControl, AppendSteps, CreateSteps
  <2> QED BY <2>6, <2>8, <2>11, Assemble
<1>9. CASE TruncateSync
  <2>1. /\ FsSync(segs[l].ino) /\ Return("ok") /\ UNCHANGED faults
        /\ MovesLast(keepIdx, op.n)
        /\ diskSize' = diskSize - (segs[l].writeOffset - op.n)
    BY <1>3, <1>9 DEF TruncateSync, MovesLast, Size
  <2>2. /\ HeaderSize <= op.n /\ op.n <= segs[l].writeOffset
        /\ EndsBy(f.frames, keepIdx, op.n)
    BY <1>3, <1>9 DEF IInv, Control, CutControl, TruncateSync
  <2>3. op.n \in Nat
    BY <1>0 DEF HandlerTypes, Op
  <2>4. StorageTypes' /\ UNCHANGED files
    BY <1>0, <1>5, <2>1, FsSyncFacts, ZenonT(30)
  <2>5. segs' \in Seq(Segment) /\ Len(segs') = l /\ SegmentFiles' /\ Contiguous' /\ Covered'
    <3>1. EndsBy(files'[lastSegment.ino].frames, keepIdx, op.n)
      BY <1>3, <2>2, <2>4, ZenonT(30)
    <3>2. /\ \A n \in 1..Len(files') : Ordered(files'[n].frames)
          /\ \A i \in 1..Len(segs) :
               EndsBy(files'[segs[i].ino].frames, segs[i].writeIndex, segs[i].writeOffset)
      BY <2>4 DEF IInv, Covered
    <3>3. op.n >= HeaderSize
      BY <2>2, <2>3 DEF HeaderSize
    <3> QED BY <1>2, <1>3, <1>4, <2>1, <2>3, <2>4, <3>1, <3>2, <3>3, LastMoved
  <2>6. ChainTypes' /\ RetentionBounds'
    <3>1. diskSize' \in Int /\ diskSize' <= diskSize /\ diskSize \in Int
      <4> HIDE DEF l
      <4> QED BY <1>0, <1>5, <2>1, <2>2, <2>3, SMTT(30) DEF ChainTypes
    <3> QED BY <2>5, <3>1, ConfigAssumption, SMTT(20) DEF ChainTypes, RetentionBounds, IInv
  <2>7. HistoryTypes'
    BY <1>0, <1>1, <2>1 DEF HistoryTypes
  <2>8. HandlerTypes' /\ Control'
    BY <1>0, <2>1, ReturnFacts
  <2> QED BY <2>4, <2>5, <2>6, <2>7, <2>8, Assemble
<1> QED BY <1>7, <1>8, <1>9

\* A concurrent Sync changes nothing the handlers rely on.
LEMMA SyncInv ==
  ASSUME IInv, SyncCall \/ SyncStep
  PROVE  IInv'
<1>0. StorageTypes /\ ChainTypes /\ HandlerTypes /\ HistoryTypes
  BY TypeParts DEF IInv
<1>1. UNCHANGED <<segs, diskSize, pc, op, ret, acked, nextId>>
  BY DEF SyncCall, SyncStep, SyncSegment, SyncFails, SyncReturn
<1>2. StorageTypes' /\ UNCHANGED files
  <2>1. CASE SyncSegment
    <3>1. \A i \in 1..Len(segs) : segs[i].ino \in 1..Len(files)
      BY SegmentFacts
    <3>2. Head(syncer.todo) \in 1..Len(files)
      BY <2>1, <3>1 DEF SyncSegment, IsOpen
    <3> QED BY <1>0, <2>1, <3>2, FsSyncFacts DEF SyncSegment
  <2>2. CASE SyncCall \/ SyncFails \/ SyncReturn
    BY <1>0, <2>2, FsIdleFacts, Zenon DEF SyncCall, SyncFails, SyncReturn
  <2> QED BY <2>1, <2>2 DEF SyncStep
<1>3. SegmentFiles' /\ Contiguous' /\ Covered' /\ RetentionBounds' /\ ChainTypes'
  BY <1>1, <1>2, QuietFacts
<1>4. HandlerTypes'
  BY <1>0, <1>1 DEF HandlerTypes
<1>5. HistoryTypes'
  <2>0. syncer.todo \in Seq(Nat) /\ syncer.upto \in SUBSET (Nat \X Nat)
    BY <1>0 DEF HistoryTypes
  <2>1. CASE SyncCall
    <3>1. [i \in 1..Len(segs) |-> segs[i].ino] \in Seq(Nat)
      <4>1. \A i \in 1..Len(segs) : segs[i].ino \in Nat
        BY SegmentFacts, SMTT(20)
      <4>2. Len(segs) \in Nat
        BY <1>0 DEF ChainTypes
      <4>3. [i \in 1..Len(segs) |-> segs[i].ino] \in [1..Len(segs) -> Nat]
        BY <4>1
      <4> QED BY ONLY <4>2, <4>3, FunctionIsSeq, SMTT(30)
    <3> QED BY <1>0, <2>1, <3>1 DEF SyncCall, HistoryTypes
  <2>2. CASE SyncSegment
    <3>1. Tail(syncer.todo) \in Seq(Nat)
      BY <2>0, <2>2 DEF SyncSegment
    <3> QED BY <1>0, <2>2, <3>1, Zenon DEF SyncSegment, HistoryTypes
  <2>3. CASE SyncFails
    <3>1. syncer' = Idle /\ UNCHANGED <<acked, durable, nextId>>
      BY <2>3 DEF SyncFails
    <3>2. faults' = faults \/ faults' = faults + 1
      BY <2>3, Zenon DEF SyncFails, Fault
    <3>3. Idle \in [on : BOOLEAN, todo : Seq(Nat), upto : SUBSET (Nat \X Nat)]
      BY DEF Idle
    <3>4. faults' \in Nat
      BY <1>0, <3>2, SMTT(20) DEF HistoryTypes
    <3> QED BY <1>0, <3>1, <3>3, <3>4, Zenon DEF HistoryTypes
  <2>4. CASE SyncReturn
    BY <1>0, <2>4 DEF SyncReturn, HistoryTypes, Idle
  <2> QED BY <2>1, <2>2, <2>3, <2>4 DEF SyncStep
<1>6. Control'
  BY <1>1, <1>2, ZenonT(40) DEF IInv, Control, AppendControl, CreateControl, DropControl, CutControl,
     AppendSteps, CreateSteps, lastSegment, keepIdx, Fits, EndsBy, Holds, StartSequence,
     NextSequence, AppendSize
<1> QED BY <1>2, <1>3, <1>4, <1>5, <1>6, Assemble

\* Close touches nothing but the handles.
LEMMA CloseInv ==
  ASSUME IInv, CloseCall
  PROVE  IInv'
<1>0. StorageTypes /\ ChainTypes /\ HandlerTypes /\ HistoryTypes
  BY TypeParts DEF IInv
<1>1. pc = "idle" /\ FsIdle /\ UNCHANGED <<diskSize, pc, op, syncer, acked, durable, nextId, faults>>
  BY DEF CloseCall
<1>2. StorageTypes' /\ UNCHANGED files
  BY <1>0, <1>1, FsIdleFacts
<1>3. Len(segs) \in Nat /\ \A i \in 1..Len(segs) : segs[i] \in Segment
  BY <1>0 DEF ChainTypes
<1>4. \A s \in Segment : LET t == [s EXCEPT !.open = FALSE]
                         IN t \in Segment /\ SameButOpen(t, s)
  BY DEF Segment, SameButOpen, SamePlace
<1>5. segs' = [i \in 1..Len(segs) |-> [segs[i] EXCEPT !.open = FALSE]]
  BY DEF CloseCall
<1>6. segs' \in Seq(Segment)
  <2>1. \A i \in 1..Len(segs) : [segs[i] EXCEPT !.open = FALSE] \in Segment
    BY <1>3, <1>4, Zenon
  <2> DEFINE t(i) == [segs[i] EXCEPT !.open = FALSE]
  <2>2. segs' = [i \in 1..Len(segs) |-> t(i)] /\ \A i \in 1..Len(segs) : t(i) \in Segment
    BY <1>5, <2>1
  <2> HIDE DEF t
  <2>3. segs' \in [1..Len(segs) -> Segment]
    BY <2>2
  <2> QED BY ONLY <1>3, <2>3, FunctionIsSeq
<1>7. Len(segs') + 0 <= Len(segs) /\ Len(segs') = Len(segs)
  BY <1>3, <1>5, <1>6
<1>8. \A i \in 1..Len(segs') : SameButOpen(segs'[i], segs[0 + i])
  BY <1>3, <1>4, <1>5, <1>7, SMTT(20)
<1>9. SegmentFiles' /\ Contiguous' /\ Covered'
  BY <1>2, <1>6, <1>7, <1>8, Sublist
<1>10. RetentionBounds' /\ ChainTypes'
  BY <1>0, <1>1, <1>6, <1>7 DEF IInv, RetentionBounds, ChainTypes
<1>11. HandlerTypes' /\ HistoryTypes'
  BY <1>0, <1>1 DEF HandlerTypes, HistoryTypes, CloseCall, Results
<1>12. Control'
  BY <1>1 DEF Control, AppendControl, CreateControl, DropControl, CutControl, AppendSteps, CreateSteps
<1> QED BY <1>2, <1>9, <1>10, <1>11, <1>12, Assemble
\* The chain that Load has created satisfies the invariant.
LEMMA InitInv == Init => IInv
<1> SUFFICES ASSUME Init PROVE IInv
  OBVIOUS
<1> DEFINE f == NewHeader(EmptyFile(StartSeq))
           s == newSegment(1, StartSeq)
<1>1. f \in File /\ f.frames = <<>>
  <2>1. EmptyFile(StartSeq) \in File /\ EmptyFile(StartSeq).frames = <<>>
    BY EmptyFileFacts, ConfigAssumption
  <2>2. "ok" \in HdrStates /\ HeaderSize \in Nat
    BY DEF HdrStates, HeaderSize
  <2> QED BY <2>1, <2>2, HeaderFacts, Zenon DEF NewHeader
<1>2. s \in Segment /\ s.ino = 1 /\ s.startIndex = 0 /\ s.writeIndex = 0 /\ s.writeOffset = HeaderSize
  BY ConfigAssumption DEF newSegment, Segment, HeaderSize
<1>3. files = <<f>> /\ stable = <<f>> /\ segs = <<s>> /\ diskSize = HeaderSize /\ pc = "idle"
  BY DEF Init
<1> HIDE DEF f, s
<1>4. /\ files \in Seq(File) /\ stable \in Seq(File) /\ Len(files) = 1 /\ Len(stable) = 1
      /\ files[1] = f
      /\ segs \in Seq(Segment) /\ Len(segs) = 1 /\ segs[1] = s
  BY <1>1, <1>2, <1>3
<1>5. TypeOK
  <2>1. NoOp \in Op
    BY DEF NoOp, Op, Kinds
  <2>2. Idle \in [on : BOOLEAN, todo : Seq(Nat), upto : SUBSET (Nat \X Nat)]
    BY DEF Idle
  <2> QED BY <1>3, <1>4, <2>1, <2>2, SMTT(20) DEF Init, TypeOK, Labels, Results, HeaderSize
<1>6. SegmentFiles
  BY <1>2, <1>4, SMTT(20) DEF SegmentFiles, HeaderSize
<1>7. Contiguous
  BY <1>2, <1>4 DEF Contiguous
<1>8. Covered
  BY <1>1, <1>2, <1>4, SMTT(30) DEF Covered, Ordered, EndsBy
<1>9. RetentionBounds
  BY <1>3, <1>4, ConfigAssumption, BudgetAssumption, SMTT(20) DEF RetentionBounds, HeaderSize
<1>10. Control
  BY <1>3 DEF Control, AppendControl, CreateControl, DropControl, CutControl, AppendSteps, CreateSteps
<1> QED BY <1>5, <1>6, <1>7, <1>8, <1>9, <1>10 DEF IInv

\* Every step of every handler keeps the invariant.
LEMMA NextInv == IInv /\ [Next]_vars => IInv'
<1> SUFFICES ASSUME IInv, [Next]_vars PROVE IInv'
  OBVIOUS
<1>1. CASE Call
  BY <1>1, AppendCallInv, TruncateCallInv, SyncInv, CloseInv DEF Call
<1>2. CASE Append_
  BY <1>2, AdmitInv, ReapInv, WriteInv, PersistInv, TrimInv DEF Append_
<1>3. CASE Create_
  BY <1>3, CreateFileInv, HeaderInv, SyncDirectoryInv DEF Create_
<1>4. CASE Truncate_
  BY <1>4, DropInv, DropDoneInv, SetReadInv, TruncateInv DEF Truncate_
<1>5. CASE SyncStep
  BY <1>5, SyncInv
<1>6. CASE UNCHANGED vars
  <2>1. /\ UNCHANGED <<segs, diskSize, pc, op, ret, syncer, acked, durable, nextId, faults>>
        /\ UNCHANGED <<files, stable, dir, stableDir>>
    BY <1>6 DEF vars, chainVars, storageVars
  <2>2. TypeOK'
    BY <2>1 DEF IInv, TypeOK
  <2>3. SegmentFiles' /\ Contiguous' /\ Covered' /\ RetentionBounds' /\ ChainTypes'
    BY <2>1, QuietFacts
  <2>4. Control'
    BY <2>1, ZenonT(30) DEF IInv, Control, AppendControl, CreateControl, DropControl, CutControl,
       AppendSteps, CreateSteps, lastSegment, keepIdx, Fits, EndsBy, Holds, StartSequence,
       NextSequence, AppendSize
  <2> QED BY <2>2, <2>3, <2>4 DEF IInv
<1> QED BY <1>1, <1>2, <1>3, <1>4, <1>5, <1>6 DEF Next, Step

-----------------------------------------------------------------------------
(***************************************************************************)
(* What the chain counts: its running total is the sum of the sizes of the *)
(* segment files it has in the directory, and reaping always makes room.   *)
(* The invariant, on top of the one of ChainFacts, and the proofs that     *)
(* every step of every handler keeps it, whatever storage calls fail.      *)
(***************************************************************************)

(***************************************************************************)
(* Sums.                                                                   *)
(***************************************************************************)
\* t[i] is the sum of the first i of the n numbers c[1], ..., c[n].
Sums(t, c, n) ==
  /\ t \in [0..n -> Int]
  /\ t[0] = 0
  /\ \A i \in 1..n : c[i] \in Int /\ t[i] = t[i - 1] + c[i]

\* The sums of the m numbers behind the first a.
LEMMA SumsBetween ==
  ASSUME NEW n \in Nat, NEW c, NEW t, Sums(t, c, n), NEW a \in Nat, NEW m \in Nat, m + a <= n,
         NEW d, \A i \in 1..m : d[i] = c[a + i]
  PROVE  Sums([i \in 0..m |-> t[a + i] - t[a]], d, m)
<1> DEFINE u == [i \in 0..m |-> t[a + i] - t[a]]
<1>1. \A i \in 0..m : a + i \in 0..n /\ a \in 0..n
  OBVIOUS
<1>2. u \in [0..m -> Int]
  BY <1>1, SMTT(20) DEF Sums
<1>3. u[0] = 0
  <2>1. 0 \in 0..m /\ a + 0 = a /\ t[a] \in Int
    BY <1>1, SMTT(20) DEF Sums
  <2> QED BY <2>1
<1>4. ASSUME NEW i \in 1..m
      PROVE  d[i] \in Int /\ u[i] = u[i - 1] + d[i]
  <2>1. i \in 0..m /\ i - 1 \in 0..m /\ a + i \in 1..n /\ a + (i - 1) = (a + i) - 1
    OBVIOUS
  <2>2. c[a + i] \in Int /\ t[a + i] = t[(a + i) - 1] + c[a + i]
    BY <2>1 DEF Sums
  <2>3. t[a + i] \in Int /\ t[(a + i) - 1] \in Int /\ t[a] \in Int
    <3>1. (a + i) - 1 \in 0..n /\ a + i \in 0..n /\ a \in 0..n
      BY <2>1
    <3> QED BY <3>1 DEF Sums
  <2>4. u[i] = t[a + i] - t[a] /\ u[i - 1] = t[(a + i) - 1] - t[a] /\ d[i] = c[a + i]
    BY <2>1
  <2> HIDE DEF u
  <2> QED BY <2>2, <2>3, <2>4, SMTT(20)
<1> HIDE DEF u
<1> QED BY <1>2, <1>3, <1>4 DEF Sums, u

\* The sums when the k-th number changes by x.
LEMMA SumsChange ==
  ASSUME NEW n \in Nat, NEW c, NEW t, Sums(t, c, n), NEW k \in 1..n, NEW x \in Int,
         NEW d, \A i \in 1..n : i # k => d[i] = c[i], d[k] = c[k] + x
  PROVE  Sums([i \in 0..n |-> IF i < k THEN t[i] ELSE t[i] + x], d, n)
<1> DEFINE u == [i \in 0..n |-> IF i < k THEN t[i] ELSE t[i] + x]
<1>1. \A i \in 0..n : t[i] \in Int
  BY DEF Sums
<1>2. u \in [0..n -> Int] /\ u[0] = 0
  BY <1>1, SMTT(20) DEF Sums
<1>3. ASSUME NEW i \in 1..n
      PROVE  d[i] \in Int /\ u[i] = u[i - 1] + d[i]
  <2>1. i \in 0..n /\ i - 1 \in 0..n
    OBVIOUS
  <2>2. c[i] \in Int /\ t[i] = t[i - 1] + c[i] /\ t[i] \in Int /\ t[i - 1] \in Int
    BY <1>1, <2>1 DEF Sums
  <2>3. /\ u[i] = IF i < k THEN t[i] ELSE t[i] + x
        /\ u[i - 1] = IF i - 1 < k THEN t[i - 1] ELSE t[i - 1] + x
    BY <2>1
  <2> HIDE DEF u
  <2>4. CASE i = k
    <3>1. d[i] = c[i] + x /\ u[i] = t[i] + x /\ u[i - 1] = t[i - 1]
      BY <2>3, <2>4
    <3> QED BY <2>2, <3>1
  <2>5. CASE i < k
    <3>1. d[i] = c[i] /\ u[i] = t[i] /\ u[i - 1] = t[i - 1]
      BY <2>3, <2>5
    <3> QED BY <2>2, <3>1
  <2>6. CASE i > k
    <3>1. d[i] = c[i] /\ u[i] = t[i] + x /\ u[i - 1] = t[i - 1] + x
      BY <2>3, <2>6
    <3> QED BY <2>2, <3>1
  <2> QED BY <2>4, <2>5, <2>6
<1> HIDE DEF u
<1> QED BY <1>2, <1>3 DEF Sums, u

\* The sums when a number is added at the end.
LEMMA SumsExtend ==
  ASSUME NEW n \in Nat, NEW c, NEW t, Sums(t, c, n), NEW d,
         \A i \in 1..n : d[i] = c[i], d[n + 1] \in Int
  PROVE  Sums([i \in 0..(n + 1) |-> IF i <= n THEN t[i] ELSE t[n] + d[n + 1]], d, n + 1)
<1> DEFINE u == [i \in 0..(n + 1) |-> IF i <= n THEN t[i] ELSE t[n] + d[n + 1]]
<1>1. \A i \in 0..n : t[i] \in Int
  BY DEF Sums
<1>2. u \in [0..(n + 1) -> Int] /\ u[0] = 0
  BY <1>1, SMTT(20) DEF Sums
<1>3. ASSUME NEW i \in 1..(n + 1)
      PROVE  d[i] \in Int /\ u[i] = u[i - 1] + d[i]
  <2>1. i \in 0..(n + 1) /\ i - 1 \in 0..(n + 1) /\ i - 1 <= n
    OBVIOUS
  <2>2. u[i] = (IF i <= n THEN t[i] ELSE t[n] + d[n + 1]) /\ u[i - 1] = t[i - 1]
    BY <2>1
  <2> HIDE DEF u
  <2>3. CASE i <= n
    <3>1. i \in 1..n
      BY <2>3
    <3>2. d[i] = c[i] /\ c[i] \in Int /\ t[i] = t[i - 1] + c[i]
      BY <3>1 DEF Sums
    <3> QED BY <2>2, <2>3, <3>2
  <2>4. CASE i = n + 1
    <3>1. i - 1 = n /\ u[i] = t[n] + d[n + 1]
      BY <2>2, <2>4
    <3> QED BY <1>1, <2>2, <2>4, <3>1
  <2> QED BY <2>3, <2>4
<1> HIDE DEF u
<1> QED BY <1>2, <1>3 DEF Sums, u

-----------------------------------------------------------------------------
(***************************************************************************)
(* The invariant behind Accounting and ReapingMakesRoom.                   *)
(***************************************************************************)
Counted == [i \in 1..Len(segs) |-> CountedSize(segs[i])]

\* The segments that a truncation has removed and not yet taken off the list
\* count nothing.
Removed(t) ==
  /\ pc = "drop" /\ op.kind # "afterKeep" => t[op.i - 1] = 0
  /\ pc = "drop" /\ op.kind = "afterKeep" => op.i > op.keep /\ t[op.i - 1] = t[op.keep]
  /\ pc \in {"setRead", "setReadSync"} => t[op.i - 1] = 0

Totals(t) == Sums(t, Counted, Len(segs)) /\ diskSize = t[Len(segs)] /\ Removed(t)

\* The file being created has its name, the one being written or cut a handle.
HandleControl ==
  /\ pc \in CreateSteps \ {"create"} => Len(files) \in dir
  /\ pc \in {"writing", "syncAppend", "truncateSync"} => lastSegment.open

\* No segment is bigger than allowed, but that a header always fits.
Bounded ==
  MaxSegmentSize > 0 =>
    \A i \in 1..Len(segs) : segs[i].writeOffset <= MaxSegmentSize \/ segs[i].writeOffset = HeaderSize

\* The batch fits a segment, and by the time it is written the last one.
RoomControl ==
  /\ pc \in AppendSteps \cup CreateSteps /\ op.kind = "append" => ~TooLarge(op.batch)
  /\ pc \in {"write", "writing", "syncAppend"} => ~rotate

SInv ==
  /\ OpenIsLive /\ Bounded /\ (\E t : Totals(t))
  /\ HandleControl /\ RoomControl /\ ReapingMakesRoom

\* The handler returns, and not because there is no room.
LEMMA ReturnSize ==
  ASSUME NEW r \in {"ok", "error", "batchTooLarge"}, Return(r)
  PROVE  HandleControl' /\ RoomControl' /\ ReapingMakesRoom' /\ \A t : Removed(t)'
<1>1. pc' \in {"idle", "down"} /\ ret' = r
  BY DEF Return
<1>2. HandleControl' /\ RoomControl' /\ ReapingMakesRoom'
  BY <1>1 DEF HandleControl, RoomControl, ReapingMakesRoom, CreateSteps, AppendSteps
<1>3. ASSUME NEW t PROVE Removed(t)'
  BY <1>1 DEF Removed
<1> QED BY <1>2, <1>3

\* What a segment counts.
LEMMA CountedFacts ==
  ASSUME IInv
  PROVE  /\ Len(segs) \in Nat
         /\ \A i \in 1..Len(segs) :
              /\ Counted[i] = CountedSize(segs[i]) /\ Counted[i] \in Int
              /\ 0 <= Counted[i] /\ Counted[i] <= segs[i].writeOffset
              /\ Live(i) => Counted[i] = segs[i].writeOffset
              /\ ~Live(i) => Counted[i] = 0
<1>1. Len(segs) \in Nat
  BY SMTT(20) DEF IInv, TypeOK
<1>2. ASSUME NEW i \in 1..Len(segs)
      PROVE  /\ Counted[i] = CountedSize(segs[i]) /\ Counted[i] \in Int
             /\ 0 <= Counted[i] /\ Counted[i] <= segs[i].writeOffset
             /\ Live(i) => Counted[i] = segs[i].writeOffset
             /\ ~Live(i) => Counted[i] = 0
  <2>1. segs[i].writeOffset \in Nat
    BY SegmentFacts
  <2>2. Counted[i] = IF segs[i].ino \in dir THEN segs[i].writeOffset ELSE 0
    BY DEF Counted, CountedSize, Size
  <2>3. Counted[i] = CountedSize(segs[i])
    BY DEF Counted
  <2> QED BY <2>1, <2>2, <2>3 DEF Live
<1> QED BY <1>1, <1>2

\* Taking segments off either end of the list, closing some and moving read
\* starts.
LEMMA CutSize ==
  ASSUME IInv, OpenIsLive, Bounded, NEW t, Totals(t),
         NEW a \in Nat, Len(segs') \in Nat, Len(segs') + a <= Len(segs),
         \A i \in 1..Len(segs') : SamePlace(segs'[i], segs[a + i]),
         \A i \in 1..Len(segs') : segs'[i].open => segs[a + i].open,
         \A i \in 1..Len(segs') : segs[a + i].ino \in dir' <=> segs[a + i].ino \in dir
  PROVE  /\ OpenIsLive' /\ Bounded'
         /\ Sums([i \in 0..Len(segs') |-> t[a + i] - t[a]], Counted', Len(segs'))
<1>1. Len(segs) \in Nat /\ \A i \in 1..Len(segs') : a + i \in 1..Len(segs)
  BY SMTT(20) DEF IInv, TypeOK
<1>2. \A i \in 1..Len(segs') : /\ segs'[i].ino = segs[a + i].ino
                               /\ segs'[i].writeOffset = segs[a + i].writeOffset
  BY DEF SamePlace
<1>3. OpenIsLive'
  BY <1>1, <1>2, Zenon DEF OpenIsLive, Live
<1>4. Bounded'
  BY <1>1, <1>2, Zenon DEF Bounded
<1>5. \A i \in 1..Len(segs') : Counted'[i] = Counted[a + i]
  <2>1. \A i \in 1..Len(segs') : Counted'[i] = IF segs'[i].ino \in dir' THEN segs'[i].writeOffset ELSE 0
    BY DEF Counted, CountedSize, Size
  <2>2. \A i \in 1..Len(segs) : Counted[i] = IF segs[i].ino \in dir THEN segs[i].writeOffset ELSE 0
    BY DEF Counted, CountedSize, Size
  <2> QED BY <1>1, <1>2, <2>1, <2>2
<1>6. Sums(t, Counted, Len(segs))
  BY DEF Totals
<1>7. Sums([i \in 0..Len(segs') |-> t[a + i] - t[a]], Counted', Len(segs'))
  <2>1. PICK m \in Nat : m = Len(segs')
    OBVIOUS
  <2>2. PICK n \in Nat : n = Len(segs)
    BY <1>1
  <2>3. PICK c : c = Counted
    OBVIOUS
  <2>4. PICK d : d = Counted'
    OBVIOUS
  <2>5. Sums(t, c, n) /\ m + a <= n /\ \A i \in 1..m : d[i] = c[a + i]
    BY <1>5, <1>6, <2>1, <2>2, <2>3, <2>4
  <2>6. Sums([i \in 0..m |-> t[a + i] - t[a]], d, m)
    BY <2>5, SumsBetween, SMTT(20)
  <2> QED BY <2>1, <2>4, <2>6
<1> QED BY <1>3, <1>4, <1>7

\* A step that leaves the segments, but for their handles and read starts, and
\* the total alone.
LEMMA QuietSize ==
  ASSUME IInv, SInv, diskSize' = diskSize, Len(segs') = Len(segs),
         \A i \in 1..Len(segs) : SamePlace(segs'[i], segs[i]),
         \A i \in 1..Len(segs) : segs'[i].open => segs[i].open,
         \A n \in 1..Len(files) : n \in dir' <=> n \in dir,
         HandleControl', RoomControl', ReapingMakesRoom',
         \A t : Totals(t) => Removed(t)'
  PROVE  SInv'
<1>1. Len(segs) \in Nat /\ Len(segs') \in Nat /\ Len(segs') + 0 <= Len(segs) /\ 0 \in Nat
  BY SMTT(20) DEF IInv, TypeOK
<1>2. \A i \in 1..Len(segs') : 0 + i = i /\ i \in 1..Len(segs)
  BY <1>1
<1>3. PICK t : Totals(t)
  BY DEF SInv
<1>4. /\ \A i \in 1..Len(segs') : SamePlace(segs'[i], segs[0 + i])
      /\ \A i \in 1..Len(segs') : segs'[i].open => segs[0 + i].open
  BY <1>2, Zenon
<1>5. \A i \in 1..Len(segs') : segs[0 + i].ino \in dir' <=> segs[0 + i].ino \in dir
  <2>1. \A i \in 1..Len(segs) : segs[i].ino \in 1..Len(files)
    BY SegmentFacts
  <2> QED BY <1>2, <2>1, Zenon
<1> DEFINE u == [i \in 0..Len(segs') |-> t[0 + i] - t[0]]
<1>6. OpenIsLive' /\ Bounded' /\ Sums(u, Counted', Len(segs'))
  BY <1>1, <1>3, <1>4, <1>5, CutSize, Zenon DEF SInv
<1>7. u = t
  <2>1. t \in [0..Len(segs) -> Int] /\ t[0] = 0
    BY <1>3 DEF Totals, Sums
  <2>2. \A i \in 0..Len(segs) : t[0 + i] - t[0] = t[i]
    BY <2>1
  <2> QED BY <1>1, <2>1, <2>2
<1>8. Totals(t)'
  <2>1. Sums(t, Counted', Len(segs')) /\ diskSize' = t[Len(segs')] /\ Removed(t)'
    BY <1>3, <1>6, <1>7 DEF Totals
  <2> QED BY <2>1 DEF Totals, Sums
<1> QED BY <1>6, <1>8 DEF SInv

\* The same, when it leaves the list of segments alone altogether.
LEMMA StillSize ==
  ASSUME IInv, SInv, diskSize' = diskSize, segs' = segs,
         \A n \in 1..Len(files) : n \in dir' <=> n \in dir,
         HandleControl', RoomControl', ReapingMakesRoom',
         \A t : Totals(t) => Removed(t)'
  PROVE  SInv'
<1>1. /\ Len(segs') = Len(segs)
      /\ \A i \in 1..Len(segs) : SamePlace(segs'[i], segs[i])
      /\ \A i \in 1..Len(segs) : segs'[i].open => segs[i].open
  BY Zenon DEF SamePlace
<1> QED BY <1>1, QuietSize

-----------------------------------------------------------------------------
(***************************************************************************)
(* Sync, Close, and the steps of Append but for the write.                 *)
(***************************************************************************)
\* A step that changes nothing the handlers see.
LEMMA UnchangedSize ==
  ASSUME IInv, SInv, UNCHANGED <<segs, diskSize, files, dir, pc, op, ret>>
  PROVE  SInv'
<1>1. HandleControl' /\ ReapingMakesRoom'
  BY DEF SInv, HandleControl, ReapingMakesRoom, lastSegment, CreateSteps
<1>2. RoomControl'
  BY DEF SInv, RoomControl, rotate, TooLarge, AppendSize, Size, lastSegment, AppendSteps, CreateSteps
<1>3. \A t : Totals(t) => Removed(t)'
  BY DEF Totals, Removed
<1> QED BY <1>1, <1>2, <1>3, StillSize

\* Sync changes what is on the medium and nothing else.
LEMMA SyncSize ==
  ASSUME IInv, SInv, SyncCall \/ SyncStep
  PROVE  SInv'
<1>1. UNCHANGED <<segs, diskSize, files, dir, pc, op, ret>>
  BY DEF SyncCall, SyncStep, SyncSegment, SyncFails, SyncReturn, FsIdle, FsSync, storageVars
<1> QED BY <1>1, UnchangedSize

\* Close closes every handle.
LEMMA CloseSize ==
  ASSUME IInv, SInv, CloseCall
  PROVE  SInv'
<1>1. /\ pc = "idle" /\ pc' = "idle" /\ ret' \in {"ok", "error"} /\ UNCHANGED <<diskSize, dir, op>>
      /\ segs' = [i \in 1..Len(segs) |-> [segs[i] EXCEPT !.open = FALSE]]
  BY DEF CloseCall, FsIdle, storageVars
<1>2. Len(segs) \in Nat /\ \A i \in 1..Len(segs) : segs[i] \in Segment
  BY SMTT(20) DEF IInv, TypeOK
<1>3. Len(segs') = Len(segs) /\ \A i \in 1..Len(segs) : segs'[i] = [segs[i] EXCEPT !.open = FALSE]
  BY <1>1, <1>2
<1>4. \A i \in 1..Len(segs) : SamePlace(segs'[i], segs[i]) /\ ~segs'[i].open
  BY <1>2, <1>3, Zenon DEF Segment, SamePlace
<1>5. HandleControl' /\ RoomControl' /\ ReapingMakesRoom' /\ \A t : Totals(t) => Removed(t)'
  BY <1>1 DEF HandleControl, RoomControl, ReapingMakesRoom, Removed, CreateSteps, AppendSteps
<1> QED BY <1>1, <1>3, <1>4, <1>5, QuietSize

\* A handler that gives up without touching the segments or the directory.
LEMMA FailsSize ==
  ASSUME IInv, SInv,
         \/ ReapFails \/ CreateFileFails \/ WriteHeaderFails \/ SyncNewFails
         \/ WriteClosed \/ TrimSync \/ TrimFails
         \/ SetReadFails \/ TruncateFails
  PROVE  SInv'
<1>1. UNCHANGED <<segs, diskSize, dir>> /\ Return("error")
  BY DEF ReapFails, CreateFileFails, WriteHeaderFails, SyncNewFails, WriteClosed, TrimSync, TrimFails,
     SetReadFails, TruncateFails, FsIdle, FsSync, FsWrite, storageVars
<1>2. HandleControl' /\ RoomControl' /\ ReapingMakesRoom' /\ \A t : Removed(t)'
  BY <1>1, ReturnSize
<1> QED BY <1>1, <1>2, StillSize

\* Append is called: it is turned away, it panics or it goes to admission with
\* a batch that fits a segment.
LEMMA AppendCallSize ==
  ASSUME IInv, SInv, NEW b \in Batches, AppendTooLarge(b) \/ AppendCall(b) \/ AppendPanics(b)
  PROVE  SInv'
<1>0. UNCHANGED <<segs, diskSize, dir>>
  BY DEF AppendTooLarge, AppendCall, AppendPanics, FsIdle, storageVars
<1>1. CASE AppendTooLarge(b)
  <2>1. Return("batchTooLarge")
    BY <1>1 DEF AppendTooLarge
  <2>2. HandleControl' /\ RoomControl' /\ ReapingMakesRoom' /\ \A t : Removed(t)'
    BY <2>1, ReturnSize
  <2> QED BY <1>0, <2>2, StillSize
<1>2. CASE AppendCall(b)
  <2>1. pc' = "admit" /\ op'.batch = b /\ ~TooLarge(b) /\ ret' = ret
    BY <1>2 DEF AppendCall, NoOp
  <2>2. HandleControl' /\ ReapingMakesRoom' /\ \A t : Totals(t) => Removed(t)'
    BY <2>1 DEF SInv, HandleControl, ReapingMakesRoom, Removed, CreateSteps
  <2>3. RoomControl'
    BY <2>1 DEF RoomControl, TooLarge, AppendSize
  <2> QED BY <1>0, <2>2, <2>3, StillSize
<1>3. CASE AppendPanics(b)
  <2>1. pc' = "down" /\ ret' = ret
    BY <1>3 DEF AppendPanics
  <2>2. HandleControl' /\ RoomControl' /\ ReapingMakesRoom' /\ \A t : Totals(t) => Removed(t)'
    BY <2>1 DEF SInv, HandleControl, RoomControl, ReapingMakesRoom, Removed, CreateSteps, AppendSteps
  <2> QED BY <1>0, <2>2, StillSize
<1> QED BY <1>1, <1>2, <1>3

\* With a single segment left, two full segments' worth of disk are enough for
\* a batch that fits a segment.
LEMMA OneIsEnough ==
  ASSUME IInv, SInv, pc = "admit", MaxSegments # 1, MaxSegmentSize > 0, MaxDiskSize >= 2 * MaxSegmentSize,
         needReap
  PROVE  canReap
<1> SUFFICES ASSUME Len(segs) <= 1 PROVE FALSE
  <2>1. Len(segs) \in Nat
    BY CountedFacts
  <2> QED BY <2>1 DEF canReap
<1>1. op.batch \in Batches /\ segs # <<>> /\ op.kind = "append"
  BY DEF IInv, Control, AppendControl, AppendSteps
<1>2. Len(segs) = 1 /\ 1 \in 1..Len(segs) /\ lastSegment = segs[1]
  <2>1. Len(segs) \in Nat /\ Len(segs) \in 1..Len(segs) /\ lastSegment = segs[Len(segs)]
    BY <1>1, LastFacts
  <2>2. Len(segs) = 1
    BY <2>1
  <2> QED BY <2>1, <2>2
<1>3. PICK t : Totals(t)
  BY DEF SInv
<1>4. diskSize \in Int /\ diskSize <= segs[1].writeOffset /\ segs[1].writeOffset \in Nat
  <2>1. t[0] = 0 /\ t[1] = t[1 - 1] + Counted[1] /\ diskSize = t[1]
    BY <1>2, <1>3 DEF Totals, Sums
  <2>2. Counted[1] \in Int /\ Counted[1] <= segs[1].writeOffset
    BY <1>2, CountedFacts
  <2>3. segs[1].writeOffset \in Nat
    BY <1>2, SegmentFacts
  <2> QED BY <2>1, <2>2, <2>3
<1>5. AppendSize(op.batch) \in Nat
  BY <1>1, BatchFacts
<1>6. 64 + AppendSize(op.batch) <= MaxSegmentSize
  <2>1. ~TooLarge(op.batch)
    BY <1>1 DEF SInv, RoomControl, AppendSteps
  <2> QED BY <1>5, <2>1, ConfigAssumption DEF TooLarge, HeaderSize
<1>7. segs[1].writeOffset <= MaxSegmentSize
  <2>1. segs[1].writeOffset <= MaxSegmentSize \/ segs[1].writeOffset = 64
    BY <1>2 DEF SInv, Bounded, HeaderSize
  <2> QED BY <1>5, <1>6, <2>1, ConfigAssumption, SMTT(20)
<1>8. overDisk
  <2>1. ~(MaxSegments > 0 /\ Len(segs) >= MaxSegments)
    BY <1>2, ConfigAssumption
  <2> QED BY <2>1 DEF needReap
<1>9. /\ diskSize + required > MaxDiskSize
      /\ required = AppendSize(op.batch) + (IF rotate THEN 64 ELSE 0)
      /\ rotate <=> segs[1].writeOffset + AppendSize(op.batch) > MaxSegmentSize
  BY <1>2, <1>8 DEF overDisk, required, rotate, Size, HeaderSize
<1> QED BY <1>4, <1>5, <1>6, <1>7, <1>9, ConfigAssumption, SMTT(20)

\* Admission never turns away a batch where reaping can make room.
LEMMA AdmitSize ==
  ASSUME IInv, SInv, Admit
  PROVE  SInv'
<1>0. pc = "admit" /\ UNCHANGED <<segs, diskSize, dir>>
  BY DEF Admit, FsIdle, storageVars
<1>1. op.batch \in Batches /\ segs # <<>> /\ op.kind = "append" /\ op \in Op /\ ~TooLarge(op.batch)
  BY <1>0 DEF IInv, TypeOK, Control, AppendControl, AppendSteps, SInv, RoomControl
<1>2. CASE /\ needReap /\ ~canReap
           /\ Return(IF overDisk THEN "diskFull" ELSE "segmentFull")
  <2>1. pc' \in {"idle", "down"}
    BY <1>2 DEF Return
  <2>2. ~(MaxSegments # 1 /\ MaxSegmentSize > 0 /\ MaxDiskSize >= 2 * MaxSegmentSize)
    BY <1>0, <1>2, OneIsEnough
  <2>3. HandleControl' /\ RoomControl' /\ ReapingMakesRoom' /\ \A t : Totals(t) => Removed(t)'
    BY <2>1, <2>2 DEF HandleControl, RoomControl, ReapingMakesRoom, Removed, CreateSteps, AppendSteps
  <2> QED BY <1>0, <2>3, StillSize
<1>3. CASE /\ pc' \in {"reap", "create", "write"} /\ ret' = ret
           /\ op'.batch = op.batch
           /\ pc' = "write" => ~rotate
  <2>1. HandleControl' /\ ReapingMakesRoom' /\ \A t : Totals(t) => Removed(t)'
    BY <1>3 DEF SInv, HandleControl, ReapingMakesRoom, Removed, CreateSteps
  <2>2. RoomControl'
    BY <1>0, <1>1, <1>3 DEF RoomControl, TooLarge, AppendSize, rotate, Size, lastSegment
  <2> QED BY <1>0, <2>1, <2>2, StillSize
<1>4. \/ needReap /\ ~canReap /\ Return(IF overDisk THEN "diskFull" ELSE "segmentFull")
      \/ /\ pc' \in {"reap", "create", "write"} /\ ret' = ret
         /\ op'.batch = op.batch
         /\ pc' = "write" => ~rotate
  <2>1. op' = [op EXCEPT !.base = nextStartSeq] => op'.batch = op.batch
    BY <1>1 DEF Op
  <2> QED BY <2>1 DEF Admit, Goto
<1> QED BY <1>2, <1>3, <1>4

\* Reaping takes the oldest segment off the list, the directory and the total.
LEMMA ReapSize ==
  ASSUME IInv, SInv, ReapOldest
  PROVE  SInv'
<1>0. pc = "reap" /\ op.kind = "append" /\ Len(segs) > 1 /\ ~TooLarge(op.batch)
  BY DEF ReapOldest, IInv, Control, AppendControl, AppendSteps, SInv, RoomControl
<1>1. /\ segs' = Tail(segs) /\ dir' = dir \ {segs[1].ino} /\ segs[1].ino \in dir
      /\ diskSize' = diskSize - segs[1].writeOffset
  BY DEF ReapOldest, FsRemove, Size
<1>2. /\ segs \in Seq(Segment) /\ Len(segs) \in Nat /\ Len(segs') \in Nat /\ Len(segs') = Len(segs) - 1
      /\ 1 \in Nat /\ Len(segs') + 1 <= Len(segs) /\ 1 \in 1..Len(segs)
      /\ \A i \in 1..Len(segs') : segs'[i] = segs[1 + i] /\ 1 + i \in 1..Len(segs) /\ 1 + i # 1
  BY <1>0, <1>1, TailFacts, SMTT(20) DEF IInv, TypeOK
<1>3. PICK t : Totals(t)
  BY DEF SInv
<1>4. /\ \A i \in 1..Len(segs') : SamePlace(segs'[i], segs[1 + i])
      /\ \A i \in 1..Len(segs') : segs'[i].open => segs[1 + i].open
  BY <1>2, Zenon DEF SamePlace
<1>5. \A i \in 1..Len(segs') : segs[1 + i].ino \in dir' <=> segs[1 + i].ino \in dir
  <2>1. \A j \in 1..Len(segs) : j # 1 => segs[j].ino # segs[1].ino
    BY <1>2, OwnFiles
  <2> QED BY <1>1, <1>2, <2>1
<1> DEFINE u == [i \in 0..Len(segs') |-> t[1 + i] - t[1]]
<1>6. OpenIsLive' /\ Bounded' /\ Sums(u, Counted', Len(segs'))
  BY <1>2, <1>3, <1>4, <1>5, CutSize, ZenonT(40) DEF SInv
<1>7. diskSize' = u[Len(segs')]
  <2>1. Sums(t, Counted, Len(segs)) /\ diskSize = t[Len(segs)]
    BY <1>3 DEF Totals
  <2>2. t[0] = 0 /\ t[1] = t[1 - 1] + Counted[1]
    BY <1>2, <2>1 DEF Sums
  <2>3. Counted[1] = segs[1].writeOffset /\ segs[1].writeOffset \in Nat
    BY <1>1, <1>2, CountedFacts, SegmentFacts DEF Live
  <2>4. u[Len(segs')] = t[1 + Len(segs')] - t[1] /\ 1 + Len(segs') = Len(segs)
    BY <1>2
  <2> HIDE DEF u
  <2> QED BY <1>1, <2>1, <2>2, <2>3, <2>4, SMTT(20)
<1>8. HandleControl' /\ RoomControl' /\ ReapingMakesRoom' /\ \A x : Removed(x)'
  <2>1. CASE Return("error")
    BY <2>1, ReturnSize
  <2>2. CASE Goto("admit")
    <3>1. HandleControl' /\ ReapingMakesRoom' /\ \A x : Removed(x)'
      BY <2>2 DEF SInv, HandleControl, ReapingMakesRoom, Removed, Goto, CreateSteps
    <3>2. RoomControl'
      BY <1>0, <2>2 DEF RoomControl, Goto, TooLarge, AppendSize
    <3> QED BY <3>1, <3>2
  <2> QED BY <2>1, <2>2 DEF ReapOldest
<1> HIDE DEF u
<1>9. PICK v : v = u
  OBVIOUS
<1>10. Totals(v)'
  BY <1>6, <1>7, <1>8, <1>9 DEF Totals, Sums
<1> QED BY <1>6, <1>8, <1>10 DEF SInv

-----------------------------------------------------------------------------
(***************************************************************************)
(* The creation of a segment, and the write.                               *)
(***************************************************************************)
\* The steps up to the directory sync leave the segments' files alone.
LEMMA CreateSize ==
  ASSUME IInv, SInv, CreateFile \/ WriteHeader \/ SyncHeader
  PROVE  SInv'
<1>1. /\ UNCHANGED <<segs, diskSize, op, ret>> /\ pc \in CreateSteps
      /\ pc' \in {"writeHeader", "syncHeader", "syncDir"}
  BY DEF CreateFile, WriteHeader, SyncHeader, Goto, CreateSteps
<1>2. (\A n \in 1..Len(files) : n \in dir' <=> n \in dir) /\ Len(files') \in dir'
  <2>0. files \in Seq(File) /\ Len(files) \in Nat
    BY SMTT(20) DEF IInv, TypeOK
  <2>1. CASE CreateFile
    <3>1. files' = Append(files, EmptyFile(op.base)) /\ dir' = dir \cup {Len(files) + 1}
      BY <2>1 DEF CreateFile, FsCreate
    <3>2. Len(files') = Len(files) + 1
      BY <2>0, <3>1
    <3>3. \A n \in 1..Len(files) : n # Len(files) + 1
      BY <2>0
    <3> QED BY <3>1, <3>2, <3>3
  <2>2. CASE WriteHeader \/ SyncHeader
    <3>1. pc \in CreateSteps \ {"create"} /\ dir' = dir
      BY <2>2 DEF WriteHeader, SyncHeader, FsWrite, FsSync, CreateSteps
    <3>2. Len(files') = Len(files)
      <4>1. CASE SyncHeader
        BY <4>1 DEF SyncHeader, FsSync
      <4>2. CASE WriteHeader
        BY <2>0, <4>2 DEF WriteHeader, FsWrite
      <4> QED BY <2>2, <4>1, <4>2
    <3> QED BY <3>1, <3>2 DEF SInv, HandleControl
  <2> QED BY <2>1, <2>2
<1>3. HandleControl' /\ ReapingMakesRoom' /\ \A t : Totals(t) => Removed(t)'
  BY <1>1, <1>2 DEF SInv, HandleControl, ReapingMakesRoom, Removed, CreateSteps
<1>4. RoomControl'
  BY <1>1 DEF SInv, RoomControl, CreateSteps, TooLarge, AppendSize
<1> QED BY <1>1, <1>2, <1>3, <1>4, StillSize

\* A new segment counts its header.
LEMMA SyncDirectorySize ==
  ASSUME IInv, SInv, SyncDirectory
  PROVE  SInv'
<1> DEFINE l == Len(segs)
           s == newSegment(Len(files), op.base)
<1>0. /\ pc = "syncDir" /\ segs' = Append(segs, s) /\ diskSize' = diskSize + HeaderSize /\ dir' = dir
      /\ Len(files) \in dir
  BY DEF SyncDirectory, FsSyncDir, SInv, HandleControl, CreateSteps
<1>1. segs \in Seq(Segment) /\ l \in Nat
  BY SMTT(20) DEF IInv, TypeOK
<1>2. s.ino = Len(files) /\ s.writeOffset = 64 /\ s.open
  BY DEF newSegment, HeaderSize
<1> HIDE DEF s
<1>3. Len(segs') = l + 1 /\ segs'[l + 1] = s /\ \A i \in 1..l : segs'[i] = segs[i]
  BY <1>0, <1>1
<1>4. \A i \in 1..(l + 1) : i \in 1..l \/ i = l + 1
  BY <1>1
<1>5. OpenIsLive'
  BY <1>0, <1>2, <1>3, <1>4, SMTT(20) DEF SInv, OpenIsLive, Live
<1>6. Bounded'
  BY <1>2, <1>3, <1>4, SMTT(20) DEF SInv, Bounded, HeaderSize
<1>7. PICK t : Totals(t)
  BY DEF SInv
<1>8. PICK n \in Nat : n = l
  BY <1>1
<1>9. PICK c : c = Counted
  OBVIOUS
<1>10. PICK d : d = Counted'
  OBVIOUS
<1>11. Sums(t, c, n) /\ \A i \in 1..n : d[i] = c[i]
  <2>1. \A i \in 1..n : Counted'[i] = Counted[i]
    <3>1. \A i \in 1..n : Counted'[i] = IF segs'[i].ino \in dir' THEN segs'[i].writeOffset ELSE 0
      BY <1>1, <1>3, <1>8, SMTT(20) DEF Counted, CountedSize, Size
    <3>2. \A i \in 1..n : Counted[i] = IF segs[i].ino \in dir THEN segs[i].writeOffset ELSE 0
      BY <1>8 DEF Counted, CountedSize, Size
    <3> QED BY <1>0, <1>3, <1>8, <3>1, <3>2, SMTT(20)
  <2> QED BY <1>7, <1>8, <1>9, <1>10, <2>1 DEF Totals
<1>12. d[n + 1] = 64
  <2>1. Counted'[l + 1] = IF segs'[l + 1].ino \in dir' THEN segs'[l + 1].writeOffset ELSE 0
    BY <1>1, <1>3, SMTT(20) DEF Counted, CountedSize, Size
  <2> QED BY <1>0, <1>2, <1>3, <1>8, <1>10, <2>1, SMTT(20)
<1> DEFINE u == [i \in 0..(n + 1) |-> IF i <= n THEN t[i] ELSE t[n] + d[n + 1]]
<1>13. Sums(u, d, n + 1)
  BY <1>11, <1>12, SumsExtend, SMTT(20)
<1>14. u[n + 1] = t[n] + 64
  BY <1>12, SMTT(20)
<1> HIDE DEF u
<1>15. Sums(u, Counted', Len(segs')) /\ diskSize' = u[Len(segs')]
  <2>1. diskSize = t[n]
    BY <1>7, <1>8 DEF Totals
  <2> QED BY <1>0, <1>3, <1>8, <1>10, <1>13, <1>14, <2>1 DEF HeaderSize
<1>16. HandleControl' /\ RoomControl' /\ ReapingMakesRoom' /\ \A x : Removed(x)'
  <2>1. CASE op.kind = "append"
    <3>1. pc' = "write" /\ UNCHANGED <<op, ret>>
      BY <2>1 DEF SyncDirectory, Goto
    <3>2. HandleControl' /\ ReapingMakesRoom' /\ \A x : Removed(x)'
      BY <3>1 DEF SInv, HandleControl, ReapingMakesRoom, Removed, CreateSteps
    <3>3. ~TooLarge(op.batch)
      BY <1>0, <2>1 DEF SInv, RoomControl, CreateSteps
    <3>4. lastSegment' = s
      BY <1>3 DEF lastSegment
    <3>5. ~rotate'
      <4>1. rotate' <=> MaxSegmentSize > 0 /\ lastSegment'.writeOffset + AppendSize(op'.batch) > MaxSegmentSize
        BY DEF rotate, Size, AppendSize
      <4> QED BY <1>2, <3>1, <3>3, <3>4, <4>1 DEF TooLarge, HeaderSize
    <3>6. RoomControl'
      BY <3>1, <3>3, <3>5 DEF RoomControl, TooLarge, AppendSize
    <3> QED BY <3>2, <3>6
  <2>2. CASE op.kind # "append"
    <3>1. Return("ok")
      BY <2>2 DEF SyncDirectory
    <3> QED BY <3>1, ReturnSize
  <2> QED BY <2>1, <2>2
<1>17. Totals(u)'
  BY <1>15, <1>16 DEF Totals, Sums
<1> QED BY <1>5, <1>6, <1>16, <1>17 DEF SInv

\* The end of the last segment moves, and the total with it.
LEMMA LastSize ==
  ASSUME IInv, SInv, segs # <<>>, lastSegment.open, dir' = dir,
         NEW n \in Nat, NEW off \in Nat, MovesLast(n, off),
         diskSize' = diskSize + (off - lastSegment.writeOffset),
         MaxSegmentSize > 0 => off <= MaxSegmentSize \/ off = HeaderSize,
         NEW r \in {"ok", "error"}, Return(r)
  PROVE  SInv'
<1>1. PICK l \in Nat \ {0} : l = Len(segs)
  BY LastFacts
<1>2. l \in 1..l /\ lastSegment = segs[l]
  BY <1>1, LastFacts
<1> DEFINE t == [segs[l] EXCEPT !.writeIndex = n, !.writeOffset = off]
<1>3. /\ segs[l] \in Segment /\ segs[l].open /\ segs[l].writeOffset \in Nat /\ segs[l].ino \in dir
  BY <1>1, <1>2, SegmentFacts DEF SInv, OpenIsLive, Live
<1>4. t \in Segment
  BY <1>3, MovedFacts
<1>5. t.ino = segs[l].ino /\ t.writeOffset = off
  BY <1>3 DEF Segment
<1>6. segs \in Seq(Segment)
  BY DEF IInv, TypeOK
<1>7. segs' = [segs EXCEPT ![l] = t]
  BY <1>1, <1>2, <1>6, Zenon DEF MovesLast
<1> HIDE DEF t
<1>8. /\ Len(segs') = l /\ segs'[l] = t
      /\ \A i \in 1..l : i # l => segs'[i] = segs[i]
  BY <1>1, <1>2, <1>4, <1>6, <1>7, SMTT(20)
<1>9. \A i \in 1..l : segs'[i].ino = segs[i].ino /\ (i # l => segs'[i].writeOffset = segs[i].writeOffset)
  BY <1>5, <1>8, Zenon
<1>10. OpenIsLive'
  BY <1>1, <1>3, <1>8, <1>9, Zenon DEF SInv, OpenIsLive, Live
<1>11. Bounded'
  BY <1>1, <1>5, <1>8, <1>9, Zenon DEF SInv, Bounded
<1>12. PICK x : Totals(x)
  BY DEF SInv
<1>13. PICK c : c = Counted
  OBVIOUS
<1>14. PICK d : d = Counted'
  OBVIOUS
<1>15. PICK e \in Int : e = off - segs[l].writeOffset
  BY <1>3
<1>16. /\ \A i \in 1..l : d[i] = IF segs'[i].ino \in dir' THEN segs'[i].writeOffset ELSE 0
       /\ \A i \in 1..l : c[i] = IF segs[i].ino \in dir THEN segs[i].writeOffset ELSE 0
  BY <1>1, <1>8, <1>13, <1>14 DEF Counted, CountedSize, Size
<1>17. \A i \in 1..l : i # l => d[i] = c[i]
  BY <1>9, <1>16
<1>18. d[l] = c[l] + e
  <2>1. d[l] = off /\ c[l] = segs[l].writeOffset
    BY <1>2, <1>3, <1>5, <1>8, <1>16
  <2> QED BY <1>3, <1>15, <2>1
<1>19. Sums(x, c, l) /\ diskSize = x[l] /\ x[l] \in Int
  <2>1. Sums(x, Counted, l) /\ diskSize = x[l]
    BY <1>1, <1>12 DEF Totals
  <2> QED BY <1>13, <2>1, SMTT(20) DEF Sums
<1>a. PICK k \in 1..l : k = l
  BY <1>2
<1> DEFINE u == [i \in 0..l |-> IF i < k THEN x[i] ELSE x[i] + e]
<1>20. Sums(u, d, l)
  <2>1. l \in Nat /\ (\A i \in 1..l : i # k => d[i] = c[i]) /\ d[k] = c[k] + e
    BY <1>17, <1>18, <1>a
  <2> HIDE <1>a
  <2> QED BY <1>19, <2>1, SumsChange, SMTT(20)
<1>21. u[l] = x[l] + e
  BY <1>a
<1> HIDE DEF u
<1>22. Sums(u, Counted', Len(segs')) /\ diskSize' = u[Len(segs')]
  BY <1>2, <1>8, <1>14, <1>15, <1>19, <1>20, <1>21
<1>23. HandleControl' /\ RoomControl' /\ ReapingMakesRoom' /\ \A y : Removed(y)'
  BY ReturnSize
<1>24. Totals(u)'
  BY <1>22, <1>23 DEF Totals, Sums
<1> QED BY <1>10, <1>11, <1>23, <1>24 DEF SInv

\* The segment takes the batch in, which it has room for.
LEMMA CommitSize ==
  ASSUME IInv, SInv, pc \in {"writing", "syncAppend"}, CommitAppend, dir' = dir
  PROVE  SInv'
<1>1. /\ op.batch \in Batches /\ segs # <<>> /\ lastSegment.open /\ ~rotate
  BY DEF IInv, Control, AppendControl, AppendSteps, SInv, HandleControl, RoomControl
<1> DEFINE n == lastSegment.writeIndex + Len(op.batch)
           off == lastSegment.writeOffset + AppendSize(op.batch)
<1>2. /\ lastSegment.writeIndex \in Nat /\ lastSegment.writeOffset \in Nat
  BY <1>1, LastFacts, SegmentFacts
<1>3. Len(op.batch) \in Nat /\ AppendSize(op.batch) \in Nat
  BY <1>1, BatchFacts
<1>4. MovesLast(n, off)
  BY DEF CommitAppend, MovesLast, lastSegment
<1>5. /\ diskSize' = diskSize + AppendSize(op.batch) /\ Return("ok")
  BY DEF CommitAppend
<1>6. diskSize \in Int
  BY DEF IInv, TypeOK
<1>7. n \in Nat /\ off \in Nat /\ diskSize' = diskSize + (off - lastSegment.writeOffset)
  BY <1>2, <1>3, <1>5, <1>6, SMTT(40)
<1>8. MaxSegmentSize > 0 => off <= MaxSegmentSize \/ off = HeaderSize
  BY <1>1, <1>2, <1>3, ConfigAssumption DEF rotate, Size
<1> HIDE DEF n, off
<1> QED BY <1>1, <1>4, <1>5, <1>7, <1>8, LastSize

\* The write, and its repair, change a file that stays in the directory.
LEMMA WriteSize ==
  ASSUME IInv, SInv, WriteBegin \/ WriteEnd \/ SyncAppend \/ PersistFails \/ Trim
  PROVE  SInv'
<1>0. dir' = dir
  BY DEF WriteBegin, WriteEnd, SyncAppend, PersistFails, Trim, FsWrite, FsSync, FsIdle, storageVars
<1>1. CASE CommitAppend /\ (WriteEnd \/ SyncAppend)
  <2>1. pc \in {"writing", "syncAppend"}
    BY <1>1 DEF WriteEnd, SyncAppend
  <2> QED BY <1>0, <1>1, <2>1, CommitSize
<1>2. CASE WriteBegin \/ PersistFails \/ Trim \/ (WriteEnd /\ Goto("syncAppend") /\ UNCHANGED <<segs, diskSize>>)
  <2>1. /\ UNCHANGED <<segs, diskSize, op, ret>>
        /\ pc \in {"write", "writing", "syncAppend", "trim"}
        /\ pc' \in {"writing", "syncAppend", "trim", "trimSync"}
        /\ pc' = "writing" => pc = "write" /\ lastSegment.open
        /\ pc' = "syncAppend" => pc = "writing"
    BY <1>2 DEF WriteBegin, PersistFails, Trim, WriteEnd, Goto
  <2>2. HandleControl' /\ ReapingMakesRoom' /\ \A t : Totals(t) => Removed(t)'
    BY <2>1 DEF SInv, HandleControl, ReapingMakesRoom, Removed, lastSegment, CreateSteps
  <2>3. ~TooLarge(op.batch) /\ (pc' \in {"writing", "syncAppend"} => ~rotate)
    BY <2>1 DEF SInv, RoomControl, AppendSteps, IInv, Control, AppendControl
  <2>4. RoomControl'
    BY <2>1, <2>3 DEF RoomControl, TooLarge, rotate, AppendSize, Size, lastSegment
  <2> QED BY <1>0, <2>1, <2>2, <2>4, StillSize
<1> QED BY <1>1, <1>2 DEF WriteEnd, SyncAppend

-----------------------------------------------------------------------------
(***************************************************************************)
(* The truncations.                                                        *)
(***************************************************************************)
\* A truncation is called: it has nothing to do, or a loop before it.
LEMMA TruncateCallSize ==
  ASSUME IInv, SInv, NEW seq \in TruncateSeqs, TruncateBeforeCall(seq) \/ TruncateAfterCall(seq)
  PROVE  SInv'
<1>0. UNCHANGED <<segs, diskSize, dir>>
  BY DEF TruncateBeforeCall, TruncateAfterCall, FsIdle, storageVars
<1>1. CASE Return("ok")
  <2>1. HandleControl' /\ RoomControl' /\ ReapingMakesRoom' /\ \A t : Removed(t)'
    BY <1>1, ReturnSize
  <2> QED BY <1>0, <2>1, StillSize
<1>2. ASSUME NEW kind \in Kinds, NEW from, NEW to, Drop(kind, seq, from, to),
             kind # "append" /\ (kind = "afterKeep" => from = KeepIndex(seq) + 1 /\ KeepIndex(seq) \in Nat),
             kind # "afterKeep" => from = 1
      PROVE  SInv'
  <2>1. /\ pc' = "drop" /\ ret' = ret /\ op'.kind = kind /\ op'.keep = KeepIndex(seq) /\ op'.i = from
    BY <1>2 DEF Drop, NoOp
  <2>2. HandleControl' /\ RoomControl' /\ ReapingMakesRoom'
    BY <2>1 DEF SInv, HandleControl, RoomControl, ReapingMakesRoom, CreateSteps, AppendSteps
  <2>3. ASSUME NEW t, Totals(t)
        PROVE  Removed(t)'
    <3>1. t[0] = 0
      BY <2>3 DEF Totals, Sums
    <3>2. kind # "afterKeep" => op'.i - 1 = 0
      BY <1>2, <2>1
    <3>3. kind = "afterKeep" => op'.i > op'.keep /\ op'.i - 1 = op'.keep
      BY <1>2, <2>1
    <3> QED BY <2>1, <3>1, <3>2, <3>3 DEF Removed
  <2> QED BY <1>0, <2>2, <2>3, StillSize
<1>3. KeepIndex(seq) \in Nat
  <2>1. Len(segs) \in Nat /\ seq \in Nat
    BY InputAssumption, SMTT(20) DEF IInv, TypeOK
  <2> QED BY <2>1, KeepIndexFacts
<1>4. CASE TruncateBeforeCall(seq)
  <2>1. \/ Return("ok") \/ Drop("beforeAll", seq, 1, Len(segs) - 1)
        \/ Drop("beforeKeep", seq, 1, KeepIndex(seq) - 1)
    BY <1>4 DEF TruncateBeforeCall
  <2>2. "beforeAll" \in Kinds /\ "beforeKeep" \in Kinds
    BY DEF Kinds
  <2> QED BY <1>1, <1>2, <2>1, <2>2
<1>5. CASE TruncateAfterCall(seq)
  <2>1. \/ Return("ok") \/ Drop("afterAll", seq, 1, Len(segs))
        \/ Drop("afterKeep", seq, KeepIndex(seq) + 1, Len(segs))
    BY <1>5 DEF TruncateAfterCall
  <2>2. "afterAll" \in Kinds /\ "afterKeep" \in Kinds
    BY DEF Kinds
  <2> QED BY <1>1, <1>2, <1>3, <2>1, <2>2
<1> QED BY <1>4, <1>5

\* A segment is closed and removed and its size taken off the total, or it is
\* closed only and the handler gives up.
LEMMA DropSize ==
  ASSUME IInv, SInv, DropSegment \/ DropFails
  PROVE  SInv'
<1>0. pc = "drop" /\ op.i <= op.n /\ Closes(op.i) /\ files' = files
  BY DEF DropSegment, DropFails, Closes, FsIdle, FsRemove, storageVars
<1>1. op.i \in 1..Len(segs) /\ op \in Op /\ op.i \in Nat /\ Len(segs) \in Nat
  BY <1>0, DropFacts
<1>2. /\ Len(segs') = Len(segs)
      /\ \A i \in 1..Len(segs) : SameButOpen(segs'[i], segs[i])
      /\ \A i \in 1..Len(segs) : i # op.i => segs'[i] = segs[i]
      /\ ~segs'[op.i].open
  BY <1>0, <1>1, ClosedFacts
<1>3. \A i \in 1..Len(segs) : SamePlace(segs'[i], segs[i]) /\ (segs'[i].open => i # op.i /\ segs[i].open)
  BY <1>2, Zenon DEF SameButOpen
<1>4. CASE DropFails
  <2>1. UNCHANGED <<diskSize, dir>> /\ Return("error")
    BY <1>4 DEF DropFails, FsIdle, storageVars
  <2>2. HandleControl' /\ RoomControl' /\ ReapingMakesRoom' /\ \A t : Removed(t)'
    BY <2>1, ReturnSize
  <2> QED BY <1>2, <1>3, <2>1, <2>2, QuietSize
<1>5. CASE DropSegment
  <2>1. /\ segs[op.i].open /\ dir' = dir \ {segs[op.i].ino} /\ diskSize' = diskSize - segs[op.i].writeOffset
        /\ op' = [op EXCEPT !.i = @ + 1] /\ UNCHANGED <<pc, ret>>
    BY <1>5 DEF DropSegment, FsRemove, Size
  <2>2. segs[op.i].ino \in dir /\ segs[op.i].writeOffset \in Nat
    BY <1>1, <2>1, SegmentFacts DEF SInv, OpenIsLive, Live
  <2>3. \A j \in 1..Len(segs) : j # op.i => segs[j].ino # segs[op.i].ino
    BY <1>1, OwnFiles
  <2>4. \A i \in 1..Len(segs) : segs'[i].ino = segs[i].ino /\ segs'[i].writeOffset = segs[i].writeOffset
    BY <1>3 DEF SamePlace
  <2>5. OpenIsLive'
    <3>1. \A i \in 1..Len(segs) : segs'[i].open => segs'[i].ino \in dir /\ segs'[i].ino # segs[op.i].ino
      BY <1>3, <2>3, <2>4, Zenon DEF SInv, OpenIsLive, Live
    <3> QED BY <1>2, <2>1, <3>1 DEF OpenIsLive, Live
  <2>6. Bounded'
    BY <1>2, <2>4, Zenon DEF SInv, Bounded
  <2>7. PICK x : Totals(x)
    BY DEF SInv
  <2>8. PICK c : c = Counted
    OBVIOUS
  <2>9. PICK d : d = Counted'
    OBVIOUS
  <2>10. PICK e \in Int : e = - segs[op.i].writeOffset
    BY <2>2
  <2>11. PICK k \in Nat : k = op.i
    BY <1>1
  <2>12. PICK l \in Nat : l = Len(segs)
    BY <1>1
  <2>13. /\ \A i \in 1..l : d[i] = IF segs'[i].ino \in dir' THEN segs'[i].writeOffset ELSE 0
         /\ \A i \in 1..l : c[i] = IF segs[i].ino \in dir THEN segs[i].writeOffset ELSE 0
    BY <1>2, <2>8, <2>9, <2>12 DEF Counted, CountedSize, Size
  <2>14. \A i \in 1..l : i # k => d[i] = c[i]
    BY <2>1, <2>3, <2>4, <2>11, <2>12, <2>13, SMTT(20)
  <2>15. k \in 1..l /\ d[k] = c[k] + e
    <3>1. k \in 1..l /\ d[k] = 0 /\ c[k] = segs[k].writeOffset
      BY <1>1, <2>1, <2>2, <2>4, <2>11, <2>12, <2>13
    <3> QED BY <2>2, <2>10, <2>11, <3>1
  <2>16. Sums(x, c, l) /\ diskSize = x[l] /\ Removed(x)
    BY <2>7, <2>8, <2>12 DEF Totals
  <2>17. /\ x[l] \in Int /\ x[k] \in Int /\ x[k - 1] \in Int /\ x[k] = x[k - 1] + c[k] /\ c[k] \in Int
    BY <2>15, <2>16, SMTT(20) DEF Sums
  <2> DEFINE u == [i \in 0..l |-> IF i < k THEN x[i] ELSE x[i] + e]
  <2>18. Sums(u, d, l)
    BY <2>14, <2>15, <2>16, SumsChange, SMTT(20)
  <2>19. u[l] = x[l] + e /\ u[k] = x[k] + e /\ \A i \in 0..(k - 1) : u[i] = x[i]
    BY <2>15
  <2> HIDE DEF u
  <2>20. Sums(u, Counted', Len(segs')) /\ diskSize' = u[Len(segs')]
    <3>1. \A z, y \in Int : z - y = z + (- y)
      OBVIOUS
    <3>2. diskSize' = x[l] + e
      BY <2>1, <2>2, <2>10, <2>16, <2>17, <3>1
    <3> QED BY <1>2, <2>9, <2>12, <2>18, <2>19, <3>2
  <2>21. op'.kind = op.kind /\ op'.keep = op.keep /\ op'.i = k + 1
    BY <1>1, <2>1, <2>11 DEF Op
  <2>22. u[op'.i - 1] = x[k - 1]
    <3>1. op'.i - 1 = k /\ c[k] = - e
      <4>1. c[k] = segs[k].writeOffset
        BY <1>1, <2>2, <2>11, <2>12, <2>13
      <4> QED BY <2>2, <2>10, <2>11, <2>21, <4>1
    <3> QED BY <2>17, <2>19, <3>1, SMTT(20)
  <2>23. Removed(u)'
    <3>1. op.kind # "afterKeep" => x[k - 1] = 0
      BY <1>0, <2>11, <2>16 DEF Removed
    <3>2. op.kind = "afterKeep" => k > op.keep /\ x[k - 1] = x[op.keep] /\ op.keep \in Nat
      BY <1>0, <1>1, <2>11, <2>16 DEF Removed, Op
    <3>3. op.kind = "afterKeep" => u[op.keep] = x[op.keep] /\ op'.i > op.keep
      BY <2>19, <2>21, <3>2, SMTT(20)
    <3> QED BY <1>0, <2>1, <2>21, <2>22, <3>1, <3>2, <3>3 DEF Removed
  <2>24. HandleControl' /\ RoomControl' /\ ReapingMakesRoom'
    BY <1>0, <2>1 DEF SInv, HandleControl, RoomControl, ReapingMakesRoom, CreateSteps, AppendSteps
  <2>25. Totals(u)'
    BY <2>20, <2>23 DEF Totals, Sums
  <2> QED BY <2>5, <2>6, <2>24, <2>25 DEF SInv
<1> QED BY <1>4, <1>5

\* Segments that count nothing are taken off the list.
LEMMA ForgetSize ==
  ASSUME IInv, SInv, diskSize' = diskSize, dir' = dir, NEW t, Totals(t),
         NEW a \in Nat, Len(segs') \in Nat, Len(segs') + a <= Len(segs),
         t[a] = 0, t[a + Len(segs')] = t[Len(segs)],
         \A i \in 1..Len(segs') : SamePlace(segs'[i], segs[a + i]),
         \A i \in 1..Len(segs') : segs'[i].open => segs[a + i].open,
         HandleControl', RoomControl', ReapingMakesRoom', \A x : x[0] = 0 => Removed(x)'
  PROVE  SInv'
<1>1. \A i \in 1..Len(segs') : segs[a + i].ino \in dir' <=> segs[a + i].ino \in dir
  OBVIOUS
<1>2. PICK u : u = [i \in 0..Len(segs') |-> t[a + i] - t[a]]
  OBVIOUS
<1>3. OpenIsLive' /\ Bounded' /\ Sums(u, Counted', Len(segs'))
  <2>1. /\ OpenIsLive' /\ Bounded'
        /\ Sums([i \in 0..Len(segs') |-> t[a + i] - t[a]], Counted', Len(segs'))
    BY <1>1, CutSize, Zenon DEF SInv
  <2> QED BY <1>2, <2>1
<1>4. diskSize' = u[Len(segs')]
  <2>1. u[Len(segs')] = t[a + Len(segs')] - t[a]
    BY <1>2
  <2>2. diskSize = t[Len(segs)] /\ diskSize \in Int
    BY DEF Totals, IInv, TypeOK
  <2> QED BY <2>1, <2>2
<1>5. Removed(u)'
  BY <1>3 DEF Sums
<1>6. Totals(u)'
  BY <1>3, <1>4, <1>5 DEF Totals, Sums
<1> QED BY <1>3, <1>6 DEF SInv

\* The loop is done: the segments it has removed are taken off the list.
LEMMA DropDoneSize ==
  ASSUME IInv, SInv, DropDone
  PROVE  SInv'
<1>0. pc = "drop" /\ op.i > op.n /\ UNCHANGED <<diskSize, dir, files>>
  BY DEF DropDone, FsIdle, storageVars
<1>1. /\ segs # <<>> /\ op \in Op /\ Len(segs) \in Nat /\ op.i \in Nat /\ op.n \in Nat
      /\ op.i = op.n + 1 /\ Len(segs) \in 1..Len(segs)
  BY <1>0, DropFacts, LastFacts
<1>2. PICK t : Totals(t)
  BY DEF SInv
<1>3. t[0] = 0
  BY <1>2 DEF Totals, Sums
<1>4. CASE op.kind = "beforeAll"
  <2>1. /\ pc' = "setRead" /\ segs' = segs /\ ret' = ret
        /\ op' = [op EXCEPT !.i = Len(segs), !.n = lastSegment.writeIndex]
    BY <1>4 DEF DropDone
  <2>2. op.i = Len(segs) /\ op'.i = op.i
    <3>1. op.n = Len(segs) - 1
      BY <1>0, <1>4 DEF IInv, Control, DropControl
    <3>2. op'.i = Len(segs)
      BY <1>1, <2>1 DEF Op
    <3> QED BY <1>1, <3>1, <3>2, SMTT(20)
  <2>3. HandleControl' /\ RoomControl' /\ ReapingMakesRoom'
    BY <2>1 DEF SInv, HandleControl, RoomControl, ReapingMakesRoom, CreateSteps, AppendSteps
  <2>4. \A x : Totals(x) => Removed(x)'
    BY <1>0, <1>4, <2>1, <2>2 DEF Totals, Removed
  <2> QED BY <1>0, <2>1, <2>3, <2>4, StillSize
<1>5. CASE op.kind = "beforeKeep"
  <2> DEFINE a == op.i - 1
  <2>1. /\ op.i \in 1..Len(segs) /\ Len(segs) \in op.i..Len(segs) /\ CutTo(op.i, Len(segs))
    BY <1>0, <1>1, <1>5, DropFacts, SMTT(20) DEF DropDone, CutTo
  <2>2. /\ Len(segs') = Len(segs) - op.i + 1 /\ \A i \in 1..Len(segs') : segs'[i] = segs[a + i]
    BY <1>0, <2>1, CutFacts
  <2>3. /\ a \in Nat /\ Len(segs') \in Nat /\ Len(segs') + a <= Len(segs) /\ a + Len(segs') = Len(segs)
    BY <1>1, <2>1, <2>2, SMTT(40)
  <2>4. t[a] = 0
    BY <1>0, <1>2, <1>5 DEF Totals, Removed
  <2> HIDE DEF a
  <2>5. /\ \A i \in 1..Len(segs') : SamePlace(segs'[i], segs[a + i])
        /\ \A i \in 1..Len(segs') : segs'[i].open => segs[a + i].open
    BY <2>2, Zenon DEF SamePlace
  <2>6. HandleControl' /\ RoomControl' /\ ReapingMakesRoom' /\ \A x : x[0] = 0 => Removed(x)'
    <3>1. CASE Return("ok")
      BY <3>1, ReturnSize
    <3>2. CASE pc' = "setRead" /\ op' = [op EXCEPT !.i = 1, !.n = readIndex] /\ UNCHANGED ret
      <4>1. op'.i - 1 = 0
        BY <1>1, <3>2 DEF Op
      <4> QED BY <3>2, <4>1 DEF SInv, HandleControl, RoomControl, ReapingMakesRoom, Removed, CreateSteps,
              AppendSteps
    <3> QED BY <1>5, <3>1, <3>2 DEF DropDone
  <2>7. t[a + Len(segs')] = t[Len(segs)]
    BY <2>3
  <2> QED BY <1>0, <1>2, <2>3, <2>4, <2>5, <2>6, <2>7, ForgetSize, ZenonT(40)
<1>6. CASE op.kind = "afterAll"
  <2>1. segs' = <<>> /\ pc' = "create" /\ ret' = ret /\ op' = [op EXCEPT !.base = StartSeq]
    BY <1>6 DEF DropDone
  <2>2. op'.kind # "append" /\ Len(segs') = 0 /\ Len(segs') \in Nat /\ 0 + Len(segs') = 0 /\ 0 \in Nat
        /\ Len(segs') + 0 <= Len(segs) /\ 1..Len(segs') = {}
    BY <1>1, <1>6, <2>1, SMTT(20) DEF Op
  <2>3. t[0 + Len(segs')] = t[Len(segs)]
    <3>1. op.n = Len(segs)
      BY <1>0, <1>6 DEF IInv, Control, DropControl
    <3>2. op.i - 1 = Len(segs)
      BY <1>1, <3>1
    <3> QED BY <1>0, <1>2, <1>3, <1>6, <2>2, <3>2 DEF Totals, Removed
  <2>4. HandleControl' /\ RoomControl' /\ ReapingMakesRoom' /\ \A x : x[0] = 0 => Removed(x)'
    BY <2>1, <2>2 DEF SInv, HandleControl, RoomControl, ReapingMakesRoom, Removed, CreateSteps, AppendSteps
  <2>5. /\ \A i \in 1..Len(segs') : SamePlace(segs'[i], segs[0 + i])
        /\ \A i \in 1..Len(segs') : segs'[i].open => segs[0 + i].open
    BY <2>2
  <2> QED BY <1>0, <1>2, <1>3, <2>2, <2>3, <2>4, <2>5, ForgetSize, ZenonT(40)
<1>7. CASE op.kind = "afterKeep"
  <2>1. op.keep \in 1..Len(segs) /\ 1 \in 1..Len(segs)
    BY <1>0, <1>1, <1>7, DropFacts
  <2>2. CutTo(1, op.keep) /\ pc' = "truncate" /\ UNCHANGED <<op, ret>>
    BY <1>7 DEF DropDone, CutTo, Goto
  <2>3. Len(segs') = op.keep - 1 + 1 /\ \A i \in 1..Len(segs') : segs'[i] = segs[(1 - 1) + i]
    BY <1>0, <2>1, <2>2, CutFacts
  <2>4. /\ Len(segs') = op.keep /\ Len(segs') \in Nat /\ 0 \in Nat /\ Len(segs') + 0 <= Len(segs)
        /\ 0 + Len(segs') = op.keep /\ \A i \in 1..Len(segs') : (1 - 1) + i = 0 + i
    BY <1>1, <2>1, <2>3, SMTT(20)
  <2>5. t[0 + Len(segs')] = t[Len(segs)]
    <3>1. op.n = Len(segs)
      BY <1>0, <1>7 DEF IInv, Control, DropControl
    <3>2. op.i - 1 = Len(segs)
      BY <1>1, <3>1
    <3> QED BY <1>0, <1>2, <1>7, <2>4, <3>2 DEF Totals, Removed
  <2>6. HandleControl' /\ RoomControl' /\ ReapingMakesRoom' /\ \A x : x[0] = 0 => Removed(x)'
    BY <2>2 DEF SInv, HandleControl, RoomControl, ReapingMakesRoom, Removed, CreateSteps, AppendSteps
  <2>7. /\ \A i \in 1..Len(segs') : SamePlace(segs'[i], segs[0 + i])
        /\ \A i \in 1..Len(segs') : segs'[i].open => segs[0 + i].open
    BY <2>3, <2>4, Zenon DEF SamePlace
  <2> QED BY <1>0, <1>2, <1>3, <2>4, <2>5, <2>6, <2>7, ForgetSize, ZenonT(40)
<1> QED BY <1>0, <1>4, <1>5, <1>6, <1>7, DropFacts

\* SetReadOffset moves a read start, and takes off the list what counts nothing.
LEMMA SetReadSize ==
  ASSUME IInv, SInv, SetRead \/ SetReadSync
  PROVE  SInv'
<1>0. pc \in {"setRead", "setReadSync"} /\ UNCHANGED <<diskSize, dir>>
  BY DEF SetRead, SetReadSync, FsWrite, FsSync
<1>1. CASE SetRead
  <2>1. pc' = "setReadSync" /\ UNCHANGED <<segs, op, ret>>
    BY <1>1 DEF SetRead, Goto
  <2>2. HandleControl' /\ RoomControl' /\ ReapingMakesRoom' /\ \A x : Totals(x) => Removed(x)'
    BY <1>0, <2>1 DEF SInv, HandleControl, RoomControl, ReapingMakesRoom, Totals, Removed, CreateSteps,
       AppendSteps
  <2> QED BY <1>0, <2>1, <2>2, StillSize
<1>2. CASE SetReadSync
  <2> DEFINE a == op.i - 1
             t == [segs[op.i] EXCEPT !.startIndex = op.n]
  <2>1. /\ op.i \in 1..Len(segs) /\ Len(segs) \in Nat
    BY <1>0, SMTT(20) DEF IInv, TypeOK, Control, CutControl
  <2>2. /\ segs' \in Seq(Segment) /\ Len(segs') = Len(segs) - op.i + 1 /\ segs'[1] = t
        /\ \A i \in 2..Len(segs') : segs'[i] = segs[a + i]
    BY <1>2, ReadMoved
  <2>3. SamePlace(t, segs[op.i]) /\ t.open = segs[op.i].open
    BY <2>1, SegmentFacts, Zenon DEF Segment, SamePlace
  <2> HIDE DEF t
  <2>4. \A q \in Nat : \A e \in 1..q : \A m \in Nat : m = q - e + 1 =>
          /\ e - 1 \in Nat /\ m + (e - 1) <= q /\ (e - 1) + 1 = e /\ (e - 1) + m = q
          /\ \A i \in 1..m : i = 1 \/ i \in 2..m
    OBVIOUS
  <2>5. Len(segs') \in Nat
    BY <2>2
  <2>6. /\ a \in Nat /\ Len(segs') + a <= Len(segs) /\ a + 1 = op.i /\ a + Len(segs') = Len(segs)
        /\ \A i \in 1..Len(segs') : i = 1 \/ i \in 2..Len(segs')
    BY <2>1, <2>2, <2>4, <2>5, ZenonT(40)
  <2>7. PICK x : Totals(x) /\ x[a] = 0
    BY <1>0 DEF SInv, Totals, Removed
  <2> HIDE DEF a
  <2>8. /\ \A i \in 1..Len(segs') : SamePlace(segs'[i], segs[a + i])
        /\ \A i \in 1..Len(segs') : segs'[i].open => segs[a + i].open
    BY <2>2, <2>3, <2>6, Zenon DEF SamePlace
  <2>9. HandleControl' /\ RoomControl' /\ ReapingMakesRoom' /\ \A y : y[0] = 0 => Removed(y)'
    <3>1. Return("ok")
      BY <1>2 DEF SetReadSync
    <3> QED BY <3>1, ReturnSize
  <2>10. x[a + Len(segs')] = x[Len(segs)]
    BY <2>6
  <2> QED BY <1>0, <2>5, <2>6, <2>7, <2>8, <2>9, <2>10, ForgetSize, ZenonT(40)
<1> QED BY <1>1, <1>2

\* TruncateAfter cuts the last segment, in the file and, once that is forced
\* out, on the list and in the total.
LEMMA TruncateSize ==
  ASSUME IInv, SInv, TruncateFile \/ TruncateSync
  PROVE  SInv'
<1>0. pc \in {"truncate", "truncateSync"} /\ dir' = dir
  BY DEF TruncateFile, TruncateSync, FsWrite, FsSync
<1>1. CASE TruncateFile
  <2>1. pc' = "truncateSync" /\ UNCHANGED <<segs, diskSize, ret>> /\ lastSegment.open
    BY <1>1 DEF TruncateFile
  <2>2. HandleControl' /\ RoomControl' /\ ReapingMakesRoom' /\ \A x : Totals(x) => Removed(x)'
    BY <2>1 DEF SInv, HandleControl, RoomControl, ReapingMakesRoom, Removed, lastSegment, CreateSteps,
       AppendSteps
  <2> QED BY <1>0, <2>1, <2>2, StillSize
<1>2. CASE TruncateSync
  <2>1. /\ pc = "truncateSync" /\ MovesLast(keepIdx, op.n) /\ Return("ok")
        /\ diskSize' = diskSize - (lastSegment.writeOffset - op.n)
    BY <1>2 DEF TruncateSync, MovesLast, Size
  <2>2. /\ segs # <<>> /\ Holds(lastSegment, op.seq) /\ lastSegment.open
        /\ HeaderSize <= op.n /\ op.n <= lastSegment.writeOffset /\ op.n \in Nat /\ diskSize \in Int
    BY <2>1 DEF IInv, TypeOK, Op, Control, CutControl, SInv, HandleControl
  <2>3. keepIdx \in Nat
    BY <2>2, KeepIdxFacts
  <2>4. /\ lastSegment.writeOffset \in Nat
        /\ MaxSegmentSize > 0 =>
             lastSegment.writeOffset <= MaxSegmentSize \/ lastSegment.writeOffset = HeaderSize
    BY <2>2, LastFacts, SegmentFacts DEF SInv, Bounded
  <2>5. diskSize' = diskSize + (op.n - lastSegment.writeOffset)
    <3>1. \A x, y, z \in Int : x - (y - z) = x + (z - y)
      OBVIOUS
    <3> QED BY <2>1, <2>2, <2>4, <3>1, SMTT(20)
  <2>6. MaxSegmentSize > 0 => op.n <= MaxSegmentSize \/ op.n = HeaderSize
    BY <2>2, <2>4, ConfigAssumption, SMTT(20) DEF HeaderSize
  <2> QED BY <1>0, <2>1, <2>2, <2>3, <2>5, <2>6, LastSize
<1> QED BY <1>1, <1>2

\* The chain that Load has created counts the header of its one file.
LEMMA InitSize == Init => SInv
<1> SUFFICES ASSUME Init PROVE SInv
  OBVIOUS
<1>1. /\ segs = <<newSegment(1, StartSeq)>> /\ dir = {1} /\ diskSize = HeaderSize
      /\ pc = "idle" /\ ret = "ok" /\ op = NoOp
  BY DEF Init
<1>2. Len(segs) = 1 /\ segs[1].ino = 1 /\ segs[1].writeOffset = HeaderSize
  BY <1>1 DEF newSegment
<1>3. OpenIsLive /\ Bounded
  BY <1>1, <1>2 DEF OpenIsLive, Bounded, Live
<1>4. HandleControl /\ RoomControl /\ ReapingMakesRoom
  BY <1>1 DEF HandleControl, RoomControl, ReapingMakesRoom, CreateSteps, AppendSteps
<1>5. Counted[1] = HeaderSize /\ HeaderSize \in Int
  BY <1>1, <1>2 DEF Counted, CountedSize, Size, HeaderSize
<1>6. PICK t : t = [i \in 0..1 |-> IF i = 0 THEN 0 ELSE HeaderSize]
  OBVIOUS
<1>7. Sums(t, Counted, 1)
  <2>1. PICK c : c = Counted
    OBVIOUS
  <2>2. c[1] = HeaderSize
    BY <1>5, <2>1
  <2>3. t \in [0..1 -> Int] /\ t[0] = 0 /\ t[1] = HeaderSize
    BY <1>5, <1>6
  <2>4. \A i \in 1..1 : i = 1 /\ i - 1 = 0
    OBVIOUS
  <2> QED BY <1>5, <2>1, <2>2, <2>3, <2>4, SMTT(20) DEF Sums
<1>8. Removed(t)
  BY <1>1 DEF Removed
<1>9. Totals(t)
  BY <1>1, <1>2, <1>6, <1>7, <1>8, SMTT(20) DEF Totals, HeaderSize
<1> QED BY <1>3, <1>4, <1>9 DEF SInv

\* Every step of every handler keeps the count.
LEMMA NextSize == IInv /\ SInv /\ [Next]_vars => SInv'
<1> SUFFICES ASSUME IInv, SInv, [Next]_vars PROVE SInv'
  OBVIOUS
<1>1. CASE Call
  BY <1>1, AppendCallSize, TruncateCallSize, SyncSize, CloseSize DEF Call
<1>2. CASE Append_
  BY <1>2, AdmitSize, ReapSize, FailsSize, WriteSize DEF Append_
<1>3. CASE Create_
  BY <1>3, CreateSize, FailsSize, SyncDirectorySize DEF Create_
<1>4. CASE Truncate_
  BY <1>4, DropSize, DropDoneSize, SetReadSize, TruncateSize, FailsSize DEF Truncate_
<1>5. CASE SyncStep
  BY <1>5, SyncSize
<1>6. CASE UNCHANGED vars
  <2>1. UNCHANGED <<segs, diskSize, files, dir, pc, op, ret>>
    BY <1>6 DEF vars, chainVars, storageVars
  <2> QED BY <2>1, UnchangedSize
<1> QED BY <1>1, <1>2, <1>3, <1>4, <1>5, <1>6 DEF Next, Step

=============================================================================

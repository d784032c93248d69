-------------------------- MODULE ChainReadProofs ---------------------------
(***************************************************************************)
(* What a reader of the chain finds: every record whose Append succeeded.  *)
(* The proofs that every step of every handler keeps the invariant RInv of *)
(* ChainFacts, on top of the inductive invariant.                          *)
(***************************************************************************)
EXTENDS ChainFacts

\* A leaf with no prover named may take each prover this long (in seconds).
USE ZenonT(20), SMTT(40)

-----------------------------------------------------------------------------
(***************************************************************************)
(* Steps in general.                                                       *)
(***************************************************************************)
\* Taking segments off either end, closing some and moving read starts keeps
\* what the invariant says about segments, when the files that keep their
\* names keep their frames.
LEMMA PlacesCarry ==
  ASSUME IInv, OpenIsLive, Complete, Sorted, pc # "truncateSync", pc' # "truncateSync",
         NEW a \in Nat, Len(segs') \in Nat, Len(segs') + a <= Len(segs),
         \A i \in 1..Len(segs') : SamePlace(segs'[i], segs[a + i]),
         \A i \in 1..Len(segs') : segs'[i].open => segs[a + i].open /\ segs[a + i].ino \in dir',
         \A n \in 1..Len(files) : n \in dir' => n \in dir /\ files'[n].frames = files[n].frames
  PROVE  OpenIsLive' /\ Complete' /\ Sorted'
<1>0. Len(segs) \in Nat /\ \A i \in 1..Len(segs') : a + i \in 1..Len(segs)
  BY SMTT(20) DEF IInv, TypeOK
<1>1. \A i \in 1..Len(segs') : /\ segs'[i].ino = segs[a + i].ino
                               /\ segs'[i].base = segs[a + i].base
                               /\ segs'[i].writeIndex = segs[a + i].writeIndex
                               /\ segs[a + i].ino \in 1..Len(files)
  BY <1>0, SegmentFacts DEF SamePlace
<1>2. OpenIsLive'
  BY <1>1, Zenon DEF OpenIsLive, Live
<1>3. Complete'
  <2> SUFFICES ASSUME NEW i \in 1..Len(segs'), segs'[i].ino \in dir'
               PROVE  segs'[i].writeIndex <= Len(files'[segs'[i].ino].frames)
    BY Zenon DEF Complete, Promised, Live, Frames
  <2>1. segs[a + i].writeIndex <= Len(files[segs[a + i].ino].frames)
    BY <1>0, <1>1, Zenon DEF Complete, Promised, Live, Frames
  <2> QED BY <1>1, <2>1, Zenon
<1>4. Sorted'
  <2> SUFFICES ASSUME NEW i \in 1..Len(segs'), NEW j \in 1..Len(segs'), i < j
               PROVE  segs'[i].base + segs'[i].writeIndex <= segs'[j].base
    BY Zenon DEF Sorted, NextSequence
  <2>1. a + i < a + j /\ a + i \in 1..Len(segs) /\ a + j \in 1..Len(segs)
    BY <1>0
  <2>2. segs[a + i].base + segs[a + i].writeIndex <= segs[a + j].base
    BY <2>1, Zenon DEF Sorted, NextSequence
  <2> QED BY <1>1, <2>2, Zenon
<1> QED BY <1>2, <1>3, <1>4

\* The same for the records, when no read start moves and no segment that has
\* one of the records still promised is taken away.
LEMMA KeptCarry ==
  ASSUME IInv, Kept, NEW a \in Nat, Len(segs') \in Nat, Len(segs') + a <= Len(segs),
         \A i \in 1..Len(segs') : SameButOpen(segs'[i], segs[a + i]),
         \A n \in 1..Len(files) : n \in dir' => n \in dir /\ files'[n].frames = files[n].frames,
         acked' \subseteq acked,
         \A r \in acked' : \A j \in 1..Len(segs) :
           At(r, j) => j > a /\ j <= a + Len(segs') /\ segs[j].ino \in dir'
  PROVE  Kept'
<1> SUFFICES ASSUME NEW r \in acked'
             PROVE  \E i \in 1..Len(segs') : At(r, i)'
  BY DEF Kept
<1>1. PICK j \in 1..Len(segs) : At(r, j)
  BY DEF Kept
<1>2. j > a /\ j <= a + Len(segs') /\ segs[j].ino \in dir' /\ segs[j].ino \in 1..Len(files)
  BY <1>1, SegmentFacts
<1> DEFINE i == j - a
<1>3. Len(segs) \in Nat /\ i \in 1..Len(segs') /\ a + i = j
  BY <1>2 DEF IInv, TypeOK
<1> HIDE DEF i
<1>4. /\ segs'[i].ino = segs[j].ino /\ segs'[i].base = segs[j].base
      /\ segs'[i].writeIndex = segs[j].writeIndex /\ segs'[i].startIndex = segs[j].startIndex
  BY <1>3 DEF SameButOpen, SamePlace
<1>5. files'[segs[j].ino].frames = files[segs[j].ino].frames
  BY <1>2
<1>6. At(r, i)'
  BY <1>1, <1>2, <1>4, <1>5, Zenon DEF At, Live, Frames, Index, StartSequence, NextSequence
<1> QED BY <1>3, <1>6

\* A step that changes the last segment or its file, and no other.
LEMMA LastCarry ==
  ASSUME IInv, Kept, OpenIsLive, Complete, Sorted, dir' = dir,
         NEW l \in Nat \ {0}, l = Len(segs), l = Len(segs'),
         \A i \in 1..l : i # l => segs'[i] = segs[i],
         segs'[l].base = segs[l].base,
         \A i \in 1..l : i # l => files'[segs[i].ino].frames = files[segs[i].ino].frames,
         segs'[l].open => Live(l)',
         Live(l)' => Promised(l)' <= Len(Frames(l))',
         \A r \in acked' : At(r, l)' \/ (r \in acked /\ ~At(r, l))
  PROVE  Kept' /\ OpenIsLive' /\ Complete' /\ Sorted'
<1>1. OpenIsLive'
  BY Zenon DEF OpenIsLive, Live
<1>2. Complete'
  <2> SUFFICES ASSUME NEW i \in 1..l, Live(i)'
               PROVE  Promised(i)' <= Len(Frames(i))'
    BY Zenon DEF Complete
  <2>1. CASE i = l
    BY <2>1, Zenon
  <2>2. CASE i # l
    <3>1. segs[i].writeIndex <= Len(files[segs[i].ino].frames)
      BY <2>2, Zenon DEF Complete, Promised, Live, Frames
    <3> QED BY <2>2, <3>1, Zenon DEF Promised, Live, Frames
  <2> QED BY <2>1, <2>2
<1>3. Sorted'
  <2> SUFFICES ASSUME NEW i \in 1..l, NEW j \in 1..l, i < j
               PROVE  segs'[i].base + segs'[i].writeIndex <= segs'[j].base
    BY Zenon DEF Sorted, NextSequence
  <2>1. i # l
    OBVIOUS
  <2>2. segs[i].base + segs[i].writeIndex <= segs[j].base
    BY Zenon DEF Sorted, NextSequence
  <2> QED BY <2>1, <2>2, Zenon
<1>4. Kept'
  <2> SUFFICES ASSUME NEW r \in acked', ~At(r, l)', r \in acked, ~At(r, l)
               PROVE  \E i \in 1..l : At(r, i)'
    <3>1. l \in 1..l
      OBVIOUS
    <3> QED BY <3>1, Zenon DEF Kept
  <2>1. PICK i \in 1..l : At(r, i)
    BY Zenon DEF Kept
  <2>2. i # l
    BY <2>1, Zenon
  <2>3. At(r, i)'
    BY <2>1, <2>2, Zenon DEF At, Live, Frames, Index, StartSequence, NextSequence
  <2> QED BY <2>3
<1> QED BY <1>1, <1>2, <1>3, <1>4

\* A step that leaves the segments and the frames of the files alone, with or
\* without a return.
LEMMA QuietCarry ==
  ASSUME IInv, RInv, pc # "truncateSync", pc' # "truncateSync", segs' = segs, acked' \subseteq acked,
         \A n \in 1..Len(files) : n \in dir' <=> n \in dir,
         \A n \in dir : files'[n].frames = files[n].frames
  PROVE  Kept' /\ OpenIsLive' /\ Complete' /\ Sorted'
<1>0. Len(segs) \in Nat /\ Len(segs') + 0 <= Len(segs) /\ \A i \in 1..Len(segs') : 0 + i = i
  BY SMTT(20) DEF IInv, TypeOK
<1>1. \A i \in 1..Len(segs') : SameButOpen(segs'[i], segs[0 + i]) /\ SamePlace(segs'[i], segs[0 + i])
  BY <1>0, Zenon DEF SameButOpen, SamePlace
<1>2. \A j \in 1..Len(segs) : segs[j].ino \in 1..Len(files)
  BY SegmentFacts
<1>3. \A i \in 1..Len(segs') : segs'[i].open => segs[0 + i].open /\ segs[0 + i].ino \in dir'
  BY <1>0, <1>2, Zenon DEF RInv, OpenIsLive, Live
<1>4. \A r \in acked' : \A j \in 1..Len(segs) :
        At(r, j) => j > 0 /\ j <= 0 + Len(segs') /\ segs[j].ino \in dir'
  <2>1. \A j \in 1..Len(segs) : j > 0 /\ j <= 0 + Len(segs')
    BY <1>0, SMTT(20)
  <2> QED BY <1>2, <2>1, Zenon DEF At, Live
<1>5. \A n \in 1..Len(files) : n \in dir' => n \in dir /\ files'[n].frames = files[n].frames
  BY Zenon
<1>6. OpenIsLive' /\ Complete' /\ Sorted'
  BY <1>0, <1>1, <1>3, <1>5, PlacesCarry DEF RInv
<1>7. Kept'
  BY <1>0, <1>1, <1>4, <1>5, KeptCarry DEF RInv
<1> QED BY <1>6, <1>7

\* Outside of a truncation, of a segment that is being created and of a write,
\* the handler has established nothing.
LEMMA PlainControl ==
  ASSUME op'.kind \in {"none", "append"},
         pc' \in {"idle", "down", "admit", "reap", "create", "write", "trim", "trimSync"}
  PROVE  ReadControl' /\ pc' # "truncateSync"
<1>1. \A r \in acked' : ~Cut(r[1])'
  BY DEF Cut
<1> QED BY <1>1 DEF ReadControl, CreateSteps

\* A handler that returns.
LEMMA ReturnControl ==
  ASSUME NEW r, Return(r)
  PROVE  ReadControl' /\ pc' # "truncateSync"
<1>1. op'.kind = "none" /\ pc' \in {"idle", "down"}
  BY DEF Return, NoOp
<1> QED BY <1>1, PlainControl

\* A step of a handler that returns and leaves the segments and the frames of
\* the files alone.
LEMMA ReturnRead ==
  ASSUME IInv, RInv, pc # "truncateSync", segs' = segs, acked' \subseteq acked, dir' = dir,
         \A n \in dir : files'[n].frames = files[n].frames, NEW r, Return(r)
  PROVE  RInv'
<1>1. ReadControl' /\ pc' # "truncateSync"
  BY ReturnControl
<1> QED BY <1>1, QuietCarry DEF RInv

\* A step that changes nothing a reader or the handler sees.
LEMMA UnchangedRead ==
  ASSUME RInv, UNCHANGED <<segs, files, dir, pc, op, acked>>
  PROVE  RInv'
<1>1. Kept' /\ OpenIsLive' /\ Complete' /\ Sorted'
  BY Zenon DEF RInv, Kept, At, Live, Frames, Index, OpenIsLive, Complete, Promised, keepIdx, lastSegment,
     Sorted, StartSequence, NextSequence
<1>2. ReadControl'
  BY Zenon DEF RInv, ReadControl, Cut, BatchWritten, lastSegment, CreateSteps
<1> QED BY <1>1, <1>2 DEF RInv

-----------------------------------------------------------------------------
(***************************************************************************)
(* Sync, and the steps of Append but for the write.                        *)
(***************************************************************************)
\* Sync changes what is on the medium and nothing else.
LEMMA SyncRead ==
  ASSUME RInv, SyncCall \/ SyncStep
  PROVE  RInv'
<1>1. UNCHANGED <<segs, files, dir, pc, op, acked>>
  BY DEF SyncCall, SyncStep, SyncSegment, SyncFails, SyncReturn, FsIdle, FsSync, storageVars
<1> QED BY <1>1, UnchangedRead

\* Append is called: it is turned away, it panics or it goes to admission.
LEMMA AppendCallRead ==
  ASSUME IInv, RInv, NEW b \in Batches, AppendTooLarge(b) \/ AppendCall(b) \/ AppendPanics(b)
  PROVE  RInv'
<1>1. CASE AppendTooLarge(b)
  <2>1. pc # "truncateSync" /\ UNCHANGED <<segs, acked, files, dir>> /\ Return("batchTooLarge")
    BY <1>1 DEF AppendTooLarge, FsIdle, storageVars
  <2> QED BY <2>1, ReturnRead
<1>2. CASE AppendCall(b)
  <2>1. /\ pc # "truncateSync" /\ UNCHANGED <<segs, acked, files, dir>>
        /\ pc' = "admit" /\ op'.kind = "append"
    BY <1>2 DEF AppendCall, FsIdle, storageVars, NoOp
  <2>2. ReadControl' /\ pc' # "truncateSync"
    BY <2>1, PlainControl
  <2> QED BY <2>1, <2>2, QuietCarry DEF RInv
<1>3. CASE AppendPanics(b)
  <2>1. /\ pc # "truncateSync" /\ UNCHANGED <<segs, acked, files, dir, op>>
        /\ pc' = "down"
    BY <1>3 DEF AppendPanics, FsIdle, storageVars
  <2>2. ReadControl'
    BY <2>1 DEF RInv, ReadControl, Cut, CreateSteps
  <2> QED BY <2>1, <2>2, QuietCarry DEF RInv
<1> QED BY <1>1, <1>2, <1>3

\* Admission decides, and changes nothing.
LEMMA AdmitRead ==
  ASSUME IInv, RInv, Admit
  PROVE  RInv'
<1>0. op.kind = "append" /\ pc = "admit"
  BY DEF Admit, IInv, Control, AppendControl, AppendSteps
<1>1. UNCHANGED <<segs, acked, files, dir>>
  BY DEF Admit, FsIdle, storageVars
<1>2. op'.kind \in {"none", "append"} /\ pc' \in {"idle", "down", "reap", "create", "write"}
  <2>1. op \in Op
    BY DEF IInv, TypeOK
  <2>2. [op EXCEPT !.base = nextStartSeq].kind = op.kind
    BY <2>1 DEF Op
  <2>3. \A r : Return(r) => op'.kind = "none" /\ pc' \in {"idle", "down"}
    BY DEF Return, NoOp
  <2> QED BY <1>0, <2>2, <2>3, Zenon DEF Admit, Goto
<1>3. ReadControl' /\ pc' # "truncateSync"
  BY <1>2, PlainControl
<1> QED BY <1>0, <1>1, <1>3, QuietCarry DEF RInv

\* The steps of Append and of the creation of a segment that fail.
LEMMA FailsRead ==
  ASSUME IInv, RInv, ReapFails \/ CreateFileFails \/ SyncNewFails \/ WriteClosed \/ TrimSync \/ TrimFails
  PROVE  RInv'
<1>1. pc # "truncateSync" /\ UNCHANGED <<segs, acked, dir, files>> /\ Return("error")
  BY DEF ReapFails, CreateFileFails, SyncNewFails, WriteClosed, TrimSync, TrimFails, FsIdle, FsSync, storageVars
<1> QED BY <1>1, ReturnRead

\* Reaping takes the oldest segment and gives up its records.
LEMMA ReapRead ==
  ASSUME IInv, RInv, ReapOldest
  PROVE  RInv'
<1>0. pc = "reap" /\ op.kind = "append" /\ Len(segs) > 1
  BY DEF ReapOldest, IInv, Control, AppendControl, AppendSteps
<1>1. /\ segs' = Tail(segs) /\ dir' = dir \ {segs[1].ino} /\ files' = files
      /\ acked' = {r \in acked : r[1] >= NextSequence(segs[1])}
  BY DEF ReapOldest, FsRemove, Retain
<1>2. /\ segs \in Seq(Segment) /\ Len(segs) \in Nat /\ Len(segs') \in Nat /\ Len(segs') + 1 = Len(segs)
      /\ 1 \in Nat /\ Len(segs') + 1 <= Len(segs)
      /\ \A i \in 1..Len(segs') : segs'[i] = segs[1 + i] /\ 1 + i \in 1..Len(segs) /\ 1 + i # 1
  BY <1>0, <1>1, TailFacts, SMTT(20) DEF IInv, TypeOK
<1>3. /\ \A i \in 1..Len(segs') : SameButOpen(segs'[i], segs[1 + i])
      /\ \A i \in 1..Len(segs') : SamePlace(segs'[i], segs[1 + i])
  BY <1>2, Zenon DEF SameButOpen, SamePlace
<1>4. /\ \A n \in 1..Len(files) : n \in dir' => n \in dir /\ files'[n].frames = files[n].frames
      /\ acked' \subseteq acked
  BY <1>1, Zenon
<1>5. \A j \in 1..Len(segs) : j # 1 => segs[j].ino # segs[1].ino
  BY <1>2, OwnFiles, SMTT(20)
<1>6. \A i \in 1..Len(segs') : segs'[i].open => segs[1 + i].open /\ segs[1 + i].ino \in dir'
  BY <1>1, <1>2, <1>5, Zenon DEF RInv, OpenIsLive, Live
<1>7. ASSUME NEW r \in acked', NEW j \in 1..Len(segs), At(r, j)
      PROVE  j > 1 /\ j <= 1 + Len(segs') /\ segs[j].ino \in dir'
  <2>1. r[1] >= NextSequence(segs[1]) /\ r[1] < NextSequence(segs[j])
    BY <1>1, <1>7 DEF At
  <2>2. r \in acked /\ r[1] \in Nat
    BY <1>1 DEF IInv, TypeOK
  <2>3. NextSequence(segs[1]) \in Nat
    BY <1>2, SegmentFacts, SMTT(20)
  <2>4. j # 1
    BY <2>1, <2>2, <2>3
  <2>5. segs[j].ino \in dir'
    BY <1>1, <1>5, <1>7, <2>4, Zenon DEF At, Live
  <2> QED BY <1>2, <2>4, <2>5, SMTT(20)
<1>8. op'.kind \in {"none", "append"} /\ pc' \in {"idle", "down", "admit"}
  BY <1>0 DEF ReapOldest, Return, NoOp, Goto
<1>9. ReadControl' /\ pc' # "truncateSync"
  BY <1>8, PlainControl
<1>10. OpenIsLive' /\ Complete' /\ Sorted'
  <2>1. pc # "truncateSync"
    BY <1>0
  <2> QED BY <2>1, <1>2, <1>3, <1>4, <1>6, <1>9, PlacesCarry, Zenon DEF RInv
<1>11. Kept'
  BY <1>2, <1>3, <1>4, <1>7, KeptCarry, Zenon DEF RInv
<1> QED BY <1>9, <1>10, <1>11 DEF RInv

-----------------------------------------------------------------------------
(***************************************************************************)
(* The creation of a segment.                                              *)
(***************************************************************************)
\* The steps up to the directory sync leave the segments' files alone.
LEMMA CreateRead ==
  ASSUME IInv, RInv, CreateFile \/ WriteHeader \/ WriteHeaderFails \/ SyncHeader
  PROVE  RInv'
<1>0. StorageTypes /\ op \in Op /\ pc \in CreateSteps
  BY TypeParts DEF IInv, HandlerTypes, CreateFile, WriteHeader, WriteHeaderFails, SyncHeader, CreateSteps
<1>1. CASE CreateFile
  <2>1. op.base \in Nat
    BY <1>0 DEF Op
  <2>2. /\ StorageTypes' /\ Len(files') = Len(files) + 1
        /\ \A m \in 1..Len(files) : files'[m] = files[m]
    BY <1>0, <1>1, <2>1, FsCreateFacts DEF CreateFile
  <2>3. /\ dir' = dir \cup {Len(files) + 1} /\ UNCHANGED <<segs, acked, op>>
        /\ pc = "create" /\ pc' = "writeHeader"
    BY <1>1 DEF CreateFile, FsCreate, Goto
  <2>4. Len(files) \in Nat /\ dir \subseteq 1..Len(files)
    BY <1>0 DEF StorageTypes
  <2>5. \A n \in 1..Len(files) : n \in dir' <=> n \in dir
    BY <2>3, <2>4
  <2>6. \A n \in dir : files'[n].frames = files[n].frames
    BY <2>2, <2>4
  <2>7. Len(files') \in dir'
    BY <2>2, <2>3
  <2>8. ReadControl'
    BY <2>3, <2>7 DEF RInv, ReadControl, Cut, CreateSteps
  <2>9. Kept' /\ OpenIsLive' /\ Complete' /\ Sorted'
    BY <2>3, <2>5, <2>6, QuietCarry
  <2> QED BY <2>8, <2>9 DEF RInv
<1>2. ASSUME WriteHeader \/ WriteHeaderFails
      PROVE  /\ \A n \in dir : files'[n].frames = files[n].frames
             /\ Len(files') = Len(files)
  <2>1. Len(files) \in 1..Len(files) /\ files[Len(files)] \in File /\ dir \subseteq 1..Len(files)
    BY <1>0, <1>2 DEF IInv, Control, CreateControl, CreateSteps, WriteHeader, WriteHeaderFails, StorageTypes
  <2>2. \A h \in HdrStates, z \in Nat :
          LET f == [files[Len(files)] EXCEPT !.hdr = h, !.size = z]
          IN f \in File /\ f.frames = files[Len(files)].frames
    BY <2>1, HeaderFacts
  <2>3. "ok" \in HdrStates /\ "torn" \in HdrStates /\ HeaderSize \in Nat /\ HeaderSize - 1 \in Nat
    BY DEF HdrStates, HeaderSize
  <2>4. \/ FsIdle
        \/ \E f \in File : f.frames = files[Len(files)].frames /\ FsWrite(Len(files), f)
    BY <1>2, <2>2, <2>3, Zenon DEF WriteHeader, WriteHeaderFails, NewHeader
  <2>5. CASE FsIdle
    BY <2>5 DEF FsIdle, storageVars
  <2>6. CASE \E f \in File : f.frames = files[Len(files)].frames /\ FsWrite(Len(files), f)
    <3>1. PICK f \in File : f.frames = files[Len(files)].frames /\ FsWrite(Len(files), f)
      BY <2>6
    <3>2. /\ Len(files') = Len(files)
          /\ \A m \in 1..Len(files) : files'[m] = IF m = Len(files) THEN f ELSE files[m]
      BY <1>0, <2>1, <3>1, FsWriteFacts
    <3> QED BY <2>1, <3>1, <3>2
  <2> QED BY <2>4, <2>5, <2>6
<1>3. CASE WriteHeader
  <2>1. /\ UNCHANGED <<segs, acked, op, dir>> /\ pc = "writeHeader" /\ pc' = "syncHeader"
    BY <1>3 DEF WriteHeader, FsWrite, Goto
  <2>2. ReadControl'
    BY <1>2, <1>3, <2>1 DEF RInv, ReadControl, Cut, CreateSteps
  <2>3. Kept' /\ OpenIsLive' /\ Complete' /\ Sorted'
    BY <1>2, <1>3, <2>1, QuietCarry
  <2> QED BY <2>2, <2>3 DEF RInv
<1>4. CASE WriteHeaderFails
  <2>1. /\ UNCHANGED <<segs, acked, dir>> /\ pc # "truncateSync" /\ Return("error")
    BY <1>4 DEF WriteHeaderFails, FsWrite, FsIdle, storageVars
  <2> QED BY <1>2, <1>4, <2>1, ReturnRead
<1>5. CASE SyncHeader
  <2>1. /\ UNCHANGED <<segs, acked, op, dir, files>> /\ pc = "syncHeader" /\ pc' = "syncDir"
    BY <1>5 DEF SyncHeader, FsSync, Goto
  <2>2. ReadControl'
    BY <2>1 DEF RInv, ReadControl, Cut, CreateSteps
  <2>3. Kept' /\ OpenIsLive' /\ Complete' /\ Sorted'
    BY <2>1, QuietCarry
  <2> QED BY <2>2, <2>3 DEF RInv
<1> QED BY <1>1, <1>3, <1>4, <1>5

\* The segment joins the chain behind the last one, without frames.
LEMMA SyncDirectoryRead ==
  ASSUME IInv, RInv, SyncDirectory
  PROVE  RInv'
<1> DEFINE l == Len(segs)
           s == newSegment(Len(files), op.base)
<1>0. /\ pc = "syncDir" /\ StorageTypes /\ op \in Op /\ segs \in Seq(Segment) /\ l \in Nat
  BY TypeParts DEF IInv, HandlerTypes, ChainTypes, SyncDirectory
<1>1. /\ dir' = dir /\ segs' = Append(segs, s) /\ acked' = acked
      /\ \A n \in dir : files'[n] = files[n]
  BY <1>0 DEF SyncDirectory, FsSyncDir, StorageTypes
<1>2. /\ s.ino = Len(files) /\ s.base = op.base /\ s.writeIndex = 0 /\ s.open
  BY DEF newSegment
<1>3. op.base \in Nat /\ Len(files) \in dir
  BY <1>0 DEF Op, RInv, ReadControl, CreateSteps
<1> HIDE DEF s
<1>4. /\ Len(segs') = l + 1 /\ segs'[l + 1] = s
      /\ \A i \in 1..l : segs'[i] = segs[i] /\ i \in 1..(l + 1) /\ i # l + 1
      /\ \A i \in 1..(l + 1) : i # l + 1 => i \in 1..l
  BY <1>0, <1>1
<1> HIDE DEF l
<1>5. op'.kind \in {"none", "append"} /\ pc' \in {"idle", "down", "write"}
  BY DEF SyncDirectory, Return, NoOp, Goto
<1>6. ReadControl' /\ pc' # "truncateSync" /\ pc # "truncateSync"
  BY <1>0, <1>5, PlainControl
<1>7. OpenIsLive'
  <2> SUFFICES ASSUME NEW i \in 1..(l + 1), segs'[i].open
               PROVE  segs'[i].ino \in dir
    BY <1>1, <1>4, Zenon DEF OpenIsLive, Live
  <2>1. CASE i = l + 1
    BY <1>2, <1>3, <1>4, <2>1
  <2>2. CASE i # l + 1
    BY <1>4, <2>2, Zenon DEF RInv, OpenIsLive, Live, l
  <2> QED BY <2>1, <2>2
<1>8. Complete'
  <2> SUFFICES ASSUME NEW i \in 1..(l + 1), segs'[i].ino \in dir
               PROVE  segs'[i].writeIndex <= Len(files'[segs'[i].ino].frames)
    BY <1>1, <1>4, <1>6, Zenon DEF Complete, Promised, Live, Frames
  <2>1. CASE i = l + 1
    <3>1. files[Len(files)] \in File
      BY <1>0, <1>3 DEF StorageTypes
    <3>2. Len(files[Len(files)].frames) \in Nat
      BY <3>1, FileFacts
    <3>3. files'[segs'[i].ino].frames = files[Len(files)].frames /\ segs'[i].writeIndex = 0
      BY <1>1, <1>2, <1>3, <1>4, <2>1, SMTT(20)
    <3> QED BY <3>2, <3>3
  <2>2. CASE i # l + 1
    <3>1. i \in 1..l /\ segs'[i] = segs[i]
      BY <1>4, <2>2
    <3>2. segs[i].writeIndex <= Len(files[segs[i].ino].frames)
      BY <3>1, <1>6, Zenon DEF RInv, Complete, Promised, Live, Frames, l
    <3> QED BY <1>1, <3>1, <3>2
  <2> QED BY <2>1, <2>2
<1>9. Sorted'
  <2> SUFFICES ASSUME NEW i \in 1..(l + 1), NEW j \in 1..(l + 1), i < j
               PROVE  NextSequence(segs'[i]) <= segs'[j].base
    BY <1>4, Zenon DEF Sorted, NextSequence
  <2>1. i \in 1..l /\ segs'[i] = segs[i]
    BY <1>0, <1>4 DEF l
  <2>2. CASE j # l + 1
    <3>1. j \in 1..l /\ segs'[j] = segs[j]
      BY <1>4, <2>2
    <3> QED BY <2>1, <3>1, Zenon DEF RInv, Sorted, l
  <2>3. CASE j = l + 1
    <3>1. segs # <<>>
      BY <1>0, <2>1 DEF l
    <3>2. op.base = NextSequence(segs[l])
      BY <1>0, <3>1 DEF IInv, Control, CreateControl, CreateSteps, lastSegment, l
    <3>3. l \in 1..l
      BY <1>0, <2>1
    <3>4. CASE i = l
      <4>1. NextSequence(segs[l]) \in Nat
        BY <3>3, SegmentFacts DEF l
      <4> QED BY <1>2, <1>4, <2>1, <2>3, <3>2, <3>4, <4>1, SMTT(20)
    <3>5. CASE i # l
      <4>1. i < l
        BY <1>0, <2>1, <3>5
      <4>2. NextSequence(segs[i]) <= segs[l].base
        BY <2>1, <3>3, <4>1 DEF RInv, Sorted, l
      <4>3. segs[l].base \in Nat /\ segs[l].writeIndex \in Nat /\ NextSequence(segs[i]) \in Nat
        BY <2>1, <3>3, SegmentFacts DEF l
      <4>4. NextSequence(segs[i]) <= NextSequence(segs[l])
        BY <4>2, <4>3 DEF NextSequence
      <4> QED BY <1>2, <1>4, <2>1, <2>3, <3>2, <4>4
    <3> QED BY <3>4, <3>5
  <2> QED BY <2>2, <2>3
<1>10. Kept'
  <2> SUFFICES ASSUME NEW r \in acked
               PROVE  \E i \in 1..(l + 1) : At(r, i)'
    BY <1>1, <1>4, Zenon DEF Kept
  <2>1. PICK i \in 1..l : At(r, i)
    BY Zenon DEF RInv, Kept, l
  <2>2. segs'[i] = segs[i] /\ i \in 1..(l + 1)
    BY <1>4
  <2>3. At(r, i)'
    BY <1>1, <2>1, <2>2, Zenon DEF At, Live, Frames, Index
  <2> QED BY <2>2, <2>3
<1> QED BY <1>6, <1>7, <1>8, <1>9, <1>10 DEF RInv

-----------------------------------------------------------------------------
(***************************************************************************)
(* The write of a batch.                                                   *)
(***************************************************************************)
\* A record the last segment has stays there when the segment's file keeps the
\* frames up to it and the segment does not end before it.
LEMMA AtLast ==
  ASSUME IInv, NEW l \in 1..Len(segs), NEW r \in acked, At(r, l), dir' = dir,
         segs'[l].ino = segs[l].ino, segs'[l].base = segs[l].base,
         segs'[l].startIndex = segs[l].startIndex,
         r[1] < NextSequence(segs'[l]),
         NEW m \in Nat, Index(r, l) <= m, NEW G, files'[segs[l].ino].frames = G,
         Len(G) \in Nat, m <= Len(G), \A q \in 1..m : G[q] = Frames(l)[q]
  PROVE  At(r, l)'
<1>1. r[1] \in Nat /\ segs[l].base \in Nat /\ segs[l].startIndex \in Nat
  BY SegmentFacts DEF IInv, TypeOK
<1>2. StartSequence(segs[l]) <= r[1]
  BY DEF At
<1>3. Index(r, l) \in 1..m /\ Index(r, l) <= Len(G)
  BY <1>1, <1>2, SMTT(20) DEF Index, StartSequence
<1>4. G[Index(r, l)].id = r[2]
  BY <1>3 DEF At
<1>5. Index(r, l)' = Index(r, l) /\ StartSequence(segs'[l]) = StartSequence(segs[l])
  BY DEF Index, StartSequence
<1>6. NextSequence(segs'[l]) = NextSequence(segs[l])' /\ StartSequence(segs'[l]) = StartSequence(segs[l])'
  BY DEF NextSequence, StartSequence
<1> QED BY <1>2, <1>3, <1>4, <1>5, <1>6, Zenon DEF At, Live, Frames

\* A write to the last segment's file that leaves the segment's frames alone.
LEMMA OverKeeps ==
  ASSUME IInv, RInv, segs # <<>>, segs' = segs, acked' = acked,
         pc # "truncateSync", pc' # "truncateSync", NEW f \in File, FsWrite(lastSegment.ino, f),
         lastSegment.ino \in dir =>
           /\ lastSegment.writeIndex <= Len(f.frames)
           /\ \A q \in 1..lastSegment.writeIndex : f.frames[q] = files[lastSegment.ino].frames[q]
  PROVE  Kept' /\ OpenIsLive' /\ Complete' /\ Sorted'
<1>0. PICK l \in Nat \ {0} : l = Len(segs)
  BY LastFacts
<1>1. /\ l \in 1..Len(segs) /\ lastSegment = segs[l] /\ dir' = dir
      /\ segs[l].base \in Nat /\ segs[l].writeIndex \in Nat /\ Len(f.frames) \in Nat
  BY <1>0, LastFacts, LastFile, SegmentFacts, FileFacts
<1>2. /\ files'[segs[l].ino] = f
      /\ \A i \in 1..l : i # l => files'[segs[i].ino].frames = files[segs[i].ino].frames
  BY <1>0, LastFile
<1>3. segs'[l].open => Live(l)'
  BY <1>1 DEF RInv, OpenIsLive, Live
<1>4. Live(l)' => Promised(l)' <= Len(Frames(l))'
  BY <1>1, <1>2 DEF Live, Promised, Frames
<1>5. ASSUME NEW r \in acked', At(r, l)
      PROVE  At(r, l)'
  <2>1. /\ r[1] < NextSequence(segs'[l]) /\ lastSegment.ino \in dir /\ r \in acked
    BY <1>1, <1>5 DEF At, Live
  <2>2. r[1] \in Nat
    BY <2>1 DEF IInv, TypeOK
  <2>3. Index(r, l) <= segs[l].writeIndex
    BY <1>1, <2>1, <2>2 DEF Index, NextSequence
  <2>4. \A q \in 1..segs[l].writeIndex : f.frames[q] = Frames(l)[q]
    BY <1>1, <2>1 DEF Frames
  <2> QED BY <1>1, <1>2, <1>5, <2>1, <2>3, <2>4, AtLast
<1>6. \A r \in acked' : At(r, l)' \/ (r \in acked /\ ~At(r, l))
  BY <1>5, Zenon
<1>7. /\ \A i \in 1..l : i # l => segs'[i] = segs[i]
      /\ segs'[l].base = segs[l].base /\ l = Len(segs')
  BY <1>0
<1> QED BY <1>0, <1>1, <1>2, <1>3, <1>4, <1>6, <1>7, LastCarry, Zenon DEF RInv

\* The batch is there: the segment takes it in, and it counts as appended.
LEMMA CommitRead ==
  ASSUME IInv, RInv, segs # <<>>, op.batch \in Batches, lastSegment.open, CommitAppend, dir' = dir,
         \A i \in 1..Len(segs) : i # Len(segs) => files'[segs[i].ino] = files[segs[i].ino],
         NEW G, files'[lastSegment.ino].frames = G,
         HasBatch(G, files[lastSegment.ino].frames, lastSegment.writeIndex, op.id, Len(op.batch))
  PROVE  RInv'
<1> DEFINE n == Len(op.batch)
           new == {<<NextSequence(lastSegment) + i - 1, op.id + i>> : i \in 1..n}
<1>a. /\ Len(G) \in Nat /\ lastSegment.writeIndex + Len(op.batch) <= Len(G)
      /\ \A q \in 1..lastSegment.writeIndex : G[q] = files[lastSegment.ino].frames[q]
      /\ \A i \in 1..Len(op.batch) : G[lastSegment.writeIndex + i].id = op.id + i
  BY Zenon DEF HasBatch
<1>0. PICK l \in Nat \ {0} : l = Len(segs)
  BY LastFacts
<1>1. /\ l \in 1..Len(segs) /\ l \in 1..l /\ lastSegment = segs[l] /\ segs[l] \in Segment
      /\ segs[l].base \in Nat /\ segs[l].writeIndex \in Nat /\ segs[l].startIndex \in Nat
      /\ segs[l].startIndex <= segs[l].writeIndex
  BY <1>0, LastFacts, SegmentFacts
<1>2. n \in Nat /\ op.id \in Nat
  BY BatchFacts DEF IInv, TypeOK, Op
<1>3. /\ MovesLast(segs[l].writeIndex + n, segs[l].writeOffset + AppendSize(op.batch))
      /\ acked' = acked \cup new /\ Return("ok")
  BY <1>0, <1>1 DEF CommitAppend, MovesLast
<1> HIDE DEF n
<1>4. /\ Len(segs') = l /\ \A i \in 1..l : i # l => segs'[i] = segs[i]
      /\ segs'[l] = [segs[l] EXCEPT !.writeIndex = segs[l].writeIndex + n,
                                    !.writeOffset = segs[l].writeOffset + AppendSize(op.batch)]
  <2>1. segs \in Seq(Segment)
    BY DEF IInv, TypeOK
  <2> DEFINE t == [segs[l] EXCEPT !.writeIndex = segs[l].writeIndex + n,
                                  !.writeOffset = segs[l].writeOffset + AppendSize(op.batch)]
  <2>2. segs' = [segs EXCEPT ![l] = t]
    BY <1>0, <1>1, <1>3, <2>1, Zenon DEF MovesLast
  <2> HIDE DEF t
  <2>3. /\ Len(segs') = l /\ \A i \in 1..l : i # l => segs'[i] = segs[i]
        /\ segs'[l] = t
    BY <1>0, <1>1, <2>1, <2>2
  <2> QED BY <2>3 DEF t
<1>5. /\ segs'[l].ino = segs[l].ino /\ segs'[l].base = segs[l].base /\ segs'[l].open = segs[l].open
      /\ segs'[l].startIndex = segs[l].startIndex /\ segs'[l].writeIndex = segs[l].writeIndex + n
  BY <1>1, <1>4 DEF Segment
<1>6. ReadControl' /\ pc' # "truncateSync"
  BY <1>3, ReturnControl
<1>7. segs[l].ino \in dir
  BY <1>1 DEF RInv, OpenIsLive, Live
<1>8. segs'[l].open => Live(l)'
  BY <1>5, <1>7 DEF Live
<1>9. Live(l)' => Promised(l)' <= Len(Frames(l))'
  BY <1>a, <1>1, <1>5, <1>6 DEF Promised, Frames, n
<1>10. ASSUME NEW r \in acked, At(r, l)
       PROVE  At(r, l)'
  <2>1. r[1] < NextSequence(segs[l]) /\ r[1] \in Nat
    BY <1>10 DEF At, IInv, TypeOK
  <2>2. r[1] < NextSequence(segs'[l])
    BY <1>1, <1>2, <1>5, <2>1 DEF NextSequence
  <2>3. Index(r, l) <= segs[l].writeIndex
    BY <1>1, <2>1 DEF Index, NextSequence
  <2>4. segs[l].writeIndex <= Len(G)
    BY <1>a, <1>1, <1>2, SMTT(20) DEF n
  <2>5. \A q \in 1..segs[l].writeIndex : G[q] = Frames(l)[q]
    BY <1>a, <1>1 DEF Frames
  <2>6. segs[l].writeIndex \in Nat /\ l \in 1..Len(segs) /\ Len(G) \in Nat
    BY <1>a, <1>1
  <2>7. files'[segs[l].ino].frames = G
    BY <1>1, Zenon
  <2> QED BY ONLY IInv, dir' = dir, <1>5, <1>10, <2>2, <2>3, <2>4, <2>5, <2>6, <2>7, AtLast, Zenon
<1>11. ASSUME NEW r \in new
       PROVE  At(r, l)'
  <2>1. PICK i \in 1..n : r = <<NextSequence(segs[l]) + i - 1, op.id + i>>
    BY <1>1, <1>11
  <2> HIDE DEF new
  <2>2. r[1] = segs[l].base + segs[l].writeIndex + i - 1 /\ r[2] = op.id + i
    BY <2>1 DEF NextSequence
  <2>3. /\ segs[l].base + segs[l].startIndex <= r[1]
        /\ r[1] < segs[l].base + (segs[l].writeIndex + n)
        /\ r[1] - segs[l].base + 1 = segs[l].writeIndex + i
        /\ segs[l].writeIndex + i <= segs[l].writeIndex + n
    <3>1. i \in 1..n
      OBVIOUS
    <3>2. \A b, w, a, m \in Nat : \A k \in 1..m : a <= w =>
            /\ b + a <= b + w + k - 1 /\ b + w + k - 1 < b + (w + m)
            /\ (b + w + k - 1) - b + 1 = w + k /\ w + k <= w + m
      OBVIOUS
    <3> DEFINE b == segs[l].base
               w == segs[l].writeIndex
    <3>3. /\ b + segs[l].startIndex <= b + w + i - 1 /\ b + w + i - 1 < b + (w + n)
          /\ (b + w + i - 1) - b + 1 = w + i /\ w + i <= w + n
      BY <1>1, <1>2, <3>1, <3>2, Zenon
    <3> QED BY <2>2, <3>3, Zenon
  <2>4. segs[l].writeIndex + i <= Len(G) /\ G[segs[l].writeIndex + i].id = r[2]
    <3>1. i \in 1..n /\ segs[l].writeIndex + n <= Len(G)
      BY <1>a, <1>1 DEF n
    <3>2. segs[l].writeIndex + i <= Len(G)
      BY ONLY <1>1, <1>2, <2>3, <3>1, <1>a, SMTT(30)
    <3> QED BY <1>a, <1>1, <2>2, <3>2, Zenon DEF n
  <2>5. files'[segs'[l].ino].frames = G
    BY <1>1, <1>5
  <2> QED BY <1>5, <1>7, <2>3, <2>4, <2>5, Zenon DEF At, Live, Frames, Index, StartSequence, NextSequence
<1>12. \A r \in acked' : At(r, l)' \/ (r \in acked /\ ~At(r, l))
  BY <1>3, <1>10, <1>11, Zenon
<1>13. \A i \in 1..l : i # l => files'[segs[i].ino].frames = files[segs[i].ino].frames
  BY <1>0
<1>14. l = Len(segs')
  BY <1>4
<1>15. Kept' /\ OpenIsLive' /\ Complete' /\ Sorted'
  BY <1>0, <1>4, <1>5, <1>8, <1>9, <1>12, <1>13, <1>14, LastCarry, Zenon DEF RInv
<1> QED BY <1>6, <1>15 DEF RInv

\* The write of a batch, which stops short or is complete.
LEMMA WriteRead ==
  ASSUME IInv, RInv, WriteBegin \/ WriteEnd
  PROVE  RInv'
<1>0. /\ pc \in {"write", "writing"} /\ op.batch \in Batches /\ segs # <<>> /\ lastSegment.open
      /\ pc # "truncateSync" /\ op.kind = "append"
  BY DEF WriteBegin, WriteEnd, RInv, ReadControl, IInv, Control, AppendControl, AppendSteps
<1>1. lastSegment.writeIndex \in Nat /\ Len(op.batch) \in Nat
  BY <1>0, LastFacts, SegmentFacts, BatchFacts
<1>2. ASSUME NEW j \in 0..Len(op.batch), NEW k \in Nat, FsWrite(lastSegment.ino, WithBatch(j, k)),
             segs' = segs, acked' = acked, pc' # "truncateSync"
      PROVE  Kept' /\ OpenIsLive' /\ Complete' /\ Sorted'
  <2>1. /\ WithBatch(j, k) \in File
        /\ HasBatch(WithBatch(j, k).frames, files[lastSegment.ino].frames,
                    lastSegment.writeIndex, op.id, j)
    BY <1>0, BatchOver
  <2>2. lastSegment.writeIndex <= Len(WithBatch(j, k).frames)
    BY <1>1, <2>1 DEF HasBatch
  <2>3. \A q \in 1..lastSegment.writeIndex : WithBatch(j, k).frames[q] = files[lastSegment.ino].frames[q]
    BY <2>1 DEF HasBatch
  <2> QED BY <1>0, <1>2, <2>1, <2>2, <2>3, OverKeeps, Zenon
<1>3. CASE WriteBegin
  <2>1. /\ UNCHANGED <<segs, acked, op>> /\ pc' = "writing"
        /\ \E j \in 0..(Len(op.batch) - 1) : \E k \in {0} \cup Cuts(FrameSize(op.batch, j + 1)) :
             FsWrite(lastSegment.ino, WithBatch(j, k))
    BY <1>3 DEF WriteBegin, Goto
  <2>2. PICK j \in 0..(Len(op.batch) - 1) : \E k \in {0} \cup Cuts(FrameSize(op.batch, j + 1)) :
          FsWrite(lastSegment.ino, WithBatch(j, k))
    BY <2>1
  <2>3. PICK k \in {0} \cup Cuts(FrameSize(op.batch, j + 1)) :
          FsWrite(lastSegment.ino, WithBatch(j, k))
    BY <2>2
  <2>4. j \in 0..Len(op.batch) /\ k \in Nat
    BY <1>0, CutsFacts
  <2>5. Kept' /\ OpenIsLive' /\ Complete' /\ Sorted'
    BY <1>2, <2>1, <2>3, <2>4
  <2>6. ReadControl'
    BY <1>0, <2>1 DEF ReadControl, Cut, CreateSteps, lastSegment
  <2> QED BY <2>5, <2>6 DEF RInv
<1>4. CASE WriteEnd /\ SyncOnAppend
  <2>1. /\ UNCHANGED <<segs, acked, op>> /\ pc' = "syncAppend"
        /\ FsWrite(lastSegment.ino, WithBatch(Len(op.batch), 0))
    BY <1>4 DEF WriteEnd, Goto
  <2>2. Len(op.batch) \in 0..Len(op.batch) /\ 0 \in Nat
    BY <1>1
  <2>3. Kept' /\ OpenIsLive' /\ Complete' /\ Sorted'
    BY <1>2, <2>1, <2>2
  <2>4. /\ WithBatch(Len(op.batch), 0) \in File
        /\ HasBatch(WithBatch(Len(op.batch), 0).frames, files[lastSegment.ino].frames,
                    lastSegment.writeIndex, op.id, Len(op.batch))
    BY <1>0, <2>2, BatchOver
  <2>5. files'[lastSegment.ino] = WithBatch(Len(op.batch), 0) /\ lastSegment' = lastSegment
    BY <1>0, <2>1, <2>4, LastFile DEF lastSegment
  <2> DEFINE G == WithBatch(Len(op.batch), 0).frames
             w == lastSegment.writeIndex
  <2>6. /\ Len(G) \in Nat /\ w + Len(op.batch) <= Len(G)
        /\ \A i \in 1..Len(op.batch) : G[w + i].id = op.id + i
    BY <2>4, Zenon DEF HasBatch
  <2> HIDE DEF G, w
  <2>7. \A i \in 1..Len(op.batch) : w + i <= Len(G) /\ G[w + i].id = op.id + i
    BY <1>1, <2>6 DEF w
  <2>8. BatchWritten'
    BY <2>1, <2>5, <2>7, Zenon DEF BatchWritten, G, w
  <2>9. ReadControl'
    BY <1>0, <2>1, <2>5, <2>8 DEF ReadControl, Cut, CreateSteps
  <2> QED BY <2>3, <2>9 DEF RInv
<1>5. CASE WriteEnd /\ ~SyncOnAppend
  <2>1. CommitAppend /\ FsWrite(lastSegment.ino, WithBatch(Len(op.batch), 0))
    BY <1>5 DEF WriteEnd
  <2>2. Len(op.batch) \in 0..Len(op.batch) /\ 0 \in Nat
    BY <1>1
  <2>3. /\ WithBatch(Len(op.batch), 0) \in File
        /\ HasBatch(WithBatch(Len(op.batch), 0).frames, files[lastSegment.ino].frames,
                    lastSegment.writeIndex, op.id, Len(op.batch))
    BY <1>0, <2>2, BatchOver
  <2>4. /\ files'[lastSegment.ino] = WithBatch(Len(op.batch), 0) /\ dir' = dir
        /\ \A i \in 1..Len(segs) : i # Len(segs) => files'[segs[i].ino] = files[segs[i].ino]
    BY <1>0, <2>1, <2>3, LastFile DEF lastSegment
  <2> QED BY <1>0, <2>1, <2>3, <2>4, CommitRead, Zenon
<1> QED BY <1>3, <1>4, <1>5

\* The batch is forced out and taken in, or it is not.
LEMMA PersistRead ==
  ASSUME IInv, RInv, SyncAppend \/ PersistFails
  PROVE  RInv'
<1>1. CASE SyncAppend
  <2>1. /\ pc = "syncAppend" /\ op.batch \in Batches /\ segs # <<>> /\ lastSegment.open
        /\ CommitAppend /\ dir' = dir /\ files' = files /\ BatchWritten
    BY <1>1 DEF SyncAppend, FsSync, RInv, ReadControl, IInv, Control, AppendControl, AppendSteps
  <2> DEFINE F == files[lastSegment.ino].frames
             w == lastSegment.writeIndex
             n == Len(op.batch)
  <2>2. w \in Nat /\ n \in Nat /\ n > 0
    BY <2>1, LastFacts, SegmentFacts, BatchFacts
  <2>3. Len(F) \in Nat
    BY <2>1, LastFacts, SegmentFacts, FileFacts
  <2>4. \A i \in 1..n : w + i <= Len(F) /\ F[w + i].id = op.id + i
    BY <2>1 DEF BatchWritten
  <2>5. HasBatch(F, F, w, op.id, n)
    <3> HIDE DEF F, w, n
    <3>1. n \in 1..n
      BY <2>2
    <3>2. w + n <= Len(F)
      BY <2>4, <3>1
    <3>3. Len(F) <= w + n => Len(F) = w + n
      BY <2>2, <2>3, <3>2
    <3> QED BY <2>3, <2>4, <3>2, <3>3, Zenon DEF HasBatch
  <2>6. files'[lastSegment.ino].frames = F
    BY <2>1
  <2> QED BY <2>1, <2>5, <2>6, CommitRead, Zenon
<1>2. CASE PersistFails
  <2>1. /\ pc \in {"writing", "syncAppend"} /\ pc' = "trim"
        /\ UNCHANGED <<op, segs, acked, dir, files>>
    BY <1>2 DEF PersistFails, Goto, FsIdle, storageVars
  <2>2. op.kind = "append"
    BY <2>1 DEF IInv, Control, AppendControl, AppendSteps
  <2>3. ReadControl' /\ pc' # "truncateSync" /\ pc # "truncateSync"
    BY <2>1, <2>2, PlainControl
  <2> QED BY <2>1, <2>3, QuietCarry DEF RInv
<1> QED BY <1>1, <1>2

\* Trim takes off what is behind the segment's end.
LEMMA TrimRead ==
  ASSUME IInv, RInv, Trim
  PROVE  RInv'
<1> DEFINE s == lastSegment
           f == files[s.ino]
           g == Truncated(f, s.writeIndex, s.writeOffset)
<1>1. /\ pc = "trim" /\ pc' = "trimSync" /\ op.kind = "append" /\ segs # <<>>
      /\ UNCHANGED <<op, segs, acked>> /\ FsWrite(s.ino, g)
  BY DEF Trim, Goto, IInv, Control, AppendControl, AppendSteps
<1>2. Len(segs) \in 1..Len(segs) /\ s = segs[Len(segs)]
  BY <1>1, LastFacts
<1>3. f \in File /\ Ordered(f.frames) /\ s.writeIndex \in Nat /\ s.writeOffset \in Nat
  BY <1>2, SegmentFacts
<1>4. g \in File
  BY <1>3, TruncatedFile, Zenon
<1>5. ASSUME s.ino \in dir
      PROVE  s.writeIndex <= Len(g.frames) /\ \A q \in 1..s.writeIndex : g.frames[q] = f.frames[q]
  <2>1. s.writeIndex <= Len(f.frames)
    BY <1>1, <1>2, <1>5 DEF RInv, Complete, Promised, Live, Frames
  <2> HIDE DEF f, s
  <2>2. Len(g.frames) = s.writeIndex /\ \A q \in 1..s.writeIndex : g.frames[q] = f.frames[q]
    BY ONLY <1>3, <2>1, TruncatedFrames, Zenon
  <2> QED BY <1>3, <2>2
<1>6. ReadControl' /\ pc' # "truncateSync" /\ pc # "truncateSync"
  BY <1>1, PlainControl
<1> HIDE DEF g
<1>7. Kept' /\ OpenIsLive' /\ Complete' /\ Sorted'
  BY <1>1, <1>4, <1>5, <1>6, OverKeeps, Zenon
<1> QED BY <1>6, <1>7 DEF RInv

-----------------------------------------------------------------------------
(***************************************************************************)
(* Close, and the truncations.                                             *)
(***************************************************************************)
\* Closing handles takes no record away, and no more than that does removing
\* a file that has none of those still promised.
LEMMA ClosingRead ==
  ASSUME IInv, RInv, pc # "truncateSync", pc' # "truncateSync", UNCHANGED <<files, acked>>,
         Len(segs') = Len(segs),
         \A i \in 1..Len(segs) : SameButOpen(segs'[i], segs[i]),
         \A i \in 1..Len(segs) : segs'[i].open => segs[i].open /\ segs[i].ino \in dir',
         dir' \subseteq dir,
         \A r \in acked : \A j \in 1..Len(segs) : At(r, j) => segs[j].ino \in dir'
  PROVE  Kept' /\ OpenIsLive' /\ Complete' /\ Sorted'
<1>0. Len(segs) \in Nat /\ Len(segs') + 0 <= Len(segs) /\ 0 \in Nat
  BY SMTT(20) DEF IInv, TypeOK
<1>1. \A i \in 1..Len(segs') : 0 + i = i /\ i \in 1..Len(segs) /\ i > 0 /\ i <= 0 + Len(segs')
  BY <1>0
<1>2. /\ \A i \in 1..Len(segs') : SameButOpen(segs'[i], segs[0 + i])
      /\ \A i \in 1..Len(segs') : SamePlace(segs'[i], segs[0 + i])
  BY <1>1, Zenon DEF SameButOpen
<1>3. \A i \in 1..Len(segs') : segs'[i].open => segs[0 + i].open /\ segs[0 + i].ino \in dir'
  BY <1>1, Zenon
<1>4. \A n \in 1..Len(files) : n \in dir' => n \in dir /\ files'[n].frames = files[n].frames
  BY Zenon
<1>5. /\ \A r \in acked' : \A j \in 1..Len(segs) :
           At(r, j) => j > 0 /\ j <= 0 + Len(segs') /\ segs[j].ino \in dir'
      /\ acked' \subseteq acked /\ Len(segs') \in Nat
  BY <1>0, <1>1, Zenon
<1>6. OpenIsLive' /\ Complete' /\ Sorted'
  BY <1>0, <1>2, <1>3, <1>4, <1>5, PlacesCarry, Zenon DEF RInv
<1>7. Kept'
  BY <1>0, <1>2, <1>4, <1>5, KeptCarry, Zenon DEF RInv
<1> QED BY <1>6, <1>7

\* Close closes every handle.
LEMMA CloseRead ==
  ASSUME IInv, RInv, CloseCall
  PROVE  RInv'
<1>1. pc = "idle" /\ UNCHANGED <<pc, op, acked, files, dir>>
  BY DEF CloseCall, FsIdle, storageVars
<1>2. segs' = [i \in 1..Len(segs) |-> [segs[i] EXCEPT !.open = FALSE]]
  BY DEF CloseCall
<1>3. Len(segs) \in Nat /\ \A i \in 1..Len(segs) : segs[i] \in Segment
  BY SMTT(20) DEF IInv, TypeOK
<1>4. Len(segs') = Len(segs)
  BY <1>2, <1>3
<1>5. \A s \in Segment : LET t == [s EXCEPT !.open = FALSE] IN ~t.open /\ SameButOpen(t, s)
  BY DEF Segment, SameButOpen, SamePlace
<1>6. \A i \in 1..Len(segs) : ~segs'[i].open /\ SameButOpen(segs'[i], segs[i])
  BY <1>2, <1>3, <1>5, Zenon
<1>7. \A r \in acked : \A j \in 1..Len(segs) : At(r, j) => segs[j].ino \in dir'
  BY <1>1 DEF At, Live
<1>8. Kept' /\ OpenIsLive' /\ Complete' /\ Sorted'
  BY <1>1, <1>4, <1>6, <1>7, ClosingRead
<1>9. ReadControl'
  BY <1>1 DEF RInv, ReadControl, Cut, CreateSteps
<1> QED BY <1>8, <1>9 DEF RInv

\* A truncation is called: the records it takes away are given up at once.
LEMMA TruncateCallRead ==
  ASSUME IInv, RInv, NEW seq \in TruncateSeqs, TruncateBeforeCall(seq) \/ TruncateAfterCall(seq)
  PROVE  RInv'
<1>0. seq \in Nat /\ segs # <<>> /\ pc = "idle" /\ UNCHANGED <<segs, files, dir>>
  BY InputAssumption DEF TruncateBeforeCall, TruncateAfterCall, FsIdle, storageVars
<1>1. acked' \subseteq acked /\ \A r \in acked' : r[1] \in Nat
  BY DEF TruncateBeforeCall, TruncateAfterCall, Retain, IInv, TypeOK
<1>2. \/ Return("ok")
      \/ \E kind \in Kinds, from, to \in Int :
           /\ Drop(kind, seq, from, to)
           /\ \A r \in acked' :
                /\ kind = "beforeAll" => r[1] >= NextSequence(lastSegment)
                /\ kind = "beforeKeep" => r[1] >= seq
                /\ kind = "afterAll" => r[1] < StartSequence(segs[1])
                /\ kind = "afterKeep" => r[1] <= seq
           /\ kind = "afterKeep" => from = KeepIndex(seq) + 1 /\ KeepIndex(seq) \in Nat
  <2>1. /\ Len(segs) \in Nat /\ NextSequence(lastSegment) \in Nat
        /\ StartSequence(segs[1]) \in Nat /\ KeepIndex(seq) \in Nat
    <3>1. Len(segs) \in 1..Len(segs) /\ 1 \in 1..Len(segs) /\ lastSegment = segs[Len(segs)]
      BY <1>0, LastFacts
    <3>2. Len(segs) \in Nat /\ KeepIndex(seq) \in Nat
      BY <1>0, KeepIndexFacts, SMTT(20) DEF IInv, TypeOK
    <3> QED BY <3>1, <3>2, SegmentFacts
  <2>2. CASE TruncateBeforeCall(seq)
    <3>1. acked' = {r \in acked : r[1] >= seq}
      BY <2>2 DEF TruncateBeforeCall, Retain
    <3>2. \/ Return("ok")
          \/ seq >= NextSequence(lastSegment) /\ Drop("beforeAll", seq, 1, Len(segs) - 1)
          \/ Drop("beforeKeep", seq, 1, KeepIndex(seq) - 1)
      BY <2>2 DEF TruncateBeforeCall
    <3>3. seq >= NextSequence(lastSegment) => \A r \in acked' : r[1] >= NextSequence(lastSegment)
      BY <1>0, <1>1, <2>1, <3>1, SMTT(20)
    <3>4. /\ "beforeAll" \in Kinds /\ "beforeKeep" \in Kinds
          /\ 1 \in Int /\ Len(segs) - 1 \in Int /\ KeepIndex(seq) - 1 \in Int
      BY <2>1 DEF Kinds
    <3> QED BY <3>1, <3>2, <3>3, <3>4, Zenon
  <2>3. CASE TruncateAfterCall(seq)
    <3>1. acked' = {r \in acked : r[1] <= seq}
      BY <2>3 DEF TruncateAfterCall, Retain
    <3>2. \/ Return("ok")
          \/ seq < StartSequence(segs[1]) /\ Drop("afterAll", seq, 1, Len(segs))
          \/ Drop("afterKeep", seq, KeepIndex(seq) + 1, Len(segs))
      BY <2>3 DEF TruncateAfterCall
    <3>3. seq < StartSequence(segs[1]) => \A r \in acked' : r[1] < StartSequence(segs[1])
      BY <1>0, <1>1, <2>1, <3>1, SMTT(20)
    <3>4. /\ "afterAll" \in Kinds /\ "afterKeep" \in Kinds
          /\ 1 \in Int /\ Len(segs) \in Int /\ KeepIndex(seq) + 1 \in Int
      BY <2>1 DEF Kinds
    <3> QED BY <2>1, <3>1, <3>2, <3>3, <3>4, Zenon
  <2> QED BY <2>2, <2>3
<1>3. CASE Return("ok")
  BY <1>0, <1>1, <1>3, ReturnRead
<1>4. ASSUME NEW kind \in Kinds, NEW from \in Int, NEW to \in Int, Drop(kind, seq, from, to),
             \A r \in acked' :
                /\ kind = "beforeAll" => r[1] >= NextSequence(lastSegment)
                /\ kind = "beforeKeep" => r[1] >= seq
                /\ kind = "afterAll" => r[1] < StartSequence(segs[1])
                /\ kind = "afterKeep" => r[1] <= seq,
             kind = "afterKeep" => from = KeepIndex(seq) + 1 /\ KeepIndex(seq) \in Nat
      PROVE  RInv'
  <2>1. /\ pc' = "drop" /\ op'.kind = kind /\ op'.seq = seq /\ op'.i = from
        /\ op'.keep = KeepIndex(seq)
    BY <1>4 DEF Drop, NoOp
  <2>2. Kept' /\ OpenIsLive' /\ Complete' /\ Sorted'
    BY <1>0, <1>1, <2>1, QuietCarry
  <2>3. ASSUME NEW r \in acked'
        PROVE  kind \notin {"beforeAll", "afterAll"}
    <3>1. PICK i \in 1..Len(segs) : At(r, i)
      BY <1>1 DEF RInv, Kept
    <3>2. /\ NextSequence(segs[i]) <= NextSequence(lastSegment)
          /\ StartSequence(segs[1]) <= StartSequence(segs[i])
      BY ChainEnds DEF RInv
    <3>3. r[1] < NextSequence(segs[i]) /\ StartSequence(segs[i]) <= r[1]
      BY <3>1 DEF At
    <3>4. \A j \in 1..Len(segs) : NextSequence(segs[j]) \in Nat /\ StartSequence(segs[j]) \in Nat
      BY SegmentFacts
    <3>5. Len(segs) \in 1..Len(segs) /\ 1 \in 1..Len(segs) /\ lastSegment = segs[Len(segs)]
      BY <1>0, LastFacts
    <3>6. r[1] < NextSequence(lastSegment) /\ StartSequence(segs[1]) <= r[1]
      BY <1>1, <3>2, <3>3, <3>4, <3>5
    <3>7. NextSequence(lastSegment) \in Nat /\ StartSequence(segs[1]) \in Nat /\ r[1] \in Nat
      BY <1>1, <3>4, <3>5
    <3> QED BY <1>4, <3>6, <3>7
  <2>4. \A r \in acked' : ~Cut(r[1])'
    <3> SUFFICES ASSUME NEW r \in acked'
                 PROVE  ~Cut(r[1])'
      OBVIOUS
    <3>1. r[1] \in Nat
      BY <1>1
    <3> QED BY <1>0, <1>4, <2>1, <2>3, <3>1 DEF Cut
  <2>5. ReadControl'
    BY <1>4, <2>1, <2>4 DEF ReadControl, CreateSteps
  <2> QED BY <2>2, <2>5 DEF RInv
<1> QED BY <1>2, <1>3, <1>4

\* No record still promised is in a segment that the loop takes away.
LEMMA Spared ==
  ASSUME IInv, RInv, pc = "drop", NEW r \in acked, NEW j \in 1..Len(segs), At(r, j)
  PROVE  /\ op.kind \in {"beforeKeep", "afterKeep"}
         /\ op.kind = "beforeKeep" => j > op.n
         /\ op.kind = "afterKeep" => j <= op.keep
<1>0. /\ r[1] \in Nat /\ op.seq \in Nat /\ op.n \in Nat /\ Len(segs) \in Nat
      /\ op.kind \in {"beforeAll", "beforeKeep", "afterAll", "afterKeep"}
      /\ op.kind = "beforeKeep" => op.n + 1 \in 1..Len(segs) /\ Holds(segs[op.n + 1], op.seq)
      /\ op.kind = "afterKeep" => op.keep \in 1..Len(segs) /\ Holds(segs[op.keep], op.seq)
  BY DropFacts DEF IInv, TypeOK
<1>1. ~Cut(r[1])
  BY DEF RInv, ReadControl
<1>2. \A i \in 1..Len(segs) : /\ segs[i].base \in Nat /\ segs[i].startIndex \in Nat
                              /\ NextSequence(segs[i]) \in Nat
                              /\ StartSequence(segs[i]) = segs[i].base + segs[i].startIndex
  BY SegmentFacts DEF StartSequence
<1>3. StartSequence(segs[j]) <= r[1] /\ r[1] < NextSequence(segs[j])
  BY DEF At
<1>4. ASSUME op.kind = "beforeKeep", ~(j > op.n)
      PROVE  FALSE
  <2> DEFINE k == op.n + 1
  <2>1. k \in 1..Len(segs) /\ j < k
    BY <1>0, <1>4
  <2>2. NextSequence(segs[j]) <= segs[k].base
    BY <2>1 DEF RInv, Sorted
  <2>3. StartSequence(segs[k]) <= op.seq
    BY <1>0, <1>4 DEF Holds
  <2>4. r[1] >= op.seq
    BY <1>0, <1>1, <1>4 DEF Cut
  <2>5. /\ segs[k].base \in Nat /\ segs[k].startIndex \in Nat /\ NextSequence(segs[j]) \in Nat
        /\ StartSequence(segs[k]) = segs[k].base + segs[k].startIndex /\ r[1] \in Nat /\ op.seq \in Nat
    BY <1>0, <1>2, <2>1
  <2> HIDE DEF k
  <2> QED BY ONLY <1>3, <2>2, <2>3, <2>4, <2>5, SMTT(30)
<1>5. ASSUME op.kind = "afterKeep", ~(j <= op.keep)
      PROVE  FALSE
  <2>1. op.keep \in 1..Len(segs) /\ op.keep < j
    BY <1>0, <1>5
  <2>2. NextSequence(segs[op.keep]) <= segs[j].base
    BY <2>1 DEF RInv, Sorted
  <2>3. op.seq < NextSequence(segs[op.keep])
    BY <1>0, <1>5 DEF Holds
  <2>4. r[1] <= op.seq
    BY <1>0, <1>1, <1>5 DEF Cut
  <2>5. /\ segs[j].base \in Nat /\ segs[j].startIndex \in Nat /\ NextSequence(segs[op.keep]) \in Nat
        /\ StartSequence(segs[j]) = segs[j].base + segs[j].startIndex /\ r[1] \in Nat /\ op.seq \in Nat
    BY <1>0, <1>2, <2>1
  <2> QED BY ONLY <1>3, <2>2, <2>3, <2>4, <2>5
<1> QED BY <1>0, <1>1, <1>4, <1>5 DEF Cut

\* A truncation loop closes and removes segments.
LEMMA DropRead ==
  ASSUME IInv, RInv, DropSegment \/ DropFails
  PROVE  RInv'
<1>0. /\ pc = "drop" /\ op.i <= op.n /\ Closes(op.i) /\ UNCHANGED <<acked, files>>
  BY DEF DropSegment, DropFails, Closes, FsIdle, FsRemove, storageVars
<1>1. op.i \in 1..Len(segs) /\ op \in Op /\ op.i \in Nat
  BY <1>0, DropFacts
<1>2. /\ Len(segs') = Len(segs)
      /\ \A i \in 1..Len(segs) : SameButOpen(segs'[i], segs[i])
      /\ \A i \in 1..Len(segs) : i # op.i => segs'[i] = segs[i]
      /\ ~segs'[op.i].open
  BY <1>0, <1>1, ClosedFacts
<1>3. CASE DropFails
  <2>1. dir' = dir /\ Return("error")
    BY <1>3 DEF DropFails, FsIdle, storageVars
  <2>2. ReadControl' /\ pc' # "truncateSync" /\ pc # "truncateSync"
    BY <1>0, <2>1, ReturnControl
  <2>3. \A i \in 1..Len(segs) : segs'[i].open => segs[i].open /\ segs[i].ino \in dir'
    BY <1>2, <2>1, Zenon DEF RInv, OpenIsLive, Live
  <2>4. dir' \subseteq dir /\ \A r \in acked : \A j \in 1..Len(segs) : At(r, j) => segs[j].ino \in dir'
    BY <2>1, Zenon DEF At, Live
  <2>5. Kept' /\ OpenIsLive' /\ Complete' /\ Sorted'
    BY <1>0, <1>2, <2>2, <2>3, <2>4, ClosingRead, Zenon
  <2> QED BY <2>2, <2>5 DEF RInv
<1>4. CASE DropSegment
  <2>1. /\ dir' = dir \ {segs[op.i].ino} /\ pc' = pc /\ op' = [op EXCEPT !.i = @ + 1]
    BY <1>4 DEF DropSegment, FsRemove
  <2>2. \A j \in 1..Len(segs) : j # op.i => segs[j].ino # segs[op.i].ino
    BY <1>1, OwnFiles
  <2>3. \A i \in 1..Len(segs) : segs'[i].open => segs[i].open /\ segs[i].ino \in dir'
    BY <1>2, <2>1, <2>2, Zenon DEF RInv, OpenIsLive, Live
  <2>4. ASSUME NEW r \in acked, NEW j \in 1..Len(segs), At(r, j)
        PROVE  segs[j].ino \in dir'
    <3>1. /\ op.kind \in {"beforeKeep", "afterKeep"}
          /\ op.kind = "beforeKeep" => j > op.n
          /\ op.kind = "afterKeep" => j <= op.keep
      BY <1>0, <2>4, Spared
    <3>2. op.kind = "afterKeep" => op.i > op.keep /\ op.keep \in 1..Len(segs)
      BY <1>0, DropFacts DEF RInv, ReadControl
    <3>3. op.n \in Nat
      BY <1>0, DropFacts
    <3>4. j # op.i
      BY <1>0, <1>1, <3>1, <3>2, <3>3
    <3> QED BY <2>1, <2>2, <2>4, <3>4 DEF At, Live
  <2>5. pc # "truncateSync" /\ pc' # "truncateSync" /\ dir' \subseteq dir
    BY <1>0, <2>1
  <2>6. Kept' /\ OpenIsLive' /\ Complete' /\ Sorted'
    BY <1>0, <1>2, <2>3, <2>4, <2>5, ClosingRead, Zenon
  <2>7. op'.kind = op.kind /\ op'.seq = op.seq /\ op'.keep = op.keep /\ op'.i = op.i + 1
    BY <1>1, <2>1 DEF Op
  <2>8. op.kind = "afterKeep" => op'.i > op'.keep
    <3>1. op.kind = "afterKeep" => op.i > op.keep /\ op.keep \in Nat
      BY <1>0, DropFacts DEF RInv, ReadControl
    <3> QED BY <1>1, <2>7, <3>1
  <2>9. ReadControl'
    BY <1>0, <2>1, <2>7, <2>8 DEF RInv, ReadControl, Cut, CreateSteps
  <2> QED BY <2>6, <2>9 DEF RInv
<1> QED BY <1>3, <1>4

\* Cutting the chain to the segments a to b, which have all records still
\* promised.
LEMMA CuttingRead ==
  ASSUME IInv, RInv, pc # "truncateSync", pc' # "truncateSync", UNCHANGED <<files, dir, acked>>,
         NEW a \in 1..Len(segs), NEW b \in a..Len(segs), CutTo(a, b),
         \A r \in acked : \A j \in 1..Len(segs) : At(r, j) => a <= j /\ j <= b
  PROVE  Kept' /\ OpenIsLive' /\ Complete' /\ Sorted'
<1> DEFINE d == a - 1
<1>1. Len(segs) \in Nat /\ d \in Nat
  BY SMTT(20) DEF IInv, TypeOK
<1>2. /\ Len(segs') = b - a + 1
      /\ \A i \in 1..Len(segs') : segs'[i] = segs[d + i]
  BY CutFacts
<1>3. Len(segs') \in Nat /\ Len(segs') + d <= Len(segs)
  BY <1>1, <1>2
<1>4. \A i \in 1..Len(segs') : d + i \in 1..Len(segs)
  BY <1>1, <1>2, SMTT(20)
<1>5. \A r \in acked' : \A j \in 1..Len(segs) :
        At(r, j) => j > d /\ j <= d + Len(segs') /\ segs[j].ino \in dir'
  <2>1. \A j \in 1..Len(segs) : a <= j /\ j <= b => j > d /\ j <= d + Len(segs')
    BY <1>1, <1>2, SMTT(20)
  <2> QED BY <2>1, Zenon DEF At, Live
<1> HIDE DEF d
<1>6. /\ \A i \in 1..Len(segs') : SameButOpen(segs'[i], segs[d + i])
      /\ \A i \in 1..Len(segs') : SamePlace(segs'[i], segs[d + i])
  BY <1>2, Zenon DEF SameButOpen, SamePlace
<1>7. \A i \in 1..Len(segs') : segs'[i].open => segs[d + i].open /\ segs[d + i].ino \in dir'
  BY <1>2, <1>4, Zenon DEF RInv, OpenIsLive, Live
<1>8. /\ \A n \in 1..Len(files) : n \in dir' => n \in dir /\ files'[n].frames = files[n].frames
      /\ acked' \subseteq acked
  BY Zenon
<1>9. OpenIsLive' /\ Complete' /\ Sorted'
  BY <1>1, <1>3, <1>6, <1>7, <1>8, PlacesCarry, Zenon DEF RInv
<1>10. Kept'
  BY <1>1, <1>3, <1>5, <1>6, <1>8, KeptCarry, Zenon DEF RInv
<1> QED BY <1>9, <1>10

\* The loop is done.
LEMMA DropDoneRead ==
  ASSUME IInv, RInv, DropDone
  PROVE  RInv'
<1>0. pc = "drop" /\ op.i > op.n /\ UNCHANGED <<acked, files, dir>>
  BY DEF DropDone, FsIdle, storageVars
<1>1. /\ segs # <<>> /\ op \in Op /\ Len(segs) \in Nat /\ op.i \in Nat /\ op.n \in Nat /\ op.seq \in Nat
      /\ op.i = op.n + 1 /\ Len(segs) \in 1..Len(segs)
  BY <1>0, DropFacts, LastFacts, SMTT(20)
<1>2. \A r \in acked : ~Cut(r[1])
  BY DEF RInv, ReadControl
<1>3. CASE op.kind = "beforeAll"
  <2>1. /\ pc' = "setRead" /\ segs' = segs
        /\ op' = [op EXCEPT !.i = Len(segs), !.n = lastSegment.writeIndex]
    BY <1>3 DEF DropDone
  <2>2. op'.kind = op.kind
    BY <1>1, <2>1 DEF Op
  <2>3. ReadControl'
    BY <1>0, <1>2, <1>3, <2>1, <2>2 DEF ReadControl, Cut, CreateSteps
  <2>4. Kept' /\ OpenIsLive' /\ Complete' /\ Sorted'
    BY <1>0, <2>1, QuietCarry
  <2> QED BY <2>3, <2>4 DEF RInv
<1>4. CASE op.kind = "beforeKeep"
  <2>1. /\ op.i \in 1..Len(segs) /\ Holds(segs[op.i], op.seq) /\ Len(segs) \in op.i..Len(segs)
    BY <1>0, <1>1, <1>4, DropFacts
  <2>2. CutTo(op.i, Len(segs))
    BY <1>4 DEF DropDone, CutTo
  <2>3. \A r \in acked : \A j \in 1..Len(segs) : At(r, j) => op.i <= j /\ j <= Len(segs)
    BY <1>0, <1>1, <1>4, Spared
  <2>4. \/ pc' = "setRead" /\ op' = [op EXCEPT !.i = 1, !.n = readIndex]
        \/ Return("ok")
    BY <1>4 DEF DropDone
  <2>5. CASE Return("ok")
    <3>1. ReadControl' /\ pc' # "truncateSync" /\ pc # "truncateSync"
      BY <1>0, <2>5, ReturnControl
    <3>2. Kept' /\ OpenIsLive' /\ Complete' /\ Sorted'
      BY <1>0, <2>1, <2>2, <2>3, <3>1, CuttingRead
    <3> QED BY <3>1, <3>2 DEF RInv
  <2>6. CASE pc' = "setRead" /\ op' = [op EXCEPT !.i = 1, !.n = readIndex]
    <3>1. Kept' /\ OpenIsLive' /\ Complete' /\ Sorted'
      BY <1>0, <2>1, <2>2, <2>3, <2>6, CuttingRead
    <3>2. op'.kind = op.kind /\ op'.seq = op.seq /\ op'.n = op.seq - segs[op.i].base
      BY <1>1, <2>6 DEF Op, readIndex
    <3>3. segs'[1] = segs[op.i]
      <4>1. Len(segs') = Len(segs) - op.i + 1 /\ \A i \in 1..Len(segs') : segs'[i] = segs[(op.i - 1) + i]
        BY <1>0, <2>1, <2>2, CutFacts
      <4>2. 1 \in 1..Len(segs') /\ (op.i - 1) + 1 = op.i
        BY <1>1, <2>1, <4>1
      <4> QED BY <4>1, <4>2
    <3>4. segs'[1].base + op'.n <= op'.seq
      <4>1. segs[op.i].base \in Nat
        BY <2>1, SegmentFacts
      <4> QED BY <1>1, <3>2, <3>3, <4>1
    <3>5. ReadControl'
      BY <1>0, <1>2, <1>4, <2>6, <3>2, <3>4 DEF ReadControl, Cut, CreateSteps
    <3> QED BY <3>1, <3>5 DEF RInv
  <2> QED BY <2>4, <2>5, <2>6
<1>5. CASE op.kind = "afterAll"
  <2>1. segs' = <<>> /\ pc' = "create" /\ op' = [op EXCEPT !.base = StartSeq]
    BY <1>5 DEF DropDone
  <2>2. op'.kind = op.kind /\ acked' = {} /\ Len(segs') = 0
    BY <1>0, <1>1, <1>2, <1>5, <2>1 DEF Op, Cut
  <2>3. ReadControl'
    BY <2>1, <2>2 DEF ReadControl, CreateSteps
  <2>4. 1..Len(segs') = {}
    BY <2>2
  <2>5. Kept' /\ OpenIsLive' /\ Complete' /\ Sorted'
    BY <2>2, <2>4 DEF Kept, OpenIsLive, Complete, Sorted
  <2> QED BY <2>3, <2>5 DEF RInv
<1>6. CASE op.kind = "afterKeep"
  <2>1. op.keep \in 1..Len(segs) /\ 1 \in 1..Len(segs) /\ op.keep \in 1..Len(segs)
    BY <1>0, <1>1, <1>6, DropFacts
  <2>2. CutTo(1, op.keep) /\ pc' = "truncate" /\ op' = op
    BY <1>6 DEF DropDone, CutTo, Goto
  <2>3. \A r \in acked : \A j \in 1..Len(segs) : At(r, j) => 1 <= j /\ j <= op.keep
    BY <1>0, <1>1, <1>6, Spared
  <2>4. Kept' /\ OpenIsLive' /\ Complete' /\ Sorted'
    BY <1>0, <2>1, <2>2, <2>3, CuttingRead
  <2>5. ReadControl'
    BY <1>0, <1>2, <1>6, <2>2 DEF ReadControl, Cut, CreateSteps
  <2> QED BY <2>4, <2>5 DEF RInv
<1> QED BY <1>0, <1>3, <1>4, <1>5, <1>6, DropFacts

\* SetReadOffset touches no frame, and moves the read start past records that
\* are not promised any more.
LEMMA SetReadRead ==
  ASSUME IInv, RInv, SetRead \/ SetReadSync \/ SetReadFails
  PROVE  RInv'
<1>0. pc \in {"setRead", "setReadSync"} /\ acked' = acked /\ dir' = dir
  BY DEF SetRead, SetReadSync, SetReadFails, FsWrite, FsSync, FsIdle, storageVars
<1>1. /\ op.i \in 1..Len(segs) /\ op.n \in Nat /\ op.seq \in Nat /\ Len(segs) \in Nat
      /\ \/ op.kind = "beforeAll" /\ op.i = Len(segs)
         \/ op.kind = "beforeKeep" /\ op.i = 1
  BY <1>0, SMTT(20) DEF IInv, TypeOK, Op, Control, CutControl
<1>2. /\ \A r \in acked : ~Cut(r[1])
      /\ op.kind = "beforeKeep" => segs[1].base + op.n <= op.seq
  BY <1>0 DEF RInv, ReadControl
<1>3. CASE SetReadFails
  <2>1. segs' = segs /\ files' = files /\ Return("error") /\ pc # "truncateSync"
    BY <1>0, <1>3 DEF SetReadFails, FsIdle, storageVars
  <2> QED BY <1>0, <2>1, ReturnRead
<1>4. CASE SetRead
  <2> DEFINE f == [files[segs[op.i].ino] EXCEPT !.meta = op.n]
  <2>1. FsWrite(segs[op.i].ino, f) /\ pc' = "setReadSync" /\ UNCHANGED <<segs, op>>
    BY <1>4 DEF SetRead, Goto
  <2>2. segs[op.i].ino \in 1..Len(files) /\ files[segs[op.i].ino] \in File
    BY <1>1, SegmentFacts
  <2>3. f \in File /\ f.frames = files[segs[op.i].ino].frames
    BY <1>1, <2>2, ZenonT(30) DEF File
  <2> HIDE DEF f
  <2>4. \A m \in 1..Len(files) : files'[m] = IF m = segs[op.i].ino THEN f ELSE files[m]
    BY <2>1, <2>2, <2>3, TypeParts, FsWriteFacts DEF IInv
  <2>5. \A m \in dir : files'[m].frames = files[m].frames
    <3>1. dir \subseteq 1..Len(files)
      BY DEF IInv, TypeOK
    <3> QED BY <2>3, <2>4, <3>1, Zenon
  <2>6. Kept' /\ OpenIsLive' /\ Complete' /\ Sorted'
    BY <1>0, <2>1, <2>5, QuietCarry
  <2>7. ReadControl'
    BY <1>0, <1>1, <1>2, <2>1 DEF ReadControl, Cut, CreateSteps
  <2> QED BY <2>6, <2>7 DEF RInv
<1>5. CASE SetReadSync
  <2> DEFINE a == op.i - 1
             t == [segs[op.i] EXCEPT !.startIndex = op.n]
  <2>1. files' = files /\ Return("ok")
    BY <1>5 DEF SetReadSync, FsSync
  <2>2. ReadControl' /\ pc' # "truncateSync" /\ pc # "truncateSync"
    BY <1>0, <2>1, ReturnControl
  <2>3. /\ segs' \in Seq(Segment) /\ Len(segs') = Len(segs) - op.i + 1
        /\ segs'[1] = t
        /\ \A i \in 2..Len(segs') : segs'[i] = segs[a + i]
    BY <1>5, ReadMoved
  <2>4. /\ t.ino = segs[op.i].ino /\ t.base = segs[op.i].base /\ t.open = segs[op.i].open
        /\ t.writeIndex = segs[op.i].writeIndex /\ t.writeOffset = segs[op.i].writeOffset
        /\ t.startIndex = op.n
    BY <1>1, SegmentFacts, Zenon DEF Segment
  <2> HIDE DEF t
  <2>a. \A q \in Nat : \A e \in 1..q : \A m \in Nat : m = q - e + 1 =>
          /\ e - 1 \in Nat /\ m + (e - 1) <= q /\ (e - 1) + 1 = e
          /\ \A i \in 1..m : (i = 1 \/ i \in 2..m) /\ (e - 1) + i \in 1..q
    BY SMTT(20)
  <2>b. Len(segs') \in Nat
    BY <2>3
  <2>5. a \in Nat /\ Len(segs') \in Nat /\ Len(segs') + a <= Len(segs) /\ a + 1 = op.i
    BY <1>1, <2>3, <2>a, <2>b, Zenon
  <2>6. \A i \in 1..Len(segs') : (i = 1 \/ i \in 2..Len(segs')) /\ a + i \in 1..Len(segs)
    BY <1>1, <2>3, <2>a, <2>b, Zenon
  <2> HIDE DEF a
  <2>7. ASSUME NEW i \in 1..Len(segs')
        PROVE  SamePlace(segs'[i], segs[a + i]) /\ segs'[i].open = segs[a + i].open
    BY <2>3, <2>4, <2>5, <2>6, Zenon DEF SamePlace
  <2>8. \A i \in 1..Len(segs') : SamePlace(segs'[i], segs[a + i])
    BY <2>7, Zenon
  <2>9. \A i \in 1..Len(segs') : segs'[i].open => segs[a + i].open /\ segs[a + i].ino \in dir'
    BY <1>0, <2>6, <2>7, Zenon DEF RInv, OpenIsLive, Live
  <2>10. \A n \in 1..Len(files) : n \in dir' => n \in dir /\ files'[n].frames = files[n].frames
    BY <1>0, <2>1, Zenon
  <2>11. OpenIsLive' /\ Complete' /\ Sorted'
    BY <2>2, <2>5, <2>8, <2>9, <2>10, PlacesCarry, Zenon DEF RInv
  <2>12. Kept'
    <3>1. CASE op.kind = "beforeAll"
      <4>1. acked' = {}
        BY <1>0, <1>2, <3>1 DEF Cut
      <4> QED BY <4>1, Zenon DEF Kept
    <3>2. CASE op.kind = "beforeKeep"
      <4>1. op.i = 1 /\ a = 0 /\ Len(segs') = Len(segs) /\ \A i \in 2..Len(segs') : a + i = i
        BY <1>1, <2>3, <2>5, <3>2, SMTT(20)
      <4> SUFFICES ASSUME NEW r \in acked
                   PROVE  \E i \in 1..Len(segs') : At(r, i)'
        BY <1>0, Zenon DEF Kept
      <4>2. PICK j \in 1..Len(segs) : At(r, j)
        BY Zenon DEF RInv, Kept
      <4>3. r[1] >= op.seq /\ r[1] \in Nat /\ segs[1].base \in Nat
        <5>1. ~Cut(r[1]) /\ r[1] \in Nat
          BY <1>2 DEF IInv, TypeOK
        <5> QED BY <1>1, <3>2, <5>1, <4>1, SegmentFacts DEF Cut
      <4>4. CASE j = 1
        <5>1. segs'[1].base + segs'[1].startIndex <= r[1]
          <6>1. segs[1].base + op.n <= r[1]
            BY <1>1, <1>2, <3>2, <4>3, SMTT(20)
          <6> QED BY <2>3, <2>4, <4>1, <6>1
        <5>2. /\ segs'[1].base = segs[1].base /\ segs'[1].ino = segs[1].ino
              /\ segs'[1].writeIndex = segs[1].writeIndex
          BY <2>3, <2>4, <4>1
        <5>3. At(r, 1)'
          BY <1>0, <2>1, <4>2, <4>4, <5>1, <5>2, Zenon
             DEF At, Live, Frames, Index, StartSequence, NextSequence
        <5> QED BY <4>1, <4>4, <5>3
      <4>5. CASE j # 1
        <5>1. segs'[j] = segs[j]
          <6>1. j \in 2..Len(segs')
            BY <4>1, <4>5
          <6> QED BY <2>3, <4>1, <6>1
        <5>2. At(r, j)'
          BY <1>0, <2>1, <4>2, <5>1, Zenon
             DEF At, Live, Frames, Index, StartSequence, NextSequence
        <5> QED BY <4>1, <5>2
      <4> QED BY <4>4, <4>5
    <3> QED BY <1>1, <3>1, <3>2
  <2> QED BY <2>2, <2>11, <2>12 DEF RInv
<1> QED BY <1>3, <1>4, <1>5

\* TruncateAfter cuts the last segment behind the records still promised.  A cut
\* that could not be forced out would leave the segment promising more than its
\* file has: the next Append would write behind a hole.
LEMMA TruncateRead ==
  ASSUME "truncateSync" \notin Faulty, IInv, RInv, TruncateFile \/ TruncateSync \/ TruncateFails
  PROVE  RInv'
<1>0. pc \in {"truncate", "truncateSync"} /\ acked' = acked /\ dir' = dir
  BY DEF TruncateFile, TruncateSync, TruncateFails, FsWrite, FsSync, FsIdle, storageVars
<1>1. /\ segs # <<>> /\ Holds(lastSegment, op.seq) /\ op.kind = "afterKeep" /\ op.seq \in Nat
      /\ op \in Op
  BY <1>0 DEF IInv, TypeOK, Op, Control, CutControl, RInv, ReadControl
<1>2. PICK l \in Nat \ {0} : l = Len(segs)
  BY <1>1, LastFacts
<1>3. l \in 1..Len(segs) /\ lastSegment = segs[l]
  BY <1>1, <1>2, LastFacts
<1> DEFINE f == files[segs[l].ino]
           k == keepIdx
<1>4. /\ k \in Nat /\ k <= segs[l].writeIndex /\ k = op.seq + 1 - segs[l].base
  BY <1>1, <1>3, KeepIdxFacts DEF keepIdx
<1>5. /\ segs[l].base \in Nat /\ segs[l].writeIndex \in Nat /\ f \in File /\ Ordered(f.frames)
      /\ Len(f.frames) \in Nat
  BY <1>3, SegmentFacts, FileFacts
<1>6. \A r \in acked : r[1] \in Nat /\ r[1] <= op.seq
  <2>1. \A r \in acked : ~Cut(r[1]) /\ r[1] \in Nat
    BY DEF RInv, ReadControl, IInv, TypeOK
  <2> QED BY <1>1, <2>1 DEF Cut
<1>7. \A r \in acked : Index(r, l) <= k
  <2>1. \A q, e, b, x \in Nat : q <= e /\ x = e + 1 - b => q - b + 1 <= x
    BY SMTT(20)
  <2> HIDE DEF k, f
  <2>2. ASSUME NEW r \in acked
        PROVE  r[1] - segs[l].base + 1 <= k
    <3>1. r[1] \in Nat /\ r[1] <= op.seq
      BY <1>6, Zenon
    <3> QED BY <1>1, <1>4, <1>5, <2>1, <3>1, ZenonT(40)
  <2> QED BY <2>2, Zenon DEF Index
<1>8. CASE TruncateFails
  <2>1. pc # "truncateSync" /\ segs' = segs /\ files' = files /\ Return("error")
    BY <1>0, <1>8 DEF TruncateFails, Fault, FsIdle, storageVars
  <2> QED BY <1>0, <2>1, ReturnRead
<1>9. CASE TruncateFile
  <2>1. PICK off \in keepOffsets :
             FsWrite(lastSegment.ino, Truncated(f, k, off)) /\ op' = [op EXCEPT !.n = off]
    BY <1>3, <1>9, Zenon DEF TruncateFile
  <2>2. pc = "truncate" /\ pc' = "truncateSync" /\ segs' = segs /\ lastSegment.open
    BY <1>9 DEF TruncateFile
  <2>3. off \in Nat
    BY <1>1, KeepOffsetFacts
  <2>4. op'.kind = op.kind /\ op'.seq = op.seq
    BY <1>1, <2>1 DEF Op
  <2>5. segs[l].ino \in dir /\ k <= Len(f.frames)
    <3>1. Live(l)
      BY <1>3, <2>2 DEF RInv, OpenIsLive
    <3>2. segs[l].writeIndex <= Len(f.frames)
      BY <1>3, <2>2, <3>1, Zenon DEF RInv, Complete, Promised, Frames
    <3> QED BY <1>4, <1>5, <3>1, <3>2 DEF Live
  <2> DEFINE g == Truncated(f, k, off)
  <2> HIDE DEF f, k
  <2>6. g \in File
    BY <1>4, <1>5, <2>3, TruncatedFile, Zenon
  <2>7. Len(g.frames) = k /\ \A q \in 1..k : g.frames[q] = f.frames[q]
    <3>1. f \in File /\ k \in Nat /\ k <= Len(f.frames) /\ off \in Nat
      BY <1>4, <1>5, <2>3, <2>5
    <3> QED BY ONLY <3>1, TruncatedFrames
  <2>8. FsWrite(lastSegment.ino, g)
    BY <2>1
  <2> HIDE DEF g
  <2>9. /\ files'[segs[l].ino] = g
        /\ \A i \in 1..l : i # l => files'[segs[i].ino].frames = files[segs[i].ino].frames
    BY <1>1, <1>2, <2>6, <2>8, LastFile
  <2>10. keepIdx' = k
    BY <2>2, <2>4 DEF k, keepIdx, lastSegment
  <2>11. Live(l)' => Promised(l)' <= Len(Frames(l))'
    <3>1. Promised(l)' = k
      BY <1>2, <2>2, <2>10 DEF Promised
    <3>2. Frames(l)' = g.frames
      BY <2>2, <2>9 DEF Frames
    <3> QED BY <1>4, <2>7, <3>1, <3>2
  <2>12. segs'[l].open => Live(l)'
    BY <1>0, <2>2, <2>5 DEF Live
  <2>13. ASSUME NEW r \in acked, At(r, l)
         PROVE  At(r, l)'
    <3>1. r[1] < NextSequence(segs'[l])
      BY <2>2, <2>13 DEF At
    <3>2. Len(g.frames) \in Nat /\ k <= Len(g.frames) /\ \A q \in 1..k : g.frames[q] = Frames(l)[q]
      BY <1>4, <2>7 DEF Frames, f
    <3>3. files'[segs[l].ino].frames = g.frames /\ Index(r, l) <= k
      BY <1>7, <2>9
    <3> QED BY <1>0, <1>3, <1>4, <2>2, <2>13, <3>1, <3>2, <3>3, AtLast
  <2>14. \A r \in acked' : At(r, l)' \/ (r \in acked /\ ~At(r, l))
    BY <1>0, <2>13, Zenon
  <2>15. /\ \A i \in 1..l : i # l => segs'[i] = segs[i]
         /\ segs'[l].base = segs[l].base /\ l = Len(segs')
    BY <1>2, <2>2
  <2>16. Kept' /\ OpenIsLive' /\ Complete' /\ Sorted'
    BY <1>0, <1>2, <2>9, <2>11, <2>12, <2>14, <2>15, LastCarry, Zenon DEF RInv
  <2>17. ReadControl'
    <3>1. \A r \in acked' : ~Cut(r[1])'
      BY <1>0, <2>4 DEF RInv, ReadControl, Cut
    <3>2. lastSegment'.open
      BY <2>2 DEF lastSegment
    <3> QED BY <1>1, <2>2, <2>4, <3>1, <3>2 DEF ReadControl, CreateSteps
  <2> QED BY <2>16, <2>17 DEF RInv
<1>10. CASE TruncateSync
  <2>1. pc = "truncateSync" /\ files' = files /\ MovesLast(k, op.n) /\ Return("ok") /\ lastSegment.open
    BY <1>10 DEF TruncateSync, FsSync, MovesLast, RInv, ReadControl
  <2>2. ReadControl' /\ pc' # "truncateSync"
    BY <2>1, ReturnControl
  <2>3. segs[l].ino \in dir /\ k <= Len(f.frames)
    <3>1. Live(l)
      BY <1>3, <2>1 DEF RInv, OpenIsLive
    <3>2. Promised(l) = k
      BY <1>2, <2>1 DEF Promised
    <3> QED BY <1>3, <3>1, <3>2, Zenon DEF RInv, Complete, Frames, Live
  <2> DEFINE t == [segs[l] EXCEPT !.writeIndex = k, !.writeOffset = op.n]
  <2> HIDE DEF k
  <2>4. /\ t \in Segment /\ t.ino = segs[l].ino /\ t.base = segs[l].base /\ t.writeIndex = k
        /\ t.startIndex = segs[l].startIndex /\ t.open = segs[l].open
    <3>1. segs[l] \in Segment /\ op.n \in Nat
      BY <1>1, <1>3, SegmentFacts DEF Op
    <3>2. t \in Segment
      BY <1>4, <3>1, MovedFacts
    <3> QED BY <3>1, <3>2 DEF Segment
  <2>5. segs \in Seq(Segment)
    BY DEF IInv, TypeOK
  <2>6. segs' = [segs EXCEPT ![l] = t]
    BY <1>2, <1>3, <2>1, <2>5, Zenon DEF MovesLast
  <2> HIDE DEF t
  <2>7. /\ Len(segs') = l /\ segs'[l] = t
        /\ \A i \in 1..l : i # l => segs'[i] = segs[i]
    BY <1>2, <1>3, <2>4, <2>5, <2>6, SMTT(20)
  <2>8. segs'[l].open => Live(l)'
    BY <1>0, <2>3, <2>4, <2>7 DEF Live
  <2>9. Live(l)' => Promised(l)' <= Len(Frames(l))'
    BY <2>1, <2>2, <2>3, <2>4, <2>7 DEF Promised, Frames
  <2>10. ASSUME NEW r \in acked, At(r, l)
         PROVE  At(r, l)'
    <3>1. NextSequence(segs'[l]) = segs[l].base + k
      BY <2>4, <2>7 DEF NextSequence
    <3>2. r[1] < NextSequence(segs'[l])
      <4>1. \A q, e, b, x \in Nat : q <= e /\ x = e + 1 - b => q < b + x
        OBVIOUS
      <4> QED BY <1>1, <1>4, <1>5, <1>6, <3>1, <4>1, ZenonT(40)
    <3>3. Len(f.frames) \in Nat /\ k <= Len(f.frames) /\ \A q \in 1..k : f.frames[q] = Frames(l)[q]
      BY <1>5, <2>3 DEF Frames
    <3>4. files'[segs[l].ino].frames = f.frames /\ Index(r, l) <= k
      BY <1>7, <2>1
    <3>5. /\ segs'[l].ino = segs[l].ino /\ segs'[l].base = segs[l].base
          /\ segs'[l].startIndex = segs[l].startIndex
      BY <2>4, <2>7
    <3> QED BY <1>0, <1>3, <1>4, <2>10, <3>2, <3>3, <3>4, <3>5, AtLast
  <2>11. \A r \in acked' : At(r, l)' \/ (r \in acked /\ ~At(r, l))
    BY <1>0, <2>10, Zenon
  <2>12. /\ \A i \in 1..l : i # l => files'[segs[i].ino].frames = files[segs[i].ino].frames
         /\ segs'[l].base = segs[l].base /\ l = Len(segs')
    BY <2>1, <2>4, <2>7
  <2>13. Kept' /\ OpenIsLive' /\ Complete' /\ Sorted'
    BY <1>0, <1>2, <2>7, <2>8, <2>9, <2>11, <2>12, LastCarry, Zenon DEF RInv
  <2> QED BY <2>2, <2>13 DEF RInv
<1> QED BY <1>8, <1>9, <1>10

\* The chain that Load has created holds no record.
LEMMA InitRead == Init => RInv
<1> SUFFICES ASSUME Init PROVE RInv
  OBVIOUS
<1>1. /\ acked = {} /\ pc = "idle" /\ Len(segs) = 1 /\ segs[1].ino = 1 /\ segs[1].writeIndex = 0
      /\ dir = {1} /\ files[1].frames = <<>>
  BY DEF Init, newSegment, NewHeader, EmptyFile
<1>2. Kept /\ ReadControl
  BY <1>1 DEF Kept, ReadControl, CreateSteps
<1>3. OpenIsLive /\ Complete /\ Sorted
  BY <1>1 DEF OpenIsLive, Complete, Sorted, Live, Promised, Frames
<1> QED BY <1>2, <1>3 DEF RInv

\* Every step of every handler keeps what it says.
LEMMA NextRead ==
  ASSUME "truncateSync" \notin Faulty
  PROVE  IInv /\ RInv /\ [Next]_vars => RInv'
<1> SUFFICES ASSUME IInv, RInv, [Next]_vars PROVE RInv'
  OBVIOUS
<1>1. CASE Call
  BY <1>1, AppendCallRead, TruncateCallRead, SyncRead, CloseRead DEF Call
<1>2. CASE Append_
  BY <1>2, AdmitRead, ReapRead, FailsRead, WriteRead, PersistRead, TrimRead DEF Append_
<1>3. CASE Create_
  BY <1>3, CreateRead, FailsRead, SyncDirectoryRead DEF Create_
<1>4. CASE Truncate_
  BY <1>4, DropRead, DropDoneRead, SetReadRead, TruncateRead DEF Truncate_
<1>5. CASE SyncStep
  BY <1>5, SyncRead
<1>6. CASE UNCHANGED vars
  <2>1. UNCHANGED <<segs, files, dir, pc, op, acked>>
    BY <1>6 DEF vars, chainVars, storageVars
  <2> QED BY <2>1, UnchangedRead
<1> QED BY <1>1, <1>2, <1>3, <1>4, <1>5, <1>6 DEF Next, Step

\* A record that a segment has is one that a scan of it delivers.
LEMMA ScanFinds ==
  ASSUME IInv, RInv
  PROVE  acked \subseteq Visible
<1> SUFFICES ASSUME NEW r \in acked PROVE r \in Visible
  OBVIOUS
<1>1. PICK i \in 1..Len(segs) : At(r, i)
  BY DEF RInv, Kept
<1>2. /\ r \in Nat \X Nat /\ segs[i].base \in Nat /\ segs[i].startIndex \in Nat
      /\ files[segs[i].ino] \in File
  BY SegmentFacts DEF IInv, TypeOK
<1> DEFINE k == Index(r, i)
           F == files[segs[i].ino].frames
<1>3. Len(F) \in Nat
  BY <1>2, FileFacts
<1>4. \A q, b, e, n \in Nat : b + e <= q /\ q - b + 1 <= n =>
        q - b + 1 \in (e + 1)..n /\ b + (q - b + 1) - 1 = q
  OBVIOUS
<1>5. r[1] \in Nat /\ r = <<r[1], r[2]>>
  BY <1>2
<1>6. segs[i].base + segs[i].startIndex <= r[1] /\ r[1] - segs[i].base + 1 <= Len(F)
  BY <1>1 DEF At, StartSequence, Index, Frames
<1>7. k \in (segs[i].startIndex + 1)..Len(F) /\ segs[i].base + k - 1 = r[1]
  <2> HIDE DEF F
  <2> QED BY <1>2, <1>3, <1>4, <1>5, <1>6, Zenon DEF Index
<1>8. F[k].id = r[2]
  BY <1>1 DEF At, Frames
<1> HIDE DEF k
<1>9. r \in Scan(i)
  BY <1>5, <1>7, <1>8, Zenon DEF Scan
<1>10. segs[i].ino \in dir
  BY <1>1 DEF At, Live
<1> QED BY <1>9, <1>10 DEF Visible

=============================================================================

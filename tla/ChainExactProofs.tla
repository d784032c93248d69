-------------------------- MODULE ChainExactProofs --------------------------
(***************************************************************************)
(* What a reader of the chain never finds: a record whose Append did not   *)
(* succeed, or one already removed.  The invariant, on top of those of     *)
(* ChainFacts, and the proofs that every step of every handler keeps it as *)
(* long as no call fails that leaves a record the caller was not promised. *)
(***************************************************************************)
EXTENDS ChainFacts

\* A leaf with no prover named may take each prover this long (in seconds).
USE ZenonT(20), SMTT(40)

(***************************************************************************)
(* The invariant behind NothingElseReadable.                               *)
(***************************************************************************)
\* The calls whose failure leaves behind what the handler meant to take away.
LeavingCalls == {"close", "remove", "trim", "setRead", "setReadSync", "truncate", "truncateSync"}

Cutting == {"drop", "setRead", "setReadSync"}

\* Every handle is open, but for the ones the truncation under way has closed.
AllOpen ==
  \A i \in 1..Len(segs) :
    \/ segs[i].open
    \/ ~Live(i) /\ pc \in Cutting /\ i < op.i /\ (op.kind = "afterKeep" => i > op.keep)

\* Where the last segment's file and the segment may end in different places.
Uneven == {"writing", "syncAppend", "trim", "truncateSync"}

\* The file of segment i ends where the segment does.
Ends(i) ==
  IF i = Len(segs) /\ pc \in Uneven
  THEN /\ pc = "writing" => Len(Frames(i)) < segs[i].writeIndex + Len(op.batch)
       /\ pc = "syncAppend" => Len(Frames(i)) = segs[i].writeIndex + Len(op.batch)
       /\ pc = "truncateSync" => Len(Frames(i)) = keepIdx
  ELSE Len(Frames(i)) = segs[i].writeIndex

\* Each of its frames carries a record still promised, or one that the
\* truncation under way takes away.
Owed(i) ==
  \A k \in (segs[i].startIndex + 1)..segs[i].writeIndex :
    k <= Len(Frames(i)) =>
      \/ Cut(segs[i].base + k - 1)
      \/ <<segs[i].base + k - 1, Frames(i)[k].id>> \in acked

Exact == \A i \in 1..Len(segs) : Live(i) => Ends(i) /\ Owed(i)

\* What the handler has established by the time it is at pc.
ExactControl ==
  /\ pc = "idle" => op.kind = "none"
  /\ pc \in CreateSteps \ {"create"} => files[Len(files)].frames = <<>>
  /\ pc \in {"setRead", "setReadSync"} =>
       /\ segs[op.i].startIndex <= op.n
       /\ IF op.kind = "beforeAll" THEN op.n = segs[op.i].writeIndex ELSE segs[1].base + op.n = op.seq

EInv == AllOpen /\ Exact /\ ExactControl

-----------------------------------------------------------------------------
(***************************************************************************)
(* Steps in general.                                                       *)
(***************************************************************************)
\* The step neither spares sequence number q nor gives up a record with it,
\* unless it goes on to take it away.
Passes(q) ==
  /\ Cut(q) => Cut(q)'
  /\ \A x : <<q, x>> \in acked => Cut(q)' \/ <<q, x>> \in acked'

\* Taking segments off either end and moving read starts forward keeps every
\* frame accounted for.
LEMMA ExactCarry ==
  ASSUME IInv, Exact, pc \notin Uneven, pc' \notin Uneven,
         NEW a \in Nat, Len(segs') \in Nat, Len(segs') + a <= Len(segs),
         \A i \in 1..Len(segs') : SamePlace(segs'[i], segs[a + i]),
         \A i \in 1..Len(segs') :
           segs'[i].startIndex \in Nat /\ segs[a + i].startIndex <= segs'[i].startIndex,
         \A n \in 1..Len(files) : n \in dir' => n \in dir /\ files'[n].frames = files[n].frames,
         \A i \in 1..Len(segs') : \A q \in Nat :
           StartSequence(segs'[i]) <= q /\ q < NextSequence(segs'[i]) => Passes(q)
  PROVE  Exact'
<1> SUFFICES ASSUME NEW i \in 1..Len(segs'), Live(i)'
             PROVE  Ends(i)' /\ Owed(i)'
  BY Zenon DEF Exact
<1>1. PICK j : j = a + i
  OBVIOUS
<1>2. j \in 1..Len(segs)
  BY <1>1, SMTT(20) DEF IInv, TypeOK
<1>3. /\ segs'[i].ino = segs[j].ino /\ segs'[i].base = segs[j].base
      /\ segs'[i].writeIndex = segs[j].writeIndex
      /\ segs'[i].startIndex \in Nat /\ segs[j].startIndex <= segs'[i].startIndex
  BY <1>1, Zenon DEF SamePlace
<1>4. /\ segs[j].ino \in 1..Len(files) /\ segs[j].base \in Nat /\ segs[j].writeIndex \in Nat
      /\ segs[j].startIndex \in Nat
  BY <1>2, SegmentFacts
<1>5. Live(j) /\ Frames(i)' = Frames(j)
  BY <1>3, <1>4, Zenon DEF Live, Frames
<1>6. Ends(j) /\ Owed(j)
  BY <1>2, <1>5, Zenon DEF Exact
<1>7. Ends(i)'
  BY <1>3, <1>5, <1>6, Zenon DEF Ends
<1>8. Owed(i)'
  <2> SUFFICES ASSUME NEW k \in (segs'[i].startIndex + 1)..segs'[i].writeIndex, k <= Len(Frames(j)),
                      NEW q, q = segs'[i].base + k - 1
               PROVE  Cut(q)' \/ <<q, Frames(j)[k].id>> \in acked'
    BY <1>5, Zenon DEF Owed, Cut
  <2>1. q = segs[j].base + k - 1
    BY <1>3
  <2>2. PICK b \in Nat : b = segs[j].base
    BY <1>4
  <2>3. PICK s \in Nat, t \in Nat, w \in Nat :
          s = segs[j].startIndex /\ t = segs'[i].startIndex /\ w = segs[j].writeIndex
    BY <1>3, <1>4
  <2>a. s <= t /\ k \in (t + 1)..w /\ q = b + k - 1
    BY <1>3, <2>1, <2>2, <2>3
  <2>b. k \in (s + 1)..w /\ q \in Nat /\ b + t <= q /\ q < b + w
    BY ONLY <2>a, b \in Nat, s \in Nat, t \in Nat, w \in Nat
  <2>4. Cut(q) \/ <<q, Frames(j)[k].id>> \in acked
    BY <1>6, <2>1, <2>3, <2>b, Zenon DEF Owed
  <2>5. Passes(q)
    <3>1. StartSequence(segs'[i]) = b + t /\ NextSequence(segs'[i]) = b + w
      BY <1>3, <2>2, <2>3 DEF StartSequence, NextSequence
    <3> QED BY <2>b, <3>1
  <2> QED BY <1>3, <2>1, <2>4, <2>5, Zenon DEF Passes
<1> QED BY <1>7, <1>8

\* A step that leaves the segments and the frames of their files alone.
LEMMA QuietExact ==
  ASSUME IInv, Exact, pc \notin Uneven, pc' \notin Uneven, segs' = segs,
         \A n \in 1..Len(files) : n \in dir' => n \in dir /\ files'[n].frames = files[n].frames,
         \A i \in 1..Len(segs) : \A q \in Nat :
           StartSequence(segs[i]) <= q /\ q < NextSequence(segs[i]) => Passes(q)
  PROVE  Exact'
<1>1. /\ 0 \in Nat /\ Len(segs') \in Nat /\ Len(segs') + 0 <= Len(segs)
      /\ \A i \in 1..Len(segs') : 0 + i = i
  BY SMTT(20) DEF IInv, TypeOK
<1>2. \A i \in 1..Len(segs') : SamePlace(segs'[i], segs[0 + i])
  BY <1>1, Zenon DEF SamePlace
<1>3. \A i \in 1..Len(segs') :
        segs'[i].startIndex \in Nat /\ segs[0 + i].startIndex <= segs'[i].startIndex
  <2>1. \A i \in 1..Len(segs) : segs[i].startIndex \in Nat
    BY SegmentFacts
  <2>2. \A i \in 1..Len(segs) : segs[i].startIndex <= segs[i].startIndex
    BY <2>1
  <2> QED BY <1>1, <2>1, <2>2, Zenon
<1>4. \A i \in 1..Len(segs') : \A q \in Nat :
        StartSequence(segs'[i]) <= q /\ q < NextSequence(segs'[i]) => Passes(q)
  BY Zenon
<1> QED BY <1>1, <1>2, <1>3, <1>4, ExactCarry, Zenon

\* A step of Append, or of the creation of the first segment of a chain that
\* has been truncated away, that leaves all of that alone.
LEMMA PlainExact ==
  ASSUME IInv, EInv, pc \notin Uneven \cup Cutting, pc' \notin Uneven \cup Cutting,
         segs' = segs, acked' = acked, segs = <<>> \/ op.kind \in {"none", "append"},
         \A n \in 1..Len(files) : n \in dir' => n \in dir /\ files'[n].frames = files[n].frames
  PROVE  AllOpen' /\ Exact'
<1>1. AllOpen'
  BY Zenon DEF EInv, AllOpen
<1>2. CASE segs = <<>>
  <2>1. 1..Len(segs') = {}
    BY <1>2
  <2> QED BY <1>1, <2>1 DEF Exact
<1>3. CASE op.kind \in {"none", "append"}
  <2>1. \A i \in 1..Len(segs) : \A q \in Nat :
          StartSequence(segs[i]) <= q /\ q < NextSequence(segs[i]) => Passes(q)
    BY <1>3 DEF Passes, Cut
  <2>2. pc \notin Uneven /\ pc' \notin Uneven /\ Exact
    BY DEF EInv
  <2> QED BY <1>1, <2>1, <2>2, QuietExact, Zenon
<1> QED BY <1>2, <1>3

\* The same when the step returns.
LEMMA ReturnExact ==
  ASSUME IInv, EInv, pc \notin Uneven \cup Cutting,
         segs' = segs, acked' = acked, segs = <<>> \/ op.kind \in {"none", "append"},
         \A n \in 1..Len(files) : n \in dir' => n \in dir /\ files'[n].frames = files[n].frames,
         NEW r, Return(r)
  PROVE  EInv'
<1>1. op'.kind = "none" /\ pc' \in {"idle", "down"}
  BY DEF Return, NoOp
<1>2. ExactControl' /\ pc' \notin Uneven \cup Cutting
  BY <1>1 DEF ExactControl, CreateSteps, Uneven, Cutting
<1> QED BY <1>2, PlainExact DEF EInv

\* A step that changes nothing a reader or the handler sees.
LEMMA UnchangedExact ==
  ASSUME EInv, UNCHANGED <<segs, files, dir, pc, op, acked>>
  PROVE  EInv'
<1>1. AllOpen' /\ ExactControl'
  BY Zenon DEF EInv, AllOpen, Live, ExactControl
<1>2. Exact'
  BY ZenonT(40) DEF EInv, Exact, Live, Ends, Owed, Frames, keepIdx, lastSegment, Cut
<1> QED BY <1>1, <1>2 DEF EInv

-----------------------------------------------------------------------------
(***************************************************************************)
(* Sync, and the steps of Append but for the write.                        *)
(***************************************************************************)
\* Sync changes what is on the medium and nothing else.
LEMMA SyncExact ==
  ASSUME EInv, SyncCall \/ SyncStep
  PROVE  EInv'
<1>1. UNCHANGED <<segs, files, dir, pc, op, acked>>
  BY DEF SyncCall, SyncStep, SyncSegment, SyncFails, SyncReturn, FsIdle, FsSync, storageVars
<1> QED BY <1>1, UnchangedExact

\* Append is called.
LEMMA AppendCallExact ==
  ASSUME IInv, EInv, NEW b \in Batches, AppendTooLarge(b) \/ AppendCall(b) \/ AppendPanics(b)
  PROVE  EInv'
<1>0. /\ pc = "idle" /\ pc \notin Uneven \cup Cutting /\ op.kind = "none"
      /\ UNCHANGED <<segs, acked, files, dir>>
  BY DEF AppendTooLarge, AppendCall, AppendPanics, FsIdle, storageVars, EInv, ExactControl, Uneven, Cutting
<1>1. CASE AppendTooLarge(b)
  <2>1. Return("batchTooLarge")
    BY <1>1 DEF AppendTooLarge
  <2> QED BY <1>0, <2>1, ReturnExact
<1>2. CASE AppendCall(b) \/ AppendPanics(b)
  <2>1. pc' \in {"admit", "down"} /\ pc' \notin Uneven \cup Cutting
    BY <1>2 DEF AppendCall, AppendPanics, Uneven, Cutting
  <2>2. ExactControl'
    BY <2>1 DEF ExactControl, CreateSteps
  <2> QED BY <1>0, <2>1, <2>2, PlainExact DEF EInv
<1> QED BY <1>1, <1>2

\* Admission decides, and changes nothing.
LEMMA AdmitExact ==
  ASSUME IInv, EInv, Admit
  PROVE  EInv'
<1>0. /\ op.kind = "append" /\ pc \notin Uneven \cup Cutting
      /\ UNCHANGED <<segs, acked, files, dir>>
  BY DEF Admit, FsIdle, storageVars, IInv, Control, AppendControl, AppendSteps, Uneven, Cutting
<1>1. (\E r : Return(r)) \/ pc' \in {"reap", "create", "write"}
  BY Zenon DEF Admit, Goto
<1>2. CASE \E r : Return(r)
  BY <1>0, <1>2, ReturnExact
<1>3. CASE pc' \in {"reap", "create", "write"}
  <2>1. ExactControl' /\ pc' \notin Uneven \cup Cutting
    BY <1>3 DEF ExactControl, CreateSteps, Uneven, Cutting
  <2> QED BY <1>0, <2>1, PlainExact DEF EInv
<1> QED BY <1>1, <1>2, <1>3

\* The steps of Append and of the creation of a segment that fail.
LEMMA FailsExact ==
  ASSUME Faulty \cap LeavingCalls = {}, IInv, EInv,
         ReapFails \/ CreateFileFails \/ SyncNewFails \/ WriteClosed \/ TrimSync \/ TrimFails
  PROVE  EInv'
<1>1. /\ pc \notin Uneven \cup Cutting /\ UNCHANGED <<segs, acked, dir, files>> /\ Return("error")
      /\ pc \in AppendSteps \cup CreateSteps
  BY DEF ReapFails, CreateFileFails, SyncNewFails, WriteClosed, TrimSync, TrimFails, FsIdle, FsSync,
     storageVars, Uneven, Cutting, LeavingCalls, AppendSteps, CreateSteps
<1>2. segs = <<>> \/ op.kind \in {"none", "append"}
  BY <1>1 DEF IInv, Control, AppendControl, CreateControl
<1> QED BY <1>1, <1>2, ReturnExact

\* Reaping takes the oldest segment and gives up its records.
LEMMA ReapExact ==
  ASSUME IInv, RInv, EInv, ReapOldest
  PROVE  EInv'
<1>0. pc = "reap" /\ op.kind = "append" /\ Len(segs) > 1
  BY DEF ReapOldest, IInv, Control, AppendControl, AppendSteps
<1>1. /\ segs' = Tail(segs) /\ dir' = dir \ {segs[1].ino} /\ files' = files
      /\ acked' = {r \in acked : r[1] >= NextSequence(segs[1])}
  BY DEF ReapOldest, FsRemove, Retain
<1>2. /\ segs \in Seq(Segment) /\ Len(segs) \in Nat /\ Len(segs') \in Nat /\ Len(segs') + 1 = Len(segs)
      /\ 1 \in Nat /\ Len(segs') + 1 <= Len(segs)
      /\ \A i \in 1..Len(segs') : segs'[i] = segs[1 + i] /\ 1 + i \in 1..Len(segs) /\ 1 < 1 + i
  BY <1>0, <1>1, TailFacts, SMTT(20) DEF IInv, TypeOK
<1>3. \A i \in 1..Len(segs') : SamePlace(segs'[i], segs[1 + i])
  BY <1>2, Zenon DEF SamePlace
<1>4. \A i \in 1..Len(segs') :
        segs'[i].startIndex \in Nat /\ segs[1 + i].startIndex <= segs'[i].startIndex
  <2>1. \A i \in 1..Len(segs) : segs[i].startIndex \in Nat
    BY SegmentFacts
  <2>2. \A i \in 1..Len(segs) : segs[i].startIndex <= segs[i].startIndex
    BY <2>1
  <2> QED BY <1>2, <2>1, <2>2, Zenon
<1>5. \A n \in 1..Len(files) : n \in dir' => n \in dir /\ files'[n].frames = files[n].frames
  BY <1>1, Zenon
<1>6. (pc' = "admit" \/ (pc' \in {"idle", "down"} /\ op'.kind = "none")) /\ pc' \notin Uneven /\ pc \notin Uneven
  BY <1>0 DEF ReapOldest, Return, NoOp, Goto, Uneven
<1>7. ASSUME NEW i \in 1..Len(segs'), NEW q \in Nat,
             StartSequence(segs'[i]) <= q, q < NextSequence(segs'[i])
      PROVE  Passes(q)
  <2>1. ~Cut(q)
    BY <1>0 DEF Cut
  <2>2. 1 \in 1..Len(segs) /\ NextSequence(segs[1]) <= segs[1 + i].base
    BY <1>0, <1>2, SMTT(20) DEF RInv, Sorted
  <2>3. /\ NextSequence(segs[1]) \in Nat /\ segs[1 + i].base \in Nat /\ segs[1 + i].startIndex \in Nat
    BY <1>2, <2>2, SegmentFacts
  <2>4. segs[1 + i].base + segs[1 + i].startIndex <= q
    BY <1>2, <1>7 DEF StartSequence
  <2>5. q >= NextSequence(segs[1])
    BY ONLY <2>2, <2>3, <2>4, q \in Nat, SMTT(30)
  <2> QED BY <1>1, <2>1, <2>5 DEF Passes
<1>8. Exact'
  <2>1. Exact
    BY DEF EInv
  <2> QED BY <1>2, <1>3, <1>4, <1>5, <1>6, <1>7, <2>1, ExactCarry, Zenon
<1>9. AllOpen'
  <2>1. \A i \in 1..Len(segs) : segs[i].open
    BY <1>0 DEF EInv, AllOpen, Cutting
  <2> QED BY <1>2, <2>1, Zenon DEF AllOpen
<1>10. ExactControl'
  BY <1>6 DEF ExactControl, CreateSteps
<1> QED BY <1>8, <1>9, <1>10 DEF EInv

-----------------------------------------------------------------------------
(***************************************************************************)
(* The creation of a segment.                                              *)
(***************************************************************************)
\* A header, or a part of it, leaves the frames of every file alone.
LEMMA HeaderKeeps ==
  ASSUME IInv, WriteHeader \/ WriteHeaderFails
  PROVE  /\ Len(files') = Len(files) /\ Len(files) \in 1..Len(files)
         /\ \A n \in 1..Len(files) : files'[n].frames = files[n].frames
<1>1. StorageTypes /\ Len(files) \in 1..Len(files) /\ files[Len(files)] \in File
  <2>1. StorageTypes
    BY TypeParts DEF IInv
  <2> QED BY <2>1 DEF IInv, Control, CreateControl, CreateSteps, WriteHeader, WriteHeaderFails, StorageTypes
<1>2. \A h \in HdrStates, z \in Nat :
        LET f == [files[Len(files)] EXCEPT !.hdr = h, !.size = z]
        IN f \in File /\ f.frames = files[Len(files)].frames
  BY <1>1, HeaderFacts
<1>3. "ok" \in HdrStates /\ "torn" \in HdrStates /\ HeaderSize \in Nat /\ HeaderSize - 1 \in Nat
  BY DEF HdrStates, HeaderSize
<1>4. \/ FsIdle
      \/ \E f \in File : f.frames = files[Len(files)].frames /\ FsWrite(Len(files), f)
  BY <1>2, <1>3, Zenon DEF WriteHeader, WriteHeaderFails, NewHeader
<1>5. CASE FsIdle
  BY <1>1, <1>5 DEF FsIdle, storageVars
<1>6. ASSUME NEW f \in File, f.frames = files[Len(files)].frames, FsWrite(Len(files), f)
      PROVE  Len(files') = Len(files) /\ \A n \in 1..Len(files) : files'[n].frames = files[n].frames
  <2>1. /\ Len(files') = Len(files)
        /\ \A m \in 1..Len(files) : files'[m] = IF m = Len(files) THEN f ELSE files[m]
    BY <1>1, <1>6, FsWriteFacts
  <2> QED BY <1>6, <2>1
<1> QED BY <1>1, <1>4, <1>5, <1>6

\* The steps up to the directory sync leave the segments' files alone.
LEMMA CreateExact ==
  ASSUME IInv, EInv, CreateFile \/ WriteHeader \/ WriteHeaderFails \/ SyncHeader
  PROVE  EInv'
<1>0. /\ StorageTypes /\ op \in Op /\ pc \in CreateSteps /\ pc \notin Uneven \cup Cutting
      /\ UNCHANGED <<segs, acked>>
  BY TypeParts DEF IInv, HandlerTypes, CreateFile, WriteHeader, WriteHeaderFails, SyncHeader, CreateSteps,
     Uneven, Cutting
<1>1. segs = <<>> \/ op.kind \in {"none", "append"}
  BY <1>0 DEF IInv, Control, CreateControl
<1>2. CASE CreateFile
  <2>1. op.base \in Nat
    BY <1>0 DEF Op
  <2>2. /\ Len(files') = Len(files) + 1
        /\ \A m \in 1..Len(files) : files'[m] = files[m]
        /\ files'[Len(files) + 1] = EmptyFile(op.base)
    BY <1>0, <1>2, <2>1, FsCreateFacts DEF CreateFile
  <2>3. dir' = dir \cup {Len(files) + 1} /\ pc' = "writeHeader" /\ Len(files) \in Nat
    BY <1>0, <1>2 DEF CreateFile, FsCreate, Goto, StorageTypes
  <2>4. \A n \in 1..Len(files) : n \in dir' => n \in dir /\ files'[n].frames = files[n].frames
    BY <2>2, <2>3
  <2>5. files'[Len(files')].frames = <<>>
    BY <2>1, <2>2, EmptyFileFacts
  <2>6. ExactControl' /\ pc' \notin Uneven \cup Cutting
    BY <2>3, <2>5 DEF ExactControl, CreateSteps, Uneven, Cutting
  <2> QED BY <1>0, <1>1, <2>4, <2>6, PlainExact DEF EInv
<1>3. CASE WriteHeader \/ SyncHeader
  <2>1. /\ dir' = dir /\ pc \in {"writeHeader", "syncHeader"} /\ pc' \in {"syncHeader", "syncDir"}
    BY <1>3 DEF WriteHeader, SyncHeader, FsWrite, FsSync, Goto
  <2>2. /\ \A n \in 1..Len(files) : files'[n].frames = files[n].frames
        /\ Len(files') = Len(files) /\ Len(files) \in 1..Len(files)
    <3>1. CASE WriteHeader
      BY <3>1, HeaderKeeps
    <3>2. CASE SyncHeader
      <4>1. files' = files /\ Len(files) \in 1..Len(files)
        BY <1>0, <3>2, SMTT(20)
        DEF SyncHeader, FsSync, IInv, Control, CreateControl, CreateSteps, StorageTypes
      <4> QED BY <4>1
    <3> QED BY <1>3, <3>1, <3>2
  <2>3. files[Len(files)].frames = <<>>
    BY <2>1 DEF EInv, ExactControl, CreateSteps
  <2>4. ExactControl' /\ pc' \notin Uneven \cup Cutting
    BY <2>1, <2>2, <2>3 DEF ExactControl, CreateSteps, Uneven, Cutting
  <2> QED BY <1>0, <1>1, <2>1, <2>2, <2>4, PlainExact DEF EInv
<1>4. CASE WriteHeaderFails
  <2>1. dir' = dir /\ Return("error")
    BY <1>4 DEF WriteHeaderFails, FsWrite, FsIdle, storageVars
  <2>2. \A n \in 1..Len(files) : files'[n].frames = files[n].frames
    BY <1>4, HeaderKeeps
  <2> QED BY <1>0, <1>1, <2>1, <2>2, ReturnExact
<1> QED BY <1>2, <1>3, <1>4

\* The segment joins the chain behind the last one, without frames.
LEMMA SyncDirectoryExact ==
  ASSUME IInv, RInv, EInv, SyncDirectory
  PROVE  EInv'
<1> DEFINE s == newSegment(Len(files), op.base)
<1>0. /\ pc = "syncDir" /\ StorageTypes /\ segs \in Seq(Segment) /\ Len(segs) \in Nat
  BY TypeParts DEF IInv, ChainTypes, SyncDirectory
<1>1. /\ dir' = dir /\ segs' = Append(segs, s) /\ acked' = acked
      /\ \A n \in dir : files'[n] = files[n]
  BY <1>0 DEF SyncDirectory, FsSyncDir, StorageTypes
<1>2. /\ s.ino = Len(files) /\ s.startIndex = 0 /\ s.writeIndex = 0 /\ s.open
  BY DEF newSegment
<1>3. Len(files) \in dir /\ files[Len(files)].frames = <<>>
  BY <1>0 DEF RInv, ReadControl, EInv, ExactControl, CreateSteps
<1> HIDE DEF s
<1>a. PICK l : l = Len(segs)
  OBVIOUS
<1>4. /\ l \in Nat /\ Len(segs') = l + 1 /\ segs'[l + 1] = s
      /\ \A i \in 1..l : segs'[i] = segs[i] /\ i \in 1..(l + 1) /\ i # l + 1
      /\ \A i \in 1..(l + 1) : i # l + 1 => i \in 1..l
  BY <1>0, <1>1, <1>a
<1>5. op'.kind \in {"none", "append"} /\ pc' \in {"idle", "down", "write"} /\ (pc' = "idle" => op'.kind = "none")
  BY DEF SyncDirectory, Return, NoOp, Goto
<1>6. ExactControl' /\ pc' \notin Uneven /\ pc \notin Uneven
  BY <1>0, <1>5 DEF ExactControl, CreateSteps, Uneven
<1>7. AllOpen'
  <2>1. \A i \in 1..l : segs[i].open
    BY <1>0, <1>a DEF EInv, AllOpen, Cutting
  <2> QED BY <1>2, <1>4, <2>1, Zenon DEF AllOpen
<1>8. Exact'
  <2> SUFFICES ASSUME NEW i \in 1..(l + 1), Live(i)'
               PROVE  Ends(i)' /\ Owed(i)'
    BY <1>4, Zenon DEF Exact
  <2>1. CASE i = l + 1
    <3>1. Frames(i)' = <<>> /\ segs'[i].writeIndex = 0 /\ segs'[i].startIndex = 0
      BY <1>1, <1>2, <1>3, <1>4, <2>1 DEF Frames
    <3>2. Ends(i)'
      BY <1>6, <3>1 DEF Ends
    <3>3. (segs'[i].startIndex + 1)..segs'[i].writeIndex = {}
      BY <3>1
    <3> QED BY <3>2, <3>3 DEF Owed
  <2>2. CASE i # l + 1
    <3>1. i \in 1..Len(segs) /\ segs'[i] = segs[i]
      BY <1>4, <1>a, <2>2
    <3>2. Live(i) /\ Frames(i)' = Frames(i)
      BY <1>1, <3>1 DEF Live, Frames
    <3>3. Ends(i) /\ Owed(i)
      BY <3>1, <3>2 DEF EInv, Exact
    <3>4. Ends(i)'
      BY <1>6, <3>1, <3>2, <3>3 DEF Ends
    <3>5. \A q : ~Cut(q)
      <4>1. segs # <<>>
        BY <1>0, <3>1
      <4>2. op.kind = "append"
        BY <1>0, <4>1 DEF IInv, Control, CreateControl, CreateSteps
      <4> QED BY <4>2 DEF Cut
    <3>6. Owed(i)'
      BY <1>1, <3>1, <3>2, <3>3, <3>5, Zenon DEF Owed
    <3> QED BY <3>4, <3>6
  <2> QED BY <2>1, <2>2
<1> QED BY <1>6, <1>7, <1>8 DEF EInv

-----------------------------------------------------------------------------
(***************************************************************************)
(* Steps that change the last segment or its file.                         *)
(***************************************************************************)
\* Such a step, and no other, when it does no harm to the last segment.
LEMMA LastExact ==
  ASSUME IInv, EInv, pc \notin Cutting, dir' = dir,
         NEW l \in Nat \ {0}, l = Len(segs), l = Len(segs'),
         \A i \in 1..l : i # l => segs'[i] = segs[i],
         segs'[l].open = segs[l].open,
         \A i \in 1..l : i # l => files'[segs[i].ino].frames = files[segs[i].ino].frames,
         \A i \in 1..l : i # l =>
           \A q \in Nat : segs[i].base <= q /\ q < NextSequence(segs[i]) => Passes(q),
         Live(l)' => Ends(l)' /\ Owed(l)'
  PROVE  AllOpen' /\ Exact'
<1>1. AllOpen'
  BY Zenon DEF EInv, AllOpen
<1>2. ASSUME NEW i \in 1..l, i # l, Live(i)'
      PROVE  Ends(i)' /\ Owed(i)'
  <2>1. Live(i) /\ Frames(i)' = Frames(i) /\ segs'[i] = segs[i]
    BY <1>2, Zenon DEF Live, Frames
  <2>2. Ends(i) /\ Owed(i)
    BY <2>1, Zenon DEF EInv, Exact
  <2>3. Ends(i)'
    BY <1>2, <2>1, <2>2, Zenon DEF Ends
  <2>4. Owed(i)'
    <3> SUFFICES ASSUME NEW k \in (segs[i].startIndex + 1)..segs[i].writeIndex, k <= Len(Frames(i)),
                        NEW q, q = segs[i].base + k - 1
                 PROVE  Cut(q)' \/ <<q, Frames(i)[k].id>> \in acked'
      BY <2>1, Zenon DEF Owed, Cut
    <3>1. PICK b \in Nat, s \in Nat, w \in Nat :
            b = segs[i].base /\ s = segs[i].startIndex /\ w = segs[i].writeIndex
      BY SegmentFacts
    <3>2. k \in (s + 1)..w /\ q = b + k - 1
      BY <3>1
    <3>3. q \in Nat /\ b <= q /\ q < b + w
      BY ONLY <3>2, b \in Nat, s \in Nat, w \in Nat
    <3>4. Passes(q)
      BY <1>2, <3>1, <3>3 DEF NextSequence
    <3>5. Cut(q) \/ <<q, Frames(i)[k].id>> \in acked
      BY <2>2, Zenon DEF Owed
    <3> QED BY <3>4, <3>5, Zenon DEF Passes
  <2> QED BY <2>3, <2>4
<1>3. Exact'
  BY <1>2, Zenon DEF Exact
<1> QED BY <1>1, <1>3

\* The last segment keeps what it has up to frame m, and what is behind it was
\* appended.
LEMMA OwedLast ==
  ASSUME IInv, NEW l \in 1..Len(segs), Owed(l),
         segs'[l].ino = segs[l].ino, segs'[l].base = segs[l].base,
         segs'[l].startIndex = segs[l].startIndex, segs'[l].writeIndex \in Nat,
         NEW G, files'[segs[l].ino].frames = G, NEW m \in Nat, m <= segs[l].writeIndex,
         \A k \in 1..m : k <= Len(G) => k <= Len(Frames(l)) /\ G[k] = Frames(l)[k],
         \A q \in Nat : segs[l].base <= q /\ q < segs[l].base + m => Passes(q),
         \A k \in (m + 1)..segs'[l].writeIndex : <<segs[l].base + k - 1, G[k].id>> \in acked'
  PROVE  Owed(l)'
<1>1. Frames(l)' = G
  BY DEF Frames
<1>2. SUFFICES ASSUME NEW k \in (segs[l].startIndex + 1)..segs'[l].writeIndex, k <= Len(G),
                      NEW q, q = segs[l].base + k - 1
               PROVE  Cut(q)' \/ <<q, G[k].id>> \in acked'
  BY <1>1, Zenon DEF Owed, Cut
<1>3. PICK b \in Nat, s \in Nat, w \in Nat, v \in Nat :
        b = segs[l].base /\ s = segs[l].startIndex /\ w = segs[l].writeIndex /\ v = segs'[l].writeIndex
  BY SegmentFacts
<1>4. k \in (s + 1)..v /\ q = b + k - 1 /\ m <= w
  BY <1>2, <1>3
<1>5. CASE k <= m
  <2>1. k \in 1..m /\ k \in (s + 1)..w /\ q \in Nat /\ b <= q /\ q < b + m
    BY ONLY <1>4, <1>5, b \in Nat, s \in Nat, w \in Nat, v \in Nat, m \in Nat, SMTT(30)
  <2>2. Passes(q)
    BY <1>3, <2>1
  <2>3. k <= Len(Frames(l)) /\ G[k] = Frames(l)[k]
    BY <1>2, <2>1
  <2>4. Cut(q) \/ <<q, Frames(l)[k].id>> \in acked
    BY <1>2, <1>3, <2>1, <2>3, Zenon DEF Owed
  <2> QED BY <2>2, <2>3, <2>4, Zenon DEF Passes
<1>6. CASE ~(k <= m)
  <2>1. k \in (m + 1)..v
    BY ONLY <1>4, <1>6, s \in Nat, v \in Nat, m \in Nat
  <2> QED BY <1>2, <1>3, <2>1
<1> QED BY <1>5, <1>6

\* A write to the last segment's file that keeps or cuts off the frames it has
\* and leaves it where the handler expects its end.
LEMMA OverExact ==
  ASSUME IInv, EInv, pc \notin Cutting, segs # <<>>, UNCHANGED <<segs, acked>>,
         op'.kind = op.kind, op'.seq = op.seq, NEW f \in File, FsWrite(lastSegment.ino, f),
         lastSegment.ino \in dir =>
           /\ \A k \in 1..lastSegment.writeIndex : k <= Len(f.frames) =>
                /\ k <= Len(files[lastSegment.ino].frames)
                /\ f.frames[k] = files[lastSegment.ino].frames[k]
           /\ Ends(Len(segs))'
  PROVE  AllOpen' /\ Exact'
<1>0. PICK l \in Nat \ {0} : l = Len(segs)
  BY LastFacts
<1>1. /\ l \in 1..Len(segs) /\ lastSegment = segs[l] /\ dir' = dir /\ l = Len(segs')
      /\ segs[l].base \in Nat /\ segs[l].writeIndex \in Nat
  BY <1>0, LastFacts, LastFile, SegmentFacts
<1>2. /\ files'[segs[l].ino] = f
      /\ \A i \in 1..l : i # l => files'[segs[i].ino].frames = files[segs[i].ino].frames
  BY <1>0, LastFile
<1>3. \A q : Passes(q)
  BY DEF Passes, Cut
<1>4. ASSUME Live(l)'
      PROVE  Ends(l)' /\ Owed(l)'
  <2>1. Live(l) /\ lastSegment.ino \in dir
    BY <1>1, <1>4 DEF Live
  <2>2. Ends(l)'
    BY <1>0, <2>1
  <2>3. Owed(l)
    BY <1>1, <2>1 DEF EInv, Exact
  <2>4. PICK m \in Nat : m = segs[l].writeIndex
    BY <1>1
  <2>a. PICK G : G = f.frames
    OBVIOUS
  <2>5. \A k \in 1..m : k <= Len(G) => k <= Len(Frames(l)) /\ G[k] = Frames(l)[k]
    BY <1>1, <2>1, <2>4, <2>a, Zenon DEF Frames
  <2>6. m <= segs[l].writeIndex /\ (m + 1)..segs'[l].writeIndex = {} /\ segs'[l].writeIndex \in Nat
    BY <1>1, <2>4, SMTT(20)
  <2>7. /\ segs'[l].ino = segs[l].ino /\ segs'[l].base = segs[l].base
        /\ segs'[l].startIndex = segs[l].startIndex
    OBVIOUS
  <2>8. /\ \A q \in Nat : segs[l].base <= q /\ q < segs[l].base + m => Passes(q)
        /\ \A k \in (m + 1)..segs'[l].writeIndex : <<segs[l].base + k - 1, G[k].id>> \in acked'
    BY <1>3, <2>6, Zenon
  <2>9. files'[segs[l].ino].frames = G
    BY <1>2, <2>a
  <2>10. Owed(l)'
    <3>1. /\ l \in 1..Len(segs) /\ segs'[l].writeIndex \in Nat /\ m \in Nat /\ m <= segs[l].writeIndex
      BY <1>1, <2>6
    <3> QED BY ONLY IInv, <2>3, <2>5, <2>7, <2>8, <2>9, <3>1, OwedLast, Zenon
  <2> QED BY <2>2, <2>10
<1>5. \A i \in 1..l : i # l => \A q \in Nat : segs[i].base <= q /\ q < NextSequence(segs[i]) => Passes(q)
  BY <1>3, Zenon
<1>6. segs'[l].open = segs[l].open /\ \A i \in 1..l : i # l => segs'[i] = segs[i]
  OBVIOUS
<1> QED BY <1>0, <1>1, <1>2, <1>4, <1>5, <1>6, LastExact, Zenon

\* The batch is there and nothing behind it: the segment takes it in.
LEMMA CommitExact ==
  ASSUME IInv, EInv, pc \notin Cutting, segs # <<>>, op.batch \in Batches, op.kind = "append",
         CommitAppend, dir' = dir,
         \A i \in 1..Len(segs) : i # Len(segs) => files'[segs[i].ino] = files[segs[i].ino],
         lastSegment.writeIndex <= Len(files[lastSegment.ino].frames),
         NEW G, files'[lastSegment.ino].frames = G,
         HasBatch(G, files[lastSegment.ino].frames, lastSegment.writeIndex, op.id, Len(op.batch)),
         Len(G) = lastSegment.writeIndex + Len(op.batch)
  PROVE  EInv'
<1> DEFINE n == Len(op.batch)
           new == {<<NextSequence(lastSegment) + i - 1, op.id + i>> : i \in 1..n}
<1>a. /\ \A q \in 1..lastSegment.writeIndex : G[q] = files[lastSegment.ino].frames[q]
      /\ \A i \in 1..Len(op.batch) : G[lastSegment.writeIndex + i].id = op.id + i
  BY Zenon DEF HasBatch
<1>0. PICK l \in Nat \ {0} : l = Len(segs)
  BY LastFacts, SMTT(20)
<1>1. /\ l \in 1..Len(segs) /\ l \in 1..l /\ lastSegment = segs[l] /\ segs[l] \in Segment
      /\ segs[l].base \in Nat /\ segs[l].writeIndex \in Nat
  BY <1>0, LastFacts, SegmentFacts
<1>2. n \in Nat
  BY BatchFacts
<1>3. /\ MovesLast(segs[l].writeIndex + n, segs[l].writeOffset + AppendSize(op.batch))
      /\ acked' = acked \cup new /\ Return("ok")
  BY <1>0, <1>1 DEF CommitAppend, MovesLast
<1> HIDE DEF n
<1>4. /\ Len(segs') = l /\ \A i \in 1..l : i # l => segs'[i] = segs[i]
      /\ segs'[l] = [segs[l] EXCEPT !.writeIndex = segs[l].writeIndex + n,
                                    !.writeOffset = segs[l].writeOffset + AppendSize(op.batch)]
  <2>1. segs \in Seq(Segment)
    BY DEF IInv, TypeOK
  <2> DEFINE t == [segs[l] EXCEPT !.writeIndex = segs[l].writeIndex + n,
                                  !.writeOffset = segs[l].writeOffset + AppendSize(op.batch)]
  <2>2. segs' = [segs EXCEPT ![l] = t]
    BY <1>0, <1>1, <1>3, <2>1, Zenon DEF MovesLast
  <2> HIDE DEF t
  <2>3. /\ Len(segs') = l /\ \A i \in 1..l : i # l => segs'[i] = segs[i]
        /\ segs'[l] = t
    BY <1>0, <1>1, <2>1, <2>2, SMTT(20)
  <2> QED BY <2>3 DEF t
<1>5. /\ segs'[l].ino = segs[l].ino /\ segs'[l].base = segs[l].base /\ segs'[l].open = segs[l].open
      /\ segs'[l].startIndex = segs[l].startIndex /\ segs'[l].writeIndex = segs[l].writeIndex + n
  BY <1>1, <1>4 DEF Segment
<1>6. op'.kind = "none" /\ pc' \in {"idle", "down"}
  BY <1>3 DEF Return, NoOp
<1>7. ExactControl' /\ pc' \notin Uneven
  BY <1>6 DEF ExactControl, CreateSteps, Uneven
<1>8. \A q : Passes(q)
  BY <1>3 DEF Passes, Cut
<1>9. ASSUME Live(l)'
      PROVE  Ends(l)' /\ Owed(l)'
  <2>1. Frames(l)' = G /\ Live(l)
    BY <1>1, <1>5, <1>9 DEF Frames, Live
  <2>2. Ends(l)'
    <3>1. Len(Frames(l)') = segs'[l].writeIndex
      BY <1>1, <1>5, <2>1 DEF n
    <3> QED BY <1>7, <3>1, Zenon DEF Ends
  <2>3. Owed(l)
    BY <1>1, <2>1 DEF EInv, Exact
  <2>4. PICK m \in Nat, b \in Nat : m = segs[l].writeIndex /\ b = segs[l].base
    BY <1>1
  <2>5. \A k \in 1..m : k <= Len(G) => k <= Len(Frames(l)) /\ G[k] = Frames(l)[k]
    <3>1. Len(Frames(l)) \in Nat
      BY <1>1, SegmentFacts, FileFacts DEF Frames
    <3>2. m <= Len(Frames(l)) /\ \A k \in 1..m : G[k] = Frames(l)[k]
      BY <1>a, <1>1, <2>4 DEF Frames
    <3> QED BY <3>1, <3>2, SMTT(20)
  <2>6. ASSUME NEW k \in (m + 1)..segs'[l].writeIndex
        PROVE  <<b + k - 1, G[k].id>> \in acked'
    <3>1. k \in (m + 1)..(m + n)
      BY <1>5, <2>4
    <3>2. PICK i : i = k - m
      OBVIOUS
    <3>3. i \in 1..n /\ m + i = k /\ b + k - 1 = b + m + i - 1
      BY ONLY <1>2, <3>1, <3>2, m \in Nat, b \in Nat, SMTT(30)
    <3>4. G[m + i].id = op.id + i
      BY <1>a, <1>1, <2>4, <3>3, Zenon DEF n
    <3>5. NextSequence(lastSegment) = b + m
      BY <1>1, <2>4 DEF NextSequence
    <3>6. <<b + m + i - 1, op.id + i>> \in new
      BY <3>3, <3>5, Zenon
    <3> HIDE DEF new
    <3>7. b + m + i - 1 = b + k - 1
      BY <3>3
    <3> QED BY <1>3, <3>3, <3>4, <3>6, <3>7, Zenon
  <2>7. /\ m <= segs[l].writeIndex /\ segs'[l].writeIndex \in Nat
        /\ \A q \in Nat : segs[l].base <= q /\ q < segs[l].base + m => Passes(q)
        /\ \A k \in (m + 1)..segs'[l].writeIndex : <<segs[l].base + k - 1, G[k].id>> \in acked'
        /\ files'[segs[l].ino].frames = G
    <3>1. m <= segs[l].writeIndex /\ segs'[l].writeIndex \in Nat
      BY <1>1, <1>2, <1>5, <2>4, SMTT(20)
    <3>2. \A k \in (m + 1)..segs'[l].writeIndex : <<segs[l].base + k - 1, G[k].id>> \in acked'
      BY <2>4, <2>6, Zenon
    <3> QED BY <1>1, <1>8, <3>1, <3>2, Zenon
  <2>8. Owed(l)'
    BY <1>1, <1>5, <2>3, <2>5, <2>7, OwedLast, Zenon
  <2> QED BY <2>2, <2>8
<1>10. /\ \A i \in 1..l : i # l => files'[segs[i].ino].frames = files[segs[i].ino].frames
       /\ \A i \in 1..l : i # l => \A q \in Nat : segs[i].base <= q /\ q < NextSequence(segs[i]) => Passes(q)
       /\ l = Len(segs')
  BY <1>0, <1>4, <1>8
<1>11. AllOpen' /\ Exact'
  BY <1>0, <1>4, <1>5, <1>9, <1>10, LastExact, Zenon
<1> QED BY <1>7, <1>11 DEF EInv

\* The write of a batch, which stops short or is complete.
LEMMA WriteExact ==
  ASSUME IInv, RInv, EInv, WriteBegin \/ WriteEnd
  PROVE  EInv'
<1> DEFINE F == files[lastSegment.ino].frames
           w == lastSegment.writeIndex
           n == Len(op.batch)
<1>0. /\ pc \in {"write", "writing"} /\ op.batch \in Batches /\ segs # <<>> /\ lastSegment.open
      /\ pc # "truncateSync" /\ op.kind = "append" /\ pc \notin Cutting
  BY DEF WriteBegin, WriteEnd, RInv, ReadControl, IInv, Control, AppendControl, AppendSteps, Cutting
<1>1. /\ Len(segs) \in 1..Len(segs) /\ lastSegment = segs[Len(segs)] /\ w \in Nat /\ n \in Nat
      /\ Len(F) \in Nat
  BY <1>0, LastFacts, SegmentFacts, BatchFacts, FileFacts
<1>2. w <= Len(F) /\ (pc = "write" => Len(F) = w) /\ (pc = "writing" => Len(F) < w + n)
  <2>1. Live(Len(segs))
    BY <1>0, <1>1 DEF RInv, OpenIsLive
  <2>2. w <= Len(F)
    BY <1>0, <1>1, <2>1, Zenon DEF RInv, Complete, Promised, Frames
  <2>3. Ends(Len(segs))
    BY <1>1, <2>1, Zenon DEF EInv, Exact
  <2>4. pc = "write" => Len(F) = w
    <3>1. pc = "write" => pc \notin Uneven
      BY DEF Uneven
    <3> QED BY <1>1, <2>3, <3>1, Zenon DEF Ends, Frames
  <2>5. pc = "writing" => Len(F) < w + n
    <3>1. "writing" \in Uneven
      BY DEF Uneven
    <3> QED BY <1>1, <2>3, <3>1, Zenon DEF Ends, Frames
  <2> QED BY <2>2, <2>4, <2>5
<1>3. ASSUME NEW j \in 0..n, NEW k \in Nat
      PROVE  /\ WithBatch(j, k) \in File
             /\ HasBatch(WithBatch(j, k).frames, F, w, op.id, j)
             /\ \A i \in 1..w : WithBatch(j, k).frames[i] = F[i]
             /\ Len(F) <= w + j => Len(WithBatch(j, k).frames) = w + j
  <2>1. WithBatch(j, k) \in File /\ HasBatch(WithBatch(j, k).frames, F, w, op.id, j)
    BY <1>0, BatchOver
  <2> QED BY <2>1, Zenon DEF HasBatch
<1>4. \A i \in 1..w : i <= Len(F)
  BY <1>1, <1>2
<1>5. CASE WriteBegin
  <2>1. /\ UNCHANGED <<segs, acked, op>> /\ pc = "write" /\ pc' = "writing"
        /\ \E j \in 0..(Len(op.batch) - 1) : \E k \in {0} \cup Cuts(FrameSize(op.batch, j + 1)) :
             FsWrite(lastSegment.ino, WithBatch(j, k))
    BY <1>5 DEF WriteBegin, Goto
  <2>2. PICK j \in 0..(Len(op.batch) - 1) : \E k \in {0} \cup Cuts(FrameSize(op.batch, j + 1)) :
          FsWrite(lastSegment.ino, WithBatch(j, k))
    BY <2>1
  <2>3. PICK k \in {0} \cup Cuts(FrameSize(op.batch, j + 1)) :
          FsWrite(lastSegment.ino, WithBatch(j, k))
    BY <2>2
  <2>4. j \in 0..Len(op.batch) /\ j < Len(op.batch) /\ k \in Nat
    BY <1>0, CutsFacts
  <2> DEFINE f == WithBatch(j, k)
  <2>5. f \in File /\ (\A i \in 1..w : f.frames[i] = F[i]) /\ (Len(F) <= w + j => Len(f.frames) = w + j)
    BY <1>3, <2>4, Zenon
  <2>6. Len(f.frames) < w + n
    <3> HIDE DEF f, w, n, F
    <3>1. Len(F) = w /\ j \in Nat /\ j < n
      BY <1>2, <2>1, <2>4 DEF n
    <3>2. Len(f.frames) = w + j
      BY <1>1, <2>5, <3>1
    <3> QED BY <1>1, <3>1, <3>2
  <2> HIDE DEF f
  <2>7. files'[segs[Len(segs)].ino] = f
    BY <1>0, <2>3, <2>5, LastFile DEF f
  <2>8. Ends(Len(segs))'
    <3>1. pc' \in Uneven /\ pc' # "syncAppend" /\ pc' # "truncateSync"
      BY <2>1 DEF Uneven
    <3>2. Len(Frames(Len(segs))') < segs'[Len(segs')].writeIndex + Len(op'.batch)
      BY <1>1, <2>1, <2>6, <2>7 DEF Frames
    <3> QED BY <2>1, <3>1, <3>2 DEF Ends
  <2>9. /\ FsWrite(lastSegment.ino, f) /\ op'.kind = op.kind /\ op'.seq = op.seq
        /\ \A i \in 1..lastSegment.writeIndex : i <= Len(f.frames) =>
             /\ i <= Len(files[lastSegment.ino].frames)
             /\ f.frames[i] = files[lastSegment.ino].frames[i]
    BY <1>4, <2>1, <2>3, <2>5 DEF f
  <2>10. AllOpen' /\ Exact'
    BY <1>0, <2>1, <2>5, <2>8, <2>9, OverExact
  <2>11. ExactControl'
    BY <2>1 DEF ExactControl, CreateSteps
  <2> QED BY <2>10, <2>11 DEF EInv
<1>6. CASE WriteEnd
  <2> DEFINE f == WithBatch(n, 0)
  <2>1. /\ pc = "writing" /\ FsWrite(lastSegment.ino, f)
    BY <1>6 DEF WriteEnd
  <2>2. n \in 0..n /\ 0 \in Nat
    BY <1>1
  <2>3. /\ f \in File /\ (\A i \in 1..w : f.frames[i] = F[i]) /\ (Len(F) <= w + n => Len(f.frames) = w + n)
        /\ HasBatch(f.frames, F, w, op.id, n)
    BY <1>3, <2>2, Zenon
  <2>4. Len(f.frames) = w + n
    <3> HIDE DEF f, w, n, F
    <3> QED BY <1>1, <1>2, <2>1, <2>3
  <2> HIDE DEF f
  <2>5. /\ files'[segs[Len(segs)].ino] = f /\ dir' = dir
        /\ \A i \in 1..Len(segs) : i # Len(segs) => files'[segs[i].ino] = files[segs[i].ino]
    BY <1>0, <2>1, <2>3, LastFile
  <2>6. CASE SyncOnAppend
    <3>1. UNCHANGED <<segs, acked, op>> /\ pc' = "syncAppend"
      BY <1>6, <2>6 DEF WriteEnd, Goto
    <3>2. Ends(Len(segs))'
      <4>1. pc' \in Uneven /\ pc' # "writing" /\ pc' # "truncateSync"
        BY <3>1 DEF Uneven
      <4>2. Len(Frames(Len(segs))') = segs'[Len(segs')].writeIndex + Len(op'.batch)
        BY <1>1, <2>4, <2>5, <3>1 DEF Frames
      <4> QED BY <3>1, <4>1, <4>2 DEF Ends
    <3>3. /\ op'.kind = op.kind /\ op'.seq = op.seq
          /\ \A i \in 1..lastSegment.writeIndex : i <= Len(f.frames) =>
               /\ i <= Len(files[lastSegment.ino].frames)
               /\ f.frames[i] = files[lastSegment.ino].frames[i]
      BY <1>4, <2>3, <3>1
    <3>4. AllOpen' /\ Exact'
      BY <1>0, <2>1, <2>3, <3>1, <3>2, <3>3, OverExact
    <3>5. ExactControl'
      BY <3>1 DEF ExactControl, CreateSteps
    <3> QED BY <3>4, <3>5 DEF EInv
  <2>7. CASE ~SyncOnAppend
    <3>1. CommitAppend
      BY <1>6, <2>7 DEF WriteEnd
    <3>2. files'[lastSegment.ino].frames = f.frames
      BY <1>1, <2>5
    <3> QED BY <1>0, <1>2, <2>3, <2>4, <2>5, <3>1, <3>2, CommitExact, Zenon
  <2> QED BY <2>6, <2>7
<1> QED BY <1>5, <1>6

\* The batch is forced out and taken in, or it is not.
LEMMA PersistExact ==
  ASSUME IInv, RInv, EInv, SyncAppend \/ PersistFails
  PROVE  EInv'
<1>0. /\ pc \in {"writing", "syncAppend"} /\ op.batch \in Batches /\ segs # <<>> /\ lastSegment.open
      /\ op.kind = "append" /\ pc \notin Cutting /\ dir' = dir /\ files' = files
  BY DEF SyncAppend, PersistFails, RInv, ReadControl, IInv, Control, AppendControl, AppendSteps, Cutting,
     FsSync, FsIdle, storageVars
<1>1. /\ Len(segs) \in 1..Len(segs) /\ lastSegment = segs[Len(segs)] /\ Live(Len(segs))
  BY <1>0, LastFacts DEF RInv, OpenIsLive
<1>2. CASE SyncAppend
  <2>1. pc = "syncAppend" /\ CommitAppend /\ BatchWritten
    BY <1>2 DEF SyncAppend, RInv, ReadControl
  <2> DEFINE F == files[lastSegment.ino].frames
             w == lastSegment.writeIndex
             n == Len(op.batch)
  <2>2. w \in Nat /\ n \in Nat
    BY <1>0, <1>1, SegmentFacts, BatchFacts
  <2>3. Len(F) = w + n
    <3>1. Ends(Len(segs)) /\ pc \in Uneven
      BY <1>1, <2>1 DEF EInv, Exact, Uneven
    <3> QED BY <1>1, <2>1, <3>1, Zenon DEF Ends, Frames
  <2>4. \A i \in 1..n : F[w + i].id = op.id + i
    BY <2>1 DEF BatchWritten
  <2>5. HasBatch(F, F, w, op.id, n) /\ w <= Len(F)
    <3> HIDE DEF F, w, n
    <3>1. Len(F) \in Nat /\ w + n <= Len(F) /\ w <= Len(F)
      BY <2>2, <2>3
    <3> QED BY <2>3, <2>4, <3>1, Zenon DEF HasBatch
  <2>6. /\ files'[lastSegment.ino].frames = F
        /\ \A i \in 1..Len(segs) : i # Len(segs) => files'[segs[i].ino] = files[segs[i].ino]
    BY <1>0
  <2> QED BY <1>0, <2>1, <2>3, <2>5, <2>6, CommitExact, Zenon
<1>3. CASE PersistFails
  <2>1. pc' = "trim" /\ UNCHANGED <<op, segs, acked>>
    BY <1>3 DEF PersistFails, Goto
  <2>2. ExactControl' /\ pc' \in Uneven
    BY <2>1 DEF ExactControl, CreateSteps, Uneven
  <2>3. PICK l \in Nat \ {0} : l = Len(segs)
    BY <1>0, LastFacts
  <2>4. \A q : Passes(q)
    BY <2>1 DEF Passes, Cut
  <2>5. ASSUME Live(l)'
        PROVE  Ends(l)' /\ Owed(l)'
    <3>1. Ends(l)'
      BY <2>1, <2>2, <2>3 DEF Ends
    <3>2. Owed(l)
      BY <1>1, <2>3 DEF EInv, Exact
    <3>3. Owed(l)'
      BY <1>0, <2>1, <3>2, Zenon DEF Owed, Frames, Cut
    <3> QED BY <3>1, <3>3
  <2>6. /\ l = Len(segs') /\ segs'[l].open = segs[l].open
        /\ \A i \in 1..l : i # l => segs'[i] = segs[i]
        /\ \A i \in 1..l : i # l => files'[segs[i].ino].frames = files[segs[i].ino].frames
        /\ \A i \in 1..l : i # l => \A q \in Nat : segs[i].base <= q /\ q < NextSequence(segs[i]) => Passes(q)
    BY <1>0, <2>1, <2>3, <2>4
  <2>7. AllOpen' /\ Exact'
    BY <1>0, <2>3, <2>5, <2>6, LastExact, Zenon
  <2> QED BY <2>2, <2>7 DEF EInv
<1> QED BY <1>2, <1>3

\* Trim takes off what is behind the segment's end.
LEMMA TrimExact ==
  ASSUME IInv, RInv, EInv, Trim
  PROVE  EInv'
<1> DEFINE s == lastSegment
           f == files[s.ino]
           g == Truncated(f, s.writeIndex, s.writeOffset)
<1>1. /\ pc = "trim" /\ pc' = "trimSync" /\ op.kind = "append" /\ segs # <<>>
      /\ UNCHANGED <<op, segs, acked>> /\ FsWrite(s.ino, g)
  BY DEF Trim, Goto, IInv, Control, AppendControl, AppendSteps
<1>2. Len(segs) \in 1..Len(segs) /\ s = segs[Len(segs)]
  BY <1>1, LastFacts
<1>3. /\ f \in File /\ Ordered(f.frames) /\ s.writeIndex \in Nat /\ s.writeOffset \in Nat
      /\ Len(f.frames) \in Nat
  BY <1>2, SegmentFacts, FileFacts
<1>4. g \in File
  BY <1>3, TruncatedFile, Zenon
<1>5. ASSUME s.ino \in dir
      PROVE  /\ \A k \in 1..s.writeIndex : k <= Len(g.frames) =>
                  k <= Len(f.frames) /\ g.frames[k] = f.frames[k]
             /\ Ends(Len(segs))'
  <2>1. s.writeIndex <= Len(f.frames)
    BY <1>1, <1>2, <1>5 DEF RInv, Complete, Promised, Live, Frames
  <2>2. files'[segs[Len(segs)].ino] = g
    BY <1>1, <1>4, LastFile
  <2> HIDE DEF f
  <2>3. Len(g.frames) = s.writeIndex /\ \A q \in 1..s.writeIndex : g.frames[q] = f.frames[q]
    BY ONLY <1>3, <2>1, TruncatedFrames, Zenon
  <2> HIDE DEF g
  <2>4. Ends(Len(segs))'
    <3>1. pc' \notin Uneven
      BY <1>1 DEF Uneven
    <3>2. Len(Frames(Len(segs))') = segs'[Len(segs')].writeIndex
      BY <1>1, <1>2, <2>2, <2>3 DEF Frames
    <3> QED BY <1>1, <3>1, <3>2 DEF Ends
  <2> QED BY <1>3, <2>1, <2>3, <2>4
<1> HIDE DEF g
<1>6. pc \notin Cutting /\ op'.kind = op.kind /\ op'.seq = op.seq
  BY <1>1 DEF Cutting
<1>7. AllOpen' /\ Exact'
  BY <1>1, <1>4, <1>5, <1>6, OverExact
<1>8. ExactControl'
  BY <1>1 DEF ExactControl, CreateSteps
<1> QED BY <1>7, <1>8 DEF EInv

-----------------------------------------------------------------------------
(***************************************************************************)
(* The truncations.                                                        *)
(***************************************************************************)
\* A truncation is called: what it gives up, it goes on to take away.
LEMMA TruncateCallExact ==
  ASSUME IInv, RInv, EInv, NEW seq \in TruncateSeqs, TruncateBeforeCall(seq) \/ TruncateAfterCall(seq),
         KeepIndex(seq) = 0 => seq < StartSequence(segs[1]) \/ seq >= NextSequence(lastSegment)
  PROVE  EInv'
<1>0. seq \in Nat /\ segs # <<>> /\ pc = "idle" /\ UNCHANGED <<segs, files, dir>>
  BY InputAssumption DEF TruncateBeforeCall, TruncateAfterCall, FsIdle, storageVars
<1>1. op.kind = "none" /\ pc \notin Uneven /\ pc \notin Cutting
  BY <1>0 DEF EInv, ExactControl, Uneven, Cutting
<1>2. pc' = "drop" \/ (pc' \in {"idle", "down"} /\ op'.kind = "none")
  BY DEF TruncateBeforeCall, TruncateAfterCall, Drop, Return, NoOp
<1>3. ExactControl' /\ pc' \notin Uneven
  BY <1>2 DEF ExactControl, CreateSteps, Uneven
<1>4. AllOpen'
  <2>1. \A i \in 1..Len(segs) : segs[i].open
    BY <1>1, Zenon DEF EInv, AllOpen
  <2> QED BY <1>0, <2>1, Zenon DEF AllOpen
<1>5. ASSUME NEW i \in 1..Len(segs), NEW q \in Nat, StartSequence(segs[i]) <= q, q < NextSequence(segs[i])
      PROVE  Passes(q)
  <2>0. PICK e \in Nat, f \in Nat, g \in Nat, h \in Nat :
          /\ e = StartSequence(segs[1]) /\ f = StartSequence(segs[i])
          /\ g = NextSequence(segs[i]) /\ h = NextSequence(lastSegment)
    <3>1. 1 \in 1..Len(segs) /\ Len(segs) \in 1..Len(segs) /\ lastSegment = segs[Len(segs)]
      BY <1>0, LastFacts
    <3>2. /\ StartSequence(segs[1]) \in Nat /\ StartSequence(segs[i]) \in Nat
          /\ NextSequence(segs[i]) \in Nat /\ NextSequence(lastSegment) \in Nat
      BY <3>1, SegmentFacts
    <3> QED BY <3>2
  <2>1. g <= h /\ e <= f
    BY <2>0, ChainEnds DEF RInv
  <2>2. e <= q /\ q < h
    BY <1>5, <2>0, <2>1
  <2>3. ~Cut(q)
    BY <1>1 DEF Cut
  <2>4. CASE TruncateBeforeCall(seq)
    <3>1. acked' = {r \in acked : r[1] >= seq}
      BY <2>4 DEF TruncateBeforeCall, Retain
    <3>2. \/ KeepIndex(seq) = 0 /\ seq < h
          \/ Drop("beforeAll", seq, 1, Len(segs) - 1)
          \/ Drop("beforeKeep", seq, 1, KeepIndex(seq) - 1)
      BY <2>0, <2>4 DEF TruncateBeforeCall
    <3>3. q >= seq \/ Cut(q)'
      <4>1. CASE KeepIndex(seq) = 0 /\ seq < h
        <5>1. seq < e
          BY <1>0, <2>0, <4>1
        <5> QED BY <1>0, <2>2, <5>1
      <4>2. CASE Drop("beforeAll", seq, 1, Len(segs) - 1)
        BY <4>2 DEF Drop, NoOp, Cut
      <4>3. CASE Drop("beforeKeep", seq, 1, KeepIndex(seq) - 1)
        <5>1. op'.kind = "beforeKeep" /\ op'.seq = seq
          BY <4>3 DEF Drop, NoOp
        <5> QED BY <1>0, <5>1 DEF Cut
      <4> QED BY <3>2, <4>1, <4>2, <4>3
    <3> QED BY <2>3, <3>1, <3>3 DEF Passes
  <2>5. CASE TruncateAfterCall(seq)
    <3>1. acked' = {r \in acked : r[1] <= seq}
      BY <2>5 DEF TruncateAfterCall, Retain
    <3>2. \/ KeepIndex(seq) = 0 /\ seq >= e
          \/ Drop("afterAll", seq, 1, Len(segs))
          \/ Drop("afterKeep", seq, KeepIndex(seq) + 1, Len(segs))
      BY <2>0, <2>5 DEF TruncateAfterCall
    <3>3. q <= seq \/ Cut(q)'
      <4>1. CASE KeepIndex(seq) = 0 /\ seq >= e
        <5>1. seq >= h
          BY <1>0, <2>0, <4>1
        <5> QED BY <1>0, <2>2, <5>1
      <4>2. CASE Drop("afterAll", seq, 1, Len(segs))
        BY <4>2 DEF Drop, NoOp, Cut
      <4>3. CASE Drop("afterKeep", seq, KeepIndex(seq) + 1, Len(segs))
        <5>1. op'.kind = "afterKeep" /\ op'.seq = seq
          BY <4>3 DEF Drop, NoOp
        <5> QED BY <1>0, <5>1 DEF Cut
      <4> QED BY <3>2, <4>1, <4>2, <4>3
    <3> QED BY <2>3, <3>1, <3>3 DEF Passes
  <2> QED BY <2>4, <2>5
<1>6. \A n \in 1..Len(files) : n \in dir' => n \in dir /\ files'[n].frames = files[n].frames
  BY <1>0
<1>7. Exact'
  BY <1>0, <1>1, <1>3, <1>5, <1>6, QuietExact DEF EInv
<1> QED BY <1>3, <1>4, <1>7 DEF EInv

\* A truncation loop closes and removes a segment, and every call of it succeeds.
LEMMA DropExact ==
  ASSUME Faulty \cap LeavingCalls = {}, IInv, RInv, EInv, DropSegment \/ DropFails
  PROVE  EInv'
<1>0. /\ pc = "drop" /\ op.i <= op.n
  BY DEF DropSegment, DropFails
<1>1. op.i \in 1..Len(segs) /\ op \in Op /\ op.i \in Nat
  BY <1>0, DropFacts, SMTT(20)
<1>2. segs[op.i].open
  BY <1>1 DEF EInv, AllOpen
<1>3. DropSegment
  <2>1. "close" \notin Faulty /\ "remove" \notin Faulty
    BY DEF LeavingCalls
  <2> QED BY <1>2, <2>1 DEF DropFails, Fault
<1>4. /\ Closes(op.i) /\ UNCHANGED <<acked, files, pc>> /\ dir' = dir \ {segs[op.i].ino}
      /\ op' = [op EXCEPT !.i = @ + 1]
  BY <1>3 DEF DropSegment, Closes, FsRemove
<1>5. op'.kind = op.kind /\ op'.seq = op.seq /\ op'.keep = op.keep /\ op'.i = op.i + 1
  BY <1>1, <1>4 DEF Op
<1>6. /\ Len(segs') = Len(segs)
      /\ \A i \in 1..Len(segs) : SameButOpen(segs'[i], segs[i])
      /\ \A i \in 1..Len(segs) : i # op.i => segs'[i] = segs[i]
  BY <1>1, <1>4, ClosedFacts
<1>7. AllOpen'
  <2>1. ASSUME NEW i \in 1..Len(segs)
        PROVE  segs'[i].open \/ (/\ ~Live(i)' /\ i < op'.i /\ (op'.kind = "afterKeep" => i > op'.keep))
    <3>1. CASE i = op.i
      <4>1. ~Live(i)'
        BY <1>4, <1>6, <3>1 DEF Live, SameButOpen, SamePlace
      <4>2. op.kind = "afterKeep" => op.i > op.keep
        BY <1>0 DEF RInv, ReadControl
      <4> QED BY <1>1, <1>5, <3>1, <4>1, <4>2
    <3>2. CASE i # op.i
      <4>1. segs'[i] = segs[i] /\ (Live(i)' => Live(i))
        BY <1>4, <1>6, <3>2 DEF Live
      <4>2. segs[i].open \/ (~Live(i) /\ i < op.i /\ (op.kind = "afterKeep" => i > op.keep))
        BY DEF EInv, AllOpen
      <4>3. i < op.i => i < op.i + 1
        BY <1>1
      <4> QED BY <1>5, <4>1, <4>2, <4>3, Zenon
    <3> QED BY <3>1, <3>2
  <2>2. pc' \in Cutting
    BY <1>0, <1>4 DEF Cutting
  <2> QED BY <1>6, <2>1, <2>2, Zenon DEF AllOpen
<1>8. Exact'
  <2>1. pc \notin Uneven /\ pc' \notin Uneven /\ Exact
    BY <1>0, <1>4 DEF Uneven, EInv
  <2>2. /\ 0 \in Nat /\ Len(segs') \in Nat /\ Len(segs') + 0 <= Len(segs)
        /\ \A i \in 1..Len(segs') : 0 + i = i /\ i \in 1..Len(segs)
    BY <1>6, SMTT(20) DEF IInv, TypeOK
  <2>3. \A i \in 1..Len(segs) : segs[i].startIndex \in Nat /\ segs[i].startIndex <= segs[i].startIndex
    BY SegmentFacts
  <2>4. /\ \A i \in 1..Len(segs') : SamePlace(segs'[i], segs[0 + i])
        /\ \A i \in 1..Len(segs') :
             segs'[i].startIndex \in Nat /\ segs[0 + i].startIndex <= segs'[i].startIndex
    BY <1>6, <2>2, <2>3, Zenon DEF SameButOpen
  <2>5. \A n \in 1..Len(files) : n \in dir' => n \in dir /\ files'[n].frames = files[n].frames
    BY <1>4
  <2>6. \A i \in 1..Len(segs') : \A q \in Nat :
          StartSequence(segs'[i]) <= q /\ q < NextSequence(segs'[i]) => Passes(q)
    BY <1>4, <1>5 DEF Passes, Cut
  <2> QED BY <2>1, <2>2, <2>4, <2>5, <2>6, ExactCarry, Zenon
<1>9. ExactControl'
  BY <1>0, <1>4 DEF ExactControl, CreateSteps
<1> QED BY <1>7, <1>8, <1>9 DEF EInv

\* Cutting the chain to the segments a to b, when these are the open ones.
LEMMA CuttingExact ==
  ASSUME IInv, RInv, EInv, pc \notin Uneven, pc' \notin Uneven, UNCHANGED <<files, dir>>,
         NEW a \in 1..Len(segs), NEW b \in a..Len(segs), CutTo(a, b),
         \A i \in a..b : segs[i].open,
         \A i \in a..b : \A q \in Nat :
           StartSequence(segs[i]) <= q /\ q < NextSequence(segs[i]) => Passes(q)
  PROVE  AllOpen' /\ Exact'
<1>1. Len(segs) \in Nat /\ a - 1 \in Nat
  BY SMTT(20) DEF IInv, TypeOK
<1>2. PICK d \in Nat : d = a - 1
  BY <1>1
<1>3. /\ Len(segs') = b - a + 1
      /\ \A i \in 1..Len(segs') : segs'[i] = segs[d + i]
  BY <1>2, CutFacts
<1>4. Len(segs') \in Nat /\ Len(segs') + d <= Len(segs)
  BY <1>1, <1>2, <1>3
<1>5. \A i \in 1..Len(segs') : d + i \in a..b /\ d + i \in 1..Len(segs)
  BY <1>1, <1>2, <1>3
<1>6. AllOpen'
  BY <1>3, <1>5, Zenon DEF AllOpen
<1>7. \A i \in 1..Len(segs) : segs[i].startIndex \in Nat /\ segs[i].startIndex <= segs[i].startIndex
  BY SegmentFacts
<1>8. /\ \A i \in 1..Len(segs') : SamePlace(segs'[i], segs[d + i])
      /\ \A i \in 1..Len(segs') :
           segs'[i].startIndex \in Nat /\ segs[d + i].startIndex <= segs'[i].startIndex
      /\ \A i \in 1..Len(segs') : \A q \in Nat :
           StartSequence(segs'[i]) <= q /\ q < NextSequence(segs'[i]) => Passes(q)
  BY <1>3, <1>5, <1>7, Zenon DEF SamePlace
<1>9. (\A n \in 1..Len(files) : n \in dir' => n \in dir /\ files'[n].frames = files[n].frames) /\ Exact
  BY Zenon DEF EInv
<1>10. Exact'
  BY <1>4, <1>8, <1>9, ExactCarry, Zenon
<1> QED BY <1>6, <1>10

\* The loop is done, and has closed what it takes off the chain and no more.
LEMMA DropDoneExact ==
  ASSUME IInv, RInv, EInv, DropDone
  PROVE  EInv'
<1>0. pc = "drop" /\ op.i > op.n /\ UNCHANGED <<acked, files, dir>> /\ pc \notin Uneven
  BY DEF DropDone, FsIdle, storageVars, Uneven
<1>1. /\ segs # <<>> /\ op \in Op /\ Len(segs) \in Nat /\ op.i \in Nat /\ op.n \in Nat /\ op.seq \in Nat
      /\ op.i = op.n + 1 /\ Len(segs) \in 1..Len(segs) /\ lastSegment = segs[Len(segs)]
  BY <1>0, DropFacts, LastFacts
<1>2. \A i \in 1..Len(segs) :
        segs[i].open \/ (~Live(i) /\ i < op.i /\ (op.kind = "afterKeep" => i > op.keep))
  BY DEF EInv, AllOpen
<1>3. CASE op.kind = "beforeAll"
  <2>1. /\ pc' = "setRead" /\ segs' = segs
        /\ op' = [op EXCEPT !.i = Len(segs), !.n = lastSegment.writeIndex]
    BY <1>3 DEF DropDone
  <2>2. /\ op'.kind = op.kind /\ op'.i = Len(segs) /\ op'.n = segs[Len(segs)].writeIndex
        /\ op'.seq = op.seq
    BY <1>1, <2>1 DEF Op
  <2>3. op.i = Len(segs)
    BY <1>0, <1>1, <1>3 DEF IInv, Control, DropControl
  <2>4. pc' \notin Uneven /\ pc' \in Cutting
    BY <2>1 DEF Uneven, Cutting
  <2>5. AllOpen'
    <3>1. \A i \in 1..Len(segs') : Live(i)' <=> Live(i)
      BY <1>0, <2>1 DEF Live
    <3> QED BY <1>2, <1>3, <2>1, <2>2, <2>3, <2>4, <3>1 DEF AllOpen
  <2>6. \A i \in 1..Len(segs) : \A q \in Nat :
          StartSequence(segs[i]) <= q /\ q < NextSequence(segs[i]) => Passes(q)
    BY <1>3, <2>2 DEF Passes, Cut
  <2>7. Exact'
    BY <1>0, <2>1, <2>4, <2>6, QuietExact DEF EInv
  <2>8. ExactControl'
    <3>1. segs[Len(segs)].startIndex <= segs[Len(segs)].writeIndex
      BY <1>1, SegmentFacts
    <3> QED BY <1>3, <2>1, <2>2, <3>1 DEF ExactControl, CreateSteps
  <2> QED BY <2>5, <2>7, <2>8 DEF EInv
<1>4. CASE op.kind = "beforeKeep"
  <2>1. /\ op.i \in 1..Len(segs) /\ Len(segs) \in op.i..Len(segs)
    BY <1>0, <1>1, <1>4, DropFacts
  <2>2. CutTo(op.i, Len(segs))
    BY <1>4 DEF DropDone, CutTo
  <2>3. \A i \in op.i..Len(segs) : i \in 1..Len(segs) /\ segs[i].open
    BY <1>1, <1>2
  <2>4. \/ /\ StartSequence(segs[op.i]) < op.seq
           /\ pc' = "setRead" /\ op' = [op EXCEPT !.i = 1, !.n = readIndex]
        \/ ~(StartSequence(segs[op.i]) < op.seq) /\ Return("ok")
    BY <1>4 DEF DropDone
  <2>5. CASE ~(StartSequence(segs[op.i]) < op.seq) /\ Return("ok")
    <3>1. pc' \in {"idle", "down"} /\ op'.kind = "none"
      BY <2>5 DEF Return, NoOp
    <3>2. pc' \notin Uneven /\ ExactControl'
      BY <3>1 DEF Uneven, ExactControl, CreateSteps
    <3>3. ASSUME NEW i \in op.i..Len(segs), NEW q \in Nat, StartSequence(segs[i]) <= q
          PROVE  Passes(q)
      <4>1. i \in 1..Len(segs) /\ (i = op.i \/ op.i < i)
        BY <1>1, <2>3
      <4>2. PICK x \in Nat, y \in Nat, z \in Nat, u \in Nat, v \in Nat :
              /\ x = segs[op.i].base /\ y = segs[op.i].startIndex /\ z = segs[op.i].writeIndex
              /\ u = segs[i].base /\ v = segs[i].startIndex
        BY <2>1, <4>1, SegmentFacts
      <4>3. ~(x + y < op.seq) /\ u + v <= q /\ y <= z
        BY <2>1, <2>5, <3>3, <4>2, SegmentFacts DEF StartSequence
      <4>4. (x = u /\ y = v) \/ x + z <= u
        BY <2>1, <4>1, <4>2 DEF RInv, Sorted, NextSequence
      <4>5. ~(q < op.seq)
        BY ONLY <4>3, <4>4, <1>1, x \in Nat, y \in Nat, z \in Nat, u \in Nat, v \in Nat, q \in Nat, SMTT(30)
      <4>6. ~Cut(q)
        BY <1>4, <4>5 DEF Cut
      <4> QED BY <1>0, <4>6 DEF Passes
    <3>4. \A i \in op.i..Len(segs) : \A q \in Nat :
            StartSequence(segs[i]) <= q /\ q < NextSequence(segs[i]) => Passes(q)
      BY <3>3, Zenon
    <3>5. AllOpen' /\ Exact'
      BY <1>0, <2>1, <2>2, <2>3, <3>2, <3>4, CuttingExact
    <3> QED BY <3>2, <3>5 DEF EInv
  <2>6. CASE /\ StartSequence(segs[op.i]) < op.seq
             /\ pc' = "setRead" /\ op' = [op EXCEPT !.i = 1, !.n = readIndex]
    <3>1. op'.kind = op.kind /\ op'.seq = op.seq /\ op'.i = 1 /\ op'.n = op.seq - segs[op.i].base
      BY <1>1, <2>6 DEF Op, readIndex
    <3>2. pc' \notin Uneven
      BY <2>6 DEF Uneven
    <3>3. \A i \in op.i..Len(segs) : \A q \in Nat :
            StartSequence(segs[i]) <= q /\ q < NextSequence(segs[i]) => Passes(q)
      BY <1>0, <3>1 DEF Passes, Cut
    <3>4. AllOpen' /\ Exact'
      BY <1>0, <2>1, <2>2, <2>3, <3>2, <3>3, CuttingExact
    <3>5. segs'[1] = segs[op.i]
      <4>1. Len(segs') = Len(segs) - op.i + 1 /\ \A i \in 1..Len(segs') : segs'[i] = segs[(op.i - 1) + i]
        BY <1>0, <2>1, <2>2, CutFacts
      <4>2. 1 \in 1..Len(segs') /\ (op.i - 1) + 1 = op.i
        BY <1>1, <2>1, <4>1
      <4> QED BY <4>1, <4>2
    <3>6. segs'[1].startIndex <= op'.n /\ segs'[1].base + op'.n = op'.seq
      <4>1. PICK x \in Nat, y \in Nat : x = segs[op.i].base /\ y = segs[op.i].startIndex
        BY <2>1, SegmentFacts
      <4>2. x + y < op.seq
        BY <2>6, <4>1 DEF StartSequence
      <4>3. y <= op.seq - x /\ x + (op.seq - x) = op.seq
        BY ONLY <1>1, <4>2, x \in Nat, y \in Nat
      <4> QED BY <3>1, <3>5, <4>1, <4>3
    <3>7. ExactControl'
      BY <1>4, <2>6, <3>1, <3>6 DEF ExactControl, CreateSteps
    <3> QED BY <3>4, <3>7 DEF EInv
  <2> QED BY <2>4, <2>5, <2>6
<1>5. CASE op.kind = "afterAll"
  <2>1. segs' = <<>> /\ pc' = "create"
    BY <1>5 DEF DropDone
  <2>2. 1..Len(segs') = {}
    BY <2>1
  <2>3. ExactControl'
    BY <2>1 DEF ExactControl, CreateSteps
  <2> QED BY <2>2, <2>3 DEF EInv, AllOpen, Exact
<1>6. CASE op.kind = "afterKeep"
  <2>1. op.keep \in 1..Len(segs) /\ 1 \in 1..Len(segs)
    BY <1>0, <1>1, <1>6, DropFacts
  <2>2. CutTo(1, op.keep) /\ pc' = "truncate" /\ op' = op
    BY <1>6 DEF DropDone, CutTo, Goto
  <2>3. pc' \notin Uneven /\ ExactControl'
    BY <2>2 DEF Uneven, ExactControl, CreateSteps
  <2>4. \A i \in 1..op.keep : segs[i].open
    BY <1>1, <1>2, <1>6, <2>1
  <2>5. \A i \in 1..op.keep : \A q \in Nat :
          StartSequence(segs[i]) <= q /\ q < NextSequence(segs[i]) => Passes(q)
    BY <1>0, <2>2 DEF Passes, Cut
  <2>6. AllOpen' /\ Exact'
    BY <1>0, <2>1, <2>2, <2>3, <2>4, <2>5, CuttingExact
  <2> QED BY <2>3, <2>6 DEF EInv
<1> QED BY <1>0, <1>3, <1>4, <1>5, <1>6, DropFacts

\* SetReadOffset moves the read start past exactly the records given up.
LEMMA SetReadExact ==
  ASSUME Faulty \cap LeavingCalls = {}, IInv, RInv, EInv, SetRead \/ SetReadSync \/ SetReadFails
  PROVE  EInv'
<1>0. /\ pc \in {"setRead", "setReadSync"} /\ acked' = acked /\ dir' = dir
      /\ pc \notin Uneven /\ pc # "truncateSync"
  BY DEF SetRead, SetReadSync, SetReadFails, FsWrite, FsSync, FsIdle, storageVars, Uneven
<1>1. /\ op.i \in 1..Len(segs) /\ op.n \in Nat /\ op.seq \in Nat /\ Len(segs) \in Nat
      /\ op.n <= segs[op.i].writeIndex /\ segs[op.i].startIndex <= op.n
      /\ \/ op.kind = "beforeAll" /\ op.i = Len(segs) /\ op.n = segs[op.i].writeIndex
         \/ op.kind = "beforeKeep" /\ op.i = 1 /\ segs[1].base + op.n = op.seq
  <2>1. /\ op.i \in 1..Len(segs) /\ op.n \in Nat /\ op.seq \in Nat /\ Len(segs) \in Nat
        /\ op.n <= segs[op.i].writeIndex
        /\ \/ op.kind = "beforeAll" /\ op.i = Len(segs)
           \/ op.kind = "beforeKeep" /\ op.i = 1
    BY <1>0, SMTT(20) DEF IInv, TypeOK, Op, Control, CutControl
  <2> QED BY <1>0, <2>1 DEF EInv, ExactControl
<1>2. \A i \in 1..Len(segs) : ~(i < op.i) => segs[i].open
  BY DEF EInv, AllOpen
<1>3. segs[op.i].open
  BY <1>1, <1>2
<1>4. CASE SetReadFails
  <2>1. pc \notin Faulty
    BY <1>0 DEF LeavingCalls
  <2>2. Unread(segs[op.i], op.n)
    BY <1>3, <1>4, <2>1 DEF SetReadFails, Fault
  <2>3. segs[op.i].writeIndex <= Len(Frames(op.i))
    BY <1>0, <1>1, <1>3 DEF RInv, OpenIsLive, Complete, Promised
  <2>4. segs[op.i].writeIndex \in Nat /\ Len(Frames(op.i)) \in Nat
    BY <1>1, SegmentFacts, FileFacts DEF Frames
  <2> QED BY <1>1, <2>2, <2>3, <2>4 DEF Unread, Frames
<1>5. CASE SetRead
  <2> DEFINE f == [files[segs[op.i].ino] EXCEPT !.meta = op.n]
  <2>1. FsWrite(segs[op.i].ino, f) /\ pc' = "setReadSync" /\ UNCHANGED <<segs, op>>
    BY <1>5 DEF SetRead, Goto
  <2>2. segs[op.i].ino \in 1..Len(files) /\ files[segs[op.i].ino] \in File
    BY <1>1, SegmentFacts
  <2>3. f \in File /\ f.frames = files[segs[op.i].ino].frames
    BY <1>1, <2>2, ZenonT(30) DEF File
  <2> HIDE DEF f
  <2>4. \A m \in 1..Len(files) : files'[m] = IF m = segs[op.i].ino THEN f ELSE files[m]
    BY <2>1, <2>2, <2>3, TypeParts, FsWriteFacts DEF IInv
  <2>5. \A m \in 1..Len(files) : m \in dir' => m \in dir /\ files'[m].frames = files[m].frames
    BY <1>0, <2>3, <2>4, Zenon
  <2>6. pc' \notin Uneven /\ pc' \in Cutting /\ pc \in Cutting
    BY <1>0, <2>1 DEF Uneven, Cutting
  <2>7. AllOpen'
    BY <1>0, <2>1, <2>6 DEF EInv, AllOpen, Live
  <2>8. \A i \in 1..Len(segs) : \A q \in Nat :
          StartSequence(segs[i]) <= q /\ q < NextSequence(segs[i]) => Passes(q)
    BY <1>0, <2>1 DEF Passes, Cut
  <2>9. Exact'
    BY <1>0, <2>1, <2>5, <2>6, <2>8, QuietExact DEF EInv
  <2>10. ExactControl'
    BY <1>0, <1>1, <2>1 DEF ExactControl, CreateSteps
  <2> QED BY <2>7, <2>9, <2>10 DEF EInv
<1>6. CASE SetReadSync
  <2> DEFINE t == [segs[op.i] EXCEPT !.startIndex = op.n]
  <2>1. files' = files /\ Return("ok")
    BY <1>6 DEF SetReadSync, FsSync
  <2>2. pc' \in {"idle", "down"} /\ op'.kind = "none"
    BY <2>1 DEF Return, NoOp
  <2>3. pc' \notin Uneven /\ ExactControl'
    BY <2>2 DEF Uneven, ExactControl, CreateSteps
  <2>4. PICK a \in Nat : a = op.i - 1
    BY <1>1
  <2>5. /\ Len(segs') \in Nat /\ Len(segs') = Len(segs) - op.i + 1
        /\ segs'[1] = t
        /\ \A i \in 2..Len(segs') : segs'[i] = segs[a + i]
    BY <1>6, <2>4, ReadMoved, SMTT(20)
  <2>6. /\ t.ino = segs[op.i].ino /\ t.base = segs[op.i].base /\ t.open = segs[op.i].open
        /\ t.writeIndex = segs[op.i].writeIndex /\ t.writeOffset = segs[op.i].writeOffset
        /\ t.startIndex = op.n
    BY <1>1, SegmentFacts, Zenon DEF Segment
  <2> HIDE DEF t
  <2>a. PICK e \in Nat, g \in Nat, h \in Nat : e = Len(segs) /\ g = Len(segs') /\ h = op.i
    BY <1>1, <2>5
  <2>b. g = e - h + 1 /\ h \in 1..e /\ a = h - 1
    BY <1>1, <2>4, <2>5, <2>a, Zenon
  <2>c. /\ a + 1 = h /\ g + a <= e
        /\ \A i \in 1..g : (i = 1 \/ i \in 2..g) /\ a + i \in 1..e /\ ~(a + i < h)
    BY ONLY <2>b, a \in Nat, e \in Nat, g \in Nat, h \in Nat, SMTT(30)
  <2>7. a + 1 = op.i /\ Len(segs') + a <= Len(segs)
    BY <2>a, <2>c, Zenon
  <2>8. \A i \in 1..Len(segs') :
          (i = 1 \/ i \in 2..Len(segs')) /\ a + i \in 1..Len(segs) /\ ~(a + i < op.i)
    BY <2>a, <2>c, Zenon
  <2>9. \A i \in 1..Len(segs) : segs[i].startIndex \in Nat /\ segs[i].startIndex <= segs[i].startIndex
    BY SegmentFacts
  <2>10. ASSUME NEW i \in 1..Len(segs')
         PROVE  /\ SamePlace(segs'[i], segs[a + i]) /\ segs'[i].open
                /\ segs'[i].startIndex \in Nat /\ segs[a + i].startIndex <= segs'[i].startIndex
    <3>1. a + i \in 1..Len(segs) /\ segs[a + i].open
      BY <1>2, <2>8
    <3>2. CASE i = 1
      BY <1>1, <2>5, <2>6, <2>7, <3>1, <3>2 DEF SamePlace
    <3>3. CASE i \in 2..Len(segs')
      BY <2>5, <2>9, <3>1, <3>3, Zenon DEF SamePlace
    <3> QED BY <2>8, <3>2, <3>3
  <2>11. AllOpen'
    BY <2>10, Zenon DEF AllOpen
  <2>12. ASSUME NEW i \in 1..Len(segs'), NEW q \in Nat,
                StartSequence(segs'[i]) <= q, q < NextSequence(segs'[i])
         PROVE  Passes(q)
    <3>1. PICK x \in Nat, y \in Nat, w \in Nat :
            x = segs[op.i].base /\ y = op.n /\ w = segs[op.i].writeIndex
      BY <1>1, SegmentFacts
    <3>2. CASE op.kind = "beforeAll"
      <4>a. op.i = Len(segs) /\ op.n = segs[op.i].writeIndex
        BY <1>1, <3>2
      <4>b. g = 1
        BY ONLY <2>a, <2>b, <4>a, SMTT(30)
      <4>1. i = 1 /\ y = w
        BY <2>a, <3>1, <4>a, <4>b, SMTT(20)
      <4>2. x + y <= q /\ q < x + y
        BY <2>5, <2>6, <2>12, <3>1, <4>1 DEF StartSequence, NextSequence
      <4> QED BY ONLY <4>2, x \in Nat, y \in Nat, q \in Nat, SMTT(30)
    <3>3. CASE op.kind = "beforeKeep"
      <4>1. op.i = 1 /\ a = 0 /\ x + y = op.seq /\ y <= w
        BY <1>1, <2>4, <3>1, <3>3, SMTT(20)
      <4>2. CASE i = 1
        <5>1. x + y <= q
          BY <2>5, <2>6, <2>12, <3>1, <4>2 DEF StartSequence
        <5>2. ~(q < op.seq)
          BY ONLY <1>1, <4>1, <5>1, x \in Nat, y \in Nat, q \in Nat, SMTT(30)
        <5> QED BY <1>0, <3>3, <5>2 DEF Passes, Cut
      <4>3. CASE i # 1
        <5>1. i \in 1..Len(segs) /\ segs'[i] = segs[i] /\ 1 < i /\ 1 \in 1..Len(segs)
          BY <1>1, <2>5, <2>8, <4>1, <4>3, SMTT(20)
        <5>2. PICK u \in Nat, v \in Nat : u = segs[i].base /\ v = segs[i].startIndex
          BY <5>1, SegmentFacts
        <5>3. x + w <= u
          BY <3>1, <4>1, <5>1, <5>2 DEF RInv, Sorted, NextSequence
        <5>4. u + v <= q
          BY <2>12, <5>1, <5>2 DEF StartSequence
        <5>5. ~(q < op.seq)
          BY ONLY <1>1, <4>1, <5>3, <5>4, x \in Nat, y \in Nat, w \in Nat, u \in Nat, v \in Nat, q \in Nat, SMTT(30)
        <5> QED BY <1>0, <3>3, <5>5 DEF Passes, Cut
      <4> QED BY <4>2, <4>3
    <3> QED BY <1>1, <3>2, <3>3
  <2>13. /\ \A i \in 1..Len(segs') : SamePlace(segs'[i], segs[a + i])
         /\ \A i \in 1..Len(segs') :
              segs'[i].startIndex \in Nat /\ segs[a + i].startIndex <= segs'[i].startIndex
         /\ \A i \in 1..Len(segs') : \A q \in Nat :
              StartSequence(segs'[i]) <= q /\ q < NextSequence(segs'[i]) => Passes(q)
         /\ \A n \in 1..Len(files) : n \in dir' => n \in dir /\ files'[n].frames = files[n].frames
    BY <1>0, <2>1, <2>10, <2>12, Zenon
  <2>14. Exact'
    <3>1. Exact /\ Len(segs') \in Nat
      BY <2>5 DEF EInv
    <3> QED BY <1>0, <2>3, <2>7, <2>13, <3>1, ExactCarry, Zenon
  <2> QED BY <2>3, <2>11, <2>14 DEF EInv
<1> QED BY <1>4, <1>5, <1>6

\* TruncateAfter cuts the last segment, its file first, behind the last of the
\* records still promised.
LEMMA TruncateExact ==
  ASSUME Faulty \cap LeavingCalls = {}, IInv, RInv, EInv, TruncateFile \/ TruncateSync \/ TruncateFails
  PROVE  EInv'
<1>0. /\ pc \in {"truncate", "truncateSync"} /\ acked' = acked /\ dir' = dir /\ pc \notin Cutting
  BY DEF TruncateFile, TruncateSync, TruncateFails, FsWrite, FsSync, FsIdle, storageVars, Cutting
<1>1. /\ segs # <<>> /\ Holds(lastSegment, op.seq) /\ op.kind = "afterKeep" /\ op.seq \in Nat
      /\ op \in Op
  BY <1>0 DEF IInv, TypeOK, Op, Control, CutControl, RInv, ReadControl
<1>2. PICK l \in Nat \ {0} : l = Len(segs)
  BY <1>1, LastFacts
<1>3. l \in 1..Len(segs) /\ lastSegment = segs[l]
  BY <1>1, <1>2, LastFacts
<1>4. segs[l].open /\ Live(l)
  BY <1>0, <1>3 DEF EInv, AllOpen, RInv, OpenIsLive
<1> DEFINE f == files[segs[l].ino]
           k == keepIdx
<1>5. k \in Nat /\ k <= segs[l].writeIndex /\ k = op.seq + 1 - segs[l].base
  BY <1>1, <1>3, KeepIdxFacts DEF keepIdx
<1>6. /\ segs[l].base \in Nat /\ segs[l].writeIndex \in Nat /\ f \in File /\ Ordered(f.frames)
      /\ Len(f.frames) \in Nat
  BY <1>3, SegmentFacts, FileFacts
<1>7. k <= Len(f.frames)
  <2>1. Promised(l) <= Len(Frames(l)) /\ Promised(l) \in {k, segs[l].writeIndex}
    BY <1>3, <1>4 DEF RInv, Complete, Promised
  <2> QED BY <1>5, <1>6, <2>1 DEF Frames
<1>8. CASE TruncateFails
  <2>1. pc \notin Faulty
    BY <1>0 DEF LeavingCalls
  <2>2. pc = "truncate" /\ Unread(lastSegment, k)
    BY <1>3, <1>4, <1>8, <2>1 DEF TruncateFails, Fault
  <2> QED BY <1>3, <1>5, <1>6, <1>7, <2>2, SMTT(20) DEF Unread
<1>9. CASE TruncateFile
  <2>1. PICK off \in keepOffsets :
             FsWrite(lastSegment.ino, Truncated(f, k, off)) /\ op' = [op EXCEPT !.n = off]
    BY <1>3, <1>9, Zenon DEF TruncateFile
  <2>2. pc' = "truncateSync" /\ segs' = segs
    BY <1>9 DEF TruncateFile
  <2>3. off \in Nat
    BY <1>1, KeepOffsetFacts
  <2>4. op'.kind = op.kind /\ op'.seq = op.seq
    BY <1>1, <2>1 DEF Op
  <2>5. keepIdx' = k
    BY <2>2, <2>4 DEF keepIdx, lastSegment
  <2> DEFINE g == Truncated(f, k, off)
  <2> HIDE DEF f, k
  <2>6. g \in File
    BY <1>5, <1>6, <2>3, TruncatedFile, Zenon
  <2>7. Len(g.frames) = k /\ \A q \in 1..k : g.frames[q] = f.frames[q]
    <3>1. f \in File /\ k \in Nat /\ k <= Len(f.frames) /\ off \in Nat
      BY <1>5, <1>6, <1>7, <2>3
    <3> QED BY ONLY <3>1, TruncatedFrames
  <2>8. FsWrite(lastSegment.ino, g)
    BY <2>1
  <2> HIDE DEF g
  <2>9. \A i \in 1..segs[l].writeIndex : i <= Len(g.frames) => i <= Len(f.frames) /\ g.frames[i] = f.frames[i]
    BY <1>5, <1>6, <1>7, <2>7, SMTT(20)
  <2>10. Ends(Len(segs))'
    <3>1. files'[segs[Len(segs)].ino] = g
      BY <1>1, <2>6, <2>8, LastFile
    <3>2. pc' \in Uneven /\ pc' # "writing" /\ pc' # "syncAppend"
      BY <2>2 DEF Uneven
    <3>3. Len(Frames(Len(segs))') = keepIdx'
      BY <2>2, <2>5, <2>7, <3>1 DEF Frames
    <3> QED BY <2>2, <3>2, <3>3 DEF Ends
  <2>11. AllOpen' /\ Exact'
    <3>1. \A i \in 1..lastSegment.writeIndex : i <= Len(g.frames) =>
            /\ i <= Len(files[lastSegment.ino].frames)
            /\ g.frames[i] = files[lastSegment.ino].frames[i]
      BY <1>3, <2>9 DEF f
    <3> QED BY <1>0, <1>1, <2>2, <2>4, <2>6, <2>8, <2>10, <3>1, OverExact
  <2>12. ExactControl'
    BY <2>2 DEF ExactControl, CreateSteps
  <2> QED BY <2>11, <2>12 DEF EInv
<1>10. CASE TruncateSync
  <2>1. pc = "truncateSync" /\ files' = files /\ MovesLast(k, op.n) /\ Return("ok")
    BY <1>10 DEF TruncateSync, FsSync, MovesLast
  <2>2. pc' \in {"idle", "down"} /\ op'.kind = "none"
    BY <2>1 DEF Return, NoOp
  <2>3. pc' \notin Uneven /\ ExactControl'
    BY <2>2 DEF Uneven, ExactControl, CreateSteps
  <2>4. Ends(l) /\ Owed(l)
    BY <1>3, <1>4 DEF EInv, Exact
  <2>5. Len(f.frames) = k
    <3>1. pc \in Uneven
      BY <2>1 DEF Uneven
    <3> QED BY <1>2, <2>1, <2>4, <3>1 DEF Ends, Frames
  <2> DEFINE t == [segs[l] EXCEPT !.writeIndex = k, !.writeOffset = op.n]
  <2> HIDE DEF k
  <2>6. /\ t \in Segment /\ t.ino = segs[l].ino /\ t.base = segs[l].base /\ t.writeIndex = k
        /\ t.startIndex = segs[l].startIndex /\ t.open = segs[l].open
    <3>1. segs[l] \in Segment /\ op.n \in Nat
      BY <1>1, <1>3, SegmentFacts DEF Op
    <3>2. t \in Segment
      BY <1>5, <3>1, MovedFacts
    <3> QED BY <3>1, <3>2 DEF Segment
  <2>7. segs \in Seq(Segment)
    BY DEF IInv, TypeOK
  <2>8. segs' = [segs EXCEPT ![l] = t]
    BY <1>2, <1>3, <2>1, <2>7, Zenon DEF MovesLast
  <2> HIDE DEF t
  <2>9. /\ Len(segs') = l /\ segs'[l] = t
        /\ \A i \in 1..l : i # l => segs'[i] = segs[i]
    BY <1>2, <1>3, <2>6, <2>7, <2>8, SMTT(20)
  <2>10. \A q \in Nat : q < segs[l].base + k => Passes(q)
    <3>1. ASSUME NEW q \in Nat, q < segs[l].base + k
          PROVE  ~(q > op.seq)
      <4>1. PICK b \in Nat, x \in Nat, e \in Nat : b = segs[l].base /\ x = k /\ e = op.seq
        BY <1>1, <1>5, <1>6
      <4>2. q < b + x /\ x = e + 1 - b
        BY <1>5, <3>1, <4>1
      <4>3. ~(q > e)
        BY ONLY <4>2, b \in Nat, x \in Nat, e \in Nat, q \in Nat, SMTT(30)
      <4> QED BY <4>1, <4>3
    <3> QED BY <1>0, <1>1, <3>1 DEF Passes, Cut
  <2>11. \A i \in 1..l : i # l => \A q \in Nat : segs[i].base <= q /\ q < NextSequence(segs[i]) => Passes(q)
    <3> SUFFICES ASSUME NEW i \in 1..l, i # l, NEW q \in Nat, q < NextSequence(segs[i])
                 PROVE  Passes(q)
      BY Zenon
    <3>1. NextSequence(segs[i]) <= segs[l].base /\ NextSequence(segs[i]) \in Nat
      <4>1. i \in 1..Len(segs) /\ i < l
        BY <1>2
      <4> QED BY <1>3, <4>1, SegmentFacts DEF RInv, Sorted
    <3>2. q < segs[l].base + k
      BY <1>5, <1>6, <3>1
    <3> QED BY <2>10, <3>2
  <2>12. ASSUME Live(l)'
         PROVE  Ends(l)' /\ Owed(l)'
    <3>1. /\ segs'[l].ino = segs[l].ino /\ segs'[l].base = segs[l].base
          /\ segs'[l].startIndex = segs[l].startIndex /\ segs'[l].writeIndex = k
      BY <2>6, <2>9
    <3>2. Frames(l)' = Frames(l) /\ Frames(l) = f.frames
      BY <2>1, <3>1 DEF Frames
    <3>3. Ends(l)'
      BY <2>3, <2>5, <3>1, <3>2, Zenon DEF Ends
    <3>4. PICK m \in Nat : m = k
      BY <1>5
    <3>5. PICK G : G = f.frames
      OBVIOUS
    <3>6. /\ l \in 1..Len(segs) /\ segs'[l].writeIndex \in Nat /\ m \in Nat /\ m <= segs[l].writeIndex
      BY <1>3, <1>5, <3>1, <3>4
    <3>7. \A i \in 1..m : i <= Len(G) => i <= Len(Frames(l)) /\ G[i] = Frames(l)[i]
      BY <3>2, <3>5, Zenon
    <3>8. \A q \in Nat : segs[l].base <= q /\ q < segs[l].base + m => Passes(q)
      BY <2>10, <3>4, Zenon
    <3>9. \A i \in (m + 1)..segs'[l].writeIndex : <<segs[l].base + i - 1, G[i].id>> \in acked'
      <4>1. (m + 1)..segs'[l].writeIndex = {}
        BY <1>5, <3>1, <3>4
      <4> QED BY <4>1, Zenon
    <3>10. files'[segs[l].ino].frames = G
      BY <2>1, <3>5
    <3>11. Owed(l)'
      BY ONLY IInv, <2>4, <3>1, <3>6, <3>7, <3>8, <3>9, <3>10, OwedLast, ZenonT(40)
    <3> QED BY <3>3, <3>11
  <2>13. /\ \A i \in 1..l : i # l => files'[segs[i].ino].frames = files[segs[i].ino].frames
         /\ segs'[l].open = segs[l].open /\ l = Len(segs')
    BY <2>1, <2>6, <2>9
  <2>14. AllOpen' /\ Exact'
    BY <1>0, <1>2, <2>9, <2>11, <2>12, <2>13, LastExact, ZenonT(40)
  <2> QED BY <2>3, <2>14 DEF EInv
<1> QED BY <1>8, <1>9, <1>10
\* The chain that Load has created has no frames.
LEMMA InitExact == Init => EInv
<1> SUFFICES ASSUME Init PROVE EInv
  OBVIOUS
<1>1. /\ pc = "idle" /\ op.kind = "none" /\ Len(segs) = 1 /\ segs[1].ino = 1 /\ segs[1].open
      /\ segs[1].startIndex = 0 /\ segs[1].writeIndex = 0 /\ files[1].frames = <<>>
  BY DEF Init, newSegment, NewHeader, EmptyFile, NoOp
<1>2. AllOpen /\ ExactControl
  BY <1>1 DEF AllOpen, ExactControl, CreateSteps
<1>3. \A i \in 1..Len(segs) : i = 1 /\ Frames(i) = <<>>
  BY <1>1 DEF Frames
<1>4. (segs[1].startIndex + 1)..segs[1].writeIndex = {} /\ pc \notin Uneven
  BY <1>1 DEF Uneven
<1>5. Exact
  BY <1>1, <1>3, <1>4 DEF Exact, Ends, Owed
<1> QED BY <1>2, <1>5 DEF EInv

\* Between two calls, every frame that a scan delivers carries a record that was
\* appended with success and not taken away since.
LEMMA ScanAdds ==
  ASSUME IInv, EInv, pc = "idle"
  PROVE  Visible \subseteq acked
<1> SUFFICES ASSUME NEW i \in 1..Len(segs), segs[i].ino \in dir, NEW r \in Scan(i)
             PROVE  r \in acked
  BY DEF Visible
<1>1. Ends(i) /\ Owed(i)
  BY DEF EInv, Exact, Live
<1>2. pc \notin Uneven /\ \A q : ~Cut(q)
  BY DEF Uneven, EInv, ExactControl, Cut
<1>3. Len(Frames(i)) = segs[i].writeIndex
  BY <1>1, <1>2, Zenon DEF Ends
<1>4. PICK k \in (segs[i].startIndex + 1)..Len(Frames(i)) : r = <<segs[i].base + k - 1, Frames(i)[k].id>>
  BY Zenon DEF Scan, Frames
<1>5. segs[i].startIndex \in Nat /\ segs[i].writeIndex \in Nat
  BY SegmentFacts
<1>6. k <= Len(Frames(i)) /\ k \in (segs[i].startIndex + 1)..segs[i].writeIndex
  BY <1>3, <1>4, <1>5
<1> QED BY <1>1, <1>2, <1>4, <1>6, Zenon DEF Owed

=============================================================================

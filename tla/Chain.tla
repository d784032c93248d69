------------------------------- MODULE Chain -------------------------------
(***************************************************************************)
(* A loaded segment chain (internal/segment/chain.go) and the segments it  *)
(* drives (internal/segment/segment.go), from the moment Load has created  *)
(* the first segment.                                                      *)
(*                                                                         *)
(* Append, TruncateBefore and TruncateAfter run under chain.mu, one at a   *)
(* time; each is a sequence of steps with at most one storage call per     *)
(* step, so that a crash (module Recovery) or a concurrent Sync, which     *)
(* does not hold the lock, can come between any two calls.  pc and op are  *)
(* the control point and the locals of the handler that holds the lock.    *)
(***************************************************************************)
EXTENDS Storage

CONSTANTS
  StartSeq,        \* StorageOptions.StartSequence
  MaxSegmentSize,  \* bytes in a segment file, 0: unbounded
  MaxDiskSize,     \* bytes in all segment files, 0: unbounded
  MaxSegments,     \* number of segments, 0: unbounded
  SyncOnAppend,    \* fsync in every Append
  Batches,         \* the batches callers append, as running totals of sizes
  TruncateSeqs,    \* the arguments of the truncations
  Ops,             \* the operations callers use
  Faulty,          \* the storage calls that may return an error
  MaxFaults,       \* bound: how many of them do
  MaxRecords,      \* bound: records handed to Append
  MaxFiles         \* bound: segment files created

VARIABLES
  segs,      \* chain.segments
  diskSize,  \* chain.diskSize
  pc,        \* control point of the handler holding chain.mu
  op,        \* its parameters and locals
  ret,       \* what the last handler returned
  syncer,    \* a Sync call: the inodes it has still to fsync
  acked,     \* history: <<seq, id>> of every record appended with success
             \* and neither truncated nor reaped since
  durable,   \* history: those of them reported durable
  nextId,    \* history: records handed to Append so far
  faults     \* errors returned by storage so far

chainVars == <<segs, diskSize, pc, op, ret, syncer, acked, durable, nextId, faults>>

vars == <<chainVars, storageVars>>

OpNames == {"append", "truncateBefore", "truncateAfter", "sync", "close"}

ASSUME ConfigAssumption ==
  /\ StartSeq \in Nat
  /\ MaxSegmentSize \in Nat
  /\ MaxDiskSize \in Nat
  /\ MaxSegments \in Nat
  /\ SyncOnAppend \in BOOLEAN

\* Load creates the first segment without looking at the budget: with a
\* MaxDiskSize below the size of a header the log starts over it.
ASSUME BudgetAssumption == MaxDiskSize = 0 \/ MaxDiskSize >= HeaderSize

ASSUME InputAssumption ==
  /\ \A b \in Batches : IsBatch(b)
  /\ TruncateSeqs \subseteq Nat
  /\ Ops \subseteq OpNames
  /\ MaxFaults \in Nat
  /\ MaxRecords \in Nat
  /\ MaxFiles \in Nat

-----------------------------------------------------------------------------
(***************************************************************************)
(* Segments and the locals of the handlers.                                *)
(***************************************************************************)
Segment == [ino : Nat, base : Nat, startIndex : Nat, writeIndex : Nat,
            writeOffset : Nat, open : BOOLEAN]

newSegment(ino, base) ==
  [ino |-> ino, base |-> base, startIndex |-> 0, writeIndex |-> 0,
   writeOffset |-> HeaderSize, open |-> TRUE]

NextSequence(s) == s.base + s.writeIndex

StartSequence(s) == s.base + s.startIndex

Size(s) == s.writeOffset

lastSegment == segs[Len(segs)]

\* kind  which handler (the two truncations have a handler for each of their
\*       two loops);
\* batch, id  the argument of Append and the id of the record before it;
\* seq, keep  the argument of a truncation and the index of the segment that
\*       holds it;
\* i, n  the loop over segs[i..n] that is closed and removed, afterwards the
\*       segment and the frame index SetReadOffset is given, or the offset
\*       at which Truncate cuts;
\* base  the start sequence given to Create.
Kinds == {"none", "append", "beforeAll", "beforeKeep", "afterAll", "afterKeep", "load"}

NoOp ==
  [kind |-> "none", batch |-> <<>>, id |-> 0, seq |-> 0, keep |-> 0,
   i |-> 0, n |-> 0, base |-> 0]

Idle == [on |-> FALSE, todo |-> <<>>, upto |-> {}]

Goto(l) == pc' = l /\ UNCHANGED <<op, ret>>

\* A failing Load leaves no usable chain; any other handler leaves it loaded.
Return(r) ==
  /\ pc' = IF op.kind = "load" /\ r # "ok" THEN "down" ELSE "idle"
  /\ ret' = r
  /\ op' = NoOp

\* The storage call at this point returns an error.
Fault(call) ==
  /\ call \in Faulty
  /\ faults < MaxFaults
  /\ faults' = faults + 1

\* What acked and durable keep when only the records in keep remain promised.
Retain(keep) == acked' = keep /\ durable' = durable \cap keep

Init ==
  /\ files = <<NewHeader(EmptyFile(StartSeq))>>
  /\ stable = files
  /\ dir = {1}
  /\ stableDir = {1}
  /\ segs = <<newSegment(1, StartSeq)>>
  /\ diskSize = HeaderSize
  /\ pc = "idle"
  /\ op = NoOp
  /\ ret = "ok"
  /\ syncer = Idle
  /\ acked = {}
  /\ durable = {}
  /\ nextId = 0
  /\ faults = 0

-----------------------------------------------------------------------------
(***************************************************************************)
(* Append: admission, the reap loop and rotation.                          *)
(***************************************************************************)
TooLarge(batch) ==
  MaxSegmentSize > 0 /\ HeaderSize + AppendSize(batch) > MaxSegmentSize

rotate ==
  MaxSegmentSize > 0 /\ Size(lastSegment) + AppendSize(op.batch) > MaxSegmentSize

requiredMutant == AppendSize(op.batch)

required == AppendSize(op.batch) + (IF rotate THEN HeaderSize ELSE 0)

canReapMutant == Len(segs) > 2

canReap == Len(segs) > 1

nextStartSeqMutant == NextSequence(lastSegment) + 1

nextStartSeq == NextSequence(lastSegment)

overDisk == MaxDiskSize > 0 /\ diskSize + required > MaxDiskSize

needReapMutant == overDisk

needReap ==
  \/ rotate /\ MaxSegments > 0 /\ Len(segs) >= MaxSegments
  \/ overDisk

AppendTooLarge(batch) ==
  /\ pc = "idle" /\ "append" \in Ops
  /\ TooLarge(batch)
  /\ Return("batchTooLarge")
  /\ FsIdle
  /\ UNCHANGED <<segs, diskSize, syncer, acked, durable, nextId, faults>>

AppendCall(batch) ==
  /\ pc = "idle" /\ "append" \in Ops
  /\ ~TooLarge(batch)
  /\ segs # <<>>
  /\ nextId + Len(batch) <= MaxRecords
  /\ Len(files) < MaxFiles
  /\ pc' = "admit"
  /\ op' = [NoOp EXCEPT !.kind = "append", !.batch = batch, !.id = nextId]
  /\ nextId' = nextId + Len(batch)
  /\ FsIdle
  /\ UNCHANGED <<segs, diskSize, ret, syncer, acked, durable, faults>>

\* chain.segments[len(chain.segments)-1] of an empty chain.
AppendPanics(batch) ==
  /\ pc = "idle" /\ "append" \in Ops
  /\ ~TooLarge(batch)
  /\ segs = <<>>
  /\ pc' = "down"
  /\ syncer' = Idle
  /\ FsIdle
  /\ UNCHANGED <<segs, diskSize, op, ret, acked, durable, nextId, faults>>

Admit ==
  /\ pc = "admit"
  /\ \/ /\ needReap /\ ~canReap
        /\ Return(IF overDisk THEN "diskFull" ELSE "segmentFull")
     \/ /\ needReap /\ canReap
        /\ Goto("reap")
     \/ /\ ~needReap /\ rotate
        /\ pc' = "create"
        /\ op' = [op EXCEPT !.base = nextStartSeq]
        /\ UNCHANGED ret
     \/ /\ ~needReap /\ ~rotate
        /\ Goto("write")
  /\ FsIdle
  /\ UNCHANGED <<segs, diskSize, syncer, acked, durable, nextId, faults>>

\* reapOldestLocked: remove, account, and only then close.
ReapOldest ==
  /\ pc = "reap"
  /\ segs[1].ino \in dir
  /\ FsRemove(segs[1].ino)
  /\ segs' = Tail(segs)
  /\ diskSize' = diskSize - Size(segs[1])
  /\ Retain({r \in acked : r[1] >= NextSequence(segs[1])})
  /\ \/ segs[1].open /\ Goto("admit") /\ UNCHANGED faults
     \/ segs[1].open /\ Fault("close") /\ Return("error")
     \/ ~segs[1].open /\ Return("error") /\ UNCHANGED faults
  /\ UNCHANGED <<syncer, nextId>>

\* Tries again instead of giving up.
ReapFailsMutant ==
  /\ pc = "reap" /\ segs[1].ino \notin dir
  /\ Goto("admit")
  /\ FsIdle
  /\ UNCHANGED <<segs, diskSize, syncer, acked, durable, nextId, faults>>

ReapFails ==
  /\ pc = "reap"
  /\ \/ segs[1].ino \notin dir /\ UNCHANGED faults
     \/ segs[1].ino \in dir /\ Fault("remove")
  /\ Return("error")
  /\ FsIdle
  /\ UNCHANGED <<segs, diskSize, syncer, acked, durable, nextId>>

-----------------------------------------------------------------------------
(***************************************************************************)
(* segment.Create, for a rotation, for a chain truncated away and for the  *)
(* first Load.  No error path removes the file again.                      *)
(***************************************************************************)
CreateFile ==
  /\ pc = "create"
  /\ ~Exists(op.base)
  /\ FsCreate(op.base)
  /\ Goto("writeHeader")
  /\ UNCHANGED <<segs, diskSize, syncer, acked, durable, nextId, faults>>

CreateFileFails ==
  /\ pc = "create"
  /\ \/ Exists(op.base) /\ UNCHANGED faults
     \/ ~Exists(op.base) /\ Fault("create")
  /\ Return("error")
  /\ FsIdle
  /\ UNCHANGED <<segs, diskSize, syncer, acked, durable, nextId>>

WriteHeader ==
  /\ pc = "writeHeader"
  /\ FsWrite(Len(files), NewHeader(files[Len(files)]))
  /\ Goto("syncHeader")
  /\ UNCHANGED <<segs, diskSize, syncer, acked, durable, nextId, faults>>

WriteHeaderFails ==
  /\ pc = "writeHeader"
  /\ Fault("writeHeader")
  /\ \/ FsIdle
     \/ FsWrite(Len(files), [files[Len(files)] EXCEPT !.hdr = "torn", !.size = HeaderSize - 1])
  /\ Return("error")
  /\ UNCHANGED <<segs, diskSize, syncer, acked, durable, nextId>>

\* Does not force the header out.
SyncHeaderMutant ==
  /\ pc = "syncHeader"
  /\ FsIdle
  /\ Goto("syncDir")
  /\ UNCHANGED <<segs, diskSize, syncer, acked, durable, nextId, faults>>

SyncHeader ==
  /\ pc = "syncHeader"
  /\ FsSync(Len(files))
  /\ Goto("syncDir")
  /\ UNCHANGED <<segs, diskSize, syncer, acked, durable, nextId, faults>>

\* Does not account for the new header.
SyncDirectoryMutant ==
  /\ pc = "syncDir"
  /\ FsSyncDir
  /\ segs' = Append(segs, newSegment(Len(files), op.base))
  /\ IF op.kind = "append" THEN Goto("write") ELSE Return("ok")
  /\ UNCHANGED <<diskSize, syncer, acked, durable, nextId, faults>>

SyncDirectory ==
  /\ pc = "syncDir"
  /\ FsSyncDir
  /\ segs' = Append(segs, newSegment(Len(files), op.base))
  /\ diskSize' = diskSize + HeaderSize
  /\ IF op.kind = "append" THEN Goto("write") ELSE Return("ok")
  /\ UNCHANGED <<syncer, acked, durable, nextId, faults>>

SyncNewFails ==
  /\ pc \in {"syncHeader", "syncDir"}
  /\ Fault(pc)
  /\ Return("error")
  /\ FsIdle
  /\ UNCHANGED <<segs, diskSize, syncer, acked, durable, nextId>>

-----------------------------------------------------------------------------
(***************************************************************************)
(* segment.Append: seek, writev, fsync when configured, and on an error    *)
(* Trim back to the offset the segment had.                                *)
(***************************************************************************)
\* The last segment's file with the batch written up to frame j, byte k.
WithBatch(j, k) ==
  Written(files[lastSegment.ino], lastSegment.writeIndex, lastSegment.writeOffset,
          op.batch, op.id, j, k)

\* In memory: the segment's write position, then the chain's accounting.
CommitAppend ==
  LET n == Len(op.batch)
      new == {<<NextSequence(lastSegment) + i - 1, op.id + i>> : i \in 1..n}
  IN /\ segs' = [segs EXCEPT ![Len(segs)].writeIndex = @ + n,
                             ![Len(segs)].writeOffset = @ + AppendSize(op.batch)]
     /\ diskSize' = diskSize + AppendSize(op.batch)
     /\ acked' = acked \cup new
     /\ durable' = IF SyncOnAppend THEN durable \cup new ELSE durable
     /\ Return("ok")

\* writev is not atomic: it has got to frame j, byte k, and goes on.
WriteBegin ==
  /\ pc = "write"
  /\ lastSegment.open
  /\ \E j \in 0..(Len(op.batch) - 1) :
       \E k \in {0} \cup Cuts(FrameSize(op.batch, j + 1)) :
         FsWrite(lastSegment.ino, WithBatch(j, k))
  /\ Goto("writing")
  /\ UNCHANGED <<segs, diskSize, syncer, acked, durable, nextId, faults>>

\* Seek on a closed file fails, and so does the Trim that follows.
WriteClosed ==
  /\ pc = "write"
  /\ ~lastSegment.open
  /\ Return("error")
  /\ FsIdle
  /\ UNCHANGED <<segs, diskSize, syncer, acked, durable, nextId, faults>>

WriteEnd ==
  /\ pc = "writing"
  /\ FsWrite(lastSegment.ino, WithBatch(Len(op.batch), 0))
  /\ IF SyncOnAppend
     THEN Goto("syncAppend") /\ UNCHANGED <<segs, diskSize, acked, durable>>
     ELSE CommitAppend
  /\ UNCHANGED <<syncer, nextId, faults>>

\* Reports the batch durable without forcing it out.
SyncAppendMutant ==
  /\ pc = "syncAppend"
  /\ FsIdle
  /\ CommitAppend
  /\ UNCHANGED <<syncer, nextId, faults>>

SyncAppend ==
  /\ pc = "syncAppend"
  /\ FsSync(lastSegment.ino)
  /\ CommitAppend
  /\ UNCHANGED <<syncer, nextId, faults>>

PersistFails ==
  /\ pc \in {"writing", "syncAppend"}
  /\ Fault(pc)
  /\ Goto("trim")
  /\ FsIdle
  /\ UNCHANGED <<segs, diskSize, syncer, acked, durable, nextId>>

\* Cuts the whole segment.
TrimMutant ==
  /\ pc = "trim"
  /\ FsWrite(lastSegment.ino, Truncated(files[lastSegment.ino], 0, HeaderSize))
  /\ Goto("trimSync")
  /\ UNCHANGED <<segs, diskSize, syncer, acked, durable, nextId, faults>>

Trim ==
  /\ pc = "trim"
  /\ FsWrite(lastSegment.ino,
             Truncated(files[lastSegment.ino], lastSegment.writeIndex, lastSegment.writeOffset))
  /\ Goto("trimSync")
  /\ UNCHANGED <<segs, diskSize, syncer, acked, durable, nextId, faults>>

TrimSync ==
  /\ pc = "trimSync"
  /\ FsSync(lastSegment.ino)
  /\ Return("error")
  /\ UNCHANGED <<segs, diskSize, syncer, acked, durable, nextId, faults>>

\* Trim runs only after an error; one of its own does not count against the
\* bound.
TrimFails ==
  /\ pc \in {"trim", "trimSync"} \cap Faulty
  /\ Return("error")
  /\ FsIdle
  /\ UNCHANGED <<segs, diskSize, syncer, acked, durable, nextId, faults>>

-----------------------------------------------------------------------------
(***************************************************************************)
(* TruncateBefore and TruncateAfter: find the segment that holds seq, drop *)
(* the ones on one side of it, cut it where seq is.                        *)
(***************************************************************************)
\* Goes on with -1 as with an index.
KeepIndexMutant(seq) ==
  LET found == {i \in 1..Len(segs) : NextSequence(segs[i]) > seq /\ StartSequence(segs[i]) <= seq}
  IN IF found = {} THEN -1 ELSE CHOOSE i \in found : TRUE

\* sort.Search over chain.segments for the first one that ends behind seq, which
\* has to start by then; 0 stands for keepIndex = -1.
KeepIndex(seq) ==
  LET found == {i \in 1..Len(segs) : /\ NextSequence(segs[i]) > seq
                                     /\ \A j \in 1..(i - 1) : NextSequence(segs[j]) <= seq
                                     /\ StartSequence(segs[i]) <= seq}
  IN IF found = {} THEN 0 ELSE CHOOSE i \in found : TRUE

Drop(kind, seq, from, to) ==
  /\ pc' = "drop"
  /\ op' = [NoOp EXCEPT !.kind = kind, !.seq = seq, !.keep = KeepIndex(seq),
                        !.i = from, !.n = to]
  /\ UNCHANGED ret

TruncateBeforeCall(seq) ==
  /\ pc = "idle" /\ "truncateBefore" \in Ops
  /\ segs # <<>>
  /\ \/ /\ KeepIndex(seq) = 0 /\ seq < NextSequence(lastSegment)
        /\ Return("ok")
     \/ /\ KeepIndex(seq) = 0 /\ seq >= NextSequence(lastSegment)
        /\ Drop("beforeAll", seq, 1, Len(segs) - 1)
     \/ /\ KeepIndex(seq) # 0
        /\ Drop("beforeKeep", seq, 1, KeepIndex(seq) - 1)
  /\ Retain({r \in acked : r[1] >= seq})
  /\ FsIdle
  /\ UNCHANGED <<segs, diskSize, syncer, nextId, faults>>

TruncateAfterCall(seq) ==
  /\ pc = "idle" /\ "truncateAfter" \in Ops
  /\ segs # <<>>
  /\ Len(files) < MaxFiles
  /\ \/ /\ KeepIndex(seq) = 0 /\ seq >= StartSequence(segs[1])
        /\ Return("ok")
     \/ /\ KeepIndex(seq) = 0 /\ seq < StartSequence(segs[1])
        /\ Drop("afterAll", seq, 1, Len(segs))
     \/ /\ KeepIndex(seq) # 0
        /\ Drop("afterKeep", seq, KeepIndex(seq) + 1, Len(segs))
  /\ Retain({r \in acked : r[1] <= seq})
  /\ FsIdle
  /\ UNCHANGED <<segs, diskSize, syncer, nextId, faults>>

\* One iteration of the loops: Close, Remove, account.
DropSegment ==
  /\ pc = "drop" /\ op.i <= op.n
  /\ segs[op.i].open
  /\ FsRemove(segs[op.i].ino)
  /\ segs' = [segs EXCEPT ![op.i].open = FALSE]
  /\ diskSize' = diskSize - Size(segs[op.i])
  /\ op' = [op EXCEPT !.i = @ + 1]
  /\ UNCHANGED <<pc, ret, syncer, acked, durable, nextId, faults>>

\* Close fails, at once when the handle is closed already, or Remove does;
\* the handle is closed in every case and the loop is left as it stands.
DropFails ==
  /\ pc = "drop" /\ op.i <= op.n
  /\ \/ ~segs[op.i].open /\ UNCHANGED faults
     \/ segs[op.i].open /\ (Fault("close") \/ Fault("remove"))
  /\ segs' = [segs EXCEPT ![op.i].open = FALSE]
  /\ Return("error")
  /\ FsIdle
  /\ UNCHANGED <<diskSize, syncer, acked, durable, nextId>>

\* Where scanner.Seek(seq) stops in the segment kept.
readIndex == op.seq - segs[op.i].base

\* The loop is done: cut chain.segments and go on with the segment kept.
DropDone ==
  /\ pc = "drop" /\ op.i > op.n
  /\ \/ /\ op.kind = "beforeAll"
        /\ pc' = "setRead"
        /\ op' = [op EXCEPT !.i = Len(segs), !.n = lastSegment.writeIndex]
        /\ UNCHANGED <<segs, ret>>
     \/ /\ op.kind = "beforeKeep"
        /\ segs' = SubSeq(segs, op.i, Len(segs))
        /\ IF StartSequence(segs[op.i]) < op.seq
           THEN /\ pc' = "setRead"
                /\ op' = [op EXCEPT !.i = 1, !.n = readIndex]
                /\ UNCHANGED ret
           ELSE Return("ok")
     \/ /\ op.kind = "afterAll"
        /\ segs' = <<>>
        /\ pc' = "create"
        /\ op' = [op EXCEPT !.base = StartSeq]
        /\ UNCHANGED ret
     \/ /\ op.kind = "afterKeep"
        /\ segs' = SubSeq(segs, 1, op.keep)
        /\ Goto("truncate")
  /\ FsIdle
  /\ UNCHANGED <<diskSize, syncer, acked, durable, nextId, faults>>

\* Frame n of the segment is gone from its file (a Truncate that could not be
\* forced out leaves the segment as it was), and is not the end, which is
\* always in the offset index: a lookup has to read unless an Append has left
\* a checkpoint there.
Unread(s, n) == Len(files[s.ino].frames) < n /\ n < s.writeIndex

\* Persists the frame behind the first one to read.
SetReadMutant ==
  /\ pc = "setRead"
  /\ segs[op.i].open
  /\ FsWrite(segs[op.i].ino, [files[segs[op.i].ino] EXCEPT !.meta = op.n + 1])
  /\ Goto("setReadSync")
  /\ UNCHANGED <<segs, diskSize, syncer, acked, durable, nextId, faults>>

\* SetReadOffset and WriteReadOffset: the inactive metadata slot is written
\* in place and forced out; a write that fails leaves the other slot valid
\* (module MetaSlots).  The frame it is given is looked up in the offset index
\* (module OffsetIndex), with the file read only between two checkpoints.
SetRead ==
  /\ pc = "setRead"
  /\ segs[op.i].open
  /\ FsWrite(segs[op.i].ino, [files[segs[op.i].ino] EXCEPT !.meta = op.n])
  /\ Goto("setReadSync")
  /\ UNCHANGED <<segs, diskSize, syncer, acked, durable, nextId, faults>>

SetReadSync ==
  /\ pc = "setReadSync"
  /\ FsSync(segs[op.i].ino)
  /\ LET read == [segs EXCEPT ![op.i].startIndex = op.n]
     IN segs' = IF op.kind = "beforeAll" THEN SubSeq(read, op.i, op.i) ELSE read
  /\ Return("ok")
  /\ UNCHANGED <<diskSize, syncer, acked, durable, nextId, faults>>

SetReadFails ==
  /\ pc \in {"setRead", "setReadSync"}
  /\ \/ /\ pc = "setRead"
        /\ ~segs[op.i].open \/ Unread(segs[op.i], op.n)
        /\ UNCHANGED faults
     \/ segs[op.i].open /\ Fault(pc)
  /\ Return("error")
  /\ FsIdle
  /\ UNCHANGED <<segs, diskSize, syncer, acked, durable, nextId>>

\* segment.Truncate(seq + 1).  Its reset of a read start behind the new end,
\* and TruncateAfter's SetReadOffset after it, find nothing to do: the segment
\* kept holds seq, so it keeps a frame from its read start on.
keepIdx == op.seq + 1 - lastSegment.base

\* Where segment.Find finds frame keepIdx: in the file, at the end, or at the
\* checkpoint of an Append whose frames are gone from the file.  The model does
\* not remember where that was: anywhere that leaves room for the frames.
keepOffsets ==
  LET f == files[lastSegment.ino]
      k == Len(f.frames)
      least == OffsetForIndex(f, k) + FrameHeaderSize * (keepIdx - k)
      most == lastSegment.writeOffset - FrameHeaderSize * (lastSegment.writeIndex - keepIdx)
  IN IF keepIdx <= k THEN {OffsetForIndex(f, keepIdx)}
     ELSE IF keepIdx = lastSegment.writeIndex THEN {lastSegment.writeOffset}
     ELSE least..most

TruncateFile ==
  /\ pc = "truncate"
  /\ lastSegment.open
  /\ \E off \in keepOffsets :
       /\ FsWrite(lastSegment.ino, Truncated(files[lastSegment.ino], keepIdx, off))
       /\ op' = [op EXCEPT !.n = off]
  /\ pc' = "truncateSync"
  /\ UNCHANGED <<segs, diskSize, ret, syncer, acked, durable, nextId, faults>>

TruncateSync ==
  /\ pc = "truncateSync"
  /\ FsSync(lastSegment.ino)
  /\ segs' = [segs EXCEPT ![Len(segs)].writeIndex = keepIdx,
                          ![Len(segs)].writeOffset = op.n]
  /\ diskSize' = diskSize - (Size(lastSegment) - op.n)
  /\ Return("ok")
  /\ UNCHANGED <<syncer, acked, durable, nextId, faults>>

TruncateFails ==
  /\ pc \in {"truncate", "truncateSync"}
  /\ \/ /\ pc = "truncate"
        /\ ~lastSegment.open \/ Unread(lastSegment, keepIdx)
        /\ UNCHANGED faults
     \/ lastSegment.open /\ Fault(pc)
  /\ Return("error")
  /\ FsIdle
  /\ UNCHANGED <<segs, diskSize, syncer, acked, durable, nextId>>

-----------------------------------------------------------------------------
(***************************************************************************)
(* Sync: the segments are listed under the lock and forced out after it    *)
(* has been released, so any other handler may run meanwhile.  A segment   *)
(* reaped or truncated away since has its handle closed.                   *)
(***************************************************************************)
IsOpen(n) == \E i \in 1..Len(segs) : segs[i].ino = n /\ segs[i].open

SyncCall ==
  /\ pc = "idle" /\ "sync" \in Ops
  /\ ~syncer.on
  /\ syncer' = [on |-> TRUE, todo |-> [i \in 1..Len(segs) |-> segs[i].ino], upto |-> acked]
  /\ FsIdle
  /\ UNCHANGED <<segs, diskSize, pc, op, ret, acked, durable, nextId, faults>>

\* Goes through the list without forcing anything out.
SyncSegmentMutant ==
  /\ syncer.on /\ syncer.todo # <<>>
  /\ FsIdle
  /\ syncer' = [syncer EXCEPT !.todo = Tail(@)]
  /\ UNCHANGED <<segs, diskSize, pc, op, ret, acked, durable, nextId, faults>>

SyncSegment ==
  /\ syncer.on /\ syncer.todo # <<>>
  /\ IsOpen(Head(syncer.todo))
  /\ FsSync(Head(syncer.todo))
  /\ syncer' = [syncer EXCEPT !.todo = Tail(@)]
  /\ UNCHANGED <<segs, diskSize, pc, op, ret, acked, durable, nextId, faults>>

\* Tries the segment again.
SyncFailsMutant ==
  /\ syncer.on /\ syncer.todo # <<>>
  /\ ~IsOpen(Head(syncer.todo))
  /\ UNCHANGED vars

SyncFails ==
  /\ syncer.on /\ syncer.todo # <<>>
  /\ \/ ~IsOpen(Head(syncer.todo)) /\ UNCHANGED faults
     \/ IsOpen(Head(syncer.todo)) /\ Fault("sync")
  /\ syncer' = Idle
  /\ FsIdle
  /\ UNCHANGED <<segs, diskSize, pc, op, ret, acked, durable, nextId>>

SyncReturn ==
  /\ syncer.on /\ syncer.todo = <<>>
  /\ durable' = durable \cup (syncer.upto \cap acked)
  /\ syncer' = Idle
  /\ FsIdle
  /\ UNCHANGED <<segs, diskSize, pc, op, ret, acked, nextId, faults>>

\* Close closes every handle and forgets nothing: the chain goes on taking
\* calls, and fails where it needs a closed handle.
CloseCall ==
  /\ pc = "idle" /\ "close" \in Ops
  /\ segs' = [i \in 1..Len(segs) |-> [segs[i] EXCEPT !.open = FALSE]]
  /\ ret' = IF \E i \in 1..Len(segs) : ~segs[i].open THEN "error" ELSE "ok"
  /\ FsIdle
  /\ UNCHANGED <<diskSize, pc, op, syncer, acked, durable, nextId, faults>>

-----------------------------------------------------------------------------
Append_ == \/ Admit \/ ReapOldest \/ ReapFails
           \/ WriteBegin \/ WriteClosed \/ WriteEnd \/ SyncAppend
           \/ PersistFails \/ Trim \/ TrimSync \/ TrimFails

Create_ == \/ CreateFile \/ CreateFileFails \/ WriteHeader \/ WriteHeaderFails
           \/ SyncHeader \/ SyncDirectory \/ SyncNewFails

Truncate_ == \/ DropSegment \/ DropFails \/ DropDone
             \/ SetRead \/ SetReadSync \/ SetReadFails
             \/ TruncateFile \/ TruncateSync \/ TruncateFails

\* The steps of the handler that holds chain.mu.
Step == Append_ \/ Create_ \/ Truncate_

SyncStep == SyncSegment \/ SyncFails \/ SyncReturn

Call == \/ \E b \in Batches : AppendTooLarge(b) \/ AppendCall(b) \/ AppendPanics(b)
        \/ \E q \in TruncateSeqs : TruncateBeforeCall(q) \/ TruncateAfterCall(q)
        \/ SyncCall
        \/ CloseCall

Next == Call \/ Step \/ SyncStep

Spec == Init /\ [][Next]_vars

\* A handler that holds the lock, and a Sync, run on.
FairSpec == Spec /\ WF_vars(Step) /\ WF_vars(SyncStep)

-----------------------------------------------------------------------------
(***************************************************************************)
(* Properties.                                                             *)
(***************************************************************************)
Labels ==
  {"idle", "down", "admit", "reap", "create", "writeHeader", "syncHeader",
   "syncDir", "write", "writing", "syncAppend", "trim", "trimSync", "drop",
   "setRead", "setReadSync", "truncate", "truncateSync", "loadTrim", "loadTrimSync"}

Results == {"ok", "error", "batchTooLarge", "diskFull", "segmentFull"}

Op == [kind : Kinds, batch : Seq(Nat), id : Nat, seq : Nat, keep : Nat,
       i : Nat, n : Nat, base : Nat]

\* The chain, its handler and the storage have the types the code gives them.
TypeOK ==
  /\ files \in Seq(File)
  /\ stable \in Seq(File)
  /\ Len(stable) = Len(files)
  /\ dir \subseteq 1..Len(files)
  /\ stableDir \subseteq 1..Len(files)
  /\ segs \in Seq(Segment)
  /\ diskSize \in Int
  /\ pc \in Labels
  /\ op \in Op
  /\ ret \in Results
  /\ syncer \in [on : BOOLEAN, todo : Seq(Nat), upto : SUBSET (Nat \X Nat)]
  /\ acked \in SUBSET (Nat \X Nat)
  /\ durable \in SUBSET (Nat \X Nat)
  /\ nextId \in Nat
  /\ faults \in Nat

\* The segments of a chain cover one gapless range of sequence numbers, and
\* only the first can have lost records at its front: rotation starts the next
\* segment where the last one ends, reaping and TruncateBefore take whole
\* segments off the front, TruncateAfter off the back.  Load refuses anything
\* else, so a chain that broke this could not be opened again.
Contiguous ==
  /\ \A i \in 1..Len(segs) : segs[i].startIndex <= segs[i].writeIndex
  /\ \A i \in 2..Len(segs) :
       segs[i].base = NextSequence(segs[i - 1]) /\ segs[i].startIndex = 0

\* Retention: what the chain accounts for never exceeds MaxDiskSize, and it
\* never holds more than MaxSegments segments, at no step of any handler,
\* whatever calls to storage fail.
RetentionBounds ==
  /\ MaxDiskSize > 0 => diskSize <= MaxDiskSize
  /\ MaxSegments > 0 => Len(segs) <= MaxSegments

CountedSize(s) == IF s.ino \in dir THEN Size(s) ELSE 0

\* The chain's running total is the sum of the sizes of the segment files it
\* holds that are still in the directory, at every step and whatever fails:
\* admission never looks at the files themselves.
Accounting ==
  pc \notin {"loadTrim", "loadTrimSync"} =>
    LET total[i \in 0..Len(segs)] == IF i = 0 THEN 0 ELSE total[i - 1] + CountedSize(segs[i])
    IN diskSize = total[Len(segs)]

\* The documented retained-byte invariant, about the files rather than the
\* running total: sum(segment file sizes) <= MaxDiskSize, also halfway through
\* a write.
RetainedBytes ==
  MaxDiskSize > 0 =>
    LET total[n \in 0..Len(files)] ==
          IF n = 0 THEN 0 ELSE total[n - 1] + (IF n \in dir THEN files[n].size ELSE 0)
    IN total[Len(files)] <= MaxDiskSize

\* What a scan of segment i delivers: it starts at the read start and goes on
\* to the end of the file, not to the segment's write offset.
Scan(i) ==
  LET f == files[segs[i].ino]
  IN {<<segs[i].base + k - 1, f.frames[k].id>> : k \in (segs[i].startIndex + 1)..Len(f.frames)}

\* What the chain holds: a segment that Close has closed is read again by the
\* next Load, one that is out of the directory is not.
Visible == UNION {Scan(i) : i \in {j \in 1..Len(segs) : segs[j].ino \in dir}}

\* No record whose Append succeeded is lost, moved to another sequence number
\* or replaced, until it is truncated or reaped.
AckedReadable == pc = "idle" => acked \subseteq Visible

\* And nothing else is readable: no record of a batch that failed, no record
\* that was truncated.
NothingElseReadable == pc = "idle" => Visible \subseteq acked

\* Records are read in the order in which they were appended: no bytes of an
\* earlier life of a file come back behind newer records.
OrderPreserved ==
  \A r, s \in Visible : r[1] < s[1] => r[2] < s[2]

\* With room on disk for two full segments and more than one segment allowed,
\* reaping always makes room: a batch that fits a segment is never turned away.
ReapingMakesRoom ==
  (MaxSegments # 1 /\ MaxSegmentSize > 0 /\ MaxDiskSize >= 2 * MaxSegmentSize)
    => ret \notin {"diskFull", "segmentFull"}

\* Every handler returns and releases chain.mu: the reap loop and the
\* truncation loops come to an end, whatever calls fail.
HandlersReturn == (pc \notin {"idle", "down"}) ~> (pc \in {"idle", "down"})

\* Every Sync returns, also when the segments it listed are reaped meanwhile.
SyncReturns == syncer.on ~> ~syncer.on
=============================================================================

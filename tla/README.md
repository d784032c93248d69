# A formal model of alog

TLA+ modules for the append-only log in this repository, the TLC runs that
check them on small instances, and proofs checked by TLAPS. File and line
references are to the repository.

## 1. The system

alog keeps records in *segment files*. A segment starts with a 64-byte header
(magic, base sequence number, two metadata slots that hold the read offset) and
goes on with *frames* (16-byte header with length, index and checksum, then the
payload). The sequence number of a record is the base of its segment plus its
frame index.

| part | state | operations that change it | meets |
|---|---|---|---|
| storage (`internal/storage`) | files and directory, in the cache and on the medium | create, write, truncate, fsync, sync directory, remove | the operating system |
| frames (`internal/frame`) | none (format, reader, buffer pool) | | storage |
| header (`internal/segment/header.go`) | two metadata slots, the slot in use | WriteReadOffset | storage, crashes |
| segment (`segment.go`) | write offset and index, read start, file handle, sparse offset index | Create, Load, Append, Trim, Truncate, SetReadOffset, Sync, Close | storage |
| offset index (`index/offset.go`) | sorted checkpoints | Set, SparseSet, TruncateBefore, TruncateAfter | segment |
| chain (`chain.go`) | list of segments, running total of bytes, RWMutex | Load, Append (with reaping and rotation), TruncateBefore, TruncateAfter, Sync, Close | segments, concurrent Sync and scanners |
| scanners (`scanner.go`, `pkg/log/scan.go`) | position in a copy of the segment list | Seek, Next | chain, without its lock |
| log (`pkg/log/log.go`) | chain, consume cursor | thin wrappers, Consume, Range | chain, scanners |
| writer (`pkg/log/write`) | request channel, batch, lazy timer, contexts | Append, Start, the flush loop, writeBatch | log, callers |
| WAL, journal, archive (`pkg/wal`, ...) | configurations of log and writer | | log, writer |

What is hard here: every handler is a series of storage calls, any of which can
fail or be the last before a crash; the cache and the medium differ until an
fsync, and so do directory entries until the directory is synced; bytes of
truncated records stay in files that are written again; admission trusts a
running total; Sync and scanners run beside the handlers without the lock; the
writer's loop, its timer and the contexts of its callers race.

## 2. Modules

| module | models | checked by |
|---|---|---|
| `Storage` | `file.go`, the contents of a segment file, the storage calls | (used by Chain) |
| `Chain` | `chain.go` and `segment.go` of a loaded log | `MCChain`, `MCLog` |
| `Recovery` | crashes, `Chain.Load`, `segment.Load` | `MCRecovery`, `MCLog` |
| `Reader` | scanners, `Range`, `Consume`, `FirstSequence`, `LastSequence` beside the handlers | `MCReader`, `MCReaders` |
| `OffsetIndex` | `index/offset.go` and what `segment.go` does with it | itself |
| `MetaSlots` | the dual metadata slots of `header.go` | itself |
| `Writer` | `pkg/log/write` | itself |
| `Appender` | what `Writer.Append` promises (abstract) | refined by Writer |
| `ChainFacts` | lemmas about file contents and storage calls, the invariants of Chain and their consequences | TLAPS |
| `ChainStepProofs` | every step keeps the inductive invariant, and the one about what is counted | TLAPS |
| `ChainReadProofs` | every step keeps what a reader is owed | TLAPS |
| `ChainExactProofs` | every step keeps what a reader must not find | TLAPS |
| `ChainProofs` | the theorems about Chain | TLAPS |
| `OffsetIndexProofs` | the theorems about OffsetIndex | TLAPS |
| `MetaSlotsProofs` | the theorems about MetaSlots | TLAPS |
| `WriterProofs` | the theorems about Writer, and that it implements Appender | TLAPS |

`Chain` extends `Storage`, `Recovery` extends `Chain` and `Reader` extends
`Recovery`: each adds actors to the one before. `MCChain`, `MCRecovery` and `MCReader`
define the batches and truncation points of small instances. `MCLog` and `MCReaders`
put several instances into one run: a variable `options`, chosen at the start, says
which of them the log is; one has the constants of the cfg, the others are
`INSTANCE ... WITH` constants of their own, and the properties hold in all.

### Storage and Chain

A file is `[base, hdr, meta, frames, tail, size]`: how much of its header is
there, the read start the newest valid slot gives, the complete frames (record
id and end offset), what a reader meets behind them and the size. `tail`
separates the four outcomes of `frame.Reader.Read` at the end of a file: end of
file, a frame header without a byte of payload (read as end of file too), a
torn frame (`io.ErrUnexpectedEOF`) and wrong bytes. Payloads are record ids;
their lengths are kept, because rotation, reaping and reuse of bytes depend on
them. A batch is given as the running totals of its frame sizes. `files`/`dir`
is what the process sees, `stable`/`stableDir` what has been forced out. A
file is named by its creation order; a removed file may come back until the
directory is synced.

`segs` is `chain.segments`, `diskSize` is `chain.diskSize`. The handler that
holds `chain.mu` is at control point `pc` with locals `op`, and each step makes
at most one storage call; each call has a step in which it fails (`Fault`),
bounded by `MaxFaults` and limited to the calls in `Faulty`. A write of a batch
takes two steps so that a crash finds it at any frame, with nothing, 15 bytes,
a bare header or all but one byte of the next. `Sync` copies the segment list at
a moment when nobody holds the lock and then runs beside the other handlers;
`IsOpen` is false for a segment whose handle has been closed. `Close` closes the
handles and leaves the list, so the calls after it run on closed segments and
fail at their first storage call.

`acked` is history: the records whose Append succeeded and that were not
truncated or reaped since; `durable` is the part of them reported durable, by
an Append with `SyncOnAppend` or by a completed Sync.

Abstractions: the sparse offset index yields exact offsets (`OffsetIndex` shows
that it does); `frame.Pool`, the
`MaxUint32` limits on payload and index, and the two slots (one `meta` here,
`MetaSlots` has the detail) are left out. `segment.Truncate`'s reset of the
read start and the `SetReadOffset` at `chain.go:577` are never reached: the
segment kept holds the sequence number, so its read start is before its end.

### Recovery

`ProcessCrash` keeps cache and directory. `PowerCut` keeps of every file what
was forced out plus any prefix of what was not, the last frame of it perhaps
with its size but without its bytes, and of every directory entry either state.
`crashedAt` is history: the control point at which the last crash came, its
kind, and what a power cut found exposed. After a
power cut `acked` is reduced to `durable`. Load is translated in both branches
(`VerdictMany`, `VerdictOne`); what it brings back of unacknowledged batches
counts as appended from then on. The Trim of Load may fail at its cut or its fsync
(`LoadTrimFails`): Load returns the error and may be called again. A Close followed by Load is a process crash of
an idle log, since Close forces nothing out.

Abstraction: `segment.go:119` follows frame headers up to the read offset and asks for
no payload, `LoadResult` asks for complete frames; so the model refuses a read start
at the end of a torn frame, which the code accepts. Only a loss of power in
SetReadOffset leaves one, which `FatalCrashes` excepts.

### Reader

`rd` is one call of a reader. It takes `chain.mu` to copy the segments (`List`)
and for the two segments `FirstSequence` and `LastSequence` compare
(`BoundsCall`, `BoundsTail`); every later look at a segment or a file is a step
without the lock, and a handler, a Sync or a crash may come before it. Segments are
shared objects: after each step of the log (`LogStep`) the reader's copy of the
list has the positions they have now, and a segment that has left the chain is
closed. `Open` lets the read offset and the read index of `NewScanner` come from
before and after a `SetReadOffset`. A frame is read in two steps, `ReadHeader` and
`ReadPayload`, at the scanner's own position and to the end of the file rather
than to the write offset, as `frame.Reader` does: the scanner meets the frames of
an unfinished batch, a torn end, and files that are cut back between the two
reads. An unfinished frame whose header is there (`Unfinished`) passes `ReadHeader`;
what its payload is depends on the file at `ReadPayload`: by then it may be complete,
still torn, or cut off (`rd.cut`) and written over by another frame, and a record
whose bytes come from two frames has id 0. Records are told apart by sequence number
and id, so one that gets the number of another is not the same (`accepted`, `known`). The callback may refuse any record. Consume's cursor is `cursor`; it is
stored (`ConsumeAdvance`) before `TruncateBefore` starts (`ConsumeTruncate`),
which then runs as the handler of module Chain.

Abstractions: bytes that are not the start of the frame a scanner expects do not
carry its index by chance, so it fails on them; the limit on payload sizes and the
buffer pool are left out. TruncateAfter does not run beside a scanner: what a
scanner reads where a frame used to be depends on payload bytes the model does
not keep. One reader is enough, since readers change nothing but through the
handlers, which are all there.

### OffsetIndex

`entries` is the slice of checkpoints, `ends` the end of each frame in the file,
`start` and `write` the positions of the segment. The loops that sample the index
(`Append`, and the scan of `Load` and `BuildIndex`) take one step per frame.
`Search` is `sort.Search`, `Walk` the reading of one header after another from a
checkpoint: it fails as soon as it is not at the start of the frame it expects,
which is what `ReadHeader` reports. `Truncate` and `SetReadOffset` move the segment to what
the lookup returned, right or wrong, and re-anchor the index; each is one step,
since they hold the lock and the file is not written meanwhile. Faults of the
storage calls inside the two are in module Chain; a failed fsync in Truncate
leaves index and positions behind the file, which `truncate_sync_fault` shows from
the outside.

### MetaSlots

`cache` and `disk` hold the two slots; writes to a slot may stop halfway or
fail, fsync may fail, write-back happens at any time, and a power cut may leave
a slot that was being written back invalid. `crashes` is the history of crash
kinds. Generations wrap at `Gens` (2^16 in
the code).

### Writer and Appender

Clients, the flush loop, the lazy timer and the contexts are interleaved freely.
The unbuffered hand-off is one step of both sides; the answer channel has room
for one answer. The log is a list of record ids that others may append to
between batches. Since Go 1.23 a stopped timer delivers nothing stale, and
`lazyTimer.Stop` drains besides, so Stop sets the timer to `off`.

## 3. Runs

`tlc -config <cfg> <module>`; bounds are CONSTANTs of the cfg.

| run | what it shows |
|---|---|
| `log` | a log with one of three sets of options. `faults`: synced appends and truncations in any order, with a failing write or fsync of a batch. `crashes`: the same with a process crash or power loss anywhere and a failing Trim in Load. `syncs`: Log.Sync racing unsynced appends and reaping, with the same crashes. Exactly the acknowledged records are readable, and return after a crash in order; the files stay within `MaxDiskSize`, reaping always makes room, Load fails only after known crashes |
| `chain_faults` | any storage fault from the first Load on: well-typed, contiguous, within limits, exactly accounted; every handler and every Sync returns |
| `readers` | a reader of one of three logs. `scans`: beside appends, a write that fails and is cut back, rotation, reaping by Append and TruncateBefore. `mixed`: beside appends of two lengths, one of which fails. `wal`: the single segment of `pkg/wal` with Append, Sync and Consume, a truncation that fails, and a crash anywhere. Nothing retained is left out (`NothingSkipped`), only appended records come out (`HandsOutAppended`), errors have a listed reason (`ScanErrorsExplained`), the bounds returned held during the call (`BoundsHeld`); Consume truncates only what was accepted (`ConsumeKeepsUnread`) and hands nothing out twice (`ConsumedOnce`); synced records return (`AckedReadable`) |
| `offset_index` | checkpoints are exact at every step, lookups find every frame and nothing else, and read fewer headers than the stride |
| `meta_slots` | the metadata slots under both kinds of crash, twice |
| `writer` | answers, order, limits, timer; every request answered, no call blocks, shutdown; Writer implements Appender |

Each of the following runs checks one statement the repository makes and finds
it violated; `PROJECT.json` quotes the statement.

| run | what happens |
|---|---|
| `crash_then_power_loss` | a directory entry that is never synced takes fsynced records with it |
| `truncate_sync_fault` | an acknowledged append is written behind a hole |
| `wal_torn_write` | a process dies in a write to a log of one segment, as every WAL is; Load returns the error of the torn frame (`chain.go:214`) before it gets to trim it, and the log cannot be opened again |
| `scan_mixture` | a failed append is cut back and written over between the two reads of a frame; the scan, which compares no checksum, delivers the bytes of one frame under the header of another |
| `consume_reused_number` | Consume is handed a record whose Append then fails; another record is appended under its number and acknowledged, and Consume truncates it unseen |
| `writer_unsynced` | the writer acknowledges without a sync |

Further limits of the code are written into the properties that hold, as the
exceptions they name; the runs show that there are no others within the bounds.

* `FatalCrashes`: the crashes after which Load refuses a log of several segments.
  The process dies between creating a segment file and writing its header
  (`segment.go:373`), or between two removals of TruncateAfter (`chain.go:556`,
  ascending order leaves a gap). Power is lost inside Create before
  the header is forced out; after a rotation, which does not sync the segment
  it leaves (`chain.go:394`); after a removal whose directory entry was not
  synced (`chain.go:420`, the file comes back and the log is over budget or
  not contiguous); when a file grew on the medium before its bytes arrived; or
  in SetReadOffset, whose slot can reach the medium before the frames. Of a log
  of one segment it is not checked: see `wal_torn_write`.
* `ChainAfterCrash` excepts the removed files that come back: TruncateAfter
  does not sync the directory after its removals (`chain.go:563`), and when new
  appends have filled the kept segment to the old boundary Load accepts the
  truncated records behind the newer ones.
* `StaysReadable` and `LoadsCommitted` except a process crash followed by a
  power loss: the slot the dead process wrote without an fsync is the newest
  after the restart, the next write goes to the other one, the only one that was
  forced out (`header.go:201`).
* `HandsOutAppended` counts a batch under way as appended: a scanner may deliver
  a record whose Append then fails. Its one exception is a mixture of two frames,
  delivered when a failed batch was cut off between the reads of header and payload
  (`rd.cut`): what `scan_mixture` shows.
* `ScanErrorsExplained`: a scanner beside an Append may end with
  `io.ErrUnexpectedEOF`, beside a TruncateBefore in its segment with a bad frame
  index or an out-of-bounds start, and after reaping with `os.ErrClosed`, which
  Seek returns as it is (`scan.go:136`) and Next as a reaped segment.
* `ConsumeKeepsUnread` excepts what lies before the sequence number Consume was
  called with: it truncates that without handing it out. In `readers` no write
  fails in the log that is consumed; `consume_reused_number` shows what happens then.
* `ConsumedOnce` is about sequence numbers, on which Consume's cursor rests.
* `log` leaves faults in Create out of `RetainedBytes`: a file whose creation
  failed halfway stays in the directory, unaccounted (`segment.go:382`), and
  the files can then exceed `MaxDiskSize`. It leaves faults in Trim and in the
  truncations out of the record-level properties, where the code reports an
  error and promises nothing after it (`truncate_sync_fault` shows why).

### Bounds

* Segments hold one to three frames and the budget two or three segments, so
  four or five records suffice to rotate, reap, truncate and fill again. Two
  payload lengths (1 and 20 bytes) make a new frame shorter or longer than
  the one it overwrites. `MaxFiles` bounds rotations.
* Batches have one or two frames, three in the crashes of `log`, four in
  `offset_index`: enough for a crash after a whole frame and inside the next.
* Truncation points run from 0 to one past everything that can be appended; beside
  a scan they are 2 and 4, inside a segment and at its end.
* One fault reaches every error path of `chain_faults`, `log` and `readers`,
  whatever the handlers before and after it. `log` and `readers` have one crash,
  at any step, and what Load makes of it is used again; `meta_slots` has two.
* In `readers` the log that is scanned has two segments of two records and gets
  four records at most: a record, a batch of two, which rotates, and another record, which
  rotates again and reaps the segment a scanner stands in. The records are of one length
  there and of two in `mixed`, where a frame is written over a shorter or longer one.
  Starts and ends lie before, in and behind what is retained. The WAL has two
  calls of Consume, so that the second meets the cursor and the read start the first one
  left, before or after a crash; its segment holds two records, so that a third finds
  it full.
* `offset_index`: stride 3 and six frames, so that batches and truncations begin
  and end on, before and behind a checkpoint; the proofs cover every stride.
* `Gens = 8`: with one failed or lost write the slots are at most two
  generations apart, so the half of 8 is not reached; the code has 2^16.
* Two clients with three requests and batches of two: full batches, partial
  batches and a request waiting while the loop writes. Without symmetry,
  since the same run checks liveness.

Deadlock is checked except in three of the passing runs. In `writer`, after `MaxRequests` calls and
the loop's end, nothing is left to do; in `meta_slots` a header without a valid
slot cannot be opened; in `chain_faults` a closed log may stay closed.

### Fairness

`Chain.FairSpec`: a handler that holds the lock and a Sync in progress go on (weak
fairness of `Step` and `SyncStep`): storage calls return, with or without
an error, and goroutines are scheduled. Callers owe nothing.
`Writer.FairSpec`: the loop goes on when it can, an armed timer fires, a client
that can receive its answer or sees the loop stopped does. Nothing is assumed
of contexts, of callers or of `Start`.

## 4. Proofs

### The chain

`ChainProofs` proves of `Chain!Spec`, for all values of the constants that
satisfy Chain's assumptions (`ConfigAssumption`, `InputAssumption`: numbers are
naturals, a batch is a non-empty sequence of running totals with room for a
frame header in each; `BudgetAssumption`: `MaxDiskSize` is zero or at least a
header), for every set of failing storage calls a theorem does not except, and
with `MaxFaults`, `MaxRecords` and `MaxFiles` arbitrary:

| theorem | states | except |
|---|---|---|
| `TypeCorrect` | `Spec => []TypeOK` | |
| `ChainContiguous` | `Spec => []Contiguous` | |
| `RetentionHolds` | `Spec => []RetentionBounds` | |
| `TotalIsExact` | `Spec => []Accounting` | |
| `AppendFindsRoom` | `Spec => []ReapingMakesRoom` | |
| `AckedStayReadable` | `Spec => []AckedReadable` | a failing fsync in Truncate |
| `NothingElseAppears` | `Spec => []NothingElseReadable` | failures that leave records behind, and Close |

None of them is inductive. Four invariants are, each proved on top of the ones
before it.

`IInv` (module `ChainFacts`), for the first three, adds to them

* `SegmentFiles`: segments have files of their own, in creation order, and
  count at least a header, so reaping and truncation give bytes back;
* `Covered`: frames follow one another, and those a segment counts end by its
  write offset, so TruncateAfter never makes the total grow. It must hold
  for files rewritten over old bytes (`WrittenFile`);
* `Control`: what a handler has established at each point. After admission
  the batch, and the new header if one is due, fit the budget until they
  are accounted; the segment a truncation keeps holds its sequence number
  until it is cut; the loops stay inside the list.

`SInv` (module `ChainStepProofs`), for `TotalIsExact` and `AppendFindsRoom`:

* `Totals`: there is a function that gives the running sum of the counted sizes
  over the segment list and ends with `diskSize`, and in which the segments that a
  truncation has removed and not yet taken off the list count nothing. The sum of the property is a recursive function, about
  which nothing can be proved by induction here; a sum
  carried along as a witness can be changed in one place, cut and extended
  (`SumsChange`, `SumsBetween`, `SumsExtend`), and `SumsUnique` shows with a
  least counterexample that it is the recursive one;
* `OpenIsLive`, `HandleControl`: no handle is open on a removed file, and the file
  being created, written or cut is there;
* `Bounded`, `RoomControl`: no segment exceeds `MaxSegmentSize` (unless a header
  does), and an admitted batch fits one; so two segments fit the budget of
  `ReapingMakesRoom` and one that is left can be followed by a new one.

`RInv` (module `ChainFacts`, steps in `ChainReadProofs`), for `AckedStayReadable`:

* `Kept`: every acknowledged record is in a segment whose file is there, between
  its read start and its end, in the frame of its index;
* `Complete`, `Sorted`: files have the frames their segments count, and segments
  ascend also where a truncation under way has taken one out of the middle;
* `ReadControl`: a batch that is being forced out is in the file behind the last
  segment's end, and a truncation takes only what it was asked for.

`ScanFinds` then shows that a scan of the whole log passes every such frame.
The theorem leaves out a failing fsync after the cut of `segment.Truncate`: the
file is shorter than the segment from then on, and the next acknowledged append
is written behind a hole (run `truncate_sync_fault`).

`EInv` (module `ChainExactProofs`), for `NothingElseAppears`:

* `Exact`: the file of a segment ends where the segment does, but for the points
  inside a write or a cut, and each of its frames from the read start on carries an
  acknowledged record or one that the truncation under way takes away;
* `AllOpen`: only segments that a truncation under way has passed are closed;
* `ExactControl`: a file under creation is empty, and SetReadOffset moves to
  what the truncation asked for.

The theorem leaves out the failures of the calls in `LeavingCalls` (closing or
removing a segment, cutting back a failed write, moving the read start, cutting
a file): each returns an error with records left in the log that the handler was to
take away, or that no Append reported. It leaves out Close, after which every
storage call fails in the same way.

Each action has a lemma for each invariant (`AdmitInv`, `AdmitSize`, `AdmitRead`,
`AdmitExact`, ...), gathered in `NextInv`, `NextSize`, `NextRead` and `NextExact`.
`KeepIndexFacts` and `KeepIndexNone` justify the binary search of the truncations:
it finds the segment with the sequence number, and misses only outside the log.
The `Fs...Facts` lemmas say what each storage call leaves alone.

`BudgetAssumption` is real: Load creates the first segment without looking at
the budget, so with `0 < MaxDiskSize < 64` a new log starts over it.

### The offset index

`OffsetIndexProofs` proves of `OffsetIndex!Spec`, for every stride, header size, set
of frame sizes and number of frames:

* `IndexExact`: `Spec => []CheckpointsExact`
* `FindsExact`: `Spec => []LookupsExact`
* `WalksShort`: `Spec => []ShortWalks`

The inductive invariant `IndexInv` adds to `CheckpointsExact` that the file ascends
(`FileAscends`), that the positions of segment and loop are places of frames
(`Positions`), and that every multiple of the stride sampled so far has its
checkpoint, as have read start and end, while none lies behind what has been
sampled (`Sampling`): without the last part a failed Append could cut frames a
checkpoint points to. `Search` is a CHOOSE; that there is such a
position in an ascending slice is a lemma from the existence of a least element of a
set of naturals.

### The metadata slots

`MetaSlotsProofs` proves of `MetaSlots!Spec`, for every even `Gens` of at least 4
(2^16 in the code), every set of offsets and any number of crashes:

* `CommittedIsLoaded`: `Spec => []LoadsCommitted`
* `HeaderStaysReadable`: `Spec => []StaysReadable`
* `NewestIsUsed`: `Spec => []UsesNewest`

The inductive invariant `MInv` says which generation may be at which place and what
the place not in use may hold (`Spare`): nothing valid, the generation before the
one in use, or the one after it with an offset some call tried to write. So the two
are never half the range apart and the wrapping comparison of `NewerThan` is
exact (`NextGen`, `MetaPicks`). On the medium the same holds until the process has
died once, which is why a power loss after a restart is excepted.

### The writer

`WriterProofs` proves of `Writer!Spec`, for every set of clients, limits, sizes and
numbers of requests, failures and foreign appends (`WriterAssumption`):

* `TypesHold`, `AnswersMatch`, `OrderHolds`, `TimerHolds`, `BatchesBounded`: `Spec`
  implies `[]TypeOK`, `[]ResponseMatchesLog`, `[]OrderedAssignment`,
  `[]TimerGuardsBatch` and `[]BatchBounded`;
* `AckedAreSynced`: with `SyncOnAppend`, `Spec => []AckedSynced` (without it,
  see run `writer_unsynced`);
* `AppenderImplemented`: `Spec => ImplementsAppender`, the refinement.

The inductive invariant `WInv` adds that ids are given once (`Ids`), that an
unanswered request of the batch is that of a waiting client whose answer channel
is empty (`Waiting`), which records are in the log and where (`Placed`, `Once`), and
that the batch is the end of what was received (`Order`). `BatchesBounded` needs
`Room` besides: a batch that still receives is below both limits. For the refinement
the outcome of a call is settled when its batch is written: that step is one
`Commit` of all calls of the batch, and the answers that follow one by one are
stutters. When the write fails each answer is a `Fail`, and so is a client's giving
up before the loop has received its request.

### Only model-checked

* `RetainedBytes`: a recursive sum over all files in the directory rather than over
  the segments, halfway through a write and a creation too. What admission
  relies on, that the running total is exact and within the budget, is proved.
* `ChainAfterCrash`, `FatalCrashes`: Load sorts the segments it finds and folds
  their sizes into the total; what a sort and a fold compute for every
  set of files would need induction over data.
* What readers and Consume do (`BoundsHeld`, `NothingSkipped`, `HandsOutAppended`,
  `ScanErrorsExplained`, `ConsumeKeepsUnread`, `ConsumedOnce`): their
  module is built on Recovery, with its sort and its fold.
* All liveness: fairness and ENABLED are outside the prover.

## 5. Not modelled

* A scanner beside TruncateAfter, and what scans read after a Trim that itself
  failed: both depend on payload bytes left in the file.
* Two goroutines inside one slice of checkpoints: a scanner's Seek searches it
  without the lock while Append inserts (`segment.go:508`). That is a data
  race, and outside Go's memory model the outcome is not defined; `OffsetIndex`
  interleaves whole calls of the index.
* The error Chain.Close returns when closing a handle fails: only the value returned
  depends on it.
* `frame.Pool` and the borrowing of payload buffers, the limit on payload sizes,
  and the `MaxUint32` limits on payloads and indices.
* The archive's composition of Writer and Chain: Writer runs over the list of
  records that Chain's properties say a log is. A full log is, for the writer, an
  append that fails.
* A WAL never gets bytes back: Consume moves the read start of its only
  segment, and once that is full Append answers `ErrSegmentFull`. No property
  states it, as no statement of the repository says otherwise.
* An abstract log refined by Chain: exactly-the-acknowledged (`AckedReadable`,
  `NothingElseReadable`, `ChainAfterCrash`) states it as invariants instead, with
  the exceptions of section 3.
* Mocks, test helpers and the documentation tool; paths and permissions.

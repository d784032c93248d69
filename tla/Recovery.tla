------------------------------ MODULE Recovery ------------------------------
(***************************************************************************)
(* The chain of module Chain under crashes: the process may die between    *)
(* any two storage calls, or in the middle of a write, with or without a   *)
(* loss of power, and the log is then opened again by Chain.Load and       *)
(* segment.Load.                                                           *)
(*                                                                         *)
(* A Close followed by a new Load is a crash of an idle process: Close     *)
(* forces nothing out.                                                     *)
(***************************************************************************)
EXTENDS Chain, SequencesExt

CONSTANTS
  Crashes,        \* what can happen: "process" dies, "power" is lost
  MaxCrashes      \* bound: crashes

ASSUME CrashAssumption ==
  Crashes \subseteq {"process", "power"} /\ MaxCrashes \in Nat

VARIABLES
  loadErr,    \* why the last Load failed, "none" if it did not
  crashedAt,  \* history: where the last crash came, and what it exposed
  crashes     \* crashes so far

crashVars == <<loadErr, crashedAt, crashes>>

rvars == <<vars, crashVars>>

\* No log yet: the directory is empty.
RInit ==
  /\ files = <<>> /\ stable = <<>> /\ dir = {} /\ stableDir = {}
  /\ segs = <<>> /\ diskSize = 0
  /\ pc = "down" /\ op = NoOp /\ ret = "ok" /\ syncer = Idle
  /\ acked = {} /\ durable = {} /\ nextId = 0 /\ faults = 0
  /\ loadErr = "none" /\ crashedAt = {} /\ crashes = 0

-----------------------------------------------------------------------------
(***************************************************************************)
(* segment.Load of one file.                                               *)
(***************************************************************************)
\* "torn" returns the segment together with io.ErrUnexpectedEOF.  An
\* incomplete header, a read offset behind the last frame and a frame that
\* does not validate return no segment ("unreadable"); a header cut short does
\* so with io.ErrUnexpectedEOF too, and Chain.Load then keeps a nil segment
\* and dereferences it.
LoadResult(f) ==
  IF f.hdr # "ok" \/ f.meta > Len(f.frames) \/ f.tail = "bad" THEN "unreadable"
  ELSE IF f.tail = "torn" THEN "torn" ELSE "ok"

LoadSegment(n) ==
  LET f == files[n]
  IN [ino |-> n, base |-> f.base, startIndex |-> f.meta,
      writeIndex |-> Len(f.frames), writeOffset |-> OffsetForIndex(f, Len(f.frames)),
      open |-> TRUE]

-----------------------------------------------------------------------------
(***************************************************************************)
(* Chain.Load.                                                             *)
(***************************************************************************)
\* sort.Slice by StartSequence of files listed by name; the sort keeps the
\* order of the files among equal keys at the sizes it insertion-sorts.
Sorted ==
  SetToSortSeq({LoadSegment(n) : n \in dir},
               LAMBDA s, t : \/ StartSequence(s) < StartSequence(t)
                             \/ StartSequence(s) = StartSequence(t) /\ s.base < t.base)

Results_(S) == {LoadResult(files[n]) : n \in S}

TornFiles == {n \in dir : LoadResult(files[n]) = "torn"}

\* Does not look whether the segments are contiguous.
VerdictManyMutant ==
  CASE "unreadable" \in Results_(dir) \/ Cardinality(TornFiles) > 1 -> "unreadable"
    [] MaxSegments > 0 /\ Cardinality(dir) > MaxSegments -> "tooMany"
    [] OTHER -> "none"

\* The default branch: at most one segment may be torn, and only the last.
VerdictMany ==
  CASE "unreadable" \in Results_(dir) \/ Cardinality(TornFiles) > 1 -> "unreadable"
    [] MaxSegments > 0 /\ Cardinality(dir) > MaxSegments -> "tooMany"
    [] \E i \in 2..Len(Sorted) :
         NextSequence(Sorted[i - 1]) # StartSequence(Sorted[i]) -> "gap"
    [] TornFiles # {} /\ Sorted[Len(Sorted)].ino \notin TornFiles -> "incomplete"
    [] OTHER -> "none"

\* The single-segment branch: file 0, or whatever one file there is, must load
\* without any error.
VerdictOne ==
  LET zero == {n \in dir : files[n].base = 0}
      read == IF zero # {} THEN zero ELSE dir
  IN CASE "unreadable" \in Results_(read) -> "unreadable"
       [] "torn" \in Results_(read) -> "torn"
       [] Cardinality(dir) > 1 -> "tooMany"
       [] OTHER -> "none"

\* Takes a torn tail for corruption.
VerdictMutant == IF TornFiles # {} THEN "torn" ELSE VerdictMany

Verdict == IF MaxSegments = 1 THEN VerdictOne ELSE VerdictMany

\* The single-segment branch trims in every case.
NeedTrim == MaxSegments = 1 \/ TornFiles # {}

\* The end of Load: account, refuse a log over budget, or go to work.  What
\* Load brings back of unacknowledged batches counts as appended from here on.
LoadDone(loaded) ==
  LET total == MapThenSumSet(LAMBDA i : Size(loaded[i]), 1..Len(loaded))
      over == MaxDiskSize > 0 /\ total > MaxDiskSize
  IN /\ pc' = IF over THEN "down" ELSE "idle"
     /\ segs' = IF over THEN <<>> ELSE loaded
     /\ diskSize' = IF over THEN 0 ELSE total
     /\ loadErr' = IF over THEN "diskFull" ELSE "none"
     /\ acked' = IF over THEN acked ELSE acked \cup Visible'
     /\ UNCHANGED <<op, ret, durable>>

LoadFails ==
  /\ pc = "down"
  /\ Verdict # "none"
  /\ loadErr' = Verdict
  /\ FsIdle
  /\ UNCHANGED <<chainVars, crashedAt, crashes>>

LoadCreates ==
  /\ pc = "down"
  /\ dir = {}
  /\ pc' = "create"
  /\ op' = [NoOp EXCEPT !.kind = "load", !.base = StartSeq]
  /\ loadErr' = "none"
  /\ FsIdle
  /\ UNCHANGED <<segs, diskSize, ret, syncer, acked, durable, nextId, faults, crashedAt, crashes>>

LoadFinds ==
  /\ pc = "down"
  /\ dir # {} /\ Verdict = "none"
  /\ FsIdle
  /\ IF NeedTrim
     THEN /\ pc' = "loadTrim"
          /\ segs' = Sorted
          /\ UNCHANGED <<diskSize, op, ret, acked, durable, loadErr>>
     ELSE LoadDone(Sorted)
  /\ UNCHANGED <<syncer, nextId, faults, crashedAt, crashes>>

LoadTrim ==
  /\ pc = "loadTrim"
  /\ FsWrite(lastSegment.ino,
             Truncated(files[lastSegment.ino], lastSegment.writeIndex, lastSegment.writeOffset))
  /\ pc' = "loadTrimSync"
  /\ UNCHANGED <<segs, diskSize, op, ret, syncer, acked, durable, nextId, faults, crashVars>>

LoadTrimSync ==
  /\ pc = "loadTrimSync"
  /\ FsSync(lastSegment.ino)
  /\ LoadDone(segs)
  /\ UNCHANGED <<syncer, nextId, faults, crashedAt, crashes>>

\* Cutting the torn frame off fails, and so does Load; it can be called again.
LoadTrimFails ==
  /\ pc \in {"loadTrim", "loadTrimSync"}
  /\ Fault(pc)
  /\ pc' = "down"
  /\ segs' = <<>>
  /\ loadErr' = "trim"
  /\ FsIdle
  /\ UNCHANGED <<diskSize, op, ret, syncer, acked, durable, nextId, crashedAt, crashes>>

-----------------------------------------------------------------------------
(***************************************************************************)
(* Crashes.                                                                *)
(***************************************************************************)
Die(exposed) ==
  /\ pc # "down"
  /\ crashes < MaxCrashes
  /\ crashes' = crashes + 1
  /\ crashedAt' = {IF pc = "drop" THEN op.kind ELSE pc} \cup exposed
  /\ pc' = "down"
  /\ segs' = <<>>
  /\ diskSize' = 0
  /\ op' = NoOp
  /\ syncer' = Idle
  /\ UNCHANGED <<ret, nextId, faults, loadErr>>

\* The process dies; what it wrote is in the page cache and stays.
ProcessCrash ==
  /\ "process" \in Crashes
  /\ Die({"process"})
  /\ FsIdle
  /\ UNCHANGED <<acked, durable>>

\* The contents a file may have after a loss of power, s being what was last
\* forced out and c what the process saw: any prefix of what was not forced
\* out, the last frame of it perhaps of the right size but without its bytes.
AfterPowerLoss(s, c) ==
  LET all == Len(c.frames)
      grown == IsPrefix(s.frames, c.frames)
      End(m) == OffsetForIndex(c, m)
      Cut(m, k, t) == [c EXCEPT !.frames = SubSeq(@, 1, m), !.tail = t, !.size = End(m) + k]
      short == Len(s.frames)..(all - 1)
      prefixes == UNION {{Cut(m, k, CutTail(k)) :
                            k \in {0} \cup Cuts(End(m + 1) - End(m))} : m \in short}
      zeroes == {Cut(m, End(m + 1) - End(m), "bad") : m \in short}
      data == IF ~grown THEN {s, c}
              ELSE {c, Cut(all, 0, "clean")} \cup prefixes \cup zeroes
  IN IF s.hdr = "ok"
     THEN {[f EXCEPT !.meta = m] : f \in data, m \in {s.meta, c.meta}}
     ELSE {s, c} \cup (IF c.hdr = "empty" THEN {}
                       ELSE {[c EXCEPT !.hdr = "torn", !.size = HeaderSize - 1]})

\* What a loss of power finds undone besides the handler's own step: a removed
\* file whose name is still on the medium, a file with bytes not forced out, a
\* segment of that kind left behind by rotation, a file that grew on the medium
\* before its bytes got there.
Exposed ==
  {x \in {"unlinked", "unsynced", "unforced", "zeroed"} :
     \/ x = "unlinked" /\ stableDir \ dir # {}
     \/ x = "unsynced" /\ \E n \in dir : stable[n].size # files[n].size
     \/ /\ x = "unforced"
        /\ \E m, n \in dir : files[m].base < files[n].base /\ stable[m] # files[m]
     \/ /\ x = "zeroed"
        /\ \E n \in 1..Len(files) : files'[n].tail = "bad" /\ files[n].tail # "bad"}

\* Power is lost: everything not forced out may be lost or kept, file by file
\* and name by name.
PowerCut ==
  /\ "power" \in Crashes
  /\ pc # "down" /\ crashes < MaxCrashes
  /\ LET After(n) == AfterPowerLoss(stable[n], files[n])
         dirty == {n \in dir \cup stableDir : After(n) # {files[n]}}
     IN \E lost \in [dirty -> UNION {After(n) : n \in dirty}] :
          /\ \A n \in dirty : lost[n] \in After(n)
          /\ files' = [n \in 1..Len(files) |-> IF n \in dirty THEN lost[n] ELSE files[n]]
  /\ Die({"power"} \cup Exposed)
  /\ stable' = files'
  /\ \E kept \in SUBSET ((dir \ stableDir) \cup (stableDir \ dir)) :
       /\ dir' = (dir \cap stableDir) \cup kept
       /\ \A m, n \in dir' : files[m].base = files[n].base => m = n
  /\ stableDir' = dir'
  /\ acked' = durable
  /\ UNCHANGED durable

-----------------------------------------------------------------------------
Load == LoadFails \/ LoadCreates \/ LoadFinds \/ LoadTrim \/ LoadTrimSync \/ LoadTrimFails

RNext == (Next /\ UNCHANGED crashVars) \/ Load \/ ProcessCrash \/ PowerCut

RSpec == RInit /\ [][RNext]_rvars

-----------------------------------------------------------------------------
(***************************************************************************)
(* Properties.  AckedReadable of module Chain is the promise across a      *)
(* crash as well: acked holds what must come back, every acknowledged      *)
(* record when the process died, every durable one when power was lost.    *)
(***************************************************************************)
\* The crashes after which a log of several segments cannot be opened, and no
\* others (for a single one see TornTailTrimmed).  A crash of the process is
\* fatal after segment.Create has made the file and before its header is
\* written, and between two removals of TruncateAfter.  A loss of power is fatal
\* inside segment.Create before the header is forced out, when it finds a
\* removed file's name still on the medium or a segment that rotation has left
\* behind unsynced, when a file has grown before its bytes were forced out, and
\* when the read offset is written and can reach the medium before its frame.
\* In particular a write that was under way never is.
FatalCrashes ==
  loadErr \notin {"none", "trim"} =>
    IF "process" \in crashedAt THEN crashedAt \cap {"writeHeader", "afterKeep"} # {}
    ELSE crashedAt \cap {"writeHeader", "syncHeader", "setReadSync",
                         "unlinked", "unforced", "zeroed"} # {}

\* A torn write keeps no log from being opened, that of a single segment
\* included: Load trims the segment, as the comment at chain.go:216 has it.
TornTailTrimmed == loadErr # "torn"

\* A chain is gapless, and its records in order, after every crash but a loss
\* of power that brought back files whose removal had not reached the medium.
ChainAfterCrash ==
  "unlinked" \notin crashedAt => Contiguous /\ OrderPreserved
=============================================================================

------------------------------- MODULE Reader -------------------------------
(***************************************************************************)
(* A reader of a log (pkg/log/log.go, pkg/log/scan.go, segment/scanner.go, *)
(* frame/read.go) beside the handlers of its chain: Range, Consume, which  *)
(* truncates what it has handed out, FirstSequence and LastSequence.       *)
(*                                                                         *)
(* A reader takes the lock of the chain to copy its segments, and reads    *)
(* their positions and files without it.  Each look at a segment or a file *)
(* is a step; meanwhile a handler may be anywhere in its work.  Segments   *)
(* are shared, so the reader's list follows what the handlers do to them;  *)
(* one that has left the chain is closed.                                  *)
(*                                                                         *)
(* A scanner beside TruncateAfter is not modelled: what it reads where a   *)
(* frame used to be depends on bytes the model does not have.              *)
(***************************************************************************)
EXTENDS Recovery

CONSTANTS
  Froms,     \* the sequence numbers readers start from
  Stops,     \* the ends of Range, 0: to the end of the log
  Uses,      \* the calls of readers
  MaxCalls   \* bound: calls of a reader

ASSUME ReaderAssumption ==
  /\ Froms \subseteq Nat /\ Stops \subseteq Nat /\ MaxCalls \in Nat
  /\ Uses \subseteq {"range", "consume", "first", "last"}
  /\ Ops \subseteq {"append", "truncateBefore", "sync"}

VARIABLES
  rd,        \* the reader: control point, locals and history of its call
  cursor,    \* log.nextConsumeSeq
  accepted,  \* history: records fn has accepted from Consume since Load
  calls      \* calls of a reader so far

lvars == <<rvars, rd, cursor, accepted, calls>>

\* at      control point;
\* use     which call it is;
\* asked, from, stop  its arguments, and where it starts;
\* list, i  the segments copied, and the one being read;
\* index, offset, size  the position in it, and the size of the frame there;
\* next    nextUnread, or what FirstSequence or LastSequence returns;
\* err     what the call failed with, "none" if it did not;
\* promised  history: records in the range of the call that were there when
\*         the list was copied and have not been handed out;
\* known   history: records that were there then, also those that a failed
\*         truncation has left, or were appended since;
\* moved   history: since then a read start moved or a failed write was cut;
\* cut     history: that came between the header of a frame and its payload;
\* empty   history: the log was without records at some time of the call.
NoRead ==
  [at |-> "idle", use |-> "none", asked |-> 0, from |-> 0, stop |-> 0, list |-> <<>>,
   i |-> 0, index |-> 0, offset |-> 0, size |-> 0, next |-> 0, err |-> "none",
   promised |-> {}, known |-> {}, moved |-> FALSE, cut |-> FALSE,
   empty |-> FALSE]

LInit ==
  /\ RInit
  /\ rd = NoRead
  /\ cursor = 0
  /\ accepted = {}
  /\ calls = 0

Larger(a, b) == IF a > b THEN a ELSE b

\* log.Head()
HeadSequence == StartSequence(segs[1])

segment == rd.list[rd.i]

At(l) == rd' = [rd EXCEPT !.at = l]

Fail(e) == rd' = [rd EXCEPT !.at = "end", !.err = e]

\* A step of the reader leaves the log alone.
Looks == UNCHANGED <<rvars, cursor, accepted, calls>>

-----------------------------------------------------------------------------
(***************************************************************************)
(* Range and Consume: the lock is taken for log.Head() and for the list.   *)
(***************************************************************************)
Begin(use, asked, from, stop) ==
  /\ rd.at = "idle" /\ pc = "idle" /\ use \in Uses
  /\ calls < MaxCalls
  /\ calls' = calls + 1
  /\ rd' = [NoRead EXCEPT !.at = "list", !.use = use, !.asked = asked,
                          !.from = from, !.stop = stop, !.next = from]
  /\ UNCHANGED <<rvars, cursor, accepted>>

RangeCall == \E from \in Froms, stop \in Stops : Begin("range", from, from, stop)

\* Takes the cursor for the last record consumed.
ConsumeCallMutant ==
  \E from \in Froms : Begin("consume", from, Larger(Larger(from, cursor - 1), HeadSequence), 0)

ConsumeCall ==
  \E from \in Froms : Begin("consume", from, Larger(Larger(from, cursor), HeadSequence), 0)

\* NewScanner: log.segments()
List ==
  /\ rd.at = "list" /\ pc = "idle"
  /\ rd' = [rd EXCEPT !.at = "pick", !.list = segs, !.known = acked \cup Visible,
                      !.promised = {r \in acked : r[1] >= rd.from /\ (rd.stop > 0 => r[1] < rd.stop)}]
  /\ Looks

-----------------------------------------------------------------------------
(***************************************************************************)
(* Scanner.Seek: the segment is chosen, then the record looked up in it.   *)
(***************************************************************************)
\* Takes the start for the sequence number to find, wherever the segment starts.
SeekPickMutant ==
  /\ rd.at = "pick"
  /\ LET behind == {k \in 1..Len(rd.list) : rd.from < NextSequence(rd.list[k])}
     IN IF behind = {} THEN At("end")
        ELSE rd' = [rd EXCEPT !.at = "find", !.i = Min(behind),
                              !.index = rd.from - rd.list[Min(behind)].base]
  /\ Looks

\* No segment ends behind the start: there is nothing to read.
SeekPick ==
  /\ rd.at = "pick"
  /\ LET behind == {k \in 1..Len(rd.list) : rd.from < NextSequence(rd.list[k])}
         s == rd.list[Min(behind)]
     IN IF behind = {} THEN At("end")
        ELSE rd' = [rd EXCEPT !.at = "find", !.i = Min(behind),
                              !.index = Larger(rd.from, StartSequence(s)) - s.base]
  /\ Looks

\* segScanner.Seek and Find, with the positions there are by now.  A lookup in
\* a segment closed meanwhile fails if it has to read the file; if a
\* checkpoint of the offset index will do, the first read fails.
SeekFind ==
  /\ rd.at = "find"
  /\ IF rd.index < segment.startIndex THEN Fail("outOfBounds")
     ELSE IF segment.open
     THEN rd' = [rd EXCEPT !.at = "read", !.offset = OffsetForIndex(files[segment.ino], rd.index)]
     ELSE Fail("closed") \/ At("read")
  /\ Looks

-----------------------------------------------------------------------------
(***************************************************************************)
(* Scanner.Next, over the segments listed.                                 *)
(***************************************************************************)
\* StopAt is looked at before every read, with the segment's read start.
Beyond == rd.stop > 0 /\ StartSequence(segment) >= rd.stop

\* Skips the segment behind the one read.
EndOfSegmentMutant ==
  IF rd.i >= Len(rd.list) - 1 THEN At("end")
  ELSE rd' = [rd EXCEPT !.at = "open", !.i = @ + 2, !.index = rd.list[rd.i + 2].startIndex]

EndOfSegment ==
  IF rd.i = Len(rd.list) THEN At("end")
  ELSE rd' = [rd EXCEPT !.at = "open", !.i = @ + 1, !.index = rd.list[rd.i + 1].startIndex]

\* segment.NewScanner reads startOffset and startIndex one after the other and
\* without the lock under which SetReadOffset stores them.
Open ==
  /\ rd.at = "open"
  /\ IF Beyond THEN At("end")
     ELSE \E x, y \in {rd.index, segment.startIndex} :
            rd' = [rd EXCEPT !.at = "read", !.index = x,
                             !.offset = IF segment.open THEN OffsetForIndex(files[segment.ino], y)
                                        ELSE 0]
  /\ Looks

\* A complete frame of the right index is at the position of the scanner.
Here ==
  LET f == files[segment.ino]
  IN rd.index < Len(f.frames) /\ OffsetForIndex(f, rd.index) = rd.offset

frameSize == files[segment.ino].frames[rd.index + 1].end - rd.offset

\* What reading n bytes at an offset comes to when they are not all there:
\* io.EOF if none is, and that ends the segment; io.ErrUnexpectedEOF otherwise.
Short(offset, n) ==
  IF offset >= files[segment.ino].size THEN "clean"
  ELSE IF offset + n > files[segment.ino].size THEN "torn" ELSE "none"

\* The scanner is behind the last complete frame.
AtEnd ==
  LET f == files[segment.ino]
  IN rd.index = Len(f.frames) /\ OffsetForIndex(f, rd.index) = rd.offset

\* The header of the next frame is there, and not yet all of its payload.
Unfinished ==
  LET f == files[segment.ino]
  IN AtEnd /\ f.tail \in {"bare", "torn"} /\ f.size >= rd.offset + FrameHeaderSize

\* The sizes such a header may give: that of the frame being written, or, when a
\* crash has left a header behind, any.
unfinishedSizes ==
  IF pc \in {"writing", "trim"} /\ segment.ino = lastSegment.ino
  THEN {FrameSize(op.batch, rd.index - segment.writeIndex + 1)}
  ELSE UNION {{FrameSize(b, i) : i \in 1..Len(b)} : b \in Batches}

\* What reader.Read meets where there is no frame header.  Bytes that do not
\* start a frame, or start another one, do not carry the index asked for.
Meets ==
  LET f == files[segment.ino]
  IN IF AtEnd THEN f.tail
     ELSE IF Short(rd.offset, FrameHeaderSize) = "none" THEN "bad"
     ELSE Short(rd.offset, FrameHeaderSize)

\* os.ErrClosed is how a scanner learns that its segment is gone.
Reaped ==
  /\ rd.at \in {"read", "payload"} /\ ~segment.open
  /\ IF rd.at = "read" /\ Beyond THEN At("end") ELSE Fail("reaped")
  /\ Looks

ReadHeader ==
  /\ rd.at = "read" /\ segment.open
  /\ IF Beyond THEN At("end")
     ELSE IF Here \/ Unfinished
     THEN \E n \in IF Here THEN {frameSize} ELSE unfinishedSizes :
            rd' = [rd EXCEPT !.at = "payload", !.size = n, !.cut = FALSE]
     ELSE IF Meets = "clean" THEN EndOfSegment ELSE Fail(Meets)
  /\ Looks

\* Counts from the read start of the segment.
recordMutant ==
  <<StartSequence(segment) + rd.index,
    IF Here /\ frameSize = rd.size THEN files[segment.ino].frames[rd.index + 1].id ELSE 0>>

\* The record the payload read now belongs to; 0: parts of several.  Scans do
\* not validate checksums.
record ==
  <<segment.base + rd.index,
    IF Here /\ frameSize = rd.size THEN files[segment.ino].frames[rd.index + 1].id ELSE 0>>

\* StopAt once more, with the number of the record.
Stopped == rd.stop > 0 /\ record[1] >= rd.stop

\* The callback of Range refuses the record or takes it.
HandOut ==
  \/ Fail("refused") /\ UNCHANGED accepted
  \/ /\ rd' = [rd EXCEPT !.at = "read", !.index = @ + 1, !.offset = @ + rd.size,
                         !.next = record[1] + 1, !.promised = @ \ {record}]
     /\ accepted' = IF rd.use = "consume" THEN accepted \cup {record} ELSE accepted

\* The payload is a read of its own: by then the frame may have been completed,
\* cut off, or written over.
ReadPayload ==
  /\ rd.at = "payload" /\ segment.open
  /\ LET got == Short(rd.offset + FrameHeaderSize, rd.size - FrameHeaderSize)
     IN \/ got = "clean" /\ EndOfSegment /\ UNCHANGED accepted
        \/ got = "torn" /\ Fail("torn") /\ UNCHANGED accepted
        \/ got = "none" /\ Stopped /\ At("end") /\ UNCHANGED accepted
        \/ got = "none" /\ ~Stopped /\ HandOut
  /\ UNCHANGED <<rvars, cursor, calls>>

-----------------------------------------------------------------------------
(***************************************************************************)
(* The end of Range, and of Consume.                                       *)
(***************************************************************************)
Consumed == rd.use = "consume" /\ IF rd.err = "none" THEN rd.next # rd.from ELSE rd.next > cursor

RangeReturn ==
  /\ rd.at = "end" /\ ~Consumed
  /\ rd' = NoRead
  /\ Looks

\* Advances past the record that was refused.
ConsumeAdvanceMutant ==
  /\ rd.at = "end" /\ Consumed
  /\ cursor' = rd.next
  /\ rd' = [rd EXCEPT !.at = "truncate", !.next = IF rd.err = "refused" THEN @ + 1 ELSE @]
  /\ UNCHANGED <<rvars, accepted, calls>>

\* The cursor is stored before the log is truncated.
ConsumeAdvance ==
  /\ rd.at = "end" /\ Consumed
  /\ cursor' = rd.next
  /\ At("truncate")
  /\ UNCHANGED <<rvars, accepted, calls>>

\* log.TruncateBefore(nextUnread); what it returns, Consume returns.
ConsumeTruncate ==
  /\ rd.at = "truncate"
  /\ TruncateBeforeCall(rd.next)
  /\ rd' = NoRead
  /\ UNCHANGED <<crashVars, cursor, accepted, calls>>

-----------------------------------------------------------------------------
(***************************************************************************)
(* FirstSequence and LastSequence take the lock twice, for the first and   *)
(* for the last segment, and compare and return positions without it.      *)
(***************************************************************************)
BoundsCall(use) ==
  /\ rd.at = "idle" /\ pc = "idle" /\ use \in Uses
  /\ calls < MaxCalls
  /\ calls' = calls + 1
  /\ rd' = [NoRead EXCEPT !.at = "tail", !.use = use, !.list = <<segs[1]>>,
                          !.from = IF use = "first" THEN HeadSequence ELSE NextSequence(lastSegment) - 1,
                          !.empty = HeadSequence = NextSequence(lastSegment)]
  /\ UNCHANGED <<rvars, cursor, accepted>>

BoundsTail ==
  /\ rd.at = "tail" /\ pc = "idle"
  /\ rd' = [rd EXCEPT !.at = "head", !.list = Append(@, lastSegment)]
  /\ Looks

BoundsHead ==
  /\ rd.at = "head"
  /\ rd' = [rd EXCEPT !.at = "compare", !.index = StartSequence(rd.list[1])]
  /\ Looks

BoundsCompareMutant ==
  /\ rd.at = "compare"
  /\ IF rd.index + 1 >= NextSequence(rd.list[2]) THEN rd' = [rd EXCEPT !.at = "answer", !.err = "empty"]
     ELSE At("value")
  /\ Looks

BoundsCompare ==
  /\ rd.at = "compare"
  /\ IF rd.index >= NextSequence(rd.list[2]) THEN rd' = [rd EXCEPT !.at = "answer", !.err = "empty"]
     ELSE At("value")
  /\ Looks

BoundsValue ==
  /\ rd.at = "value"
  /\ rd' = [rd EXCEPT !.at = "answer",
                      !.next = IF rd.use = "first" THEN StartSequence(rd.list[1])
                               ELSE NextSequence(rd.list[2]) - 1]
  /\ Looks

BoundsReturn ==
  /\ rd.at = "answer"
  /\ rd' = NoRead
  /\ Looks

-----------------------------------------------------------------------------
(***************************************************************************)
(* The log beside the reader.                                              *)
(***************************************************************************)
\* A segment of the reader's list after a step of the log.
Latest(s) ==
  LET same == {i \in 1..Len(segs') : segs'[i].ino = s.ino}
  IN IF same = {} THEN [s EXCEPT !.open = FALSE] ELSE segs'[CHOOSE i \in same : TRUE]

\* The step moves a read start of a listed segment or cuts frames off its file.
Shrinks(s) == Latest(s).open /\ files'[s.ino].size < files[s.ino].size

Moves ==
  \E k \in 1..Len(rd.list) :
    Latest(rd.list[k]).startIndex # rd.list[k].startIndex \/ Shrinks(rd.list[k])

Loaded == pc' = "idle" /\ (op.kind = "load" \/ pc \in {"down", "loadTrimSync"})

\* A step of a handler, of Sync, of Load, or a crash, which takes the reader
\* with it.  Log.Load ends with nextConsumeSeq = Head().
LogStep ==
  /\ RNext
  /\ rd' = CASE pc' = "down" -> NoRead
             [] rd.list # <<>> /\ pc' # "down" ->
                  [rd EXCEPT !.list = [k \in 1..Len(@) |-> Latest(@[k])],
                             !.known = @ \cup acked', !.moved = @ \/ Moves,
                             !.cut = @ \/ (rd.at = "payload" /\ Shrinks(segment)),
                             !.empty = @ \/ acked' = {}]
             [] OTHER -> rd
  /\ cursor' = IF Loaded THEN StartSequence(segs'[1]) ELSE IF pc' = "down" THEN 0 ELSE cursor
  /\ accepted' = IF pc' = "down" THEN {} ELSE accepted
  /\ UNCHANGED calls

ScanStep == SeekPick \/ SeekFind \/ Open \/ Reaped \/ ReadHeader \/ ReadPayload

BoundsStep ==
  \/ \E use \in {"first", "last"} : BoundsCall(use)
  \/ BoundsTail \/ BoundsHead \/ BoundsCompare \/ BoundsValue \/ BoundsReturn

ReaderStep ==
  \/ RangeCall \/ ConsumeCall \/ List
  \/ ScanStep
  \/ RangeReturn \/ ConsumeAdvance \/ ConsumeTruncate
  \/ BoundsStep

LNext == LogStep \/ ReaderStep

LSpec == LInit /\ [][LNext]_lvars

-----------------------------------------------------------------------------
(***************************************************************************)
(* Properties.                                                             *)
(***************************************************************************)
\* The step hands a record out, and fn takes it.
HandsOut == rd.at = "payload" /\ rd'.at = "read"

\* A scan leaves nothing out: a record that was there when the segments were
\* listed, and has been neither reaped nor truncated since, is handed out
\* before any later one and before the scan ends without an error, whatever is
\* appended, rotated, reaped or truncated meanwhile.
NothingSkipped ==
  [][/\ HandsOut => \A r \in rd.promised \cap acked : r[1] >= record[1]
     /\ rd.at # "end" /\ rd'.at = "end" /\ rd'.err = "none" => rd.promised \cap acked = {}]_lvars

\* The records an Append under way has written, or is writing.
InFlight ==
  IF pc \in {"writing", "syncAppend", "trim"}
  THEN {<<NextSequence(lastSegment) + i - 1, op.id + i>> : i \in 1..Len(op.batch)}
  ELSE {}

\* What a scan hands out has been appended, at its sequence number, or is being
\* appended, whatever is written, rotated, reaped or truncated meanwhile.  Only
\* where a failed Append is cut off between the two reads of one frame can it be
\* a mixture of others (see OnlyWholeFrames).
HandsOutAppended ==
  [][HandsOut => record \in rd.known \cup InFlight \/ (rd.cut /\ record[2] = 0)]_lvars

\* A scan hands out no payload that its frame header does not belong to: on
\* scan, as on read, a checksum that does not match is an error.
OnlyWholeFrames ==
  [][HandsOut => record[2] # 0]_lvars

\* The errors a scan can end with beside healthy handlers, and when: a torn
\* read only beside an Append, a wrong frame index or a start out of bounds only
\* when a read start was moved or a failed Append cut back under the scanner,
\* a closed file only when nothing that it still had to deliver is retained.
ScanErrorsExplained ==
  [][rd.err = "none" /\ rd'.err # "none" =>
       CASE rd'.err = "torn" -> pc \in {"writing", "trim"} \/ rd.moved
         [] rd'.err \in {"bad", "outOfBounds"} -> rd.moved
         [] rd'.err \in {"reaped", "closed"} ->
              \A r \in acked : r[1] >= NextSequence(segment)
         [] OTHER -> TRUE]_lvars

\* FirstSequence and LastSequence answer for the time of the call although the
\* two segments they compare are fetched at different moments: no records only
\* if there were none at some moment of it, else a number that is neither behind
\* the bound of the log at the return nor before the one at the call.
BoundsHeld ==
  rd.at = "answer" =>
    IF rd.err = "empty" THEN rd.empty
    ELSE /\ rd.from <= rd.next
         /\ pc = "idle" =>
              rd.next <= IF rd.use = "first" THEN HeadSequence ELSE NextSequence(lastSegment) - 1

\* Consume truncates no record fn has not accepted, other than what lies before
\* the sequence number it was called with: not when fn refuses a record, not
\* when the scan fails half way, not when records are appended meanwhile.
ConsumeKeepsUnread ==
  [][ConsumeTruncate =>
       \A r \in acked \ acked' : r \in accepted \/ r[1] < rd.asked]_lvars

\* A record fn has accepted is not handed to it again, also when truncating it
\* failed: the cursor stays behind it until the log is loaded anew.
ConsumedOnce ==
  [][rd.use = "consume" /\ HandsOut => \A r \in accepted : r[1] # record[1]]_lvars
=============================================================================

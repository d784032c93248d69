------------------------------ MODULE Storage ------------------------------
(***************************************************************************)
(* The storage under a log: the segment files and their directory, as      *)
(* internal/storage/file.go exposes them to the segment package, and what  *)
(* a segment file holds (segment header, frames, an incomplete tail).      *)
(*                                                                         *)
(* A file is known by its inode number, the position at which it was       *)
(* created; the directory is the set of inodes that still have a name, and *)
(* the name of a file is the base sequence number in its header            *)
(* (segmentFileName is injective).  Every piece of state exists twice:     *)
(* what the running process sees (files, dir) and what has been forced to  *)
(* the medium (stable, stableDir).                                         *)
(***************************************************************************)
EXTENDS Integers, Sequences

VARIABLES files, stable, dir, stableDir

storageVars == <<files, stable, dir, stableDir>>

HeaderSize == 64

FrameHeaderSize == 16

-----------------------------------------------------------------------------
(***************************************************************************)
(* Contents of a segment file.                                             *)
(*   hdr    how much of the 64-byte segment header is there;               *)
(*   meta   the first readable frame index, as the newest valid metadata   *)
(*          slot gives it (a read offset in the file, an index here);      *)
(*   frames the complete, well-formed frames from the header on: frame k   *)
(*          carries index k - 1, a record id and the offset at which it    *)
(*          ends;                                                          *)
(*   tail   what a reader meets behind them: end of file ("clean"), a      *)
(*          frame header without a byte of payload ("bare": the payload    *)
(*          read returns io.EOF), a part of a frame ("torn":               *)
(*          io.ErrUnexpectedEOF), or other bytes ("bad": the index or the  *)
(*          checksum of the frame read there is wrong);                    *)
(*   size   the size of the file.                                          *)
(***************************************************************************)
HdrStates == {"empty", "torn", "ok"}

TailStates == {"clean", "bare", "torn", "bad"}

Frame == [id : Nat, end : Nat]

File == [base : Nat, hdr : HdrStates, meta : Nat, frames : Seq(Frame),
         tail : TailStates, size : Nat]

EmptyFile(b) ==
  [base |-> b, hdr |-> "empty", meta |-> 0, frames |-> <<>>,
   tail |-> "clean", size |-> 0]

NewHeader(f) == [f EXCEPT !.hdr = "ok", !.size = HeaderSize]

\* offsetForIndex: where frame n (counted from 0) starts.
OffsetForIndex(f, n) == IF n = 0 THEN HeaderSize ELSE f.frames[n].end

-----------------------------------------------------------------------------
(***************************************************************************)
(* A batch of payloads is given by the running totals of its frame sizes,  *)
(* batch[i] being the size of the first i frames together.                 *)
(***************************************************************************)
\* A batch has a frame, and no frame is shorter than its header.
IsBatch(b) ==
  /\ b \in Seq(Nat) /\ Len(b) > 0
  /\ \A i \in 1..Len(b) : b[i] >= FrameHeaderSize
  /\ \A i, j \in 1..Len(b) : i < j => b[j] >= b[i] + FrameHeaderSize

AppendSize(batch) == batch[Len(batch)]

SizeOfFirst(batch, i) == IF i = 0 THEN 0 ELSE batch[i]

FrameSize(batch, i) == batch[i] - SizeOfFirst(batch, i - 1)

\* Byte counts at which a write of one frame can stop short, one for each
\* thing a reader can meet: a partial header, a bare header, all but the last
\* byte of the payload.
Cuts(size) ==
  {k \in {FrameHeaderSize - 1, FrameHeaderSize, size - 1} : k < size}

\* What reader.Read reports k bytes into a frame at the end of the file.
CutTail(k) ==
  IF k = 0 THEN "clean" ELSE IF k = FrameHeaderSize THEN "bare" ELSE "torn"

\* The file after the first j frames of a batch and k bytes of the next have
\* been written at offset off, behind its first n frames; id is the id of the
\* record before the batch.  Bytes behind the write stay: they are frames
\* still only when a frame of the right index happens to start there.  A write
\* beyond the end of the file leaves a hole that no reader gets across.
Written(f, n, off, batch, id, j, k) ==
  LET end == off + SizeOfFirst(batch, j)
      size == IF f.size > end + k THEN f.size ELSE end + k
      rest == size - end
      whole == IF k > 0 THEN FrameSize(batch, j + 1) ELSE FrameHeaderSize
      new == [i \in 1..j |-> [id |-> id + i, end |-> off + batch[i]]]
      old == SubSeq(f.frames, n + j + 1, Len(f.frames))
      aligned == /\ k = 0
                 /\ n + j <= Len(f.frames)
                 /\ OffsetForIndex(f, n + j) = end
  IN IF n > Len(f.frames) THEN [f EXCEPT !.tail = "bad", !.size = size]
     ELSE IF aligned
     THEN [f EXCEPT !.frames = SubSeq(f.frames, 1, n) \o new \o old]
     ELSE [f EXCEPT !.frames = SubSeq(f.frames, 1, n) \o new,
                    !.tail = IF rest >= whole THEN "bad" ELSE CutTail(rest),
                    !.size = size]

TruncatedMutant(f, n, off) == f

\* File.Truncate(off), off being where frame n starts when the file has it;
\* a file shorter than that is extended with zeroes.
Truncated(f, n, off) ==
  IF n <= Len(f.frames)
  THEN [f EXCEPT !.frames = SubSeq(f.frames, 1, n), !.tail = "clean", !.size = off]
  ELSE [f EXCEPT !.tail = "bad", !.size = off]

-----------------------------------------------------------------------------
(***************************************************************************)
(* The calls that change storage.                                          *)
(***************************************************************************)
Exists(b) == \E n \in dir : files[n].base = b

FsIdle == UNCHANGED storageVars

FsCreate(b) ==
  /\ files' = Append(files, EmptyFile(b))
  /\ stable' = Append(stable, EmptyFile(b))
  /\ dir' = dir \cup {Len(files) + 1}
  /\ UNCHANGED stableDir

FsWrite(n, f) ==
  /\ files' = [files EXCEPT ![n] = f]
  /\ UNCHANGED <<stable, dir, stableDir>>

FsSync(n) ==
  /\ stable' = [stable EXCEPT ![n] = files[n]]
  /\ UNCHANGED <<files, dir, stableDir>>

\* From here on a removed file cannot come back: its contents are forgotten.
FsSyncDir ==
  /\ stableDir' = dir
  /\ files' = [n \in 1..Len(files) |-> IF n \in dir THEN files[n] ELSE EmptyFile(0)]
  /\ stable' = [n \in 1..Len(files) |-> IF n \in dir THEN stable[n] ELSE EmptyFile(0)]
  /\ UNCHANGED dir

FsRemove(n) ==
  /\ dir' = dir \ {n}
  /\ UNCHANGED <<files, stable, stableDir>>

=============================================================================

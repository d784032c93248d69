----------------------------- MODULE MCReaders -----------------------------
(***************************************************************************)
(* Readers for TLC, of one of three logs:                                  *)
(*   "scans"  Range, FirstSequence and LastSequence beside appends, of     *)
(*            which one fails and is cut back, rotation, reaping and       *)
(*            TruncateBefore (the constants of the cfg);                   *)
(*   "mixed"  Range beside appends of two payload lengths, of which one     *)
(*            fails and is cut back;                                       *)
(*   "wal"    the single segment of pkg/wal, with Append, Sync, Consume    *)
(*            and its truncation, which may fail, and crashes.             *)
(***************************************************************************)
EXTENDS MCReader

VARIABLE options

rsvars == <<lvars, options>>

Mixed == INSTANCE Reader WITH
  Batches <- {<<17>>, <<17, 34>>, <<36>>, <<36, 72>>}, Ops <- {"append"},
  Uses <- {"range"}, Froms <- {0}, Stops <- {0}

Wal == INSTANCE Reader WITH
  StartSeq <- 0, MaxSegments <- 1, MaxSegmentSize <- 110, MaxDiskSize <- 0,
  Batches <- {<<17>>, <<17, 34>>, <<36>>},
  Ops <- {"append", "truncateBefore", "sync"}, TruncateSeqs <- {}, Faulty <- {"setRead"},
  MaxRecords <- 2, MaxFiles <- 3, Crashes <- {"process", "power"}, MaxCrashes <- 1,
  Uses <- {"consume"}, Froms <- {0, 1}, MaxCalls <- 2

ReadersInit == LInit /\ options \in {"scans", "mixed", "wal"}

ReadersNext ==
  /\ \/ options = "scans" /\ LNext
     \/ options = "mixed" /\ Mixed!LNext
     \/ options = "wal" /\ Wal!LNext
  /\ UNCHANGED options

ReadersSpec == ReadersInit /\ [][ReadersNext]_rsvars

=============================================================================

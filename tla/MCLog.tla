------------------------------- MODULE MCLog -------------------------------
(***************************************************************************)
(* A log for TLC, opened with one of three sets of options and inputs.     *)
(* They have the limits on segments and bytes in common, so the properties *)
(* of Chain and Recovery speak of all three:                               *)
(*   "faults"   synced appends of two payload lengths, both truncations,   *)
(*              and calls of storage that fail (the constants of the cfg); *)
(*   "crashes"  synced appends of up to three records, both truncations,   *)
(*              crashes, and a Trim in Load that fails;                    *)
(*   "syncs"    appends that do not sync, Log.Sync beside them, crashes.   *)
(***************************************************************************)
EXTENDS MCRecovery

VARIABLE options

lgvars == <<rvars, options>>

Crashing == INSTANCE Recovery WITH
  Faulty <- {"loadTrim", "loadTrimSync"}, Crashes <- {"process", "power"}, MaxCrashes <- 1,
  StartSeq <- 0, TruncateSeqs <- {0, 3}, MaxRecords <- 5, MaxFiles <- 4,
  Batches <- {<<17>>, <<17, 34>>, <<17, 34, 51>>}

Syncing == INSTANCE Recovery WITH
  SyncOnAppend <- FALSE, Ops <- {"append", "sync"},
  Faulty <- {}, Crashes <- {"process", "power"}, MaxCrashes <- 1,
  Batches <- {<<36>>, <<36, 72>>}, MaxRecords <- 4

LogInit == RInit /\ options \in {"faults", "crashes", "syncs"}

LogNext ==
  /\ \/ options = "faults" /\ RNext
     \/ options = "crashes" /\ Crashing!RNext
     \/ options = "syncs" /\ Syncing!RNext
  /\ UNCHANGED options

LogSpec == LogInit /\ [][LogNext]_lgvars

=============================================================================

------------------------------- MODULE Writer -------------------------------
(***************************************************************************)
(* The batching writer (pkg/log/write): clients hand their payloads to one *)
(* goroutine over an unbuffered channel; it collects them into a batch,    *)
(* appends the batch to the log when it is full, when a timer fires or     *)
(* when its context ends, and answers every request of the batch.          *)
(*                                                                         *)
(* The log is what Log.Append makes of it: a list of records, here their   *)
(* ids, the first of which has sequence number StartSeq.                   *)
(***************************************************************************)
EXTENDS Integers, Sequences, FiniteSetsExt

CONSTANTS
  Clients,      \* goroutines that call Append
  StartSeq,     \* sequence number of the first record
  MaxLength,    \* Writer.MaxLength
  MaxSize,      \* Writer.MaxSize
  Sizes,        \* payload lengths the clients use
  SyncOnAppend, \* whether Log.Append forces what it wrote out
  MaxRequests,  \* bound: calls of Append
  MaxForeign,   \* bound: records appended by others
  MaxFailures   \* bound: calls of Log.Append that fail

VARIABLES
  client,     \* what each client is at, its request's id and payload length
  cancelled,  \* clients whose context is done
  resp,       \* response channel of each client's request
  loop,       \* control point of the flush loop
  ctxDone,    \* the loop's context is done
  exiting,    \* the loop is in its last flush
  batch,      \* requests collected: who waits, the record's id, its length
  answered,   \* how many of them have been answered
  lastSeq,    \* what Log.Append returned for the batch, or Error
  timer,      \* the lazy timer: "off", "armed" or "fired"
  log,        \* ids of the records in the log
  synced,     \* how many of them have been forced out
  results,    \* history: what calls returned
  accepted,   \* history: ids in the order in which the loop received them
  nextId, failures  \* bounded counters

vars == <<client, cancelled, resp, loop, ctxDone, exiting, batch, answered, lastSeq,
          timer, log, synced, results, accepted, nextId, failures>>

ASSUME WriterAssumption ==
  /\ StartSeq \in Nat /\ MaxLength \in Nat /\ MaxSize \in Nat /\ Sizes \subseteq Nat
  /\ SyncOnAppend \in BOOLEAN
  /\ MaxRequests \in Nat /\ MaxForeign \in Nat /\ MaxFailures \in Nat

NoRequest == [at |-> "idle", id |-> 0, size |-> 0]

Error == -1

NoResponse == -2

Init ==
  /\ client = [c \in Clients |-> NoRequest]
  /\ cancelled = {}
  /\ resp = [c \in Clients |-> NoResponse]
  /\ loop = "new"
  /\ ctxDone = FALSE /\ exiting = FALSE
  /\ batch = <<>> /\ answered = 0 /\ lastSeq = 0
  /\ timer = "off"
  /\ log = <<>> /\ synced = 0
  /\ results = {} /\ accepted = <<>>
  /\ nextId = 1 /\ failures = 0

loopVars == <<loop, exiting, batch, answered, lastSeq, timer, accepted>>

logVars == <<log, synced, failures>>

-----------------------------------------------------------------------------
(***************************************************************************)
(* Append, on the client's side.                                           *)
(***************************************************************************)
\* The call returns: an error, or the sequence number the payload got.
Returns(c, r) ==
  /\ client' = [client EXCEPT ![c] = NoRequest]
  /\ results' = results \cup {[id |-> client[c].id, seq |-> r]}

\* A call whose context is done already is turned away at once.
AppendRefused(c) ==
  /\ client[c].at = "idle" /\ nextId <= MaxRequests
  /\ c \in cancelled
  /\ results' = results \cup {[id |-> nextId, seq |-> Error]}
  /\ nextId' = nextId + 1
  /\ UNCHANGED <<client, cancelled, resp, ctxDone, loopVars, logVars>>

AppendCall(c, size) ==
  /\ client[c].at = "idle" /\ nextId <= MaxRequests
  /\ c \notin cancelled
  /\ client' = [client EXCEPT ![c] = [at |-> "select", id |-> nextId, size |-> size]]
  /\ nextId' = nextId + 1
  /\ UNCHANGED <<cancelled, resp, ctxDone, results, loopVars, logVars>>

\* The loop ends without closing stopCh.
SelectStoppedMutant(c) == FALSE

SelectStopped(c) ==
  /\ client[c].at = "select" /\ loop = "stopped"
  /\ Returns(c, Error)
  /\ UNCHANGED <<cancelled, resp, ctxDone, nextId, loopVars, logVars>>

SelectCanceled(c) ==
  /\ client[c].at = "select" /\ c \in cancelled
  /\ Returns(c, Error)
  /\ UNCHANGED <<cancelled, resp, ctxDone, nextId, loopVars, logVars>>

\* Once the loop has the request, only its answer ends the call.
ReceiveResponse(c) ==
  /\ client[c].at = "wait" /\ resp[c] # NoResponse
  /\ Returns(c, resp[c])
  /\ resp' = [resp EXCEPT ![c] = NoResponse]
  /\ UNCHANGED <<cancelled, ctxDone, nextId, loopVars, logVars>>

-----------------------------------------------------------------------------
(***************************************************************************)
(* The flush loop.                                                         *)
(***************************************************************************)
\* startOnce: a second Start does nothing.
Start ==
  /\ loop = "new"
  /\ loop' = "select"
  /\ UNCHANGED <<client, cancelled, resp, ctxDone, exiting, batch, answered, lastSeq, timer,
                 results, accepted, nextId, logVars>>

\* flush, called with batch b and timer t: it goes on in LogAppend when there
\* is something to write, and ends with the timer stopped and drained.
flush(b, last) ==
  /\ batch' = b
  /\ exiting' = last
  /\ IF b # <<>>
     THEN loop' = "write" /\ UNCHANGED timer
     ELSE loop' = (IF last THEN "stopped" ELSE "select") /\ timer' = "off"

\* Returns without the last flush.
OnDoneMutant ==
  /\ loop = "select" /\ ctxDone
  /\ loop' = "stopped" /\ exiting' = TRUE
  /\ UNCHANGED <<client, cancelled, resp, ctxDone, batch, answered, lastSeq, timer, results,
                 accepted, nextId, logVars>>

\* Does not look at the context of the loop.
OnDoneNeverMutant == FALSE

OnDone ==
  /\ loop = "select" /\ ctxDone
  /\ flush(batch, TRUE)
  /\ UNCHANGED <<client, cancelled, resp, ctxDone, answered, lastSeq, results, accepted,
                 nextId, logVars>>

OnTimer ==
  /\ loop = "select" /\ timer = "fired"
  /\ flush(batch, FALSE)
  /\ UNCHANGED <<client, cancelled, resp, ctxDone, answered, lastSeq, results, accepted,
                 nextId, logVars>>

SizeOf(b) == FoldFunction(LAMBDA r, n : n + r.size, 0, b)

fullMutant(b) == SizeOf(b) > MaxSize \/ Len(b) > MaxLength

full(b) == SizeOf(b) >= MaxSize \/ Len(b) >= MaxLength

\* Starts the timer for a batch that has something in it.
timerForMutant == IF batch # <<>> THEN "armed" ELSE timer

\* timer.Start for the first request of a batch.
timerFor == IF batch = <<>> THEN "armed" ELSE timer

Receive(c) ==
  /\ loop = "select" /\ client[c].at = "select"
  /\ client' = [client EXCEPT ![c].at = "wait"]
  /\ accepted' = Append(accepted, client[c].id)
  /\ batch' = Append(batch, [from |-> c, id |-> client[c].id, size |-> client[c].size])
  /\ loop' = IF full(batch') THEN "write" ELSE "select"
  /\ timer' = timerFor
  /\ UNCHANGED <<cancelled, resp, ctxDone, exiting, answered, lastSeq, results, nextId, logVars>>

payloadsMutant == [i \in 1..Len(batch) |-> batch[Len(batch) + 1 - i].id]

payloads == [i \in 1..Len(batch) |-> batch[i].id]

forcedOutMutant(l) == Len(l) + 1

\* How much of the log Log.Append leaves forced out.
forcedOut(l) == IF SyncOnAppend THEN Len(l) ELSE synced

\* Never forces anything out.
LogAppendMutant ==
  /\ loop = "write"
  /\ loop' = "respond" /\ answered' = 0
  /\ log' = log \o payloads
  /\ lastSeq' = StartSeq + Len(log') - 1
  /\ UNCHANGED <<client, cancelled, resp, ctxDone, exiting, batch, timer, results, accepted, nextId,
                 synced, failures>>

\* A failure takes a batch's worth of records off the log, written or not.
LogAppendRollbackMutant ==
  /\ loop = "write"
  /\ loop' = "respond" /\ answered' = 0
  /\ failures < MaxFailures /\ failures' = failures + 1
  /\ lastSeq' = Error
  /\ log' = SubSeq(log, 1, Len(log) - Len(batch))
  /\ synced' = Len(log')
  /\ UNCHANGED <<client, cancelled, resp, ctxDone, exiting, batch, timer, results, accepted, nextId>>

\* writeBatch, the call of Log.Append.
LogAppend ==
  /\ loop = "write"
  /\ loop' = "respond" /\ answered' = 0
  /\ \/ /\ log' = log \o payloads
        /\ lastSeq' = StartSeq + Len(log') - 1
        /\ synced' = forcedOut(log')
        /\ UNCHANGED failures
     \/ /\ failures < MaxFailures /\ failures' = failures + 1
        /\ lastSeq' = Error
        /\ UNCHANGED <<log, synced>>
  /\ UNCHANGED <<client, cancelled, resp, ctxDone, exiting, batch, timer, results, accepted, nextId>>

firstSeqMutant == lastSeq - Len(batch)

firstSeq == lastSeq - Len(batch) + 1

\* writeBatch, one answer; the channel has room for it.  The last answer ends
\* the flush: the batch is cleared and the timer stopped, fired or not.
Respond ==
  /\ loop = "respond"
  /\ resp' = [resp EXCEPT ![batch[answered + 1].from] =
                IF lastSeq = Error THEN Error ELSE firstSeq + answered]
  /\ answered' = answered + 1
  /\ IF answered' < Len(batch)
     THEN UNCHANGED <<loop, batch, timer>>
     ELSE /\ loop' = IF exiting THEN "stopped" ELSE "select"
          /\ batch' = <<>> /\ timer' = "off"
  /\ UNCHANGED <<client, cancelled, ctxDone, exiting, lastSeq, results, accepted, nextId, logVars>>

-----------------------------------------------------------------------------
(***************************************************************************)
(* The surroundings: contexts end, the timer fires, somebody else appends. *)
(***************************************************************************)
CancelClient(c) ==
  /\ c \notin cancelled
  /\ cancelled' = cancelled \cup {c}
  /\ UNCHANGED <<client, resp, ctxDone, results, nextId, loopVars, logVars>>

CancelLoop ==
  /\ ~ctxDone
  /\ ctxDone' = TRUE
  /\ UNCHANGED <<client, cancelled, resp, results, nextId, loopVars, logVars>>

\* Also while the loop is writing.
TimerFires ==
  /\ timer = "armed"
  /\ timer' = "fired"
  /\ UNCHANGED <<client, cancelled, resp, loop, ctxDone, exiting, batch, answered, lastSeq,
                 results, accepted, nextId, logVars>>

OtherAppend ==
  /\ Cardinality({i \in 1..Len(log) : log[i] = 0}) < MaxForeign
  /\ log' = Append(log, 0)
  /\ synced' = forcedOut(log')
  /\ UNCHANGED <<client, cancelled, resp, ctxDone, results, nextId, failures, loopVars>>

-----------------------------------------------------------------------------
ClientStep(c) == SelectStopped(c) \/ ReceiveResponse(c)

LoopStep == OnDone \/ OnTimer \/ LogAppend \/ Respond \/ \E c \in Clients : Receive(c)

Next == \/ \E c \in Clients : ClientStep(c) \/ SelectCanceled(c) \/ AppendRefused(c) \/ CancelClient(c)
        \/ \E c \in Clients, s \in Sizes : AppendCall(c, s)
        \/ LoopStep
        \/ Start \/ CancelLoop \/ TimerFires \/ OtherAppend

Spec == Init /\ [][Next]_vars

\* Goroutines that can run do, and an armed timer fires.
FairSpec ==
  /\ Spec
  /\ WF_vars(LoopStep) /\ WF_vars(TimerFires)
  /\ \A c \in Clients : WF_vars(ClientStep(c))

-----------------------------------------------------------------------------
(***************************************************************************)
(* Properties.                                                             *)
(***************************************************************************)
\* Clients, channel, loop and log have the types the code gives them.
TypeOK ==
  /\ client \in [Clients -> [at : {"idle", "select", "wait"}, id : Nat, size : Nat]]
  /\ cancelled \subseteq Clients
  /\ resp \in [Clients -> Int]
  /\ loop \in {"new", "select", "write", "respond", "stopped"}
  /\ ctxDone \in BOOLEAN /\ exiting \in BOOLEAN
  /\ batch \in Seq([from : Clients, id : Nat, size : Nat])
  /\ answered \in Nat /\ lastSeq \in Int
  /\ timer \in {"off", "armed", "fired"}
  /\ log \in Seq(Nat) /\ synced \in 0..Len(log)
  /\ results \in SUBSET [id : Nat, seq : Int]
  /\ accepted \in Seq(Nat)
  /\ nextId \in Nat /\ failures \in Nat

\* The sequence number Append returns is the one under which its payload is in
\* the log, also when others append between two batches; a call that returned
\* an error has left nothing in the log, and never will.
ResponseMatchesLog ==
  \A r \in results :
    IF r.seq = Error
    THEN \A i \in 1..Len(log) : log[i] # r.id
    ELSE r.seq - StartSeq + 1 \in 1..Len(log) /\ log[r.seq - StartSeq + 1] = r.id

\* Sequence numbers are assigned in the order in which the loop received the
\* requests, each at most one.
OrderedAssignment ==
  \A i, j \in 1..Len(log) :
    (i < j /\ log[i] # 0 /\ log[j] # 0) =>
      \E a, b \in 1..Len(accepted) : a < b /\ accepted[a] = log[i] /\ accepted[b] = log[j]

\* No batch grows past the limits: every request but the last found it below
\* both.
BatchBounded ==
  \A n \in 1..(Len(batch) - 1) : n < MaxLength /\ ~(SizeOf(SubSeq(batch, 1, n)) >= MaxSize)

\* While the loop waits, the timer runs exactly when there is something to
\* flush: no request is forgotten, and no firing of a flushed batch's timer
\* cuts the next batch short.
TimerGuardsBatch ==
  /\ loop = "select" /\ batch # <<>> => timer # "off"
  /\ batch = <<>> => timer = "off"

\* Every request the loop has taken is answered, whatever happens to the
\* contexts of client and loop.
Answered == \A c \in Clients : (client[c].at = "wait") ~> (client[c].at = "idle")

\* Once the loop has been started, no call of Append blocks for ever.
CallsReturn ==
  \A c \in Clients : (client[c].at = "select" /\ loop # "new") ~> (client[c].at = "idle")

\* When its context ends, a loop that was started stops, with nothing left in
\* its batch.
ShutsDown == (ctxDone /\ loop # "new") ~> (loop = "stopped" /\ batch = <<>>)

\* A record whose Append has returned its sequence number has been forced out.
AckedSynced == \A r \in results : r.seq # Error => r.seq - StartSeq < synced

\* What a client's call has come to in the terms of module Appender.  A call
\* has taken effect once its id is in the log.
Outcome(c) ==
  LET id == client[c].id
      at == {i \in 1..Len(log) : log[i] = id}
  IN IF client[c].at = "idle" THEN [st |-> "idle", id |-> 0, seq |-> 0]
     ELSE IF at # {} THEN [st |-> "done", id |-> id, seq |-> StartSeq + Max(at) - 1]
     ELSE IF resp[c] = Error THEN [st |-> "failed", id |-> id, seq |-> 0]
     ELSE [st |-> "pending", id |-> id, seq |-> 0]

A == INSTANCE Appender WITH call <- [c \in Clients |-> Outcome(c)]

\* Batching, timers and cancellation are invisible to the callers: the writer
\* implements the abstract appender.
ImplementsAppender == A!Spec
=============================================================================

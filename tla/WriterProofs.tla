---------------------------- MODULE WriterProofs ----------------------------
(***************************************************************************)
(* The batching writer, for every number of clients and every limit: calls *)
(* return the sequence number of their own record, records are in the log  *)
(* in the order of receipt, the timer guards the batch, and the writer     *)
(* implements the abstract appender.                                       *)
(***************************************************************************)
EXTENDS Writer, TLAPS

\* A leaf with no prover named may take each prover this long (in seconds).
USE ZenonT(20), SMTT(40)

(***************************************************************************)
(* The inductive invariant.                                                *)
(***************************************************************************)
Active(c) == client[c].at # "idle"

InLog(id) == \E i \in 1..Len(log) : log[i] = id

\* The record of that id has that sequence number.
Under(seq, id) == seq - StartSeq + 1 \in 1..Len(log) /\ log[seq - StartSeq + 1] = id

\* The requests of the batch that have not been answered.
Open(i) == i \in 1..Len(batch) /\ (loop = "respond" => i > answered)

\* Ids are given once: no two calls share one, and no call has one that was
\* given to a call that has returned.
Ids ==
  /\ nextId >= 1
  /\ \A c \in Clients : Active(c) => client[c].id >= 1 /\ client[c].id < nextId
  /\ \A c, d \in Clients : Active(c) /\ Active(d) /\ c # d => client[c].id # client[d].id
  /\ \A i \in 1..Len(log) : log[i] < nextId
  /\ \A r \in results : r.id >= 1 /\ r.id < nextId
  /\ \A r \in results, c \in Clients : Active(c) => client[c].id # r.id

\* An open request is that of a client that waits and has no answer yet.
Waiting ==
  /\ loop = "new" => batch = <<>>
  /\ loop = "write" => batch # <<>>
  /\ loop = "respond" => answered < Len(batch)
  /\ \A i \in 1..Len(batch) : Open(i) =>
       /\ client[batch[i].from].at = "wait" /\ client[batch[i].from].id = batch[i].id
       /\ resp[batch[i].from] = NoResponse
  /\ \A i, j \in 1..Len(batch) : Open(i) /\ Open(j) /\ i # j => batch[i].from # batch[j].from
  /\ \A c \in Clients : resp[c] # NoResponse => client[c].at = "wait"

\* What is in the log, and what is not yet or never will be.
Placed ==
  /\ \A c \in Clients : client[c].at = "select" \/ resp[c] = Error => ~InLog(client[c].id)
  /\ \A c \in Clients : resp[c] \notin {Error, NoResponse} => Under(resp[c], client[c].id)
  /\ (loop # "respond" \/ lastSeq = Error) =>
       \A i \in 1..Len(batch) : Open(i) => ~InLog(batch[i].id)
  /\ (loop = "respond" /\ lastSeq # Error) =>
       \A i \in 1..Len(batch) : Under(firstSeq + i - 1, batch[i].id)

\* A record is in the log once.
Once == \A i, j \in 1..Len(log) : log[i] = log[j] /\ log[i] # 0 => i = j

\* The batch is the end of what was received, until it is written; the log has
\* nothing of it before.
Received == IF loop = "respond" THEN Len(accepted) ELSE Len(accepted) - Len(batch)

Order ==
  /\ loop # "respond" =>
       /\ Len(batch) <= Len(accepted)
       /\ \A k \in 1..Len(batch) : accepted[Len(accepted) - Len(batch) + k] = batch[k].id
  /\ \A i \in 1..Len(log) : log[i] # 0 => \E a \in 1..Received : accepted[a] = log[i]
  /\ OrderedAssignment

WInv == TypeOK /\ Ids /\ Waiting /\ Placed /\ ResponseMatchesLog /\ Once /\ Order /\ TimerGuardsBatch

\* The types of what requests, batch and log are made of.
LEMMA ClientTypes ==
  ASSUME WInv
  PROVE  \A c \in Clients : /\ client[c].at \in {"idle", "select", "wait"}
                            /\ client[c].id \in Nat /\ client[c].size \in Nat
                            /\ resp[c] \in Int
<1>1. /\ client \in [Clients -> [at : {"idle", "select", "wait"}, id : Nat, size : Nat]]
      /\ resp \in [Clients -> Int]
  BY Zenon DEF WInv, TypeOK
<1> QED BY ONLY <1>1

\* Of the batch.
LEMMA BatchTypes ==
  ASSUME WInv
  PROVE  /\ Len(batch) \in Nat
         /\ \A i \in 1..Len(batch) : /\ batch[i].from \in Clients
                                     /\ batch[i].id \in Nat /\ batch[i].size \in Nat
<1> DEFINE Request == [from : Clients, id : Nat, size : Nat]
<1>1. batch \in Seq(Request)
  BY Zenon DEF WInv, TypeOK
<1> HIDE DEF Request
<1>2. Len(batch) \in Nat /\ \A i \in 1..Len(batch) : batch[i] \in Request
  BY ONLY <1>1
<1> QED BY ONLY <1>2 DEF Request

\* Of the log, and of the numbers.
LEMMA LogTypes ==
  ASSUME WInv
  PROVE  /\ Len(log) \in Nat /\ \A i \in 1..Len(log) : log[i] \in Nat
         /\ Len(accepted) \in Nat
         /\ StartSeq \in Nat /\ Error \in Int /\ NoResponse \in Int
         /\ lastSeq \in Int /\ answered \in Nat /\ nextId \in Nat
<1>1. /\ log \in Seq(Nat) /\ accepted \in Seq(Nat)
      /\ lastSeq \in Int /\ answered \in Nat /\ nextId \in Nat
  BY Zenon DEF WInv, TypeOK
<1>2. Len(log) \in Nat /\ Len(accepted) \in Nat /\ \A i \in 1..Len(log) : log[i] \in Nat
  BY ONLY <1>1
<1>3. StartSeq \in Nat /\ Error \in Int /\ NoResponse \in Int
  BY WriterAssumption DEF Error, NoResponse
<1> QED BY <1>1, <1>2, <1>3, Zenon

\* Of what calls have returned.
LEMMA ResultTypes ==
  ASSUME WInv
  PROVE  \A r \in results : r.id \in Nat /\ r.seq \in Int
<1>1. results \in SUBSET [id : Nat, seq : Int]
  BY Zenon DEF WInv, TypeOK
<1> QED BY ONLY <1>1

\* Nothing has been received, written or answered at the start.
LEMMA InitInv == Init => WInv
<1> SUFFICES ASSUME Init PROVE WInv
  OBVIOUS
<1> USE DEF Init
<1>1. TypeOK
  <2>1. client \in [Clients -> [at : {"idle", "select", "wait"}, id : Nat, size : Nat]]
        /\ resp \in [Clients -> Int]
    BY DEF NoRequest, NoResponse
  <2>2. ctxDone \in BOOLEAN /\ exiting \in BOOLEAN
    BY Zenon
  <2>3. /\ batch \in Seq([from : Clients, id : Nat, size : Nat]) /\ answered \in Nat
        /\ lastSeq \in Int /\ log \in Seq(Nat) /\ synced \in 0..Len(log)
        /\ accepted \in Seq(Nat) /\ nextId \in Nat /\ failures \in Nat
    OBVIOUS
  <2>4. /\ cancelled \subseteq Clients /\ results \in SUBSET [id : Nat, seq : Int]
        /\ loop \in {"new", "select", "write", "respond", "stopped"}
        /\ timer \in {"off", "armed", "fired"}
    OBVIOUS
  <2> QED BY ONLY <2>1, <2>2, <2>3, <2>4 DEF TypeOK
<1>2. Ids
  BY DEF Ids, Active, NoRequest
<1>3. Waiting /\ Placed
  BY DEF Waiting, Placed, Open, Under, InLog, NoRequest, NoResponse, Error
<1>4. ResponseMatchesLog /\ Once /\ Order /\ TimerGuardsBatch
  BY DEF ResponseMatchesLog, Once, Order, OrderedAssignment, TimerGuardsBatch, Received
<1> QED BY <1>1, <1>2, <1>3, <1>4 DEF WInv

\* The order of the records is a matter of what was received and written.
LEMMA OrderKept ==
  ASSUME Order, batch' = batch, accepted' = accepted, log' = log,
         loop' = "respond" <=> loop = "respond"
  PROVE  Order'
<1>1. Received' = Received
  BY Zenon DEF Received
<1>2. OrderedAssignment'
  BY SMTT(20) DEF Order, OrderedAssignment
<1> QED BY <1>1, <1>2, Zenon DEF Order

\* The places of the records of a batch are one of what was written and answered.
LEMMA BatchPlaced ==
  ASSUME Placed, batch' = batch, answered' = answered, lastSeq' = lastSeq, log' = log,
         loop' = "respond" <=> loop = "respond"
  PROVE  /\ (loop' # "respond" \/ lastSeq' = Error) =>
              \A i \in 1..Len(batch') : Open(i)' => ~InLog(batch[i].id)'
         /\ (loop' = "respond" /\ lastSeq' # Error) =>
              \A i \in 1..Len(batch') : Under(firstSeq + i - 1, batch[i].id)'
<1>1. \A i : Open(i)' => Open(i)
  BY Zenon DEF Open
<1>2. \A id : InLog(id)' => InLog(id)
  BY Zenon DEF InLog
<1>3. \A seq, id : Under(seq, id) => Under(seq, id)'
  BY Zenon DEF Under
<1>4. firstSeq' = firstSeq
  BY Zenon DEF firstSeq
<1>5. (loop' # "respond" \/ lastSeq' = Error) =>
        \A i \in 1..Len(batch') : Open(i)' => ~InLog(batch[i].id)'
  BY <1>1, <1>2, Zenon DEF Placed, InLog
<1>6. (loop' = "respond" /\ lastSeq' # Error) =>
        \A i \in 1..Len(batch') : Under(firstSeq + i - 1, batch[i].id)'
  BY <1>3, <1>4, Zenon DEF Placed, Under
<1> QED BY <1>5, <1>6

\* Who waits is one of batch and clients.
LEMMA WaitingKept ==
  ASSUME Waiting, loop' = loop, batch' = batch, answered' = answered, client' = client, resp' = resp
  PROVE  Waiting'
BY SMTT(20) DEF Waiting, Open

\* The loop goes from one place to another, or something happens that neither
\* requests nor log take part in.
LEMMA QuietInv ==
  ASSUME WInv,
         UNCHANGED <<client, resp, batch, answered, lastSeq, log, results, accepted, nextId>>,
         \/ loop' = loop
         \/ loop # "respond" /\ loop' \notin {"new", "respond"} /\ (loop' = "write" => batch # <<>>)
  PROVE  (Ids /\ Waiting /\ Placed /\ ResponseMatchesLog /\ Once /\ Order)'
<1>1. Ids'
  BY DEF WInv, Ids, Active
<1>2. Waiting'
  BY SMTT(20) DEF WInv, Waiting, Open
<1>3. Placed'
  BY BatchPlaced, Zenon DEF WInv, Placed, InLog, Under
<1>4. ResponseMatchesLog' /\ Once'
  BY DEF WInv, ResponseMatchesLog, Once
<1>5. Order'
  BY OrderKept, Zenon DEF WInv
<1> QED BY <1>1, <1>2, <1>3, <1>4, <1>5

\* Start, the ends of contexts and the firing of the timer.
LEMMA SurroundingsInv ==
  ASSUME WInv, Start \/ CancelLoop \/ TimerFires \/ \E c \in Clients : CancelClient(c)
  PROVE  WInv'
<1>1. (Ids /\ Waiting /\ Placed /\ ResponseMatchesLog /\ Once /\ Order)'
  BY QuietInv DEF Start, CancelLoop, TimerFires, CancelClient, loopVars, logVars
<1>2. TypeOK'
  BY Zenon DEF WInv, TypeOK, Start, CancelLoop, TimerFires, CancelClient, loopVars, logVars
<1>3. TimerGuardsBatch'
  <2>1. CASE Start
    BY <2>1 DEF WInv, Waiting, TimerGuardsBatch, Start
  <2>2. CASE TimerFires
    BY <2>2 DEF WInv, TimerGuardsBatch, TimerFires
  <2>3. CASE CancelLoop \/ \E c \in Clients : CancelClient(c)
    BY <2>3 DEF WInv, TimerGuardsBatch, CancelLoop, CancelClient, loopVars
  <2> QED BY <2>1, <2>2, <2>3
<1> QED BY <1>1, <1>2, <1>3 DEF WInv

\* The context of the loop or the timer makes the loop flush.
LEMMA FlushInv ==
  ASSUME WInv, OnDone \/ OnTimer
  PROVE  WInv'
<1>1. (Ids /\ Waiting /\ Placed /\ ResponseMatchesLog /\ Once /\ Order)'
  BY QuietInv DEF OnDone, OnTimer, flush, logVars
<1>2. TypeOK'
  BY Zenon DEF WInv, TypeOK, OnDone, OnTimer, flush, logVars
<1>3. TimerGuardsBatch'
  BY DEF WInv, TypeOK, TimerGuardsBatch, OnDone, OnTimer, flush
<1> QED BY <1>1, <1>2, <1>3 DEF WInv

\* A call returns what is true of the log, and is in no batch.
LEMMA ReturnInv ==
  ASSUME WInv, NEW c \in Clients, NEW r \in Int, Active(c),
         \A i \in 1..Len(batch) : Open(i) => batch[i].from # c,
         IF r = Error THEN ~InLog(client[c].id) ELSE Under(r, client[c].id),
         Returns(c, r), resp' = [resp EXCEPT ![c] = NoResponse],
         UNCHANGED <<cancelled, ctxDone, nextId, loopVars, logVars>>
  PROVE  WInv'
<1>1. TypeOK'
  BY SMTT(20) DEF WInv, TypeOK, Returns, NoRequest, NoResponse, loopVars, logVars
<1>2. /\ \A d \in Clients : d # c => client'[d] = client[d] /\ resp'[d] = resp[d]
      /\ client'[c].at = "idle" /\ resp'[c] = NoResponse
      /\ results' = results \cup {[id |-> client[c].id, seq |-> r]}
  BY DEF WInv, TypeOK, Returns, NoRequest
<1>3. /\ UNCHANGED <<loop, batch, answered, lastSeq, timer, log, accepted, nextId>>
  BY DEF loopVars, logVars
<1>4. Ids'
  BY <1>2, <1>3, SMTT(20) DEF WInv, Ids, Active
<1>5. Waiting'
  <2>1. \A i \in 1..Len(batch) : Open(i) => batch[i].from \in Clients /\ batch[i].from # c
    BY BatchTypes, Zenon
  <2> QED BY <1>2, <1>3, <2>1, SMTT(20) DEF WInv, Waiting, Open
<1>6. Placed'
  <2>1. \A d \in Clients : (client[d].at = "select" \/ resp[d] = Error)' => ~InLog(client[d].id)'
    BY <1>2, <1>3, SMTT(20) DEF WInv, Placed, InLog, Error, NoResponse
  <2>2. \A d \in Clients : (resp[d] \notin {Error, NoResponse})' => Under(resp[d], client[d].id)'
    BY <1>2, <1>3, SMTT(20) DEF WInv, Placed, Under
  <2> QED BY <1>3, <2>1, <2>2, BatchPlaced, Zenon DEF WInv, Placed
<1>7. ResponseMatchesLog'
  BY <1>2, <1>3, SMTT(20) DEF WInv, ResponseMatchesLog, InLog, Under
<1>8. Once' /\ TimerGuardsBatch'
  BY <1>3, Zenon DEF WInv, Once, TimerGuardsBatch
<1>9. Order'
  BY <1>3, OrderKept, Zenon DEF WInv
<1> QED BY <1>1, <1>4, <1>5, <1>6, <1>7, <1>8, <1>9, Zenon DEF WInv

\* The three ways a call that was made returns.
LEMMA ClientReturnInv ==
  ASSUME WInv, NEW c \in Clients, SelectStopped(c) \/ SelectCanceled(c) \/ ReceiveResponse(c)
  PROVE  WInv'
<1>1. CASE SelectStopped(c) \/ SelectCanceled(c)
  <2>1. /\ client[c].at = "select" /\ Returns(c, Error)
        /\ UNCHANGED <<cancelled, resp, ctxDone, nextId, loopVars, logVars>>
    BY <1>1 DEF SelectStopped, SelectCanceled
  <2>2. resp[c] = NoResponse /\ resp' = [resp EXCEPT ![c] = NoResponse]
    BY <2>1 DEF WInv, TypeOK, Waiting
  <2>3. ~InLog(client[c].id)
    BY <2>1 DEF WInv, Placed
  <2>4. \A i \in 1..Len(batch) : Open(i) => batch[i].from # c
    BY <2>1 DEF WInv, Waiting
  <2> QED BY <2>1, <2>2, <2>3, <2>4, ReturnInv, LogTypes, Zenon DEF Active
<1>2. CASE ReceiveResponse(c)
  <2>1. /\ client[c].at = "wait" /\ resp[c] # NoResponse /\ Returns(c, resp[c])
        /\ resp' = [resp EXCEPT ![c] = NoResponse]
        /\ UNCHANGED <<cancelled, ctxDone, nextId, loopVars, logVars>>
    BY <1>2 DEF ReceiveResponse
  <2>2. resp[c] \in Int
    BY DEF WInv, TypeOK
  <2>3. IF resp[c] = Error THEN ~InLog(client[c].id) ELSE Under(resp[c], client[c].id)
    BY <2>1 DEF WInv, Placed
  <2>4. \A i \in 1..Len(batch) : Open(i) => batch[i].from # c
    BY <2>1 DEF WInv, Waiting
  <2> QED BY <2>1, <2>2, <2>3, <2>4, ReturnInv, Zenon DEF Active
<1> QED BY <1>1, <1>2

\* A call with a context that is done gets an id of its own and no record.
LEMMA AppendRefusedInv ==
  ASSUME WInv, NEW c \in Clients, AppendRefused(c)
  PROVE  WInv'
<1>1. /\ UNCHANGED <<client, cancelled, resp, ctxDone, loop, exiting, batch, answered, lastSeq, timer,
                     accepted, log, synced, failures>>
      /\ nextId' = nextId + 1
      /\ results' = results \cup {[id |-> nextId, seq |-> Error]}
  BY DEF AppendRefused, loopVars, logVars
<1>2. TypeOK'
  <2>1. nextId' \in Nat /\ results' \in SUBSET [id : Nat, seq : Int]
    BY <1>1, SMTT(20) DEF WInv, TypeOK, Error
  <2> QED BY <1>1, <2>1 DEF WInv, TypeOK
<1>3. Ids'
  <2>1. /\ nextId \in Nat /\ (\A d \in Clients : client[d].id \in Nat)
        /\ (\A i \in 1..Len(log) : log[i] \in Nat) /\ \A r \in results : r.id \in Nat
    BY ClientTypes, LogTypes, ResultTypes, Zenon
  <2> QED BY <1>1, <2>1, SMTT(20) DEF WInv, Ids, Active
<1>4. Waiting' /\ Once' /\ Order' /\ TimerGuardsBatch'
  <2>1. Waiting'
    BY <1>1, WaitingKept, Zenon DEF WInv
  <2>2. Once' /\ TimerGuardsBatch'
    BY <1>1 DEF WInv, Once, TimerGuardsBatch
  <2>3. Order'
    BY <1>1, OrderKept, Zenon DEF WInv
  <2> QED BY <2>1, <2>2, <2>3
<1>5. Placed'
  BY <1>1, BatchPlaced, ZenonT(40) DEF WInv, Placed, InLog, Under
<1>6. \A i \in 1..Len(log) : log[i] # nextId
  BY LogTypes, SMTT(20) DEF WInv, Ids
<1>7. ResponseMatchesLog'
  BY <1>1, <1>6 DEF WInv, ResponseMatchesLog
<1> QED BY <1>2, <1>3, <1>4, <1>5, <1>7 DEF WInv

\* A call of Append waits at the select with an id of its own.
LEMMA AppendCallInv ==
  ASSUME WInv, NEW c \in Clients, NEW size \in Sizes, AppendCall(c, size)
  PROVE  WInv'
<1>1. /\ UNCHANGED <<cancelled, resp, ctxDone, loop, exiting, batch, answered, lastSeq, timer,
                     accepted, log, synced, failures, results>>
      /\ nextId' = nextId + 1
      /\ client[c].at = "idle"
      /\ client' = [client EXCEPT ![c] = [at |-> "select", id |-> nextId, size |-> size]]
  BY DEF AppendCall, loopVars, logVars
<1>2. /\ \A d \in Clients : d # c => client'[d] = client[d]
      /\ client'[c].at = "select" /\ client'[c].id = nextId
  BY <1>1 DEF WInv, TypeOK
<1>3. TypeOK'
  BY <1>1, WriterAssumption, SMTT(20) DEF WInv, TypeOK
<1>4. Ids'
  <2>1. /\ nextId \in Nat /\ (\A d \in Clients : client[d].id \in Nat)
        /\ (\A i \in 1..Len(log) : log[i] \in Nat) /\ \A r \in results : r.id \in Nat
    BY ClientTypes, LogTypes, ResultTypes, Zenon
  <2> QED BY <1>1, <1>2, <2>1, SMTT(20) DEF WInv, Ids, Active
<1>5. resp[c] = NoResponse /\ \A i \in 1..Len(batch) : Open(i) => batch[i].from # c
  BY <1>1 DEF WInv, Waiting
<1>6. Waiting'
  <2>1. \A i \in 1..Len(batch) : batch[i].from \in Clients
    BY BatchTypes, Zenon
  <2> QED BY <1>1, <1>2, <1>5, <2>1, SMTT(20) DEF WInv, Waiting, Open
<1>7. ~InLog(nextId)
  BY LogTypes, SMTT(20) DEF WInv, Ids, InLog
<1>8. Placed'
  <2>1. ASSUME NEW d \in Clients, client'[d].at = "select" \/ resp'[d] = Error
        PROVE  ~InLog(client[d].id)'
    <3>1. CASE d = c
      BY <1>1, <1>2, <1>7, <3>1, Zenon DEF InLog
    <3>2. CASE d # c
      <4>1. client'[d] = client[d] /\ ~InLog(client[d].id)
        BY <1>1, <1>2, <2>1, <3>2 DEF WInv, Placed
      <4> QED BY <1>1, <4>1, Zenon DEF InLog
    <3> QED BY <3>1, <3>2
  <2>2. \A d \in Clients : (resp[d] \notin {Error, NoResponse})' => Under(resp[d], client[d].id)'
    BY <1>1, <1>2, <1>5 DEF WInv, Placed, Under
  <2> QED BY <1>1, <2>1, <2>2, BatchPlaced, Zenon DEF WInv, Placed
<1>9. ResponseMatchesLog' /\ Once' /\ TimerGuardsBatch'
  BY <1>1, Zenon DEF WInv, ResponseMatchesLog, Once, TimerGuardsBatch
<1>10. Order'
  BY <1>1, OrderKept, Zenon DEF WInv
<1> QED BY <1>3, <1>4, <1>6, <1>8, <1>9, <1>10, Zenon DEF WInv

\* The loop takes a request: the last one of the batch, and of all received.
LEMMA ReceiveInv ==
  ASSUME WInv, NEW c \in Clients, Receive(c)
  PROVE  WInv'
<1> DEFINE req == [from |-> c, id |-> client[c].id, size |-> client[c].size]
<1>0. Len(batch) \in Nat /\ Len(accepted) \in Nat
  BY BatchTypes, LogTypes, Zenon
<1>1. /\ UNCHANGED <<cancelled, resp, ctxDone, exiting, answered, lastSeq, log, synced, failures,
                     results, nextId>>
      /\ client[c].at = "select" /\ loop = "select" /\ loop' \in {"select", "write"}
      /\ client' = [client EXCEPT ![c].at = "wait"]
      /\ accepted' = Append(accepted, client[c].id)
      /\ batch' = Append(batch, req)
      /\ timer' = IF batch = <<>> THEN "armed" ELSE timer
  BY DEF Receive, timerFor, logVars
<1>2. /\ \A d \in Clients : d # c => client'[d] = client[d]
      /\ client'[c].at = "wait" /\ client'[c].id = client[c].id
  BY <1>1 DEF WInv, TypeOK
<1>3. req \in [from : Clients, id : Nat, size : Nat] /\ client[c].id \in Nat
  BY ClientTypes
<1>4. /\ batch' \in Seq([from : Clients, id : Nat, size : Nat]) /\ batch' # <<>>
      /\ Len(batch') = Len(batch) + 1
      /\ \A i \in 1..Len(batch) : batch'[i] = batch[i]
      /\ batch'[Len(batch) + 1] = req
  <2> DEFINE Request == [from : Clients, id : Nat, size : Nat]
  <2>1. batch \in Seq(Request) /\ req \in Request
    BY <1>3 DEF WInv, TypeOK
  <2> HIDE DEF req, Request
  <2>2. /\ batch' \in Seq(Request) /\ batch' # <<>>
        /\ Len(batch') = Len(batch) + 1
        /\ \A i \in 1..Len(batch) : batch'[i] = batch[i]
        /\ batch'[Len(batch) + 1] = req
    BY <1>1, <2>1, SMTT(20)
  <2> QED BY <2>2 DEF Request
<1>5. /\ accepted' \in Seq(Nat) /\ Len(accepted') = Len(accepted) + 1
      /\ \A i \in 1..Len(accepted) : accepted'[i] = accepted[i]
      /\ accepted'[Len(accepted) + 1] = client[c].id
  <2>1. accepted \in Seq(Nat)
    BY DEF WInv, TypeOK
  <2> QED BY <1>1, <1>3, <2>1, SMTT(20)
<1>6. TypeOK'
  <2>1. client' \in [Clients -> [at : {"idle", "select", "wait"}, id : Nat, size : Nat]]
    BY <1>1 DEF WInv, TypeOK
  <2> QED BY <1>1, <1>4, <1>5, <2>1, Zenon DEF WInv, TypeOK
<1>7. Ids'
  BY <1>1, <1>2, SMTT(20) DEF WInv, Ids, Active
<1>8. resp[c] = NoResponse /\ \A i \in 1..Len(batch) : Open(i) /\ batch[i].from # c
  BY <1>1 DEF WInv, Waiting, Open
<1>9. \A i \in 1..Len(batch') : \/ i \in 1..Len(batch) /\ batch'[i] = batch[i]
                                \/ i = Len(batch) + 1 /\ batch'[i].from = c /\ batch'[i].id = client[c].id
  <2>1. req.from = c /\ req.id = client[c].id
    OBVIOUS
  <2> HIDE DEF req
  <2>2. /\ Len(batch') = Len(batch) + 1
        /\ \A i \in 1..Len(batch) : batch'[i] = batch[i]
        /\ batch'[Len(batch) + 1] = req
    BY <1>4
  <2>3. \A i \in 1..Len(batch') : i \in 1..Len(batch) \/ i = Len(batch) + 1
    BY <1>0, <2>2
  <2>4. ASSUME NEW i \in 1..Len(batch'), i = Len(batch) + 1
        PROVE  batch'[i].from = c /\ batch'[i].id = client[c].id
    BY <2>1, <2>2, <2>4
  <2> QED BY <2>2, <2>3, <2>4
<1>10. Waiting'
  <2>1. \A i \in 1..Len(batch) : batch[i].from \in Clients
    BY BatchTypes, Zenon
  <2>2. \A i \in 1..Len(batch) :
          /\ client[batch[i].from].at = "wait" /\ client[batch[i].from].id = batch[i].id
          /\ resp[batch[i].from] = NoResponse
    BY <1>8 DEF WInv, Waiting
  <2>3. \A i \in 1..Len(batch') :
          /\ client'[batch'[i].from].at = "wait" /\ client'[batch'[i].from].id = batch'[i].id
          /\ resp'[batch'[i].from] = NoResponse
    BY <1>1, <1>2, <1>8, <1>9, <2>1, <2>2, SMTT(20)
  <2>4. \A i, j \in 1..Len(batch') : i # j => batch'[i].from # batch'[j].from
    <3>1. \A i, j \in 1..Len(batch) : i # j => batch[i].from # batch[j].from
      BY <1>8 DEF WInv, Waiting
    <3> QED BY <1>8, <1>9, <3>1
  <2>5. \A d \in Clients : resp'[d] # NoResponse => client'[d].at = "wait"
    BY <1>1, <1>2, SMTT(20) DEF WInv, Waiting
  <2> QED BY <1>1, <1>4, <2>3, <2>4, <2>5, ZenonT(40) DEF Waiting
<1>11. Placed'
  <2>1. \A d \in Clients : (client[d].at = "select" \/ resp[d] = Error)' => ~InLog(client[d].id)'
    BY <1>1, <1>2, SMTT(20) DEF WInv, Placed, InLog
  <2>2. \A d \in Clients : (resp[d] \notin {Error, NoResponse})' => Under(resp[d], client[d].id)'
    BY <1>1, <1>2 DEF WInv, Placed, Under
  <2>3. \A i \in 1..Len(batch') : ~InLog(batch'[i].id)
    <3>1. ~InLog(client[c].id) /\ \A i \in 1..Len(batch) : ~InLog(batch[i].id)
      BY <1>1, <1>8 DEF WInv, Placed
    <3> QED BY <1>9, <3>1
  <2> QED BY <1>1, <2>1, <2>2, <2>3 DEF Placed, InLog
<1>12. ResponseMatchesLog' /\ Once'
  BY <1>1 DEF WInv, ResponseMatchesLog, Once
<1>13. Order'
  <2>1. Received = Len(accepted) - Len(batch) /\ Received' = Received /\ Len(batch) <= Len(accepted)
    BY <1>0, <1>1, <1>4, <1>5, SMTT(20) DEF WInv, Order, Received
  <2>2. \A k \in 1..Len(batch') : accepted'[Len(accepted') - Len(batch') + k] = batch'[k].id
    <3>1. \A k \in 1..Len(batch) : accepted[Len(accepted) - Len(batch) + k] = batch[k].id
      BY <1>1 DEF WInv, Order
    <3>2. Len(accepted') - Len(batch') = Len(accepted) - Len(batch)
      BY <1>0, <1>4, <1>5, SMTT(20)
    <3>3. \A k \in 1..Len(batch) : Len(accepted) - Len(batch) + k \in 1..Len(accepted)
      BY <1>0, <2>1
    <3>4. \A k \in 1..Len(batch) : accepted'[Len(accepted) - Len(batch) + k] = batch'[k].id
      BY <1>4, <1>5, <3>1, <3>3, Zenon
    <3>5. Len(accepted) - Len(batch) + (Len(batch) + 1) = Len(accepted) + 1
      BY <1>0
    <3>6. ASSUME NEW k \in 1..Len(batch')
          PROVE  accepted'[Len(accepted) - Len(batch) + k] = batch'[k].id
      <4>1. CASE k \in 1..Len(batch)
        BY <3>4, <4>1
      <4>2. CASE k = Len(batch) + 1 /\ batch'[k].id = client[c].id
        BY <1>5, <3>5, <4>2
      <4> QED BY <1>9, <4>1, <4>2
    <3> QED BY <3>2, <3>6, Zenon
  <2>3. \A a \in 1..Received : accepted'[a] = accepted[a]
    BY <1>0, <1>5, <2>1
  <2>4. \A i \in 1..Len(log) : log[i] # 0 => \E a \in 1..Received : accepted'[a] = log[i]
    BY <2>3 DEF WInv, Order
  <2>5. OrderedAssignment'
    <3>1. \A a \in 1..Len(accepted) : a \in 1..Len(accepted') /\ accepted'[a] = accepted[a]
      BY <1>0, <1>5
    <3> QED BY <1>1, <3>1, SMTT(20) DEF WInv, Order, OrderedAssignment
  <2>6. Len(batch') <= Len(accepted')
    BY <1>0, <1>4, <1>5, <2>1
  <2> QED BY <1>1, <2>1, <2>2, <2>4, <2>5, <2>6, Zenon DEF Order
<1>14. TimerGuardsBatch'
  BY <1>1, <1>4 DEF WInv, TimerGuardsBatch
<1> QED BY <1>6, <1>7, <1>10, <1>11, <1>12, <1>13, <1>14 DEF WInv

\* Records keep their sequence numbers when the log grows.
LEMMA GrowingLog ==
  ASSUME Len(log) \in Nat, Len(log') \in Nat, Len(log') >= Len(log),
         \A i \in 1..Len(log) : log'[i] = log[i]
  PROVE  \A seq \in Int : \A id : Under(seq, id) => Under(seq, id)'
BY DEF Under

\* Somebody else appends: a record without an id of the writer's.
LEMMA OtherAppendInv ==
  ASSUME WInv, OtherAppend
  PROVE  WInv'
<1>1. /\ UNCHANGED <<client, cancelled, resp, ctxDone, results, nextId, failures,
                     loop, exiting, batch, answered, lastSeq, timer, accepted>>
      /\ log' = Append(log, 0) /\ synced' = forcedOut(log')
  BY DEF OtherAppend, loopVars
<1>2. /\ log' \in Seq(Nat) /\ Len(log) \in Nat /\ Len(log') = Len(log) + 1
      /\ (\A i \in 1..Len(log) : log'[i] = log[i]) /\ log'[Len(log) + 1] = 0
  <2>1. log \in Seq(Nat)
    BY DEF WInv, TypeOK
  <2> QED BY <1>1, <2>1
<1>3. \A i \in 1..Len(log') : \/ i \in 1..Len(log) /\ log'[i] = log[i]
                              \/ i = Len(log) + 1 /\ log'[i] = 0
  <2>1. /\ Len(log) \in Nat /\ Len(log') = Len(log) + 1
        /\ (\A i \in 1..Len(log) : log'[i] = log[i]) /\ log'[Len(log) + 1] = 0
    BY <1>2
  <2>2. \A i \in 1..Len(log') : i \in 1..Len(log) \/ i = Len(log) + 1
    BY <2>1
  <2>3. ASSUME NEW i \in 1..Len(log'), i = Len(log) + 1
        PROVE  log'[i] = 0
    BY <2>1, <2>3
  <2> QED BY <2>1, <2>2, <2>3
<1>4. TypeOK'
  <2>1. synced' \in 0..Len(log')
    BY <1>1, <1>2, SMTT(20) DEF WInv, TypeOK, forcedOut
  <2> QED BY <1>1, <1>2, <2>1 DEF WInv, TypeOK
<1>5. Ids'
  <2>1. 0 < nextId /\ \A i \in 1..Len(log) : log[i] < nextId
    <3>1. nextId \in Nat /\ nextId >= 1
      BY DEF WInv, TypeOK, Ids
    <3> QED BY <3>1, SMTT(20) DEF WInv, Ids
  <2>2. \A i \in 1..Len(log') : log'[i] < nextId
    BY <1>3, <2>1, Zenon
  <2> QED BY <1>1, <2>2 DEF WInv, Ids, Active
<1>6. Waiting' /\ TimerGuardsBatch'
  BY <1>1, WaitingKept, Zenon DEF WInv, TimerGuardsBatch
<1>7. \A id : id # 0 /\ ~InLog(id) => ~InLog(id)'
  BY <1>3 DEF InLog
<1>8. \A seq \in Int : \A id : Under(seq, id) => Under(seq, id)'
  BY <1>2, GrowingLog
<1>9. Placed'
  <2>1. \A d \in Clients : Active(d) => client[d].id # 0
    BY ClientTypes, SMTT(20) DEF WInv, Ids
  <2>2. ASSUME NEW d \in Clients, client[d].at = "select" \/ resp[d] = Error
        PROVE  ~InLog(client[d].id)'
    <3>1. Active(d)
      BY <2>2, SMTT(20) DEF WInv, Waiting, Active, Error, NoResponse
    <3>2. ~InLog(client[d].id)
      BY <2>2 DEF WInv, Placed
    <3> QED BY <1>1, <1>7, <2>1, <3>1, <3>2 DEF InLog
  <2>3. ASSUME NEW d \in Clients, resp[d] \notin {Error, NoResponse}
        PROVE  Under(resp[d], client[d].id)'
    <3>1. Under(resp[d], client[d].id) /\ resp[d] \in Int
      BY <2>3, ClientTypes DEF WInv, Placed
    <3> QED BY <1>1, <1>8, <3>1 DEF Under
  <2>4. ASSUME NEW i \in 1..Len(batch), Open(i), loop # "respond" \/ lastSeq = Error
        PROVE  ~InLog(batch[i].id)'
    <3>1. ~InLog(batch[i].id)
      BY <2>4 DEF WInv, Placed
    <3>2. batch[i].id # 0
      <4>1. batch[i].from \in Clients
        BY BatchTypes, Zenon
      <4> QED BY <2>1, <2>4, <4>1 DEF WInv, Waiting, Active
    <3> QED BY <1>1, <1>7, <3>1, <3>2 DEF InLog
  <2>5. ASSUME NEW i \in 1..Len(batch), loop = "respond", lastSeq # Error
        PROVE  Under(firstSeq + i - 1, batch[i].id)'
    <3>1. Under(firstSeq + i - 1, batch[i].id)
      BY <2>5 DEF WInv, Placed
    <3>2. firstSeq + i - 1 \in Int
      BY LogTypes DEF firstSeq
    <3> QED BY <1>1, <1>8, <3>1, <3>2 DEF Under, firstSeq
  <2> QED BY <1>1, <2>2, <2>3, <2>4, <2>5 DEF Placed, Open
<1>10. ResponseMatchesLog'
  <2>1. ASSUME NEW r \in results, r.seq = Error
        PROVE  \A i \in 1..Len(log') : log'[i] # r.id
    BY <1>3, <2>1, ResultTypes, SMTT(20) DEF WInv, ResponseMatchesLog, Ids
  <2>2. ASSUME NEW r \in results, r.seq # Error
        PROVE  Under(r.seq, r.id)'
    <3>1. Under(r.seq, r.id) /\ r.seq \in Int
      BY <2>2, ResultTypes DEF WInv, ResponseMatchesLog, Under
    <3> QED BY <1>8, <3>1
  <2> QED BY <1>1, <2>1, <2>2 DEF ResponseMatchesLog, Under
<1>11. Once'
  BY <1>3 DEF WInv, Once
<1>12. Order'
  <2>1. \A i \in 1..Len(log') : log'[i] # 0 => i \in 1..Len(log) /\ log'[i] = log[i]
    BY <1>3, Zenon
  <2>2. OrderedAssignment'
    <3>1. OrderedAssignment /\ accepted' = accepted
      BY <1>1 DEF WInv, Order
    <3>2. ASSUME NEW i \in 1..Len(log'), NEW j \in 1..Len(log'), i < j, log'[i] # 0, log'[j] # 0
          PROVE  \E a, b \in 1..Len(accepted) : a < b /\ accepted[a] = log'[i] /\ accepted[b] = log'[j]
      <4>1. i \in 1..Len(log) /\ j \in 1..Len(log) /\ log'[i] = log[i] /\ log'[j] = log[j]
        BY <2>1, <3>2, Zenon
      <4> QED BY ONLY <3>1, <3>2, <4>1 DEF OrderedAssignment
    <3> QED BY ONLY <3>1, <3>2 DEF OrderedAssignment
  <2>3. Received' = Received
    BY <1>1 DEF Received
  <2>4. \A i \in 1..Len(log') : log'[i] # 0 => \E a \in 1..Received : accepted[a] = log'[i]
    BY <2>1 DEF WInv, Order
  <2> QED BY <1>1, <2>2, <2>3, <2>4 DEF WInv, Order
<1> QED BY <1>4, <1>5, <1>6, <1>9, <1>10, <1>11, <1>12 DEF WInv

\* Of the requests of a batch that is written: their ids are their own.
LEMMA BatchIds ==
  ASSUME WInv, loop = "write"
  PROVE  /\ Len(batch) \in Nat /\ Len(batch) > 0
         /\ \A k \in 1..Len(batch) :
              /\ batch[k].from \in Clients /\ client[batch[k].from].at = "wait"
              /\ client[batch[k].from].id = batch[k].id /\ resp[batch[k].from] = NoResponse
              /\ batch[k].id \in Nat /\ batch[k].id # 0 /\ batch[k].id < nextId
              /\ ~InLog(batch[k].id)
              /\ \A d \in Clients : Active(d) /\ d # batch[k].from => client[d].id # batch[k].id
              /\ \A r \in results : r.id # batch[k].id
         /\ \A k, l \in 1..Len(batch) : k # l => batch[k].id # batch[l].id
<1>1. batch \in Seq([from : Clients, id : Nat, size : Nat]) /\ batch # <<>>
  BY DEF WInv, TypeOK, Waiting
<1>2. Len(batch) \in Nat /\ Len(batch) > 0
  BY <1>1
<1>3. \A k \in 1..Len(batch) :
        /\ batch[k].from \in Clients /\ client[batch[k].from].at = "wait"
        /\ client[batch[k].from].id = batch[k].id /\ resp[batch[k].from] = NoResponse
        /\ batch[k].id \in Nat /\ ~InLog(batch[k].id)
  <2>1. \A k \in 1..Len(batch) : Open(k) /\ batch[k].from \in Clients /\ batch[k].id \in Nat
    BY BatchTypes DEF Open
  <2> QED BY <2>1 DEF WInv, Waiting, Placed
<1>4. \A k \in 1..Len(batch) :
        /\ batch[k].id # 0 /\ batch[k].id < nextId
        /\ \A d \in Clients : Active(d) /\ d # batch[k].from => client[d].id # batch[k].id
        /\ \A r \in results : r.id # batch[k].id
  BY <1>3, SMTT(20) DEF WInv, Ids, Active
<1>5. \A k, l \in 1..Len(batch) : k # l => batch[k].from # batch[l].from
  BY DEF WInv, Waiting, Open
<1>6. \A k, l \in 1..Len(batch) : k # l => batch[k].id # batch[l].id
  BY <1>3, <1>4, <1>5, SMTT(20) DEF Active
<1> QED BY <1>2, <1>3, <1>4, <1>6

\* The log behind a batch that has been written.
LEMMA WrittenLog ==
  ASSUME WInv, loop = "write", log' = log \o payloads
  PROVE  /\ log' \in Seq(Nat) /\ Len(log') = Len(log) + Len(batch)
         /\ \A i \in 1..Len(log) : log'[i] = log[i]
         /\ \A k \in 1..Len(batch) : log'[Len(log) + k] = batch[k].id
         /\ \A i \in 1..Len(log') : \/ i \in 1..Len(log) /\ log'[i] = log[i]
                                    \/ \E k \in 1..Len(batch) : i = Len(log) + k /\ log'[i] = batch[k].id
<1>1. Len(batch) \in Nat /\ Len(log) \in Nat /\ \A k \in 1..Len(batch) : batch[k].id \in Nat
  BY BatchTypes, LogTypes, Zenon
<1>2. /\ payloads \in Seq(Nat) /\ Len(payloads) = Len(batch)
      /\ \A k \in 1..Len(batch) : payloads[k] = batch[k].id
  BY <1>1 DEF payloads
<1>3. log \in Seq(Nat)
  BY DEF WInv, TypeOK
<1>4. /\ log' \in Seq(Nat) /\ Len(log') = Len(log) + Len(batch)
      /\ \A i \in 1..Len(log') : log'[i] = IF i <= Len(log) THEN log[i] ELSE payloads[i - Len(log)]
  <2> DEFINE p == payloads
  <2>1. p \in Seq(Nat) /\ Len(p) = Len(batch)
    BY <1>2
  <2> HIDE DEF p
  <2>2. log \o p \in Seq(Nat) /\ Len(log \o p) = Len(log) + Len(p)
        /\ \A i \in 1..(Len(log) + Len(p)) : (log \o p)[i] = IF i <= Len(log) THEN log[i] ELSE p[i - Len(log)]
    BY ONLY <1>3, <2>1, SMTT(30)
  <2>3. log' = log \o p
    BY DEF p
  <2>4. log' \in Seq(Nat) /\ Len(log') = Len(log) + Len(batch)
        /\ \A i \in 1..Len(log') : log'[i] = IF i <= Len(log) THEN log[i] ELSE p[i - Len(log)]
    BY <2>1, <2>2, <2>3
  <2> QED BY <2>4 DEF p
<1>5. Len(log') = Len(log) + Len(batch)
  BY <1>4
<1>6. \A i \in 1..Len(log) : log'[i] = log[i]
  <2>1. \A i \in 1..Len(log) : i \in 1..Len(log') /\ i <= Len(log)
    BY <1>1, <1>5
  <2> QED BY <1>4, <2>1
<1>7. \A k \in 1..Len(batch) : log'[Len(log) + k] = batch[k].id
  <2>1. \A k \in 1..Len(batch) : /\ Len(log) + k \in 1..Len(log') /\ ~(Len(log) + k <= Len(log))
                                 /\ (Len(log) + k) - Len(log) = k
    BY <1>1, <1>5
  <2> QED BY <1>2, <1>4, <2>1
<1>8. \A i \in 1..Len(log') : \/ i \in 1..Len(log)
                              \/ i - Len(log) \in 1..Len(batch) /\ i = Len(log) + (i - Len(log))
  BY <1>1, <1>5
<1> QED BY <1>4, <1>6, <1>7, <1>8, Zenon

\* The batch is appended: its records stand next to each other, in order.
LEMMA AppendedInv ==
  ASSUME WInv, loop = "write", loop' = "respond", answered' = 0,
         log' = log \o payloads, lastSeq' = StartSeq + Len(log') - 1, synced' = forcedOut(log'),
         UNCHANGED <<client, cancelled, resp, ctxDone, exiting, batch, timer, results, accepted,
                     nextId, failures>>
  PROVE  WInv'
<1>1. /\ Len(log') = Len(log) + Len(batch)
      /\ \A i \in 1..Len(log) : log'[i] = log[i]
      /\ \A k \in 1..Len(batch) : log'[Len(log) + k] = batch[k].id
      /\ \A i \in 1..Len(log') : \/ i \in 1..Len(log) /\ log'[i] = log[i]
                                 \/ \E k \in 1..Len(batch) : i = Len(log) + k /\ log'[i] = batch[k].id
  BY WrittenLog
<1>2. Len(log) \in Nat /\ Len(batch) \in Nat /\ Len(batch) > 0 /\ Len(accepted) \in Nat /\ StartSeq \in Nat
  BY LogTypes, Zenon, BatchIds
<1>0. /\ \A k \in 1..Len(batch) :
              /\ batch[k].from \in Clients /\ client[batch[k].from].at = "wait"
              /\ resp[batch[k].from] = NoResponse
              /\ batch[k].id < nextId /\ ~InLog(batch[k].id)
              /\ \A d \in Clients : Active(d) /\ d # batch[k].from => client[d].id # batch[k].id
              /\ \A r \in results : r.id # batch[k].id
      /\ \A k, l \in 1..Len(batch) : k # l => batch[k].id # batch[l].id
  BY BatchIds
<1>3. TypeOK'
  <2>1. log' \in Seq(Nat)
    BY WrittenLog
  <2>2. synced' \in 0..Len(log') /\ lastSeq' \in Int /\ answered' \in Nat
    <3>1. synced \in 0..Len(log)
      BY DEF WInv, TypeOK
    <3>2. synced' = Len(log') \/ synced' = synced
      BY DEF forcedOut
    <3>3. lastSeq' = StartSeq + Len(log') - 1 /\ answered' = 0 /\ Len(log') = Len(log) + Len(batch)
      BY <1>1
    <3> QED BY ONLY <1>2, <3>1, <3>2, <3>3
  <2> QED BY <2>1, <2>2 DEF WInv, TypeOK
<1>4. Ids'
  <2>1. \A i \in 1..Len(log') : log'[i] < nextId
    <3>1. \A i \in 1..Len(log) : log[i] < nextId
      BY DEF WInv, Ids
    <3> QED BY <1>0, <1>1, <3>1, Zenon
  <2> QED BY <2>1 DEF WInv, Ids, Active
<1>5. Waiting'
  BY <1>2 DEF WInv, Waiting, Open
<1>6. ASSUME NEW id, ~InLog(id), \A k \in 1..Len(batch) : batch[k].id # id
      PROVE  ~InLog(id)'
  BY <1>1, <1>6, Zenon DEF InLog
<1>7. \A seq \in Int : \A id : Under(seq, id) => Under(seq, id)'
  <2>1. Len(log') \in Nat /\ Len(log') >= Len(log)
    BY ONLY <1>1, <1>2
  <2> QED BY <1>1, <1>2, <2>1, GrowingLog, Zenon
<1>8. Placed'
  <2>1. ASSUME NEW d \in Clients, client[d].at = "select" \/ resp[d] = Error
        PROVE  ~InLog(client[d].id)'
    <3>1. Active(d) /\ \A k \in 1..Len(batch) : d # batch[k].from
      <4>1. Error # NoResponse /\ "select" # "idle" /\ "select" # "wait" /\ "wait" # "idle"
        BY DEF Error, NoResponse
      <4>2. resp[d] # NoResponse => client[d].at = "wait"
        BY DEF WInv, Waiting
      <4> QED BY ONLY <1>0, <2>1, <4>1, <4>2 DEF Active
    <3>2. ~InLog(client[d].id)
      BY <2>1 DEF WInv, Placed
    <3>3. \A k \in 1..Len(batch) : batch[k].id # client[d].id
      BY <1>0, <3>1, Zenon
    <3> QED BY <1>6, <3>2, <3>3, Zenon DEF InLog
  <2>2. ASSUME NEW d \in Clients, resp[d] \notin {Error, NoResponse}
        PROVE  Under(resp[d], client[d].id)'
    <3>1. resp[d] \in Int
      BY ClientTypes, Zenon
    <3>2. Under(resp[d], client[d].id)
      BY <2>2 DEF WInv, Placed
    <3> QED BY <1>7, <3>1, <3>2 DEF Under
  <2>3. lastSeq' # Error
    <3>1. lastSeq' = StartSeq + Len(log') - 1 /\ Len(log') = Len(log) + Len(batch)
      BY <1>1
    <3> QED BY ONLY <1>2, <3>1 DEF Error
  <2>4. ASSUME NEW i \in 1..Len(batch)
        PROVE  Under(firstSeq + i - 1, batch[i].id)'
    <3>1. (firstSeq + i - 1)' - StartSeq + 1 = Len(log) + i /\ Len(log) + i \in 1..Len(log')
      BY <1>1, <1>2, SMTT(20) DEF firstSeq
    <3>2. log'[Len(log) + i] = batch'[i].id
      BY <1>1, Zenon
    <3> QED BY ONLY <3>1, <3>2 DEF Under
  <2> QED BY <2>1, <2>2, <2>3, <2>4 DEF Placed
<1>9. ResponseMatchesLog'
  <2>1. ASSUME NEW r \in results, r.seq = Error
        PROVE  \A i \in 1..Len(log') : log'[i] # r.id
    <3>1. \A i \in 1..Len(log) : log[i] # r.id
      BY <2>1 DEF WInv, ResponseMatchesLog
    <3> QED BY ONLY <1>0, <1>1, <3>1, SMTT(30)
  <2>2. ASSUME NEW r \in results, r.seq # Error
        PROVE  Under(r.seq, r.id)'
    <3>1. Under(r.seq, r.id) /\ r.seq \in Int
      BY <2>2, ResultTypes DEF WInv, ResponseMatchesLog, Under
    <3> QED BY <1>7, <3>1
  <2> QED BY <2>1, <2>2 DEF ResponseMatchesLog, Under
<1>10. Once'
  <2> SUFFICES ASSUME NEW i \in 1..Len(log'), NEW j \in 1..Len(log'), log'[i] = log'[j], log'[i] # 0
               PROVE  i = j
    BY DEF Once
  <2>1. CASE i \in 1..Len(log) /\ j \in 1..Len(log)
    BY <1>1, <2>1 DEF WInv, Once
  <2>2. ASSUME NEW x \in 1..Len(log), NEW k \in 1..Len(batch)
        PROVE  log'[x] # log'[Len(log) + k]
    BY ONLY <1>0, <1>1 DEF InLog
  <2>3. ASSUME NEW k \in 1..Len(batch), NEW l \in 1..Len(batch),
               log'[Len(log) + k] = log'[Len(log) + l]
        PROVE  k = l
    BY ONLY <1>0, <1>1, <2>3
  <2>4. CASE i \in 1..Len(log) /\ \E l \in 1..Len(batch) : j = Len(log) + l
    BY <2>2, <2>4
  <2>5. CASE j \in 1..Len(log) /\ \E k \in 1..Len(batch) : i = Len(log) + k
    BY <2>2, <2>5
  <2>6. CASE (\E k \in 1..Len(batch) : i = Len(log) + k) /\ (\E l \in 1..Len(batch) : j = Len(log) + l)
    BY <2>3, <2>6, Zenon
  <2> QED BY <1>1, <2>1, <2>4, <2>5, <2>6
<1>11. Order'
  <2>1. /\ Len(batch) <= Len(accepted)
        /\ \A k \in 1..Len(batch) : accepted[Len(accepted) - Len(batch) + k] = batch[k].id
        /\ \A i \in 1..Len(log) : log[i] # 0 => \E a \in 1..(Len(accepted) - Len(batch)) : accepted[a] = log[i]
    BY DEF WInv, Order, Received
  <2>2. \A k \in 1..Len(batch) : /\ Len(accepted) - Len(batch) + k \in 1..Len(accepted)
                                 /\ Len(accepted) - Len(batch) + k > Len(accepted) - Len(batch)
    BY <1>2, <2>1
  <2>3. \A a \in 1..(Len(accepted) - Len(batch)) : a \in 1..Len(accepted)
    BY <1>2, <2>1
  <2>4. ASSUME NEW i \in 1..Len(log'), log'[i] # 0
        PROVE  \E a \in 1..Len(accepted) : accepted[a] = log'[i]
    <3>1. CASE i \in 1..Len(log) /\ log'[i] = log[i]
      BY <2>1, <2>3, <2>4, <3>1, Zenon
    <3>2. CASE \E k \in 1..Len(batch) : i = Len(log) + k /\ log'[i] = batch[k].id
      BY <2>1, <2>2, <3>2, Zenon
    <3> QED BY <1>1, <3>1, <3>2, Zenon
  <2>5. ASSUME NEW i \in 1..Len(log'), NEW j \in 1..Len(log'), i < j, log'[i] # 0, log'[j] # 0
        PROVE  \E a, b \in 1..Len(accepted) : a < b /\ accepted[a] = log'[i] /\ accepted[b] = log'[j]
    <3>1. CASE i \in 1..Len(log) /\ j \in 1..Len(log)
      BY <1>1, <2>5, <3>1, SMTT(20) DEF WInv, Order, OrderedAssignment
    <3>2. CASE i \in 1..Len(log) /\ \E l \in 1..Len(batch) : j = Len(log) + l
      <4>1. PICK l \in 1..Len(batch) : j = Len(log) + l
        BY <3>2
      <4>2. PICK a \in 1..(Len(accepted) - Len(batch)) : accepted[a] = log'[i]
        BY <1>1, <2>1, <2>5, <3>2, Zenon
      <4>3. accepted[Len(accepted) - Len(batch) + l] = log'[j]
        BY <1>1, <2>1, <4>1, Zenon
      <4>4. a < Len(accepted) - Len(batch) + l
        BY <1>2, <2>1
      <4> QED BY <2>2, <2>3, <4>2, <4>3, <4>4, Zenon
    <3>3. CASE (\E k \in 1..Len(batch) : i = Len(log) + k) /\ (\E l \in 1..Len(batch) : j = Len(log) + l)
      <4>1. PICK k \in 1..Len(batch), l \in 1..Len(batch) : i = Len(log) + k /\ j = Len(log) + l
        BY <3>3
      <4>2. accepted[Len(accepted) - Len(batch) + k] = log'[i] /\ accepted[Len(accepted) - Len(batch) + l] = log'[j]
        BY <1>1, <2>1, <4>1, Zenon
      <4>3. Len(accepted) - Len(batch) + k < Len(accepted) - Len(batch) + l
        BY <1>2, <2>1, <2>5, <4>1, SMTT(20)
      <4> QED BY <2>2, <4>2, <4>3, Zenon
    <3>4. ~(j \in 1..Len(log) /\ \E k \in 1..Len(batch) : i = Len(log) + k)
      BY <1>2, <2>5
    <3> QED BY <1>1, <3>1, <3>2, <3>3, <3>4, Zenon
  <2>6. OrderedAssignment'
    <3>1. accepted' = accepted
      OBVIOUS
    <3> QED BY ONLY <2>5, <3>1 DEF OrderedAssignment
  <2>7. Received' = Len(accepted)
    BY DEF Received
  <2> QED BY <2>4, <2>6, <2>7 DEF Order
<1>12. TimerGuardsBatch'
  BY DEF WInv, TimerGuardsBatch
<1> QED BY <1>3, <1>4, <1>5, <1>8, <1>9, <1>10, <1>11, <1>12 DEF WInv

\* The append fails and leaves the log as it was.
LEMMA LogAppendInv ==
  ASSUME WInv, LogAppend
  PROVE  WInv'
<1>1. /\ loop = "write" /\ loop' = "respond" /\ answered' = 0
      /\ UNCHANGED <<client, cancelled, resp, ctxDone, exiting, batch, timer, results, accepted, nextId>>
  BY DEF LogAppend
<1>2. CASE /\ log' = log \o payloads /\ lastSeq' = StartSeq + Len(log') - 1
           /\ synced' = forcedOut(log') /\ UNCHANGED failures
  BY <1>1, <1>2, AppendedInv
<1>3. CASE failures' = failures + 1 /\ lastSeq' = Error /\ UNCHANGED <<log, synced>>
  <2>1. TypeOK'
    BY <1>1, <1>3, SMTT(20) DEF WInv, TypeOK, Error
  <2>2. Ids' /\ ResponseMatchesLog' /\ Once' /\ TimerGuardsBatch'
    BY <1>1, <1>3 DEF WInv, Ids, Active, ResponseMatchesLog, Once, TimerGuardsBatch
  <2>3. Len(batch) \in Nat /\ Len(batch) > 0
    BY <1>1, BatchIds
  <2>4. Waiting'
    BY <1>1, <2>3 DEF WInv, Waiting, Open
  <2>5. Placed'
    BY <1>1, <1>3 DEF WInv, Placed, Open, InLog, Under
  <2>6. Order'
    <3>1. \A a \in 1..(Len(accepted) - Len(batch)) : a \in 1..Len(accepted)
      BY <2>3, LogTypes
    <3>2. \A i \in 1..Len(log) : log[i] # 0 => \E a \in 1..(Len(accepted) - Len(batch)) : accepted[a] = log[i]
      BY <1>1 DEF WInv, Order, Received
    <3>3. Received' = Len(accepted)
      BY <1>1 DEF Received
    <3>4. OrderedAssignment'
      BY <1>1, <1>3, SMTT(20) DEF WInv, Order, OrderedAssignment
    <3> QED BY <1>1, <1>3, <3>1, <3>2, <3>3, <3>4 DEF Order
  <2> QED BY <2>1, <2>2, <2>4, <2>5, <2>6 DEF WInv
<1> QED BY <1>2, <1>3 DEF LogAppend

\* The next answer goes to a client that waits for it, and is what the place of
\* its record in the log asks for.
LEMMA NextAnswer ==
  ASSUME WInv, Respond
  PROVE  \E f \in Clients, v \in Int :
           /\ f = batch[answered + 1].from /\ client[f].at = "wait" /\ resp[f] = NoResponse
           /\ resp' = [resp EXCEPT ![f] = v] /\ v # NoResponse
           /\ IF v = Error THEN ~InLog(client[f].id) ELSE Under(v, client[f].id)
<1>0. PICK n : n = answered + 1
  OBVIOUS
<1>1. /\ loop = "respond" /\ answered' = n
      /\ resp' = [resp EXCEPT ![batch[n].from] = IF lastSeq = Error THEN Error ELSE firstSeq + answered]
      /\ UNCHANGED <<client, cancelled, ctxDone, exiting, lastSeq, results, accepted, nextId,
                     log, synced, failures>>
  BY <1>0 DEF Respond, logVars
<1>2. Len(batch) \in Nat /\ answered \in Nat /\ n \in 1..Len(batch) /\ Open(n)
  BY <1>0, <1>1, BatchTypes, LogTypes, SMTT(20) DEF WInv, Waiting, Open
<1>3. PICK f \in Clients : /\ f = batch[n].from /\ client[f].at = "wait"
                           /\ client[f].id = batch[n].id /\ resp[f] = NoResponse
  BY <1>2, BatchTypes DEF WInv, Waiting
<1>4. PICK v \in Int : /\ v = IF lastSeq = Error THEN Error ELSE firstSeq + answered
                       /\ v # NoResponse
                       /\ IF v = Error THEN ~InLog(client[f].id) ELSE Under(v, client[f].id)
  <2>1. CASE lastSeq = Error
    <3>1. ~InLog(batch[n].id)
      BY <1>1, <1>2, <2>1 DEF WInv, Placed
    <3> QED BY <1>3, <2>1, <3>1 DEF Error, NoResponse
  <2>2. CASE lastSeq # Error
    <3> DEFINE w == firstSeq + answered
    <3>1. Under(firstSeq + n - 1, batch[n].id)
      BY <1>1, <1>2, <2>2 DEF WInv, Placed
    <3>2. firstSeq + n - 1 = w /\ w \in Int
      BY <1>0, <1>2, LogTypes DEF firstSeq
    <3> HIDE DEF w
    <3>3. w - StartSeq + 1 \in 1..Len(log)
      BY <3>1, <3>2 DEF Under
    <3>4. w >= 0
      BY <3>2, <3>3, LogTypes
    <3>5. w # Error /\ w # NoResponse /\ Under(w, client[f].id)
      BY <1>3, <3>1, <3>2, <3>4 DEF Error, NoResponse
    <3> QED BY <2>2, <3>2, <3>5 DEF w
  <2> QED BY <2>1, <2>2
<1> QED BY <1>0, <1>1, <1>3, <1>4, Zenon

\* The last answer ends the batch.
LEMMA RespondInv ==
  ASSUME WInv, Respond
  PROVE  WInv'
<1>0. PICK n : n = answered + 1
  OBVIOUS
<1>1. /\ loop = "respond" /\ answered' = n
      /\ UNCHANGED <<client, cancelled, ctxDone, exiting, lastSeq, results, accepted, nextId,
                     log, synced, failures>>
  BY <1>0 DEF Respond, logVars
<1>2. \/ n < Len(batch) /\ UNCHANGED <<loop, batch, timer>>
      \/ ~(n < Len(batch)) /\ loop' \in {"select", "stopped"} /\ batch' = <<>> /\ timer' = "off"
  BY <1>0 DEF Respond
<1>3. Len(batch) \in Nat /\ answered \in Nat /\ n \in 1..Len(batch) /\ Open(n)
  BY <1>0, <1>1, BatchTypes, LogTypes, SMTT(20) DEF WInv, Waiting, Open
<1>4. PICK f \in Clients, v \in Int :
        /\ f = batch[n].from /\ client[f].at = "wait" /\ resp[f] = NoResponse
        /\ resp' = [resp EXCEPT ![f] = v] /\ v # NoResponse
        /\ IF v = Error THEN ~InLog(client[f].id) ELSE Under(v, client[f].id)
  BY <1>0, NextAnswer
<1>5. \A i \in 1..Len(batch) : Open(i) /\ i # n => batch[i].from # f
  BY <1>3, <1>4 DEF WInv, Waiting
<1>6. resp'[f] = v /\ \A d \in Clients : d # f => resp'[d] = resp[d]
  BY <1>1, <1>4, Zenon DEF WInv, TypeOK
<1>7. TypeOK'
  <2>1. resp' \in [Clients -> Int] /\ answered' \in Nat
    BY <1>1, <1>3, <1>4, SMTT(20) DEF WInv, TypeOK
  <2>2. /\ batch' \in Seq([from : Clients, id : Nat, size : Nat])
        /\ loop' \in {"new", "select", "write", "respond", "stopped"} /\ timer' \in {"off", "armed", "fired"}
    <3>1. CASE batch' = batch /\ UNCHANGED <<loop, timer>>
      BY <3>1 DEF WInv, TypeOK
    <3>2. CASE batch' = <<>> /\ loop' \in {"select", "stopped"} /\ timer' = "off"
      BY <3>2
    <3> QED BY <1>2, <3>1, <3>2
  <2> QED BY <1>1, <2>1, <2>2 DEF WInv, TypeOK
<1>8. Ids' /\ ResponseMatchesLog' /\ Once'
  BY <1>1, SMTT(20) DEF WInv, Ids, Active, ResponseMatchesLog, Once
<1>9. \A d \in Clients : resp'[d] # NoResponse => client'[d].at = "wait"
  BY <1>1, <1>4, <1>6 DEF WInv, Waiting
<1>10. /\ \A d \in Clients : (client[d].at = "select" \/ resp[d] = Error)' => ~InLog(client[d].id)'
       /\ \A d \in Clients : (resp[d] \notin {Error, NoResponse})' => Under(resp[d], client[d].id)'
  <2>1. \A id : InLog(id)' <=> InLog(id)
    BY <1>1 DEF InLog
  <2>2. ASSUME NEW d \in Clients, d # f
        PROVE  /\ (client[d].at = "select" \/ resp[d] = Error)' => ~InLog(client[d].id)'
               /\ (resp[d] \notin {Error, NoResponse})' => Under(resp[d], client[d].id)'
    BY <1>1, <1>6, <2>2 DEF WInv, Placed, InLog, Under
  <2>3. /\ (client[f].at = "select" \/ resp[f] = Error)' => ~InLog(client[f].id)'
        /\ (resp[f] \notin {Error, NoResponse})' => Under(resp[f], client[f].id)'
    BY <1>1, <1>4, <1>6 DEF InLog, Under
  <2> QED BY <2>2, <2>3
<1>11. CASE n < Len(batch) /\ UNCHANGED <<loop, batch, timer>>
  <2>1. \A i \in 1..Len(batch) : Open(i)' => Open(i) /\ i # n
    BY <1>1, <1>3, <1>11 DEF Open
  <2>2. Waiting'
    <3>1. \A i \in 1..Len(batch) : batch[i].from \in Clients
      BY BatchTypes, Zenon
    <3>2. \A i \in 1..Len(batch) : Open(i)' =>
             /\ client[batch[i].from].at = "wait" /\ client[batch[i].from].id = batch[i].id
             /\ resp'[batch[i].from] = NoResponse
      BY <1>5, <1>6, <2>1, <3>1 DEF WInv, Waiting
    <3>3. \A i, j \in 1..Len(batch) : Open(i)' /\ Open(j)' /\ i # j => batch[i].from # batch[j].from
      BY <2>1 DEF WInv, Waiting
    <3>4. answered' < Len(batch) /\ loop' = "respond"
      BY <1>1, <1>11
    <3> QED BY <1>1, <1>9, <1>11, <3>2, <3>3, <3>4 DEF Waiting
  <2>3. Placed'
    <3>1. lastSeq = Error => \A i \in 1..Len(batch) : Open(i)' => ~InLog(batch[i].id)
      BY <2>1 DEF WInv, Placed
    <3>2. lastSeq # Error => \A i \in 1..Len(batch) : Under(firstSeq + i - 1, batch[i].id)
      BY <1>1 DEF WInv, Placed
    <3> QED BY <1>1, <1>10, <1>11, <3>1, <3>2 DEF Placed, InLog, Under, firstSeq
  <2>4. Order' /\ TimerGuardsBatch'
    BY <1>1, <1>11, SMTT(20) DEF WInv, Order, Received, OrderedAssignment, TimerGuardsBatch
  <2> QED BY <1>7, <1>8, <2>2, <2>3, <2>4 DEF WInv
<1>12. CASE loop' \in {"select", "stopped"} /\ batch' = <<>> /\ timer' = "off"
  <2>1. Len(batch') = 0 /\ \A i : i \notin 1..Len(batch')
    BY <1>12
  <2>2. Waiting' /\ Placed'
    BY <1>9, <1>10, <1>12, <2>1 DEF Waiting, Placed
  <2>3. Order'
    <3>1. Received' = Received
      BY <1>1, <1>12, <2>1, BatchTypes, LogTypes DEF Received
    <3>2. OrderedAssignment'
      BY <1>1, SMTT(20) DEF WInv, Order, OrderedAssignment
    <3>3. Len(batch') <= Len(accepted')
      BY <1>1, <2>1, BatchTypes, LogTypes
    <3> QED BY <1>1, <2>1, <3>1, <3>2, <3>3 DEF WInv, Order
  <2>4. TimerGuardsBatch'
    BY <1>12 DEF TimerGuardsBatch
  <2> QED BY <1>7, <1>8, <2>2, <2>3, <2>4 DEF WInv
<1> QED BY <1>2, <1>11, <1>12

\* Every step of client, loop and surroundings keeps the invariant.
LEMMA NextInv == WInv /\ [Next]_vars => WInv'
<1> SUFFICES ASSUME WInv, [Next]_vars PROVE WInv'
  OBVIOUS
<1>1. ASSUME NEW c \in Clients, ClientStep(c) \/ SelectCanceled(c)
      PROVE  WInv'
  BY <1>1, ClientReturnInv DEF ClientStep
<1>2. ASSUME NEW c \in Clients, AppendRefused(c)
      PROVE  WInv'
  BY <1>2, AppendRefusedInv
<1>3. ASSUME NEW c \in Clients, NEW size \in Sizes, AppendCall(c, size)
      PROVE  WInv'
  BY <1>3, AppendCallInv
<1>4. CASE LoopStep
  BY <1>4, FlushInv, LogAppendInv, RespondInv, ReceiveInv DEF LoopStep
<1>5. CASE Start \/ CancelLoop \/ TimerFires \/ \E c \in Clients : CancelClient(c)
  BY <1>5, SurroundingsInv
<1>6. CASE OtherAppend
  BY <1>6, OtherAppendInv
<1>7. CASE UNCHANGED vars
  <2>1. (Ids /\ Waiting /\ Placed /\ ResponseMatchesLog /\ Once /\ Order)'
    BY <1>7, QuietInv DEF vars
  <2>2. TypeOK' /\ TimerGuardsBatch'
    BY <1>7 DEF vars, WInv, TypeOK, TimerGuardsBatch
  <2> QED BY <2>1, <2>2 DEF WInv
<1> QED BY <1>1, <1>2, <1>3, <1>4, <1>5, <1>6, <1>7 DEF Next

\* The invariant holds in every behaviour.
LEMMA Invariance == Spec => []WInv
BY InitInv, NextInv, PTL DEF Spec

\* Clients, channel, loop and log keep their types.
THEOREM TypesHold == Spec => []TypeOK
<1>1. WInv => TypeOK
  BY DEF WInv
<1> QED BY <1>1, Invariance, PTL

\* Append returns the sequence number under which its payload is in the log, or
\* an error, and then the payload is not in the log and never will be: for
\* every number of clients, limit and order of cancellations, failures, timers
\* and foreign appends.
THEOREM AnswersMatch == Spec => []ResponseMatchesLog
<1>1. WInv => ResponseMatchesLog
  BY DEF WInv
<1> QED BY <1>1, Invariance, PTL

\* Records are in the log in the order in which the loop received them.
THEOREM OrderHolds == Spec => []OrderedAssignment
<1>1. WInv => OrderedAssignment
  BY DEF WInv, Order
<1> QED BY <1>1, Invariance, PTL

\* The loop never waits with a batch and no timer, nor with the timer of a batch
\* that has been flushed.
THEOREM TimerHolds == Spec => []TimerGuardsBatch
<1>1. WInv => TimerGuardsBatch
  BY DEF WInv
<1> QED BY <1>1, Invariance, PTL

\* Where the loop may receive, its batch is below both limits.
Room == loop \in {"new", "select"} /\ batch # <<>> => ~full(batch)

\* A request is received into a batch below the limits, so all shorter batches
\* were below them as well.
LEMMA RoomKept ==
  ASSUME WInv, Room, BatchBounded, [Next]_vars
  PROVE  (Room /\ BatchBounded)'
<1>1. ASSUME NEW c \in Clients, Receive(c)
      PROVE  (Room /\ BatchBounded)'
  <2> DEFINE Request == [from : Clients, id : Nat, size : Nat]
  <2>1. PICK r \in Request : batch' = Append(batch, r)
    <3>1. /\ [from |-> c, id |-> client[c].id, size |-> client[c].size] \in Request
          /\ batch' = Append(batch, [from |-> c, id |-> client[c].id, size |-> client[c].size])
      BY <1>1, ClientTypes DEF Receive
    <3> QED BY <3>1, Zenon
  <2>2. batch \in Seq(Request)
    BY DEF WInv, TypeOK
  <2> HIDE DEF Request
  <2>3. /\ Len(batch) \in Nat /\ Len(batch') = Len(batch) + 1
        /\ \A n \in 1..Len(batch) : SubSeq(batch', 1, n) = SubSeq(batch, 1, n)
        /\ SubSeq(batch, 1, Len(batch)) = batch
    BY ONLY <2>1, <2>2
  <2>4. loop = "select" /\ loop' = IF full(batch') THEN "write" ELSE "select"
    BY <1>1 DEF Receive
  <2>5. Room'
    BY <2>4 DEF Room, full
  <2>6. ASSUME NEW n \in 1..(Len(batch') - 1)
        PROVE  n < MaxLength /\ ~(SizeOf(SubSeq(batch', 1, n)) >= MaxSize)
    <3>0. Len(batch) \in Nat /\ Len(batch') = Len(batch) + 1
      BY <2>3
    <3>1. n \in 1..Len(batch) /\ (n # Len(batch) => n \in 1..(Len(batch) - 1))
      BY ONLY <3>0, n \in 1..(Len(batch') - 1)
    <3>2. CASE n = Len(batch)
      <4>1. batch # <<>>
        BY <2>3, <3>1, <3>2
      <4>2. ~(SizeOf(batch) >= MaxSize) /\ ~(n >= MaxLength)
        BY <2>4, <3>2, <4>1 DEF Room, full
      <4>3. n < MaxLength
        BY <2>3, <3>2, <4>2, WriterAssumption
      <4> QED BY <2>3, <3>1, <3>2, <4>2, <4>3, Zenon
    <3>3. CASE n # Len(batch)
      BY <2>3, <3>1, <3>3, Zenon DEF BatchBounded
    <3> QED BY <3>2, <3>3
  <2> QED BY <2>5, <2>6 DEF BatchBounded
<1>2. CASE batch' = batch /\ (loop' \in {"new", "select"} => loop \in {"new", "select"} \/ batch = <<>>)
  BY <1>2, Zenon DEF Room, BatchBounded, full
<1>3. CASE batch' = <<>>
  <2>1. \A n \in 1..(Len(batch') - 1) : FALSE
    BY <1>3
  <2> QED BY <1>3, <2>1, Zenon DEF Room, BatchBounded
<1>4. CASE OnDone \/ OnTimer
  BY <1>2, <1>4 DEF OnDone, OnTimer, flush
<1>5. CASE LogAppend
  BY <1>2, <1>5 DEF LogAppend
<1>6. CASE Respond
  BY <1>2, <1>3, <1>6 DEF Respond
<1>7. CASE \/ \E c \in Clients : ClientStep(c) \/ SelectCanceled(c) \/ AppendRefused(c) \/ CancelClient(c)
           \/ \E c \in Clients, s \in Sizes : AppendCall(c, s)
  BY <1>2, <1>7 DEF ClientStep, SelectStopped, ReceiveResponse, SelectCanceled, AppendRefused,
                    CancelClient, AppendCall, loopVars
<1>8. CASE Start \/ CancelLoop \/ TimerFires \/ OtherAppend \/ UNCHANGED vars
  BY <1>2, <1>8 DEF Start, CancelLoop, TimerFires, OtherAppend, loopVars, vars
<1> QED BY <1>1, <1>4, <1>5, <1>6, <1>7, <1>8 DEF Next, LoopStep

\* No batch grows past the limits, whatever the sizes of the payloads: every
\* request but the last found it below both.
THEOREM BatchesBounded == Spec => []BatchBounded
<1>1. Init => Room /\ BatchBounded
  BY DEF Init, Room, BatchBounded
<1>2. WInv /\ (Room /\ BatchBounded) /\ [Next]_vars => (Room /\ BatchBounded)'
  BY RoomKept
<1> QED BY <1>1, <1>2, Invariance, PTL DEF Spec

\* Where every append of the log is forced out, so is every record whose Append
\* has returned its sequence number.
THEOREM AckedAreSynced ==
  ASSUME SyncOnAppend
  PROVE  Spec => []AckedSynced
<1> DEFINE AllSynced == synced = Len(log)
<1>1. Init => AllSynced
  BY DEF Init
<1>2. AllSynced /\ [Next]_vars => AllSynced'
  <2> SUFFICES ASSUME AllSynced, [Next]_vars PROVE AllSynced'
    OBVIOUS
  <2>1. CASE UNCHANGED <<log, synced>>
    BY <2>1
  <2>2. CASE LogAppend \/ OtherAppend
    BY <2>2 DEF LogAppend, OtherAppend, forcedOut
  <2>3. CASE OnDone \/ OnTimer \/ Respond \/ Start \/ CancelLoop \/ TimerFires \/ UNCHANGED vars
    BY <2>1, <2>3 DEF OnDone, OnTimer, Respond, Start, CancelLoop, TimerFires, logVars, vars
  <2>4. CASE \/ \E c \in Clients : \/ ClientStep(c) \/ SelectCanceled(c) \/ AppendRefused(c)
                                  \/ CancelClient(c) \/ Receive(c)
             \/ \E c \in Clients, s \in Sizes : AppendCall(c, s)
    BY <2>1, <2>4 DEF ClientStep, SelectStopped, ReceiveResponse, SelectCanceled, AppendRefused,
                      CancelClient, AppendCall, Receive, logVars
  <2> QED BY <2>2, <2>3, <2>4 DEF Next, LoopStep
<1>3. WInv /\ AllSynced => AckedSynced
  <2> SUFFICES ASSUME WInv, AllSynced, NEW r \in results, r.seq # Error
               PROVE  r.seq - StartSeq < synced
    BY DEF AckedSynced
  <2>1. r.seq - StartSeq + 1 \in 1..Len(log)
    BY DEF WInv, ResponseMatchesLog
  <2>2. r.seq \in Int /\ StartSeq \in Nat /\ Len(log) \in Nat
    BY ResultTypes, LogTypes, Zenon
  <2> QED BY ONLY <2>1, <2>2, AllSynced
<1> QED BY <1>1, <1>2, <1>3, Invariance, PTL DEF Spec

(***************************************************************************)
(* The writer implements the abstract appender.                            *)
(***************************************************************************)

\* Outcome, of a request cl with answer r in the log l.
Value(cl, r, l) ==
  LET at == {i \in 1..Len(l) : l[i] = cl.id}
  IN IF cl.at = "idle" THEN [st |-> "idle", id |-> 0, seq |-> 0]
     ELSE IF at # {} THEN [st |-> "done", id |-> cl.id, seq |-> StartSeq + Max(at) - 1]
     ELSE IF r = Error THEN [st |-> "failed", id |-> cl.id, seq |-> 0]
     ELSE [st |-> "pending", id |-> cl.id, seq |-> 0]

\* What a call has come to, case by case.
LEMMA ValueFacts ==
  ASSUME NEW cl, NEW r, NEW l, Len(l) \in Nat
  PROVE  /\ cl.at = "idle" => Value(cl, r, l) = A!Idle
         /\ (cl.at # "idle" /\ \A i \in 1..Len(l) : l[i] # cl.id) =>
              Value(cl, r, l) = IF r = Error THEN A!Failed(cl.id) ELSE A!Pending(cl.id)
         /\ \A i \in 1..Len(l) :
              (cl.at # "idle" /\ l[i] = cl.id /\ \A j \in 1..Len(l) : l[j] = cl.id => j = i) =>
                Value(cl, r, l) = A!Done(cl.id, StartSeq + i - 1)
<1> DEFINE at == {i \in 1..Len(l) : l[i] = cl.id}
<1>1. cl.at = "idle" => Value(cl, r, l) = A!Idle
  BY DEF Value, A!Idle
<1>2. ASSUME cl.at # "idle", \A i \in 1..Len(l) : l[i] # cl.id
      PROVE  Value(cl, r, l) = IF r = Error THEN A!Failed(cl.id) ELSE A!Pending(cl.id)
  <2>1. at = {}
    BY <1>2
  <2> QED BY <1>2, <2>1 DEF Value, A!Failed, A!Pending
<1>3. ASSUME NEW i \in 1..Len(l), cl.at # "idle", l[i] = cl.id,
             \A j \in 1..Len(l) : l[j] = cl.id => j = i
      PROVE  Value(cl, r, l) = A!Done(cl.id, StartSeq + i - 1)
  <2>1. at = {i} /\ i \in Int
    BY <1>3
  <2>2. Max(at) = i
    BY <2>1 DEF Max
  <2>3. Value(cl, r, l) = [st |-> "done", id |-> cl.id, seq |-> StartSeq + Max(at) - 1]
    BY <1>3, <2>1 DEF Value
  <2> QED BY <2>2, <2>3 DEF A!Done
<1> QED BY <1>1, <1>2, <1>3

\* The call goes by the id of the request.
LEMMA ValueId ==
  ASSUME NEW cl, NEW r, NEW l
  PROVE  Value(cl, r, l).id = IF cl.at = "idle" THEN 0 ELSE cl.id
BY DEF Value

\* A call not made, and one that is pending.
LEMMA OutcomeFields ==
  A!Idle.st = "idle" /\ \A n : A!Pending(n).id = n
BY DEF A!Idle, A!Pending

\* What the clients' calls have come to, as the refinement mapping has it.
Calls == [c \in Clients |-> Outcome(c)]

\* Before and after a step it is their values.
LEMMA CallsAre ==
  /\ \A c \in Clients : Calls[c] = Value(client[c], resp[c], log)
  /\ \A c \in Clients : Calls'[c] = Value(client'[c], resp'[c], log')
BY DEF Calls, Outcome, Value

\* Nobody's call comes to something else.
LEMMA StutterImpl ==
  ASSUME log' = log,
         \A c \in Clients : Value(client'[c], resp'[c], log') = Value(client[c], resp[c], log)
  PROVE  UNCHANGED <<log, Calls>>
<1>1. \A c \in Clients : Calls'[c] = Calls[c]
  BY CallsAre
<1>2. Calls' = Calls
  BY <1>1 DEF Calls
<1> QED BY <1>2

\* One client's call comes to something else, to v.
LEMMA OneChanges ==
  ASSUME NEW c \in Clients, NEW v, Value(client'[c], resp'[c], log') = v,
         \A d \in Clients : d # c =>
           Value(client'[d], resp'[d], log') = Value(client[d], resp[d], log)
  PROVE  Calls' = [Calls EXCEPT ![c] = v]
<1>1. Calls'[c] = v /\ \A d \in Clients : d # c => Calls'[d] = Calls[d]
  BY CallsAre
<1> QED BY <1>1, Zenon DEF Calls

\* Steps that requests and log take no part in are invisible.
LEMMA QuietImpl ==
  ASSUME UNCHANGED <<client, resp, log>>
  PROVE  UNCHANGED <<log, Calls>>
BY StutterImpl

\* So is the receipt of a request.
LEMMA ReceiveImpl ==
  ASSUME WInv, NEW c \in Clients, Receive(c)
  PROVE  UNCHANGED <<log, Calls>>
<1>1. /\ client[c].at = "select" /\ client' = [client EXCEPT ![c].at = "wait"]
      /\ resp' = resp /\ log' = log
  BY DEF Receive, logVars
<1>2. \A d \in Clients : client'[d].id = client[d].id /\ (client'[d].at = "idle" <=> client[d].at = "idle")
  BY <1>1 DEF WInv, TypeOK
<1>3. ASSUME NEW d \in Clients
      PROVE  Value(client'[d], resp'[d], log') = Value(client[d], resp[d], log)
  <2>1. /\ client'[d].id = client[d].id /\ (client'[d].at = "idle" <=> client[d].at = "idle")
        /\ resp'[d] = resp[d] /\ log' = log
    BY <1>1, <1>2
  <2> QED BY ONLY <2>1 DEF Value
<1> QED BY <1>1, <1>3, StutterImpl

\* A call is made, with an id nobody has used.
LEMMA InvokeImpl ==
  ASSUME WInv, NEW c \in Clients, NEW size \in Sizes, AppendCall(c, size)
  PROVE  A!Invoke(c)
<1>1. /\ client[c].at = "idle" /\ resp' = resp /\ log' = log
      /\ client' = [client EXCEPT ![c] = [at |-> "select", id |-> nextId, size |-> size]]
  BY DEF AppendCall, logVars
<1>2. /\ \A d \in Clients : d # c => client'[d] = client[d]
      /\ client'[c].at = "select" /\ client'[c].id = nextId
  BY <1>1 DEF WInv, TypeOK
<1>3. /\ nextId # 0 /\ Len(log) \in Nat
      /\ \A i \in 1..Len(log) : log[i] # nextId
      /\ \A d \in Clients : Active(d) => client[d].id # nextId
      /\ resp[c] # Error
  <2>1. /\ Len(log) \in Nat /\ (\A i \in 1..Len(log) : log[i] \in Nat) /\ nextId \in Nat
        /\ \A d \in Clients : client[d].id \in Nat
    BY ClientTypes, LogTypes, Zenon
  <2>2. resp[c] # Error
    BY <1>1, SMTT(20) DEF WInv, Waiting, Error, NoResponse
  <2> QED BY <2>1, <2>2, SMTT(20) DEF WInv, Ids
<1>4. Value(client'[c], resp'[c], log') = A!Pending(nextId)
  BY <1>1, <1>2, <1>3, ValueFacts, SMTT(20)
<1>5. Calls' = [Calls EXCEPT ![c] = A!Pending(nextId)]
  BY <1>1, <1>2, <1>4, OneChanges, SMTT(20)
<1>6. Calls[c].st = "idle" /\ Calls'[c].id = nextId
  <2>1. Calls[c] = A!Idle
    <3>1. Value(client[c], resp[c], log) = A!Idle
      BY <1>1, <1>3, ValueFacts
    <3> QED BY <3>1, CallsAre
  <2>2. Calls'[c] = A!Pending(nextId)
    BY <1>4, CallsAre, Zenon
  <2> QED BY <2>1, <2>2, OutcomeFields, Zenon
<1>7. \A d \in Clients : Calls[d].id # nextId
  <2>1. \A d \in Clients : Calls[d].id = IF Active(d) THEN client[d].id ELSE 0
    <3> SUFFICES ASSUME NEW d \in Clients
                 PROVE  Calls[d].id = IF Active(d) THEN client[d].id ELSE 0
      OBVIOUS
    <3>1. Calls[d] = Value(client[d], resp[d], log)
      BY CallsAre, Zenon
    <3>2. Value(client[d], resp[d], log).id = IF client[d].at = "idle" THEN 0 ELSE client[d].id
      BY ValueId, Zenon
    <3>3. Calls[d].id = IF client[d].at = "idle" THEN 0 ELSE client[d].id
      BY <3>1, <3>2, Zenon
    <3> QED BY <3>3, Zenon DEF Active
  <2> QED BY <1>3, <2>1, Zenon
<1> QED BY <1>1, <1>3, <1>5, <1>6, <1>7, Zenon DEF A!Invoke, Calls

\* A call that never reached the loop returns an error.
LEMMA TurnedAwayImpl ==
  ASSUME WInv, NEW c \in Clients, SelectStopped(c) \/ SelectCanceled(c)
  PROVE  A!Fail(c)
<1>1. /\ client[c].at = "select" /\ resp' = resp /\ log' = log
      /\ client' = [client EXCEPT ![c] = NoRequest]
  BY DEF SelectStopped, SelectCanceled, Returns, logVars
<1>2. /\ \A d \in Clients : d # c => client'[d] = client[d]
      /\ client'[c].at = "idle"
  BY <1>1 DEF WInv, TypeOK, NoRequest
<1>3. /\ Len(log) \in Nat /\ \A i \in 1..Len(log) : log[i] # client[c].id
      /\ resp[c] # Error
  BY <1>1, LogTypes, SMTT(20) DEF WInv, Placed, InLog, Waiting, Error, NoResponse
<1>4. Calls[c].st = "pending"
  <2>1. Calls[c] = A!Pending(client[c].id)
    BY <1>1, <1>3, CallsAre, ValueFacts, SMTT(20)
  <2> QED BY <2>1 DEF A!Pending
<1>5. Value(client'[c], resp'[c], log') = A!Idle
  BY <1>1, <1>2, <1>3, ValueFacts, SMTT(20)
<1>6. Calls' = [Calls EXCEPT ![c] = A!Idle]
  BY <1>1, <1>2, <1>5, OneChanges, SMTT(20)
<1> QED BY <1>1, <1>4, <1>6 DEF A!Fail, Calls

\* A call returns the answer it got.
LEMMA ReturnImpl ==
  ASSUME WInv, NEW c \in Clients, ReceiveResponse(c)
  PROVE  A!Return(c)
<1>1. /\ client[c].at = "wait" /\ resp[c] # NoResponse /\ log' = log
      /\ client' = [client EXCEPT ![c] = NoRequest]
      /\ resp' = [resp EXCEPT ![c] = NoResponse]
  BY DEF ReceiveResponse, Returns, logVars
<1>2. /\ \A d \in Clients : d # c => client'[d] = client[d] /\ resp'[d] = resp[d]
      /\ client'[c].at = "idle" /\ Len(log) \in Nat
  BY <1>1, LogTypes DEF WInv, TypeOK, NoRequest
<1>3. Calls[c].st \in {"done", "failed"}
  <2>1. CASE resp[c] = Error
    <3>1. \A i \in 1..Len(log) : log[i] # client[c].id
      BY <2>1 DEF WInv, Placed, InLog
    <3>2. Calls[c] = A!Failed(client[c].id)
      BY <1>1, <1>2, <2>1, <3>1, CallsAre, ValueFacts, SMTT(20)
    <3> QED BY <3>2 DEF A!Failed
  <2>2. CASE resp[c] # Error
    <3>1. PICK i \in 1..Len(log) : log[i] = client[c].id
      BY <1>1, <2>2 DEF WInv, Placed, Under
    <3>2. Value(client[c], resp[c], log).st = "done"
      BY <1>1, <3>1 DEF Value
    <3> QED BY <3>2, CallsAre
  <2> QED BY <2>1, <2>2
<1>4. Value(client'[c], resp'[c], log') = A!Idle
  BY <1>1, <1>2, ValueFacts, SMTT(20)
<1>5. Calls' = [Calls EXCEPT ![c] = A!Idle]
  BY <1>1, <1>2, <1>4, OneChanges, SMTT(20)
<1> QED BY <1>1, <1>3, <1>5 DEF A!Return, Calls

\* An answer is visible when it is the first thing the caller could learn of a
\* failure; a record in the log has taken effect before.
LEMMA RespondImpl ==
  ASSUME WInv, Respond
  PROVE  UNCHANGED <<log, Calls>> \/ \E c \in Clients : A!Fail(c)
<1>1. PICK f \in Clients, v \in Int :
        /\ client[f].at = "wait" /\ resp[f] = NoResponse
        /\ resp' = [resp EXCEPT ![f] = v]
        /\ v = Error => ~InLog(client[f].id)
  BY NextAnswer
<1>2. client' = client /\ log' = log /\ Len(log) \in Nat
  BY LogTypes DEF Respond, logVars
<1>3. resp'[f] = v /\ \A d \in Clients : d # f => resp'[d] = resp[d]
  BY <1>1 DEF WInv, TypeOK
<1>4. resp[f] # Error
  BY <1>1 DEF Error, NoResponse
<1>5. CASE v # Error
  <2>1. ASSUME NEW d \in Clients
        PROVE  Value(client'[d], resp'[d], log') = Value(client[d], resp[d], log)
    <3>1. client' = client /\ log' = log /\ (resp'[d] = Error <=> resp[d] = Error)
      BY <1>2, <1>3, <1>4, <1>5
    <3> QED BY ONLY <3>1 DEF Value
  <2> QED BY <1>2, <2>1, StutterImpl
<1>6. CASE v = Error
  <2>1. \A i \in 1..Len(log) : log[i] # client[f].id
    BY <1>1, <1>6 DEF InLog
  <2>2. Calls[f] = A!Pending(client[f].id)
    BY <1>1, <1>2, <1>4, <2>1, CallsAre, ValueFacts, SMTT(20)
  <2>3. Value(client'[f], resp'[f], log') = A!Failed(client[f].id)
    BY <1>1, <1>2, <1>3, <1>6, <2>1, ValueFacts, SMTT(20)
  <2>4. Calls' = [Calls EXCEPT ![f] = A!Failed(client[f].id)]
    BY <1>2, <1>3, <2>3, OneChanges
  <2>5. Calls[f].st = "pending" /\ Calls[f].id = client[f].id
    BY <2>2 DEF A!Pending
  <2> QED BY <1>2, <2>4, <2>5, Zenon DEF A!Fail, Calls
<1> QED BY <1>5, <1>6

\* A foreign append is nobody's call.
LEMMA OtherImpl ==
  ASSUME WInv, OtherAppend
  PROVE  A!Other
<1>1. client' = client /\ resp' = resp /\ log' = Append(log, 0)
  BY DEF OtherAppend, loopVars
<1>2. /\ Len(log) \in Nat /\ Len(log') = Len(log) + 1
      /\ (\A i \in 1..Len(log) : log'[i] = log[i]) /\ log'[Len(log) + 1] = 0
  <2>1. log \in Seq(Nat)
    BY DEF WInv, TypeOK
  <2> QED BY <1>1, <2>1
<1>3. ASSUME NEW d \in Clients
      PROVE  Value(client'[d], resp'[d], log') = Value(client[d], resp[d], log)
  <2>1. CASE client[d].at = "idle"
    BY <1>1, <2>1 DEF Value
  <2>2. CASE client[d].at # "idle"
    <3>1. client[d].id # 0
      BY <2>2, ClientTypes, SMTT(20) DEF WInv, Ids, Active
    <3>2. {i \in 1..Len(log') : log'[i] = client[d].id} = {i \in 1..Len(log) : log[i] = client[d].id}
      BY <1>2, <3>1
    <3> QED BY <1>1, <3>2, Zenon DEF Value
  <2> QED BY <2>1, <2>2
<1>4. Calls' = Calls
  <2>1. \A d \in Clients : Calls'[d] = Calls[d]
    BY <1>3, CallsAre
  <2> QED BY <2>1 DEF Calls
<1> QED BY <1>1, <1>4 DEF A!Other, Calls

\* A batch that is appended is the commit of its calls.
LEMMA CommitImpl ==
  ASSUME WInv, WInv', loop = "write", log' = log \o payloads,
         client' = client, resp' = resp
  PROVE  \E S \in SUBSET Clients : A!Commit(S)
<1> DEFINE S == {batch[k].from : k \in 1..Len(batch)}
<1>1. /\ Len(log) \in Nat /\ Len(batch) \in Nat /\ Len(batch) > 0
      /\ Len(log') = Len(log) + Len(batch)
      /\ \A i \in 1..Len(log) : log'[i] = log[i]
      /\ \A k \in 1..Len(batch) : log'[Len(log) + k] = batch[k].id
      /\ \A i \in 1..Len(log') : \/ i \in 1..Len(log) /\ log'[i] = log[i]
                                 \/ \E k \in 1..Len(batch) : i = Len(log) + k /\ log'[i] = batch[k].id
  BY WrittenLog, BatchIds, LogTypes, Zenon
<1>2. S # {} /\ S \in SUBSET Clients
  <2>1. 1 \in 1..Len(batch)
    BY <1>1, SMTT(20)
  <2>2. \A k \in 1..Len(batch) : batch[k].from \in Clients
    BY BatchIds
  <2> QED BY <2>1, <2>2, Zenon
<1>3. SubSeq(log', 1, Len(log)) = log
  <2>1. log \in Seq(Nat) /\ log' \in Seq(Nat)
    BY WrittenLog DEF WInv, TypeOK
  <2> QED BY ONLY <1>1, <2>1
<1>4. ASSUME NEW k \in 1..Len(batch)
      PROVE  /\ Calls[batch[k].from] = A!Pending(batch[k].id)
             /\ Len(log) + k \in (Len(log) + 1)..Len(log')
             /\ \A j \in (Len(log) + 1)..Len(log') : log'[j] = log'[Len(log) + k] => j = Len(log) + k
             /\ Calls'[batch[k].from] = A!Done(batch[k].id, StartSeq + (Len(log) + k) - 1)
  <2>1. PICK c \in Clients : /\ c = batch[k].from /\ client[c].at = "wait" /\ client[c].id = batch[k].id
                             /\ resp[c] = NoResponse /\ batch[k].id # 0
                             /\ \A i \in 1..Len(log) : log[i] # batch[k].id
    BY BatchIds DEF InLog
  <2>2. Calls[c] = A!Pending(batch[k].id)
    <3>1. Len(log) \in Nat /\ client[c].at # "idle" /\ resp[c] # Error
      BY <1>1, <2>1, SMTT(20) DEF Error, NoResponse
    <3>2. \A i \in 1..Len(log) : log[i] # client[c].id
      BY <2>1
    <3>3. Value(client[c], resp[c], log) = A!Pending(client[c].id)
      BY ONLY <3>1, <3>2, ValueFacts
    <3>4. Calls[c] = Value(client[c], resp[c], log)
      BY CallsAre
    <3> QED BY ONLY <2>1, <3>3, <3>4, SMTT(30)
  <2>3. Len(log) + k \in (Len(log) + 1)..Len(log') /\ Len(log) + k \in 1..Len(log') /\ Len(log') \in Nat
    BY <1>1, SMTT(20)
  <2>4. \A j \in 1..Len(log') : log'[j] = batch[k].id => j = Len(log) + k
    BY <1>1, <2>1, <2>3, Zenon DEF WInv, Once
  <2>5. Value(client'[c], resp'[c], log') = A!Done(batch[k].id, StartSeq + (Len(log) + k) - 1)
    <3>1. client'[c].at # "idle" /\ client'[c].id = batch[k].id
      BY <2>1
    <3>2. log'[Len(log) + k] = batch[k].id
      BY <1>1
    <3> QED BY ONLY <2>3, <2>4, <3>1, <3>2, ValueFacts
  <2>6. \A j \in (Len(log) + 1)..Len(log') : j \in 1..Len(log')
    BY <1>1, SMTT(20)
  <2> QED BY <1>1, <2>1, <2>2, <2>3, <2>4, <2>5, <2>6, CallsAre, SMTT(20)
<1>5. ASSUME NEW c \in Clients \ S
      PROVE  Calls'[c] = Calls[c]
  <2>1. CASE client[c].at = "idle"
    BY <2>1, CallsAre, Zenon DEF Value
  <2>2. CASE client[c].at # "idle"
    <3>1. \A k \in 1..Len(batch) : batch[k].id # client[c].id
      BY <2>2, BatchIds, SMTT(20) DEF Active
    <3>2. {i \in 1..Len(log') : log'[i] = client[c].id} = {i \in 1..Len(log) : log[i] = client[c].id}
      <4>1. \A i \in 1..Len(log) : i \in 1..Len(log')
        BY <1>1, SMTT(20)
      <4>2. ASSUME NEW i \in 1..Len(log'), log'[i] = client[c].id
            PROVE  i \in 1..Len(log) /\ log[i] = client[c].id
        BY <1>1, <3>1, <4>2, ZenonT(40)
      <4>3. ASSUME NEW i \in 1..Len(log), log[i] = client[c].id
            PROVE  i \in 1..Len(log') /\ log'[i] = client[c].id
        BY <1>1, <4>1, <4>3, Zenon
      <4> QED BY <4>2, <4>3, Zenon
    <3>3. Value(client'[c], resp'[c], log') = Value(client[c], resp[c], log)
      BY <3>2, Zenon DEF Value
    <3> QED BY <3>3, CallsAre
  <2> QED BY <2>1, <2>2
<1>6. A!Commit(S)
  <2>0. \A k \in 1..Len(batch) : Calls[batch[k].from].st = "pending" /\ Calls[batch[k].from].id = batch[k].id
    <3>1. TAKE k \in 1..Len(batch)
    <3>2. Calls[batch[k].from] = A!Pending(batch[k].id)
      BY <1>4
    <3> QED BY ONLY <3>2 DEF A!Pending
  <2>1. \A c \in S : Calls[c].st = "pending"
    BY ONLY <2>0
  <2>2. Len(log') > Len(log)
    BY <1>1, SMTT(20)
  <2>3. ASSUME NEW i \in (Len(log) + 1)..Len(log')
        PROVE  \E c \in S : log'[i] = Calls[c].id
    <3>0. i \in 1..Len(log') /\ i \notin 1..Len(log)
      BY ONLY <1>1, i \in (Len(log) + 1)..Len(log')
    <3>1. PICK k \in 1..Len(batch) : i = Len(log) + k /\ log'[i] = batch[k].id
      BY <1>1, <3>0
    <3>2. batch[k].from \in S /\ Calls[batch[k].from].id = batch[k].id
      BY <2>0
    <3> QED BY <3>1, <3>2, Zenon
  <2>4. ASSUME NEW c \in S
        PROVE  \E i \in (Len(log) + 1)..Len(log') :
                 /\ log'[i] = Calls[c].id
                 /\ \A j \in (Len(log) + 1)..Len(log') : log'[j] = log'[i] => j = i
                 /\ Calls'[c] = A!Done(Calls[c].id, StartSeq + i - 1)
    <3>1. PICK k \in 1..Len(batch) : c = batch[k].from
      OBVIOUS
    <3>2. Calls[c].id = batch[k].id
      BY <2>0, <3>1
    <3>3. /\ Len(log) + k \in (Len(log) + 1)..Len(log')
          /\ log'[Len(log) + k] = Calls[c].id
          /\ \A j \in (Len(log) + 1)..Len(log') : log'[j] = log'[Len(log) + k] => j = Len(log) + k
          /\ Calls'[c] = A!Done(Calls[c].id, StartSeq + (Len(log) + k) - 1)
      <4>1. log'[Len(log) + k] = batch[k].id
        BY <1>1, Zenon
      <4> QED BY <1>4, <3>1, <3>2, <4>1, Zenon
    <3> QED BY ONLY <3>3
  <2> QED BY <1>2, <1>3, <1>5, <2>1, <2>2, <2>3, <2>4, Zenon DEF A!Commit, Calls
<1> QED BY <1>2, <1>6

\* The writer begins as the abstract one does.
LEMMA InitImpl == Init => A!Init
<1> SUFFICES ASSUME Init PROVE A!Init
  OBVIOUS
<1>1. log = <<>> /\ \A c \in Clients : client[c].at = "idle"
  BY DEF Init, NoRequest
<1>2. \A c \in Clients : Outcome(c) = A!Idle
  BY <1>1 DEF Outcome, A!Idle
<1>3. [c \in Clients |-> Outcome(c)] = [c \in Clients |-> A!Idle]
  BY <1>2
<1> QED BY <1>1, <1>3 DEF A!Init

\* Every step of the writer is one of the abstract one, or nothing to its callers.
LEMMA NextImpl == WInv /\ WInv' /\ [Next]_vars => [A!Next]_<<log, Calls>>
<1> SUFFICES ASSUME WInv, WInv', [Next]_vars PROVE A!Next \/ UNCHANGED <<log, Calls>>
  OBVIOUS
<1>1. ASSUME NEW c \in Clients, ClientStep(c) \/ SelectCanceled(c)
      PROVE  A!Next
  <2>1. A!Fail(c) \/ A!Return(c)
    BY <1>1, TurnedAwayImpl, ReturnImpl DEF ClientStep
  <2> QED BY <2>1 DEF A!Next
<1>2. ASSUME NEW c \in Clients, NEW s \in Sizes, AppendCall(c, s)
      PROVE  A!Next
  <2>1. A!Invoke(c)
    BY <1>2, InvokeImpl
  <2> QED BY <2>1 DEF A!Next
<1>3. CASE OtherAppend
  <2>1. A!Other
    BY <1>3, OtherImpl
  <2> QED BY <2>1 DEF A!Next
<1>4. CASE Respond
  <2>1. CASE \E c \in Clients : A!Fail(c)
    BY <2>1 DEF A!Next
  <2> QED BY <1>4, <2>1, RespondImpl
<1>5. CASE LogAppend
  <2>1. loop = "write" /\ client' = client /\ resp' = resp /\ (log' = log \o payloads \/ log' = log)
    BY <1>5 DEF LogAppend
  <2>2. CASE log' = log \o payloads
    <3>1. \E S \in SUBSET Clients : A!Commit(S)
      BY <2>1, <2>2, CommitImpl
    <3> QED BY <3>1 DEF A!Next
  <2>3. CASE log' = log
    BY <2>1, <2>3, QuietImpl
  <2> QED BY <2>1, <2>2, <2>3
<1>6. ASSUME NEW c \in Clients, Receive(c)
      PROVE  UNCHANGED <<log, Calls>>
  BY <1>6, ReceiveImpl
<1>7. CASE OnDone \/ OnTimer \/ Start \/ CancelLoop \/ TimerFires \/ UNCHANGED vars
  <2>1. UNCHANGED <<client, resp, log>>
    BY <1>7, Zenon DEF OnDone, OnTimer, Start, CancelLoop, TimerFires, vars, logVars
  <2> QED BY <2>1, QuietImpl
<1>8. ASSUME NEW c \in Clients, AppendRefused(c) \/ CancelClient(c)
      PROVE  UNCHANGED <<log, Calls>>
  <2>1. UNCHANGED <<client, resp, log>>
    BY <1>8 DEF AppendRefused, CancelClient, logVars
  <2> QED BY <2>1, QuietImpl
<1> QED BY <1>1, <1>2, <1>3, <1>4, <1>5, <1>6, <1>7, <1>8 DEF Next, LoopStep

\* The batching writer, with its loop, its timer and its answers one at a time,
\* is to its callers the abstract appender: a call takes effect at one instant,
\* together with the calls of its batch, or fails without a trace.
THEOREM AppenderImplemented == Spec => ImplementsAppender
<1>1. Init => A!Init
  BY InitImpl
<1>2. WInv /\ WInv' /\ [Next]_vars => [A!Next]_<<log, [c \in Clients |-> Outcome(c)]>>
  BY NextImpl DEF Calls
<1> QED BY Invariance, <1>1, <1>2, PTL DEF Spec, ImplementsAppender, A!Spec
=============================================================================

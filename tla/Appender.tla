------------------------------ MODULE Appender ------------------------------
(***************************************************************************)
(* What Writer.Append promises its callers: every call either takes effect *)
(* once, at one moment between its invocation and its return, and returns  *)
(* the sequence number its payload got; or it returns an error and never   *)
(* takes effect.  Several calls may take effect together.                  *)
(***************************************************************************)
EXTENDS Integers, Sequences

CONSTANTS Clients, StartSeq

VARIABLES log,  \* the ids of the records, from sequence number StartSeq on
          call  \* what each client's current call has come to

Idle == [st |-> "idle", id |-> 0, seq |-> 0]

Pending(id) == [st |-> "pending", id |-> id, seq |-> 0]

Done(id, seq) == [st |-> "done", id |-> id, seq |-> seq]

Failed(id) == [st |-> "failed", id |-> id, seq |-> 0]

Init == log = <<>> /\ call = [c \in Clients |-> Idle]

\* The id is one no call has used.
Invoke(c) ==
  /\ call[c].st = "idle"
  /\ LET id == call'[c].id
     IN /\ id # 0
        /\ \A i \in 1..Len(log) : log[i] # id
        /\ \A d \in Clients : call[d].id # id
        /\ call' = [call EXCEPT ![c] = Pending(id)]
  /\ UNCHANGED log

\* Pending calls take effect, next to one another and in some order.
Commit(S) ==
  /\ S # {} /\ \A c \in S : call[c].st = "pending"
  /\ Len(log') > Len(log) /\ SubSeq(log', 1, Len(log)) = log
  /\ \A i \in (Len(log) + 1)..Len(log') : \E c \in S : log'[i] = call[c].id
  /\ \A c \in S :
       \E i \in (Len(log) + 1)..Len(log') :
         /\ log'[i] = call[c].id
         /\ \A j \in (Len(log) + 1)..Len(log') : log'[j] = log'[i] => j = i
         /\ call'[c] = Done(call[c].id, StartSeq + i - 1)
  /\ \A c \in Clients \ S : call'[c] = call[c]

\* The failure may be reported at once.
Fail(c) ==
  /\ call[c].st = "pending"
  /\ \E s \in {Failed(call[c].id), Idle} : call' = [call EXCEPT ![c] = s]
  /\ UNCHANGED log

Return(c) ==
  /\ call[c].st \in {"done", "failed"}
  /\ call' = [call EXCEPT ![c] = Idle]
  /\ UNCHANGED log

\* Somebody appends to the log directly.
Other == log' = Append(log, 0) /\ UNCHANGED call

Next == \/ \E c \in Clients : Invoke(c) \/ Fail(c) \/ Return(c)
        \/ \E S \in SUBSET Clients : Commit(S)
        \/ Other

Spec == Init /\ [][Next]_<<log, call>>

=============================================================================

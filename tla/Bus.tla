--------------------------------- MODULE Bus ---------------------------------
(***************************************************************************)
(* The consuming side of the event bus (internal/common/watermill): every  *)
(* handler is a consumer group with an offset of its own and handles one   *)
(* event type, in order and one message at a time.  A message is acked     *)
(* after its handler; the Retry middleware runs a failed handler again     *)
(* from the start, and PoisonQueue parks the message after MaxRetries of   *)
(* that.  Publishing is part of the writer's transaction (the outbox).     *)
(*                                                                         *)
(* A module that extends this one splits its handlers into steps named by  *)
(* run[g].pc, the first of which is "start" and the last "ack".            *)
(***************************************************************************)
EXTENDS Integers, Sequences

CONSTANTS
  MaxRetries,  \* retries of a message before it is parked
  MaxFaults    \* bound on failed statements and crashes

ASSUME BusAssumption == MaxRetries \in Nat /\ MaxFaults \in Nat

VARIABLES
  inbox,       \* per group, the messages not yet acked
  run,         \* per group, the handler run in progress
  deadLetter,  \* parked messages
  faults       \* failed statements and crashes so far

bus == <<inbox, run, deadLetter, faults>>

FirstRun == [pc |-> "start", retries |-> 0]

BusInit(backlog) ==
  /\ inbox = backlog
  /\ run = [g \in DOMAIN backlog |-> FirstRun]
  /\ deadLetter = {}
  /\ faults = 0

\* A group is named after the type of the events it handles.
Publish(e) == inbox' = [inbox EXCEPT ![e.type] = Append(@, e)]

Event(g) == Head(inbox[g])

At(g, pc) == inbox[g] # <<>> /\ run[g].pc = pc

Goto(g, pc) ==
  run' = [run EXCEPT ![g].pc = pc] /\ UNCHANGED <<inbox, deadLetter, faults>>

Acked(g) ==
  /\ inbox' = [inbox EXCEPT ![g] = Tail(@)]
  /\ run' = [run EXCEPT ![g] = FirstRun]

Ack(g) == At(g, "ack") /\ Acked(g) /\ UNCHANGED <<deadLetter, faults>>

\* The middleware chain on an error: run the handler again, or park and ack.
RetryOrPark(g) ==
  IF run[g].retries < MaxRetries
    THEN /\ run' = [run EXCEPT ![g] = [pc |-> "start", retries |-> @.retries + 1]]
         /\ UNCHANGED <<inbox, deadLetter>>
    ELSE Acked(g) /\ deadLetter' = deadLetter \cup {Event(g)}

\* The handler returns an error of its own.
Fail(g) == RetryOrPark(g) /\ faults' = faults

\* The statement the handler is at fails (the database, a panic).
StatementFails(g) ==
  /\ inbox[g] # <<>> /\ run[g].pc # "ack"
  /\ faults < MaxFaults
  /\ faults' = faults + 1
  /\ RetryOrPark(g)

\* The process dies before the ack: the message is delivered again, and the
\* retries, counted in memory, start over.
Crash(g) ==
  /\ inbox[g] # <<>> /\ run[g] # FirstRun
  /\ faults < MaxFaults
  /\ faults' = faults + 1
  /\ run' = [run EXCEPT ![g] = FirstRun]
  /\ UNCHANGED <<inbox, deadLetter>>

\* The runbook of docs/operations.md: a parked message goes back to its topic.
Republish ==
  /\ \E e \in deadLetter : Publish(e) /\ deadLetter' = deadLetter \ {e}
  /\ UNCHANGED <<run, faults>>

\* Messages wait in the group of their type; no run outlives its budget.
BusOK(groups, pcs) ==
  /\ DOMAIN inbox = groups
  /\ \A g \in groups :
       /\ \A i \in DOMAIN inbox[g] : inbox[g][i].type = g
       /\ run[g] \in [pc : pcs, retries : 0 .. MaxRetries]
  /\ \A e \in deadLetter : e.type \in groups
  /\ faults \in 0 .. MaxFaults

\* Every message was handled and none is parked.
Quiet == deadLetter = {} /\ \A g \in DOMAIN inbox : inbox[g] = <<>>
=============================================================================

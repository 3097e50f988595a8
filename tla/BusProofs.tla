------------------------------ MODULE BusProofs ------------------------------
(***************************************************************************)
(* Lemmas about the event bus, for every set of messages, groups and       *)
(* handler steps.  The modules built on Bus take from here what the bus    *)
(* does to queues, runs and the dead letter.                               *)
(***************************************************************************)
EXTENDS Bus, SequenceTheorems, TLAPS

-----------------------------------------------------------------------------
(* Queues.                                                                 *)

In(x, s) == \E i \in DOMAIN s : s[i] = x

\* The oldest message is in its queue.
LEMMA HeadIn ==
  ASSUME NEW M, NEW s \in Seq(M), s # << >>
  PROVE  Head(s) \in M /\ In(Head(s), s) /\ Tail(s) \in Seq(M)
<1>1. Head(s) \in M /\ Tail(s) \in Seq(M) /\ 1 \in DOMAIN s /\ s[1] = Head(s)
  BY EmptySeq
<1> QED
  BY <1>1 DEF In

\* Acking takes the oldest message and nothing else.
LEMMA TailIn ==
  ASSUME NEW M, NEW s \in Seq(M), s # << >>
  PROVE  /\ \A x : In(x, Tail(s)) => In(x, s)
         /\ \A x : In(x, s) => x = Head(s) \/ In(x, Tail(s))
<1>1. /\ Len(s) \in Nat \ {0} /\ Len(Tail(s)) = Len(s) - 1
      /\ DOMAIN s = 1 .. Len(s) /\ DOMAIN Tail(s) = 1 .. Len(s) - 1
      /\ \A i \in 1 .. Len(s) - 1 : Tail(s)[i] = s[i + 1]
      /\ Head(s) = s[1]
  BY HeadTailProperties, EmptySeq
<1>2. ASSUME NEW x, In(x, Tail(s)) PROVE In(x, s)
  <2>1. PICK i \in 1 .. Len(s) - 1 : s[i + 1] = x
    BY <1>1, <1>2 DEF In
  <2>2. i + 1 \in DOMAIN s
    BY <1>1
  <2> QED
    BY <2>1, <2>2 DEF In
<1>3. ASSUME NEW x, In(x, s), x # Head(s) PROVE In(x, Tail(s))
  <2>1. PICK i \in 1 .. Len(s) : s[i] = x
    BY <1>1, <1>3 DEF In
  <2>2. i - 1 \in 1 .. Len(s) - 1 /\ Tail(s)[i - 1] = x
    BY <1>1, <1>3, <2>1
  <2> QED
    BY <1>1, <2>2 DEF In
<1> QED
  BY <1>2, <1>3

\* Publishing adds one message at the end.
LEMMA AppendIn ==
  ASSUME NEW M, NEW s \in Seq(M), NEW e \in M
  PROVE  /\ Append(s, e) \in Seq(M) /\ Append(s, e) # << >>
         /\ \A x : In(x, Append(s, e)) <=> In(x, s) \/ x = e
         /\ s # << >> => Head(Append(s, e)) = Head(s)
         /\ s = << >> => Head(Append(s, e)) = e
<1> DEFINE t == Append(s, e)
<1>1. /\ t \in Seq(M) /\ Len(t) = Len(s) + 1 /\ Len(s) \in Nat
      /\ DOMAIN s = 1 .. Len(s) /\ DOMAIN t = 1 .. Len(s) + 1
      /\ \A i \in 1 .. Len(s) : t[i] = s[i]
      /\ t[Len(s) + 1] = e
  BY AppendProperties
<1> HIDE DEF t
<1>2. t # << >> /\ Head(t) = t[1]
  BY <1>1, EmptySeq, HeadTailProperties
<1>3. ASSUME NEW x, In(x, t) PROVE In(x, s) \/ x = e
  BY <1>1, <1>3 DEF In
<1>4. ASSUME NEW x, In(x, s) PROVE In(x, t)
  BY <1>1, <1>4 DEF In
<1>5. In(e, t)
  <2>1. Len(s) + 1 \in DOMAIN t
    BY <1>1
  <2> QED
    BY <1>1, <2>1 DEF In
<1>6. s # << >> => Head(t) = Head(s)
  BY <1>1, <1>2, EmptySeq, HeadTailProperties
<1>7. s = << >> => Head(t) = e
  BY <1>1, <1>2
<1> QED
  BY <1>1, <1>2, <1>3, <1>4, <1>5, <1>6, <1>7 DEF t

-----------------------------------------------------------------------------
(* The shape of the bus, and what a step may do to it.                     *)

\* The state of the bus is a parameter, so that the same operator speaks of
\* the state before and after a step.
BusShape(ib, rn, dl, ft, Msg, groups, pcs) ==
  /\ "start" \in pcs /\ "ack" \in pcs
  /\ \A e \in Msg : e.type \in groups
  /\ ib \in [groups -> Seq(Msg)]
  /\ \A g \in groups : \A x : In(x, ib[g]) => x.type = g
  /\ rn \in [groups -> [pc : pcs, retries : 0 .. MaxRetries]]
  /\ \A g \in groups : ib[g] = << >> => rn[g] = FirstRun
  /\ dl \subseteq Msg
  /\ ft \in 0 .. MaxFaults

\* A message is known while it waits for its group or is parked.
Known(x, ib, dl, groups) == x \in dl \/ \E g \in groups : In(x, ib[g])

\* The run of a group starts over, or goes on with the same message.
Undisturbed(g) ==
  \/ run'[g].pc = "start"
  \/ /\ run'[g] = run[g]
     /\ inbox[g] # << >> /\ inbox'[g] # << >>
     /\ Head(inbox'[g]) = Head(inbox[g])

\* No message comes or goes.
Conserved(groups) ==
  \A x : Known(x, inbox', deadLetter', groups) <=> Known(x, inbox, deadLetter, groups)

\* The shape implies what Bus says of its types.
LEMMA ShapeMeans ==
  ASSUME NEW Msg, NEW groups, NEW pcs,
         BusShape(inbox, run, deadLetter, faults, Msg, groups, pcs)
  PROVE  BusOK(groups, pcs)
<1>1. \A g \in groups : \A i \in DOMAIN inbox[g] : In(inbox[g][i], inbox[g])
  BY DEF In
<1> QED
  BY <1>1 DEF BusShape, BusOK

\* A writer's transaction publishes one message and disturbs no group.
LEMMA PublishBus ==
  ASSUME NEW Msg, NEW groups, NEW pcs,
         BusShape(inbox, run, deadLetter, faults, Msg, groups, pcs),
         NEW e \in Msg, Publish(e), UNCHANGED run
  PROVE  /\ inbox' \in [groups -> Seq(Msg)]
         /\ \A g \in groups : \A x : In(x, inbox'[g]) => x.type = g
         /\ \A g \in groups : inbox'[g] = << >> => run'[g] = FirstRun
         /\ \A x : (\E g \in groups : In(x, inbox'[g]))
                   <=> (\E g \in groups : In(x, inbox[g])) \/ x = e
         /\ \A g \in groups : Undisturbed(g)
<1> USE DEF BusShape
<1> DEFINE h == e.type
<1>1. h \in groups /\ inbox[h] \in Seq(Msg)
  OBVIOUS
<1>2. inbox' = [inbox EXCEPT ![h] = Append(inbox[h], e)]
  BY DEF Publish
<1>3. /\ inbox'[h] = Append(inbox[h], e)
      /\ \A g \in groups \ {h} : inbox'[g] = inbox[g]
  BY <1>1, <1>2
<1>4. /\ Append(inbox[h], e) \in Seq(Msg) /\ Append(inbox[h], e) # << >>
      /\ \A x : In(x, Append(inbox[h], e)) <=> In(x, inbox[h]) \/ x = e
      /\ inbox[h] # << >> => Head(Append(inbox[h], e)) = Head(inbox[h])
  BY <1>1, AppendIn
<1>5. inbox' \in [groups -> Seq(Msg)]
  BY <1>1, <1>2, <1>4
<1>6. \A g \in groups : \A x : In(x, inbox'[g]) => x.type = g
  BY <1>3, <1>4
<1>7. \A g \in groups : inbox'[g] = << >> => run'[g] = FirstRun
  BY <1>3, <1>4
<1>8. \A x : (\E g \in groups : In(x, inbox'[g]))
            <=> (\E g \in groups : In(x, inbox[g])) \/ x = e
  BY <1>1, <1>3, <1>4
<1>9. ASSUME NEW g \in groups PROVE Undisturbed(g)
  <2>1. CASE inbox[g] = << >>
    BY <2>1 DEF Undisturbed, FirstRun
  <2>2. CASE inbox[g] # << >>
    BY <1>3, <1>4, <2>2 DEF Undisturbed
  <2> QED
    BY <2>1, <2>2
<1> QED
  BY <1>5, <1>6, <1>7, <1>8, <1>9

\* What the end of a message does: it leaves its queue and nothing else.
Unqueued(g, Msg, groups, pcs) ==
  /\ inbox' \in [groups -> Seq(Msg)]
  /\ \A h \in groups : \A x : In(x, inbox'[h]) => In(x, inbox[h])
  /\ \A h \in groups : \A x : In(x, inbox'[h]) => x.type = h
  /\ run' \in [groups -> [pc : pcs, retries : 0 .. MaxRetries]]
  /\ \A h \in groups : inbox'[h] = << >> => run'[h] = FirstRun
  /\ \A x : (\E h \in groups : In(x, inbox[h]))
           => (\E h \in groups : In(x, inbox'[h])) \/ x = Event(g)
  /\ Event(g) \in Msg /\ In(Event(g), inbox[g]) /\ Event(g).type = g
  /\ \A h \in groups : Undisturbed(h)

\* Acked does so.
LEMMA AckedBus ==
  ASSUME NEW Msg, NEW groups, NEW pcs,
         BusShape(inbox, run, deadLetter, faults, Msg, groups, pcs),
         NEW g \in groups, inbox[g] # << >>, Acked(g)
  PROVE  Unqueued(g, Msg, groups, pcs)
<1> USE DEF BusShape
<1>1. /\ inbox' = [inbox EXCEPT ![g] = Tail(inbox[g])]
      /\ run' = [run EXCEPT ![g] = FirstRun]
  BY DEF Acked
<1>2. inbox[g] \in Seq(Msg)
  OBVIOUS
<1>3. /\ Head(inbox[g]) \in Msg /\ In(Head(inbox[g]), inbox[g])
      /\ Tail(inbox[g]) \in Seq(Msg)
  BY <1>2, HeadIn
<1>4. /\ \A x : In(x, Tail(inbox[g])) => In(x, inbox[g])
      /\ \A x : In(x, inbox[g]) => x = Head(inbox[g]) \/ In(x, Tail(inbox[g]))
  BY <1>2, TailIn
<1>5. FirstRun \in [pc : pcs, retries : 0 .. MaxRetries]
  BY BusAssumption DEF FirstRun
<1>6. /\ inbox' \in [groups -> Seq(Msg)]
      /\ run' \in [groups -> [pc : pcs, retries : 0 .. MaxRetries]]
  BY <1>1, <1>3, <1>5
<1>7. /\ inbox'[g] = Tail(inbox[g]) /\ run'[g] = FirstRun
      /\ \A h \in groups \ {g} : inbox'[h] = inbox[h] /\ run'[h] = run[h]
  BY <1>1
<1>8. /\ \A h \in groups : \A x : In(x, inbox'[h]) => In(x, inbox[h])
      /\ \A h \in groups : \A x : In(x, inbox'[h]) => x.type = h
      /\ \A h \in groups : inbox'[h] = << >> => run'[h] = FirstRun
  BY <1>4, <1>7
<1>9. \A x : (\E h \in groups : In(x, inbox[h]))
            => (\E h \in groups : In(x, inbox'[h])) \/ x = Event(g)
  BY <1>4, <1>7 DEF Event
<1>10. ASSUME NEW h \in groups PROVE Undisturbed(h)
  <2>1. CASE h = g \/ inbox[h] = << >>
    BY <1>7, <2>1 DEF Undisturbed, FirstRun
  <2>2. CASE h # g /\ inbox[h] # << >>
    BY <1>7, <2>2 DEF Undisturbed
  <2> QED
    BY <2>1, <2>2
<1> QED
  BY <1>3, <1>6, <1>8, <1>9, <1>10 DEF Event, Unqueued

\* A statement of a handler moves its run and nothing else of the bus.
LEMMA GotoBus ==
  ASSUME NEW Msg, NEW groups, NEW pcs,
         BusShape(inbox, run, deadLetter, faults, Msg, groups, pcs),
         NEW g \in groups, inbox[g] # << >>, NEW pc \in pcs, Goto(g, pc)
  PROVE  /\ BusShape(inbox', run', deadLetter', faults', Msg, groups, pcs)
         /\ inbox' = inbox /\ deadLetter' = deadLetter
         /\ run'[g].pc = pc
         /\ \A h \in groups \ {g} : run'[h] = run[h]
<1> USE DEF BusShape
<1>1. /\ run' = [run EXCEPT ![g].pc = pc] /\ UNCHANGED <<inbox, deadLetter, faults>>
  BY DEF Goto
<1>2. run[g] \in [pc : pcs, retries : 0 .. MaxRetries]
  OBVIOUS
<1>3. /\ run' \in [groups -> [pc : pcs, retries : 0 .. MaxRetries]]
      /\ run'[g].pc = pc
      /\ \A h \in groups \ {g} : run'[h] = run[h]
  BY <1>1, <1>2
<1> QED
  BY <1>1, <1>3

\* An acked message is gone from its queue; the others stay.
LEMMA AckBus ==
  ASSUME NEW Msg, NEW groups, NEW pcs,
         BusShape(inbox, run, deadLetter, faults, Msg, groups, pcs),
         NEW g \in groups, Ack(g)
  PROVE  /\ BusShape(inbox', run', deadLetter', faults', Msg, groups, pcs)
         /\ \A x : Known(x, inbox', deadLetter', groups)
                     => Known(x, inbox, deadLetter, groups)
         /\ \A x : Known(x, inbox, deadLetter, groups)
                     => Known(x, inbox', deadLetter', groups) \/ x = Event(g)
         /\ Event(g) \in Msg /\ Event(g).type = g
         /\ \A h \in groups : Undisturbed(h)
<1>1. inbox[g] # << >> /\ Acked(g) /\ UNCHANGED <<deadLetter, faults>>
  BY DEF Ack, At
<1>2. Unqueued(g, Msg, groups, pcs)
  BY <1>1, AckedBus
<1>3. BusShape(inbox', run', deadLetter', faults', Msg, groups, pcs)
  BY <1>1, <1>2 DEF BusShape, Unqueued
<1>4. \A x : Known(x, inbox', deadLetter', groups)
            => Known(x, inbox, deadLetter, groups)
  BY <1>1, <1>2 DEF Known, Unqueued
<1>5. \A x : Known(x, inbox, deadLetter, groups)
            => Known(x, inbox', deadLetter', groups) \/ x = Event(g)
  BY <1>1, <1>2 DEF Known, Unqueued
<1> QED
  BY <1>2, <1>3, <1>4, <1>5 DEF Unqueued

\* An error runs the handler again or parks the message: no message is lost.
LEMMA RetryOrParkBus ==
  ASSUME NEW Msg, NEW groups, NEW pcs,
         BusShape(inbox, run, deadLetter, faults, Msg, groups, pcs),
         NEW g \in groups, inbox[g] # << >>, RetryOrPark(g),
         faults' \in 0 .. MaxFaults
  PROVE  /\ BusShape(inbox', run', deadLetter', faults', Msg, groups, pcs)
         /\ Conserved(groups)
         /\ \A h \in groups : Undisturbed(h)
         /\ run'[g].pc = "start"
<1>1. CASE run[g].retries < MaxRetries
  <2>1. /\ run' = [run EXCEPT ![g] = [pc |-> "start", retries |-> run[g].retries + 1]]
        /\ UNCHANGED <<inbox, deadLetter>>
    BY <1>1 DEF RetryOrPark
  <2>2. [pc |-> "start", retries |-> run[g].retries + 1]
          \in [pc : pcs, retries : 0 .. MaxRetries]
    BY <1>1, BusAssumption DEF BusShape
  <2>3. /\ run' \in [groups -> [pc : pcs, retries : 0 .. MaxRetries]]
        /\ run'[g].pc = "start"
        /\ \A h \in groups \ {g} : run'[h] = run[h]
    BY <2>1, <2>2 DEF BusShape, Unqueued
  <2>4. BusShape(inbox', run', deadLetter', faults', Msg, groups, pcs)
    BY <2>1, <2>3 DEF BusShape
  <2>5. ASSUME NEW h \in groups PROVE Undisturbed(h)
    <3>1. CASE h # g /\ inbox[h] = << >>
      BY <2>3, <3>1 DEF Undisturbed, BusShape, FirstRun
    <3>2. CASE h = g \/ inbox[h] # << >>
      BY <2>1, <2>3, <3>2 DEF Undisturbed
    <3> QED
      BY <3>1, <3>2
  <2> QED
    BY <2>1, <2>3, <2>4, <2>5 DEF Conserved
<1>2. CASE ~(run[g].retries < MaxRetries)
  <2>1. Acked(g) /\ deadLetter' = deadLetter \cup {Event(g)}
    BY <1>2 DEF RetryOrPark
  <2>2. Unqueued(g, Msg, groups, pcs)
    BY <2>1, AckedBus
  <2>3. BusShape(inbox', run', deadLetter', faults', Msg, groups, pcs)
    BY <2>1, <2>2 DEF BusShape, Unqueued
  <2>4. Conserved(groups)
    <3>1. ASSUME NEW x, Known(x, inbox', deadLetter', groups)
          PROVE  Known(x, inbox, deadLetter, groups)
      BY <2>1, <2>2, <3>1 DEF Known, Unqueued
    <3>2. ASSUME NEW x, Known(x, inbox, deadLetter, groups)
          PROVE  Known(x, inbox', deadLetter', groups)
      BY <2>1, <2>2, <3>2 DEF Known, Unqueued
    <3> QED
      BY <3>1, <3>2 DEF Conserved
  <2>5. run'[g].pc = "start"
    BY <2>1 DEF Acked, FirstRun, BusShape
  <2> QED
    BY <2>2, <2>3, <2>4, <2>5 DEF Unqueued
<1> QED
  BY <1>1, <1>2

\* A failed statement, a crash and a replay move messages and lose none.
LEMMA FaultBus ==
  ASSUME NEW Msg, NEW groups, NEW pcs,
         BusShape(inbox, run, deadLetter, faults, Msg, groups, pcs),
         NEW g \in groups, StatementFails(g) \/ Crash(g)
  PROVE  /\ BusShape(inbox', run', deadLetter', faults', Msg, groups, pcs)
         /\ Conserved(groups)
         /\ \A h \in groups : Undisturbed(h)
         /\ run'[g].pc = "start"
<1>1. faults' \in 0 .. MaxFaults /\ inbox[g] # << >>
  BY BusAssumption DEF BusShape, StatementFails, Crash
<1>2. CASE StatementFails(g)
  BY <1>1, <1>2, RetryOrParkBus DEF StatementFails
<1>3. CASE Crash(g)
  <2>1. run' = [run EXCEPT ![g] = FirstRun] /\ UNCHANGED <<inbox, deadLetter>>
    BY <1>3 DEF Crash
  <2>2. FirstRun \in [pc : pcs, retries : 0 .. MaxRetries] /\ FirstRun.pc = "start"
    BY BusAssumption DEF FirstRun, BusShape
  <2>3. /\ run' \in [groups -> [pc : pcs, retries : 0 .. MaxRetries]]
        /\ run'[g] = FirstRun
        /\ \A h \in groups \ {g} : run'[h] = run[h]
    BY <2>1, <2>2 DEF BusShape, Unqueued
  <2>4. BusShape(inbox', run', deadLetter', faults', Msg, groups, pcs)
    BY <1>1, <2>1, <2>3 DEF BusShape
  <2>5. ASSUME NEW h \in groups PROVE Undisturbed(h)
    <3>1. CASE inbox[h] = << >>
      BY <2>2, <2>3, <3>1 DEF Undisturbed, BusShape
    <3>2. CASE inbox[h] # << >>
      BY <2>1, <2>2, <2>3, <3>2 DEF Undisturbed
    <3> QED
      BY <3>1, <3>2
  <2> QED
    BY <2>1, <2>2, <2>3, <2>4, <2>5 DEF Conserved
<1> QED
  BY <1>2, <1>3

\* A replay puts a parked message back into its queue.
LEMMA RepublishBus ==
  ASSUME NEW Msg, NEW groups, NEW pcs,
         BusShape(inbox, run, deadLetter, faults, Msg, groups, pcs),
         Republish
  PROVE  /\ BusShape(inbox', run', deadLetter', faults', Msg, groups, pcs)
         /\ Conserved(groups)
         /\ \A h \in groups : Undisturbed(h)
<1>1. PICK e \in deadLetter : Publish(e) /\ deadLetter' = deadLetter \ {e}
  BY DEF Republish
<1>2. UNCHANGED <<run, faults>> /\ e \in Msg
  BY DEF Republish, BusShape
<1>3. /\ inbox' \in [groups -> Seq(Msg)]
      /\ \A g \in groups : \A x : In(x, inbox'[g]) => x.type = g
      /\ \A g \in groups : inbox'[g] = << >> => run'[g] = FirstRun
      /\ \A x : (\E g \in groups : In(x, inbox'[g]))
                <=> (\E g \in groups : In(x, inbox[g])) \/ x = e
      /\ \A g \in groups : Undisturbed(g)
  BY <1>1, <1>2, PublishBus
<1>4. BusShape(inbox', run', deadLetter', faults', Msg, groups, pcs)
  BY <1>1, <1>2, <1>3 DEF BusShape
<1>5. Conserved(groups)
  BY <1>1, <1>3 DEF Conserved, Known
<1> QED
  BY <1>3, <1>4, <1>5

\* A run goes on where it was.
Continues(g) ==
  /\ run'[g] = run[g]
  /\ inbox[g] # << >> => inbox'[g] # << >> /\ Head(inbox'[g]) = Head(inbox[g])

\* What one group does to its message stops no other group.
LEMMA OthersContinue ==
  ASSUME NEW Msg, NEW groups, NEW pcs,
         BusShape(inbox, run, deadLetter, faults, Msg, groups, pcs),
         NEW g \in groups, Acked(g) \/ RetryOrPark(g) \/ Crash(g)
  PROVE  \A h \in groups \ {g} : Continues(h)
<1>1. \A h \in groups \ {g} : inbox'[h] = inbox[h] /\ run'[h] = run[h]
  BY DEF Acked, RetryOrPark, Crash, BusShape
<1> QED
  BY <1>1 DEF Continues

\* Neither does a replay.
LEMMA ReplayContinues ==
  ASSUME NEW Msg, NEW groups, NEW pcs,
         BusShape(inbox, run, deadLetter, faults, Msg, groups, pcs), Republish
  PROVE  \A h \in groups : Continues(h)
<1>1. PICK e \in deadLetter : Publish(e)
  BY DEF Republish
<1>2. UNCHANGED run /\ e \in Msg /\ e.type \in groups
  BY DEF Republish, BusShape
<1>3. /\ inbox'[e.type] = Append(inbox[e.type], e)
      /\ \A h \in groups \ {e.type} : inbox'[h] = inbox[h]
      /\ inbox[e.type] \in Seq(Msg)
  BY <1>1, <1>2 DEF Publish, BusShape
<1>4. /\ Append(inbox[e.type], e) # << >>
      /\ inbox[e.type] # << >> =>
           Head(Append(inbox[e.type], e)) = Head(inbox[e.type])
  BY <1>2, <1>3, AppendIn
<1> QED
  BY <1>2, <1>3, <1>4 DEF Continues

\* The message at the head of a queue is a known message of its group.
LEMMA HeadBus ==
  ASSUME NEW Msg, NEW groups, NEW pcs,
         BusShape(inbox, run, deadLetter, faults, Msg, groups, pcs),
         NEW g \in groups, inbox[g] # << >>
  PROVE  /\ Event(g) \in Msg /\ Event(g).type = g
         /\ Known(Event(g), inbox, deadLetter, groups)
<1>1. Head(inbox[g]) \in Msg /\ In(Head(inbox[g]), inbox[g])
  BY HeadIn DEF BusShape
<1> QED
  BY <1>1 DEF BusShape, Event, Known
==============================================================================

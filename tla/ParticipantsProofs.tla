-------------------------- MODULE ParticipantsProofs --------------------------
(***************************************************************************)
(* Proofs about Participants, for every set of ids, addresses and names    *)
(* and any number of retries and faults.                                   *)
(***************************************************************************)
EXTENDS Participants, BusProofs

-----------------------------------------------------------------------------
(* The inductive invariant.                                                *)

Msg == [type : {"ParticipantRegistered"}, id : Ids, name : Names]
         \cup [type : {"ParticipantVerified"}, id : Ids]

Pcs == {"start", "ack"}

Participant == [email : Emails \cup {""}, name : Names \cup {""},
                status : {"absent", "registered", "verified"}]

Profile == [present : BOOLEAN, name : Names \cup {""}, verified : BOOLEAN]

Tables ==
  /\ participants \in [Ids -> Participant]
  /\ profiles \in [Ids -> Profile]

Shape == BusShape(inbox, run, deadLetter, faults, Msg, Groups, Pcs)

Pending(x) == Known(x, inbox, deadLetter, Groups)

\* A message says what the table says, however late it is handled.
HonestMessages ==
  \A x \in Msg : Pending(x) =>
    /\ participants[x.id].status # "absent"
    /\ x.type = "ParticipantRegistered" => x.name = participants[x.id].name
    /\ x.type = "ParticipantVerified" => participants[x.id].status = "verified"

\* A profile holds nothing that its participant does not, and a stub has no
\* name yet.
HonestProfiles ==
  \A id \in Ids :
    /\ participants[id].status = "absent" =>
         participants[id].name = "" /\ ~profiles[id].present
    /\ profiles[id].name \in {"", participants[id].name}
    /\ ~profiles[id].present => profiles[id].name = ""
    /\ profiles[id].verified => participants[id].status = "verified"

\* The handler of a message has written its part of the profile.
Applied(e) ==
  /\ profiles[e.id].present
  /\ e.type = "ParticipantRegistered" =>
       profiles[e.id].name = participants[e.id].name
  /\ e.type = "ParticipantVerified" => profiles[e.id].verified

\* A message about to be acked is applied.
AckedAreApplied ==
  \A g \in Groups : inbox[g] # << >> /\ run[g].pc = "ack" => Applied(Head(inbox[g]))

\* What is not yet in the profile is on its way.
NothingMissing ==
  \A id \in Ids :
    /\ participants[id].status # "absent" =>
         \/ \E x \in Msg : Pending(x) /\ x.type = "ParticipantRegistered" /\ x.id = id
         \/ profiles[id].present /\ profiles[id].name = participants[id].name
    /\ participants[id].status = "verified" =>
         \/ \E x \in Msg : Pending(x) /\ x.type = "ParticipantVerified" /\ x.id = id
         \/ profiles[id].present /\ profiles[id].verified

IInv ==
  /\ Shape /\ Tables /\ HonestMessages /\ HonestProfiles
  /\ AckedAreApplied /\ NothingMissing

-----------------------------------------------------------------------------
(* Steps.                                                                  *)

ShapeAfter == BusShape(inbox', run', deadLetter', faults', Msg, Groups, Pcs)

KnownAfter(x) == Known(x, inbox', deadLetter', Groups)

\* The message at the head of a queue is a known message of its group.
LEMMA HeadPending ==
  ASSUME Shape, NEW g \in Groups, inbox[g] # << >>
  PROVE  Event(g) \in Msg /\ Event(g).type = g /\ Pending(Event(g))
<1>1. inbox[g] \in Seq(Msg)
  BY DEF Shape, BusShape
<1>2. Head(inbox[g]) \in Msg /\ In(Head(inbox[g]), inbox[g])
  BY <1>1, HeadIn
<1> QED
  BY <1>2 DEF Shape, BusShape, Event, Pending, Known

\* Where a run restarts or goes on with an unchanged profile, what it acks is
\* applied as before.
LEMMA StillApplied ==
  ASSUME IInv, UNCHANGED <<participants, profiles>>,
         \A g \in Groups : Undisturbed(g)
  PROVE  AckedAreApplied'
<1> SUFFICES ASSUME NEW g \in Groups, inbox'[g] # << >>, run'[g].pc = "ack"
             PROVE  Applied(Head(inbox[g]))'
  BY DEF AckedAreApplied
<1>1. /\ run[g].pc = "ack" /\ inbox[g] # << >>
      /\ Head(inbox'[g]) = Head(inbox[g])
  BY DEF Undisturbed
<1>2. Applied(Head(inbox[g]))
  BY <1>1 DEF IInv, AckedAreApplied
<1> QED
  BY <1>1, <1>2 DEF Applied

\* Failures and replays move messages between queues and the dead letter.
LEMMA BusMoves ==
  ASSUME IInv, UNCHANGED <<participants, profiles>>, ShapeAfter,
         Conserved(Groups), \A g \in Groups : Undisturbed(g)
  PROVE  IInv'
<1>1. \A x : KnownAfter(x) <=> Pending(x)
  BY DEF Conserved, KnownAfter, Pending
<1>2. HonestMessages'
  BY <1>1 DEF IInv, HonestMessages, Pending, KnownAfter
<1>3. NothingMissing'
  BY <1>1 DEF IInv, NothingMissing, Pending, KnownAfter
<1>4. HonestProfiles' /\ Tables' /\ Shape'
  BY DEF IInv, HonestProfiles, Tables, Shape, ShapeAfter
<1> QED
  BY <1>2, <1>3, <1>4, StillApplied DEF IInv

\* An acked message has left its mark.
LEMMA AckStep ==
  ASSUME IInv, NEW g \in Groups, Ack(g), UNCHANGED <<participants, profiles>>
  PROVE  IInv'
<1>1. Shape
  BY DEF IInv
<1>2. /\ ShapeAfter
      /\ \A x : KnownAfter(x) => Pending(x)
      /\ \A x : Pending(x) => KnownAfter(x) \/ x = Event(g)
      /\ \A h \in Groups : Undisturbed(h)
  BY <1>1, AckBus DEF Shape, ShapeAfter, KnownAfter, Pending
<1>3. Applied(Event(g)) /\ Event(g).type = g /\ Event(g) \in Msg
  BY <1>1, HeadPending DEF IInv, AckedAreApplied, Ack, At, Event
<1>4. HonestMessages'
  BY <1>2 DEF IInv, HonestMessages, Pending, KnownAfter
<1>5. NothingMissing'
  <2> SUFFICES ASSUME NEW id \in Ids
               PROVE /\ participants[id].status # "absent" =>
                          \/ \E x \in Msg : /\ KnownAfter(x) /\ x.id = id
                                            /\ x.type = "ParticipantRegistered"
                          \/ /\ profiles[id].present
                             /\ profiles[id].name = participants[id].name
                     /\ participants[id].status = "verified" =>
                          \/ \E x \in Msg : /\ KnownAfter(x) /\ x.id = id
                                            /\ x.type = "ParticipantVerified"
                          \/ profiles[id].present /\ profiles[id].verified
    BY DEF NothingMissing, KnownAfter, Pending
  <2>1. CASE Event(g).id # id
    BY <1>2, <2>1 DEF IInv, NothingMissing
  <2>2. CASE Event(g).id = id
    BY <1>2, <1>3, <2>2 DEF IInv, NothingMissing, Applied
  <2> QED
    BY <2>1, <2>2
<1>6. HonestProfiles' /\ Tables' /\ Shape'
  BY <1>2 DEF IInv, HonestProfiles, Tables, Shape, ShapeAfter
<1> QED
  BY <1>2, <1>4, <1>5, <1>6, StillApplied DEF IInv

\* A command: the row appears or becomes verified, and its event goes out.
LEMMA CommitStep ==
  ASSUME IInv, NEW id \in Ids, NEW p \in Participant, NEW e \in Msg,
         Commit(id, p, e), e.id = id,
         \/ /\ participants[id].status = "absent" /\ p.status = "registered"
            /\ e.type = "ParticipantRegistered" /\ e.name = p.name
         \/ /\ participants[id].status = "registered" /\ p.status = "verified"
            /\ e.type = "ParticipantVerified" /\ p.name = participants[id].name
  PROVE  IInv'
<1>1. /\ participants' = [participants EXCEPT ![id] = p] /\ Publish(e)
      /\ UNCHANGED <<profiles, run, deadLetter, faults>>
  BY DEF Commit
<1>2. /\ participants' \in [Ids -> Participant] /\ participants'[id] = p
      /\ \A i \in Ids \ {id} : participants'[i] = participants[i]
  BY <1>1 DEF IInv, Tables
<1>3. Shape
  BY DEF IInv
<1>4. /\ inbox' \in [Groups -> Seq(Msg)]
      /\ \A g \in Groups : \A x : In(x, inbox'[g]) => x.type = g
      /\ \A g \in Groups : inbox'[g] = << >> => run'[g] = FirstRun
      /\ \A x : (\E g \in Groups : In(x, inbox'[g]))
                <=> (\E g \in Groups : In(x, inbox[g])) \/ x = e
      /\ \A g \in Groups : Undisturbed(g)
  BY <1>1, <1>3, PublishBus DEF Shape
<1>5. ShapeAfter
  BY <1>1, <1>3, <1>4 DEF Shape, ShapeAfter, BusShape
<1>6. \A x : KnownAfter(x) <=> Pending(x) \/ x = e
  BY <1>1, <1>4 DEF KnownAfter, Pending, Known
<1>7. ASSUME NEW x \in Msg, Pending(x)
      PROVE  /\ participants[x.id].status # "absent"
             /\ participants'[x.id].status # "absent"
             /\ participants'[x.id].name = participants[x.id].name
             /\ participants[x.id].status = "verified" =>
                  participants'[x.id].status = "verified"
  <2>1. participants[x.id].status # "absent" /\ x.id \in Ids
    BY <1>7 DEF IInv, HonestMessages, Msg
  <2> QED
    BY <1>2, <2>1
<1>8. HonestMessages'
  <2> SUFFICES ASSUME NEW x \in Msg, KnownAfter(x)
               PROVE  /\ participants'[x.id].status # "absent"
                      /\ x.type = "ParticipantRegistered" => x.name = participants'[x.id].name
                      /\ x.type = "ParticipantVerified" =>
                           participants'[x.id].status = "verified"
    BY DEF HonestMessages, KnownAfter, Pending
  <2>1. CASE Pending(x)
    BY <1>7, <2>1 DEF IInv, HonestMessages
  <2>2. CASE x = e
    BY <1>2, <2>2
  <2> QED
    BY <1>6, <2>1, <2>2
<1>9. AckedAreApplied'
  <2> SUFFICES ASSUME NEW g \in Groups, inbox'[g] # << >>, run'[g].pc = "ack"
               PROVE  Applied(Head(inbox[g]))'
    BY DEF AckedAreApplied
  <2>1. /\ run[g].pc = "ack" /\ inbox[g] # << >> /\ Head(inbox'[g]) = Head(inbox[g])
    BY <1>4 DEF Undisturbed
  <2>2. Applied(Event(g)) /\ Event(g) \in Msg /\ Pending(Event(g))
    BY <1>3, <2>1, HeadPending DEF IInv, AckedAreApplied, Event
  <2>3. participants'[Event(g).id].name = participants[Event(g).id].name
    BY <1>7, <2>2
  <2> QED
    BY <1>1, <2>1, <2>2, <2>3 DEF Applied, Event
<1>10. NothingMissing'
  <2> SUFFICES ASSUME NEW i \in Ids
               PROVE /\ participants'[i].status # "absent" =>
                          \/ \E x \in Msg : /\ KnownAfter(x) /\ x.id = i
                                            /\ x.type = "ParticipantRegistered"
                          \/ /\ profiles[i].present
                             /\ profiles[i].name = participants'[i].name
                     /\ participants'[i].status = "verified" =>
                          \/ \E x \in Msg : /\ KnownAfter(x) /\ x.id = i
                                            /\ x.type = "ParticipantVerified"
                          \/ profiles[i].present /\ profiles[i].verified
    BY <1>1 DEF NothingMissing, KnownAfter, Pending
  <2>1. CASE i # id
    BY <1>2, <1>6, <2>1 DEF IInv, NothingMissing
  <2>2. CASE i = id /\ p.status = "registered"
    BY <1>2, <1>6, <2>2
  <2>3. CASE i = id /\ p.status = "verified"
    <3>1. participants[i].status = "registered" /\ participants'[i].name = participants[i].name
      BY <1>2, <2>3
    <3>2. \/ \E x \in Msg : Pending(x) /\ x.type = "ParticipantRegistered" /\ x.id = i
          \/ profiles[i].present /\ profiles[i].name = participants[i].name
      BY <3>1 DEF IInv, NothingMissing
    <3>3. KnownAfter(e) /\ e.id = i /\ e.type = "ParticipantVerified"
      BY <1>6, <2>3, <3>1
    <3> QED
      BY <1>6, <3>1, <3>2, <3>3
  <2> QED
    BY <2>1, <2>2, <2>3
<1>11. HonestProfiles'
  <2> SUFFICES ASSUME NEW i \in Ids
               PROVE  /\ participants'[i].status = "absent" =>
                           participants'[i].name = "" /\ ~profiles[i].present
                      /\ profiles[i].name \in {"", participants'[i].name}
                      /\ ~profiles[i].present => profiles[i].name = ""
                      /\ profiles[i].verified => participants'[i].status = "verified"
    BY <1>1 DEF HonestProfiles
  <2>1. /\ participants[i].status = "absent" =>
             participants[i].name = "" /\ ~profiles[i].present
        /\ profiles[i].name \in {"", participants[i].name}
        /\ ~profiles[i].present => profiles[i].name = ""
        /\ profiles[i].verified => participants[i].status = "verified"
    BY DEF IInv, HonestProfiles
  <2>2. CASE i # id
    BY <1>2, <2>1, <2>2
  <2>3. CASE i = id
    BY <1>2, <2>1, <2>3
  <2> QED
    BY <2>2, <2>3
<1>12. Tables' /\ Shape'
  BY <1>1, <1>2, <1>5 DEF IInv, Tables, Shape, ShapeAfter
<1> QED
  BY <1>8, <1>9, <1>10, <1>11, <1>12 DEF IInv

\* A handler's statement: the profile gains what the message says.
LEMMA ProjectStep ==
  ASSUME IInv, NEW g \in Groups, inbox[g] # << >>, NEW p,
         p = IF g = "ParticipantRegistered"
               THEN RegisteredProfile(profiles[Event(g).id], Event(g).name)
               ELSE VerifiedProfile(profiles[Event(g).id]),
         profiles' = [profiles EXCEPT ![Event(g).id] = p],
         Goto(g, "ack"), UNCHANGED participants
  PROVE  IInv'
<1> DEFINE e == Event(g)
           id == e.id
<1>1. e \in Msg /\ e.type = g /\ Pending(e)
  BY HeadPending DEF IInv
<1>2. id \in Ids /\ (g = "ParticipantRegistered" => e.name \in Names)
  BY <1>1 DEF Msg
<1>3. /\ participants[id].status # "absent"
      /\ g = "ParticipantRegistered" => e.name = participants[id].name
      /\ g = "ParticipantVerified" => participants[id].status = "verified"
  BY <1>1 DEF IInv, HonestMessages
<1>4. /\ ShapeAfter /\ inbox' = inbox /\ deadLetter' = deadLetter
      /\ run'[g].pc = "ack"
      /\ \A h \in Groups \ {g} : run'[h] = run[h]
  <2>1. "ack" \in Pcs
    BY DEF Pcs
  <2> QED
    BY <2>1, GotoBus DEF IInv, Shape, ShapeAfter
<1>5. g \in {"ParticipantRegistered", "ParticipantVerified"}
  BY DEF Groups
<1>6. profiles[id] \in Profile
  BY <1>2 DEF IInv, Tables
<1>7. /\ p \in Profile /\ p.present
      /\ p.name = IF g = "ParticipantRegistered" THEN e.name ELSE profiles[id].name
      /\ p.verified = IF g = "ParticipantVerified" THEN TRUE ELSE profiles[id].verified
  BY <1>2, <1>5, <1>6 DEF Profile, RegisteredProfile, VerifiedProfile
<1>8. /\ profiles' \in [Ids -> Profile] /\ profiles'[id] = p
      /\ \A i \in Ids \ {id} : profiles'[i] = profiles[i]
  BY <1>2, <1>7 DEF IInv, Tables
<1> HIDE DEF id, e
<1>9. HonestMessages'
  BY <1>4 DEF IInv, HonestMessages, Pending
<1>10. HonestProfiles'
  BY <1>2, <1>3, <1>5, <1>7, <1>8 DEF IInv, HonestProfiles
<1>11. \A x \in Msg : Applied(x) =>
         /\ profiles'[x.id].present
         /\ x.type = "ParticipantRegistered" => profiles'[x.id].name = participants[x.id].name
         /\ x.type = "ParticipantVerified" => profiles'[x.id].verified
  <2> SUFFICES ASSUME NEW x \in Msg, Applied(x)
               PROVE  /\ profiles'[x.id].present
                      /\ x.type = "ParticipantRegistered" =>
                           profiles'[x.id].name = participants[x.id].name
                      /\ x.type = "ParticipantVerified" => profiles'[x.id].verified
    OBVIOUS
  <2>1. x.id \in Ids
    BY DEF Msg
  <2> QED
    BY <1>3, <1>7, <1>8, <2>1 DEF Applied
<1>12. AckedAreApplied'
  <2> SUFFICES ASSUME NEW h \in Groups, inbox[h] # << >>, run'[h].pc = "ack"
               PROVE  Applied(Head(inbox[h]))'
    BY <1>4 DEF AckedAreApplied
  <2>1. CASE h = g
    <3>1. Head(inbox[h]) = e
      BY <2>1 DEF e, Event
    <3>2. /\ profiles'[id].present
          /\ g = "ParticipantRegistered" => profiles'[id].name = participants[id].name
          /\ g = "ParticipantVerified" => profiles'[id].verified
      BY <1>3, <1>5, <1>7, <1>8
    <3> QED
      BY <1>1, <1>4, <3>1, <3>2 DEF Applied, id
  <2>2. CASE h # g
    <3>1. Applied(Event(h)) /\ Event(h) \in Msg
      BY <1>4, <2>2, HeadPending DEF IInv, AckedAreApplied, Event
    <3> QED
      BY <1>4, <1>11, <3>1 DEF Applied, Event
  <2> QED
    BY <2>1, <2>2
<1>13. NothingMissing'
  <2>1. \A x : Known(x, inbox', deadLetter', Groups) <=> Pending(x)
    BY <1>4 DEF Pending
  <2>2. \A i \in Ids :
          /\ profiles[i].present => profiles'[i].present
          /\ profiles[i].present /\ profiles[i].name = participants[i].name =>
               profiles'[i].name = participants[i].name
          /\ profiles[i].verified => profiles'[i].verified
    BY <1>3, <1>7, <1>8
  <2> QED
    BY <2>1, <2>2 DEF IInv, NothingMissing, Pending
<1>14. Tables' /\ Shape'
  BY <1>4, <1>8 DEF IInv, Tables, Shape, ShapeAfter
<1> QED
  BY <1>9, <1>10, <1>12, <1>13, <1>14 DEF IInv

\* Every step keeps the invariant.
LEMMA InvStep == IInv /\ [Next]_vars => IInv'
<1> SUFFICES ASSUME IInv, [Next]_vars PROVE IInv'
  OBVIOUS
<1>0. Shape
  BY DEF IInv
<1>1. ASSUME NEW id \in Ids, NEW email \in Emails, NEW name \in Names,
             RegisterParticipant(id, email, name)
      PROVE  IInv'
  <2> DEFINE p == Registered(email, name)
             e == [type |-> "ParticipantRegistered", id |-> id, name |-> name]
  <2>1. p \in Participant /\ p.status = "registered" /\ p.name = name
    BY DEF Registered, Participant
  <2>2. e \in Msg /\ e.id = id /\ e.type = "ParticipantRegistered" /\ e.name = name
    BY DEF Msg
  <2>3. Commit(id, p, e) /\ participants[id].status = "absent"
    BY <1>1 DEF RegisterParticipant, CanAdd
  <2> HIDE DEF p, e
  <2> QED
    BY <2>1, <2>2, <2>3, CommitStep
<1>2. ASSUME NEW id \in Ids, VerifyParticipant(id)
      PROVE  IInv'
  <2> DEFINE p == Verified(participants[id])
             e == [type |-> "ParticipantVerified", id |-> id]
  <2>1. participants[id] \in Participant
    BY DEF IInv, Tables
  <2>2. /\ p \in Participant /\ p.status = "verified"
        /\ p.name = participants[id].name
    BY <2>1 DEF Verified, Participant
  <2>3. e \in Msg /\ e.id = id /\ e.type = "ParticipantVerified"
    BY DEF Msg
  <2>4. Commit(id, p, e) /\ participants[id].status = "registered"
    BY <1>2 DEF VerifyParticipant, CanVerify
  <2> HIDE DEF p, e
  <2> QED
    BY <2>2, <2>3, <2>4, CommitStep
<1>3. ASSUME NEW g \in Groups, HandlerStep(g) PROVE IInv'
  <2>1. CASE g = "ParticipantRegistered" /\ OnParticipantRegistered
    <3>1. /\ inbox[g] # << >> /\ Goto(g, "ack") /\ UNCHANGED participants
          /\ profiles' = [profiles EXCEPT
               ![Event(g).id] = RegisteredProfile(profiles[Event(g).id], Event(g).name)]
      BY <1>3, <2>1 DEF OnParticipantRegistered, At, HandlerStep, IInv, Tables
    <3> QED
      BY <2>1, <3>1, ProjectStep
  <2>2. CASE g = "ParticipantVerified" /\ OnParticipantVerified
    <3>1. /\ inbox[g] # << >> /\ Goto(g, "ack") /\ UNCHANGED participants
          /\ profiles' = [profiles EXCEPT
               ![Event(g).id] = VerifiedProfile(profiles[Event(g).id])]
      BY <1>3, <2>2 DEF OnParticipantVerified, At, HandlerStep
    <3> QED
      BY <2>2, <3>1, ProjectStep
  <2>3. CASE Ack(g) /\ UNCHANGED profiles
    BY <1>3, <2>3, AckStep DEF HandlerStep
  <2> QED
    BY <1>3, <2>1, <2>2, <2>3 DEF HandlerStep
<1>4. CASE BusStep
  <2>1. /\ ShapeAfter /\ Conserved(Groups) /\ \A h \in Groups : Undisturbed(h)
    BY <1>0, <1>4, FaultBus, RepublishBus DEF BusStep, Shape, ShapeAfter
  <2> QED
    BY <1>4, <2>1, BusMoves DEF BusStep
<1>5. CASE UNCHANGED vars
  <2>1. UNCHANGED <<participants, profiles, inbox, run, deadLetter, faults>>
    BY <1>5 DEF vars, bus
  <2>2. ShapeAfter
    BY <1>0, <2>1 DEF Shape, ShapeAfter
  <2>3. Conserved(Groups)
    BY <2>1 DEF Conserved
  <2>4. ASSUME NEW g \in Groups PROVE Undisturbed(g)
    <3>1. CASE inbox[g] = << >>
      BY <1>0, <2>1, <3>1 DEF Undisturbed, Shape, BusShape, FirstRun
    <3>2. CASE inbox[g] # << >>
      BY <2>1, <3>2 DEF Undisturbed
    <3> QED
      BY <3>1, <3>2
  <2> QED
    BY <2>1, <2>2, <2>3, <2>4, BusMoves
<1> QED
  BY <1>1, <1>2, <1>3, <1>4, <1>5 DEF Next, Command

\* At the start both tables and all queues are empty.
LEMMA InvInit == Init => IInv
<1> SUFFICES ASSUME Init PROVE IInv
  OBVIOUS
<1>1. /\ participants = [id \in Ids |-> NoParticipant]
      /\ profiles = [id \in Ids |-> NoProfile]
      /\ inbox = [g \in Groups |-> << >>] /\ run = [g \in Groups |-> FirstRun]
      /\ deadLetter = {} /\ faults = 0
  BY DEF Init, BusInit
<1>2. /\ NoParticipant \in Participant /\ NoProfile \in Profile
      /\ FirstRun \in [pc : Pcs, retries : 0 .. MaxRetries]
  BY BusAssumption DEF NoParticipant, Participant, NoProfile, Profile, FirstRun, Pcs
<1>3. \A x : \A g \in Groups : ~In(x, inbox[g])
  BY <1>1 DEF In
<1>4. \A x : ~Pending(x)
  BY <1>1, <1>3 DEF Pending, Known
<1>5. Tables
  BY <1>1, <1>2 DEF Tables
<1>6. Shape
  <2>1. \A e \in Msg : e.type \in Groups
    BY DEF Msg, Groups
  <2>2. inbox \in [Groups -> Seq(Msg)] /\ run \in [Groups -> [pc : Pcs, retries : 0 .. MaxRetries]]
    BY <1>1, <1>2
  <2> QED
    BY <1>1, <1>3, <2>1, <2>2, BusAssumption DEF Shape, BusShape, Pcs
<1>7. HonestMessages
  BY <1>4 DEF HonestMessages
<1>8. HonestProfiles /\ NothingMissing
  BY <1>1 DEF HonestProfiles, NothingMissing, NoParticipant, NoProfile
<1>9. AckedAreApplied
  BY <1>1 DEF AckedAreApplied
<1> QED
  BY <1>5, <1>6, <1>7, <1>8, <1>9 DEF IInv

\* The inductive invariant holds in every reachable state.
LEMMA Invariance == Spec => []IInv
  BY InvInit, InvStep, PTL DEF Spec

-----------------------------------------------------------------------------
(* The results.                                                            *)

\* Type correctness of the two tables, the queues and the runs.
THEOREM TypeCorrect == Spec => []TypeOK
<1>1. IInv => TypeOK
  BY ShapeMeans DEF IInv, Tables, Shape, TypeOK, Participant, Profile, Pcs
<1> QED
  BY <1>1, Invariance, PTL

\* However often, late and out of order registrations and verifications are
\* handled, a bidder counts as verified only after VerifyParticipant.
THEOREM HonestyCorrect == Spec => []ProfilesHonest
<1>1. IInv => ProfilesHonest
  BY DEF IInv, HonestProfiles, ProfilesHonest
<1> QED
  BY <1>1, Invariance, PTL

\* The two upserts converge: once every message is handled, in whatever order
\* and however often, profiles and participants agree.
THEOREM ConvergenceCorrect == Spec => []ProfilesConverge
<1>1. IInv => ProfilesConverge
  <2> SUFFICES ASSUME IInv, Quiet
               PROVE  \A id \in Ids :
                        /\ profiles[id].present <=> participants[id].status # "absent"
                        /\ profiles[id].name = participants[id].name
                        /\ profiles[id].verified <=> participants[id].status = "verified"
    BY DEF ProfilesConverge
  <2>1. \A g \in Groups : inbox[g] = << >>
    BY DEF Quiet, IInv, Shape, BusShape
  <2>2. \A x : ~Pending(x)
    BY <2>1 DEF Quiet, Pending, Known, In
  <2>3. \A id \in Ids : /\ profiles[id] \in Profile /\ participants[id] \in Participant
    BY DEF IInv, Tables
  <2> QED
    BY <2>2, <2>3 DEF IInv, NothingMissing, HonestProfiles, Profile, Participant
<1> QED
  BY <1>1, Invariance, PTL
===============================================================================

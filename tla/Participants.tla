---------------------------- MODULE Participants ----------------------------
(***************************************************************************)
(* The participant context (internal/participant) and the table it feeds   *)
(* in the auction context, auction.bidder_profiles                         *)
(* (auction/adapters/bidder_profiles_pg.go): registration under unique ids *)
(* and e-mails, verification exactly once, and the two consumer groups     *)
(* that project them in whatever order they get to run.                    *)
(***************************************************************************)
EXTENDS Bus

CONSTANTS
  Ids,     \* client-generated participant ids
  Emails,
  Names    \* display names, trimmed and not empty

ASSUME ParticipantsAssumption == "" \notin Emails \cup Names

VARIABLES
  participants,  \* the table participant.participants
  profiles       \* the table auction.bidder_profiles

vars == <<participants, profiles, bus>>

Groups == {"ParticipantRegistered", "ParticipantVerified"}

NoParticipant == [email |-> "", name |-> "", status |-> "absent"]

\* present is FALSE when there is no row.
NoProfile == [present |-> FALSE, name |-> "", verified |-> FALSE]

Init ==
  /\ participants = [id \in Ids |-> NoParticipant]
  /\ profiles = [id \in Ids |-> NoProfile]
  /\ BusInit([g \in Groups |-> <<>>])

-----------------------------------------------------------------------------
(* Commands; each commits the row and its event in one transaction.        *)

\* Both unique constraints of the INSERT; a violation is ErrEmailTaken.
CanAdd(id, email) ==
  /\ participants[id].status = "absent"
  /\ \A other \in Ids : participants[other].email # email

\* The aggregate that Register creates.
Registered(email, name) ==
  [email |-> email, name |-> name, status |-> "registered"]

\* Verify: ErrAlreadyVerified the second time.
CanVerify(p) == p.status = "registered"

Verified(p) == [p EXCEPT !.status = "verified"]

\* The row and its integration event are one transaction.
Commit(id, p, e) ==
  /\ participants' = [participants EXCEPT ![id] = p]
  /\ Publish(e)
  /\ UNCHANGED <<profiles, run, deadLetter, faults>>

RegisterParticipant(id, email, name) ==
  /\ CanAdd(id, email)
  /\ Commit(id, Registered(email, name),
            [type |-> "ParticipantRegistered", id |-> id, name |-> name])

VerifyParticipant(id) ==
  /\ CanVerify(participants[id])
  /\ Commit(id, Verified(participants[id]),
            [type |-> "ParticipantVerified", id |-> id])

-----------------------------------------------------------------------------
(* The projection.                                                         *)

\* Mutation: the upsert writes all of its columns.
RegisteredProfileReset(p, name) ==
  [present |-> TRUE, name |-> name, verified |-> FALSE]

\* Mutation: registration verifies.
RegisteredProfileVerified(p, name) ==
  [present |-> TRUE, name |-> name, verified |-> TRUE]

\* UpsertRegistered: a conflict keeps verified.
RegisteredProfile(p, name) == [p EXCEPT !.present = TRUE, !.name = name]

\* Mutation: a profile that is not there yet is not verified.
VerifiedProfileUpdate(p) == IF p.present THEN [p EXCEPT !.verified = TRUE] ELSE p

\* MarkVerified: without a row, a stub with an empty name.
VerifiedProfile(p) == [p EXCEPT !.present = TRUE, !.verified = TRUE]

OnParticipantRegistered ==
  LET e == Event("ParticipantRegistered")
  IN  /\ At("ParticipantRegistered", "start")
      /\ profiles' = [profiles EXCEPT ![e.id] = RegisteredProfile(@, e.name)]
      /\ Goto("ParticipantRegistered", "ack")

OnParticipantVerified ==
  /\ At("ParticipantVerified", "start")
  /\ profiles' = [profiles EXCEPT
                    ![Event("ParticipantVerified").id] = VerifiedProfile(@)]
  /\ Goto("ParticipantVerified", "ack")

-----------------------------------------------------------------------------

Command ==
  \E id \in Ids :
    \/ VerifyParticipant(id)
    \/ \E email \in Emails, name \in Names : RegisterParticipant(id, email, name)

HandlerStep(g) ==
  /\ \/ g = "ParticipantRegistered" /\ OnParticipantRegistered
     \/ g = "ParticipantVerified" /\ OnParticipantVerified
     \/ Ack(g) /\ UNCHANGED profiles
  /\ UNCHANGED participants

BusStep ==
  /\ (\E g \in Groups : StatementFails(g) \/ Crash(g)) \/ Republish
  /\ UNCHANGED <<participants, profiles>>

Next == Command \/ (\E g \in Groups : HandlerStep(g)) \/ BusStep

Spec == Init /\ [][Next]_vars

\* Fairness: the router keeps running the handler of every group that has a
\* message; commands, faults and the operator are free.
LiveSpec == Spec /\ \A g \in Groups : WF_vars(HandlerStep(g))

-----------------------------------------------------------------------------
(* Properties.                                                             *)

\* Tables and messages stay of their types; a run of a group stays within
\* its retries.
TypeOK ==
  /\ participants \in [Ids -> [email : Emails \cup {""}, name : Names \cup {""},
                               status : {"absent", "registered", "verified"}]]
  /\ profiles \in [Ids -> [present : BOOLEAN, name : Names \cup {""},
                           verified : BOOLEAN]]
  /\ BusOK(Groups, {"start", "ack"})

\* A bidder counts as verified only after VerifyParticipant committed, and
\* keeps it through redeliveries and replays of the registration.
ProfilesHonest ==
  \A id \in Ids : profiles[id].verified => participants[id].status = "verified"

\* BidderProfilesPostgres: "Registered and Verified may apply in any order -
\* both writes are order-insensitive upserts that converge".  Once all
\* messages are handled, profiles and participants agree.
ProfilesConverge ==
  Quiet => \A id \in Ids :
    /\ profiles[id].present <=> participants[id].status # "absent"
    /\ profiles[id].name = participants[id].name
    /\ profiles[id].verified <=> participants[id].status = "verified"

\* A verified participant gets to bid above the threshold, unless a message
\* is parked.
VerifiedMayBid ==
  \A id \in Ids : participants[id].status = "verified" ~>
                    profiles[id].verified \/ deadLetter # {}
=============================================================================

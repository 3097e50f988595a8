--------------------------- MODULE MCParticipants ---------------------------
(* Instances of Participants for TLC.                                      *)
EXTENDS Participants
=============================================================================

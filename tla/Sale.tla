--------------------------------- MODULE Sale ---------------------------------
(***************************************************************************)
(* What settlement promises after the hammer, whatever crashes, races and  *)
(* redeliveries happen underneath (docs/ARCHITECTURE.md 6): the buyer pays *)
(* at most once and then owns the lot; a buyer who does not pay is         *)
(* replaced once by a qualifying runner-up; only then, and only unpaid,    *)
(* does the sale fail, and a failed original is relisted at most once.     *)
(***************************************************************************)
CONSTANTS Users, NoUser

VARIABLES
  buyer,       \* who may buy the lot now
  second,      \* the qualifying runner-up still in reserve, or NoUser
  paidBy,      \* who paid, or NoUser
  verdict,     \* "unsold" at the hammer, or "open", then "settled" or "failed"
  relistable,  \* the auction is not itself a replacement
  relisted     \* a replacement auction exists

vars == <<buyer, second, paidBy, verdict, relistable, relisted>>

Init ==
  /\ buyer \in Users \cup {NoUser}
  /\ second \in Users \cup {NoUser}
  /\ paidBy = NoUser
  /\ verdict \in {"unsold", "open"}
  /\ verdict = "open" => buyer # NoUser /\ second # buyer
  /\ relistable \in BOOLEAN
  /\ relisted = FALSE

Collect ==
  /\ verdict = "open" /\ paidBy = NoUser
  /\ paidBy' = buyer
  /\ UNCHANGED <<buyer, second, verdict, relistable, relisted>>

PassOn ==
  /\ verdict = "open" /\ paidBy = NoUser /\ second # NoUser
  /\ buyer' = second
  /\ second' = NoUser
  /\ UNCHANGED <<paidBy, verdict, relistable, relisted>>

Settle ==
  /\ verdict = "open" /\ paidBy = buyer
  /\ verdict' = "settled"
  /\ UNCHANGED <<buyer, second, paidBy, relistable, relisted>>

Fail ==
  /\ verdict = "open" /\ paidBy = NoUser /\ second = NoUser
  /\ verdict' = "failed"
  /\ UNCHANGED <<buyer, second, paidBy, relistable, relisted>>

Relist ==
  /\ verdict = "failed" /\ relistable /\ ~relisted
  /\ relisted' = TRUE
  /\ UNCHANGED <<buyer, second, paidBy, verdict, relistable>>

Next == Collect \/ PassOn \/ Settle \/ Fail \/ Relist

Spec == Init /\ [][Next]_vars
===============================================================================

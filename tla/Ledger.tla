-------------------------------- MODULE Ledger --------------------------------
(***************************************************************************)
(* What billing promises about one set of invoices and the money behind    *)
(* them: an invoice ends once, as paid, expired or voided; money is taken  *)
(* from the debtor at most once; a paid invoice has its money and keeps    *)
(* it; money goes back only when the invoice died.                         *)
(***************************************************************************)
CONSTANT InvoiceIDs

VARIABLES
  status,   \* of each invoice
  money     \* "none", "held" or "returned", per invoice

vars == <<status, money>>

Init ==
  /\ status = [id \in InvoiceIDs |-> "absent"]
  /\ money = [id \in InvoiceIDs |-> "none"]

Issue(id) ==
  /\ status[id] = "absent"
  /\ status' = [status EXCEPT ![id] = "pending"]
  /\ UNCHANGED money

Take(id) ==
  /\ status[id] # "absent" /\ money[id] = "none"
  /\ money' = [money EXCEPT ![id] = "held"]
  /\ UNCHANGED status

Pay(id) ==
  /\ status[id] = "pending" /\ money[id] = "held"
  /\ status' = [status EXCEPT ![id] = "paid"]
  /\ UNCHANGED money

Kill(id) ==
  /\ status[id] = "pending"
  /\ \E dead \in {"expired", "voided"} :
       status' = [status EXCEPT ![id] = dead]
  /\ UNCHANGED money

Return(id) ==
  /\ status[id] \in {"expired", "voided"} /\ money[id] = "held"
  /\ money' = [money EXCEPT ![id] = "returned"]
  /\ UNCHANGED status

Next == \E id \in InvoiceIDs :
          Issue(id) \/ Take(id) \/ Pay(id) \/ Kill(id) \/ Return(id)

Spec == Init /\ [][Next]_vars
===============================================================================

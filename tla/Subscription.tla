---------------------------- MODULE Subscription ----------------------------
(***************************************************************************)
(* What "price per month" promises a buyer: a purchase has been charged    *)
(* once for every month that has begun since it was first charged, or less *)
(* often, but for one charge too many for every failure.                   *)
(***************************************************************************)
EXTENDS Integers

CONSTANTS Purchases, MaxMonth

VARIABLES
  charges,   \* how often a purchase has been charged
  since,     \* the month of its first charge, 0 before
  month,     \* the calendar
  failures   \* how often a call has failed or a process died

subscription == <<charges, since, month, failures>>

Init ==
  /\ charges = [p \in Purchases |-> 0]
  /\ since = [p \in Purchases |-> 0]
  /\ month = 1
  /\ failures = 0

\* The purchases P are charged together, by one save; the save may fail, or be
\* that of a charge an earlier save has left, of an earlier month.
Charge(P) ==
  /\ failures' \in {failures, failures + 1}
  /\ charges' = [p \in Purchases |-> charges[p] + (IF p \in P THEN 1 ELSE 0)]
  /\ \E first \in [P -> 1 .. month] :
       since' = [p \in Purchases |-> IF p \in P /\ since[p] = 0 THEN first[p] ELSE since[p]]
  /\ \A p \in P : charges'[p] <= (month - since'[p] + 1) + failures
  /\ UNCHANGED month

NextMonth ==
  /\ month < MaxMonth
  /\ month' = month + 1
  /\ UNCHANGED <<charges, since, failures>>

Next == NextMonth \/ \E P \in SUBSET Purchases : Charge(P)

Spec == Init /\ [][Next]_subscription
=============================================================================

------------------------------- MODULE Billing -------------------------------
(***************************************************************************)
(* Buying an Amphora and charging for it every month.                      *)
(*                                                                         *)
(*   Requests  POST api/Amphorae/{id}/Purchases, each served by            *)
(*             PurchaseService.PurchaseAmphoraAsync                        *)
(*   Runs      POST Admin/Accounts?handler=GenerateTransactions, each      *)
(*             AccountsService.PopulateDebitsAndCreditsAsync               *)
(*                                                                         *)
(* All of them share the database.  A process stops at every await, so     *)
(* one action is one database call with the code that leads to it.  Each   *)
(* process has a DbContext of its own (a unit of work): the stores save    *)
(* ALL the changes that context tracks, whichever entity was passed.       *)
(* A purchase is named by the request that creates it.                     *)
(***************************************************************************)
EXTENDS Integers, FiniteSets

CONSTANTS
  Requests, Runs,     \* the processes
  Users, Orgs, Amphorae,
  NoOrg,              \* the organisation of a user without one
  OrgOf, SellerOf,    \* the organisation of a user, the owner of an Amphora
  Permitted,          \* <<user, amphora>>: terms agreed, Purchase level granted
  Price,              \* of an Amphora, in hundredths
  Rate,               \* Account.CommissionRate of an organisation, in percent
  Provider,           \* "Sql" (and the in-memory provider) or "Cosmos"
  MaxMonth,           \* bound on the calendar
  MonthsAhead,        \* how far ahead of today an administrator may bill
  MaxFaults           \* bound on failed calls and killed processes

ASSUME BillingAssumption ==
  /\ IsFiniteSet(Requests) /\ Requests # {} /\ Requests \cap Runs = {}
  /\ NoOrg \notin Orgs
  /\ OrgOf \in [Users -> Orgs \cup {NoOrg}]
  /\ SellerOf \in [Amphorae -> Orgs]
  /\ Permitted \subseteq Users \X Amphorae
  /\ Price \in [Amphorae -> Nat]
  /\ Rate \in [Orgs -> Nat]
  /\ Provider \in {"Sql", "Cosmos"}
  /\ MaxMonth \in Nat \ {0} /\ MonthsAhead \in Nat /\ MaxFaults \in Nat

Procs == Requests \cup Runs
Months == 1 .. MaxMonth
Null == 0                       \* a LastDebitTime that was never set

VARIABLES
  \* the database
  purchases,      \* the PurchaseModels that exist
  order,          \* what a request asks for: the user and the Amphora
  lastDebit,      \* PurchaseModel.LastDebitTime, as a month
  softDeleted,    \* Amphorae with IsDeleted
  purchaseCount,  \* AmphoraModel.PurchaseCount
  debits, credits, commissions,
  \* the processes
  pc,
  counted,        \* a request's tracked value of PurchaseCount
  todo, cur,      \* a run's purchases still to visit, the one in hand
  report,         \* a run's Report
  pending,        \* tracked changes that are not saved yet
  seen,           \* account documents as a context loaded them (Cosmos)
  \* the environment
  now, faults

db == <<purchases, order, lastDebit, softDeleted, purchaseCount,
        debits, credits, commissions>>
local == <<pc, counted, todo, cur, report, pending, seen>>
vars == <<db, local, now, faults>>

------------------------------------------------------------------------------
(* Money and ledger rows *)

\* Math.Round: to the nearest, a tie to the even neighbour.
RoundedRatio(n, d) ==
  LET low == n \div d
      twice == 2 * (n % d)
  IN  IF twice > d \/ (twice = d /\ low % 2 = 1) THEN low + 1 ELSE low

\* The part of a sale the seller keeps, and the rest, which is commission.
SellerShare(a) == RoundedRatio(Price[a] * Rate[SellerOf[a]], 100)
\* (mutant) the commission of the amount before rounding.
CommissionOfRawAmount(a) == Price[a] - (Price[a] * Rate[SellerOf[a]]) \div 100
Commission(a) == Price[a] - SellerShare(a)

\* The purchase a process is working on.
Purchase(q) == IF q \in Requests THEN q ELSE cur[q]

\* (mutant) entries are dated to the month they pay for, the next one.
RowInAdvance(q, p, org, amount) ==
  [by |-> q, for |-> p, org |-> org, amount |-> amount, month |-> now + 1]
Row(q, p, org, amount) ==
  [by |-> q, for |-> p, org |-> org, amount |-> amount, month |-> now]
DebitRow(q, p) == Row(q, p, OrgOf[order[p].user], Price[order[p].amphora])
CreditRow(q, p) ==
  Row(q, p, SellerOf[order[p].amphora], SellerShare(order[p].amphora))
CommissionRow(q, p) ==
  Row(q, p, SellerOf[order[p].amphora], Commission(order[p].amphora))

------------------------------------------------------------------------------
(* The unit of work: DbContext.SaveChangesAsync as the stores call it *)

NoWork == [debits |-> {}, credits |-> {}, commissions |-> {},
           dated |-> [p \in Requests |-> Null]]
NoAccounts == [debits |-> {}, credits |-> {}]

\* The organisations and purchases whose stored entity a unit of work changes.
Touched(w) == {x.org : x \in w.debits \cup w.credits}
Dated(w) == {p \in Requests : w.dated[p] # Null}

\* What a process has tracked when it saves: what an earlier failure left in
\* the context, and the change of the step it is at.
Work(q) ==
  LET p == Purchase(q)
      w == pending[q]
      debited == [w EXCEPT !.debits = @ \cup {DebitRow(q, p)}]
      credited == [w EXCEPT !.credits = @ \cup {CreditRow(q, p)}]
      tracked == [w EXCEPT !.commissions = @ \cup {CommissionRow(q, p)}]
      sold == [tracked EXCEPT !.credits = credited.credits]
      stamped == [w EXCEPT !.dated[p] = now]
      dropped == [w EXCEPT !.dated[p] = Null]
  IN  CASE pc[q] = "debit" -> debited
        [] pc[q] = "credit" -> IF q \in Requests THEN credited ELSE sold
        [] pc[q] = "commission" -> tracked
        [] pc[q] = "stamp" -> stamped
        [] pc[q] = "delete" -> dropped
        [] OTHER -> w

\* A save is refused when it updates a purchase that has been deleted (no row
\* or document answers), when a commission refers to one (foreign key), and
\* when a commission document is already there.
CanSave(w) ==
  /\ Dated(w) \subseteq purchases
  /\ Provider = "Sql" => {x.for : x \in w.commissions} \subseteq purchases
  /\ Provider = "Cosmos" => w.commissions \cap commissions = {}

\* Debits and credits are rows of their own in Sql.  In Cosmos they are part of
\* the organisation's document, which is replaced by the context's copy of it.
Stored(rows, copy, new, touched) ==
  IF Provider = "Sql" THEN rows \cup new
  ELSE {x \in rows : x.org \notin touched}
         \cup {x \in copy \cup new : x.org \in touched}

Flush(q, w) ==
  /\ debits' = Stored(debits, seen[q].debits, w.debits, Touched(w))
  /\ credits' = Stored(credits, seen[q].credits, w.credits, Touched(w))
  /\ lastDebit' = [p \in Requests |-> IF w.dated[p] # Null THEN w.dated[p]
                                      ELSE lastDebit[p]]

\* A context that has saved tracks the rows it wrote (kept for Cosmos only).
Saved(q, w) ==
  /\ pending' = [pending EXCEPT ![q] = NoWork]
  /\ seen' = IF Provider = "Sql" THEN seen
             ELSE [seen EXCEPT ![q] = [debits |-> @.debits \cup w.debits,
                                       credits |-> @.credits \cup w.credits]]

\* (mutant) the store swallows the exception of a save.
SaveChangesSwallowed(q) ==
  IF CanSave(Work(q))
  THEN /\ Flush(q, Work(q))
       /\ commissions' = commissions \cup Work(q).commissions
       /\ Saved(q, Work(q))
  ELSE UNCHANGED <<debits, credits, commissions, lastDebit, pending, seen>>
SaveChanges(q) ==
  /\ CanSave(Work(q))
  /\ Flush(q, Work(q))
  /\ commissions' = commissions \cup Work(q).commissions
  /\ Saved(q, Work(q))

\* What a failed save leaves behind: nothing in Sql (one transaction), some of
\* the documents in Cosmos (one call per document).
WrittenBeforeFailure(w) ==
  IF Provider = "Sql" THEN {NoWork}
  ELSE {[debits |-> {x \in w.debits : x.org \in orgs},
         credits |-> {x \in w.credits : x.org \in orgs},
         commissions |-> comms,
         dated |-> [p \in Requests |-> IF p \in dates THEN w.dated[p]
                                       ELSE Null]] :
          orgs \in SUBSET Touched(w), comms \in SUBSET w.commissions,
          dates \in SUBSET (Dated(w) \cap purchases)}

SaveIsCutShort(q) ==
  \E part \in WrittenBeforeFailure(Work(q)) :
    /\ Flush(q, part)
    /\ commissions' = commissions \cup part.commissions

\* A context loads the accounts it will need (Account is owned, so it comes
\* with its organisation); only the Cosmos provider writes this copy back.
LoadAccounts(q) ==
  seen' = IF Provider = "Sql" THEN seen
          ELSE [seen EXCEPT ![q] = [debits |-> debits, credits |-> credits]]

Fault == faults < MaxFaults /\ faults' = faults + 1
Goto(q, label) == pc' = [pc EXCEPT ![q] = label]

\* report.Log and report.Warning; (mutant) the success is logged in a finally.
ReportedInFinally(g, outcome) ==
  report' = [report EXCEPT ![g][cur[g]] =
               IF outcome = "error" THEN "updated" ELSE outcome]
Reported(g, outcome) == report' = [report EXCEPT ![g][cur[g]] = outcome]

------------------------------------------------------------------------------
(* PurchaseAmphoraAsync *)

PurchasedBy(org, a) ==
  {p \in purchases : OrgOf[order[p].user] = org /\ order[p].amphora = a}

\* (mutant) only the user's own purchases are looked at.
CanPurchaseForUser(u, a) ==
  /\ OrgOf[u] # NoOrg
  /\ OrgOf[u] # SellerOf[a]
  /\ <<u, a>> \in Permitted
  /\ ~\E p \in purchases : order[p] = [user |-> u, amphora |-> a]
CanPurchase(u, a) ==
  /\ OrgOf[u] # NoOrg
  /\ OrgOf[u] # SellerOf[a]
  /\ <<u, a>> \in Permitted
  /\ PurchasedBy(OrgOf[u], a) = {}

CheckCanPurchase(r, u, a) ==
  /\ pc[r] = "idle"
  /\ order' = [order EXCEPT ![r] = [user |-> u, amphora |-> a]]
  /\ counted' = [counted EXCEPT ![r] = purchaseCount[a]]
  /\ LoadAccounts(r)
  /\ Goto(r, IF CanPurchase(u, a) THEN "query" ELSE "refused")
  /\ UNCHANGED <<purchases, lastDebit, softDeleted, purchaseCount, debits,
                 credits, commissions, todo, cur, report, pending, now, faults>>

\* The second check, for a purchase by this very user.
QueryExisting(r) ==
  /\ pc[r] = "query"
  /\ Goto(r, IF \E p \in purchases : order[p] = order[r]
             THEN "returned" ELSE "create")
  /\ UNCHANGED <<db, counted, todo, cur, report, pending, seen, now, faults>>

CreatePurchase(r) ==
  /\ pc[r] = "create"
  /\ purchases' = purchases \cup {r}
  /\ Goto(r, "debit")
  /\ UNCHANGED <<order, lastDebit, softDeleted, purchaseCount, debits, credits,
                 commissions, counted, todo, cur, report, pending, seen, now,
                 faults>>

\* (mutant) the initial debit is left to the monthly run.
DebitBuyerLater(r) ==
  /\ pc[r] = "debit"
  /\ Goto(r, "credit")
  /\ UNCHANGED <<db, counted, todo, cur, report, pending, seen, now, faults>>
\* The confirmation e-mail, which may throw, comes first and changes nothing.
DebitBuyer(r) ==
  /\ pc[r] = "debit"
  /\ SaveChanges(r)
  /\ Goto(r, "credit")
  /\ UNCHANGED <<purchases, order, softDeleted, purchaseCount, counted, todo,
                 cur, report, now, faults>>

CreditSeller(r) ==
  /\ pc[r] = "credit"
  /\ SaveChanges(r)
  /\ Goto(r, "commission")
  /\ UNCHANGED <<purchases, order, softDeleted, purchaseCount, counted, todo,
                 cur, report, now, faults>>

TrackCommission(r) ==
  /\ pc[r] = "commission"
  /\ SaveChanges(r)
  /\ Goto(r, "count")
  /\ UNCHANGED <<purchases, order, softDeleted, purchaseCount, counted, todo,
                 cur, report, now, faults>>

\* An assignment of the value that was loaded is no change to save (-1).
CountPurchases(r) ==
  /\ pc[r] = "count"
  /\ LET n == Cardinality({p \in purchases : order[p].amphora = order[r].amphora})
     IN  counted' = [counted EXCEPT ![r] = IF n = @ THEN -1 ELSE n]
  /\ Goto(r, "stamp")
  /\ UNCHANGED <<db, todo, cur, report, pending, seen, now, faults>>

StampPurchase(r) ==
  /\ pc[r] = "stamp"
  /\ SaveChanges(r)
  /\ purchaseCount' = IF counted[r] = -1 THEN purchaseCount
                      ELSE [purchaseCount EXCEPT ![order[r].amphora] = counted[r]]
  /\ Goto(r, "done")
  /\ UNCHANGED <<purchases, order, softDeleted, counted, todo, cur, report, now,
                 faults>>

\* An exception, or the server's death, ends the request where it stands.
RequestFails(r) ==
  /\ pc[r] \in {"query", "create", "debit", "credit", "commission", "count", "stamp"}
  /\ \/ Fault
     \/ ~CanSave(Work(r)) /\ UNCHANGED faults
  /\ SaveIsCutShort(r)
  /\ Goto(r, "dead")
  /\ UNCHANGED <<purchases, order, softDeleted, purchaseCount, counted, todo,
                 cur, report, pending, seen, now>>

------------------------------------------------------------------------------
(* PopulateDebitsAndCreditsAsync *)

\* The purchases to charge: last debited before the month, or never.
\* (mutants) those of the month as well; not those never debited.
DueInMonth(month) == {p \in purchases : lastDebit[p] <= month}
DueAgain(month) == {p \in purchases : lastDebit[p] # Null /\ lastDebit[p] < month}
Due(month) == {p \in purchases : lastDebit[p] < month}

\* The administrator's page loads the organisations, then the run queries the
\* purchases that are due.
StartRun(g, month) ==
  /\ pc[g] = "idle"
  /\ todo' = [todo EXCEPT ![g] = Due(month)]
  /\ LoadAccounts(g)
  /\ Goto(g, "next")
  /\ UNCHANGED <<db, counted, cur, report, pending, now, faults>>

\* LastDebitTime is assigned before anything is charged.
TakePurchase(g, p) ==
  /\ pc[g] = "next"
  /\ p \in todo[g]
  /\ todo' = [todo EXCEPT ![g] = @ \ {p}]
  /\ cur' = [cur EXCEPT ![g] = p]
  /\ pending' = [pending EXCEPT ![g].dated[p] = now]
  /\ Goto(g, IF order[p].amphora \in softDeleted THEN "delete" ELSE "debit")
  /\ UNCHANGED <<db, counted, report, seen, now, faults>>

DebitPurchasingOrganisation(g) ==
  /\ pc[g] = "debit"
  /\ SaveChanges(g)
  /\ Goto(g, "credit")
  /\ UNCHANGED <<purchases, order, softDeleted, purchaseCount, counted, todo,
                 cur, report, now, faults>>

\* The commission's save carries the credit; the two saves that follow it find
\* nothing changed.
CreditAmphoraOrganisation(g) ==
  /\ pc[g] = "credit"
  /\ SaveChanges(g)
  /\ Reported(g, "updated")
  /\ Goto(g, "next")
  /\ UNCHANGED <<purchases, order, softDeleted, purchaseCount, counted, todo,
                 cur, now, faults>>

\* A purchase that is already gone is left alone.  Deleting one takes its
\* commissions along (the foreign key cascades, in Sql).
DeletePurchase(g) ==
  /\ pc[g] = "delete"
  /\ IF cur[g] \in purchases
     THEN /\ CanSave(Work(g))
          /\ Flush(g, Work(g))
          /\ commissions' =
               {x \in commissions \cup Work(g).commissions :
                  Provider = "Sql" => x.for # cur[g]}
          /\ Saved(g, Work(g))
          /\ purchases' = purchases \ {cur[g]}
     ELSE UNCHANGED <<purchases, lastDebit, debits, credits, commissions,
                      pending, seen>>
  /\ Reported(g, "deleted")
  /\ Goto(g, "next")
  /\ UNCHANGED <<order, softDeleted, purchaseCount, counted, todo, cur, now,
                 faults>>

\* An exception is caught and reported and the run goes on with the same
\* context, which keeps the changes it tracks.  A failed read leaves it without
\* the change of this step ...
ReadFails(g) ==
  /\ pc[g] \in {"debit", "credit", "delete"}
  /\ Fault
  /\ Reported(g, "error")
  /\ Goto(g, "next")
  /\ UNCHANGED <<db, counted, todo, cur, pending, seen, now>>

\* ... and a failed save with it.
SaveFails(g) ==
  /\ pc[g] \in {"debit", "credit", "delete"}
  /\ \/ Fault
     \/ ~CanSave(Work(g)) /\ UNCHANGED faults
  /\ SaveIsCutShort(g)
  /\ pending' = [pending EXCEPT ![g] = Work(g)]
  /\ Reported(g, "error")
  /\ Goto(g, "next")
  /\ UNCHANGED <<purchases, order, softDeleted, purchaseCount, counted, todo,
                 cur, seen, now>>

FinishRun(g) ==
  /\ pc[g] = "next"
  /\ todo[g] = {}
  /\ Goto(g, "done")
  /\ UNCHANGED <<db, counted, todo, cur, report, pending, seen, now, faults>>

KillRun(g) ==
  /\ pc[g] \in {"next", "debit", "credit", "delete"}
  /\ Fault
  /\ IF pc[g] = "next" THEN UNCHANGED <<debits, credits, commissions, lastDebit>>
     ELSE SaveIsCutShort(g)
  /\ Goto(g, "dead")
  /\ UNCHANGED <<purchases, order, softDeleted, purchaseCount, counted, todo,
                 cur, report, pending, seen, now>>

------------------------------------------------------------------------------
(* The environment *)

NextMonth ==
  /\ now < MaxMonth
  /\ now' = now + 1
  /\ UNCHANGED <<db, local, faults>>

\* AmphoraeService.DeleteAsync with the SoftDelete option.
SoftDelete(a) ==
  /\ a \notin softDeleted
  /\ softDeleted' = softDeleted \cup {a}
  /\ UNCHANGED <<purchases, order, lastDebit, purchaseCount, debits, credits,
                 commissions, local, now, faults>>

------------------------------------------------------------------------------
(* The specification *)

\* A request that has not arrived yet asks for nothing.
NoOrder == [user |-> NoOrg, amphora |-> NoOrg]

Init ==
  /\ purchases = {} /\ softDeleted = {}
  /\ order = [r \in Requests |-> NoOrder]
  /\ lastDebit = [r \in Requests |-> Null]
  /\ purchaseCount = [a \in Amphorae |-> 0]
  /\ debits = {} /\ credits = {} /\ commissions = {}
  /\ pc = [q \in Procs |-> "idle"]
  /\ counted = [r \in Requests |-> 0]
  /\ todo = [g \in Runs |-> {}]
  /\ cur = [g \in Runs |-> CHOOSE r \in Requests : TRUE]
  /\ report = [g \in Runs |-> [r \in Requests |-> "none"]]
  /\ pending = [q \in Procs |-> NoWork]
  /\ seen = [q \in Procs |-> NoAccounts]
  /\ now = 1 /\ faults = 0

RequestStep(r) ==
  \/ \E u \in Users, a \in Amphorae : CheckCanPurchase(r, u, a)
  \/ QueryExisting(r) \/ CreatePurchase(r) \/ DebitBuyer(r) \/ CreditSeller(r)
  \/ TrackCommission(r) \/ CountPurchases(r) \/ StampPurchase(r)
  \/ RequestFails(r)

RunStep(g) ==
  \/ \E month \in 1 .. (now + MonthsAhead) : StartRun(g, month)
  \/ \E p \in Requests : TakePurchase(g, p)
  \/ DebitPurchasingOrganisation(g) \/ CreditAmphoraOrganisation(g)
  \/ DeletePurchase(g) \/ ReadFails(g) \/ SaveFails(g)
  \/ FinishRun(g) \/ KillRun(g)

Next ==
  \/ \E r \in Requests : RequestStep(r)
  \/ \E g \in Runs : RunStep(g)
  \/ NextMonth
  \/ \E a \in Amphorae : SoftDelete(a)

Spec == Init /\ [][Next]_vars

\* One process at a time: what the code's check-then-act sequences rely on.
Active(q) == pc[q] \notin {"idle", "refused", "returned", "done", "dead"}
Alone == \A q1, q2 \in Procs : Active(q1) /\ Active(q2) => q1 = q2
SerialSpec == Init /\ [][Next /\ Alone']_vars

------------------------------------------------------------------------------
(* Properties *)

Rows == [by : Procs, for : Requests, org : Orgs, amount : Int, month : Months]
UnitsOfWork ==
  [debits : SUBSET Rows, credits : SUBSET Rows, commissions : SUBSET Rows,
   dated : [Requests -> Months \cup {Null}]]
Labels == {"idle", "query", "create", "debit", "credit", "commission", "count",
           "stamp", "next", "delete", "refused", "returned", "done", "dead"}

\* Type correctness: every variable ranges over the values the code can give it.
TypeOK ==
  /\ purchases \subseteq Requests
  /\ order \in [Requests -> [user : Users, amphora : Amphorae] \cup {NoOrder}]
  /\ lastDebit \in [Requests -> Months \cup {Null}]
  /\ softDeleted \subseteq Amphorae
  /\ purchaseCount \in [Amphorae -> Nat]
  /\ debits \subseteq Rows /\ credits \subseteq Rows /\ commissions \subseteq Rows
  /\ pc \in [Procs -> Labels]
  /\ counted \in [Requests -> Nat \cup {-1}]
  /\ todo \in [Runs -> SUBSET Requests]
  /\ cur \in [Runs -> Requests]
  /\ report \in [Runs -> [Requests -> {"none", "updated", "deleted", "error"}]]
  /\ pending \in [Procs -> UnitsOfWork]
  /\ seen \in [Procs -> [debits : SUBSET Rows, credits : SUBSET Rows]]
  /\ now \in Months
  /\ faults \in 0 .. MaxFaults

\* Two rows of one charge: entered by one process, for one purchase.
SameCharge(x, y) == x.by = y.by /\ x.for = y.for

\* A seller is never credited by a process that has not debited the buyer for
\* the same purchase, whatever fails, dies or overlaps (order of the saves in
\* PurchaseAmphoraAsync and in PopulateDebitsAndCreditsAsync).
NoSaleWithoutCharge ==
  \A c \in credits : \E d \in debits : SameCharge(c, d) /\ d.month <= c.month

\* Every commission on record is what a buyer paid less what the seller kept,
\* both of them on record too.
SalesAddUp ==
  \A k \in commissions : \E d \in debits, c \in credits :
    SameCharge(k, d) /\ SameCharge(k, c) /\ d.amount = c.amount + k.amount

\* A run's Report tells the truth: an updated purchase has its debit and its
\* credit, and its commission unless the purchase has been deleted since; a
\* deleted purchase is gone.
ReportIsTrue ==
  \A g \in Runs, p \in Requests :
    /\ report[g][p] = "updated" =>
         /\ \E d \in debits : d.by = g /\ d.for = p
         /\ \E c \in credits : c.by = g /\ c.for = p
         /\ p \in purchases => \E k \in commissions : k.by = g /\ k.for = p
    /\ report[g][p] = "deleted" => p \notin purchases

\* A purchase that was answered with success has a debit of its buyer and a
\* credit of its seller.
AnsweredPurchaseIsCharged ==
  \A r \in Requests : pc[r] = "done" =>
    /\ \E d \in debits : d.by = r /\ d.for = r
    /\ \E c \in credits : c.by = r /\ c.for = r

\* LastDebitTime, which keeps a purchase out of the next runs, is only ever
\* stored for a purchase that has been debited, as long as no call fails: a
\* failed read leaves the assignment in the context for the next save.
DebitTimeIsEarned ==
  faults = 0 =>
    \A p \in Requests : lastDebit[p] # Null => \E d \in debits : d.for = p

\* What says that a purchase is paid for (its answer, its debit time) is true.
PaidIsCharged == AnsweredPurchaseIsCharged /\ DebitTimeIsEarned

\* An organisation owns at most one purchase of an Amphora.
CantPurchaseTwice ==
  \A p1, p2 \in purchases :
    OrgOf[order[p1].user] = OrgOf[order[p2].user]
      /\ order[p1].amphora = order[p2].amphora => p1 = p2

\* Nobody is debited twice in a month for the same purchase.
OncePerMonth ==
  \A d1, d2 \in debits : d1.for = d2.for /\ d1.month = d2.month => d1 = d2

\* A run that reports no error leaves no purchase uncharged: it picks up those
\* whose request died between the creation and the debit (as long as no run has
\* failed as well: see ReadFails and DebitTimeIsEarned).
RunLeavesNoneUncharged ==
  [][\A g \in Runs :
       FinishRun(g) /\ (\A p \in Requests : report[g][p] # "error") =>
         \A p \in purchases : \E d \in debits : d.for = p]_vars

\* The abstract view: a purchase is charged no more often than months have begun
\* since its first charge, and every failure accounts for at most one charge too
\* many.  (Two charges may still fall into one month, the first of them taken in
\* hand in the month before: LastDebitTime is assigned ahead of the debit.)
Charges(p) == {d \in debits : d.for = p}
FirstMonth(p) ==
  LET months == {d.month : d \in Charges(p)}
  IN  IF months = {} THEN 0 ELSE CHOOSE m \in months : \A n \in months : m <= n
Sub == INSTANCE Subscription WITH
  Purchases <- Requests,
  charges <- [p \in Requests |-> Cardinality(Charges(p))],
  since <- [p \in Requests |-> FirstMonth(p)],
  month <- now,
  failures <- faults
ChargedMonthly == Sub!Spec
==============================================================================

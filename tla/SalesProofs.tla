----------------------------- MODULE SalesProofs ------------------------------
(***************************************************************************)
(* More theorems about Billing, for any processes, organisations and       *)
(* prices: what commissions, reports and answers say is in the ledger, and *)
(* when processes take turns nobody owns a purchase twice, charges follow  *)
(* the months, and no run leaves a purchase uncharged.                     *)
(***************************************************************************)
EXTENDS BillingProofs

\* The requests that got as far as the creation of their purchase.
Past == {p \in Requests : pc[p] \notin {"idle", "query", "create", "refused", "returned"}}

Cost(p) == Price[order[p].amphora]
Share(p) == SellerShare(order[p].amphora)

HasDebit(q, p) == \E d \in debits : d.by = q /\ d.for = p /\ d.amount = Cost(p)
HasCredit(q, p) == \E c \in credits : c.by = q /\ c.for = p /\ c.amount = Share(p)
HasCommission(q, p) == \E k \in commissions : k.by = q /\ k.for = p

\* A commission that is what a debit leaves of a credit among C.
AddsUp(k, C) ==
  \E d \in debits, c \in C :
    SameCharge(k, d) /\ SameCharge(k, c) /\ d.amount = c.amount + k.amount

------------------------------------------------------------------------------
(* The inductive invariant: of each process, and of the database *)

\* The purchases a process handles are past their creation.
HandlesPast(q) ==
  /\ \A p \in Requests : pending[q].dated[p] # Null => p \in Past
  /\ q \in Runs =>
       /\ todo[q] \subseteq Past
       /\ pc[q] \in {"debit", "credit", "delete"} => cur[q] \in Past
       /\ \A p \in Requests : report[q][p] # "none" => p \in Past

\* The saves a process has behind it are in the ledger.
SavesStand(q) ==
  /\ pc[q] = "credit" => HasDebit(q, Purchase(q))
  /\ q \in Requests =>
       /\ pc[q] \in {"commission", "count", "stamp", "done"} => HasDebit(q, q)
       /\ pc[q] \in {"commission", "count", "stamp", "done"} => HasCredit(q, q)

\* So are the debit and the credit of a commission it has yet to save, unless
\* the credit waits with it.
TrackedAddUp(q) ==
  \A k \in pending[q].commissions : AddsUp(k, credits \cup pending[q].credits)

\* A debit time that waits to be saved is of the purchase in hand, of one that
\* is debited or about to be by the same save, or of one that cannot be saved.
TrackedEarned(q) ==
  faults = 0 =>
    \A p \in Requests : pending[q].dated[p] # Null =>
      \/ \E d \in debits \cup pending[q].debits : d.for = p
      \/ q \in Runs /\ pc[q] \in {"debit", "delete"} /\ cur[q] = p
      \/ p \notin purchases

\* What a run's Report says.
ReportTrue(q) ==
  q \in Runs =>
    \A p \in Requests :
      /\ report[q][p] = "updated" =>
           HasDebit(q, p) /\ HasCredit(q, p) /\ (p \in purchases => HasCommission(q, p))
      /\ report[q][p] = "deleted" => p \notin purchases

ProcessInv(q) ==
  HandlesPast(q) /\ SavesStand(q) /\ TrackedAddUp(q) /\ TrackedEarned(q) /\ ReportTrue(q)

DatabaseInv == purchases \subseteq Past /\ SalesAddUp /\ DebitTimeIsEarned

SalesInv == DatabaseInv /\ \A q \in Procs : ProcessInv(q)

------------------------------------------------------------------------------
(* What every step leaves in place *)

\* Orders of the past stand, a purchase of the past is not created again, the
\* ledger grows, and a commission leaves with its purchase only.
Onward ==
  /\ Past \subseteq Past'
  /\ \A p \in Past : order'[p] = order[p] /\ (p \in purchases' => p \in purchases)
  /\ debits \subseteq debits' /\ credits \subseteq credits'
  /\ \A k \in commissions : k.for \in purchases' => k \in commissions'
  /\ faults' = 0 => faults = 0

\* In Sql a save enters the rows of its unit of work and no others.
LEMMA SqlSave ==
  ASSUME Provider = "Sql", NEW q \in Procs, SaveChanges(q), TypeInv
  PROVE  /\ debits' = debits \cup Work(q).debits
         /\ credits' = credits \cup Work(q).credits
         /\ commissions' = commissions \cup Work(q).commissions
         /\ lastDebit' = [p \in Requests |-> IF Work(q).dated[p] # Null
                                             THEN Work(q).dated[p] ELSE lastDebit[p]]
         /\ Dated(Work(q)) \subseteq purchases
         /\ pending' = [pending EXCEPT ![q] = NoWork]
  BY SqlFlush DEF SaveChanges, Flush, Saved, CanSave

\* In Sql a save that fails enters none.
LEMMA SqlCut ==
  ASSUME Provider = "Sql", TypeInv, NEW q, SaveIsCutShort(q)
  PROVE  UNCHANGED <<debits, credits, commissions, lastDebit>>
  <1>1. PICK part \in {NoWork} :
          Flush(q, part) /\ commissions' = commissions \cup part.commissions
    BY DEF SaveIsCutShort, WrittenBeforeFailure
  <1>2. lastDebit' = [p \in Requests |-> lastDebit[p]]
    BY <1>1 DEF Flush, NoWork
  <1>. QED BY <1>2, SqlCutShort DEF TypeInv, TypeOK

\* A purchase only adds rows,
LEMMA RequestOnward ==
  ASSUME Provider = "Sql", TypeInv, NEW r \in Requests, RequestStep(r)
  PROVE  Onward /\ purchases' \subseteq purchases \cup {r}
           /\ (r \in purchases' => r \in purchases \/ r \in Past')
  <1>0. r \in Procs /\ pc \in [Procs -> Labels]
        /\ order \in [Requests -> Orders \cup {NoOrder}] /\ faults \in Nat
    BY BillingAssumption DEF Procs, TypeInv, TypeOK, Orders
  <1>1. ASSUME NEW u \in Users, NEW a \in Amphorae, CheckCanPurchase(r, u, a)
        PROVE  Onward /\ purchases' = purchases
    BY <1>0, <1>1 DEF CheckCanPurchase, Goto, Onward, Past, Procs
  <1>2. CASE QueryExisting(r) \/ CountPurchases(r)
    BY <1>0, <1>2 DEF QueryExisting, CountPurchases, Goto, Onward, Past, Procs, db
  <1>3. CASE CreatePurchase(r)
    BY <1>0, <1>3 DEF CreatePurchase, Goto, Onward, Past, Procs
  <1>4. CASE DebitBuyer(r) \/ CreditSeller(r) \/ TrackCommission(r) \/ StampPurchase(r)
    <2>1. /\ SaveChanges(r)
          /\ \E l \in {"credit", "commission", "count", "done"} :
                pc' = [pc EXCEPT ![r] = l]
          /\ UNCHANGED <<purchases, order, faults>>
      BY <1>4 DEF DebitBuyer, CreditSeller, TrackCommission, StampPurchase, Goto
    <2>. QED BY <1>0, <2>1, SqlSave DEF Onward, Past, Procs
  <1>5. CASE RequestFails(r)
    <2>1. faults' = 0 => faults = 0
      BY <1>0, <1>5 DEF RequestFails, Fault
    <2>. QED
      BY <1>0, <1>5, <2>1, SqlCut DEF RequestFails, Goto, Onward, Past, Procs
  <1>. QED BY <1>1, <1>2, <1>3, <1>4, <1>5 DEF RequestStep

\* and so does a billing run.
LEMMA RunOnward ==
  ASSUME Provider = "Sql", TypeInv, NEW g \in Runs, RunStep(g)
  PROVE  Onward /\ purchases' \subseteq purchases /\ Past' = Past
  <1>0. g \in Procs /\ g \notin Requests /\ pc \in [Procs -> Labels] /\ faults \in Nat
    BY BillingAssumption DEF Procs, TypeInv, TypeOK
  <1>1. Past' = Past /\ order' = order
    BY <1>0
    DEF RunStep, StartRun, TakePurchase, DebitPurchasingOrganisation,
        CreditAmphoraOrganisation, DeletePurchase, ReadFails, SaveFails, FinishRun,
        KillRun, Goto, Past, Procs, db
  <1>2. ASSUME NEW month, StartRun(g, month) PROVE Onward /\ purchases' = purchases
    BY <1>1, <1>2 DEF StartRun, Onward, db
  <1>3. ASSUME NEW p, TakePurchase(g, p) PROVE Onward /\ purchases' = purchases
    BY <1>1, <1>3 DEF TakePurchase, Onward, db
  <1>4. CASE DebitPurchasingOrganisation(g) \/ CreditAmphoraOrganisation(g)
    <2>1. SaveChanges(g) /\ UNCHANGED <<purchases, faults>>
      BY <1>4 DEF DebitPurchasingOrganisation, CreditAmphoraOrganisation
    <2>. QED BY <1>0, <1>1, <2>1, SqlSave DEF Onward
  <1>5. CASE DeletePurchase(g)
    <2>1. CASE cur[g] \in purchases
      <3>1. Flush(g, Work(g)) /\ faults' = faults /\ purchases' = purchases \ {cur[g]}
            /\ \A k \in commissions : k.for # cur[g] => k \in commissions'
        BY <1>5, <2>1 DEF DeletePurchase
      <3>. QED BY <1>1, <3>1, SqlFlush DEF Onward
    <2>2. CASE cur[g] \notin purchases
      BY <1>1, <1>5, <2>2 DEF DeletePurchase, Onward
    <2>. QED BY <2>1, <2>2
  <1>6. CASE ReadFails(g) \/ FinishRun(g)
    <2>1. UNCHANGED <<purchases, debits, credits, commissions>>
          /\ (faults' = 0 => faults = 0)
      BY <1>0, <1>6 DEF ReadFails, FinishRun, Fault, db
    <2>. QED BY <1>1, <2>1 DEF Onward
  <1>7. CASE SaveFails(g) \/ KillRun(g)
    <2>1. UNCHANGED <<purchases, debits, credits, commissions>>
          /\ (faults' = 0 => faults = 0)
      BY <1>0, <1>7, SqlCut DEF SaveFails, KillRun, Fault
    <2>. QED BY <1>1, <2>1 DEF Onward
  <1>. QED BY <1>1, <1>2, <1>3, <1>4, <1>5, <1>6, <1>7 DEF RunStep

\* What a process is at; a run's Report is part of it.
SameProcess(o) ==
  /\ pc'[o] = pc[o] /\ pending'[o] = pending[o]
  /\ o \in Runs => todo'[o] = todo[o] /\ cur'[o] = cur[o] /\ report'[o] = report[o]

\* The ledger's entries for the past stay what they are.
LEMMA EntriesStand ==
  ASSUME Onward, NEW q, NEW p \in Past
  PROVE  /\ HasDebit(q, p) => HasDebit(q, p)'
         /\ HasCredit(q, p) => HasCredit(q, p)'
         /\ p \in purchases' /\ HasCommission(q, p) => HasCommission(q, p)'
  BY DEF Onward, HasDebit, HasCredit, HasCommission, Cost, Share, SellerShare

\* A commission that adds up does with more rows of the same charges.
LEMMA SumsStand ==
  ASSUME Onward, NEW k, NEW C, NEW D, AddsUp(k, C), C \subseteq D
  PROVE  AddsUp(k, D)'
  BY DEF Onward, AddsUp, SameCharge

\* A process that does nothing keeps its part of the invariant.
LEMMA OthersStand ==
  ASSUME Onward, SalesInv, NEW o \in Procs, SameProcess(o)
  PROVE  ProcessInv(o)'
  <1>0. ProcessInv(o) /\ purchases \subseteq Past /\ Past \subseteq Requests
    BY DEF SalesInv, DatabaseInv, Past
  <1>1. HandlesPast(o)'
    BY <1>0 DEF ProcessInv, HandlesPast, SameProcess, Onward
  <1>2. SavesStand(o)'
    <2>1. Purchase(o)' = Purchase(o)
      BY DEF Purchase, SameProcess, Procs
    <2>2. pc[o] = "credit" => Purchase(o) \in Past
      BY <1>0 DEF Purchase, Past, ProcessInv, HandlesPast, Procs
    <2>3. o \in Requests /\ pc[o] \in {"commission", "count", "stamp", "done"} => o \in Past
      BY DEF Past
    <2>4. pc'[o] = "credit" => HasDebit(o, Purchase(o))'
      BY <1>0, <2>1, <2>2
      DEF ProcessInv, SavesStand, SameProcess, HasDebit, Cost, Onward
    <2>. QED
      BY <1>0, <2>1, <2>3, <2>4, EntriesStand DEF ProcessInv, SavesStand, SameProcess
  <1>3. TrackedAddUp(o)'
    BY <1>0, SumsStand DEF ProcessInv, TrackedAddUp, SameProcess, Onward
  <1>4. TrackedEarned(o)'
    BY <1>0 DEF ProcessInv, TrackedEarned, HandlesPast, SameProcess, Onward
  <1>5. ReportTrue(o)'
    BY <1>0, EntriesStand DEF ProcessInv, ReportTrue, HandlesPast, SameProcess, Onward
  <1>. QED BY <1>1, <1>2, <1>3, <1>4, <1>5 DEF ProcessInv

------------------------------------------------------------------------------
(* What a process saves *)

\* A process at a save.
Saving(q) ==
  /\ pc[q] \in {"debit", "credit", "commission", "stamp", "delete"}
  /\ q \in Runs => pc[q] \in {"debit", "credit", "delete"}
  /\ q \in Requests => pc[q] # "delete"

\* Who saves handles a purchase that is made.
LEMMA SavesPast ==
  ASSUME SalesInv, NEW q \in Procs, Saving(q)
  PROVE  Purchase(q) \in Past
  BY DEF SalesInv, ProcessInv, HandlesPast, Saving, Purchase, Past, Procs

\* The work of a save: what was tracked before, and the change of the step.
LEMMA WorkParts ==
  ASSUME TypeInv, NEW q \in Procs, Saving(q)
  PROVE  LET p == Purchase(q)  w == Work(q)  t == pending[q]
         IN  /\ w.debits = IF pc[q] = "debit" THEN t.debits \cup {DebitRow(q, p)}
                           ELSE t.debits
             /\ w.credits = IF pc[q] = "credit" THEN t.credits \cup {CreditRow(q, p)}
                            ELSE t.credits
             /\ w.commissions =
                  IF pc[q] = "commission" \/ (pc[q] = "credit" /\ q \notin Requests)
                  THEN t.commissions \cup {CommissionRow(q, p)} ELSE t.commissions
             /\ \A x \in Requests :
                  w.dated[x] = IF x = p /\ pc[q] = "stamp" THEN now
                               ELSE IF x = p /\ pc[q] = "delete" THEN Null
                               ELSE t.dated[x]
  <1>1. pending[q] \in UnitsOfWork
    BY DEF TypeInv, TypeOK
  <1>2. pending[q].dated \in [Requests -> Months \cup {Null}]
    BY <1>1 DEF UnitsOfWork
  <1>3. CASE pc[q] = "debit"
    BY <1>1, <1>2, <1>3 DEF Work, UnitsOfWork
  <1>4. CASE pc[q] = "credit"
    <2>1. CASE q \in Requests
      BY <1>1, <1>2, <1>4, <2>1 DEF Work, UnitsOfWork
    <2>2. CASE q \notin Requests
      BY <1>1, <1>2, <1>4, <2>2 DEF Work, UnitsOfWork
    <2>. QED BY <2>1, <2>2
  <1>5. CASE pc[q] = "commission"
    <2>1. Work(q) = [pending[q] EXCEPT
                       !.commissions = @ \cup {CommissionRow(q, Purchase(q))}]
      BY <1>5 DEF Work
    <2>. QED BY <1>1, <1>2, <1>5, <2>1 DEF UnitsOfWork
  <1>6. CASE pc[q] = "stamp"
    BY <1>1, <1>2, <1>6 DEF Work, UnitsOfWork
  <1>7. CASE pc[q] = "delete"
    BY <1>1, <1>2, <1>7 DEF Work, UnitsOfWork
  <1>. QED BY <1>3, <1>4, <1>5, <1>6, <1>7 DEF Saving

\* What a debit takes is what a credit and a commission share out.
LEMMA ShareAndCommission ==
  ASSUME TypeInv, SalesInv, NEW q \in Procs, NEW p \in Past, NEW C,
         HasDebit(q, p), \E c \in C : c.by = q /\ c.for = p /\ c.amount = Share(p)
  PROVE  AddsUp(CommissionRow(q, p), C)
  <1>1. p \in Started
    BY DEF Past, Started
  <1>2. DebitRow(q, p) \in Rows /\ CreditRow(q, p) \in Rows
    BY <1>1, RowTypes
  <1>3. Cost(p) \in Int /\ Share(p) \in Int
    BY <1>2 DEF DebitRow, CreditRow, Row, Rows, Cost, Share
  <1>4. Cost(p) = Share(p) + (Cost(p) - Share(p))
    BY <1>3
  <1>5. CommissionRow(q, p).by = q /\ CommissionRow(q, p).for = p
        /\ CommissionRow(q, p).amount = Cost(p) - Share(p)
    BY DEF CommissionRow, Row, Commission, Cost, Share
  <1>. QED
    BY <1>4, <1>5 DEF AddsUp, HasDebit, SameCharge

\* What is about to be saved adds up, with what is saved,
LEMMA WorkAddsUp ==
  ASSUME TypeInv, SalesInv, NEW q \in Procs, Saving(q)
  PROVE  \A k \in Work(q).commissions : AddsUp(k, credits \cup Work(q).credits)
  <1> DEFINE p == Purchase(q)
  <1>1. \A k \in pending[q].commissions : AddsUp(k, credits \cup Work(q).credits)
    <2>1. pending[q].credits \subseteq Work(q).credits
      BY WorkParts
    <2>. QED BY <2>1 DEF SalesInv, ProcessInv, TrackedAddUp, AddsUp
  <1>2. ASSUME pc[q] = "commission" \/ (pc[q] = "credit" /\ q \notin Requests)
        PROVE  AddsUp(CommissionRow(q, p), credits \cup Work(q).credits)
    <2>1. HasDebit(q, p)
      BY <1>2 DEF SalesInv, ProcessInv, SavesStand, Saving, Purchase, Procs
    <2>2. \E c \in credits \cup Work(q).credits : c.by = q /\ c.for = p /\ c.amount = Share(p)
      <3>1. CASE pc[q] = "commission"
        BY <3>1 DEF SalesInv, ProcessInv, SavesStand, Saving, Purchase, Procs, HasCredit
      <3>2. CASE pc[q] = "credit"
        <4>1. CreditRow(q, p) \in Work(q).credits
          BY <3>2, WorkParts
        <4>2. CreditRow(q, p).by = q /\ CreditRow(q, p).for = p
              /\ CreditRow(q, p).amount = Share(p)
          BY DEF CreditRow, Row, Share
        <4>. QED BY <4>1, <4>2
      <3>. QED BY <1>2, <3>1, <3>2
    <2>. QED BY <2>1, <2>2, SavesPast, ShareAndCommission
  <1>3. SUFFICES ASSUME NEW k \in Work(q).commissions, k \notin pending[q].commissions
                 PROVE  AddsUp(k, credits \cup Work(q).credits)
    BY <1>1
  <1>4. /\ k = CommissionRow(q, p)
        /\ pc[q] = "commission" \/ (pc[q] = "credit" /\ q \notin Requests)
    BY <1>3, WorkParts
  <1>. QED BY <1>2, <1>4

\* A purchase whose debit time is saved has been debited, or is by that save.
LEMMA WorkEarned ==
  ASSUME TypeInv, SalesInv, NEW q \in Procs, Saving(q), faults = 0,
         NEW p \in purchases, Work(q).dated[p] # Null
  PROVE  \E d \in debits \cup Work(q).debits : d.for = p
  <1>0. p \in Requests
    BY DEF SalesInv, DatabaseInv, Past
  <1>1. CASE p = Purchase(q) /\ pc[q] = "stamp"
    BY <1>1 DEF SalesInv, ProcessInv, SavesStand, Saving, Purchase, Procs, HasDebit
  <1>2. CASE p = Purchase(q) /\ pc[q] = "debit"
    <2>1. DebitRow(q, p) \in Work(q).debits
      BY <1>2, WorkParts DEF Saving
    <2>2. DebitRow(q, p).for = p
      BY DEF DebitRow, Row
    <2>. QED BY <2>1, <2>2
  <1>3. CASE ~(p = Purchase(q) /\ pc[q] \in {"stamp", "debit"})
    <2>1. pending[q].dated[p] # Null /\ ~(p = Purchase(q) /\ pc[q] = "delete")
      BY <1>0, <1>3, WorkParts
    <2>2. ~(q \in Runs /\ pc[q] \in {"debit", "delete"} /\ cur[q] = p)
      BY <1>3, <2>1, BillingAssumption DEF Purchase
    <2>3. pending[q].debits \subseteq Work(q).debits
      BY WorkParts
    <2>. QED BY <1>0, <2>1, <2>2, <2>3 DEF SalesInv, ProcessInv, TrackedEarned
  <1>. QED BY <1>1, <1>2, <1>3

\* and dates purchases that are made.
LEMMA WorkPast ==
  ASSUME TypeInv, SalesInv, NEW q \in Procs, Saving(q)
  PROVE  \A p \in Requests : Work(q).dated[p] # Null => p \in Past
  BY WorkParts, SavesPast DEF SalesInv, ProcessInv, HandlesPast

------------------------------------------------------------------------------
(* The invariant, by action *)

\* A save: its work is in the ledger, and nothing waits any more.
Stores(q) ==
  /\ debits' = debits \cup Work(q).debits
  /\ credits' = credits \cup Work(q).credits
  /\ commissions' \subseteq commissions \cup Work(q).commissions
  /\ lastDebit' = [p \in Requests |-> IF Work(q).dated[p] # Null
                                      THEN Work(q).dated[p] ELSE lastDebit[p]]
  /\ Dated(Work(q)) \subseteq purchases
  /\ pending' = [pending EXCEPT ![q] = NoWork]

\* A save keeps what is stored and tracked adding up.
LEMMA StoreStep ==
  ASSUME TypeInv, SalesInv, Onward, NEW q \in Procs, Saving(q), Stores(q)
  PROVE  /\ SalesAddUp' /\ DebitTimeIsEarned'
         /\ TrackedAddUp(q)' /\ TrackedEarned(q)'
         /\ \A p \in Requests : pending'[q].dated[p] = Null
         /\ \A o \in Procs : o # q => pending'[o] = pending[o]
  <1>0. pending'[q] = NoWork /\ \A o \in Procs : o # q => pending'[o] = pending[o]
    BY DEF Stores, TypeInv, TypeOK
  <1>1. SalesAddUp'
    <2>1. SUFFICES ASSUME NEW k \in commissions' PROVE AddsUp(k, credits)'
      BY DEF SalesAddUp, AddsUp, SameCharge
    <2>2. CASE k \in commissions
      <3>1. AddsUp(k, credits)
        BY <2>2 DEF SalesInv, DatabaseInv, SalesAddUp, AddsUp
      <3>. QED BY <3>1 DEF AddsUp, SameCharge, Onward
    <2>3. CASE k \in Work(q).commissions
      <3>1. AddsUp(k, credits')
        BY <2>3, WorkAddsUp DEF Stores
      <3>. QED BY <3>1 DEF AddsUp, SameCharge, Onward
    <2>. QED BY <2>1, <2>2, <2>3 DEF Stores
  <1>2. DebitTimeIsEarned'
    <2>1. SUFFICES ASSUME faults' = 0, NEW p \in Requests, lastDebit'[p] # Null
                   PROVE  \E d \in debits' : d.for = p
      BY DEF DebitTimeIsEarned
    <2>2. CASE Work(q).dated[p] # Null
      BY <2>1, <2>2, WorkEarned DEF Stores, Dated, Onward
    <2>3. CASE Work(q).dated[p] = Null
      <3>1. lastDebit[p] # Null
        BY <2>1, <2>3 DEF Stores
      <3>. QED BY <2>1, <3>1 DEF SalesInv, DatabaseInv, DebitTimeIsEarned, Onward
    <2>. QED BY <2>2, <2>3
  <1>3. TrackedAddUp(q)' /\ TrackedEarned(q)'
    BY <1>0 DEF TrackedAddUp, TrackedEarned, NoWork
  <1>. QED BY <1>0, <1>1, <1>2, <1>3 DEF NoWork

\* A step that leaves the ledger alone.
LEMMA QuietStep ==
  ASSUME SalesInv, Onward, UNCHANGED <<debits, credits, commissions, lastDebit>>
  PROVE  SalesAddUp' /\ DebitTimeIsEarned'
  BY DEF SalesInv, DatabaseInv, SalesAddUp, SameCharge, DebitTimeIsEarned, Onward

\* So do the parts of a process that neither saves nor takes a purchase.
LEMMA TrackedStand ==
  ASSUME SalesInv, Onward, NEW q \in Procs, pending'[q] = pending[q],
         q \in Runs => pc[q] \notin {"debit", "delete"} \/ cur[q] \notin purchases'
  PROVE  /\ TrackedAddUp(q)' /\ TrackedEarned(q)'
         /\ \A p \in Requests : pending'[q].dated[p] # Null => p \in Past'
  <1>0. ProcessInv(q)
    BY DEF SalesInv
  <1>1. TrackedAddUp(q)'
    BY <1>0, SumsStand DEF ProcessInv, TrackedAddUp, Onward
  <1>2. TrackedEarned(q)'
    BY <1>0 DEF ProcessInv, TrackedEarned, HandlesPast, Onward
  <1>. QED BY <1>0, <1>1, <1>2 DEF ProcessInv, HandlesPast, Onward

\* A step of a purchase keeps the invariant of the sales,
LEMMA RequestSales ==
  ASSUME Provider = "Sql", TypeInv, SalesInv, NEW r \in Requests, RequestStep(r)
  PROVE  SalesInv'
  <1>0. /\ r \in Procs /\ r \notin Runs /\ Purchase(r) = r /\ Purchase(r)' = r
        /\ pc \in [Procs -> Labels] /\ pending \in [Procs -> UnitsOfWork]
        /\ ProcessInv(r) /\ purchases \subseteq Past
    BY BillingAssumption DEF Procs, TypeInv, TypeOK, SalesInv, DatabaseInv, Purchase
  <1>1. /\ Onward
        /\ purchases' \subseteq purchases \cup {r}
        /\ r \in purchases' => r \in purchases \/ r \in Past'
    BY RequestOnward
  <1>2. \A o \in Procs : o # r => pc'[o] = pc[o] /\ pending'[o] = pending[o]
    BY <1>0
    DEF RequestStep, CheckCanPurchase, QueryExisting, CreatePurchase, DebitBuyer,
        CreditSeller, TrackCommission, CountPurchases, StampPurchase, RequestFails,
        SaveChanges, Saved, Goto
  <1>3. UNCHANGED <<todo, cur, report>>
    BY DEF RequestStep, CheckCanPurchase, QueryExisting, CreatePurchase, DebitBuyer,
        CreditSeller, TrackCommission, CountPurchases, StampPurchase, RequestFails
  <1>4. \A o \in Procs : o # r => ProcessInv(o)'
    BY <1>1, <1>2, <1>3, OthersStand DEF SameProcess
  <1>5. ASSUME SalesAddUp', DebitTimeIsEarned',
               TrackedAddUp(r)', TrackedEarned(r)', SavesStand(r)',
               \A p \in Requests : pending'[r].dated[p] # Null => p \in Past'
        PROVE  SalesInv'
    <2>1. purchases' \subseteq Past'
      BY <1>0, <1>1 DEF Onward
    <2>2. ReportTrue(r)' /\ HandlesPast(r)'
      BY <1>0, <1>5 DEF ReportTrue, HandlesPast
    <2>. QED
      BY <1>4, <1>5, <2>1, <2>2 DEF SalesInv, DatabaseInv, ProcessInv
  <1>6. pc[r] \in {"credit", "commission", "count", "stamp", "done"} => r \in Past
    BY DEF Past
  <1>7. ASSUME UNCHANGED <<debits, credits, commissions, lastDebit, pending>>,
               pc'[r] # "credit",
               pc'[r] \in {"commission", "count", "stamp", "done"} =>
                 pc[r] \in {"commission", "count", "stamp", "done"}
        PROVE  SalesInv'
    <2>1. SalesAddUp' /\ DebitTimeIsEarned'
      BY <1>1, <1>7, QuietStep
    <2>2. SavesStand(r)'
      BY <1>0, <1>1, <1>6, <1>7, EntriesStand DEF ProcessInv, SavesStand
    <2>. QED BY <1>0, <1>1, <1>5, <1>7, <2>1, <2>2, TrackedStand
  <1>8. ASSUME Saving(r), SaveChanges(r), SavesStand(r)' PROVE SalesInv'
    <2>1. Stores(r)
      BY <1>0, <1>8, SqlSave DEF Stores
    <2>. QED BY <1>0, <1>1, <1>5, <1>8, <2>1, StoreStep
  <1>9. ASSUME NEW u \in Users, NEW a \in Amphorae, CheckCanPurchase(r, u, a)
        PROVE  SalesInv'
    BY <1>0, <1>7, <1>9 DEF CheckCanPurchase, Goto
  <1>10. CASE QueryExisting(r) \/ CreatePurchase(r) \/ CountPurchases(r)
    BY <1>0, <1>7, <1>10 DEF QueryExisting, CreatePurchase, CountPurchases, Goto, db
  <1>11. CASE DebitBuyer(r)
    <2>1. SaveChanges(r) /\ pc[r] = "debit" /\ pc'[r] = "credit" /\ order' = order
      BY <1>0, <1>11 DEF DebitBuyer, Goto
    <2>2. Saving(r)
      BY <1>0, <2>1 DEF Saving
    <2>3. DebitRow(r, r) \in debits'
      BY <1>0, <2>1, <2>2, SqlSave, WorkParts
    <2>4. HasDebit(r, r)'
      BY <2>1, <2>3 DEF HasDebit, DebitRow, Row, Cost
    <2>. QED BY <1>0, <1>8, <2>1, <2>2, <2>4 DEF SavesStand
  <1>12. CASE CreditSeller(r)
    <2>1. SaveChanges(r) /\ pc[r] = "credit" /\ pc'[r] = "commission" /\ order' = order
      BY <1>0, <1>12 DEF CreditSeller, Goto
    <2>2. Saving(r)
      BY <1>0, <2>1 DEF Saving
    <2>3. CreditRow(r, r) \in credits'
      BY <1>0, <2>1, <2>2, SqlSave, WorkParts
    <2>4. HasCredit(r, r)'
      BY <2>1, <2>3 DEF HasCredit, CreditRow, Row, Share, SellerShare
    <2>5. HasDebit(r, r)'
      BY <1>0, <1>1, <1>6, <2>1, EntriesStand DEF ProcessInv, SavesStand
    <2>. QED BY <1>0, <1>8, <2>1, <2>2, <2>4, <2>5 DEF SavesStand
  <1>13. CASE TrackCommission(r) \/ StampPurchase(r)
    <2>1. SaveChanges(r) /\ pc[r] \in {"commission", "stamp"} /\ pc'[r] \in {"count", "done"}
      BY <1>0, <1>13 DEF TrackCommission, StampPurchase, Goto
    <2>2. Saving(r)
      BY <1>0, <2>1 DEF Saving
    <2>3. SavesStand(r)'
      BY <1>0, <1>1, <1>6, <2>1, EntriesStand DEF ProcessInv, SavesStand
    <2>. QED BY <1>8, <2>1, <2>2, <2>3
  <1>14. CASE RequestFails(r)
    <2>1. UNCHANGED <<debits, credits, commissions, lastDebit, pending>> /\ pc'[r] = "dead"
      BY <1>0, <1>14, SqlCut DEF RequestFails, Goto
    <2>. QED BY <1>7, <2>1
  <1>. QED
    BY <1>9, <1>10, <1>11, <1>12, <1>13, <1>14 DEF RequestStep

\* What a Report says stays true, and what it says anew is.
LEMMA ReportStep ==
  ASSUME TypeInv, SalesInv, Onward, NEW g \in Runs, cur[g] \in Past, cur' = cur,
         NEW outcome, Reported(g, outcome), purchases' \subseteq purchases,
         outcome = "updated" =>
           /\ HasDebit(g, cur[g])' /\ HasCredit(g, cur[g])'
           /\ cur[g] \in purchases' => HasCommission(g, cur[g])',
         outcome = "deleted" => cur[g] \notin purchases'
  PROVE  /\ ReportTrue(g)'
         /\ \A p \in Requests : report'[g][p] # "none" => p \in Past'
         /\ \A o \in Runs : o # g => report'[o] = report[o]
  <1>0. /\ report \in [Runs -> [Requests -> {"none", "updated", "deleted", "error"}]]
        /\ g \in Procs /\ ProcessInv(g) /\ cur[g] \in Requests
    BY DEF TypeInv, TypeOK, Procs, SalesInv
  <1>1. /\ \A o \in Runs : o # g => report'[o] = report[o]
        /\ \A p \in Requests : report'[g][p] = IF p = cur[g] THEN outcome ELSE report[g][p]
    <2>1. report' = [report EXCEPT ![g] = [@ EXCEPT ![cur[g]] = outcome]]
      BY DEF Reported
    <2>. QED BY <1>0, <2>1
  <1>2. \A p \in Requests : report[g][p] # "none" => p \in Past
    BY <1>0 DEF ProcessInv, HandlesPast
  <1>3. ASSUME NEW p \in Requests
        PROVE  /\ report'[g][p] = "updated" =>
                    /\ HasDebit(g, p)' /\ HasCredit(g, p)'
                    /\ p \in purchases' => HasCommission(g, p)'
               /\ report'[g][p] = "deleted" => p \notin purchases'
    <2>1. CASE p = cur[g]
      <3>1. report'[g][p] = outcome
        BY <1>1, <2>1
      <3>. QED
        BY <2>1, <3>1 DEF HasDebit, HasCredit, HasCommission, Cost, Share
    <2>2. CASE p # cur[g]
      <3>1. report'[g][p] = report[g][p]
        BY <1>1, <2>2
      <3>. QED
        BY <1>0, <1>2, <3>1, EntriesStand DEF ProcessInv, ReportTrue
    <2>. QED BY <2>1, <2>2
  <1>4. ReportTrue(g)'
    BY <1>3 DEF ReportTrue
  <1>. QED BY <1>1, <1>2, <1>4 DEF Onward

\* and so does one of a billing run.
LEMMA RunSales ==
  ASSUME Provider = "Sql", TypeInv, SalesInv, NEW g \in Runs, RunStep(g)
  PROVE  SalesInv'
  <1>0. /\ g \in Procs /\ g \notin Requests /\ Purchase(g) = cur[g]
        /\ pc \in [Procs -> Labels] /\ pending \in [Procs -> UnitsOfWork]
        /\ cur \in [Runs -> Requests] /\ todo \in [Runs -> SUBSET Requests]
        /\ ProcessInv(g) /\ purchases \subseteq Past
    BY BillingAssumption DEF Procs, TypeInv, TypeOK, SalesInv, DatabaseInv, Purchase
  <1>1. Onward /\ purchases' \subseteq purchases /\ Past' = Past
    BY RunOnward
  <1>2. ASSUME \A o \in Procs : o # g => pc'[o] = pc[o] /\ pending'[o] = pending[o],
               \A o \in Runs : o # g =>
                 todo'[o] = todo[o] /\ cur'[o] = cur[o] /\ report'[o] = report[o],
               SalesAddUp', DebitTimeIsEarned',
               TrackedAddUp(g)', TrackedEarned(g)', SavesStand(g)', ReportTrue(g)',
               HandlesPast(g)'
        PROVE  SalesInv'
    <2>1. \A o \in Procs : o # g => ProcessInv(o)'
      BY <1>1, <1>2, OthersStand DEF SameProcess
    <2>. QED BY <1>0, <1>1, <1>2, <2>1 DEF SalesInv, DatabaseInv, ProcessInv
  <1>3. ASSUME report'[g] = report[g] PROVE ReportTrue(g)'
    BY <1>0, <1>1, <1>3, EntriesStand DEF ProcessInv, ReportTrue, HandlesPast
  <1>4. ASSUME NEW month, StartRun(g, month) PROVE SalesInv'
    <2>1. /\ UNCHANGED <<debits, credits, commissions, lastDebit, pending, cur, report>>
          /\ pc' = [pc EXCEPT ![g] = "next"]
          /\ todo' = [todo EXCEPT ![g] = Due(month)] /\ pc[g] = "idle"
      BY <1>4 DEF StartRun, Goto, db
    <2>2. HandlesPast(g)'
      BY <1>0, <1>1, <2>1 DEF ProcessInv, HandlesPast, Due
    <2>3. SavesStand(g)'
      BY <1>0, <2>1 DEF SavesStand
    <2>. QED
      BY <1>0, <1>1, <1>2, <1>3, <2>1, <2>2, <2>3, TrackedStand, QuietStep
  <1>5. ASSUME NEW p \in Requests, TakePurchase(g, p) PROVE SalesInv'
    <2>1. /\ UNCHANGED <<purchases, debits, credits, commissions, lastDebit, report, faults>>
          /\ \E l \in {"delete", "debit"} : pc' = [pc EXCEPT ![g] = l]
          /\ todo' = [todo EXCEPT ![g] = @ \ {p}] /\ pc[g] = "next"
          /\ cur' = [cur EXCEPT ![g] = p] /\ p \in todo[g]
      BY <1>5 DEF TakePurchase, Goto, db
    <2>2. /\ \A o \in Procs : o # g => pending'[o] = pending[o]
          /\ pending'[g] = [pending[g] EXCEPT !.dated[p] = now]
      BY <1>0, <1>5 DEF TakePurchase
    <2>3. /\ \A x \in Requests : x # p => pending'[g].dated[x] = pending[g].dated[x]
          /\ pending'[g].debits = pending[g].debits
          /\ pending'[g].credits = pending[g].credits
          /\ pending'[g].commissions = pending[g].commissions
      <3>1. pending[g] \in UnitsOfWork
        BY <1>0
      <3>. QED BY <2>2, <3>1 DEF UnitsOfWork
    <2>4. p \in Past
      BY <1>0, <2>1 DEF ProcessInv, HandlesPast
    <2>5. HandlesPast(g)'
      BY <1>0, <1>1, <2>1, <2>3, <2>4 DEF ProcessInv, HandlesPast
    <2>6. SavesStand(g)'
      BY <1>0, <2>1 DEF SavesStand
    <2>7. TrackedAddUp(g)'
      BY <1>0, <1>1, <2>1, <2>3, SumsStand DEF ProcessInv, TrackedAddUp
    <2>8. TrackedEarned(g)'
      BY <1>0, <2>1, <2>3 DEF ProcessInv, TrackedEarned
    <2>. QED
      BY <1>0, <1>1, <1>2, <1>3, <2>1, <2>2, <2>5, <2>6, <2>7, <2>8, QuietStep
  <1>6. CASE DebitPurchasingOrganisation(g)
    <2>1. /\ SaveChanges(g) /\ pc[g] = "debit" /\ pc' = [pc EXCEPT ![g] = "credit"]
          /\ UNCHANGED <<order, todo, cur, report>>
      BY <1>6 DEF DebitPurchasingOrganisation, Goto
    <2>2. Saving(g)
      BY <1>0, <2>1 DEF Saving
    <2>3. Stores(g)
      BY <1>0, <2>1, SqlSave DEF Stores
    <2>4. DebitRow(g, cur[g]) \in debits'
      BY <1>0, <2>1, <2>2, <2>3, WorkParts DEF Stores
    <2>5. HasDebit(g, cur[g])'
      BY <2>1, <2>4 DEF HasDebit, DebitRow, Row, Cost
    <2>6. Purchase(g)' = cur[g]
      BY <1>0, <2>1 DEF Purchase
    <2>7. SavesStand(g)'
      BY <1>0, <2>1, <2>5, <2>6 DEF SavesStand, HasDebit, Cost
    <2>8. /\ SalesAddUp' /\ DebitTimeIsEarned' /\ TrackedAddUp(g)' /\ TrackedEarned(g)'
          /\ \A p \in Requests : pending'[g].dated[p] = Null
          /\ \A o \in Procs : o # g => pending'[o] = pending[o]
      BY <1>0, <1>1, <2>2, <2>3, StoreStep
    <2>9. HandlesPast(g)'
      BY <1>0, <1>1, <2>1, <2>8 DEF ProcessInv, HandlesPast
    <2>. QED BY <1>0, <1>2, <1>3, <2>1, <2>7, <2>8, <2>9
  <1>7. CASE CreditAmphoraOrganisation(g)
    <2>1. /\ SaveChanges(g) /\ pc[g] = "credit" /\ pc' = [pc EXCEPT ![g] = "next"]
          /\ UNCHANGED <<order, todo, cur>> /\ Reported(g, "updated")
      BY <1>7 DEF CreditAmphoraOrganisation, Goto
    <2>2. Saving(g) /\ cur[g] \in Past
      BY <1>0, <2>1 DEF Saving, ProcessInv, HandlesPast
    <2>3. Stores(g) /\ commissions' = commissions \cup Work(g).commissions
      BY <1>0, <2>1, SqlSave DEF Stores
    <2>4. CreditRow(g, cur[g]) \in credits' /\ CommissionRow(g, cur[g]) \in commissions'
      BY <1>0, <2>1, <2>2, <2>3, WorkParts DEF Stores
    <2>5. HasCredit(g, cur[g])' /\ HasCommission(g, cur[g])'
      BY <2>1, <2>4
      DEF HasCredit, HasCommission, CreditRow, CommissionRow, Row, Share, SellerShare
    <2>6. HasDebit(g, cur[g])'
      BY <1>0, <1>1, <2>1, <2>2 DEF ProcessInv, SavesStand, HasDebit, Cost, Onward
    <2>7. /\ ReportTrue(g)'
          /\ \A p \in Requests : report'[g][p] # "none" => p \in Past'
          /\ \A o \in Runs : o # g => report'[o] = report[o]
      BY <1>1, <2>1, <2>2, <2>5, <2>6, ReportStep
    <2>8. /\ SalesAddUp' /\ DebitTimeIsEarned' /\ TrackedAddUp(g)' /\ TrackedEarned(g)'
          /\ \A p \in Requests : pending'[g].dated[p] = Null
          /\ \A o \in Procs : o # g => pending'[o] = pending[o]
      BY <1>0, <1>1, <2>2, <2>3, StoreStep
    <2>9. HandlesPast(g)' /\ SavesStand(g)'
      BY <1>0, <1>1, <2>1, <2>7, <2>8 DEF ProcessInv, HandlesPast, SavesStand
    <2>. QED BY <1>0, <1>2, <2>1, <2>7, <2>8, <2>9
  <1>8. CASE DeletePurchase(g)
    <2>1. /\ pc[g] = "delete" /\ pc' = [pc EXCEPT ![g] = "next"]
          /\ UNCHANGED <<todo, cur>> /\ Reported(g, "deleted")
          /\ cur[g] \notin purchases'
      BY <1>8 DEF DeletePurchase, Goto
    <2>2. Saving(g) /\ cur[g] \in Past
      BY <1>0, <2>1 DEF Saving, ProcessInv, HandlesPast
    <2>3. /\ ReportTrue(g)'
          /\ \A p \in Requests : report'[g][p] # "none" => p \in Past'
          /\ \A o \in Runs : o # g => report'[o] = report[o]
      BY <1>1, <2>1, <2>2, ReportStep
    <2>4. /\ SalesAddUp' /\ DebitTimeIsEarned' /\ TrackedAddUp(g)' /\ TrackedEarned(g)'
          /\ \A p \in Requests : pending'[g].dated[p] # Null => p \in Past'
          /\ \A o \in Procs : o # g => pending'[o] = pending[o]
      <3>1. CASE cur[g] \in purchases
        <4>1. Stores(g)
          <5>1. /\ Flush(g, Work(g)) /\ Saved(g, Work(g)) /\ CanSave(Work(g))
                /\ commissions' \subseteq commissions \cup Work(g).commissions
            BY <1>8, <3>1 DEF DeletePurchase
          <5>. QED BY <5>1, SqlFlush DEF Stores, Flush, Saved, CanSave
        <4>. QED BY <1>0, <1>1, <2>2, <4>1, StoreStep
      <3>2. CASE cur[g] \notin purchases
        <4>1. UNCHANGED <<debits, credits, commissions, lastDebit, pending>>
          BY <1>8, <3>2 DEF DeletePurchase
        <4>. QED BY <1>0, <1>1, <2>1, <4>1, TrackedStand, QuietStep
      <3>. QED BY <3>1, <3>2
    <2>5. HandlesPast(g)' /\ SavesStand(g)'
      BY <1>0, <1>1, <2>1, <2>3, <2>4 DEF ProcessInv, HandlesPast, SavesStand
    <2>. QED BY <1>0, <1>2, <2>1, <2>3, <2>4, <2>5
  <1>9. CASE SaveFails(g)
    <2>1. /\ pc[g] \in {"debit", "credit", "delete"} /\ pc' = [pc EXCEPT ![g] = "next"]
          /\ UNCHANGED <<purchases, todo, cur, debits, credits, commissions, lastDebit>>
          /\ Reported(g, "error") /\ pending' = [pending EXCEPT ![g] = Work(g)]
          /\ faults' = 0 => faults = 0
      BY <1>1, <1>9, SqlCut DEF SaveFails, Goto, Onward
    <2>2. Saving(g) /\ cur[g] \in Past
      BY <1>0, <2>1 DEF Saving, ProcessInv, HandlesPast
    <2>3. /\ ReportTrue(g)'
          /\ \A p \in Requests : report'[g][p] # "none" => p \in Past'
          /\ \A o \in Runs : o # g => report'[o] = report[o]
      BY <1>1, <2>1, <2>2, ReportStep
    <2>4. pending'[g] = Work(g)
      BY <1>0, <2>1
    <2>5. TrackedAddUp(g)'
      <3>1. \A k \in Work(g).commissions : AddsUp(k, credits \cup Work(g).credits)
        BY <1>0, <2>2, WorkAddsUp
      <3>. QED BY <2>1, <2>4, <3>1 DEF TrackedAddUp, AddsUp, SameCharge
    <2>6. TrackedEarned(g)'
      BY <1>0, <2>1, <2>2, <2>4, WorkEarned DEF TrackedEarned
    <2>7. HandlesPast(g)' /\ SavesStand(g)'
      BY <1>0, <1>1, <2>1, <2>2, <2>3, <2>4, WorkPast
      DEF ProcessInv, HandlesPast, SavesStand
    <2>. QED BY <1>0, <1>1, <1>2, <2>1, <2>3, <2>5, <2>6, <2>7, QuietStep
  <1>10. CASE ReadFails(g)
    <2>1. /\ pc[g] \in {"debit", "credit", "delete"} /\ pc' = [pc EXCEPT ![g] = "next"]
          /\ UNCHANGED <<todo, cur, debits, credits, commissions, lastDebit, pending>>
          /\ Reported(g, "error") /\ faults' # 0
      BY <1>10 DEF ReadFails, Goto, Fault, db, TypeInv, TypeOK
    <2>2. cur[g] \in Past
      BY <1>0, <2>1 DEF ProcessInv, HandlesPast
    <2>3. /\ ReportTrue(g)'
          /\ \A p \in Requests : report'[g][p] # "none" => p \in Past'
          /\ \A o \in Runs : o # g => report'[o] = report[o]
      BY <1>1, <2>1, <2>2, ReportStep
    <2>4. TrackedAddUp(g)' /\ TrackedEarned(g)'
      BY <1>0, <1>1, <2>1, SumsStand DEF ProcessInv, TrackedAddUp, TrackedEarned
    <2>5. HandlesPast(g)' /\ SavesStand(g)'
      BY <1>0, <1>1, <2>1, <2>3 DEF ProcessInv, HandlesPast, SavesStand
    <2>. QED BY <1>0, <1>1, <1>2, <2>1, <2>3, <2>4, <2>5, QuietStep
  <1>11. CASE FinishRun(g)
    <2>1. /\ pc[g] = "next" /\ pc' = [pc EXCEPT ![g] = "done"]
          /\ UNCHANGED <<todo, cur, report, debits, credits, commissions, lastDebit, pending>>
      BY <1>11 DEF FinishRun, Goto, db
    <2>2. TrackedAddUp(g)' /\ TrackedEarned(g)' /\ HandlesPast(g)' /\ SavesStand(g)'
      BY <1>0, <1>1, <2>1, TrackedStand DEF ProcessInv, HandlesPast, SavesStand
    <2>. QED BY <1>0, <1>1, <1>2, <1>3, <2>1, <2>2, QuietStep
  <1>12. CASE KillRun(g)
    <2>1. /\ pc' = [pc EXCEPT ![g] = "dead"] /\ faults' # 0
          /\ UNCHANGED <<todo, cur, report, debits, credits, commissions, lastDebit, pending>>
      BY <1>12, SqlCut DEF KillRun, Goto, Fault, TypeInv, TypeOK
    <2>2. TrackedAddUp(g)' /\ TrackedEarned(g)'
      BY <1>0, <1>1, <2>1, SumsStand DEF ProcessInv, TrackedAddUp, TrackedEarned
    <2>3. HandlesPast(g)' /\ SavesStand(g)'
      BY <1>0, <1>1, <2>1 DEF ProcessInv, HandlesPast, SavesStand
    <2>. QED BY <1>0, <1>1, <1>2, <1>3, <2>1, <2>2, <2>3, QuietStep
  <1>. QED
    BY <1>4, <1>5, <1>6, <1>7, <1>8, <1>9, <1>10, <1>11, <1>12 DEF RunStep

\* The invariant of the sales holds at the start,
LEMMA InitSales == Init => SalesInv
  <1> SUFFICES ASSUME Init PROVE SalesInv
    OBVIOUS
  <1>1. DatabaseInv
    BY DEF Init, DatabaseInv, SalesAddUp, DebitTimeIsEarned, Null
  <1>2. ASSUME NEW q \in Procs PROVE ProcessInv(q)
    BY DEF Init, ProcessInv, HandlesPast, SavesStand, TrackedAddUp, TrackedEarned,
           ReportTrue, NoWork, Null
  <1>. QED BY <1>1, <1>2 DEF SalesInv

\* and, in Sql, always.
LEMMA SalesInvariant == ASSUME Provider = "Sql" PROVE Spec => []SalesInv
  <1>1. TypeInv /\ SalesInv /\ [Next]_vars => SalesInv'
    <2> SUFFICES ASSUME TypeInv, SalesInv, [Next]_vars PROVE SalesInv'
      OBVIOUS
    <2>1. ASSUME NEW r \in Requests, RequestStep(r) PROVE SalesInv'
      BY <2>1, RequestSales
    <2>2. ASSUME NEW g \in Runs, RunStep(g) PROVE SalesInv'
      BY <2>2, RunSales
    <2>3. CASE UNCHANGED vars \/ NextMonth \/ \E a \in Amphorae : SoftDelete(a)
      <3>1. UNCHANGED <<purchases, order, lastDebit, debits, credits, commissions, local,
                        faults>>
        BY <2>3 DEF vars, db, NextMonth, SoftDelete
      <3>2. Past' = Past /\ Onward
        BY <3>1 DEF Past, Onward, local
      <3>3. SalesAddUp' /\ DebitTimeIsEarned'
        BY <3>1, <3>2, QuietStep
      <3>4. \A o \in Procs : ProcessInv(o)'
        BY <3>1, <3>2, OthersStand DEF SameProcess, local
      <3>. QED BY <3>1, <3>2, <3>3, <3>4 DEF SalesInv, DatabaseInv
    <2>. QED BY <2>1, <2>2, <2>3 DEF Next
  <1>. QED BY <1>1, InitSales, TypeInvariant, PTL DEF Spec

\* In Sql every commission on record is what a buyer was debited less what the
\* seller was credited, both on record: through every overlap, failure, retry
\* with what a failed save left behind, and death (the commission tracked with
\* the credit in AccountsService and after it in PurchaseService).
THEOREM CommissionsAddUp == ASSUME Provider = "Sql" PROVE Spec => []SalesAddUp
  <1>1. SalesInv => SalesAddUp
    BY DEF SalesInv, DatabaseInv
  <1>. QED BY <1>1, SalesInvariant, PTL

\* In Sql the Report of a run is true: what it says was updated has been charged
\* by that run, what it says was deleted is gone, and stays so
\* (PopulateDebitsAndCreditsAsync).
THEOREM ReportsAreTrue == ASSUME Provider = "Sql" PROVE Spec => []ReportIsTrue
  <1>1. SalesInv => ReportIsTrue
    BY DEF SalesInv, ProcessInv, ReportTrue, ReportIsTrue, HasDebit, HasCredit,
           HasCommission, Procs
  <1>. QED BY <1>1, SalesInvariant, PTL

\* In Sql a purchase answered with success has been charged, and until a call
\* fails a purchase that bears a debit time has been debited (the order of
\* LastDebitTime and the saves in both services).
THEOREM PaidMeansCharged == ASSUME Provider = "Sql" PROVE Spec => []PaidIsCharged
  <1>1. SalesInv => PaidIsCharged
    BY DEF SalesInv, DatabaseInv, ProcessInv, SavesStand, PaidIsCharged,
           AnsweredPurchaseIsCharged, HasDebit, HasCredit, Procs
  <1>. QED BY <1>1, SalesInvariant, PTL

------------------------------------------------------------------------------
(* When processes take turns *)

\* What the check found is still so when the purchase is created.
CheckStands ==
  \A r \in Requests :
    pc[r] \in {"query", "create"} =>
      PurchasedBy(OrgOf[order[r].user], order[r].amphora) = {}

TurnInv == CantPurchaseTwice /\ CheckStands /\ Alone

\* A step that creates nothing and after which who had checked has still.
LEMMA TurnStep ==
  ASSUME TurnInv, Alone', purchases' \subseteq purchases,
         \A p \in purchases : order'[p] = order[p],
         \A r \in Requests : pc'[r] \in {"query", "create"} =>
           \/ pc[r] \in {"query", "create"} /\ order'[r] = order[r]
           \/ PurchasedBy(OrgOf[order'[r].user], order'[r].amphora) = {}
  PROVE  TurnInv'
  <1>1. CantPurchaseTwice'
    BY DEF TurnInv, CantPurchaseTwice
  <1>2. ASSUME NEW org, NEW a, PurchasedBy(org, a) = {}
        PROVE  PurchasedBy(org, a)' = {}
    BY <1>2 DEF PurchasedBy
  <1>3. CheckStands'
    BY <1>2 DEF TurnInv, CheckStands, PurchasedBy
  <1>. QED BY <1>1, <1>3 DEF TurnInv

\* One process at a time: a step of a purchase,
LEMMA RequestTurn ==
  ASSUME TypeInv, TurnInv, Alone', NEW r \in Requests, RequestStep(r)
  PROVE  TurnInv'
  <1>0. r \in Procs /\ pc \in [Procs -> Labels] /\ Requests \subseteq Procs
        /\ order \in [Requests -> Orders \cup {NoOrder}] /\ purchases \subseteq Started
    BY DEF Procs, TypeInv, TypeOK, OrdersStand, Orders
  <1>1. ASSUME NEW u \in Users, NEW a \in Amphorae, CheckCanPurchase(r, u, a)
        PROVE  TurnInv'
    <2>1. /\ purchases' = purchases /\ pc[r] = "idle"
          /\ order' = [order EXCEPT ![r] = [user |-> u, amphora |-> a]]
          /\ pc' = [pc EXCEPT ![r] = IF CanPurchase(u, a) THEN "query" ELSE "refused"]
      BY <1>1 DEF CheckCanPurchase, Goto
    <2>2. r \notin purchases
      BY <1>0, <2>1 DEF Started
    <2>3. pc'[r] = "query" => PurchasedBy(OrgOf[order'[r].user], order'[r].amphora) = {}
      BY <1>0, <2>1 DEF CanPurchase
    <2>4. \A o \in Requests : o # r => pc'[o] = pc[o] /\ order'[o] = order[o]
      BY <1>0, <2>1
    <2>5. pc'[r] # "create"
      BY <1>0, <2>1
    <2>6. purchases \subseteq Requests
      BY DEF TypeInv, TypeOK
    <2>. QED BY <2>1, <2>2, <2>3, <2>4, <2>5, <2>6, TurnStep
  <1>2. CASE CreatePurchase(r)
    <2>1. /\ purchases' = purchases \cup {r} /\ order' = order
          /\ pc[r] = "create" /\ pc' = [pc EXCEPT ![r] = "debit"]
      BY <1>2 DEF CreatePurchase, Goto
    <2>2. PurchasedBy(OrgOf[order[r].user], order[r].amphora) = {}
      BY <2>1 DEF TurnInv, CheckStands
    <2>3. CantPurchaseTwice'
      BY <2>1, <2>2 DEF TurnInv, CantPurchaseTwice, PurchasedBy
    <2>4. CheckStands'
      <3>1. \A o \in Requests : pc'[o] \in {"query", "create"} => FALSE
        BY <1>0, <2>1 DEF Alone, Active
      <3>. QED BY <3>1 DEF CheckStands
    <2>. QED BY <2>3, <2>4 DEF TurnInv
  <1>3. CASE QueryExisting(r) \/ CountPurchases(r) \/ RequestFails(r)
    <2>1. /\ purchases' = purchases /\ order' = order
          /\ \A o \in Requests : pc'[o] \in {"query", "create"} => pc[o] \in {"query", "create"}
      BY <1>0, <1>3 DEF QueryExisting, CountPurchases, RequestFails, Goto, db
    <2>. QED BY <2>1, TurnStep
  <1>4. CASE DebitBuyer(r) \/ CreditSeller(r) \/ TrackCommission(r) \/ StampPurchase(r)
    <2>1. /\ purchases' = purchases /\ order' = order
          /\ \A o \in Requests : pc'[o] \in {"query", "create"} => pc[o] \in {"query", "create"}
      BY <1>0, <1>4 DEF DebitBuyer, CreditSeller, TrackCommission, StampPurchase, Goto
    <2>. QED BY <2>1, TurnStep
  <1>. QED BY <1>1, <1>2, <1>3, <1>4 DEF RequestStep

\* and one of a billing run.
LEMMA RunTurn ==
  ASSUME TypeInv, TurnInv, Alone', NEW g \in Runs, RunStep(g)
  PROVE  TurnInv'
  <1>1. purchases' \subseteq purchases /\ order' = order
    BY DEF RunStep, StartRun, TakePurchase, DebitPurchasingOrganisation,
        CreditAmphoraOrganisation, DeletePurchase, ReadFails, SaveFails, FinishRun,
        KillRun, db
  <1>2. \A o \in Requests : pc'[o] = pc[o]
    BY BillingAssumption
    DEF RunStep, StartRun, TakePurchase, DebitPurchasingOrganisation,
        CreditAmphoraOrganisation, DeletePurchase, ReadFails, SaveFails, FinishRun,
        KillRun, Goto, TypeInv, TypeOK, Procs
  <1>. QED BY <1>1, <1>2, TurnStep

\* With either provider, when one purchase or run is at work at a time, no
\* organisation comes to own two purchases of an Amphora, whoever of its users
\* asks and whatever fails (CanPurchaseAmphoraAsync before CreateAsync).
THEOREM PurchasedOnce == SerialSpec => []CantPurchaseTwice
  <1>1. Init => TypeInv /\ TurnInv
    <2>1. Init => TurnInv
      BY DEF Init, TurnInv, CantPurchaseTwice, CheckStands, Alone, Active, Procs
    <2>. QED BY <2>1, InitType
  <1>2. TypeInv /\ TurnInv /\ [Next /\ Alone']_vars => TypeInv' /\ TurnInv'
    <2> SUFFICES ASSUME TypeInv, TurnInv, [Next /\ Alone']_vars
                 PROVE  TypeInv' /\ TurnInv'
      OBVIOUS
    <2>1. TypeInv'
      BY StepType
    <2>2. ASSUME NEW r \in Requests, RequestStep(r), Alone' PROVE TurnInv'
      BY <2>2, RequestTurn
    <2>3. ASSUME NEW g \in Runs, RunStep(g), Alone' PROVE TurnInv'
      BY <2>3, RunTurn
    <2>4. ASSUME UNCHANGED vars \/ NextMonth \/ \E a \in Amphorae : SoftDelete(a)
          PROVE  TurnInv'
      <3>1. UNCHANGED <<purchases, order, pc>>
        BY <2>4 DEF vars, db, local, NextMonth, SoftDelete
      <3>2. Alone'
        BY <3>1 DEF TurnInv, Alone, Active
      <3>. QED BY <3>1, <3>2, TurnStep
    <2>. QED BY <2>1, <2>2, <2>3, <2>4 DEF Next
  <1>3. TurnInv => CantPurchaseTwice
    BY DEF TurnInv
  <1>. QED BY <1>1, <1>2, <1>3, PTL DEF SerialSpec

------------------------------------------------------------------------------
(* In Sql, when processes take turns: how often a purchase is charged *)

\* The months up to the one a purchase was last debited for, from its first charge.
MonthsPaid(p) ==
  IF FirstMonth(p) <= lastDebit[p] THEN lastDebit[p] - FirstMonth(p) + 1 ELSE 0

\* A request that has debited its purchase and has yet to stamp it, or is dead.
Unstamped(p) == pc[p] \in {"credit", "commission", "count", "stamp", "dead"}

\* Of the purchases: none is charged more often than its months are paid.
ChargesInv ==
  /\ IsFiniteSet(debits) /\ \A d \in debits : d.month <= now
  /\ \A p \in Requests :
       /\ Charges(p) # {} => \E d \in Charges(p) : \A e \in Charges(p) : d.month <= e.month
       /\ Cardinality(Charges(p)) <= MonthsPaid(p) + (IF Unstamped(p) THEN 1 ELSE 0)
       /\ lastDebit[p] <= now
       /\ pc[p] \notin {"done", "dead"} => lastDebit[p] = Null
       /\ Charges(p) # {} => Unstamped(p) \/ pc[p] = "done"
       /\ pc[p] = "dead" => faults > 0

\* Of a request: it has nothing tracked, and its purchase is there.
RequestInv(r) ==
  /\ pending[r] = NoWork
  /\ pc[r] \in {"debit", "credit", "commission", "count", "stamp"} => r \in purchases

\* What a run may save: each purchase dated anew, after all its charges, and charged
\* at most once, no earlier than it is dated.
Fair(w) ==
  /\ IsFiniteSet(w.debits)
  /\ \A x \in w.debits :
       /\ w.dated[x.for] # Null /\ w.dated[x.for] <= x.month /\ x.month <= now
       /\ \A y \in w.debits : x.for = y.for => x = y
  /\ \A p \in Requests : w.dated[p] # Null =>
       /\ lastDebit[p] < w.dated[p] /\ w.dated[p] <= now
       /\ \A d \in Charges(p) : d.month <= w.dated[p]
       /\ pc[p] \in {"done", "dead"}

\* Of a run: what it has tracked is fair, and what it has yet to visit is due.
RunInv(g) ==
  /\ pc[g] = "idle" => pending[g] = NoWork
  /\ Active(g) =>
       /\ pc[g] \in {"next", "debit", "credit", "delete"}
       /\ Fair(pending[g])
       /\ \A p \in todo[g] : lastDebit[p] < now /\ pc[p] \in {"done", "dead"}
                               /\ pending[g].dated[p] = Null
       /\ pc[g] # "next" =>
            /\ cur[g] \notin todo[g]
            /\ pc[g] # "credit" => \A x \in pending[g].debits : x.for # cur[g]
            /\ pc[g] = "debit" => pending[g].dated[cur[g]] # Null

SerialInv ==
  /\ Alone /\ ChargesInv
  /\ \A r \in Requests : RequestInv(r)
  /\ \A g \in Runs : RunInv(g)

\* A purchase has finitely many charges, the first in a month.
LEMMA ChargesType ==
  ASSUME TypeInv, ChargesInv, NEW p \in Requests
  PROVE  /\ IsFiniteSet(Charges(p)) /\ Cardinality(Charges(p)) \in Nat
         /\ Charges(p) = {} => FirstMonth(p) = 0 /\ Cardinality(Charges(p)) = 0
         /\ Charges(p) # {} => /\ FirstMonth(p) \in Months
                               /\ \E d \in Charges(p) : d.month = FirstMonth(p)
                               /\ \A d \in Charges(p) : FirstMonth(p) <= d.month
         /\ FirstMonth(p) \in Nat /\ lastDebit[p] \in Nat
  <1>1. IsFiniteSet(Charges(p))
    BY FS_Subset DEF ChargesInv, Charges
  <1>2. Cardinality(Charges(p)) \in Nat
    BY <1>1, FS_CardinalityType
  <1>3. Charges(p) = {} => FirstMonth(p) = 0 /\ Cardinality(Charges(p)) = 0
    BY FS_EmptySet DEF FirstMonth
  <1>4. ASSUME Charges(p) # {}
        PROVE  /\ FirstMonth(p) \in Months
               /\ \E d \in Charges(p) : d.month = FirstMonth(p)
               /\ \A d \in Charges(p) : FirstMonth(p) <= d.month
    <2> DEFINE months == {d.month : d \in Charges(p)}
    <2>1. PICK d \in Charges(p) : \A e \in Charges(p) : d.month <= e.month
      BY <1>4 DEF ChargesInv
    <2>2. \A e \in Charges(p) : e.month \in Months
      BY DEF Charges, TypeInv, TypeOK, Rows
    <2>3. d.month \in months /\ \A n \in months : d.month <= n
      BY <2>1
    <2>4. FirstMonth(p) = CHOOSE m \in months : \A n \in months : m <= n
      BY <2>3 DEF FirstMonth
    <2>5. FirstMonth(p) \in months /\ \A n \in months : FirstMonth(p) <= n
      BY <2>3, <2>4
    <2>. QED BY <2>2, <2>5
  <1>5. lastDebit[p] \in Nat
    BY BillingAssumption DEF TypeInv, TypeOK, Months, Null
  <1>. QED BY <1>1, <1>2, <1>3, <1>4, <1>5 DEF Months

\* A save that adds the debits N, each the only one of its purchase among them and
\* no earlier than its charges, charges the purchases of the new ones once.
LEMMA ChargesGrow ==
  ASSUME TypeInv, TypeInv', ChargesInv, NEW N \in SUBSET Rows,
         debits' = debits \cup N,
         \A x, y \in N : x.for = y.for => x = y,
         \A x \in N : \A d \in Charges(x.for) : d.month <= x.month,
         NEW p \in Requests
  PROVE  /\ \A x \in N \ debits : x.for = p =>
              /\ Charges(p)' = Charges(p) \cup {x}
              /\ Cardinality(Charges(p)') = Cardinality(Charges(p)) + 1
              /\ \E d \in Charges(p)' : \A e \in Charges(p)' : d.month <= e.month
              /\ FirstMonth(p)' = IF Charges(p) = {} THEN x.month ELSE FirstMonth(p)
         /\ (\A x \in N \ debits : x.for # p) =>
              Charges(p)' = Charges(p) /\ FirstMonth(p)' = FirstMonth(p)
  <1>1. ASSUME NEW x \in N \ debits, x.for = p
        PROVE  /\ Charges(p)' = Charges(p) \cup {x}
               /\ Cardinality(Charges(p)') = Cardinality(Charges(p)) + 1
               /\ \E d \in Charges(p)' : \A e \in Charges(p)' : d.month <= e.month
               /\ FirstMonth(p)' = IF Charges(p) = {} THEN x.month ELSE FirstMonth(p)
    <2>1. Charges(p)' = Charges(p) \cup {x} /\ x \notin Charges(p)
      BY <1>1 DEF Charges
    <2>2. Cardinality(Charges(p)') = Cardinality(Charges(p)) + 1
      BY <2>1, ChargesType, FS_AddElement
    <2>3. /\ x.month \in Months /\ \A d \in Charges(p) : d.month \in Months
          /\ \A d \in Charges(p) : d.month <= x.month
      BY <1>1 DEF Charges, TypeInv, TypeOK, Rows
    <2> DEFINE months == {d.month : d \in Charges(p)'}
    <2>4. FirstMonth(p)' = CHOOSE m \in months : \A n \in months : m <= n
      BY <2>1 DEF FirstMonth
    <2>5. CASE Charges(p) = {}
      <3>1. months = {x.month}
        BY <2>1, <2>5
      <3>2. FirstMonth(p)' = x.month
        BY <2>3, <2>4, <3>1 DEF Months
      <3>3. \A e \in Charges(p)' : x.month <= e.month
        BY <2>1, <2>3, <2>5 DEF Months
      <3>. QED BY <2>1, <2>2, <2>5, <3>2, <3>3
    <2>6. CASE Charges(p) # {}
      <3>1. PICK d \in Charges(p) : d.month = FirstMonth(p)
        BY <2>6, ChargesType
      <3>2. \A e \in Charges(p)' : FirstMonth(p) <= e.month
        BY <2>1, <2>3, <2>6, <3>1, ChargesType
      <3>3. FirstMonth(p) \in months /\ \A n \in months : FirstMonth(p) <= n /\ n \in Months
        BY <2>1, <2>3, <3>1, <3>2
      <3>4. FirstMonth(p)' = FirstMonth(p)
        <4> DEFINE c == CHOOSE m \in months : \A n \in months : m <= n
        <4> HIDE DEF months
        <4>1. c \in months /\ \A n \in months : c <= n
          BY <3>3
        <4>2. c = FirstMonth(p)
          <5>1. c <= FirstMonth(p) /\ FirstMonth(p) <= c /\ c \in Months
                /\ FirstMonth(p) \in Months
            BY <3>3, <4>1
          <5> HIDE DEF c
          <5>. QED BY <5>1 DEF Months
        <4>. QED BY <2>4, <4>2
      <3>. QED BY <2>1, <2>2, <2>6, <3>1, <3>2, <3>4
    <2>. QED BY <2>5, <2>6
  <1>2. ASSUME \A x \in N \ debits : x.for # p
        PROVE  Charges(p)' = Charges(p) /\ FirstMonth(p)' = FirstMonth(p)
    <2>1. Charges(p)' = Charges(p)
      BY <1>2 DEF Charges
    <2>. QED BY <2>1 DEF FirstMonth
  <1>. QED BY <1>1, <1>2

\* Fair work leaves every purchase charged for its months only, and charges none
\* more often than months have begun.
LEMMA FairSave ==
  ASSUME TypeInv, TypeInv', SalesInv, ChargesInv, NEW w \in UnitsOfWork, Fair(w),
         debits' = debits \cup w.debits, now' = now, faults' = faults,
         lastDebit' = [p \in Requests |-> IF w.dated[p] # Null THEN w.dated[p]
                                          ELSE lastDebit[p]],
         \A p \in Requests : pc'[p] = pc[p]
  PROVE  /\ ChargesInv'
         /\ \A x, y \in w.debits : x.for = y.for => x = y
         /\ \A x \in w.debits :
              x.month <= now /\ \A d \in Charges(x.for) : d.month <= x.month
         /\ \A x \in w.debits \ debits :
              Cardinality(Charges(x.for)') <= (now - FirstMonth(x.for)' + 1) + faults
  <1>0. w.debits \in SUBSET Rows /\ w.dated \in [Requests -> Months \cup {Null}]
        /\ now \in Nat /\ faults \in Nat
    BY BillingAssumption DEF UnitsOfWork, TypeInv, TypeOK, Months
  <1>1. \A x \in w.debits : x.for \in Requests /\ x.month \in Months
    BY <1>0 DEF Rows
  <1>2. \A x, y \in w.debits : x.for = y.for => x = y
    BY DEF Fair
  <1>3. \A x \in w.debits : x.month <= now /\ \A d \in Charges(x.for) : d.month <= x.month
    <2>1. SUFFICES ASSUME NEW x \in w.debits
                   PROVE  x.month <= now /\ \A d \in Charges(x.for) : d.month <= x.month
      OBVIOUS
    <2>2. /\ w.dated[x.for] # Null /\ w.dated[x.for] <= x.month /\ x.month <= now
          /\ \A d \in Charges(x.for) : d.month <= w.dated[x.for]
      BY <1>1, <2>1 DEF Fair
    <2>3. \A d \in Charges(x.for) : d.month \in Months
      BY DEF Charges, TypeInv, TypeOK, Rows
    <2>. QED BY <1>0, <1>1, <2>1, <2>2, <2>3 DEF Months, Null
  <1>4. ASSUME NEW p \in Requests
        PROVE  /\ \A x \in w.debits \ debits : x.for = p =>
                    /\ Charges(p)' = Charges(p) \cup {x}
                    /\ Cardinality(Charges(p)') = Cardinality(Charges(p)) + 1
                    /\ \E d \in Charges(p)' : \A e \in Charges(p)' : d.month <= e.month
                    /\ FirstMonth(p)' = IF Charges(p) = {} THEN x.month ELSE FirstMonth(p)
               /\ (\A x \in w.debits \ debits : x.for # p) =>
                    Charges(p)' = Charges(p) /\ FirstMonth(p)' = FirstMonth(p)
    BY <1>0, <1>2, <1>3, ChargesGrow
  <1>5. ASSUME NEW p \in Requests, NEW x \in w.debits \ debits, x.for = p
        PROVE  /\ Cardinality(Charges(p)') <= MonthsPaid(p)' + (IF Unstamped(p) THEN 1 ELSE 0)
               /\ Cardinality(Charges(p)') <= (now - FirstMonth(p)' + 1) + faults
               /\ Unstamped(p) \/ pc[p] = "done"
    <2>1. x.for = p /\ x.month \in Months
      BY <1>1, <1>5
    <2>2. /\ w.dated[p] # Null /\ w.dated[p] <= x.month /\ x.month <= now
          /\ lastDebit[p] < w.dated[p] /\ w.dated[p] <= now
          /\ \A d \in Charges(p) : d.month <= w.dated[p]
          /\ pc[p] \in {"done", "dead"}
      BY <2>1 DEF Fair
    <2>3. lastDebit'[p] = w.dated[p] /\ w.dated[p] \in Nat /\ x.month \in Nat
      BY <1>0, <2>1, <2>2 DEF Months, Null
    <2>4. /\ Cardinality(Charges(p)') = Cardinality(Charges(p)) + 1
          /\ FirstMonth(p)' = IF Charges(p) = {} THEN x.month ELSE FirstMonth(p)
      BY <1>4, <2>1
    <2>5. /\ Cardinality(Charges(p)) \in Nat /\ FirstMonth(p) \in Nat /\ lastDebit[p] \in Nat
          /\ Charges(p) = {} => Cardinality(Charges(p)) = 0
      BY <2>1, ChargesType
    <2>6. MonthsPaid(p)' = IF FirstMonth(p)' <= lastDebit'[p]
                           THEN lastDebit'[p] - FirstMonth(p)' + 1 ELSE 0
      BY DEF MonthsPaid
    <2>7. pc[p] = "dead" => faults > 0 /\ Unstamped(p)
      BY <2>1 DEF ChargesInv, Unstamped
    <2>8. CASE Charges(p) = {}
      <3>1. pc[p] # "done"
        BY <2>1, <2>8 DEF SalesInv, ProcessInv, SavesStand, HasDebit, Charges, Procs
      <3>. QED
        BY <1>0, <2>2, <2>3, <2>4, <2>5, <2>6, <2>7, <2>8, <3>1
    <2>9. CASE Charges(p) # {}
      <3>1. FirstMonth(p) <= w.dated[p]
        <4>1. PICK d \in Charges(p) : d.month = FirstMonth(p)
          BY <2>1, <2>9, ChargesType
        <4>. QED BY <2>2, <4>1
      <3>2. Cardinality(Charges(p)) <= MonthsPaid(p) + (IF Unstamped(p) THEN 1 ELSE 0)
        BY <2>1 DEF ChargesInv
      <3>3. MonthsPaid(p) <= w.dated[p] - FirstMonth(p) /\ MonthsPaid(p) \in Nat
        BY <2>2, <2>3, <2>5, <3>1 DEF MonthsPaid
      <3>4. MonthsPaid(p)' = w.dated[p] - FirstMonth(p) + 1
        BY <2>3, <2>4, <2>6, <2>9, <3>1
      <3>5. Unstamped(p) => pc[p] = "dead"
        BY <2>2 DEF Unstamped
      <3>. QED
        BY <1>0, <2>2, <2>3, <2>4, <2>5, <2>7, <2>9, <3>2, <3>3, <3>4, <3>5
    <2>. QED BY <2>8, <2>9
  <1>6. \A p \in Requests : Unstamped(p)' = Unstamped(p)
    BY DEF Unstamped
  <1>7. ASSUME NEW p \in Requests
        PROVE  /\ Charges(p)' # {} => \E d \in Charges(p)' : \A e \in Charges(p)' : d.month <= e.month
               /\ Cardinality(Charges(p)') <= MonthsPaid(p)' + (IF Unstamped(p) THEN 1 ELSE 0)
               /\ Charges(p)' # {} => Unstamped(p) \/ pc[p] = "done"
    <2>1. CASE \E x \in w.debits \ debits : x.for = p
      BY <1>4, <1>5, <2>1
    <2>2. CASE \A x \in w.debits \ debits : x.for # p
      <3>1. Charges(p)' = Charges(p) /\ FirstMonth(p)' = FirstMonth(p)
        BY <1>4, <2>2
      <3>2. lastDebit[p] <= lastDebit'[p] /\ lastDebit'[p] \in Nat
        BY <1>0, ChargesType DEF Fair, Months, Null
      <3>3. FirstMonth(p) \in Nat /\ lastDebit[p] \in Nat /\ Cardinality(Charges(p)) \in Nat
        BY ChargesType
      <3>4. MonthsPaid(p) <= MonthsPaid(p)' /\ MonthsPaid(p) \in Nat /\ MonthsPaid(p)' \in Nat
        BY <3>1, <3>2, <3>3 DEF MonthsPaid
      <3>5. Cardinality(Charges(p)) <= MonthsPaid(p) + (IF Unstamped(p) THEN 1 ELSE 0)
        BY DEF ChargesInv
      <3>6. Cardinality(Charges(p)') <= MonthsPaid(p)' + (IF Unstamped(p) THEN 1 ELSE 0)
        BY <3>1, <3>3, <3>4, <3>5
      <3>. QED BY <3>1, <3>6 DEF ChargesInv
    <2>. QED BY <2>1, <2>2
  <1>8. \A p \in Requests : lastDebit'[p] <= now /\ (pc[p] \notin {"done", "dead"} => lastDebit'[p] = Null)
    BY DEF Fair, ChargesInv
  <1>9. IsFiniteSet(debits') /\ \A d \in debits' : d.month <= now
    BY <1>3, FS_Union DEF Fair, ChargesInv
  <1>10. ChargesInv'
    BY <1>6, <1>7, <1>8, <1>9 DEF ChargesInv
  <1>. QED BY <1>1, <1>2, <1>3, <1>5, <1>10

\* A step that charges nothing and stamps nothing.
LEMMA StillCharged ==
  ASSUME TypeInv, ChargesInv, debits' = debits, lastDebit' = lastDebit,
         now' \in Nat, now <= now', faults' \in Nat, faults <= faults',
         \A p \in Requests :
           /\ Unstamped(p) => Unstamped(p)'
           /\ pc'[p] = "dead" => faults' > 0
           /\ pc[p] \in {"done", "dead"} => pc'[p] = pc[p]
  PROVE  ChargesInv'
  <1>1. \A p \in Requests : Charges(p)' = Charges(p) /\ FirstMonth(p)' = FirstMonth(p)
                              /\ MonthsPaid(p)' = MonthsPaid(p)
    BY DEF Charges, FirstMonth, MonthsPaid
  <1>2. /\ now \in Nat /\ \A d \in debits : d.month \in Nat
        /\ \A p \in Requests :
             lastDebit[p] \in Nat /\ Cardinality(Charges(p)) \in Nat /\ FirstMonth(p) \in Nat
    BY BillingAssumption, ChargesType DEF TypeInv, TypeOK, Months, Rows
  <1>3. \A p \in Requests : MonthsPaid(p) \in Nat
    BY <1>2 DEF MonthsPaid
  <1>4. \A p \in Requests :
          Cardinality(Charges(p)') <= MonthsPaid(p)' + (IF Unstamped(p)' THEN 1 ELSE 0)
    BY <1>1, <1>2, <1>3 DEF ChargesInv
  <1>5. (\A d \in debits' : d.month <= now') /\ (\A p \in Requests : lastDebit'[p] <= now')
    BY <1>2 DEF ChargesInv
  <1>. QED BY <1>1, <1>4, <1>5 DEF ChargesInv

\* Steps of the abstract view: one that charges nothing, and one that does.
LEMMA NothingCharged ==
  ASSUME debits' = debits, now' = now, faults' \in {faults, faults + 1},
         \A p \in Requests : Cardinality(Charges(p)) \in Nat
  PROVE  Sub!Next
  <1>1. \A p \in Requests : Charges(p)' = Charges(p) /\ FirstMonth(p)' = FirstMonth(p)
    BY DEF Charges, FirstMonth
  <1>2. Sub!Charge({})
    <2>1. [x \in {} |-> 1] \in [{} -> 1 .. now]
      OBVIOUS
    <2>2. [p \in Requests |-> Cardinality(Charges(p)')]
            = [p \in Requests |-> [x \in Requests |-> Cardinality(Charges(x))][p]
                                    + (IF p \in {} THEN 1 ELSE 0)]
      BY <1>1
    <2>3. [p \in Requests |-> FirstMonth(p)']
            = [p \in Requests |-> IF p \in {} /\ [x \in Requests |-> FirstMonth(x)][p] = 0
                                  THEN [x \in {} |-> 1][p]
                                  ELSE [x \in Requests |-> FirstMonth(x)][p]]
      BY <1>1
    <2>. QED BY <2>1, <2>2, <2>3 DEF Sub!Charge
  <1>. QED BY <1>2 DEF Sub!Next

\* Rows of months later than what their purchases were charged for leave the charges fair.
LEMMA SomeCharged ==
  ASSUME TypeInv, TypeInv', ChargesInv, NEW N \in SUBSET Rows,
         debits' = debits \cup N, now' = now, faults' = faults,
         \A x, y \in N : x.for = y.for => x = y,
         \A x \in N : x.month <= now /\ \A d \in Charges(x.for) : d.month <= x.month,
         \A x \in N \ debits :
           Cardinality(Charges(x.for)') <= (now - FirstMonth(x.for)' + 1) + faults
  PROVE  Sub!Next
  <1> DEFINE P == {x.for : x \in N \ debits}
  <1>1. P \in SUBSET Requests
    BY DEF Rows
  <1>2. ASSUME NEW p \in Requests
        PROVE  /\ Cardinality(Charges(p)') = Cardinality(Charges(p)) + (IF p \in P THEN 1 ELSE 0)
               /\ FirstMonth(p)' = IF p \in P /\ FirstMonth(p) = 0 THEN FirstMonth(p)' ELSE FirstMonth(p)
               /\ p \in P => FirstMonth(p)' \in 1 .. now
    <2>0. Cardinality(Charges(p)) \in Nat /\ now \in Nat
          /\ (Charges(p) = {} <=> FirstMonth(p) = 0)
          /\ (Charges(p) # {} => FirstMonth(p) \in 1 .. now)
      <3>1. \A d \in Charges(p) : d.month <= now
        BY DEF ChargesInv, Charges
      <3>2. Cardinality(Charges(p)) \in Nat
        BY ChargesType
      <3>3. Charges(p) = {} => FirstMonth(p) = 0
        BY ChargesType
      <3>4. now \in Nat
        BY BillingAssumption DEF TypeInv, TypeOK, Months
      <3>5. ASSUME Charges(p) # {} PROVE FirstMonth(p) \in 1 .. now
        <4>1. FirstMonth(p) \in Months /\ \E d \in Charges(p) : d.month = FirstMonth(p)
          BY <3>5, ChargesType
        <4>2. FirstMonth(p) <= now
          BY <3>1, <4>1
        <4>. QED BY <3>4, <4>1, <4>2 DEF Months
      <3>. QED BY <3>2, <3>3, <3>4, <3>5
    <2>1. ASSUME NEW x \in N \ debits, x.for = p
          PROVE  /\ Cardinality(Charges(p)') = Cardinality(Charges(p)) + 1
                 /\ FirstMonth(p)' = IF Charges(p) = {} THEN x.month ELSE FirstMonth(p)
                 /\ x.month \in 1 .. now
      <3>1. x.month \in Months /\ x.month <= now
        BY <2>1 DEF Rows
      <3>2. x.month \in 1 .. now
        BY <2>0, <3>1 DEF Months
      <3>3. /\ Cardinality(Charges(p)') = Cardinality(Charges(p)) + 1
            /\ FirstMonth(p)' = IF Charges(p) = {} THEN x.month ELSE FirstMonth(p)
        BY <2>1, ChargesGrow
      <3>. QED BY <3>2, <3>3
    <2>2. (\A x \in N \ debits : x.for # p) =>
            Charges(p)' = Charges(p) /\ FirstMonth(p)' = FirstMonth(p)
      BY ChargesGrow
    <2>3. CASE p \in P
      BY <2>0, <2>1, <2>3
    <2>4. CASE p \notin P
      BY <2>0, <2>2, <2>4
    <2>. QED BY <2>3, <2>4
  <1>3. \A p \in P : Cardinality(Charges(p)') <= (now - FirstMonth(p)' + 1) + faults
    OBVIOUS
  <1> DEFINE first == [p \in P |-> FirstMonth(p)']
  <1>4. first \in [P -> 1 .. now]
    BY <1>1, <1>2
  <1>5. [p \in Requests |-> Cardinality(Charges(p)')]
          = [p \in Requests |-> [x \in Requests |-> Cardinality(Charges(x))][p]
                                  + (IF p \in P THEN 1 ELSE 0)]
    BY <1>2
  <1>6. [p \in Requests |-> FirstMonth(p)']
          = [p \in Requests |-> IF p \in P /\ [x \in Requests |-> FirstMonth(x)][p] = 0
                                THEN first[p] ELSE [x \in Requests |-> FirstMonth(x)][p]]
    BY <1>1, <1>2
  <1>7. \A p \in P : [x \in Requests |-> Cardinality(Charges(x)')][p]
                       <= (now - [x \in Requests |-> FirstMonth(x)'][p] + 1) + faults
    BY <1>1, <1>3
  <1> HIDE DEF P, first
  <1>8. Sub!Charge(P)
    BY <1>4, <1>5, <1>6, <1>7 DEF Sub!Charge
  <1>. QED BY <1>1, <1>8 DEF Sub!Next

\* A run that does nothing keeps its part of the invariant.
LEMMA RunStands ==
  ASSUME TypeInv, NEW g \in Runs, RunInv(g),
         pc'[g] = pc[g], pending'[g] = pending[g], todo'[g] = todo[g], cur'[g] = cur[g],
         debits' = debits, lastDebit' = lastDebit, now' \in Nat, now <= now',
         \A p \in Requests : pc[p] \in {"done", "dead"} => pc'[p] = pc[p]
  PROVE  RunInv(g)'
  <1>1. CASE ~Active(g)
    BY <1>1 DEF RunInv, Active
  <1>2. CASE Active(g)
    <2>0. /\ pending[g].debits \subseteq Rows
          /\ pending[g].dated \in [Requests -> Months \cup {Null}]
          /\ todo[g] \subseteq Requests /\ now \in Nat
          /\ lastDebit \in [Requests -> Months \cup {Null}]
      BY BillingAssumption DEF TypeInv, TypeOK, UnitsOfWork, Procs, Months
    <2>1. Fair(pending[g])'
      <3>1. Fair(pending[g])
        BY <1>2 DEF RunInv
      <3>2. \A x \in pending[g].debits : x.month <= now => x.month <= now'
        BY <2>0 DEF Rows, Months
      <3>3. \A p \in Requests : pending[g].dated[p] <= now => pending[g].dated[p] <= now'
        BY <2>0 DEF Months, Null
      <3>. QED BY <3>1, <3>2, <3>3 DEF Fair, Charges
    <2>2. \A p \in todo[g] : lastDebit[p] < now'
      BY <1>2, <2>0 DEF RunInv, Months, Null
    <2>. QED BY <1>2, <2>0, <2>1, <2>2 DEF RunInv, Active
  <1>. QED BY <1>1, <1>2

\* A step of a purchase is one of the subscription, or none.
LEMMA RequestSerial ==
  ASSUME Provider = "Sql", TypeInv, TypeInv', SalesInv, SerialInv, Alone',
         NEW r \in Requests, RequestStep(r)
  PROVE  SerialInv' /\ Sub!Next
  <1>0. /\ r \in Procs /\ r \notin Runs /\ Requests \subseteq Procs /\ Runs \subseteq Procs
        /\ pc \in [Procs -> Labels] /\ pending \in [Procs -> UnitsOfWork]
        /\ lastDebit \in [Requests -> Months \cup {Null}]
        /\ now \in Nat /\ faults \in Nat /\ faults' \in Nat
        /\ purchases \subseteq Past
    BY BillingAssumption DEF Procs, TypeInv, TypeOK, Months, SalesInv, DatabaseInv
  <1>1. /\ \A o \in Procs : o # r => pc'[o] = pc[o]
        /\ Active(r) \/ pc[r] = "idle"
        /\ pc[r] \notin {"done", "dead"}
        /\ now' = now
        /\ UNCHANGED <<todo, cur>>
    BY <1>0 DEF RequestStep, CheckCanPurchase, QueryExisting, CreatePurchase, DebitBuyer,
                CreditSeller, TrackCommission, CountPurchases, StampPurchase, RequestFails,
                Goto, Active
  <1>2. Active(r) => \A g \in Runs : ~Active(g) /\ ~Active(g)'
    BY <1>0, <1>1 DEF SerialInv, Alone, Active
  <1>3. /\ pending[r] = NoWork /\ ChargesInv
        /\ pc[r] \in {"debit", "credit", "commission", "count", "stamp"} => r \in purchases
        /\ \A g \in Runs : RunInv(g)
    BY DEF SerialInv, RequestInv
  <1>4. \A p \in Requests : Cardinality(Charges(p)) \in Nat
    BY <1>3, ChargesType
  <1>5. ASSUME \A q \in Procs : pending'[q] = pending[q]
                                  \/ (q = r /\ pending'[q] = NoWork),
               purchases \subseteq purchases',
               pc'[r] \in {"debit", "credit", "commission", "count", "stamp"} => r \in purchases',
               pc[r] = "idle" => debits' = debits /\ lastDebit' = lastDebit,
               ChargesInv'
        PROVE  SerialInv'
    <2>1. \A o \in Requests : RequestInv(o)'
      BY <1>0, <1>1, <1>5 DEF SerialInv, RequestInv
    <2>2. ASSUME NEW g \in Runs PROVE RunInv(g)'
      <3>1. /\ pc'[g] = pc[g] /\ pending'[g] = pending[g] /\ todo'[g] = todo[g]
            /\ cur'[g] = cur[g] /\ now' \in Nat /\ now <= now'
            /\ \A p \in Requests : pc[p] \in {"done", "dead"} => pc'[p] = pc[p]
        BY <1>0, <1>1, <1>5
      <3>2. CASE pc[r] = "idle"
        BY <1>3, <1>5, <3>1, <3>2, RunStands
      <3>3. CASE Active(r)
        BY <1>2, <1>3, <3>1, <3>3 DEF RunInv
      <3>. QED BY <1>1, <3>2, <3>3
    <2>. QED BY <1>5, <2>1, <2>2 DEF SerialInv
  <1>6. ASSUME debits' = debits, lastDebit' = lastDebit, faults' = faults,
               Unstamped(r) => Unstamped(r)', pc'[r] # "dead"
        PROVE  ChargesInv' /\ Sub!Next
    <2>1. \A p \in Requests :
            /\ Unstamped(p) => Unstamped(p)'
            /\ pc'[p] = "dead" => faults' > 0
            /\ pc[p] \in {"done", "dead"} => pc'[p] = pc[p]
      BY <1>0, <1>1, <1>3, <1>6 DEF Unstamped, ChargesInv
    <2>2. now' \in Nat /\ now <= now' /\ faults' \in Nat /\ faults <= faults'
      BY <1>0, <1>1, <1>6
    <2>3. ChargesInv'
      BY <1>3, <1>6, <2>1, <2>2, StillCharged
    <2>. QED BY <1>1, <1>4, <1>6, <2>3, NothingCharged
  \* What a request saves: its debit, or its stamp.
  <1>7. ASSUME Saving(r)
        PROVE  /\ Work(r).debits = (IF pc[r] = "debit" THEN {DebitRow(r, r)} ELSE {})
               /\ \A p \in Requests : Work(r).dated[p] =
                    IF p = r /\ pc[r] = "stamp" THEN now ELSE Null
    <2>1. Purchase(r) = r /\ pc[r] # "delete"
      BY <1>7 DEF Purchase, Saving
    <2>2. NoWork.debits = {} /\ \A p \in Requests : NoWork.dated[p] = Null
      BY DEF NoWork
    <2>3. Work(r).debits = IF pc[r] = "debit" THEN {} \cup {DebitRow(r, r)} ELSE {}
      BY <1>0, <1>3, <1>7, <2>1, <2>2, WorkParts
    <2>4. ASSUME NEW p \in Requests
          PROVE  Work(r).dated[p] = IF p = r /\ pc[r] = "stamp" THEN now ELSE Null
      <3>1. \A x \in Requests :
              Work(r).dated[x] = IF x = Purchase(r) /\ pc[r] = "stamp" THEN now
                                 ELSE IF x = Purchase(r) /\ pc[r] = "delete" THEN Null
                                 ELSE pending[r].dated[x]
        BY <1>0, <1>7, WorkParts
      <3>. QED BY <1>3, <2>1, <2>2, <3>1
    <2>. QED BY <2>3, <2>4
  <1>8. ASSUME Saving(r), SaveChanges(r)
        PROVE  /\ debits' = debits \cup (IF pc[r] = "debit" THEN {DebitRow(r, r)} ELSE {})
               /\ lastDebit' = [p \in Requests |-> IF p = r /\ pc[r] = "stamp" THEN now
                                                   ELSE lastDebit[p]]
               /\ pending' = [pending EXCEPT ![r] = NoWork]
    <2>1. now # Null
      BY DEF TypeInv, TypeOK, Months, Null
    <2>. QED BY <1>0, <1>7, <1>8, <2>1, SqlSave
  <1>9. CASE \/ \E u \in Users, a \in Amphorae : CheckCanPurchase(r, u, a)
             \/ QueryExisting(r) \/ CreatePurchase(r) \/ CountPurchases(r)
    <2>1. /\ debits' = debits /\ lastDebit' = lastDebit /\ faults' = faults
          /\ pending' = pending /\ purchases \subseteq purchases'
          /\ Unstamped(r) => Unstamped(r)'
          /\ pc'[r] # "dead"
          /\ pc'[r] \in {"debit", "credit", "commission", "count", "stamp"} => r \in purchases'
      BY <1>0, <1>3, <1>9 DEF CheckCanPurchase, QueryExisting, CreatePurchase, CountPurchases,
                        Goto, Unstamped, db
    <2>. QED BY <1>5, <1>6, <2>1
  <1>10. CASE CreditSeller(r) \/ TrackCommission(r)
    <2>1. Saving(r) /\ SaveChanges(r) /\ pc[r] \in {"credit", "commission"}
      BY <1>0, <1>10 DEF CreditSeller, TrackCommission, Saving
    <2>2. /\ debits' = debits /\ lastDebit' = lastDebit
          /\ pending' = [pending EXCEPT ![r] = NoWork]
      BY <1>0, <1>8, <2>1
    <2>3. /\ faults' = faults /\ purchases' = purchases
          /\ Unstamped(r)' /\ pc'[r] # "dead" /\ r \in purchases
      BY <1>0, <1>3, <1>10 DEF CreditSeller, TrackCommission, Goto, Unstamped
    <2>. QED BY <1>0, <1>5, <1>6, <2>2, <2>3
  <1>11. CASE DebitBuyer(r)
    <2>1. Saving(r) /\ SaveChanges(r) /\ pc[r] = "debit"
      BY <1>0, <1>11 DEF DebitBuyer, Saving
    <2> DEFINE row == DebitRow(r, r)
    <2>2. /\ debits' = debits \cup {row} /\ lastDebit' = lastDebit
          /\ pending' = [pending EXCEPT ![r] = NoWork]
      BY <1>0, <1>8, <2>1
    <2>3. /\ faults' = faults /\ purchases' = purchases
          /\ pc'[r] = "credit" /\ r \in purchases
      BY <1>0, <1>3, <1>11 DEF DebitBuyer, Goto
    <2>4. row.for = r /\ row.month = now /\ row \in Rows
      <3>1. row.for = r /\ row.month = now
        BY DEF DebitRow, Row
      <3>2. row \in debits' /\ debits' \subseteq Rows
        BY <2>2 DEF TypeInv, TypeOK
      <3>. QED BY <3>1, <3>2
    <2> HIDE DEF row
    <2>5. Charges(r) = {} /\ row \notin debits
      BY <1>3, <2>1, <2>4 DEF ChargesInv, Unstamped, Charges
    <2>6. ASSUME NEW p \in Requests
          PROVE  /\ p = r => /\ Charges(p)' = {row}
                             /\ Cardinality(Charges(p)') = 1
                             /\ FirstMonth(p)' = now
                 /\ p # r => Charges(p)' = Charges(p) /\ FirstMonth(p)' = FirstMonth(p)
      <3>1. /\ {row} \in SUBSET Rows
            /\ \A x, y \in {row} : x.for = y.for => x = y
            /\ \A x \in {row} : \A d \in Charges(x.for) : d.month <= x.month
        BY <2>4, <2>5
      <3>2. /\ \A x \in {row} \ debits : x.for = p =>
              /\ Charges(p)' = Charges(p) \cup {x}
              /\ Cardinality(Charges(p)') = Cardinality(Charges(p)) + 1
              /\ FirstMonth(p)' = IF Charges(p) = {} THEN x.month ELSE FirstMonth(p)
            /\ (\A x \in {row} \ debits : x.for # p) =>
              Charges(p)' = Charges(p) /\ FirstMonth(p)' = FirstMonth(p)
        BY <1>3, <2>2, <3>1, ChargesGrow
      <3>3. Charges(p) = {} => Cardinality(Charges(p)) = 0
        BY FS_EmptySet
      <3>. QED BY <2>4, <2>5, <3>2, <3>3
    <2>7. Sub!Next
      <3>1. \A x \in {row} : x.month <= now /\ \A d \in Charges(x.for) : d.month <= x.month
        BY <1>0, <2>4, <2>5
      <3>2. \A x \in {row} \ debits :
              Cardinality(Charges(x.for)') <= (now - FirstMonth(x.for)' + 1) + faults
        BY <1>0, <2>4, <2>6
      <3>3. {row} \in SUBSET Rows /\ \A x, y \in {row} : x.for = y.for => x = y
        BY <2>4
      <3>. QED BY <1>1, <1>3, <2>2, <2>3, <3>1, <3>2, <3>3, SomeCharged
    <2>8. ChargesInv'
      <3>1. IsFiniteSet(debits') /\ \A d \in debits' : d.month <= now'
        BY <1>0, <1>1, <1>3, <2>2, <2>4, FS_AddElement DEF ChargesInv
      <3>2. ASSUME NEW p \in Requests, p # r
            PROVE  /\ Charges(p)' = Charges(p) /\ FirstMonth(p)' = FirstMonth(p)
                   /\ MonthsPaid(p)' = MonthsPaid(p) /\ Unstamped(p)' = Unstamped(p)
                   /\ pc'[p] = pc[p]
        BY <1>0, <1>1, <2>2, <2>6, <3>2 DEF MonthsPaid, Unstamped
      <3>3. /\ \E d \in Charges(r)' : \A e \in Charges(r)' : d.month <= e.month
            /\ Cardinality(Charges(r)') <= MonthsPaid(r)' + 1
            /\ Unstamped(r)'
        <4>1. MonthsPaid(r)' \in Nat
          <5>1. lastDebit'[r] \in Nat /\ FirstMonth(r)' \in Nat
            BY <1>0, <2>2, <2>6 DEF Months, Null
          <5>. QED BY <5>1 DEF MonthsPaid
        <4>. QED BY <1>0, <2>3, <2>4, <2>6, <4>1 DEF Unstamped
      <3>4. lastDebit'[r] <= now' /\ lastDebit'[r] = Null
        BY <1>1, <1>3, <2>2 DEF ChargesInv
      <3>. QED BY <1>1, <1>3, <2>2, <2>3, <3>1, <3>2, <3>3, <3>4 DEF ChargesInv
    <2>. QED BY <1>0, <1>5, <2>1, <2>2, <2>3, <2>7, <2>8
  <1>12. CASE StampPurchase(r)
    <2>1. Saving(r) /\ SaveChanges(r) /\ pc[r] = "stamp"
      BY <1>0, <1>12 DEF StampPurchase, Saving
    <2>2. /\ debits' = debits /\ lastDebit' = [lastDebit EXCEPT ![r] = now]
          /\ pending' = [pending EXCEPT ![r] = NoWork]
      BY <1>0, <1>8, <2>1
    <2>3. faults' = faults /\ purchases' = purchases /\ pc'[r] = "done"
      BY <1>0, <1>12 DEF StampPurchase, Goto
    <2>4. \A p \in Requests : Charges(p)' = Charges(p) /\ FirstMonth(p)' = FirstMonth(p)
      BY <2>2 DEF Charges, FirstMonth
    <2>5. \A p \in Requests : p # r =>
            MonthsPaid(p)' = MonthsPaid(p) /\ Unstamped(p)' = Unstamped(p) /\ pc'[p] = pc[p]
      BY <1>0, <1>1, <2>2, <2>4 DEF MonthsPaid, Unstamped
    <2>6. Cardinality(Charges(r)') <= MonthsPaid(r)' /\ MonthsPaid(r)' \in Nat
      <3>1. lastDebit[r] = 0 /\ lastDebit'[r] = now
        BY <1>0, <1>3, <2>1, <2>2 DEF ChargesInv, Null
      <3>2. Cardinality(Charges(r)) <= MonthsPaid(r) + 1 /\ Cardinality(Charges(r)) \in Nat
            /\ FirstMonth(r) \in Nat
        BY <1>3, <2>1, ChargesType DEF ChargesInv, Unstamped
      <3>3. CASE Charges(r) = {}
        <4>1. Cardinality(Charges(r)') = 0 /\ FirstMonth(r)' = 0
          BY <1>3, <2>4, <3>3, ChargesType
        <4>. QED BY <1>0, <3>1, <4>1 DEF MonthsPaid
      <3>4. CASE Charges(r) # {}
        <4>1. PICK d \in Charges(r) : d.month = FirstMonth(r) /\ FirstMonth(r) \in Months
          BY <1>3, <3>4, ChargesType
        <4>2. FirstMonth(r) <= now /\ FirstMonth(r) >= 1
          BY <1>3, <4>1 DEF ChargesInv, Charges, Months
        <4>3. MonthsPaid(r) = 0
          BY <3>1, <3>2, <4>2 DEF MonthsPaid
        <4>4. MonthsPaid(r)' = now - FirstMonth(r) + 1
          BY <2>4, <3>1, <4>2 DEF MonthsPaid
        <4>. QED BY <1>0, <2>4, <3>2, <4>2, <4>3, <4>4
      <3>. QED BY <3>3, <3>4
    <2>7. ChargesInv'
      <3>1. lastDebit'[r] <= now' /\ ~Unstamped(r)'
        BY <1>0, <1>1, <2>2, <2>3 DEF Unstamped
      <3>2. \A p \in Requests :
              Cardinality(Charges(p)') <= MonthsPaid(p)' + (IF Unstamped(p)' THEN 1 ELSE 0)
        BY <1>3, <2>4, <2>5, <2>6, <3>1 DEF ChargesInv
      <3>3. \A p \in Requests : p # r => lastDebit'[p] = lastDebit[p]
        BY <1>0, <2>2
      <3>. QED BY <1>1, <1>3, <2>2, <2>3, <2>4, <2>5, <3>1, <3>2, <3>3 DEF ChargesInv
    <2>8. Sub!Next
      BY <1>1, <1>4, <2>2, <2>3, NothingCharged
    <2>. QED BY <1>0, <1>5, <2>1, <2>2, <2>3, <2>7, <2>8
  <1>13. CASE RequestFails(r)
    <2>1. CanSave(Work(r))
      <3>1. CASE Saving(r)
        <4>1. \A p \in Requests : Work(r).dated[p] # Null => p = r /\ pc[r] = "stamp"
          BY <1>7, <3>1
        <4>2. Dated(Work(r)) \subseteq purchases
          BY <1>3, <4>1 DEF Dated
        <4>3. Work(r).commissions \subseteq {CommissionRow(r, r)}
              /\ (Work(r).commissions # {} => pc[r] = "commission")
          <5>1. Purchase(r) = r /\ NoWork.commissions = {}
            BY DEF Purchase, NoWork
          <5>. QED BY <1>0, <1>3, <3>1, <5>1, WorkParts
        <4>4. {x.for : x \in Work(r).commissions} \subseteq purchases
          BY <1>3, <4>3 DEF CommissionRow, Row
        <4>. QED BY <4>2, <4>4 DEF CanSave
      <3>2. CASE ~Saving(r)
        <4>1. Work(r) = NoWork
          BY <1>0, <1>3, <1>13, <3>2 DEF RequestFails, Saving, Work
        <4>. QED BY <4>1 DEF CanSave, Dated, NoWork
      <3>. QED BY <3>1, <3>2
    <2>2. faults' = faults + 1
      BY <1>13, <2>1 DEF RequestFails, Fault
    <2>3. debits' = debits /\ lastDebit' = lastDebit
      BY <1>13, SqlCut DEF RequestFails
    <2>4. pending' = pending /\ purchases' = purchases /\ pc'[r] = "dead"
      BY <1>0, <1>13 DEF RequestFails, Goto
    <2>5. \A p \in Requests :
            /\ Unstamped(p) => Unstamped(p)'
            /\ pc'[p] = "dead" => faults' > 0
            /\ pc[p] \in {"done", "dead"} => pc'[p] = pc[p]
      BY <1>0, <1>1, <2>2, <2>4 DEF Unstamped
    <2>6. now' \in Nat /\ now <= now' /\ faults' \in Nat /\ faults <= faults'
      BY <1>0, <1>1, <2>2
    <2>7. ChargesInv'
      BY <1>3, <2>3, <2>5, <2>6, StillCharged
    <2>8. Sub!Next
      BY <1>1, <1>4, <2>2, <2>3, NothingCharged
    <2>. QED BY <1>0, <1>5, <2>3, <2>4, <2>7, <2>8
  <1>. QED BY <1>9, <1>10, <1>11, <1>12, <1>13 DEF RequestStep

\* What a run is about to save is fair, and leaves its later purchases undated.
LEMMA WorkFair ==
  ASSUME TypeInv, SalesInv, ChargesInv, NEW g \in Runs, RunInv(g),
         pc[g] \in {"debit", "credit", "delete"}
  PROVE  /\ Fair(Work(g)) /\ Work(g) \in UnitsOfWork
         /\ \A p \in todo[g] : Work(g).dated[p] = Null
  <1>0. /\ g \in Procs /\ g \notin Requests /\ Purchase(g) = cur[g] /\ cur[g] \in Requests
        /\ pending[g].debits \subseteq Rows /\ todo[g] \subseteq Requests
        /\ pending[g].dated \in [Requests -> Months \cup {Null}] /\ now \in Nat
    BY BillingAssumption DEF Procs, Purchase, TypeInv, TypeOK, UnitsOfWork, Months
  <1>1. Saving(g) /\ Active(g)
    BY <1>0 DEF Saving, Active
  <1>2. Work(g).debits = IF pc[g] = "debit" THEN pending[g].debits \cup {DebitRow(g, cur[g])}
                         ELSE pending[g].debits
    BY <1>0, <1>1, WorkParts
  <1>3. \A x \in Requests :
          Work(g).dated[x] = IF x = cur[g] /\ pc[g] = "delete" THEN Null
                             ELSE pending[g].dated[x]
    <2>1. \A x \in Requests :
            Work(g).dated[x] = IF x = Purchase(g) /\ pc[g] = "stamp" THEN now
                               ELSE IF x = Purchase(g) /\ pc[g] = "delete" THEN Null
                               ELSE pending[g].dated[x]
      BY <1>0, <1>1, WorkParts
    <2>. QED BY <1>0, <2>1
  <1>4. /\ Fair(pending[g]) /\ \A p \in todo[g] : pending[g].dated[p] = Null
        /\ cur[g] \notin todo[g]
        /\ pc[g] # "credit" => \A x \in pending[g].debits : x.for # cur[g]
        /\ pc[g] = "debit" => pending[g].dated[cur[g]] # Null
    BY <1>1 DEF RunInv
  <1>5. Work(g) \in UnitsOfWork
    BY <1>0, WorkType
  <1>6. Fair(Work(g))
    <2>1. IsFiniteSet(Work(g).debits)
      BY <1>2, <1>4, FS_AddElement DEF Fair
    <2>2. \A p \in Requests : Work(g).dated[p] # Null =>
            /\ lastDebit[p] < Work(g).dated[p] /\ Work(g).dated[p] <= now
            /\ \A d \in Charges(p) : d.month <= Work(g).dated[p]
            /\ pc[p] \in {"done", "dead"}
      BY <1>3, <1>4 DEF Fair
    <2>3. DebitRow(g, cur[g]).for = cur[g] /\ DebitRow(g, cur[g]).month = now
      BY DEF DebitRow, Row
    <2>4. ASSUME NEW x \in Work(g).debits
          PROVE  /\ Work(g).dated[x.for] # Null /\ Work(g).dated[x.for] <= x.month
                 /\ x.month <= now
                 /\ \A y \in Work(g).debits : x.for = y.for => x = y
      <3>1. CASE pc[g] = "debit"
        <4>1. CASE x \in pending[g].debits
          BY <1>0, <1>2, <1>3, <1>4, <2>3, <3>1, <4>1 DEF Fair, Rows
        <4>2. CASE x = DebitRow(g, cur[g])
          BY <1>0, <1>2, <1>3, <1>4, <2>3, <3>1, <4>2 DEF Fair
        <4>. QED BY <1>2, <3>1, <4>1, <4>2
      <3>2. CASE pc[g] # "debit"
        <4>1. x \in pending[g].debits /\ x.for \in Requests
          BY <1>0, <1>2, <3>2 DEF Rows
        <4>2. Work(g).dated[x.for] = pending[g].dated[x.for]
          BY <1>3, <1>4, <3>2, <4>1
        <4>. QED BY <1>2, <1>4, <3>2, <4>1, <4>2 DEF Fair
      <3>. QED BY <3>1, <3>2
    <2>. QED BY <2>1, <2>2, <2>4 DEF Fair
  <1>7. \A p \in todo[g] : Work(g).dated[p] = Null
    BY <1>0, <1>3, <1>4
  <1>. QED BY <1>5, <1>6, <1>7

\* Nothing to save is fair.
LEMMA NoWorkFair == ASSUME TypeInv PROVE Fair(NoWork) /\ Fair(NoWork)'
  BY FS_EmptySet DEF Fair, NoWork

\* A step of a billing run is one of the subscription, or none.
LEMMA RunSerial ==
  ASSUME Provider = "Sql", MonthsAhead = 0, TypeInv, TypeInv', SalesInv, SerialInv, Alone',
         NEW g \in Runs, RunStep(g)
  PROVE  SerialInv' /\ Sub!Next
  <1>0. /\ g \in Procs /\ g \notin Requests /\ Requests \subseteq Procs /\ Runs \subseteq Procs
        /\ Requests \cap Runs = {}
        /\ pc \in [Procs -> Labels] /\ pending \in [Procs -> UnitsOfWork]
        /\ todo \in [Runs -> SUBSET Requests] /\ cur \in [Runs -> Requests]
        /\ lastDebit \in [Requests -> Months \cup {Null}]
        /\ now \in Nat /\ faults \in Nat /\ faults' \in Nat
        /\ purchases \subseteq Past
    BY BillingAssumption DEF Procs, TypeInv, TypeOK, Months, SalesInv, DatabaseInv
  <1>1. /\ \A o \in Procs : o # g => pc'[o] = pc[o]
        /\ now' = now /\ faults' \in {faults, faults + 1}
        /\ Active(g) \/ (pc[g] = "idle" /\ Active(g)')
    BY <1>0 DEF RunStep, StartRun, TakePurchase, DebitPurchasingOrganisation,
                CreditAmphoraOrganisation, DeletePurchase, ReadFails, SaveFails, FinishRun,
                KillRun, Goto, Active, Fault
  <1>2. /\ ChargesInv /\ RunInv(g)
        /\ \A o \in Runs : RunInv(o)
        /\ \A r \in Requests : pending[r] = NoWork
    BY DEF SerialInv, RequestInv
  <1>3. \A o \in Procs : o # g => ~Active(o)'
    BY <1>0, <1>1 DEF SerialInv, Alone, Active
  <1>4. \A p \in Requests : Cardinality(Charges(p)) \in Nat /\ pc'[p] = pc[p]
    BY <1>0, <1>1, <1>2, ChargesType
  <1>5. ASSUME \A o \in Procs : o # g => pending'[o] = pending[o], ChargesInv', RunInv(g)'
        PROVE  SerialInv'
    <2>1. ASSUME NEW r \in Requests PROVE RequestInv(r)'
      <3>1. ~Active(r)' /\ pending'[r] = NoWork
        BY <1>0, <1>2, <1>3, <1>5
      <3>. QED BY <3>1 DEF RequestInv, Active
    <2>2. ASSUME NEW o \in Runs, o # g PROVE RunInv(o)'
      <3>1. ~Active(o)' /\ pending'[o] = pending[o] /\ pc'[o] = pc[o]
        BY <1>0, <1>1, <1>3, <1>5, <2>2
      <3>. QED BY <1>2, <2>2, <3>1 DEF RunInv
    <2>. QED BY <1>5, <2>1, <2>2 DEF SerialInv
  <1>6. ASSUME debits' = debits, lastDebit' = lastDebit
        PROVE  ChargesInv' /\ Sub!Next /\ \A p \in Requests : Charges(p)' = Charges(p)
    <2>1. \A p \in Requests :
            /\ Unstamped(p) => Unstamped(p)'
            /\ pc'[p] = "dead" => faults' > 0
            /\ pc[p] \in {"done", "dead"} => pc'[p] = pc[p]
      BY <1>0, <1>1, <1>2, <1>4 DEF Unstamped, ChargesInv
    <2>2. now' \in Nat /\ now <= now' /\ faults' \in Nat /\ faults <= faults'
      BY <1>0, <1>1
    <2>3. ChargesInv'
      BY <1>2, <1>6, <2>1, <2>2, StillCharged
    <2>. QED BY <1>1, <1>4, <1>6, <2>3, NothingCharged DEF Charges
  \* Fairness of what is tracked lasts through a step that saves nothing.
  <1>7. ASSUME NEW w, Fair(w), debits' = debits, lastDebit' = lastDebit
        PROVE  Fair(w)'
    BY <1>1, <1>4, <1>7 DEF Fair, Charges
  <1>8. ASSUME Flush(g, Work(g)), Saved(g, Work(g)), Active(g), pc[g] # "next", faults' = faults,
               todo'[g] = todo[g], cur'[g] = cur[g], pc'[g] \in {"credit", "next"}
        PROVE  SerialInv' /\ Sub!Next
    <2> DEFINE w == Work(g)
    <2>0. pc[g] \in {"debit", "credit", "delete"}
      BY <1>2, <1>8 DEF RunInv
    <2>1. Fair(w) /\ w \in UnitsOfWork /\ \A p \in todo[g] : w.dated[p] = Null
      BY <1>2, <2>0, WorkFair
    <2>2. /\ debits' = debits \cup w.debits
          /\ lastDebit' = [p \in Requests |-> IF w.dated[p] # Null THEN w.dated[p]
                                              ELSE lastDebit[p]]
          /\ pending' = [pending EXCEPT ![g] = NoWork]
      BY <1>8, SqlFlush DEF Flush, Saved
    <2> HIDE DEF w
    <2>3. /\ ChargesInv'
          /\ \A x, y \in w.debits : x.for = y.for => x = y
          /\ \A x \in w.debits :
               x.month <= now /\ \A d \in Charges(x.for) : d.month <= x.month
          /\ \A x \in w.debits \ debits :
               Cardinality(Charges(x.for)') <= (now - FirstMonth(x.for)' + 1) + faults
      BY <1>1, <1>2, <1>4, <1>8, <2>1, <2>2, FairSave
    <2>4. Sub!Next
      <3>1. w.debits \in SUBSET Rows
        BY <2>1 DEF UnitsOfWork
      <3>. QED BY <1>1, <1>2, <1>8, <2>2, <2>3, <3>1, SomeCharged
    <2>5. RunInv(g)'
      <3>1. pending'[g] = NoWork
        BY <1>0, <2>2
      <3>2. Fair(pending[g])'
        BY <3>1, NoWorkFair DEF Fair, Charges
      <3>3. \A p \in todo'[g] : /\ lastDebit'[p] < now' /\ pc'[p] \in {"done", "dead"}
                                /\ pending'[g].dated[p] = Null
        <4>1. \A p \in todo[g] : lastDebit[p] < now /\ pc[p] \in {"done", "dead"}
          BY <1>2, <1>8 DEF RunInv
        <4>2. \A p \in todo[g] : p \in Requests /\ NoWork.dated[p] = Null
          BY <1>0 DEF NoWork
        <4>. QED BY <1>1, <1>4, <1>8, <2>1, <2>2, <3>1, <4>1, <4>2
      <3>4. pc[g] # "next" => cur[g] \notin todo[g]
        BY <1>2, <1>8 DEF RunInv
      <3>. QED BY <1>8, <3>1, <3>2, <3>3, <3>4 DEF RunInv
    <2>. QED BY <1>0, <1>5, <2>2, <2>3, <2>4, <2>5
  <1>9. ASSUME NEW month \in 1 .. (now + MonthsAhead), StartRun(g, month)
        PROVE  SerialInv' /\ Sub!Next
    <2>1. /\ UNCHANGED <<debits, lastDebit, pending>> /\ pc[g] = "idle"
          /\ pc'[g] = "next" /\ todo'[g] = Due(month)
      BY <1>0, <1>9 DEF StartRun, Goto, db
    <2>2. month \in Nat /\ month <= now
      BY <1>0
    <2>3. pending[g] = NoWork /\ pending'[g] = NoWork
      BY <1>2, <2>1 DEF RunInv
    <2>4. \A p \in todo'[g] : /\ lastDebit'[p] < now' /\ pc'[p] \in {"done", "dead"}
                              /\ pending'[g].dated[p] = Null
      <3>1. ASSUME NEW p \in Due(month) PROVE lastDebit[p] < now /\ pc'[p] \in {"done", "dead"}
        <4>1. p \in purchases /\ p \in Past /\ p \in Requests /\ lastDebit[p] < month
          BY <1>0 DEF Due, Past
        <4>2. lastDebit[p] < now
          BY <1>0, <2>2, <4>1 DEF Months, Null
        <4>3. ~Active(p)' /\ pc'[p] = pc[p]
          BY <1>0, <1>1, <1>3, <4>1
        <4>. QED BY <1>0, <4>1, <4>2, <4>3 DEF Past, Active, Labels
      <3>2. \A p \in Due(month) : NoWork.dated[p] = Null
        BY <1>0 DEF NoWork, Due, Past
      <3>. QED BY <1>1, <2>1, <2>3, <3>1, <3>2
    <2>5. Fair(pending[g])'
      BY <2>3, NoWorkFair DEF Fair, Charges
    <2>6. RunInv(g)'
      BY <2>1, <2>4, <2>5 DEF RunInv
    <2>. QED BY <1>5, <1>6, <2>1, <2>6
  <1>10. ASSUME NEW p \in Requests, TakePurchase(g, p) PROVE SerialInv' /\ Sub!Next
    <2>1. /\ debits' = debits /\ lastDebit' = lastDebit /\ pc[g] = "next" /\ p \in todo[g]
          /\ pc'[g] \in {"delete", "debit"} /\ todo'[g] = todo[g] \ {p} /\ cur'[g] = p
          /\ \A o \in Procs : o # g => pending'[o] = pending[o]
          /\ pending'[g] = [pending[g] EXCEPT !.dated[p] = now]
      BY <1>0, <1>10 DEF TakePurchase, Goto, db
    <2>2. /\ pending'[g].debits = pending[g].debits
          /\ pending'[g].dated = [pending[g].dated EXCEPT ![p] = now]
          /\ pending[g].dated \in [Requests -> Months \cup {Null}]
          /\ pending[g].debits \subseteq Rows
      BY <1>0, <2>1 DEF UnitsOfWork
    <2>3. /\ Fair(pending[g]) /\ Active(g) /\ todo[g] \subseteq Requests
          /\ \A x \in todo[g] : lastDebit[x] < now /\ pc[x] \in {"done", "dead"}
                                  /\ pending[g].dated[x] = Null
      BY <1>0, <1>2, <2>1 DEF RunInv, Active
    <2>4. \A x \in pending[g].debits : x.for # p /\ x.for \in Requests
      BY <2>1, <2>2, <2>3 DEF Fair, Rows
    <2>5. Fair(pending[g])'
      <3>1. \A x \in Requests : pending'[g].dated[x] # Null =>
              /\ lastDebit'[x] < pending'[g].dated[x] /\ pending'[g].dated[x] <= now'
              /\ \A d \in Charges(x)' : d.month <= pending'[g].dated[x]
              /\ pc'[x] \in {"done", "dead"}
        <4>1. ASSUME NEW x \in Requests, x # p PROVE pending'[g].dated[x] = pending[g].dated[x]
          BY <2>2, <4>1
        <4>2. pending'[g].dated[p] = now /\ \A d \in Charges(p) : d.month <= now
          BY <1>2, <2>2 DEF ChargesInv, Charges
        <4>. QED BY <1>0, <1>1, <1>4, <1>6, <2>1, <2>3, <4>1, <4>2 DEF Fair
      <3>2. \A x \in pending'[g].debits :
              /\ pending'[g].dated[x.for] # Null /\ pending'[g].dated[x.for] <= x.month
              /\ x.month <= now'
              /\ \A y \in pending'[g].debits : x.for = y.for => x = y
        BY <1>1, <2>2, <2>3, <2>4 DEF Fair
      <3>3. IsFiniteSet(pending'[g].debits)
        BY <2>2, <2>3 DEF Fair
      <3>. QED BY <3>1, <3>2, <3>3 DEF Fair
    <2>6. \A x \in todo'[g] : /\ lastDebit'[x] < now' /\ pc'[x] \in {"done", "dead"}
                              /\ pending'[g].dated[x] = Null
      BY <1>1, <1>4, <2>1, <2>2, <2>3
    <2>7. /\ cur'[g] \notin todo'[g]
          /\ \A x \in pending'[g].debits : x.for # cur'[g]
          /\ pending'[g].dated[cur'[g]] # Null
      <3>1. now # Null
        BY DEF TypeInv, TypeOK, Months, Null
      <3>. QED BY <2>1, <2>2, <2>4, <3>1
    <2>8. RunInv(g)'
      BY <2>1, <2>5, <2>6, <2>7 DEF RunInv
    <2>. QED BY <1>5, <1>6, <2>1, <2>8
  <1>11. CASE DebitPurchasingOrganisation(g) \/ CreditAmphoraOrganisation(g)
    <2>1. /\ Flush(g, Work(g)) /\ Saved(g, Work(g)) /\ Active(g) /\ pc[g] # "next"
          /\ faults' = faults
          /\ todo'[g] = todo[g] /\ cur'[g] = cur[g] /\ pc'[g] \in {"credit", "next"}
      BY <1>0, <1>11 DEF SaveChanges, DebitPurchasingOrganisation, CreditAmphoraOrganisation, Goto, Active
    <2>. QED BY <1>8, <2>1
  \* A step that saves nothing and leaves the purchase in hand, what it tracked as
  \* it was or as it would have saved it.
  <1>12. ASSUME debits' = debits, lastDebit' = lastDebit, todo'[g] = todo[g],
                \A o \in Procs : o # g => pending'[o] = pending[o],
                \/ pc'[g] \in {"done", "dead"}
                \/ /\ pc'[g] = "next" /\ Active(g)
                   /\ \/ pending'[g] = pending[g]
                      \/ pending'[g] = Work(g) /\ pc[g] \in {"debit", "credit", "delete"}
         PROVE  SerialInv' /\ Sub!Next
    <2>1. CASE pc'[g] \in {"done", "dead"}
      <3>1. RunInv(g)'
        BY <2>1 DEF RunInv, Active
      <3>. QED BY <1>5, <1>6, <1>12, <3>1
    <2>2. CASE pc'[g] = "next" /\ Active(g)
      <3>1. Fair(pending'[g]) /\ \A p \in todo[g] : pending'[g].dated[p] = Null
        <4>1. Fair(pending[g]) /\ \A p \in todo[g] : pending[g].dated[p] = Null
          BY <1>2, <2>2 DEF RunInv
        <4>2. CASE pending'[g] = pending[g]
          BY <4>1, <4>2
        <4>3. CASE pending'[g] = Work(g) /\ pc[g] \in {"debit", "credit", "delete"}
          <5>1. Fair(Work(g)) /\ \A p \in todo[g] : Work(g).dated[p] = Null
            BY <1>2, <4>3, WorkFair
          <5>. QED BY <4>3, <5>1
        <4>. QED BY <1>12, <2>2, <4>2, <4>3
      <3>2. Fair(pending[g])'
        BY <1>1, <1>4, <1>12, <3>1 DEF Fair, Charges
      <3>3. \A p \in todo'[g] : /\ lastDebit'[p] < now' /\ pc'[p] \in {"done", "dead"}
                                /\ pending'[g].dated[p] = Null
        BY <1>0, <1>1, <1>2, <1>4, <1>12, <2>2, <3>1 DEF RunInv
      <3>4. RunInv(g)'
        BY <2>2, <3>2, <3>3 DEF RunInv
      <3>. QED BY <1>5, <1>6, <1>12, <3>4
    <2>. QED BY <1>12, <2>1, <2>2
  <1>13. CASE DeletePurchase(g)
    <2>1. /\ Active(g) /\ pc[g] # "next" /\ faults' = faults
          /\ todo'[g] = todo[g] /\ cur'[g] = cur[g] /\ pc'[g] = "next"
      BY <1>0, <1>13 DEF DeletePurchase, Goto, Active
    <2>2. CASE cur[g] \in purchases
      BY <1>8, <1>13, <2>1, <2>2 DEF DeletePurchase
    <2>3. CASE cur[g] \notin purchases
      BY <1>12, <1>13, <2>1, <2>3 DEF DeletePurchase
    <2>. QED BY <2>2, <2>3
  <1>14. CASE ReadFails(g)
    <2>1. UNCHANGED <<debits, lastDebit, todo, pending>> /\ pc'[g] = "next" /\ Active(g)
      BY <1>0, <1>14 DEF ReadFails, Goto, Active, db
    <2>. QED BY <1>12, <2>1
  <1>15. CASE SaveFails(g)
    <2>1. /\ SaveIsCutShort(g) /\ todo' = todo /\ pc'[g] = "next" /\ Active(g)
          /\ pending' = [pending EXCEPT ![g] = Work(g)] /\ pc[g] \in {"debit", "credit", "delete"}
      BY <1>0, <1>15 DEF SaveFails, Goto, Active
    <2>2. debits' = debits /\ lastDebit' = lastDebit
      BY <2>1, SqlCut
    <2>. QED BY <1>0, <1>12, <2>1, <2>2
  <1>16. CASE FinishRun(g) \/ KillRun(g)
    <2>1. debits' = debits /\ lastDebit' = lastDebit
      BY <1>16, SqlCut DEF FinishRun, KillRun, db
    <2>2. todo' = todo /\ pending' = pending /\ pc'[g] \in {"done", "dead"}
      BY <1>0, <1>16 DEF FinishRun, KillRun, Goto
    <2>. QED BY <1>12, <2>1, <2>2
  <1>. QED BY <1>9, <1>10, <1>11, <1>13, <1>14, <1>15, <1>16 DEF RunStep

\* The calendar turns the page, or an Amphora is deleted: nothing is charged.
LEMMA OutsideSerial ==
  ASSUME TypeInv, TypeInv', SerialInv,
         NextMonth \/ (\E a \in Amphorae : SoftDelete(a)) \/ UNCHANGED vars
  PROVE  SerialInv' /\ [Sub!Next]_Sub!subscription
  <1>1. /\ UNCHANGED <<debits, lastDebit, purchases, pc, pending, todo, cur, faults>>
        /\ now \in Nat /\ faults \in Nat
        /\ now' = now \/ (now < MaxMonth /\ now' = now + 1)
    BY BillingAssumption DEF NextMonth, SoftDelete, vars, db, local, TypeInv, TypeOK, Months
  <1>2. now' \in Nat /\ now <= now'
    BY <1>1
  <1>3. ChargesInv /\ Alone /\ (\A r \in Requests : RequestInv(r)) /\ \A g \in Runs : RunInv(g)
    BY DEF SerialInv
  <1>4. ChargesInv'
    <2>1. \A p \in Requests :
            /\ Unstamped(p) => Unstamped(p)'
            /\ pc'[p] = "dead" => faults' > 0
            /\ pc[p] \in {"done", "dead"} => pc'[p] = pc[p]
      BY <1>1, <1>3 DEF Unstamped, ChargesInv
    <2>2. faults' \in Nat /\ faults <= faults'
      BY <1>1
    <2>. QED BY <1>1, <1>2, <1>3, <2>1, <2>2, StillCharged
  <1>5. \A g \in Runs : RunInv(g)'
    BY <1>1, <1>2, <1>3, RunStands
  <1>6. (\A r \in Requests : RequestInv(r)') /\ Alone'
    BY <1>1, <1>3 DEF RequestInv, Alone, Active
  <1>7. [Sub!Next]_Sub!subscription
    <2>1. \A p \in Requests : Charges(p)' = Charges(p) /\ FirstMonth(p)' = FirstMonth(p)
      BY <1>1 DEF Charges, FirstMonth
    <2>2. /\ [p \in Requests |-> Cardinality(Charges(p)')]
               = [p \in Requests |-> Cardinality(Charges(p))]
          /\ [p \in Requests |-> FirstMonth(p)'] = [p \in Requests |-> FirstMonth(p)]
      BY <2>1
    <2>3. CASE now' = now
      BY <1>1, <2>2, <2>3 DEF Sub!subscription
    <2>4. CASE now < MaxMonth /\ now' = now + 1
      BY <1>1, <2>2, <2>4 DEF Sub!Next, Sub!NextMonth
    <2>. QED BY <1>1, <2>3, <2>4
  <1>. QED BY <1>3, <1>4, <1>5, <1>6, <1>7 DEF SerialInv

\* The start is that of the subscription.
LEMMA InitSerial == Init => SerialInv /\ Sub!Init
  <1> SUFFICES ASSUME Init PROVE SerialInv /\ Sub!Init
    OBVIOUS
  <1>1. \A p \in Requests : Charges(p) = {} /\ FirstMonth(p) = 0 /\ Cardinality(Charges(p)) = 0
    BY FS_EmptySet DEF Init, Charges, FirstMonth
  <1>2. ChargesInv
    BY <1>1, FS_EmptySet DEF Init, ChargesInv, MonthsPaid, Unstamped, Null, Procs
  <1>3. Alone /\ (\A r \in Requests : RequestInv(r)) /\ \A g \in Runs : RunInv(g)
    BY DEF Init, Alone, Active, RequestInv, RunInv, Procs
  <1>4. Sub!Init
    BY <1>1 DEF Init, Sub!Init
  <1>. QED BY <1>2, <1>3, <1>4 DEF SerialInv

\* In Sql, when one purchase or run is at work at a time and no month is billed
\* ahead, a purchase is charged once for each month begun since its first charge,
\* or less often, and each failure accounts for one charge too many at most: with
\* any number of purchases, runs, months and failures (LastDebitTime, assigned
\* before the debit in PopulateDebitsAndCreditsAsync and saved by it, and the
\* pending changes that a failed save leaves to a later one).
THEOREM ChargedByTheMonth ==
  ASSUME Provider = "Sql", MonthsAhead = 0
  PROVE  SerialSpec => ChargedMonthly
  <1>1. SerialSpec => [](TypeInv /\ SalesInv)
    <2>1. SerialSpec => Spec
      <3>1. [Next /\ Alone']_vars => [Next]_vars
        OBVIOUS
      <3>. QED BY <3>1, PTL DEF SerialSpec, Spec
    <2>. QED BY <2>1, TypeInvariant, SalesInvariant, PTL
  <1>2. /\ TypeInv /\ SalesInv /\ (TypeInv /\ SalesInv)' /\ SerialInv /\ [Next /\ Alone']_vars
        => SerialInv' /\ [Sub!Next]_Sub!subscription
    <2> SUFFICES ASSUME TypeInv, SalesInv, TypeInv', SerialInv, [Next /\ Alone']_vars
                 PROVE  SerialInv' /\ [Sub!Next]_Sub!subscription
      OBVIOUS
    <2>1. ASSUME NEW r \in Requests, RequestStep(r), Alone' PROVE SerialInv' /\ Sub!Next
      BY <2>1, RequestSerial
    <2>2. ASSUME NEW g \in Runs, RunStep(g), Alone' PROVE SerialInv' /\ Sub!Next
      BY <2>2, RunSerial
    <2>3. CASE NextMonth \/ (\E a \in Amphorae : SoftDelete(a)) \/ UNCHANGED vars
      BY <2>3, OutsideSerial
    <2>. QED BY <2>1, <2>2, <2>3 DEF Next
  <1>. QED BY <1>1, <1>2, InitSerial, PTL DEF SerialSpec, ChargedMonthly, Sub!Spec

------------------------------------------------------------------------------
(* When processes take turns: no run leaves a purchase uncharged *)

\* The purchases nobody was charged for.
Uncharged == {p \in purchases : Charges(p) = {}}

\* The runs that reported an error, or may have saved a debit time without its debit.
Harmed == {g \in Runs : \/ \E p \in Requests : report[g][p] = "error"
                        \/ Provider = "Cosmos" /\ pc[g] = "dead"}

\* The purchases a run has yet to pass.
InHand(g) == pc[g] \in {"debit", "credit", "delete"}
ToVisit(g) == todo[g] \cup {p \in {cur[g]} : InHand(g)}

\* The copy a process may write back misses no debit but those it is about to write.
FreshCopy(q) ==
  Provider = "Cosmos" /\ Active(q) => debits \subseteq seen[q].debits \cup pending[q].debits

\* Of a request: its purchase is charged from the first debit on, and stamped last.
RequestTidy(r) ==
  /\ RequestInv(r)
  /\ \A k \in commissions : k.by = r => pc[r] \in {"count", "stamp", "done", "dead"}
  /\ pc[r] \notin {"done", "dead"} => lastDebit[r] = Null
  /\ pc[r] \in {"credit", "commission", "count", "stamp", "done"} => Charges(r) # {}

\* Of a run that met no error: it tracks the debit time of the purchase in hand only,
\* and what it has yet to pass it has not charged.
RunClean(g) ==
  /\ pending[g].commissions = {}
  /\ \A p \in Requests : pending[g].dated[p] # Null => pc[g] \in {"debit", "delete"} /\ p = cur[g]
  /\ ToVisit(g) \subseteq purchases
  /\ \A k \in commissions : k.by = g => k.for \notin ToVisit(g)

\* Of a run.
RunTidy(g) ==
  /\ pc[g] = "idle" =>
       /\ pending[g] = NoWork
       /\ \A k \in commissions : k.by # g
       /\ \A p \in Requests : report[g][p] = "none"
  /\ Active(g) =>
       /\ pc[g] \in {"next", "debit", "credit", "delete"}
       /\ ToVisit(g) \subseteq Past
       /\ \A p \in Requests : pending[g].dated[p] # Null => p \in Past
       /\ \A k \in pending[g].commissions : k.by = g
       /\ InHand(g) => cur[g] \notin todo[g]
       /\ \A p \in ToVisit(g) : report[g][p] = "none"
       /\ g \notin Harmed => RunClean(g)

\* A dead request takes a failure, and a harmed run another.
FaultsInv ==
  /\ Harmed # {} => faults > 0
  /\ (\E r \in Requests : pc[r] = "dead") => faults > 0
  /\ Harmed # {} /\ (\E r \in Requests : pc[r] = "dead") => faults > 1

\* While no run is harmed, what is uncharged was never debited, and a run that is at
\* work has yet to pass it.
WaitInv ==
  Harmed = {} =>
    \A p \in Uncharged :
      /\ lastDebit[p] = Null
      /\ \A g \in Runs : Active(g) => p \in ToVisit(g) /\ ~(pc[g] = "credit" /\ cur[g] = p)

UnchargedInv ==
  /\ Alone /\ purchases \subseteq Past
  /\ \A q \in Procs : FreshCopy(q)
  /\ \A r \in Requests : RequestTidy(r)
  /\ \A g \in Runs : RunTidy(g)
  /\ FaultsInv /\ WaitInv

\* A flush of what a process tracks loses no debit, for its copy is fresh,
LEMMA FlushGrows ==
  ASSUME NEW q \in Procs, FreshCopy(q), Active(q), NEW w, Flush(q, w),
         \A x \in pending[q].debits : x.org \in Touched(w) => x \in w.debits
  PROVE  /\ debits \subseteq debits' /\ w.debits \subseteq debits'
         /\ debits' \subseteq debits \cup seen[q].debits \cup w.debits
  <1>1. CASE Provider = "Sql"
    BY <1>1, SqlFlush
  <1>2. CASE Provider = "Cosmos"
    <2>1. debits' = {x \in debits : x.org \notin Touched(w)}
                      \cup {x \in seen[q].debits \cup w.debits : x.org \in Touched(w)}
      BY <1>2 DEF Flush, Stored
    <2>2. \A x \in w.debits : x.org \in Touched(w)
      BY DEF Touched
    <2>3. debits \subseteq seen[q].debits \cup pending[q].debits
      BY <1>2 DEF FreshCopy
    <2>. QED BY <2>1, <2>2, <2>3
  <1>. QED BY <1>1, <1>2, BillingAssumption

\* the copy stays so when the save succeeds,
LEMMA SaveGrows ==
  ASSUME TypeInv, NEW q \in Procs, FreshCopy(q), Active(q), NEW w, Flush(q, w), Saved(q, w),
         pending[q].debits \subseteq w.debits
  PROVE  debits \subseteq debits' /\ w.debits \subseteq debits' /\ FreshCopy(q)'
  <1>1. /\ debits \subseteq debits' /\ w.debits \subseteq debits'
        /\ debits' \subseteq debits \cup seen[q].debits \cup w.debits
    BY FlushGrows
  <1>2. ASSUME Provider = "Cosmos"
        PROVE  debits' \subseteq seen'[q].debits
    <2>1. seen' = [seen EXCEPT ![q] = [debits |-> @.debits \cup w.debits,
                                       credits |-> @.credits \cup w.credits]]
      BY <1>2 DEF Saved
    <2>2. seen'[q].debits = seen[q].debits \cup w.debits
      BY <2>1 DEF TypeInv, TypeOK
    <2>3. debits \subseteq seen[q].debits \cup pending[q].debits
      BY <1>2 DEF FreshCopy
    <2>. QED BY <1>1, <2>2, <2>3
  <1>. QED BY <1>1, <1>2 DEF FreshCopy

\* and when it is cut short no debit is lost either.
LEMMA CutGrows ==
  ASSUME TypeInv, NEW q \in Procs, FreshCopy(q), Active(q), SaveIsCutShort(q),
         pending[q].debits \subseteq Work(q).debits
  PROVE  /\ debits \subseteq debits'
         /\ debits' \subseteq debits \cup seen[q].debits \cup Work(q).debits
         /\ commissions' \subseteq commissions \cup Work(q).commissions
         /\ \A p \in Requests : lastDebit'[p] # lastDebit[p] =>
              Provider = "Cosmos" /\ p \in purchases /\ Work(q).dated[p] # Null
  <1>1. PICK part \in WrittenBeforeFailure(Work(q)) :
          Flush(q, part) /\ commissions' = commissions \cup part.commissions
    BY DEF SaveIsCutShort
  <1>2. CASE Provider = "Sql"
    <2>1. UNCHANGED <<debits, commissions, lastDebit>>
      BY <1>2, SqlCut
    <2>. QED BY <2>1
  <1>3. CASE Provider = "Cosmos"
    <2>0. part \in WrittenBeforeFailure(Work(q)) /\ Provider # "Sql"
      BY <1>1, <1>3
    <2>1. PICK orgs \in SUBSET Touched(Work(q)) :
            /\ part.debits = {x \in Work(q).debits : x.org \in orgs}
            /\ part.credits = {x \in Work(q).credits : x.org \in orgs}
      BY <2>0 DEF WrittenBeforeFailure
    <2>2. /\ part.commissions \subseteq Work(q).commissions
          /\ \A p \in Requests : part.dated[p] # Null =>
               p \in purchases /\ p \in Dated(Work(q))
      BY <2>0 DEF WrittenBeforeFailure
    <2>3. \A x \in pending[q].debits : x.org \in Touched(part) => x \in part.debits
      BY <2>1 DEF Touched
    <2>4. debits \subseteq debits' /\ debits' \subseteq debits \cup seen[q].debits \cup part.debits
      BY <1>1, <2>3, FlushGrows
    <2>5. \A p \in Requests : lastDebit'[p] = IF part.dated[p] # Null THEN part.dated[p]
                                              ELSE lastDebit[p]
      BY <1>1 DEF Flush
    <2>. QED BY <1>1, <1>3, <2>1, <2>2, <2>4, <2>5 DEF Dated
  <1>. QED BY <1>2, <1>3, BillingAssumption

\* The debit times a save writes.
LEMMA WorkDates ==
  ASSUME TypeInv, NEW q \in Procs, Saving(q), NEW x \in Requests
  PROVE  /\ x = Purchase(q) /\ pc[q] = "stamp" => Work(q).dated[x] = now
         /\ x = Purchase(q) /\ pc[q] = "delete" => Work(q).dated[x] = Null
         /\ ~(x = Purchase(q) /\ pc[q] \in {"stamp", "delete"}) =>
              Work(q).dated[x] = pending[q].dated[x]
  <1>1. /\ pending[q] \in UnitsOfWork /\ pending[q].dated \in [Requests -> Months \cup {Null}]
    BY DEF TypeInv, TypeOK, UnitsOfWork
  <1>2. CASE pc[q] = "stamp"
    BY <1>1, <1>2 DEF Work, UnitsOfWork
  <1>3. CASE pc[q] = "delete"
    BY <1>1, <1>3 DEF Work, UnitsOfWork
  <1>4. CASE pc[q] \in {"debit", "commission"}
    BY <1>1, <1>4 DEF Work, UnitsOfWork
  <1>5. CASE pc[q] = "credit"
    BY <1>1, <1>5 DEF Work, UnitsOfWork
  <1>. QED BY <1>2, <1>3, <1>4, <1>5 DEF Saving

\* What a request saves.
LEMMA RequestWork ==
  ASSUME TypeInv, NEW r \in Requests, pending[r] = NoWork, Saving(r)
  PROVE  /\ Work(r).debits = IF pc[r] = "debit" THEN {DebitRow(r, r)} ELSE {}
         /\ Work(r).commissions = IF pc[r] = "commission" THEN {CommissionRow(r, r)} ELSE {}
         /\ \A p \in Requests : Work(r).dated[p] # Null => p = r /\ pc[r] = "stamp"
  <1>1. /\ NoWork.debits = {} /\ NoWork.commissions = {}
        /\ \A p \in Requests : NoWork.dated[p] = Null
    BY DEF NoWork
  <1>2. r \in Procs /\ Purchase(r) = r /\ pc[r] # "delete"
    BY BillingAssumption DEF Procs, Purchase, Saving
  <1>3. Work(r).debits = IF pc[r] = "debit" THEN pending[r].debits \cup {DebitRow(r, r)}
                         ELSE pending[r].debits
    BY <1>2, WorkParts
  <1>4. Work(r).commissions = IF pc[r] = "commission"
                              THEN pending[r].commissions \cup {CommissionRow(r, r)}
                              ELSE pending[r].commissions
    BY <1>2, WorkParts
  <1>5. ASSUME NEW p \in Requests
        PROVE  Work(r).dated[p] = IF p = r /\ pc[r] = "stamp" THEN now ELSE pending[r].dated[p]
    BY <1>2, WorkDates
  <1>. QED BY <1>1, <1>3, <1>4, <1>5

\* A request meets no refusal, and fails by a failure only.
LEMMA RequestCanSave ==
  ASSUME TypeInv, NEW r \in Requests, RequestTidy(r),
         pc[r] \in {"query", "create", "debit", "credit", "commission", "count", "stamp"}
  PROVE  CanSave(Work(r))
  <1>0. r \in Procs /\ r \notin Runs /\ pending[r] = NoWork
    BY BillingAssumption DEF Procs, RequestTidy, RequestInv
  <1>1. CASE pc[r] \in {"query", "create", "count"}
    <2>1. Work(r) = NoWork
      BY <1>0, <1>1 DEF Work
    <2>. QED BY <2>1 DEF CanSave, NoWork, Dated
  <1>2. CASE pc[r] \in {"debit", "credit", "commission", "stamp"}
    <2>1. Saving(r) /\ Purchase(r) = r
      BY <1>0, <1>2 DEF Saving, Purchase
    <2>2. r \in purchases
      BY <1>2 DEF RequestTidy, RequestInv
    <2>3. /\ Work(r).commissions = IF pc[r] = "commission" THEN {CommissionRow(r, r)} ELSE {}
          /\ \A p \in Requests : Work(r).dated[p] # Null => p = r
      BY <1>0, <1>2, <2>1, RequestWork
    <2>4. CommissionRow(r, r).by = r /\ CommissionRow(r, r).for = r
      BY DEF CommissionRow, Row
    <2>5. \A k \in Work(r).commissions : k.for \in purchases /\ k \notin commissions
      BY <2>2, <2>3, <2>4 DEF RequestTidy
    <2>. QED BY <2>2, <2>3, <2>5 DEF CanSave, Dated
  <1>. QED BY <1>1, <1>2

\* What a step of a purchase does.
RequestMoved(r) ==
  /\ debits \subseteq debits' /\ FreshCopy(r)'
  /\ \A o \in Procs : o # r =>
       pc'[o] = pc[o] /\ pending'[o] = pending[o] /\ seen'[o] = seen[o]
  /\ UNCHANGED <<todo, cur, report>> /\ pending'[r] = NoWork
  /\ purchases \subseteq purchases'
  /\ \A p \in purchases' : p \in purchases \/ (p = r /\ pc'[r] = "debit")
  /\ \A k \in commissions' : k \in commissions \/ (k.by = r /\ pc'[r] \in {"count", "dead"})
  /\ \A p \in Requests : lastDebit'[p] # lastDebit[p] => p = r /\ pc'[r] \in {"done", "dead"}
  /\ pc[r] \notin {"done", "dead"} /\ pc'[r] # "idle"
  /\ lastDebit'[r] # lastDebit[r] => pc[r] = "stamp"
  /\ IF pc'[r] = "dead" THEN faults' = faults + 1 ELSE faults' = faults
  /\ pc[r] \in {"count", "stamp"} => pc'[r] \in {"stamp", "done", "dead"}
  /\ pc'[r] \in {"debit", "credit", "commission", "count", "stamp"} => r \in purchases'
  /\ pc'[r] \in {"credit", "commission", "count", "stamp", "done"} => Charges(r)' # {}
  /\ r \in Past => r \in Past'

\* Every step of a purchase does, under what the invariant says of it.
LEMMA RequestMoves ==
  ASSUME TypeInv, NEW r \in Requests, RequestTidy(r), FreshCopy(r), r \in purchases => r \in Past,
         RequestStep(r)
  PROVE  RequestMoved(r)
  <1>0. /\ r \in Procs /\ r \notin Runs /\ pc \in [Procs -> Labels] /\ Requests \subseteq Procs
        /\ pending[r] = NoWork /\ pending \in [Procs -> UnitsOfWork]
        /\ seen \in [Procs -> [debits : SUBSET Rows, credits : SUBSET Rows]]
    BY BillingAssumption DEF Procs, RequestTidy, RequestInv, TypeInv, TypeOK
  <1>1. ASSUME NEW u \in Users, NEW a \in Amphorae, CheckCanPurchase(r, u, a)
        PROVE  RequestMoved(r)
    <2>1. /\ UNCHANGED <<purchases, lastDebit, debits, commissions, todo, cur, report, pending, faults>>
          /\ pc[r] = "idle" /\ LoadAccounts(r)
          /\ \E l \in {"query", "refused"} : pc' = [pc EXCEPT ![r] = l]
      BY <1>1 DEF CheckCanPurchase, Goto
    <2>2. /\ pc'[r] \in {"query", "refused"} /\ \A o \in Procs : o # r => pc'[o] = pc[o]
          /\ r \notin Past
      BY <1>0, <2>1 DEF Past
    <2>3. /\ \A o \in Procs : o # r => seen'[o] = seen[o]
          /\ Provider = "Cosmos" => seen'[r].debits = debits
      BY <1>0, <2>1 DEF LoadAccounts
    <2>4. FreshCopy(r)'
      BY <2>1, <2>3 DEF FreshCopy
    <2>. QED BY <1>0, <2>1, <2>2, <2>3, <2>4 DEF RequestMoved
  <1>2. CASE QueryExisting(r) \/ CountPurchases(r)
    <2>1. /\ UNCHANGED <<purchases, lastDebit, debits, commissions, todo, cur, report, pending,
                         seen, faults>>
          /\ \/ pc[r] = "query" /\ \E l \in {"returned", "create"} : pc' = [pc EXCEPT ![r] = l]
             \/ pc[r] = "count" /\ pc' = [pc EXCEPT ![r] = "stamp"]
      BY <1>2 DEF QueryExisting, CountPurchases, Goto, db
    <2>2. /\ \A o \in Procs : o # r => pc'[o] = pc[o]
          /\ \/ pc[r] = "query" /\ pc'[r] \in {"returned", "create"} /\ r \notin Past
             \/ pc[r] = "count" /\ pc'[r] = "stamp" /\ r \in Past'
      BY <1>0, <2>1 DEF Past
    <2>3. pc[r] = "count" => r \in purchases /\ Charges(r) # {}
      BY DEF RequestTidy, RequestInv
    <2>4. Charges(r)' = Charges(r)
      BY <2>1 DEF Charges
    <2>5. FreshCopy(r)'
      BY <2>1, <2>2 DEF FreshCopy, Active
    <2>. QED BY <1>0, <2>1, <2>2, <2>3, <2>4, <2>5 DEF RequestMoved
  <1>3. CASE CreatePurchase(r)
    <2>1. /\ UNCHANGED <<lastDebit, debits, commissions, todo, cur, report, pending, seen, faults>>
          /\ pc[r] = "create" /\ pc' = [pc EXCEPT ![r] = "debit"]
          /\ purchases' = purchases \cup {r}
      BY <1>3 DEF CreatePurchase, Goto
    <2>2. /\ \A o \in Procs : o # r => pc'[o] = pc[o]
          /\ pc'[r] = "debit" /\ r \notin Past
      BY <1>0, <2>1 DEF Past
    <2>3. FreshCopy(r)'
      BY <2>1, <2>2 DEF FreshCopy, Active
    <2>. QED BY <1>0, <2>1, <2>2, <2>3 DEF RequestMoved
  <1>4. CASE DebitBuyer(r) \/ CreditSeller(r) \/ TrackCommission(r) \/ StampPurchase(r)
    <2>1. /\ UNCHANGED <<purchases, todo, cur, report, faults>>
          /\ \/ pc[r] = "debit" /\ pc' = [pc EXCEPT ![r] = "credit"]
             \/ pc[r] = "credit" /\ pc' = [pc EXCEPT ![r] = "commission"]
             \/ pc[r] = "commission" /\ pc' = [pc EXCEPT ![r] = "count"]
             \/ pc[r] = "stamp" /\ pc' = [pc EXCEPT ![r] = "done"]
          /\ SaveChanges(r)
      BY <1>4 DEF DebitBuyer, CreditSeller, TrackCommission, StampPurchase, Goto
    <2>2. /\ \A o \in Procs : o # r => pc'[o] = pc[o]
          /\ \/ pc[r] = "debit" /\ pc'[r] = "credit"
             \/ pc[r] = "credit" /\ pc'[r] = "commission"
             \/ pc[r] = "commission" /\ pc'[r] = "count"
             \/ pc[r] = "stamp" /\ pc'[r] = "done"
      BY <1>0, <2>1
    <2>3. Saving(r) /\ Purchase(r) = r /\ Active(r) /\ r \in Past'
      BY <1>0, <2>2 DEF Saving, Purchase, Active, Past
    <2>4. /\ Work(r).debits = IF pc[r] = "debit" THEN {DebitRow(r, r)} ELSE {}
          /\ Work(r).commissions = IF pc[r] = "commission" THEN {CommissionRow(r, r)} ELSE {}
          /\ \A p \in Requests : Work(r).dated[p] # Null => p = r /\ pc[r] = "stamp"
      BY <1>0, <2>2, <2>3, RequestWork
    <2>5. debits \subseteq debits' /\ Work(r).debits \subseteq debits' /\ FreshCopy(r)'
      <3>1. Flush(r, Work(r)) /\ Saved(r, Work(r)) /\ pending[r].debits \subseteq Work(r).debits
        BY <1>0, <2>1 DEF SaveChanges, NoWork
      <3>. QED BY <1>0, <2>3, <3>1, SaveGrows
    <2>6. /\ commissions' = commissions \cup Work(r).commissions
          /\ \A p \in Requests : lastDebit'[p] = IF Work(r).dated[p] # Null THEN Work(r).dated[p]
                                                 ELSE lastDebit[p]
          /\ pending' = [pending EXCEPT ![r] = NoWork]
          /\ \A o \in Procs : o # r => seen'[o] = seen[o]
      BY <1>0, <2>1 DEF SaveChanges, Flush, Saved
    <2>7. \A k \in commissions' : k \in commissions \/ (k.by = r /\ pc[r] = "commission")
      BY <2>4, <2>6 DEF CommissionRow, Row
    <2>8. Charges(r)' # {}
      <3>1. CASE pc[r] = "debit"
        <4>1. DebitRow(r, r) \in debits' /\ DebitRow(r, r).for = r
          BY <2>4, <2>5, <3>1 DEF DebitRow, Row
        <4>. QED BY <4>1 DEF Charges
      <3>2. CASE pc[r] # "debit"
        <4>1. Charges(r) # {}
          BY <2>2, <3>2 DEF RequestTidy
        <4>. QED BY <2>5, <4>1 DEF Charges
      <3>. QED BY <3>1, <3>2
    <2>9. r \in purchases
      BY <2>2 DEF RequestTidy, RequestInv
    <2>10. pending'[r] = NoWork /\ \A o \in Procs : o # r => pending'[o] = pending[o]
      BY <1>0, <2>6
    <2>11. \A p \in Requests : lastDebit'[p] # lastDebit[p] => p = r /\ pc[r] = "stamp"
      BY <2>4, <2>6
    <2>. QED
      BY <2>1, <2>2, <2>3, <2>5, <2>6, <2>7, <2>8, <2>9, <2>10, <2>11 DEF RequestMoved
  <1>5. CASE RequestFails(r)
    <2>1. /\ UNCHANGED <<purchases, todo, cur, report, pending, seen>>
          /\ pc[r] \in {"query", "create", "debit", "credit", "commission", "count", "stamp"}
          /\ pc' = [pc EXCEPT ![r] = "dead"]
          /\ SaveIsCutShort(r)
      BY <1>5 DEF RequestFails, Goto
    <2>2. pc'[r] = "dead" /\ (\A o \in Procs : o # r => pc'[o] = pc[o]) /\ Active(r)
          /\ r \in Past'
      BY <1>0, <2>1 DEF Active, Past
    <2>3. faults' = faults + 1
      BY <1>5, <2>1, RequestCanSave DEF RequestFails, Fault
    <2>4. /\ \A k \in Work(r).commissions : k.by = r
          /\ \A p \in Requests : Work(r).dated[p] # Null => p = r /\ pc[r] = "stamp"
      <3>1. CASE pc[r] \in {"query", "create", "count"}
        <4>1. Work(r) = NoWork
          BY <1>0, <3>1 DEF Work
        <4>. QED BY <4>1 DEF NoWork
      <3>2. CASE pc[r] \in {"debit", "credit", "commission", "stamp"}
        <4>1. Saving(r) /\ Purchase(r) = r
          BY <1>0, <3>2 DEF Saving, Purchase
        <4>2. CommissionRow(r, r).by = r
          BY DEF CommissionRow, Row
        <4>3. /\ Work(r).commissions = IF pc[r] = "commission" THEN {CommissionRow(r, r)} ELSE {}
              /\ \A p \in Requests : Work(r).dated[p] # Null => p = r /\ pc[r] = "stamp"
          BY <1>0, <4>1, RequestWork
        <4>. QED BY <4>2, <4>3
      <3>. QED BY <2>1, <3>1, <3>2
    <2>5. /\ debits \subseteq debits'
          /\ commissions' \subseteq commissions \cup Work(r).commissions
          /\ \A p \in Requests : lastDebit'[p] # lastDebit[p] => Work(r).dated[p] # Null
      <3>1. pending[r].debits \subseteq Work(r).debits
        BY <1>0 DEF NoWork
      <3>. QED BY <1>0, <2>1, <2>2, <3>1, CutGrows
    <2>6. FreshCopy(r)'
      BY <2>2 DEF FreshCopy, Active
    <2>. QED BY <1>0, <2>1, <2>2, <2>3, <2>4, <2>5, <2>6 DEF RequestMoved
  <1>. QED BY <1>1, <1>2, <1>3, <1>4, <1>5 DEF RequestStep

\* Who is at work waits for nobody: a request that comes meanwhile is refused.
LEMMA RequestAlone ==
  ASSUME TypeInv, Alone, Alone', NEW r \in Requests, RequestStep(r),
         NEW q \in Procs, q # r, Active(q)
  PROVE  pc'[r] = "refused" /\ debits' = debits
  <1>0. r \in Procs /\ pc \in [Procs -> Labels] /\ \A o \in Procs : o # r => pc'[o] = pc[o]
    BY DEF Procs, TypeInv, TypeOK, RequestStep, CheckCanPurchase, QueryExisting, CreatePurchase,
           DebitBuyer, CreditSeller, TrackCommission, CountPurchases, StampPurchase,
           RequestFails, Goto
  <1>1. ~Active(r) /\ ~Active(r)'
    BY <1>0 DEF Alone, Active
  <1>2. PICK u \in Users, a \in Amphorae : CheckCanPurchase(r, u, a)
    BY <1>0, <1>1 DEF Active, RequestStep, QueryExisting, CreatePurchase, DebitBuyer,
                      CreditSeller, TrackCommission, CountPurchases, StampPurchase, RequestFails
  <1>. QED BY <1>0, <1>1, <1>2 DEF CheckCanPurchase, Goto, Active

\* A step of a purchase keeps the invariant.
LEMMA RequestUncharged ==
  ASSUME TypeInv, UnchargedInv, Alone', NEW r \in Requests, RequestStep(r)
  PROVE  UnchargedInv'
  <1>0. r \in Procs /\ r \notin Runs /\ Requests \subseteq Procs /\ Runs \subseteq Procs
        /\ faults \in Nat /\ Past \subseteq Requests /\ purchases \subseteq Requests
    BY BillingAssumption DEF Procs, TypeInv, TypeOK, Past
  <1>1. RequestMoved(r)
    BY <1>0, RequestMoves DEF UnchargedInv
  <1>2. /\ \A o \in Procs : o # r => pc'[o] = pc[o] /\ pending'[o] = pending[o] /\ seen'[o] = seen[o]
        /\ \A o \in Runs : pc'[o] = pc[o] /\ pending'[o] = pending[o]
        /\ todo' = todo /\ cur' = cur /\ report' = report
        /\ debits \subseteq debits' /\ purchases \subseteq purchases'
        /\ \A k \in commissions' : k \in commissions \/ (k.by = r /\ pc'[r] \in {"count", "dead"})
    BY <1>0, <1>1 DEF RequestMoved
  <1>3. Harmed' = Harmed /\ \A g \in Runs : ToVisit(g)' = ToVisit(g)
    BY <1>2 DEF Harmed, ToVisit, InHand
  <1>4. Past \subseteq Past' /\ purchases' \subseteq Past'
    <2>1. Past \subseteq Past'
      BY <1>0, <1>1, <1>2 DEF Past, RequestMoved
    <2>. QED BY <1>0, <1>1, <2>1 DEF RequestMoved, UnchargedInv, Past
  <1>5. \A p \in Requests : Charges(p) \subseteq Charges(p)'
    BY <1>2 DEF Charges
  <1>6. ASSUME NEW q \in Procs PROVE FreshCopy(q)'
    <2>1. CASE q = r
      BY <1>1, <2>1 DEF RequestMoved
    <2>2. CASE q # r /\ Active(q)
      <3>1. debits' = debits
        BY <2>2, RequestAlone DEF UnchargedInv
      <3>. QED BY <1>2, <2>2, <3>1 DEF FreshCopy, Active, UnchargedInv
    <2>3. CASE q # r /\ ~Active(q)
      BY <1>2, <2>3 DEF FreshCopy, Active
    <2>. QED BY <2>1, <2>2, <2>3
  <1>7. ASSUME NEW o \in Requests PROVE RequestTidy(o)'
    <2>0. RequestTidy(o) /\ o \in Procs
      BY <1>0 DEF UnchargedInv
    <2>1. CASE o = r
      BY <1>1, <2>0, <2>1 DEF RequestMoved, RequestTidy, RequestInv
    <2>2. CASE o # r
      <3>1. lastDebit'[o] = lastDebit[o]
        BY <1>1, <2>2 DEF RequestMoved
      <3>2. \A k \in commissions' : k.by = o => k \in commissions
        BY <1>2, <2>2
      <3>3. pc'[o] = pc[o] /\ pending'[o] = pending[o]
        BY <1>2, <2>0, <2>2
      <3>. QED BY <1>2, <1>5, <2>0, <3>1, <3>2, <3>3 DEF RequestTidy, RequestInv
    <2>. QED BY <2>1, <2>2
  <1>8. ASSUME NEW g \in Runs PROVE RunTidy(g)'
    <2>1. RunTidy(g)
      BY DEF UnchargedInv
    <2>2. \A k \in commissions' : k.by = g => k \in commissions
      BY <1>0, <1>2
    <2>3. g \notin Harmed' => g \notin Harmed
      BY <1>3
    <2>4. ToVisit(g)' = ToVisit(g)
      BY <1>3
    <2>. QED BY <1>2, <1>4, <2>1, <2>2, <2>3, <2>4 DEF RunTidy, RunClean, Active, InHand
  <1>9. FaultsInv'
    <2>1. CASE pc'[r] = "dead"
      BY <1>0, <1>1, <1>3, <2>1 DEF RequestMoved, FaultsInv, UnchargedInv
    <2>2. CASE pc'[r] # "dead"
      BY <1>0, <1>1, <1>2, <1>3, <2>2 DEF RequestMoved, FaultsInv, UnchargedInv
    <2>. QED BY <2>1, <2>2
  <1>10. WaitInv'
    <2>1. SUFFICES ASSUME Harmed = {}, NEW p \in Uncharged'
                   PROVE  /\ lastDebit'[p] = Null
                          /\ \A g \in Runs : Active(g)' => p \in ToVisit(g)'
                                                /\ ~(pc'[g] = "credit" /\ cur'[g] = p)
      BY <1>3 DEF WaitInv
    <2>2. p \in purchases' /\ Charges(p)' = {} /\ p \in Requests /\ Charges(p) = {}
      BY <1>0, <1>5, <2>1, <1>4 DEF Uncharged, Past
    <2>3. CASE p \in purchases
      <3>1. p \in Uncharged
        BY <2>2, <2>3 DEF Uncharged
      <3>2. /\ lastDebit[p] = Null
            /\ \A g \in Runs : Active(g) => p \in ToVisit(g) /\ ~(pc[g] = "credit" /\ cur[g] = p)
        BY <2>1, <3>1 DEF UnchargedInv, WaitInv
      <3>3. lastDebit'[p] = lastDebit[p]
        BY <1>1, <2>2 DEF RequestMoved, UnchargedInv, RequestTidy
      <3>. QED BY <1>2, <1>3, <3>2, <3>3 DEF Active
    <2>4. CASE p \notin purchases
      <3>1. p = r /\ pc'[r] = "debit"
        BY <1>1, <2>2, <2>4 DEF RequestMoved
      <3>2. lastDebit'[p] = Null
        BY <1>7, <3>1 DEF RequestTidy
      <3>3. \A g \in Runs : ~Active(g)'
        BY <1>0, <3>1 DEF Alone, Active
      <3>. QED BY <3>2, <3>3
    <2>. QED BY <2>3, <2>4
  <1>. QED BY <1>4, <1>6, <1>7, <1>8, <1>9, <1>10 DEF UnchargedInv

\* What a run has in hand it has yet to pass, and nothing else but what is to do.
LEMMA Visiting ==
  ASSUME TypeInv, NEW g \in Runs, InHand(g), RunTidy(g)
  PROVE  /\ Active(g) /\ g \in Procs /\ g \notin Requests /\ cur[g] \in Requests
         /\ cur[g] \in ToVisit(g) /\ cur[g] \notin todo[g]
         /\ ToVisit(g) = todo[g] \cup {cur[g]} /\ todo[g] = ToVisit(g) \ {cur[g]}
         /\ todo[g] \subseteq Requests
  <1>1. g \in Procs /\ g \notin Requests /\ cur[g] \in Requests /\ todo[g] \subseteq Requests
    BY BillingAssumption DEF Procs, TypeInv, TypeOK
  <1>2. Active(g)
    BY DEF InHand, Active
  <1>3. cur[g] \notin todo[g]
    BY <1>2 DEF RunTidy
  <1>4. ToVisit(g) = todo[g] \cup {cur[g]}
    BY DEF ToVisit
  <1>. QED BY <1>1, <1>2, <1>3, <1>4

\* What a run saves: what it has tracked, and its step's row.
LEMMA RunWork ==
  ASSUME TypeInv, NEW g \in Runs, InHand(g)
  PROVE  /\ pending[g].debits \subseteq Work(g).debits
         /\ pc[g] = "debit" => \E d \in Work(g).debits : d.for = cur[g]
         /\ pc[g] = "delete" => Work(g).debits = pending[g].debits
         /\ pc[g] # "credit" => Work(g).commissions = pending[g].commissions
         /\ \A k \in Work(g).commissions :
              k \in pending[g].commissions \/ (pc[g] = "credit" /\ k.by = g /\ k.for = cur[g])
         /\ \A p \in Requests : Work(g).dated[p] = IF p = cur[g] /\ pc[g] = "delete" THEN Null
                                                   ELSE pending[g].dated[p]
  <1>1. g \in Procs /\ g \notin Requests /\ Purchase(g) = cur[g] /\ cur[g] \in Requests
        /\ Active(g) /\ Saving(g) /\ pc[g] # "stamp" /\ pc[g] # "commission"
    BY BillingAssumption DEF Procs, Purchase, InHand, Active, Saving, TypeInv, TypeOK
  <1>2. /\ Work(g).debits = IF pc[g] = "debit" THEN pending[g].debits \cup {DebitRow(g, cur[g])}
                            ELSE pending[g].debits
        /\ Work(g).commissions = IF pc[g] = "credit"
                                 THEN pending[g].commissions \cup {CommissionRow(g, cur[g])}
                                 ELSE pending[g].commissions
        /\ \A p \in Requests : Work(g).dated[p] = IF p = cur[g] /\ pc[g] = "delete" THEN Null
                                                  ELSE pending[g].dated[p]
    <2>1. Work(g).debits = IF pc[g] = "debit" THEN pending[g].debits \cup {DebitRow(g, cur[g])}
                           ELSE pending[g].debits
      BY <1>1, WorkParts
    <2>2. Work(g).commissions = IF pc[g] = "credit"
                                THEN pending[g].commissions \cup {CommissionRow(g, cur[g])}
                                ELSE pending[g].commissions
      BY <1>1, WorkParts
    <2>3. ASSUME NEW p \in Requests
          PROVE  Work(g).dated[p] = IF p = cur[g] /\ pc[g] = "delete" THEN Null
                                    ELSE pending[g].dated[p]
      BY <1>1, WorkDates
    <2>. QED BY <2>1, <2>2, <2>3
  <1>3. /\ CommissionRow(g, cur[g]).by = g /\ CommissionRow(g, cur[g]).for = cur[g]
        /\ DebitRow(g, cur[g]).for = cur[g]
    BY DEF CommissionRow, DebitRow, Row
  <1>4. \A k \in Work(g).commissions :
          k \in pending[g].commissions \/ (pc[g] = "credit" /\ k = CommissionRow(g, cur[g]))
    BY <1>2
  <1>5. pc[g] = "debit" => DebitRow(g, cur[g]) \in Work(g).debits
    BY <1>2
  <1>. QED BY <1>2, <1>3, <1>4, <1>5

\* A run that met no error meets no refusal.
LEMMA RunCanSave ==
  ASSUME TypeInv, NEW g \in Runs, InHand(g), RunTidy(g), g \notin Harmed
  PROVE  CanSave(Work(g))
  <1>1. RunClean(g) /\ cur[g] \in ToVisit(g) /\ cur[g] \in purchases
    BY Visiting DEF RunTidy, RunClean
  <1>2. \A p \in Requests : Work(g).dated[p] # Null => p = cur[g]
    BY <1>1, RunWork DEF RunClean
  <1>3. \A k \in Work(g).commissions : k.by = g /\ k.for = cur[g]
    BY <1>1, RunWork DEF RunClean
  <1>4. \A k \in Work(g).commissions : k \notin commissions
    BY <1>1, <1>3 DEF RunClean
  <1>. QED BY <1>1, <1>2, <1>3, <1>4 DEF CanSave, Dated

\* What an uncharged purchase waits for, as far as one run is concerned.
WaitsFor(g, p) ==
  /\ lastDebit[p] = Null
  /\ Active(g) => p \in ToVisit(g) /\ ~(pc[g] = "credit" /\ cur[g] = p)

\* What a step of a run does.
RunMoved(g) ==
  /\ debits \subseteq debits' /\ purchases' \subseteq purchases
  /\ FreshCopy(g)' /\ RunTidy(g)'
  /\ \A k \in commissions' : k \in commissions \/ k.by = g
  /\ \A p \in Requests : lastDebit'[p] # lastDebit[p] => p \in Past
  /\ g \in Harmed => g \in Harmed'
  /\ faults' \in {faults, faults + 1}
  /\ g \in Harmed' => g \in Harmed \/ faults' = faults + 1
  /\ g \notin Harmed' => \A p \in Uncharged' : WaitsFor(g, p) => WaitsFor(g, p)'

\* What it leaves alone.
RunLeaves(g) ==
  /\ \A o \in Procs : o # g => pc'[o] = pc[o] /\ pending'[o] = pending[o]
  /\ \A o \in Runs : o # g => report'[o] = report[o]
  /\ Past' = Past

\* A run leaves other processes alone.
LEMMA RunOnly ==
  ASSUME TypeInv, NEW g \in Runs, RunStep(g)
  PROVE  RunLeaves(g)
  <1>1. /\ g \in Procs /\ g \notin Requests /\ pc \in [Procs -> Labels]
        /\ pending \in [Procs -> UnitsOfWork]
        /\ report \in [Runs -> [Requests -> {"none", "updated", "deleted", "error"}]]
    BY BillingAssumption DEF Procs, TypeInv, TypeOK
  <1>2. \A o \in Procs : o # g => pc'[o] = pc[o]
    BY <1>1 DEF RunStep, StartRun, TakePurchase, DebitPurchasingOrganisation,
        CreditAmphoraOrganisation, DeletePurchase, ReadFails, SaveFails, FinishRun,
        KillRun, Goto
  <1>3. \A o \in Procs : o # g => pending'[o] = pending[o]
    BY <1>1 DEF RunStep, StartRun, TakePurchase, DebitPurchasingOrganisation,
        CreditAmphoraOrganisation, DeletePurchase, ReadFails, SaveFails, FinishRun,
        KillRun, SaveChanges, Saved
  <1>4. \A o \in Runs : o # g => report'[o] = report[o]
    BY <1>1 DEF RunStep, StartRun, TakePurchase, DebitPurchasingOrganisation,
        CreditAmphoraOrganisation, DeletePurchase, ReadFails, SaveFails, FinishRun,
        KillRun, Reported
  <1>5. Past' = Past
    BY <1>1, <1>2 DEF Past, Procs
  <1>. QED BY <1>2, <1>3, <1>4, <1>5 DEF RunLeaves

\* What a run reports, and an error above all, stays reported.
LEMMA HarmStays ==
  ASSUME TypeInv, NEW g \in Runs, RunTidy(g), InHand(g), NEW outcome, Reported(g, outcome)
  PROVE  /\ \A p \in Requests : p # cur[g] => report'[g][p] = report[g][p]
         /\ report'[g][cur[g]] = outcome
         /\ \A p \in Requests : report[g][p] = "error" => report'[g][p] = "error"
  <1>1. report[g] \in [Requests -> {"none", "updated", "deleted", "error"}] /\ cur[g] \in Requests
        /\ report \in [Runs -> [Requests -> {"none", "updated", "deleted", "error"}]]
    BY DEF TypeInv, TypeOK
  <1>2. /\ \A p \in Requests : p # cur[g] => report'[g][p] = report[g][p]
        /\ report'[g][cur[g]] = outcome
    BY <1>1 DEF Reported
  <1>3. report[g][cur[g]] = "none"
    BY Visiting DEF RunTidy
  <1>. QED BY <1>2, <1>3

\* A run starts, clean, with all that is due,
LEMMA StartMoves ==
  ASSUME TypeInv, NEW g \in Runs, RunTidy(g), purchases \subseteq Past,
         NEW month \in 1 .. (now + MonthsAhead), StartRun(g, month)
  PROVE  RunMoved(g)
  <1>0. /\ g \in Procs /\ pc \in [Procs -> Labels] /\ purchases \subseteq Requests
        /\ todo \in [Runs -> SUBSET Requests] /\ now + MonthsAhead \in Int
        /\ seen \in [Procs -> [debits : SUBSET Rows, credits : SUBSET Rows]] /\ faults \in Nat
    BY BillingAssumption DEF Procs, TypeInv, TypeOK, Months
  <1>1. /\ UNCHANGED <<purchases, lastDebit, debits, commissions, cur, report, pending, faults>>
        /\ pc[g] = "idle" /\ pc' = [pc EXCEPT ![g] = "next"]
        /\ todo' = [todo EXCEPT ![g] = Due(month)] /\ LoadAccounts(g)
    BY DEF StartRun, Goto, db
  <1>2. pc'[g] = "next" /\ todo'[g] = Due(month) /\ Due(month) \subseteq purchases
    BY <1>0, <1>1 DEF Due
  <1>3. ToVisit(g)' = Due(month) /\ ~InHand(g)'
    BY <1>2 DEF ToVisit, InHand
  <1>4. /\ pending[g] = NoWork /\ (\A k \in commissions : k.by # g)
        /\ \A p \in Requests : report[g][p] = "none"
    BY <1>1 DEF RunTidy
  <1>5. /\ NoWork.commissions = {} /\ \A p \in Requests : NoWork.dated[p] = Null
    BY DEF NoWork
  <1>6. RunClean(g)'
    BY <1>1, <1>2, <1>3, <1>4, <1>5 DEF RunClean
  <1>7. Past' = Past
    <2>1. \A o \in Requests : pc'[o] = pc[o]
      BY <1>0, <1>1, BillingAssumption DEF Procs
    <2>. QED BY <2>1 DEF Past
  <1>8. RunTidy(g)'
    BY <1>0, <1>1, <1>2, <1>3, <1>4, <1>5, <1>6, <1>7 DEF RunTidy, Active
  <1>9. FreshCopy(g)'
    <2>1. Provider = "Cosmos" => seen'[g].debits = debits
      BY <1>0, <1>1 DEF LoadAccounts
    <2>. QED BY <1>1, <2>1 DEF FreshCopy
  <1>10. g \notin Harmed /\ g \notin Harmed'
    BY <1>1, <1>2, <1>4 DEF Harmed
  <1>11. ASSUME NEW p \in Uncharged', WaitsFor(g, p) PROVE WaitsFor(g, p)'
    <2>1. p \in purchases /\ lastDebit[p] = Null
      BY <1>1, <1>11 DEF Uncharged, WaitsFor
    <2>2. p \in Due(month)
      BY <1>0, <2>1 DEF Due, Null
    <2>. QED BY <1>1, <1>2, <1>3, <2>1, <2>2 DEF WaitsFor
  <1>. QED BY <1>0, <1>1, <1>8, <1>9, <1>10, <1>11 DEF RunMoved

\* takes one purchase after the other,
LEMMA TakeMoves ==
  ASSUME TypeInv, NEW g \in Runs, RunTidy(g), FreshCopy(g),
         NEW p \in Requests, TakePurchase(g, p)
  PROVE  RunMoved(g)
  <1>0. /\ g \in Procs /\ pc \in [Procs -> Labels] /\ pending \in [Procs -> UnitsOfWork]
        /\ todo \in [Runs -> SUBSET Requests] /\ cur \in [Runs -> Requests] /\ faults \in Nat
    BY BillingAssumption DEF Procs, TypeInv, TypeOK
  <1>1. /\ UNCHANGED <<purchases, lastDebit, debits, commissions, report, seen, faults>>
        /\ pc[g] = "next" /\ p \in todo[g]
        /\ pc' = [pc EXCEPT ![g] = IF order[p].amphora \in softDeleted THEN "delete" ELSE "debit"]
        /\ todo' = [todo EXCEPT ![g] = @ \ {p}] /\ cur' = [cur EXCEPT ![g] = p]
        /\ pending' = [pending EXCEPT ![g].dated[p] = now]
    BY DEF TakePurchase, Goto, db
  <1>2. pc'[g] \in {"debit", "delete"} /\ todo'[g] = todo[g] \ {p} /\ cur'[g] = p
    BY <1>0, <1>1
  <1>3. /\ pending'[g].debits = pending[g].debits
        /\ pending'[g].commissions = pending[g].commissions
        /\ \A x \in Requests : x # p => pending'[g].dated[x] = pending[g].dated[x]
    <2>1. pending[g] \in UnitsOfWork
      BY <1>0
    <2>. QED BY <1>0, <1>1, <2>1 DEF UnitsOfWork
  <1>4. ToVisit(g)' = ToVisit(g) /\ Active(g) /\ Active(g)' /\ ~InHand(g) /\ p \in ToVisit(g)
        /\ pc'[g] # "credit" /\ pc'[g] # "idle" /\ pc'[g] # "dead"
    BY <1>1, <1>2 DEF ToVisit, InHand, Active
  <1>5. Past' = Past
    <2>1. \A o \in Requests : pc'[o] = pc[o]
      BY <1>0, <1>1, BillingAssumption DEF Procs
    <2>. QED BY <2>1 DEF Past
  <1>6. FreshCopy(g)'
    BY <1>1, <1>3, <1>4 DEF FreshCopy
  <1>7. Harmed' = Harmed
    <2>1. \A o \in Runs : pc'[o] = "dead" <=> pc[o] = "dead"
      BY <1>0, <1>1 DEF Procs
    <2>. QED BY <1>1, <2>1 DEF Harmed
  <1>8. g \notin Harmed => RunClean(g)'
    <2>1. g \notin Harmed => RunClean(g)
      BY <1>4 DEF RunTidy
    <2>. QED BY <1>1, <1>2, <1>3, <1>4, <2>1 DEF RunClean
  <1>9. RunTidy(g)'
    <2>1. \A x \in Requests : pending'[g].dated[x] # Null => x \in Past
      BY <1>3, <1>4 DEF RunTidy
    <2>2. \A k \in pending'[g].commissions : k.by = g
      BY <1>3, <1>4 DEF RunTidy
    <2>. QED BY <1>1, <1>2, <1>4, <1>5, <1>7, <1>8, <2>1, <2>2 DEF RunTidy
  <1>10. \A x : WaitsFor(g, x) => WaitsFor(g, x)'
    BY <1>1, <1>4 DEF WaitsFor
  <1>. QED BY <1>0, <1>1, <1>6, <1>7, <1>9, <1>10 DEF RunMoved

\* debits and credits it,
LEMMA ChargeMoves ==
  ASSUME TypeInv, NEW g \in Runs, RunTidy(g), FreshCopy(g),
         DebitPurchasingOrganisation(g) \/ CreditAmphoraOrganisation(g)
  PROVE  RunMoved(g)
  <1>0. /\ g \in Procs /\ pc \in [Procs -> Labels] /\ pending \in [Procs -> UnitsOfWork]
        /\ faults \in Nat /\ purchases \subseteq Requests
    BY BillingAssumption DEF Procs, TypeInv, TypeOK
  <1>1. /\ UNCHANGED <<purchases, todo, cur, faults>> /\ SaveChanges(g)
        /\ \/ pc[g] = "debit" /\ pc' = [pc EXCEPT ![g] = "credit"] /\ report' = report
           \/ pc[g] = "credit" /\ pc' = [pc EXCEPT ![g] = "next"] /\ Reported(g, "updated")
    BY DEF DebitPurchasingOrganisation, CreditAmphoraOrganisation, Goto
  <1>2. /\ \/ pc[g] = "debit" /\ pc'[g] = "credit"
           \/ pc[g] = "credit" /\ pc'[g] = "next"
        /\ InHand(g) /\ Active(g)'
    BY <1>0, <1>1 DEF InHand, Active
  <1>3. /\ commissions' = commissions \cup Work(g).commissions
        /\ \A p \in Requests : lastDebit'[p] = IF Work(g).dated[p] # Null THEN Work(g).dated[p]
                                               ELSE lastDebit[p]
        /\ pending'[g] = NoWork
        /\ Flush(g, Work(g)) /\ Saved(g, Work(g))
    BY <1>0, <1>1 DEF SaveChanges, Flush, Saved
  <1>4. debits \subseteq debits' /\ Work(g).debits \subseteq debits' /\ FreshCopy(g)'
    <2>1. pending[g].debits \subseteq Work(g).debits /\ Active(g)
      BY <1>2, RunWork, Visiting
    <2>. QED BY <1>0, <1>3, <2>1, SaveGrows
  <1>5. Past' = Past
    <2>1. \A o \in Requests : pc'[o] = pc[o]
      BY <1>0, <1>1, BillingAssumption DEF Procs
    <2>. QED BY <2>1 DEF Past
  <1>6. \A k \in Work(g).commissions : k.by = g
    <2>1. \A k \in pending[g].commissions : k.by = g
      BY <1>2, Visiting DEF RunTidy
    <2>. QED BY <1>2, <2>1, RunWork
  <1>7. \A p \in Requests : lastDebit'[p] # lastDebit[p] => pending[g].dated[p] # Null
    <2>1. \A p \in Requests : Work(g).dated[p] = pending[g].dated[p]
      BY <1>2, RunWork
    <2>. QED BY <1>3, <2>1
  <1>8. \A p \in Requests : report[g][p] = "error" <=> report'[g][p] = "error"
    <2>1. CASE report' = report
      BY <2>1
    <2>2. CASE Reported(g, "updated")
      BY <1>2, <2>2, HarmStays
    <2>. QED BY <1>1, <2>1, <2>2
  <1>9. g \in Harmed <=> g \in Harmed'
    BY <1>2, <1>8 DEF Harmed
  <1>10. /\ cur[g] \notin todo[g] /\ cur[g] \in ToVisit(g)
         /\ ToVisit(g)' = IF pc[g] = "debit" THEN ToVisit(g) ELSE todo[g]
         /\ todo[g] \subseteq ToVisit(g) /\ todo[g] = ToVisit(g) \ {cur[g]}
    <2>1. /\ cur[g] \notin todo[g] /\ cur[g] \in ToVisit(g)
          /\ ToVisit(g) = todo[g] \cup {cur[g]} /\ todo[g] = ToVisit(g) \ {cur[g]}
      BY <1>2, Visiting
    <2>2. ToVisit(g)' = IF pc[g] = "debit" THEN todo[g] \cup {cur[g]} ELSE todo[g]
      BY <1>1, <1>2 DEF ToVisit, InHand
    <2>. QED BY <2>1, <2>2
  <1>11. \A p \in ToVisit(g)' : report'[g][p] = "none"
    <2>1. \A p \in ToVisit(g) : report[g][p] = "none" /\ p \in Requests
      BY <1>2, Visiting DEF RunTidy, Past
    <2>2. CASE pc[g] = "debit"
      BY <1>1, <1>10, <2>1, <2>2
    <2>3. CASE pc[g] = "credit"
      <3>1. Reported(g, "updated")
        BY <1>1, <2>3
      <3>. QED BY <1>2, <1>10, <2>1, <2>3, <3>1, HarmStays
    <2>. QED BY <1>2, <2>2, <2>3
  <1>12. g \notin Harmed =>
           /\ RunClean(g) /\ pending[g].commissions = {}
           /\ \A k \in Work(g).commissions : pc[g] = "credit" /\ k.for = cur[g]
    <2>1. g \notin Harmed => RunClean(g) /\ pending[g].commissions = {}
      BY <1>2, Visiting DEF RunTidy, RunClean
    <2>. QED BY <1>2, <2>1, RunWork
  <1>13. g \notin Harmed => RunClean(g)'
    <2>1. NoWork.commissions = {} /\ \A p \in Requests : NoWork.dated[p] = Null
      BY DEF NoWork
    <2>. QED BY <1>1, <1>3, <1>10, <1>12, <2>1 DEF RunClean
  <1>14. RunTidy(g)'
    <2>1. NoWork.commissions = {} /\ \A p \in Requests : NoWork.dated[p] = Null
      BY DEF NoWork
    <2>2. ToVisit(g) \subseteq Past
      BY <1>2, Visiting DEF RunTidy
    <2>. QED
      BY <1>1, <1>2, <1>3, <1>5, <1>9, <1>10, <1>11, <1>13, <2>1, <2>2 DEF RunTidy
  <1>15. ASSUME g \notin Harmed, NEW p \in Uncharged', WaitsFor(g, p) PROVE WaitsFor(g, p)'
    <2>1. p # cur[g]
      <3>1. \A d \in Work(g).debits : d.for # p
        BY <1>4, <1>15 DEF Uncharged, Charges
      <3>2. pc[g] = "debit" => p # cur[g]
        BY <1>2, <3>1, RunWork
      <3>. QED BY <1>2, <1>15, <3>2, Visiting DEF WaitsFor
    <2>2. p \in ToVisit(g) /\ lastDebit[p] = Null /\ p \in Requests
      BY <1>0, <1>1, <1>2, <1>15, Visiting DEF WaitsFor, Uncharged
    <2>3. pending[g].dated[p] = Null
      BY <1>12, <1>15, <2>1, <2>2 DEF RunClean
    <2>. QED BY <1>1, <1>7, <1>10, <2>1, <2>2, <2>3 DEF WaitsFor
  <1>16. \A p \in Requests : lastDebit'[p] # lastDebit[p] => p \in Past
    BY <1>2, <1>7, Visiting DEF RunTidy
  <1>. QED BY <1>0, <1>1, <1>3, <1>4, <1>6, <1>9, <1>14, <1>15, <1>16 DEF RunMoved

\* or deletes it with its Amphora,
LEMMA DeleteMoves ==
  ASSUME TypeInv, NEW g \in Runs, RunTidy(g), FreshCopy(g), DeletePurchase(g)
  PROVE  RunMoved(g)
  <1>0. /\ g \in Procs /\ pc \in [Procs -> Labels] /\ pending \in [Procs -> UnitsOfWork]
        /\ faults \in Nat /\ purchases \subseteq Requests
    BY BillingAssumption DEF Procs, TypeInv, TypeOK
  <1>1. /\ UNCHANGED <<todo, cur, faults>> /\ Reported(g, "deleted")
        /\ pc[g] = "delete" /\ pc' = [pc EXCEPT ![g] = "next"]
    BY DEF DeletePurchase, Goto
  <1>2. pc'[g] = "next" /\ InHand(g) /\ ~InHand(g)' /\ Active(g)'
    BY <1>0, <1>1 DEF InHand, Active
  <1>3. Active(g) /\ cur[g] \in Requests /\ cur[g] \in ToVisit(g) /\ cur[g] \notin todo[g]
        /\ todo[g] = ToVisit(g) \ {cur[g]} /\ ToVisit(g)' = todo[g]
    <2>1. ToVisit(g)' = todo[g]
      BY <1>1, <1>2 DEF ToVisit
    <2>. QED BY <1>2, <2>1, Visiting
  <1>4. /\ ToVisit(g) \subseteq Past
        /\ \A p \in Requests : pending[g].dated[p] # Null => p \in Past
        /\ \A k \in pending[g].commissions : k.by = g
        /\ \A p \in ToVisit(g) : report[g][p] = "none"
        /\ g \notin Harmed => RunClean(g)
    BY <1>3 DEF RunTidy
  <1>5. Past' = Past
    <2>1. \A o \in Requests : pc'[o] = pc[o]
      BY <1>0, <1>1, BillingAssumption DEF Procs
    <2>. QED BY <2>1 DEF Past
  <1>6. /\ g \in Harmed <=> g \in Harmed'
        /\ \A p \in todo[g] : report'[g][p] = "none"
    <2>1. /\ \A p \in Requests : p # cur[g] => report'[g][p] = report[g][p]
          /\ report'[g][cur[g]] = "deleted" /\ report[g][cur[g]] = "none"
      BY <1>1, <1>2, <1>3, <1>4, HarmStays
    <2>2. \A p \in Requests : report[g][p] = "error" <=> report'[g][p] = "error"
      BY <2>1
    <2>3. g \in Harmed <=> g \in Harmed'
      BY <1>1, <1>2, <2>2 DEF Harmed
    <2>4. todo[g] \subseteq Requests
      BY <1>3, <1>4 DEF Past
    <2>. QED BY <1>3, <1>4, <2>1, <2>3, <2>4
  <1>7. CASE cur[g] \in purchases
    <2>1. /\ Flush(g, Work(g)) /\ Saved(g, Work(g))
          /\ commissions' \subseteq commissions \cup Work(g).commissions
          /\ purchases' = purchases \ {cur[g]}
      BY <1>7 DEF DeletePurchase
    <2>2. /\ Work(g).debits = pending[g].debits
          /\ Work(g).commissions = pending[g].commissions
          /\ \A p \in Requests : Work(g).dated[p] = IF p = cur[g] THEN Null
                                                    ELSE pending[g].dated[p]
      BY <1>1, <1>2, RunWork
    <2>3. debits \subseteq debits' /\ FreshCopy(g)'
      BY <1>0, <1>3, <2>1, <2>2, SaveGrows
    <2>4. pending'[g] = NoWork
      BY <1>0, <2>1 DEF Saved
    <2>5. NoWork.commissions = {} /\ \A p \in Requests : NoWork.dated[p] = Null
      BY DEF NoWork
    <2>6. \A p \in Requests : lastDebit'[p] # lastDebit[p] =>
            p # cur[g] /\ pending[g].dated[p] # Null
      BY <2>1, <2>2 DEF Flush
    <2>7. g \notin Harmed => RunClean(g)'
      BY <1>1, <1>2, <1>3, <1>4, <2>1, <2>2, <2>4, <2>5 DEF RunClean
    <2>8. RunTidy(g)'
      BY <1>1, <1>2, <1>3, <1>4, <1>5, <1>6, <2>4, <2>5, <2>7 DEF RunTidy
    <2>9. ASSUME g \notin Harmed, NEW p \in Uncharged', WaitsFor(g, p) PROVE WaitsFor(g, p)'
      <3>1. p \in Requests /\ p # cur[g] /\ lastDebit[p] = Null /\ p \in ToVisit(g)
        BY <1>0, <1>3, <2>1, <2>9 DEF WaitsFor, Uncharged
      <3>2. lastDebit'[p] = lastDebit[p]
        BY <1>4, <2>6, <2>9, <3>1 DEF RunClean
      <3>. QED BY <1>2, <1>3, <3>1, <3>2 DEF WaitsFor
    <2>. QED
      BY <1>0, <1>1, <1>4, <1>6, <2>1, <2>2, <2>3, <2>6, <2>8, <2>9 DEF RunMoved
  <1>8. CASE cur[g] \notin purchases
    <2>1. /\ UNCHANGED <<purchases, lastDebit, debits, commissions, pending, seen>>
      BY <1>8 DEF DeletePurchase
    <2>2. g \in Harmed
      BY <1>3, <1>4, <1>8 DEF RunClean
    <2>3. FreshCopy(g)'
      BY <1>3, <2>1 DEF FreshCopy
    <2>4. RunTidy(g)'
      BY <1>1, <1>2, <1>3, <1>4, <1>5, <1>6, <2>1, <2>2 DEF RunTidy
    <2>. QED BY <1>0, <1>1, <1>6, <2>1, <2>2, <2>3, <2>4 DEF RunMoved
  <1>. QED BY <1>7, <1>8

\* may fail,
LEMMA FailMoves ==
  ASSUME TypeInv, NEW g \in Runs, RunTidy(g), FreshCopy(g), ReadFails(g) \/ SaveFails(g)
  PROVE  RunMoved(g)
  <1>0. /\ g \in Procs /\ pc \in [Procs -> Labels] /\ pending \in [Procs -> UnitsOfWork]
        /\ faults \in Nat /\ purchases \subseteq Requests
    BY BillingAssumption DEF Procs, TypeInv, TypeOK
  <1>1. /\ UNCHANGED <<purchases, todo, cur, seen>> /\ Reported(g, "error")
        /\ pc[g] \in {"debit", "credit", "delete"} /\ pc' = [pc EXCEPT ![g] = "next"]
    BY DEF ReadFails, SaveFails, Goto, db
  <1>2. pc'[g] = "next" /\ InHand(g) /\ ~InHand(g)' /\ Active(g)'
    BY <1>0, <1>1 DEF InHand, Active
  <1>3. Active(g) /\ cur[g] \in Requests /\ cur[g] \in ToVisit(g) /\ cur[g] \notin todo[g]
        /\ todo[g] = ToVisit(g) \ {cur[g]} /\ ToVisit(g)' = todo[g]
    <2>1. ToVisit(g)' = todo[g]
      BY <1>1, <1>2 DEF ToVisit
    <2>. QED BY <1>2, <2>1, Visiting
  <1>4. /\ ToVisit(g) \subseteq Past
        /\ \A p \in Requests : pending[g].dated[p] # Null => p \in Past
        /\ \A k \in pending[g].commissions : k.by = g
        /\ \A p \in ToVisit(g) : report[g][p] = "none"
    BY <1>3 DEF RunTidy
  <1>5. Past' = Past
    <2>1. \A o \in Requests : pc'[o] = pc[o]
      BY <1>0, <1>1, BillingAssumption DEF Procs
    <2>. QED BY <2>1 DEF Past
  <1>6. /\ g \in Harmed'
        /\ \A p \in todo[g] : report'[g][p] = "none"
    <2>1. /\ \A p \in Requests : p # cur[g] => report'[g][p] = report[g][p]
          /\ report'[g][cur[g]] = "error"
      BY <1>1, <1>2, HarmStays
    <2>2. todo[g] \subseteq Requests
      BY <1>3, <1>4 DEF Past
    <2>. QED BY <1>3, <1>4, <2>1, <2>2 DEF Harmed
  <1>7. /\ faults' \in {faults, faults + 1}
        /\ g \in Harmed \/ faults' = faults + 1
    BY <1>2, RunCanSave DEF ReadFails, SaveFails, Fault
  <1>8. \A p \in Requests : Work(g).dated[p] # Null => pending[g].dated[p] # Null
    BY <1>2, RunWork
  <1>9. \A k \in Work(g).commissions : k.by = g
    BY <1>2, <1>4, RunWork
  <1>10. /\ debits \subseteq debits' /\ FreshCopy(g)'
         /\ \A k \in commissions' : k \in commissions \/ k.by = g
         /\ \A p \in Requests : lastDebit'[p] # lastDebit[p] => p \in Past
         /\ pending'[g] \in {pending[g], Work(g)}
    <2>1. CASE ReadFails(g)
      <3>1. UNCHANGED <<lastDebit, debits, commissions, pending, seen>>
        BY <2>1 DEF ReadFails, db
      <3>. QED BY <1>3, <3>1 DEF FreshCopy
    <2>2. CASE SaveFails(g)
      <3>1. SaveIsCutShort(g) /\ pending' = [pending EXCEPT ![g] = Work(g)]
        BY <2>2 DEF SaveFails
      <3>2. pending[g].debits \subseteq Work(g).debits
        BY <1>2, RunWork
      <3>3. /\ debits \subseteq debits'
            /\ debits' \subseteq debits \cup seen[g].debits \cup Work(g).debits
            /\ commissions' \subseteq commissions \cup Work(g).commissions
            /\ \A p \in Requests : lastDebit'[p] # lastDebit[p] => Work(g).dated[p] # Null
        BY <1>0, <1>3, <3>1, <3>2, CutGrows
      <3>4. pending'[g] = Work(g)
        BY <1>0, <3>1
      <3>5. FreshCopy(g)'
        BY <1>1, <1>3, <3>2, <3>3, <3>4 DEF FreshCopy
      <3>. QED BY <1>4, <1>8, <1>9, <3>3, <3>4, <3>5
    <2>. QED BY <2>1, <2>2
  <1>11. RunTidy(g)'
    BY <1>1, <1>2, <1>3, <1>4, <1>5, <1>6, <1>8, <1>9, <1>10 DEF RunTidy
  <1>. QED BY <1>1, <1>6, <1>7, <1>10, <1>11 DEF RunMoved

\* and ends, or is killed.
LEMMA EndMoves ==
  ASSUME TypeInv, NEW g \in Runs, RunTidy(g), FreshCopy(g), FinishRun(g) \/ KillRun(g)
  PROVE  RunMoved(g)
  <1>0. /\ g \in Procs /\ pc \in [Procs -> Labels] /\ faults \in Nat
    BY BillingAssumption DEF Procs, TypeInv, TypeOK
  <1>1. /\ UNCHANGED <<purchases, todo, cur, report, pending, seen>>
        /\ \/ pc[g] = "next" /\ pc' = [pc EXCEPT ![g] = "done"] /\ faults' = faults
           \/ /\ pc[g] \in {"next", "debit", "credit", "delete"}
              /\ pc' = [pc EXCEPT ![g] = "dead"] /\ faults' = faults + 1
    BY DEF FinishRun, KillRun, Fault, Goto, db
  <1>2. /\ Active(g) /\ ~Active(g)' /\ pc[g] # "dead"
        /\ \/ pc'[g] = "done" /\ faults' = faults
           \/ pc'[g] = "dead" /\ faults' = faults + 1
    BY <1>0, <1>1 DEF Active
  <1>3. RunTidy(g)' /\ FreshCopy(g)'
    BY <1>2 DEF RunTidy, FreshCopy, Active
  <1>4. /\ g \in Harmed => g \in Harmed'
        /\ g \in Harmed' => g \in Harmed \/ faults' = faults + 1
    BY <1>1, <1>2 DEF Harmed
  <1>5. /\ debits \subseteq debits'
        /\ \A k \in commissions' : k \in commissions \/ k.by = g
        /\ \A p \in Requests : lastDebit'[p] # lastDebit[p] => p \in Past /\ g \in Harmed'
    <2>1. CASE FinishRun(g) \/ (KillRun(g) /\ pc[g] = "next")
      BY <2>1 DEF FinishRun, KillRun, db
    <2>2. CASE KillRun(g) /\ pc[g] # "next"
      <3>1. SaveIsCutShort(g) /\ InHand(g) /\ pc'[g] = "dead"
        BY <1>0, <2>2 DEF KillRun, InHand, Goto
      <3>2. pending[g].debits \subseteq Work(g).debits
        BY <3>1, RunWork
      <3>3. /\ debits \subseteq debits'
            /\ commissions' \subseteq commissions \cup Work(g).commissions
            /\ \A p \in Requests : lastDebit'[p] # lastDebit[p] =>
                 Provider = "Cosmos" /\ Work(g).dated[p] # Null
        BY <1>0, <1>2, <3>1, <3>2, CutGrows
      <3>4. \A p \in Requests : Work(g).dated[p] # Null => p \in Past
        <4>1. \A p \in Requests : Work(g).dated[p] # Null => pending[g].dated[p] # Null
          BY <3>1, RunWork
        <4>. QED BY <1>2, <4>1 DEF RunTidy
      <3>5. \A k \in Work(g).commissions : k.by = g
        <4>1. \A k \in pending[g].commissions : k.by = g
          BY <1>2 DEF RunTidy
        <4>. QED BY <3>1, <4>1, RunWork
      <3>. QED BY <3>1, <3>3, <3>4, <3>5 DEF Harmed
    <2>. QED BY <2>1, <2>2
  <1>6. ASSUME g \notin Harmed', NEW p \in Uncharged', WaitsFor(g, p) PROVE WaitsFor(g, p)'
    <2>1. p \in Requests
      BY <1>1 DEF Uncharged, TypeInv, TypeOK
    <2>. QED BY <1>2, <1>5, <1>6, <2>1 DEF WaitsFor
  <1>. QED BY <1>0, <1>1, <1>2, <1>3, <1>4, <1>5, <1>6 DEF RunMoved

\* A step of a run keeps the invariant.
LEMMA RunUncharged ==
  ASSUME TypeInv, UnchargedInv, Alone', NEW g \in Runs, RunStep(g)
  PROVE  UnchargedInv'
  <1>0. /\ g \in Procs /\ g \notin Requests /\ Requests \subseteq Procs /\ Runs \subseteq Procs
        /\ faults \in Nat /\ Past \subseteq Requests /\ purchases \subseteq Requests
        /\ pc \in [Procs -> Labels]
    BY BillingAssumption DEF Procs, TypeInv, TypeOK, Past
  <1>1. RunMoved(g)
    <2>1. RunTidy(g) /\ FreshCopy(g) /\ purchases \subseteq Past
      BY <1>0 DEF UnchargedInv
    <2>. QED
      BY <2>1, StartMoves, TakeMoves, ChargeMoves, DeleteMoves, FailMoves, EndMoves DEF RunStep
  <1>2. /\ \A o \in Procs : o # g => pc'[o] = pc[o] /\ pending'[o] = pending[o]
        /\ \A o \in Requests : pc'[o] = pc[o] /\ pending'[o] = pending[o]
        /\ \A o \in Runs : o # g => report'[o] = report[o]
        /\ Past' = Past
    BY <1>0, RunOnly DEF RunLeaves
  <1>3. \A o \in Procs : o # g => ~Active(o) /\ ~Active(o)'
    <2>1. Active(g) \/ Active(g)'
      BY <1>0 DEF RunStep, StartRun, TakePurchase, DebitPurchasingOrganisation,
        CreditAmphoraOrganisation, DeletePurchase, ReadFails, SaveFails, FinishRun,
        KillRun, Goto, Active
    <2>2. \A o \in Procs : o # g => (Active(o) <=> Active(o)')
      BY <1>2 DEF Active
    <2>. QED BY <1>0, <2>1, <2>2 DEF Alone, UnchargedInv
  <1>4. Harmed \subseteq Harmed' /\ Harmed' \subseteq Harmed \cup {g}
    <2>1. \A o \in Runs : o # g => (o \in Harmed <=> o \in Harmed')
      BY <1>0, <1>2 DEF Harmed
    <2>2. Harmed \subseteq Runs /\ Harmed' \subseteq Runs
      BY DEF Harmed
    <2>. QED BY <1>1, <2>1, <2>2 DEF RunMoved
  <1>5. \A q \in Procs : FreshCopy(q)'
    BY <1>1, <1>3 DEF RunMoved, FreshCopy
  <1>6. ASSUME NEW r \in Requests PROVE RequestTidy(r)'
    <2>1. RequestTidy(r) /\ pc'[r] = pc[r] /\ pending'[r] = pending[r] /\ r # g
      BY <1>0, <1>2 DEF UnchargedInv
    <2>2. pc[r] \in {"idle", "refused", "returned", "done", "dead"}
      BY <1>0, <1>3, <2>1 DEF Active
    <2>3. \A k \in commissions' : k.by = r => k \in commissions
      BY <1>1, <2>1 DEF RunMoved
    <2>4. pc[r] \notin {"done", "dead"} => lastDebit'[r] = lastDebit[r]
      BY <1>1, <2>2 DEF RunMoved, Past
    <2>5. Charges(r) \subseteq Charges(r)'
      BY <1>1 DEF RunMoved, Charges
    <2>. QED BY <2>1, <2>2, <2>3, <2>4, <2>5 DEF RequestTidy, RequestInv
  <1>7. ASSUME NEW h \in Runs PROVE RunTidy(h)'
    <2>1. CASE h = g
      BY <1>1, <2>1 DEF RunMoved
    <2>2. CASE h # g
      <3>1. RunTidy(h) /\ pc'[h] = pc[h] /\ pending'[h] = pending[h] /\ report'[h] = report[h]
            /\ ~Active(h)'
        BY <1>0, <1>2, <1>3, <2>2 DEF UnchargedInv
      <3>2. \A k \in commissions' : k.by = h => k \in commissions
        BY <1>1, <2>2 DEF RunMoved
      <3>. QED BY <3>1, <3>2 DEF RunTidy
    <2>. QED BY <2>1, <2>2
  <1>8. FaultsInv'
    <2>1. faults' \in {faults, faults + 1} /\ (Harmed' # Harmed => faults' = faults + 1)
      BY <1>1, <1>4 DEF RunMoved
    <2>2. (\E r \in Requests : pc[r] = "dead") <=> (\E r \in Requests : pc'[r] = "dead")
      BY <1>2
    <2>3. FaultsInv
      BY DEF UnchargedInv
    <2>4. CASE Harmed' = Harmed
      BY <1>0, <2>1, <2>2, <2>3, <2>4 DEF FaultsInv
    <2>5. CASE Harmed' # Harmed
      BY <1>0, <2>1, <2>2, <2>3, <2>5 DEF FaultsInv
    <2>. QED BY <2>4, <2>5
  <1>9. WaitInv'
    <2>1. SUFFICES ASSUME Harmed' = {}, NEW p \in Uncharged'
                   PROVE  /\ lastDebit'[p] = Null
                          /\ \A h \in Runs : Active(h)' => p \in ToVisit(h)'
                                                /\ ~(pc'[h] = "credit" /\ cur'[h] = p)
      BY DEF WaitInv
    <2>2. p \in Uncharged
      BY <1>1, <2>1 DEF RunMoved, Uncharged, Charges
    <2>3. WaitsFor(g, p)
      BY <1>4, <2>1, <2>2 DEF UnchargedInv, WaitInv, WaitsFor
    <2>4. WaitsFor(g, p)'
      BY <1>1, <2>1, <2>3 DEF RunMoved
    <2>. QED BY <1>0, <1>3, <2>4 DEF WaitsFor
  <1>10. purchases' \subseteq Past'
    BY <1>1, <1>2 DEF RunMoved, UnchargedInv
  <1>. QED BY <1>5, <1>6, <1>7, <1>8, <1>9, <1>10 DEF UnchargedInv

\* Who reaches its end while others are not at work leaves nothing uncharged, unless a run
\* was harmed.
LEMMA FinishedRun ==
  ASSUME TypeInv, UnchargedInv, NEW g \in Runs, FinishRun(g), Harmed = {}
  PROVE  Uncharged = {}
  <1>1. pc[g] = "next" /\ todo[g] = {}
    BY DEF FinishRun
  <1>2. Active(g) /\ ToVisit(g) = {}
    BY <1>1 DEF Active, ToVisit, InHand
  <1>. QED BY <1>2 DEF UnchargedInv, WaitInv

\* One failure at most: a run that reports no error is not harmed by another, if a purchase
\* is left uncharged.
LEMMA OneFailure ==
  ASSUME TypeInv, UnchargedInv, MaxFaults <= 1, NEW g \in Runs, Active(g),
         NEW p \in Uncharged
  PROVE  Harmed = {}
  <1>0. p \in Requests /\ p \in Procs /\ g \in Procs /\ p # g /\ p \in Past /\ pc \in [Procs -> Labels]
    BY BillingAssumption DEF Uncharged, UnchargedInv, Procs, TypeInv, TypeOK
  <1>1. ~Active(p)
    BY <1>0 DEF UnchargedInv, Alone
  <1>2. pc[p] \in {"done", "dead"}
    BY <1>0, <1>1 DEF Active, Past
  <1>3. pc[p] = "dead"
    BY <1>0, <1>2 DEF UnchargedInv, RequestTidy, Uncharged
  <1>4. faults <= 1 /\ faults \in Nat
    BY BillingAssumption DEF TypeInv, TypeOK
  <1>. QED BY <1>0, <1>3, <1>4 DEF UnchargedInv, FaultsInv

\* The invariant, and the types, when processes take turns.
LEMMA UnchargedInvariant == SerialSpec => [](TypeInv /\ UnchargedInv)
  <1>1. Init => TypeInv /\ UnchargedInv
    <2> SUFFICES ASSUME Init PROVE TypeInv /\ UnchargedInv
      OBVIOUS
    <2>1. TypeInv
      BY InitType
    <2>2. /\ \A q \in Procs : pc[q] = "idle" /\ pending[q] = NoWork
          /\ \A g \in Runs : \A p \in Requests : report[g][p] = "none"
          /\ \A r \in Requests : lastDebit[r] = Null
          /\ purchases = {} /\ debits = {} /\ commissions = {}
      BY DEF Init
    <2>3. Harmed = {}
      BY <2>2 DEF Harmed, Procs
    <2>4. Alone /\ (\A q \in Procs : FreshCopy(q)) /\ WaitInv
      BY <2>2 DEF Alone, Active, FreshCopy, WaitInv, Uncharged
    <2>5. (\A r \in Requests : RequestTidy(r)) /\ (\A g \in Runs : RunTidy(g)) /\ FaultsInv
      BY <2>2, <2>3 DEF RequestTidy, RequestInv, RunTidy, FaultsInv, Active, Procs
    <2>. QED BY <2>1, <2>2, <2>4, <2>5 DEF UnchargedInv
  <1>2. TypeInv /\ UnchargedInv /\ [Next /\ Alone']_vars => TypeInv' /\ UnchargedInv'
    <2> SUFFICES ASSUME TypeInv, UnchargedInv, [Next /\ Alone']_vars
                 PROVE  TypeInv' /\ UnchargedInv'
      OBVIOUS
    <2>1. TypeInv'
      BY StepType
    <2>2. ASSUME NEW r \in Requests, RequestStep(r), Alone' PROVE UnchargedInv'
      BY <2>2, RequestUncharged
    <2>3. ASSUME NEW g \in Runs, RunStep(g), Alone' PROVE UnchargedInv'
      BY <2>3, RunUncharged
    <2>4. CASE NextMonth \/ (\E a \in Amphorae : SoftDelete(a)) \/ UNCHANGED vars
      <3>1. UNCHANGED <<purchases, lastDebit, debits, commissions, pc, todo, cur, report,
                        pending, seen, faults>>
        BY <2>4 DEF NextMonth, SoftDelete, vars, db, local
      <3>2. /\ Alone' /\ purchases' \subseteq Past' /\ FaultsInv' /\ WaitInv'
            /\ \A q \in Procs : FreshCopy(q)'
        BY <3>1 DEF UnchargedInv, Alone, Active, Past, FreshCopy, FaultsInv, WaitInv,
                    Harmed, Uncharged, Charges, ToVisit, InHand
      <3>3. \A r \in Requests : RequestTidy(r)'
        BY <3>1 DEF UnchargedInv, RequestTidy, RequestInv, Charges
      <3>4. \A g \in Runs : RunTidy(g)'
        BY <3>1 DEF UnchargedInv, RunTidy, RunClean, Active, Past, Harmed, ToVisit, InHand
      <3>. QED BY <2>1, <3>2, <3>3, <3>4 DEF UnchargedInv
    <2>. QED BY <2>1, <2>2, <2>3, <2>4 DEF Next
  <1>. QED BY <1>1, <1>2, PTL DEF SerialSpec

\* With either provider and any number of failures, when one purchase or run is at work at
\* a time: once a run has come to its end, and no run has reported an error (nor, in
\* Cosmos, has been killed), every purchase has been charged, those included whose request
\* died between the creation and the debit (LastDebitTime stays unset there, and
\* PopulateDebitsAndCreditsAsync takes what was never debited).
THEOREM RunsChargeAll ==
  SerialSpec => [][\A g \in Runs : FinishRun(g) /\ Harmed = {} => Uncharged = {}]_vars
  <1>1. TypeInv /\ UnchargedInv =>
          [\A g \in Runs : FinishRun(g) /\ Harmed = {} => Uncharged = {}]_vars
    BY FinishedRun
  <1>. QED BY <1>1, UnchargedInvariant, PTL

\* With either provider and one failure at most, when one purchase or run is at work at a
\* time: a run that reports no error leaves no purchase uncharged (the failure that left
\* the purchase uncharged was the only one, so that no run was harmed).
THEOREM NoneLeftUncharged ==
  ASSUME MaxFaults <= 1
  PROVE  SerialSpec => RunLeavesNoneUncharged
  <1>1. TypeInv /\ UnchargedInv =>
          [\A g \in Runs : FinishRun(g) /\ (\A p \in Requests : report[g][p] # "error") =>
             \A p \in purchases : \E d \in debits : d.for = p]_vars
    <2> SUFFICES ASSUME TypeInv, UnchargedInv, NEW g \in Runs, FinishRun(g), NEW p \in purchases
                 PROVE  \E d \in debits : d.for = p
      OBVIOUS
    <2>1. Active(g)
      BY DEF FinishRun, Active
    <2>2. p \notin Uncharged
      BY <2>1, OneFailure, FinishedRun
    <2>. QED BY <2>2 DEF Uncharged, Charges
  <1>. QED BY <1>1, UnchargedInvariant, PTL DEF RunLeavesNoneUncharged

==============================================================================

---------------------------- MODULE BillingProofs ----------------------------
(***************************************************************************)
(* Theorems about Billing, for any processes, organisations and prices.    *)
(***************************************************************************)
EXTENDS Billing, FiniteSetTheorems, TLAPS

Orders == [user : Users, amphora : Amphorae]

\* The requests that got past the check, or stopped later on.
Started == {p \in Requests : pc[p] \notin {"idle", "refused"}}

\* What they ask for stays, and it is theirs that anything is charged for.
OrdersStand ==
  /\ \A p \in Started : order[p] \in Orders /\ OrgOf[order[p].user] \in Orgs
  /\ purchases \subseteq Started
  /\ \A g \in Runs : todo[g] \subseteq Started
  /\ \A g \in Runs : pc[g] \in {"debit", "credit", "delete"} => cur[g] \in Started

TypeInv == TypeOK /\ OrdersStand

------------------------------------------------------------------------------
(* Rows and units of work *)

\* A rounded ratio is an integer.
LEMMA RoundedRatioType ==
  ASSUME NEW n \in Nat PROVE RoundedRatio(n, 100) \in Int
  BY DEF RoundedRatio

\* The rows a process is about to enter are rows.
LEMMA RowTypes ==
  ASSUME TypeInv, NEW q \in Procs, NEW p \in Started
  PROVE  DebitRow(q, p) \in Rows /\ CreditRow(q, p) \in Rows
           /\ CommissionRow(q, p) \in Rows
  <1>1. order[p] \in Orders /\ OrgOf[order[p].user] \in Orgs /\ p \in Requests
        /\ now \in Months
    BY DEF TypeInv, TypeOK, OrdersStand, Started
  <1>2. order[p].amphora \in Amphorae
    BY <1>1 DEF Orders
  <1>3. SellerOf[order[p].amphora] \in Orgs /\ Price[order[p].amphora] \in Nat
    BY <1>2, BillingAssumption
  <1>4. Rate[SellerOf[order[p].amphora]] \in Nat
    BY <1>3, BillingAssumption
  <1>5. Price[order[p].amphora] * Rate[SellerOf[order[p].amphora]] \in Nat
    BY <1>3, <1>4
  <1>6. SellerShare(order[p].amphora) \in Int
    BY <1>5, RoundedRatioType DEF SellerShare
  <1>7. Commission(order[p].amphora) \in Int
    BY <1>3, <1>6 DEF Commission
  <1>. QED
    BY <1>1, <1>3, <1>6, <1>7 DEF DebitRow, CreditRow, CommissionRow, Row, Rows

\* The purchase in hand belongs to a started request.
LEMMA PurchaseStarted ==
  ASSUME TypeInv, NEW q \in Procs,
         pc[q] \in {"debit", "credit", "commission", "stamp", "delete"},
         q \in Runs => pc[q] \in {"debit", "credit", "delete"}
  PROVE  Purchase(q) \in Started
  <1>1. CASE q \in Requests
    BY <1>1 DEF Purchase, Started
  <1>2. CASE q \notin Requests
    BY <1>2 DEF Purchase, Procs, TypeInv, OrdersStand
  <1>. QED BY <1>1, <1>2

\* What a process saves is a unit of work.
LEMMA WorkType ==
  ASSUME TypeInv, NEW q \in Procs,
         pc[q] \in {"debit", "credit", "commission", "stamp", "delete"},
         q \in Runs => pc[q] \in {"debit", "credit", "delete"}
  PROVE  Work(q) \in UnitsOfWork
  <1> DEFINE p == Purchase(q)
             w == pending[q]
  <1>1. p \in Started /\ p \in Requests
    BY PurchaseStarted DEF Started
  <1>2. w \in UnitsOfWork /\ now \in Months
    BY DEF TypeInv, TypeOK
  <1>3. DebitRow(q, p) \in Rows /\ CreditRow(q, p) \in Rows
        /\ CommissionRow(q, p) \in Rows
    BY <1>1, RowTypes
  <1>4. [w EXCEPT !.debits = @ \cup {DebitRow(q, p)}] \in UnitsOfWork
    BY <1>2, <1>3 DEF UnitsOfWork
  <1>5. [w EXCEPT !.credits = @ \cup {CreditRow(q, p)}] \in UnitsOfWork
    BY <1>2, <1>3 DEF UnitsOfWork
  <1>6. [w EXCEPT !.commissions = @ \cup {CommissionRow(q, p)}] \in UnitsOfWork
    BY <1>2, <1>3 DEF UnitsOfWork
  <1>7. [[w EXCEPT !.commissions = @ \cup {CommissionRow(q, p)}]
           EXCEPT !.credits = [w EXCEPT !.credits = @ \cup {CreditRow(q, p)}].credits]
          \in UnitsOfWork
    BY <1>2, <1>5, <1>6 DEF UnitsOfWork
  <1>8. [w EXCEPT !.dated[p] = now] \in UnitsOfWork
        /\ [w EXCEPT !.dated[p] = Null] \in UnitsOfWork
    BY <1>1, <1>2 DEF UnitsOfWork
  <1>. QED
    BY <1>2, <1>4, <1>5, <1>6, <1>7, <1>8 DEF Work

\* The tables stay typed through a save and through one that is cut short.
TablesTyped ==
  /\ debits \subseteq Rows /\ credits \subseteq Rows /\ commissions \subseteq Rows
  /\ lastDebit \in [Requests -> Months \cup {Null}]

\* What a flush enters are rows,
LEMMA FlushType ==
  ASSUME TypeInv, NEW q \in Procs, NEW w \in UnitsOfWork, Flush(q, w)
  PROVE  debits' \subseteq Rows /\ credits' \subseteq Rows
           /\ lastDebit' \in [Requests -> Months \cup {Null}]
  <1>1. seen[q].debits \subseteq Rows /\ seen[q].credits \subseteq Rows
    BY DEF TypeInv, TypeOK
  <1>2. w.debits \subseteq Rows /\ w.credits \subseteq Rows
        /\ w.dated \in [Requests -> Months \cup {Null}]
    BY DEF UnitsOfWork
  <1>. QED
    BY <1>1, <1>2 DEF Flush, Stored, TypeInv, TypeOK

\* what a save enters too,
LEMMA SaveType ==
  ASSUME TypeInv, NEW q \in Procs, Work(q) \in UnitsOfWork, SaveChanges(q)
  PROVE  TablesTyped' /\ pending' \in [Procs -> UnitsOfWork]
           /\ seen' \in [Procs -> [debits : SUBSET Rows, credits : SUBSET Rows]]
  <1>1. TablesTyped'
    BY FlushType DEF SaveChanges, TablesTyped, UnitsOfWork, TypeInv, TypeOK
  <1>2. NoWork \in UnitsOfWork
    BY DEF NoWork, UnitsOfWork, Null
  <1>3. pending' \in [Procs -> UnitsOfWork]
    BY <1>2 DEF SaveChanges, Saved, TypeInv, TypeOK
  <1>4. Work(q).debits \subseteq Rows /\ Work(q).credits \subseteq Rows
    BY DEF UnitsOfWork
  <1>5. seen' \in [Procs -> [debits : SUBSET Rows, credits : SUBSET Rows]]
    BY <1>4 DEF SaveChanges, Saved, TypeInv, TypeOK
  <1>. QED BY <1>1, <1>3, <1>5

\* and what a save enters that is cut short.
LEMMA CutShortType ==
  ASSUME TypeInv, NEW q \in Procs, Work(q) \in UnitsOfWork, SaveIsCutShort(q)
  PROVE  TablesTyped'
  <1>1. PICK part \in WrittenBeforeFailure(Work(q)) :
          Flush(q, part) /\ commissions' = commissions \cup part.commissions
    BY DEF SaveIsCutShort
  <1>2. part \in UnitsOfWork
    <2>1. CASE Provider = "Sql"
      BY <1>1, <2>1 DEF WrittenBeforeFailure, NoWork, UnitsOfWork, Null
    <2>2. CASE Provider # "Sql"
      BY <1>1, <2>2 DEF WrittenBeforeFailure, UnitsOfWork, Null
    <2>. QED BY <2>1, <2>2
  <1>3. part.commissions \subseteq Rows
    BY <1>2 DEF UnitsOfWork
  <1>. QED
    BY <1>1, <1>2, <1>3, FlushType DEF TablesTyped, TypeInv, TypeOK

------------------------------------------------------------------------------
(* Type correctness, and that orders stand, by action *)

\* The types hold at the start,
LEMMA InitType == Init => TypeInv
  <1> SUFFICES ASSUME Init PROVE TypeInv
    OBVIOUS
  <1>1. (CHOOSE r \in Requests : TRUE) \in Requests
    BY BillingAssumption
  <1>2. NoWork \in UnitsOfWork
    BY DEF NoWork, UnitsOfWork, Null
  <1>3. TypeOK
    BY <1>1, <1>2, BillingAssumption
    DEF Init, TypeOK, Months, Null, Labels, NoAccounts, NoOrder
  <1>4. OrdersStand
    BY DEF Init, OrdersStand, Started, Procs
  <1>. QED BY <1>3, <1>4 DEF TypeInv

\* after a step of a purchase,
LEMMA RequestType ==
  ASSUME TypeInv, NEW r \in Requests, RequestStep(r)
  PROVE  TypeInv'
  <1>0. r \in Procs /\ r \notin Runs
    BY BillingAssumption DEF Procs
  <1>1. ASSUME NEW u \in Users, NEW a \in Amphorae, CheckCanPurchase(r, u, a)
        PROVE  TypeInv'
    <2>1. TypeOK'
      BY <1>0, <1>1
      DEF CheckCanPurchase, LoadAccounts, Goto, TypeInv, TypeOK, Labels
    <2>2. order'[r] \in Orders /\ (pc'[r] = "query" => OrgOf[order'[r].user] \in Orgs)
      BY <1>0, <1>1, BillingAssumption
      DEF CheckCanPurchase, CanPurchase, Goto, Orders, TypeInv, TypeOK
    <2>3. r \notin Started /\ pc'[r] \in {"query", "refused"}
          /\ \A p \in Requests : p # r => pc'[p] = pc[p] /\ order'[p] = order[p]
      BY <1>0, <1>1 DEF CheckCanPurchase, Goto, Started, TypeInv, TypeOK, Procs
    <2>4. \A g \in Runs : pc'[g] = pc[g]
      BY <1>0, <1>1 DEF CheckCanPurchase, Goto, TypeInv, TypeOK, Procs
    <2>5. OrdersStand'
      BY <1>1, <2>2, <2>3, <2>4 DEF CheckCanPurchase, OrdersStand, Started, TypeInv
    <2>. QED BY <2>1, <2>5 DEF TypeInv
  <1>2. CASE QueryExisting(r)
    BY <1>0, <1>2 DEF QueryExisting, Goto, db, TypeInv, TypeOK, OrdersStand, Started,
                      Labels, Procs
  <1>3. CASE CreatePurchase(r)
    BY <1>0, <1>3 DEF CreatePurchase, Goto, TypeInv, TypeOK, OrdersStand, Started,
                      Labels, Procs
  <1>4. CASE DebitBuyer(r) \/ CreditSeller(r) \/ TrackCommission(r) \/ StampPurchase(r)
    <2>1. Work(r) \in UnitsOfWork
      BY <1>0, <1>4, WorkType
      DEF DebitBuyer, CreditSeller, TrackCommission, StampPurchase
    <2>2. SaveChanges(r)
      BY <1>4 DEF DebitBuyer, CreditSeller, TrackCommission, StampPurchase
    <2>3. TablesTyped' /\ pending' \in [Procs -> UnitsOfWork]
          /\ seen' \in [Procs -> [debits : SUBSET Rows, credits : SUBSET Rows]]
      BY <1>0, <2>1, <2>2, SaveType
    <2>4. purchaseCount' \in [Amphorae -> Nat]
      <3>1. counted[r] # -1 => counted[r] \in Nat
        BY DEF TypeInv, TypeOK
      <3>. QED
        BY <1>4, <3>1 DEF DebitBuyer, CreditSeller, TrackCommission, StampPurchase,
                          TypeInv, TypeOK
    <2>5. /\ \E l \in {"credit", "commission", "count", "done"} :
                pc' = [pc EXCEPT ![r] = l]
          /\ UNCHANGED <<purchases, order, softDeleted, counted, todo, cur, report,
                         now, faults>>
          /\ pc[r] \notin {"idle", "refused"}
      BY <1>4 DEF DebitBuyer, CreditSeller, TrackCommission, StampPurchase, Goto
    <2>6. TypeOK'
      BY <1>0, <2>3, <2>4, <2>5 DEF TablesTyped, TypeInv, TypeOK, Labels
    <2>7. OrdersStand'
      BY <1>0, <2>5 DEF TypeInv, TypeOK, OrdersStand, Started, Procs
    <2>. QED BY <2>6, <2>7 DEF TypeInv
  <1>5. CASE CountPurchases(r)
    <2> DEFINE S == {p \in purchases : order[p].amphora = order[r].amphora}
    <2>0. Cardinality(S) \in Nat
      <3>1. S \subseteq Requests
        BY DEF TypeInv, TypeOK
      <3>. QED BY <3>1, BillingAssumption, FS_Subset, FS_CardinalityType
    <2>1. counted' \in [Requests -> Nat \cup {-1}]
      <3>1. counted' = [counted EXCEPT ![r] = IF Cardinality(S) = @ THEN -1 ELSE Cardinality(S)]
        BY <1>5 DEF CountPurchases
      <3>. QED BY <2>0, <3>1 DEF TypeInv, TypeOK
    <2>. QED
      BY <1>0, <1>5, <2>1 DEF CountPurchases, Goto, db, TypeInv, TypeOK, OrdersStand,
                              Started, Labels, Procs
  <1>6. CASE RequestFails(r)
    <2>1. TablesTyped'
      <3>1. CASE pc[r] \in {"debit", "credit", "commission", "stamp"}
        BY <1>0, <1>6, <3>1, WorkType, CutShortType DEF RequestFails
      <3>2. CASE pc[r] \notin {"debit", "credit", "commission", "stamp"}
        <4>1. Work(r) = pending[r]
          BY <1>6, <3>2 DEF RequestFails, Work
        <4>2. Work(r) \in UnitsOfWork
          BY <1>0, <4>1 DEF TypeInv, TypeOK
        <4>. QED BY <1>0, <1>6, <4>2, CutShortType DEF RequestFails
      <3>. QED BY <3>1, <3>2
    <2>2. faults' \in 0 .. MaxFaults
      BY <1>6, BillingAssumption DEF RequestFails, Fault, TypeInv, TypeOK
    <2>. QED
      BY <1>0, <1>6, <2>1, <2>2 DEF RequestFails, Goto, TablesTyped, TypeInv, TypeOK,
                                    OrdersStand, Started, Labels, Procs
  <1>. QED
    BY <1>1, <1>2, <1>3, <1>4, <1>5, <1>6 DEF RequestStep

\* after one of a billing run,
LEMMA RunType ==
  ASSUME TypeInv, NEW g \in Runs, RunStep(g)
  PROVE  TypeInv'
  <1>0. g \in Procs /\ g \notin Requests
    BY BillingAssumption DEF Procs
  <1>1. ASSUME NEW month \in 1 .. (now + MonthsAhead), StartRun(g, month)
        PROVE  TypeInv'
    <2>1. Due(month) \subseteq Started
      BY DEF Due, TypeInv, OrdersStand
    <2>2. seen' \in [Procs -> [debits : SUBSET Rows, credits : SUBSET Rows]]
      BY <1>0, <1>1 DEF StartRun, LoadAccounts, TypeInv, TypeOK
    <2>. QED
      BY <1>0, <1>1, <2>1, <2>2 DEF StartRun, Goto, db, TypeInv, TypeOK, OrdersStand,
                                    Started, Labels, Procs
  <1>2. ASSUME NEW p \in Requests, TakePurchase(g, p)
        PROVE  TypeInv'
    <2>1. pending' \in [Procs -> UnitsOfWork]
      <3>1. pending[g] \in UnitsOfWork /\ now \in Months
        BY <1>0 DEF TypeInv, TypeOK
      <3>2. [pending[g] EXCEPT !.dated[p] = now] \in UnitsOfWork
        BY <3>1 DEF UnitsOfWork
      <3>3. pending' = [pending EXCEPT ![g] = [@ EXCEPT !.dated[p] = now]]
        BY <1>2 DEF TakePurchase
      <3>. QED BY <1>0, <3>2, <3>3 DEF TypeInv, TypeOK
    <2>. QED
      BY <1>0, <1>2, <2>1 DEF TakePurchase, Goto, db, TypeInv, TypeOK, OrdersStand,
                              Started, Labels, Procs
  <1>3. CASE DebitPurchasingOrganisation(g) \/ CreditAmphoraOrganisation(g)
    <2>1. Work(g) \in UnitsOfWork
      BY <1>0, <1>3, WorkType
      DEF DebitPurchasingOrganisation, CreditAmphoraOrganisation
    <2>2. /\ SaveChanges(g)
          /\ \E l \in {"credit", "next"} : pc' = [pc EXCEPT ![g] = l]
          /\ UNCHANGED <<purchases, order, softDeleted, purchaseCount, counted, todo,
                         cur, now, faults>>
          /\ report' = report \/ Reported(g, "updated")
          /\ pc[g] \in {"debit", "credit"}
      BY <1>3 DEF DebitPurchasingOrganisation, CreditAmphoraOrganisation, Goto
    <2>3. TablesTyped' /\ pending' \in [Procs -> UnitsOfWork]
          /\ seen' \in [Procs -> [debits : SUBSET Rows, credits : SUBSET Rows]]
      BY <1>0, <2>1, <2>2, SaveType
    <2>4. report' \in [Runs -> [Requests -> {"none", "updated", "deleted", "error"}]]
      <3>1. CASE report' = report
        BY <3>1 DEF TypeInv, TypeOK
      <3>2. CASE Reported(g, "updated")
        <4>1. report[g] \in [Requests -> {"none", "updated", "deleted", "error"}]
              /\ cur[g] \in Requests
          BY DEF TypeInv, TypeOK
        <4>2. [report[g] EXCEPT ![cur[g]] = "updated"]
                \in [Requests -> {"none", "updated", "deleted", "error"}]
          BY <4>1
        <4>3. report' = [report EXCEPT ![g] = [@ EXCEPT ![cur[g]] = "updated"]]
          BY <3>2 DEF Reported
        <4>. QED BY <4>2, <4>3 DEF TypeInv, TypeOK
      <3>. QED BY <2>2, <3>1, <3>2
    <2>5. TypeOK'
      BY <1>0, <2>2, <2>3, <2>4 DEF TablesTyped, TypeInv, TypeOK, Labels
    <2>6. OrdersStand'
      BY <1>0, <2>2 DEF TypeInv, TypeOK, OrdersStand, Started, Procs
    <2>. QED BY <2>5, <2>6 DEF TypeInv
  <1>4. CASE DeletePurchase(g)
    <2>1. /\ pc' = [pc EXCEPT ![g] = "next"]
          /\ UNCHANGED <<order, softDeleted, purchaseCount, counted, todo, cur, now,
                         faults>>
          /\ Reported(g, "deleted") /\ purchases' \subseteq purchases
      BY <1>4 DEF DeletePurchase, Goto
    <2>2. Work(g) \in UnitsOfWork
      BY <1>0, <1>4, WorkType DEF DeletePurchase
    <2>3. TablesTyped' /\ pending' \in [Procs -> UnitsOfWork]
          /\ seen' \in [Procs -> [debits : SUBSET Rows, credits : SUBSET Rows]]
      <3>1. CASE cur[g] \in purchases
        <4>1. NoWork \in UnitsOfWork
          BY DEF NoWork, UnitsOfWork, Null
        <4>2. Flush(g, Work(g)) /\ Saved(g, Work(g))
              /\ commissions' \subseteq commissions \cup Work(g).commissions
          BY <1>4, <3>1 DEF DeletePurchase
        <4>3. Work(g).debits \subseteq Rows /\ Work(g).credits \subseteq Rows
              /\ Work(g).commissions \subseteq Rows
          BY <2>2 DEF UnitsOfWork
        <4>. QED
          BY <1>0, <2>2, <4>1, <4>2, <4>3, FlushType
          DEF Saved, TablesTyped, TypeInv, TypeOK
      <3>2. CASE cur[g] \notin purchases
        BY <1>4, <3>2 DEF DeletePurchase, TablesTyped, TypeInv, TypeOK
      <3>. QED BY <3>1, <3>2
    <2>4. TypeOK'
      BY <1>0, <2>1, <2>3 DEF Reported, TablesTyped, TypeInv, TypeOK, Labels
    <2>5. OrdersStand'
      BY <1>0, <2>1 DEF TypeInv, TypeOK, OrdersStand, Started, Procs
    <2>. QED BY <2>4, <2>5 DEF TypeInv
  <1>5. CASE ReadFails(g)
    BY <1>0, <1>5, BillingAssumption
    DEF ReadFails, Reported, Fault, Goto, db, TypeInv, TypeOK, OrdersStand, Started,
        Labels, Procs
  <1>6. CASE SaveFails(g)
    <2>1. Work(g) \in UnitsOfWork
      BY <1>0, <1>6, WorkType DEF SaveFails
    <2>2. TablesTyped'
      BY <1>0, <1>6, <2>1, CutShortType DEF SaveFails
    <2>3. faults' \in 0 .. MaxFaults
      BY <1>6, BillingAssumption DEF SaveFails, Fault, TypeInv, TypeOK
    <2>4. TypeOK'
      BY <1>0, <1>6, <2>1, <2>2, <2>3
      DEF SaveFails, Reported, Goto, TablesTyped, TypeInv, TypeOK, Labels
    <2>5. OrdersStand'
      BY <1>0, <1>6 DEF SaveFails, Goto, TypeInv, TypeOK, OrdersStand, Started, Procs
    <2>. QED BY <2>4, <2>5 DEF TypeInv
  <1>7. CASE FinishRun(g)
    BY <1>0, <1>7 DEF FinishRun, Goto, db, TypeInv, TypeOK, OrdersStand, Started,
                      Labels, Procs
  <1>8. CASE KillRun(g)
    <2>1. TablesTyped'
      <3>1. CASE pc[g] = "next"
        BY <1>8, <3>1 DEF KillRun, TablesTyped, TypeInv, TypeOK
      <3>2. CASE pc[g] \in {"debit", "credit", "delete"}
        BY <1>0, <1>8, <3>2, WorkType, CutShortType DEF KillRun
      <3>. QED BY <1>8, <3>1, <3>2 DEF KillRun
    <2>2. faults' \in 0 .. MaxFaults
      BY <1>8, BillingAssumption DEF KillRun, Fault, TypeInv, TypeOK
    <2>3. TypeOK'
      BY <1>0, <1>8, <2>1, <2>2 DEF KillRun, Goto, TablesTyped, TypeInv, TypeOK, Labels
    <2>4. OrdersStand'
      BY <1>0, <1>8 DEF KillRun, Goto, TypeInv, TypeOK, OrdersStand, Started, Procs
    <2>. QED BY <2>3, <2>4 DEF TypeInv
  <1>. QED
    BY <1>1, <1>2, <1>3, <1>4, <1>5, <1>6, <1>7, <1>8 DEF RunStep

\* after each step,
LEMMA StepType == TypeInv /\ [Next]_vars => TypeInv'
  <1> SUFFICES ASSUME TypeInv, [Next]_vars PROVE TypeInv'
    OBVIOUS
  <1>1. ASSUME NEW r \in Requests, RequestStep(r) PROVE TypeInv'
    BY <1>1, RequestType
  <1>2. ASSUME NEW g \in Runs, RunStep(g) PROVE TypeInv'
    BY <1>2, RunType
  <1>3. CASE NextMonth
    BY <1>3, BillingAssumption
    DEF NextMonth, db, local, TypeInv, TypeOK, OrdersStand, Started, Months
  <1>4. ASSUME NEW a \in Amphorae, SoftDelete(a) PROVE TypeInv'
    BY <1>4 DEF SoftDelete, local, TypeInv, TypeOK, OrdersStand, Started
  <1>5. CASE UNCHANGED vars
    BY <1>5 DEF vars, db, local, TypeInv, TypeOK, OrdersStand, Started
  <1>. QED
    BY <1>1, <1>2, <1>3, <1>4, <1>5 DEF Next

\* and always.
LEMMA TypeInvariant == Spec => []TypeInv
  BY InitType, StepType, PTL DEF Spec

\* Every variable ranges over the values the code can give it, through every
\* purchase, billing run, overlap and failure (PurchaseService and
\* AccountsService, with their stores).
THEOREM TypeCorrect == Spec => []TypeOK
  <1>1. TypeInv => TypeOK
    BY DEF TypeInv
  <1>. QED BY <1>1, TypeInvariant, PTL

------------------------------------------------------------------------------
(* In Sql a save is one transaction, and rows of the ledger are only added *)

\* In Sql a flush enters all of its rows,
LEMMA SqlFlush ==
  ASSUME Provider = "Sql", NEW q, NEW w, Flush(q, w)
  PROVE  debits' = debits \cup w.debits /\ credits' = credits \cup w.credits
  BY DEF Flush, Stored

\* and a save that is cut short none.
LEMMA SqlCutShort ==
  ASSUME Provider = "Sql", NEW q, SaveIsCutShort(q)
  PROVE  UNCHANGED <<debits, credits, commissions>>
  <1>1. PICK part \in {NoWork} :
          Flush(q, part) /\ commissions' = commissions \cup part.commissions
    BY DEF SaveIsCutShort, WrittenBeforeFailure
  <1>. QED BY <1>1, SqlFlush DEF NoWork

\* A credit that a debit of the same charge came before.
Covered(c) == \E d \in debits : SameCharge(c, d) /\ d.month <= c.month

\* The buyer has been debited for the purchase in hand.
Debited(q) == \E d \in debits : d.by = q /\ d.for = Purchase(q) /\ d.month <= now

\* No credit is stored, nor tracked, nor next, without its debit.
LedgerInv ==
  /\ NoSaleWithoutCharge
  /\ \A q \in Procs : \A c \in pending[q].credits : Covered(c)
  /\ \A q \in Procs : pc[q] = "credit" => Debited(q)

\* The credits a process saves are covered when it saves them.
LEMMA WorkCovered ==
  ASSUME TypeInv, LedgerInv, NEW q \in Procs
  PROVE  \A c \in Work(q).credits : Covered(c)
  <1>1. \A c \in pending[q].credits : Covered(c)
    BY DEF LedgerInv
  <1>2. CASE pc[q] = "credit"
    <2> DEFINE c0 == CreditRow(q, Purchase(q))
    <2>1. Covered(c0)
      BY <1>2 DEF LedgerInv, Debited, Covered, SameCharge, CreditRow, Row
    <2>2. pending[q] \in UnitsOfWork
      BY DEF TypeInv, TypeOK
    <2>3. Work(q).credits = pending[q].credits \cup {c0}
      BY <1>2, <2>2 DEF Work, UnitsOfWork
    <2>. QED BY <1>1, <2>1, <2>3
  <1>3. CASE pc[q] # "credit"
    <2>1. pending[q] \in UnitsOfWork
      BY DEF TypeInv, TypeOK
    <2>2. Work(q).credits = pending[q].credits
      BY <1>3, <2>1 DEF Work, UnitsOfWork
    <2>. QED BY <1>1, <2>2
  <1>. QED BY <1>2, <1>3

\* What every step has to show, of process q at most.
LEMMA LedgerStep ==
  ASSUME TypeInv, TypeInv', LedgerInv, NEW q \in Procs,
         debits \subseteq debits', now' = now,
         \A c \in credits' : c \in credits \/ Covered(c),
         \A c \in pending'[q].credits : Covered(c),
         \A o \in Procs : o # q => pending'[o] = pending[o] /\ pc'[o] = pc[o]
                                      /\ Purchase(o)' = Purchase(o),
         pc'[q] = "credit" => Debited(q)'
  PROVE  LedgerInv'
  <1>1. ASSUME NEW c, Covered(c) PROVE Covered(c)'
    BY <1>1 DEF Covered, SameCharge
  <1>2. NoSaleWithoutCharge'
    BY <1>1 DEF LedgerInv, NoSaleWithoutCharge, Covered
  <1>3. \A o \in Procs : \A c \in pending'[o].credits : Covered(c)'
    BY <1>1 DEF LedgerInv
  <1>4. ASSUME NEW o \in Procs, pc'[o] = "credit" PROVE Debited(o)'
    BY <1>4 DEF LedgerInv, Debited
  <1>. QED BY <1>2, <1>3, <1>4 DEF LedgerInv

\* A save enters covered credits with their debits.
LEMMA LedgerSave ==
  ASSUME Provider = "Sql", TypeInv, LedgerInv, NEW q \in Procs, SaveChanges(q)
  PROVE  /\ debits' = debits \cup Work(q).debits
         /\ \A c \in credits' : c \in credits \/ Covered(c)
         /\ \A c \in pending'[q].credits : Covered(c)
         /\ \A o \in Procs : o # q => pending'[o] = pending[o]
  BY SqlFlush, WorkCovered DEF SaveChanges, Saved, NoWork, TypeInv, TypeOK

\* A debit that is saved is there.
LEMMA DebitSaved ==
  ASSUME TypeInv, NEW q \in Procs, pc[q] = "debit", 
         debits' = debits \cup Work(q).debits,
         now' = now, Purchase(q)' = Purchase(q)
  PROVE  Debited(q)'
  <1>1. pending[q] \in UnitsOfWork /\ now \in Int
    BY DEF TypeInv, TypeOK, Months
  <1>2. DebitRow(q, Purchase(q)) \in Work(q).debits
    BY <1>1 DEF Work, UnitsOfWork
  <1>. QED BY <1>1, <1>2 DEF Debited, DebitRow, Row

\* A step of a purchase keeps the ledger covered,
LEMMA RequestLedger ==
  ASSUME Provider = "Sql", TypeInv, TypeInv', LedgerInv,
         NEW r \in Requests, RequestStep(r)
  PROVE  LedgerInv'
  <1>0. r \in Procs /\ pc \in [Procs -> Labels] /\ pending \in [Procs -> UnitsOfWork]
        /\ \A c \in pending[r].credits : Covered(c)
    BY DEF Procs, TypeInv, TypeOK, LedgerInv
  <1>1. cur' = cur /\ now' = now
    BY DEF RequestStep, CheckCanPurchase, QueryExisting, CreatePurchase, DebitBuyer,
           CreditSeller, TrackCommission, CountPurchases, StampPurchase, RequestFails
  <1>2. \A o \in Procs : Purchase(o)' = Purchase(o)
    BY <1>1 DEF Purchase
  <1>3. ASSUME NEW u \in Users, NEW a \in Amphorae, CheckCanPurchase(r, u, a)
        PROVE  LedgerInv'
    BY <1>0, <1>1, <1>2, <1>3, LedgerStep DEF CheckCanPurchase, Goto
  <1>4. CASE QueryExisting(r) \/ CreatePurchase(r) \/ CountPurchases(r)
    <2>1. /\ \E l \in Labels \ {"credit"} : pc' = [pc EXCEPT ![r] = l]
          /\ UNCHANGED <<debits, credits, pending>>
      BY <1>4 DEF QueryExisting, CreatePurchase, CountPurchases, Goto, db, Labels
    <2>. QED BY <1>0, <1>1, <1>2, <2>1, LedgerStep
  <1>5. CASE DebitBuyer(r)
    <2>1. SaveChanges(r) /\ pc[r] = "debit" /\ pc' = [pc EXCEPT ![r] = "credit"]
      BY <1>5 DEF DebitBuyer, Goto
    <2>2. debits' = debits \cup Work(r).debits
      BY <1>0, <2>1, LedgerSave
    <2>3. Debited(r)'
      BY <1>0, <1>1, <1>2, <2>1, <2>2, DebitSaved
    <2>. QED BY <1>0, <1>1, <1>2, <2>1, <2>3, LedgerSave, LedgerStep
  <1>6. CASE CreditSeller(r) \/ TrackCommission(r) \/ StampPurchase(r)
    <2>1. /\ SaveChanges(r)
          /\ \E l \in Labels \ {"credit"} : pc' = [pc EXCEPT ![r] = l]
      BY <1>6 DEF CreditSeller, TrackCommission, StampPurchase, Goto, Labels
    <2>. QED BY <1>0, <1>1, <1>2, <2>1, LedgerSave, LedgerStep
  <1>7. CASE RequestFails(r)
    <2>1. UNCHANGED <<debits, credits, pending>> /\ pc' = [pc EXCEPT ![r] = "dead"]
      BY <1>7, SqlCutShort DEF RequestFails, Goto
    <2>. QED BY <1>0, <1>1, <1>2, <2>1, LedgerStep
  <1>. QED
    BY <1>3, <1>4, <1>5, <1>6, <1>7 DEF RequestStep

\* and so does one of a billing run.
LEMMA RunLedger ==
  ASSUME Provider = "Sql", TypeInv, TypeInv', LedgerInv,
         NEW g \in Runs, RunStep(g)
  PROVE  LedgerInv'
  <1>0. g \in Procs /\ pc \in [Procs -> Labels] /\ pending \in [Procs -> UnitsOfWork]
        /\ cur \in [Runs -> Requests] /\ \A c \in pending[g].credits : Covered(c)
    BY DEF Procs, TypeInv, TypeOK, LedgerInv
  <1>1. now' = now /\ \A o \in Runs : o # g => cur'[o] = cur[o]
    BY <1>0
    DEF RunStep, StartRun, TakePurchase, DebitPurchasingOrganisation,
        CreditAmphoraOrganisation, DeletePurchase, ReadFails, SaveFails, FinishRun,
        KillRun
  <1>2. \A o \in Procs : o # g => Purchase(o)' = Purchase(o)
    BY <1>1 DEF Purchase, Procs
  <1>3. ASSUME NEW month, StartRun(g, month) PROVE LedgerInv'
    BY <1>0, <1>1, <1>2, <1>3, LedgerStep DEF StartRun, Goto, db
  <1>4. ASSUME NEW p \in Requests, TakePurchase(g, p) PROVE LedgerInv'
    <2>1. /\ \E l \in Labels \ {"credit"} : pc' = [pc EXCEPT ![g] = l]
          /\ UNCHANGED <<debits, credits>>
          /\ pending' = [pending EXCEPT ![g].dated[p] = now]
      BY <1>4 DEF TakePurchase, Goto, db, Labels
    <2>2. pending'[g].credits = pending[g].credits
      BY <1>0, <2>1 DEF UnitsOfWork
    <2>. QED BY <1>0, <1>1, <1>2, <2>1, <2>2, LedgerStep
  <1>5. CASE DebitPurchasingOrganisation(g)
    <2>1. SaveChanges(g) /\ pc[g] = "debit" /\ pc' = [pc EXCEPT ![g] = "credit"]
          /\ cur' = cur
      BY <1>5 DEF DebitPurchasingOrganisation, Goto
    <2>2. debits' = debits \cup Work(g).debits /\ Purchase(g)' = Purchase(g)
      BY <1>0, <2>1, LedgerSave DEF Purchase
    <2>3. Debited(g)'
      BY <1>0, <1>1, <2>1, <2>2, DebitSaved
    <2>. QED BY <1>0, <1>1, <1>2, <2>1, <2>3, LedgerSave, LedgerStep
  <1>6. CASE CreditAmphoraOrganisation(g)
    <2>1. SaveChanges(g) /\ pc' = [pc EXCEPT ![g] = "next"]
      BY <1>6 DEF CreditAmphoraOrganisation, Goto
    <2>. QED BY <1>0, <1>1, <1>2, <2>1, LedgerSave, LedgerStep
  <1>7. CASE DeletePurchase(g)
    <2>1. pc' = [pc EXCEPT ![g] = "next"]
      BY <1>7 DEF DeletePurchase, Goto
    <2>2. CASE cur[g] \in purchases
      <3>1. Flush(g, Work(g)) /\ Saved(g, Work(g))
        BY <1>7, <2>2 DEF DeletePurchase
      <3>2. debits \subseteq debits' /\ \A c \in credits' : c \in credits \/ Covered(c)
        BY <1>0, <3>1, SqlFlush, WorkCovered
      <3>. QED
        BY <1>0, <1>1, <1>2, <2>1, <3>1, <3>2, LedgerStep DEF Saved, NoWork
    <2>3. CASE cur[g] \notin purchases
      <3>1. UNCHANGED <<debits, credits, pending>>
        BY <1>7, <2>3 DEF DeletePurchase
      <3>. QED BY <1>0, <1>1, <1>2, <2>1, <3>1, LedgerStep
    <2>. QED BY <2>2, <2>3
  <1>8. CASE ReadFails(g) \/ FinishRun(g)
    <2>1. /\ \E l \in Labels \ {"credit"} : pc' = [pc EXCEPT ![g] = l]
          /\ UNCHANGED <<debits, credits, pending>>
      BY <1>8 DEF ReadFails, FinishRun, Goto, db, Labels
    <2>. QED BY <1>0, <1>1, <1>2, <2>1, LedgerStep
  <1>9. CASE SaveFails(g)
    <2>1. pc' = [pc EXCEPT ![g] = "next"] /\ pending' = [pending EXCEPT ![g] = Work(g)]
          /\ UNCHANGED <<debits, credits>>
      BY <1>9, SqlCutShort DEF SaveFails, Goto
    <2>. QED BY <1>0, <1>1, <1>2, <2>1, WorkCovered, LedgerStep
  <1>10. CASE KillRun(g)
    <2>1. pc' = [pc EXCEPT ![g] = "dead"] /\ UNCHANGED <<debits, credits, pending>>
      BY <1>10, SqlCutShort DEF KillRun, Goto
    <2>. QED BY <1>0, <1>1, <1>2, <2>1, LedgerStep
  <1>. QED
    BY <1>3, <1>4, <1>5, <1>6, <1>7, <1>8, <1>9, <1>10 DEF RunStep

\* In Sql (and with the in-memory provider) a seller is never credited before
\* the buyer is debited for the same charge: for any number of purchases and
\* billing runs, overlapping, failing or dying anywhere (the order of the saves
\* in PurchaseAmphoraAsync and PopulateDebitsAndCreditsAsync).
THEOREM SaleIsCharged ==
  ASSUME Provider = "Sql" PROVE Spec => []NoSaleWithoutCharge
  <1>1. Init => LedgerInv
    BY DEF Init, LedgerInv, NoSaleWithoutCharge, NoWork
  <1>2. TypeInv /\ TypeInv' /\ LedgerInv /\ [Next]_vars => LedgerInv'
    <2> SUFFICES ASSUME TypeInv, TypeInv', LedgerInv, [Next]_vars PROVE LedgerInv'
      OBVIOUS
    <2>1. ASSUME NEW r \in Requests, RequestStep(r) PROVE LedgerInv'
      BY <2>1, RequestLedger
    <2>2. ASSUME NEW g \in Runs, RunStep(g) PROVE LedgerInv'
      BY <2>2, RunLedger
    <2>3. CASE NextMonth
      <3>1. UNCHANGED <<debits, credits, pending, pc, cur>> /\ now <= now'
        BY <2>3 DEF NextMonth, db, local, TypeInv, TypeOK, Months
      <3>. QED
        BY <3>1 DEF LedgerInv, NoSaleWithoutCharge, Covered, Debited, Purchase,
                    SameCharge, TypeInv, TypeOK, Rows, Months
    <2>4. CASE UNCHANGED vars \/ \E a \in Amphorae : SoftDelete(a)
      <3>1. UNCHANGED <<debits, credits, pending, pc, cur, now>>
        BY <2>4 DEF SoftDelete, vars, db, local
      <3>. QED
        BY <3>1 DEF LedgerInv, NoSaleWithoutCharge, Covered, Debited, Purchase,
                    SameCharge
    <2>. QED BY <2>1, <2>2, <2>3, <2>4 DEF Next
  <1>3. LedgerInv => NoSaleWithoutCharge
    BY DEF LedgerInv
  <1>. QED BY <1>1, <1>2, <1>3, TypeInvariant, PTL DEF Spec
==============================================================================

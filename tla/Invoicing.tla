------------------------------ MODULE Invoicing ------------------------------
(***************************************************************************)
(* Invoices of one organisation's account.                                 *)
(*                                                                         *)
(*   Generators  calls of AccountsService.GenerateInvoiceAsync (the admin  *)
(*               pages and POST api/account/invoices)                      *)
(*   Writers     requests that enter one transaction in the account: the   *)
(*               AddCredit page, or a debit or credit of a purchase        *)
(*                                                                         *)
(* Each has a context of its own and one action is one database call.  An  *)
(* amount is positive for a credit and negative for a debit.  The clock    *)
(* counts three instants in every month: its first, at midnight; the rest  *)
(* of it; and its last nine seconds, which EndOfMonth leaves out.          *)
(***************************************************************************)
EXTENDS Integers, FiniteSets, FiniteSetsExt

CONSTANTS
  Generators, Writers,
  Amounts,         \* what a Writer may enter
  Provider,        \* "Sql" (and the in-memory provider) or "Cosmos"
  MonthsInYear,    \* 12 in the code
  MaxMonth,        \* bound on the calendar
  MaxFaults        \* bound on failed calls and killed processes

ASSUME InvoicingAssumption ==
  /\ IsFiniteSet(Generators) /\ IsFiniteSet(Writers)
  /\ Generators \cap Writers = {}
  /\ Amounts \subseteq Int
  /\ Provider \in {"Sql", "Cosmos"}
  /\ MonthsInYear \in Nat \ {0} /\ MaxMonth \in Nat /\ MaxFaults \in Nat

Procs == Generators \cup Writers
Months == 0 .. MaxMonth
Instants == 0 .. (3 * MaxMonth + 2)

VARIABLES
  account,    \* Account.Debits and Account.Credits
  invoices,   \* the organisation's InvoiceModels
  pc,
  asked,      \* a generator's arguments
  copy,       \* the account's transactions as a context loaded them
  old,        \* toRemove
  result,     \* the invoice a generator returns
  entry,      \* the transaction a writer enters
  now, faults

vars == <<account, invoices, pc, asked, copy, old, result, entry, now, faults>>

------------------------------------------------------------------------------
(* Transactions and dates *)

\* StartOfMonth < Timestamp < EndOfMonth, which is nine seconds early.
InWindow(t, month) == 3 * month < t.at /\ t.at < 3 * month + 2

\* GetBalance, and InvoiceBalance of an invoice's transactions.
Balance(txs) == MapThenSumSet(LAMBDA t : t.amount, txs)

\* (mutant) carried with the sign swapped.
CarrySwapped(g, lines) ==
  IF Balance(lines) = 0 THEN {}
  ELSE {[by |-> g, amount |-> 0 - Balance(lines), at |-> now]}
Carry(g, lines) ==
  IF Balance(lines) = 0 THEN {}
  ELSE {[by |-> g, amount |-> Balance(lines), at |-> now]}

------------------------------------------------------------------------------
(* The store *)

\* Rows of their own in Sql; in Cosmos part of the organisation's document,
\* which is replaced by the context's copy.
Stored(q, removed, added) ==
  ((IF Provider = "Sql" THEN account ELSE copy[q]) \ removed) \cup added

\* UpdateAsync reads the organisation again after it has saved.  Whether the
\* tracked account takes the transactions others have entered is up to EF.
ReadAgain(q) ==
  \E fresh \in {copy[q], copy[q] \cup account} : copy' = [copy EXCEPT ![q] = fresh]

Fault == faults < MaxFaults /\ faults' = faults + 1
Goto(q, label) == pc' = [pc EXCEPT ![q] = label]

------------------------------------------------------------------------------
(* A writer: AddCredit.OnPostAsync *)

LoadOrganisation(w) ==
  /\ pc[w] = "idle"
  /\ copy' = [copy EXCEPT ![w] = account]
  /\ Goto(w, "enter")
  /\ UNCHANGED <<account, invoices, asked, old, result, entry, now, faults>>

EnterTransaction(w, amount) ==
  /\ pc[w] = "enter"
  /\ LET t == [by |-> w, amount |-> amount, at |-> now]
     IN  /\ entry' = [entry EXCEPT ![w] = t]
         /\ account' = Stored(w, {}, {t})
  /\ Goto(w, "done")
  /\ UNCHANGED <<invoices, asked, copy, old, result, now, faults>>

------------------------------------------------------------------------------
(* A generator: GenerateInvoiceAsync *)

ReadOrganisation(g, month, isPreview, regenerate) ==
  /\ pc[g] = "idle"
  /\ asked' = [asked EXCEPT ![g] = [month |-> month, isPreview |-> isPreview,
                                    regenerate |-> regenerate]]
  /\ copy' = [copy EXCEPT ![g] = account]
  /\ Goto(g, "look")
  /\ UNCHANGED <<account, invoices, old, result, entry, now, faults>>

\* Only the month of the year is compared.
\* (mutant) final invoices are left alone.
ExistingPreviews(month) ==
  {i \in invoices : i.isPreview /\ i.month % MonthsInYear = month % MonthsInYear}
Existing(month) ==
  {i \in invoices : i.month % MonthsInYear = month % MonthsInYear}

\* The organisation's invoices are loaded when they are first looked at.
ReturnExisting(g) ==
  /\ pc[g] = "look"
  /\ ~asked[g].regenerate
  /\ \E i \in Existing(asked[g].month) : result' = [result EXCEPT ![g] = {i}]
  /\ Goto(g, "done")
  /\ UNCHANGED <<account, invoices, asked, copy, old, entry, now, faults>>

StartInvoice(g) ==
  /\ pc[g] = "look"
  /\ asked[g].regenerate \/ Existing(asked[g].month) = {}
  /\ old' = [old EXCEPT ![g] = Existing(asked[g].month)]
  /\ result' = [result EXCEPT ![g] =
       {[id |-> g, month |-> asked[g].month, isPreview |-> asked[g].isPreview,
         lines |-> {t \in copy[g] : InWindow(t, asked[g].month)}]}]
  /\ Goto(g, "save")
  /\ UNCHANGED <<account, invoices, asked, copy, entry, now, faults>>

SaveInvoice(g) ==
  /\ pc[g] = "save"
  /\ invoices' = invoices \cup result[g]
  /\ ReadAgain(g)
  /\ Goto(g, "clean")
  /\ UNCHANGED <<account, asked, old, result, entry, now, faults>>

\* Deleting an invoice that is gone is refused.
\* (mutant) only the first of the old invoices is removed.
RemoveFirstOld(g) ==
  /\ pc[g] = "clean"
  /\ old[g] \subseteq invoices
  /\ invoices' = invoices \ (IF old[g] = {} THEN {} ELSE {CHOOSE i \in old[g] : TRUE})
  /\ ReadAgain(g)
  /\ Goto(g, IF asked[g].isPreview THEN "done" ELSE "close")
  /\ UNCHANGED <<account, asked, old, result, entry, now, faults>>
RemoveOld(g) ==
  /\ pc[g] = "clean"
  /\ old[g] \subseteq invoices
  /\ invoices' = invoices \ old[g]
  /\ ReadAgain(g)
  /\ Goto(g, IF asked[g].isPreview THEN "done" ELSE "close")
  /\ UNCHANGED <<account, asked, old, result, entry, now, faults>>

\* (mutant) the whole account is closed.
LinesOfAccount(g) == copy[g]
Lines(g) == UNION {i.lines : i \in result[g]}

\* The month's transactions leave the account and their balance is carried.
\* Deleting a row that is gone is refused.
CanClose(g) == Provider = "Sql" => Lines(g) \subseteq account

CloseMonth(g) ==
  /\ pc[g] = "close"
  /\ CanClose(g)
  /\ account' = IF Lines(g) = {} THEN account
                ELSE Stored(g, Lines(g), Carry(g, Lines(g)))
  /\ Goto(g, "done")
  /\ UNCHANGED <<invoices, asked, copy, old, result, entry, now, faults>>

\* An exception or the server's death.  A save is one transaction in Sql; in
\* Cosmos the invoices are deleted one by one.
GeneratorFails(g) ==
  /\ pc[g] \in {"look", "save", "clean", "close"}
  /\ \/ Fault
     \/ /\ \/ pc[g] = "clean" /\ ~(old[g] \subseteq invoices)
           \/ pc[g] = "close" /\ ~CanClose(g)
        /\ UNCHANGED faults
  /\ IF pc[g] = "clean" /\ Provider = "Cosmos"
     THEN \E gone \in SUBSET old[g] : invoices' = invoices \ gone
     ELSE UNCHANGED invoices
  /\ Goto(g, "dead")
  /\ UNCHANGED <<account, asked, copy, old, result, entry, now>>

------------------------------------------------------------------------------
(* The specification *)

Tick ==
  /\ now + 1 \in Instants
  /\ now' = now + 1
  /\ UNCHANGED <<account, invoices, pc, asked, copy, old, result, entry, faults>>

Init ==
  /\ account = {} /\ invoices = {}
  /\ pc = [q \in Procs |-> "idle"]
  /\ asked = [g \in Generators |->
                [month |-> 0, isPreview |-> TRUE, regenerate |-> FALSE]]
  /\ copy = [q \in Procs |-> {}]
  /\ old = [g \in Generators |-> {}]
  /\ result = [g \in Generators |-> {}]
  /\ entry = [w \in Writers |-> [by |-> w, amount |-> 0, at |-> 0]]
  /\ now = 0 /\ faults = 0

WriterStep(w) ==
  \/ LoadOrganisation(w)
  \/ \E amount \in Amounts : EnterTransaction(w, amount)

GeneratorStep(g) ==
  \/ \E month \in Months, isPreview, regenerate \in BOOLEAN :
       ReadOrganisation(g, month, isPreview, regenerate)
  \/ ReturnExisting(g) \/ StartInvoice(g) \/ SaveInvoice(g) \/ RemoveOld(g)
  \/ CloseMonth(g) \/ GeneratorFails(g)

Next ==
  \/ \E w \in Writers : WriterStep(w)
  \/ \E g \in Generators : GeneratorStep(g)
  \/ Tick

Spec == Init /\ [][Next]_vars

\* One process at a time.
Active(q) == pc[q] \notin {"idle", "done", "dead"}
Quiet == \A q \in Procs : ~Active(q)
Alone == \A q1, q2 \in Procs : Active(q1) /\ Active(q2) => q1 = q2
SerialSpec == Init /\ [][Next /\ Alone']_vars

------------------------------------------------------------------------------
(* Properties *)

Transactions == [by : Procs, amount : Int, at : Instants]
Invoices == [id : Generators, month : Months, isPreview : BOOLEAN,
             lines : SUBSET Transactions]

\* Type correctness.
TypeOK ==
  /\ account \subseteq Transactions
  /\ invoices \subseteq Invoices
  /\ pc \in [Procs -> {"idle", "enter", "look", "save", "clean", "close", "done", "dead"}]
  /\ asked \in [Generators -> [month : Months, isPreview : BOOLEAN, regenerate : BOOLEAN]]
  /\ copy \in [Procs -> SUBSET Transactions]
  /\ old \in [Generators -> SUBSET Invoices]
  /\ result \in [Generators -> SUBSET Invoices]
  /\ entry \in [Writers -> Transactions]
  /\ now \in Instants
  /\ faults \in 0 .. MaxFaults

Entered == {entry[w] : w \in {x \in Writers : pc[x] = "done"}}

\* Whatever invoices are generated, closed, regenerated or abandoned, and
\* whoever overlaps, the account's balance is the sum of what was entered.
BalanceIsKept == Balance(account) = Balance(Entered)

\* A transaction that was entered stays in the account or on an invoice, but
\* for one: a final invoice regenerated away.
Recorded(t) == t \in account \/ \E i \in invoices : t \in i.lines
NothingIsForgotten ==
  [][\A t \in Entered : Recorded(t) /\ ~Recorded(t)' =>
       \E g \in Generators : pc[g] = "clean" /\
         \E i \in old[g] \ invoices' : ~i.isPreview /\ t \in i.lines]_vars

\* No transaction is on two final invoices once the generators are through.
ListedOnce ==
  Quiet => \A i, j \in invoices :
    ~i.isPreview /\ ~j.isPreview /\ i.lines \cap j.lines # {} => i = j

\* Regenerating leaves one invoice for the month, also after a failure has
\* left two.
RegenerateLeavesOne ==
  [][\A g \in Generators : RemoveOld(g) =>
       {i \in invoices' : i.month = asked[g].month} = result[g]]_vars

==============================================================================

--------------------------- MODULE InvoicingProofs ----------------------------
(***************************************************************************)
(* Theorems about Invoicing, for any generators, writers, amounts and      *)
(* calendars.                                                              *)
(***************************************************************************)
EXTENDS Invoicing, FiniteSetTheorems, WellFoundedInduction, TLAPS

------------------------------------------------------------------------------
(* A balance is a sum, in whatever order its transactions are added        *)
(*                                                                         *)
(* MapThenSumSet adds the amounts in the order in which CHOOSE picks them. *)

Pick(s) == CHOOSE x \in s : TRUE

\* The function with which the sum over S is computed.
Sums(S) ==
  CHOOSE iter : iter = [s \in SUBSET S |-> IF s = {} THEN 0
                                           ELSE Pick(s).amount + iter[s \ {Pick(s)}]]

\* That there is one, and that it computes the balance of every part of S.
Summed(S) ==
  /\ Sums(S) = [s \in SUBSET S |-> IF s = {} THEN 0
                                   ELSE Pick(s).amount + Sums(S)[s \ {Pick(s)}]]
  /\ \A s \in SUBSET S : Sums(S)[s] = Balance(s)

\* The balance is the value the recursive function of sums has for the whole set.
LEMMA BalanceIsASum == ASSUME NEW S PROVE Balance(S) = Sums(S)[S]
  BY DEF Balance, MapThenSumSet, MapThenFoldSet, Sums, Pick

\* The element the fold picks is one of the set.
LEMMA PickIn == ASSUME NEW S, S # {} PROVE Pick(S) \in S
  BY DEF Pick

\* Among parts of a finite set there is one without a smaller one: what every
\* induction below is by.
LEMMA SmallestPart ==
  ASSUME NEW S, IsFiniteSet(S), NEW T, T \subseteq SUBSET S, T # {}
  PROVE  \E A \in T : \A B \in T : B \subseteq A => B = A
  <1>1. T \subseteq FiniteSubsetsOf(S)
    BY FS_Subset DEF FiniteSubsetsOf
  <1>2. PICK A \in T : \A B \in T : <<B, A>> \notin StrictSubsetOrdering(S)
    BY <1>1, WFMin, FS_StrictSubsetOrderingWellFounded
  <1>3. \A B \in T : B \subseteq A => B = A
    BY <1>2 DEF StrictSubsetOrdering
  <1>. QED BY <1>3

\* A function that sums the parts of S like that.
AddsParts(f, S) ==
  \A s \in SUBSET S : f[s] = IF s = {} THEN 0 ELSE Pick(s).amount + f[s \ {Pick(s)}]

\* Two such functions agree.
LEMMA SumsAgree ==
  ASSUME NEW S, IsFiniteSet(S), NEW f, NEW g, AddsParts(f, S), AddsParts(g, S)
  PROVE  \A s \in SUBSET S : f[s] = g[s]
  <1> DEFINE T == {s \in SUBSET S : f[s] # g[s]}
  <1>1. SUFFICES ASSUME T # {} PROVE FALSE
    OBVIOUS
  <1>2. PICK A \in T : \A B \in T : B \subseteq A => B = A
    <2>1. T \subseteq SUBSET S
      OBVIOUS
    <2>. HIDE DEF T
    <2>. QED BY <1>1, <2>1, SmallestPart
  <1>3. A # {}
    BY <1>2 DEF AddsParts
  <1>4. Pick(A) \in A
    BY <1>3, PickIn
  <1>5. A \ {Pick(A)} \in SUBSET S /\ A \ {Pick(A)} \notin T
    BY <1>2, <1>4
  <1>6. f[A \ {Pick(A)}] = g[A \ {Pick(A)}]
    BY <1>5
  <1>7. f[A] = Pick(A).amount + f[A \ {Pick(A)}] /\ g[A] = Pick(A).amount + g[A \ {Pick(A)}]
    BY <1>2, <1>3 DEF AddsParts
  <1>. QED BY <1>2, <1>6, <1>7

\* A set whose smaller parts have sums has one.
LEMMA SumsExist ==
  ASSUME NEW S, IsFiniteSet(S), \A A \in SUBSET S : A # S => Summed(A)
  PROVE  Summed(S)
  <1>1. ASSUME NEW A \in SUBSET S, A # S
        PROVE  Balance(A) = IF A = {} THEN 0
                            ELSE Pick(A).amount + Balance(A \ {Pick(A)})
    BY <1>1, BalanceIsASum DEF Summed
  <1> DEFINE f == [s \in SUBSET S |-> IF s = {} THEN 0
                                      ELSE Pick(s).amount + Balance(s \ {Pick(s)})]
  <1>2. ASSUME NEW s \in SUBSET S, s # {} PROVE f[s \ {Pick(s)}] = Balance(s \ {Pick(s)})
    <2>1. Pick(s) \in s
      BY <1>2, PickIn
    <2>2. s \ {Pick(s)} \in SUBSET S /\ s \ {Pick(s)} # S
      BY <2>1
    <2>. QED BY <1>1, <2>2
  <1>3. f = [s \in SUBSET S |-> IF s = {} THEN 0 ELSE Pick(s).amount + f[s \ {Pick(s)}]]
    BY <1>2
  <1>4. Sums(S) = [s \in SUBSET S |-> IF s = {} THEN 0
                                      ELSE Pick(s).amount + Sums(S)[s \ {Pick(s)}]]
    BY <1>3 DEF Sums
  <1>5. \A s \in SUBSET S : Sums(S)[s] = f[s]
    <2> HIDE DEF f
    <2>1. AddsParts(f, S)
      BY <1>3 DEF AddsParts
    <2>2. AddsParts(Sums(S), S)
      BY <1>4 DEF AddsParts
    <2>. QED BY <2>1, <2>2, SumsAgree
  <1>6. \A s \in SUBSET S : Sums(S)[s] = Balance(s)
    <2>1. ASSUME NEW s \in SUBSET S, s # S PROVE f[s] = Balance(s)
      BY <1>1, <2>1
    <2>2. Sums(S)[S] = Balance(S)
      BY BalanceIsASum
    <2>. QED BY <1>5, <2>1, <2>2
  <1>. QED BY <1>4, <1>6 DEF Summed

\* Every finite set has sums: a smallest one without would have them.
LEMMA EverySetSummed == ASSUME NEW S, IsFiniteSet(S) PROVE Summed(S)
  <1> DEFINE T == {A \in SUBSET S : ~Summed(A)}
  <1>1. SUFFICES ASSUME T # {} PROVE FALSE
    OBVIOUS
  <1>2. PICK A \in T : \A B \in T : B \subseteq A => B = A
    <2>1. T \subseteq SUBSET S
      OBVIOUS
    <2>. HIDE DEF T
    <2>. QED BY <1>1, <2>1, SmallestPart
  <1>3. \A B \in SUBSET A : B # A => Summed(B)
    BY <1>2
  <1>4. IsFiniteSet(A)
    BY <1>2, FS_Subset
  <1>. QED BY <1>2, <1>3, <1>4, SumsExist

\* The balance of a finite set, by the transaction CHOOSE picks.
LEMMA BalanceByPick ==
  ASSUME NEW S, IsFiniteSet(S)
  PROVE  Balance(S) = IF S = {} THEN 0 ELSE Pick(S).amount + Balance(S \ {Pick(S)})
  <1>1. Summed(S)
    BY EverySetSummed
  <1>2. Sums(S)[S] = IF S = {} THEN 0 ELSE Pick(S).amount + Sums(S)[S \ {Pick(S)}]
    BY <1>1 DEF Summed
  <1>3. Sums(S)[S] = Balance(S) /\ Sums(S)[S \ {Pick(S)}] = Balance(S \ {Pick(S)})
    BY <1>1 DEF Summed
  <1>. QED BY <1>2, <1>3

\* Sets of transactions with amounts.
Priced(S) == IsFiniteSet(S) /\ \A t \in S : t.amount \in Int

\* A part of a priced set is priced.
LEMMA PartPriced ==
  ASSUME NEW S, Priced(S), NEW A, A \subseteq S
  PROVE  Priced(A)
  BY FS_Subset DEF Priced

\* The balance of nothing.
LEMMA NoBalance == Balance({}) = 0
  BY BalanceByPick, FS_EmptySet

\* The balance of a priced set is an integer.
LEMMA BalanceType ==
  ASSUME NEW S, Priced(S)
  PROVE  Balance(S) \in Int
  <1> DEFINE T == {A \in SUBSET S : Balance(A) \notin Int}
  <1>1. SUFFICES ASSUME T # {} PROVE FALSE
    OBVIOUS
  <1>2. PICK A \in T : \A B \in T : B \subseteq A => B = A
    <2>1. T \subseteq SUBSET S
      OBVIOUS
    <2>. HIDE DEF T
    <2>. QED BY <1>1, <2>1, SmallestPart DEF Priced
  <1>3. IsFiniteSet(A)
    BY <1>2, PartPriced DEF Priced
  <1>4. A # {}
    <2>1. Balance(A) \notin Int
      BY <1>2
    <2>2. Balance({}) \in Int
      BY NoBalance
    <2>. QED BY <2>1, <2>2, Zenon
  <1>5. Pick(A) \in A /\ Pick(A).amount \in Int
    BY <1>2, <1>4, PickIn DEF Priced
  <1>6. Balance(A \ {Pick(A)}) \in Int
    BY <1>2, <1>5
  <1>. QED BY <1>2, <1>3, <1>4, <1>5, <1>6, BalanceByPick

\* Any transaction may be taken out first.
LEMMA BalanceWithout ==
  ASSUME NEW S, Priced(S), NEW x \in S
  PROVE  Balance(S) = x.amount + Balance(S \ {x})
  <1> DEFINE T == {A \in SUBSET S : \E y \in A : Balance(A) # y.amount + Balance(A \ {y})}
  <1>1. SUFFICES ASSUME T # {} PROVE FALSE
    OBVIOUS
  <1>2. PICK A \in T : \A B \in T : B \subseteq A => B = A
    <2>1. T \subseteq SUBSET S
      OBVIOUS
    <2>. HIDE DEF T
    <2>. QED BY <1>1, <2>1, SmallestPart DEF Priced
  <1>3. PICK y \in A : Balance(A) # y.amount + Balance(A \ {y})
    BY <1>2
  <1> DEFINE z == Pick(A)
  <1>4. z \in A /\ Balance(A) = z.amount + Balance(A \ {z}) /\ IsFiniteSet(A)
    BY <1>2, <1>3, PickIn, BalanceByPick, PartPriced DEF Priced
  <1> HIDE DEF z
  <1>5. z # y
    BY <1>3, <1>4
  <1>6. Balance(A \ {z}) = y.amount + Balance((A \ {z}) \ {y})
    <2>1. A \ {z} \in SUBSET S /\ A \ {z} \notin T /\ y \in A \ {z}
      BY <1>2, <1>3, <1>4, <1>5
    <2>. QED BY <2>1
  <1>7. Balance(A \ {y}) = z.amount + Balance((A \ {y}) \ {z})
    <2>1. A \ {y} \in SUBSET S /\ A \ {y} \notin T /\ z \in A \ {y}
      BY <1>2, <1>3, <1>4, <1>5
    <2>. QED BY <2>1
  <1>8. Balance((A \ {z}) \ {y}) = Balance((A \ {y}) \ {z})
    <2>1. (A \ {z}) \ {y} = (A \ {y}) \ {z}
      OBVIOUS
    <2>. QED BY <2>1, Zenon
  <1>9. y.amount \in Int /\ z.amount \in Int /\ Balance((A \ {z}) \ {y}) \in Int
    <2>1. Priced((A \ {z}) \ {y})
      BY <1>2, PartPriced
    <2>2. Balance((A \ {z}) \ {y}) \in Int
      BY <2>1, BalanceType
    <2>. QED BY <1>2, <1>3, <1>4, <2>2 DEF Priced
  <1>. QED BY <1>3, <1>4, <1>6, <1>7, <1>8, <1>9

\* One transaction more adds its amount, whichever the fold picks first.
LEMMA BalanceWith ==
  ASSUME NEW S, Priced(S), NEW x, x \notin S, x.amount \in Int
  PROVE  Priced(S \cup {x}) /\ Balance(S \cup {x}) = x.amount + Balance(S)
  <1>1. Priced(S \cup {x})
    BY FS_AddElement DEF Priced
  <1>2. (S \cup {x}) \ {x} = S
    OBVIOUS
  <1>. QED BY <1>1, <1>2, BalanceWithout

\* A part and the rest have the balance of the whole between them.
LEMMA BalanceSplit ==
  ASSUME NEW S, Priced(S), NEW R, R \subseteq S
  PROVE  Balance(S) = Balance(R) + Balance(S \ R)
  <1> DEFINE T == {A \in SUBSET S : Balance(S) # Balance(A) + Balance(S \ A)}
  <1>1. SUFFICES ASSUME T # {} PROVE FALSE
    OBVIOUS
  <1>2. PICK A \in T : \A B \in T : B \subseteq A => B = A
    <2>1. T \subseteq SUBSET S
      OBVIOUS
    <2>. HIDE DEF T
    <2>. QED BY <1>1, <2>1, SmallestPart DEF Priced
  <1>3. Balance(S) \in Int
    BY BalanceType
  <1>4. A # {}
    <2>1. Balance(S \ {}) = Balance(S)
      <3>1. S \ {} = S
        OBVIOUS
      <3>. QED BY <3>1, Zenon
    <2>2. Balance(S) = Balance({}) + Balance(S \ {})
      BY <1>3, <2>1, NoBalance
    <2>3. Balance(S) # Balance(A) + Balance(S \ A)
      BY <1>2
    <2>. QED BY <2>2, <2>3, Zenon
  <1>5. PICK x \in A : TRUE
    BY <1>4
  <1>6. Balance(S) = Balance(A \ {x}) + Balance(S \ (A \ {x}))
    BY <1>2, <1>5
  <1>7. Priced(A) /\ Priced(A \ {x}) /\ Priced(S \ A) /\ x.amount \in Int
    BY <1>2, <1>5, PartPriced DEF Priced
  <1>8. Balance(A) = x.amount + Balance(A \ {x})
    BY <1>5, <1>7, BalanceWithout
  <1>9. Balance(S \ (A \ {x})) = x.amount + Balance(S \ A)
    <2>1. S \ (A \ {x}) = (S \ A) \cup {x} /\ x \notin S \ A
      BY <1>2, <1>5
    <2>. QED BY <1>7, <2>1, BalanceWith
  <1>10. Balance(A \ {x}) \in Int /\ Balance(S \ A) \in Int
    BY <1>7, BalanceType
  <1>. QED BY <1>2, <1>6, <1>7, <1>8, <1>9, <1>10

------------------------------------------------------------------------------
(* Type correctness *)

\* Sets of transactions are finite, and a generator has at most one invoice.
FiniteInv ==
  /\ IsFiniteSet(account)
  /\ \A q \in Procs : IsFiniteSet(copy[q])
  /\ \A i \in invoices : IsFiniteSet(i.lines)
  /\ \A g \in Generators :
       result[g] = {} \/ \E i \in Invoices : result[g] = {i} /\ IsFiniteSet(i.lines)

TypeInv == TypeOK /\ FiniteInv

\* The lines of an invoice are transactions of the account.
LEMMA LinesType ==
  ASSUME TypeInv, NEW g \in Generators
  PROVE  Lines(g) \subseteq Transactions /\ Priced(Lines(g))
  <1>1. Lines(g) \subseteq Transactions
    BY DEF Lines, TypeInv, TypeOK, Invoices
  <1>2. IsFiniteSet(Lines(g))
    <2>1. CASE result[g] = {}
      <3>1. Lines(g) = {}
        BY <2>1 DEF Lines
      <3>. QED BY <3>1, FS_EmptySet
    <2>2. ASSUME NEW i \in Invoices, result[g] = {i}, IsFiniteSet(i.lines)
          PROVE  IsFiniteSet(Lines(g))
      <3>1. Lines(g) = i.lines
        BY <2>2 DEF Lines
      <3>. QED BY <2>2, <3>1
    <2>. QED BY <2>1, <2>2 DEF TypeInv, FiniteInv
  <1>. QED BY <1>1, <1>2 DEF Priced, Transactions

\* What is carried to the next month is one transaction, or none.
LEMMA CarryType ==
  ASSUME TypeInv, NEW g \in Generators
  PROVE  Carry(g, Lines(g)) \subseteq Transactions /\ IsFiniteSet(Carry(g, Lines(g)))
  <1>1. Balance(Lines(g)) \in Int
    BY LinesType, BalanceType
  <1> DEFINE c == [by |-> g, amount |-> Balance(Lines(g)), at |-> now]
  <1>2. c \in Transactions
    BY <1>1 DEF Transactions, Procs, TypeInv, TypeOK
  <1>3. Carry(g, Lines(g)) \in {{}, {c}}
    BY DEF Carry
  <1> HIDE DEF c
  <1>. QED BY <1>2, <1>3, FS_EmptySet, FS_Singleton

\* What a save leaves in the account is transactions.
LEMMA StoredType ==
  ASSUME TypeInv, NEW q \in Procs, NEW removed, NEW added \in SUBSET Transactions,
         IsFiniteSet(added)
  PROVE  Stored(q, removed, added) \subseteq Transactions
           /\ IsFiniteSet(Stored(q, removed, added))
  <1> DEFINE kept == (IF Provider = "Sql" THEN account ELSE copy[q]) \ removed
  <1>1. kept \subseteq Transactions /\ IsFiniteSet(kept)
    BY FS_Difference DEF TypeInv, TypeOK, FiniteInv
  <1>. QED BY <1>1, FS_Union DEF Stored

\* What is read again is what the account has.
LEMMA ReadAgainType ==
  ASSUME TypeInv, NEW q \in Procs, ReadAgain(q)
  PROVE  /\ copy' \in [Procs -> SUBSET Transactions]
         /\ \A o \in Procs : IsFiniteSet(copy'[o])
  <1>1. PICK fresh \in {copy[q], copy[q] \cup account} :
          copy' = [copy EXCEPT ![q] = fresh]
    BY DEF ReadAgain
  <1>2. fresh \subseteq Transactions /\ IsFiniteSet(fresh)
    <2>1. /\ account \subseteq Transactions /\ IsFiniteSet(account)
          /\ copy[q] \subseteq Transactions /\ IsFiniteSet(copy[q])
      BY DEF TypeInv, TypeOK, FiniteInv
    <2>2. IsFiniteSet(copy[q] \cup account)
      BY <2>1, FS_Union
    <2>. QED BY <1>1, <2>1, <2>2
  <1>. QED BY <1>1, <1>2 DEF TypeInv, TypeOK, FiniteInv

\* A credit entered keeps the types.
LEMMA WriterType ==
  ASSUME TypeInv, NEW w \in Writers, WriterStep(w)
  PROVE  TypeInv'
  <1>0. w \in Procs
    BY DEF Procs
  <1>1. CASE LoadOrganisation(w)
    BY <1>0, <1>1 DEF LoadOrganisation, Goto, TypeInv, TypeOK, FiniteInv
  <1>2. ASSUME NEW amount \in Amounts, EnterTransaction(w, amount) PROVE TypeInv'
    <2> DEFINE t == [by |-> w, amount |-> amount, at |-> now]
    <2>1. t \in Transactions
      BY <1>0, InvoicingAssumption DEF Transactions, TypeInv, TypeOK
    <2>2. Stored(w, {}, {t}) \subseteq Transactions /\ IsFiniteSet(Stored(w, {}, {t}))
      BY <1>0, <2>1, FS_Singleton, StoredType
    <2>3. account' \subseteq Transactions /\ IsFiniteSet(account')
          /\ entry' \in [Writers -> Transactions]
      BY <1>2, <2>1, <2>2 DEF EnterTransaction, TypeInv, TypeOK
    <2>. QED
      BY <1>0, <1>2, <2>3 DEF EnterTransaction, Goto, TypeInv, TypeOK, FiniteInv
  <1>. QED BY <1>1, <1>2 DEF WriterStep

\* An invoice generated keeps the types.
LEMMA GeneratorType ==
  ASSUME TypeInv, NEW g \in Generators, GeneratorStep(g)
  PROVE  TypeInv'
  <1>0. g \in Procs
    BY DEF Procs
  <1>1. ASSUME NEW month \in Months, NEW isPreview \in BOOLEAN, NEW regenerate \in BOOLEAN,
               ReadOrganisation(g, month, isPreview, regenerate)
        PROVE  TypeInv'
    BY <1>0, <1>1 DEF ReadOrganisation, Goto, TypeInv, TypeOK, FiniteInv
  <1>2. CASE ReturnExisting(g)
    <2>1. PICK i \in Existing(asked[g].month) : result' = [result EXCEPT ![g] = {i}]
      BY <1>2 DEF ReturnExisting
    <2>2. i \in Invoices /\ IsFiniteSet(i.lines)
      BY <2>1 DEF Existing, TypeInv, TypeOK, FiniteInv
    <2>. QED
      BY <1>0, <1>2, <2>1, <2>2 DEF ReturnExisting, Goto, TypeInv, TypeOK, FiniteInv
  <1>3. CASE StartInvoice(g)
    <2> DEFINE i == [id |-> g, month |-> asked[g].month, isPreview |-> asked[g].isPreview,
                     lines |-> {t \in copy[g] : InWindow(t, asked[g].month)}]
    <2>1. i \in Invoices /\ IsFiniteSet(i.lines)
      BY <1>0, FS_Subset DEF Invoices, TypeInv, TypeOK, FiniteInv
    <2>2. result' = [result EXCEPT ![g] = {i}]
          /\ old' = [old EXCEPT ![g] = Existing(asked[g].month)]
      BY <1>3 DEF StartInvoice
    <2>3. Existing(asked[g].month) \subseteq Invoices
      BY DEF Existing, TypeInv, TypeOK
    <2> HIDE DEF i
    <2>. QED
      BY <1>0, <1>3, <2>1, <2>2, <2>3 DEF StartInvoice, Goto, TypeInv, TypeOK, FiniteInv
  <1>4. CASE SaveInvoice(g)
    <2>1. invoices' \subseteq Invoices /\ \A i \in invoices' : IsFiniteSet(i.lines)
      BY <1>4 DEF SaveInvoice, TypeInv, TypeOK, FiniteInv
    <2>. QED
      BY <1>0, <1>4, <2>1, ReadAgainType DEF SaveInvoice, Goto, TypeInv, TypeOK, FiniteInv
  <1>5. CASE RemoveOld(g)
    BY <1>0, <1>5, ReadAgainType DEF RemoveOld, Goto, TypeInv, TypeOK, FiniteInv
  <1>6. CASE CloseMonth(g)
    <2>1. account' \subseteq Transactions /\ IsFiniteSet(account')
      BY <1>0, <1>6, CarryType, StoredType DEF CloseMonth, TypeInv, TypeOK, FiniteInv
    <2>. QED
      BY <1>0, <1>6, <2>1 DEF CloseMonth, Goto, TypeInv, TypeOK, FiniteInv
  <1>7. CASE GeneratorFails(g)
    <2>1. faults' \in 0 .. MaxFaults
      BY <1>7, InvoicingAssumption DEF GeneratorFails, Fault, TypeInv, TypeOK
    <2>2. invoices' \subseteq invoices
      BY <1>7 DEF GeneratorFails
    <2>. QED
      BY <1>0, <1>7, <2>1, <2>2 DEF GeneratorFails, Goto, TypeInv, TypeOK, FiniteInv
  <1>. QED
    BY <1>1, <1>2, <1>3, <1>4, <1>5, <1>6, <1>7 DEF GeneratorStep

\* The types hold at the start,
LEMMA InitType == Init => TypeInv
  BY InvoicingAssumption, FS_EmptySet
  DEF Init, TypeInv, TypeOK, FiniteInv, Transactions, Months, Instants, Procs

\* after each step,
LEMMA StepType == TypeInv /\ [Next]_vars => TypeInv'
  <1> SUFFICES ASSUME TypeInv, [Next]_vars PROVE TypeInv'
    OBVIOUS
  <1>1. CASE Tick
    BY <1>1 DEF Tick, TypeInv, TypeOK, FiniteInv
  <1>2. CASE UNCHANGED vars
    BY <1>2 DEF vars, TypeInv, TypeOK, FiniteInv
  <1>. QED BY <1>1, <1>2, WriterType, GeneratorType DEF Next

\* and always.
LEMMA TypeInvariant == Spec => []TypeInv
  BY InitType, StepType, PTL DEF Spec

------------------------------------------------------------------------------
(* In Sql, the balance *)

\* A transaction is by a process that is through, so the next one is new.
MoneyInv ==
  /\ \A t \in account : pc[t.by] = "done"
  /\ \A w \in Writers : entry[w].by = w
  /\ IsFiniteSet(Entered)
  /\ BalanceIsKept

\* What the account has, and what was ever entered, is priced.
LEMMA EnteredPriced == ASSUME TypeInv, MoneyInv PROVE Priced(account) /\ Priced(Entered)
  BY DEF TypeInv, TypeOK, FiniteInv, MoneyInv, Entered, Priced, Transactions

\* A step that enters nothing and closes nothing.
LEMMA MoneyStands ==
  ASSUME MoneyInv, account' = account, entry' = entry,
         \A q \in Procs : pc[q] = "done" => pc'[q] = "done",
         \A w \in Writers : pc'[w] = "done" => pc[w] = "done", TypeInv
  PROVE  MoneyInv'
  <1>1. Entered' = Entered
    BY DEF Entered, Procs
  <1>2. \A t \in account : t.by \in Procs
    BY DEF TypeInv, TypeOK, Transactions
  <1>3. BalanceIsKept'
    BY <1>1 DEF BalanceIsKept, MoneyInv
  <1>. QED BY <1>1, <1>2, <1>3 DEF MoneyInv

\* A credit that is entered keeps the balance.
LEMMA WriterMoney ==
  ASSUME Provider = "Sql", TypeInv, MoneyInv, NEW w \in Writers, WriterStep(w)
  PROVE  MoneyInv'
  <1>0. w \in Procs /\ pc \in [Procs -> {"idle", "enter", "look", "save", "clean", "close",
                                         "done", "dead"}]
    BY DEF Procs, TypeInv, TypeOK
  <1>1. CASE LoadOrganisation(w)
    BY <1>0, <1>1, MoneyStands DEF LoadOrganisation, Goto
  <1>2. ASSUME NEW amount \in Amounts, EnterTransaction(w, amount) PROVE MoneyInv'
    <2> DEFINE t == [by |-> w, amount |-> amount, at |-> now]
    <2>1. /\ pc[w] = "enter" /\ pc' = [pc EXCEPT ![w] = "done"]
          /\ entry' = [entry EXCEPT ![w] = t] /\ account' = account \cup {t}
      BY <1>2 DEF EnterTransaction, Goto, Stored
    <2>2. t.by = w /\ t.amount \in Int
      BY InvoicingAssumption
    <2> HIDE DEF t
    <2>3. t \notin account /\ t \notin Entered
      BY <2>1, <2>2 DEF MoneyInv, Entered
    <2>4. Entered' = Entered \cup {t}
      BY <1>0, <2>1 DEF Entered, Procs, TypeInv, TypeOK
    <2>5. Balance(account \cup {t}) = t.amount + Balance(account)
          /\ Balance(Entered \cup {t}) = t.amount + Balance(Entered)
          /\ IsFiniteSet(Entered \cup {t})
      BY <2>2, <2>3, EnteredPriced, BalanceWith DEF Priced
    <2>6. BalanceIsKept'
      BY <2>1, <2>4, <2>5 DEF BalanceIsKept, MoneyInv
    <2>7. \A x \in account' : pc'[x.by] = "done"
      BY <1>0, <2>1, <2>2 DEF MoneyInv
    <2>8. \A x \in Writers : entry'[x].by = x
      BY <2>1, <2>2 DEF MoneyInv, TypeInv, TypeOK
    <2>. QED BY <2>4, <2>5, <2>6, <2>7, <2>8 DEF MoneyInv
  <1>. QED BY <1>1, <1>2 DEF WriterStep

\* An invoice closed takes out what it lists and enters the same amount.
LEMMA GeneratorMoney ==
  ASSUME Provider = "Sql", TypeInv, MoneyInv, NEW g \in Generators, GeneratorStep(g)
  PROVE  MoneyInv'
  <1>0. g \in Procs /\ g \notin Writers
        /\ pc \in [Procs -> {"idle", "enter", "look", "save", "clean", "close", "done", "dead"}]
    BY InvoicingAssumption DEF Procs, TypeInv, TypeOK
  <1>1. ASSUME ~CloseMonth(g) PROVE MoneyInv'
    <2>1. /\ account' = account /\ entry' = entry /\ pc[g] # "done"
          /\ \E l \in {"look", "save", "clean", "close", "done", "dead"} :
               pc' = [pc EXCEPT ![g] = l]
      BY <1>1 DEF GeneratorStep, ReadOrganisation, ReturnExisting, StartInvoice,
                  SaveInvoice, RemoveOld, GeneratorFails, Goto
    <2>. QED BY <1>0, <2>1, MoneyStands DEF Procs
  <1>2. CASE CloseMonth(g)
    <2> DEFINE L == Lines(g)
    <2>1. /\ pc[g] = "close" /\ pc' = [pc EXCEPT ![g] = "done"] /\ entry' = entry
          /\ L \subseteq account
          /\ account' = IF L = {} THEN account ELSE (account \ L) \cup Carry(g, L)
      BY <1>2 DEF CloseMonth, CanClose, Goto, Stored
    <2>2. Entered' = Entered
      BY <1>0, <2>1 DEF Entered, Procs
    <2>3. \A w \in Writers : entry'[w].by = w
      BY <2>1 DEF MoneyInv
    <2>4. \A t \in account' : pc'[t.by] = "done"
      BY <1>0, <2>1 DEF MoneyInv, Carry
    <2>5. Balance(account') = Balance(account)
      <3>1. CASE L = {}
        BY <2>1, <3>1
      <3>2. CASE L # {} /\ Balance(L) = 0
        <4>1. account' = account \ L
          BY <2>1, <3>2 DEF Carry
        <4>2. Balance(account) = Balance(L) + Balance(account \ L)
          BY <2>1, EnteredPriced, BalanceSplit
        <4>3. Balance(account \ L) \in Int
          BY EnteredPriced, PartPriced, BalanceType
        <4>4. Balance(account) = Balance(account \ L)
          BY <3>2, <4>2, <4>3
        <4>. QED BY <4>1, <4>4
      <3>3. CASE L # {} /\ Balance(L) # 0
        <4> DEFINE c == [by |-> g, amount |-> Balance(L), at |-> now]
        <4>1. account' = (account \ L) \cup {c}
          BY <2>1, <3>3 DEF Carry
        <4>2. Balance(account) = Balance(L) + Balance(account \ L)
          BY <2>1, EnteredPriced, BalanceSplit
        <4>3. c.amount = Balance(L) /\ c.by = g /\ Balance(L) \in Int
          BY LinesType, BalanceType
        <4> HIDE DEF c
        <4>4. c \notin account
          BY <2>1, <4>3 DEF MoneyInv
        <4>5. Balance((account \ L) \cup {c}) = c.amount + Balance(account \ L)
          <5>1. Priced(account \ L)
            BY EnteredPriced, PartPriced
          <5>. QED BY <4>3, <4>4, <5>1, BalanceWith
        <4>. QED BY <4>1, <4>2, <4>3, <4>5
      <3>. QED BY <3>1, <3>2, <3>3
    <2>6. BalanceIsKept'
      BY <2>2, <2>5 DEF BalanceIsKept, MoneyInv
    <2>. QED BY <2>2, <2>3, <2>4, <2>6 DEF MoneyInv
  <1>. QED BY <1>1, <1>2

\* In Sql no generation of an invoice, preview, regeneration or closing of a
\* month, overlapping or failing anywhere, changes the balance of the account:
\* it is the sum of what was entered (GenerateInvoiceAsync carries the balance of
\* what it takes out, and refuses to take out what is gone).
THEOREM BalanceStays == ASSUME Provider = "Sql" PROVE Spec => []BalanceIsKept
  <1>1. Init => MoneyInv
    <2> SUFFICES ASSUME Init PROVE MoneyInv
      OBVIOUS
    <2>1. account = {} /\ Entered = {} /\ \A w \in Writers : entry[w].by = w
      BY DEF Init, Entered, Procs
    <2>. QED BY <2>1, FS_EmptySet DEF MoneyInv, BalanceIsKept
  <1>2. TypeInv /\ MoneyInv /\ [Next]_vars => MoneyInv'
    <2> SUFFICES ASSUME TypeInv, MoneyInv, [Next]_vars PROVE MoneyInv'
      OBVIOUS
    <2>1. CASE Tick \/ UNCHANGED vars
      BY <2>1, MoneyStands DEF Tick, vars
    <2>. QED BY <2>1, WriterMoney, GeneratorMoney DEF Next
  <1>3. MoneyInv => BalanceIsKept
    BY DEF MoneyInv
  <1>. QED BY <1>1, <1>2, <1>3, TypeInvariant, PTL DEF Spec

------------------------------------------------------------------------------
(* When processes take turns, with either provider *)

\* The invoice a generator is asked for, of the account as it is.
Due(g) ==
  [id |-> g, month |-> asked[g].month, isPreview |-> asked[g].isPreview,
   lines |-> {t \in account : InWindow(t, asked[g].month)}]

\* Who is at work has seen the account as it is.
CopiesAreFresh == \A q \in Procs : Active(q) => copy[q] = account

\* What is in the account or on an invoice is by a process that is through.
RowsAreOld ==
  /\ \A t \in account : pc[t.by] = "done"
  /\ \A i \in invoices : \A t \in i.lines : pc[t.by] = "done"

\* An invoice is by a generator past its save, and of its month.
InvoicesAreOfMonths ==
  \A i \in invoices :
    /\ pc[i.id] \in {"clean", "close", "done", "dead"}
    /\ pc[i.id] \in {"clean", "close"} => i \in result[i.id]
    /\ \A t \in i.lines : InWindow(t, i.month)

\* Where a generator is with the invoices of its month.
AtWork(g) ==
  /\ pc[g] \in {"save", "clean", "close"} => result[g] = {Due(g)}
  /\ pc[g] = "save" => old[g] = Existing(asked[g].month)
  /\ pc[g] = "clean" =>
       Existing(asked[g].month) = old[g] \cup {Due(g)} /\ Due(g) \notin old[g]
  /\ pc[g] = "close" => Existing(asked[g].month) = {Due(g)} /\ ~asked[g].isPreview

\* What a preview lists is still in the account.
PreviewsCloseNothing == \A i \in invoices : i.isPreview => i.lines \subseteq account

TurnInv ==
  /\ Alone /\ CopiesAreFresh /\ RowsAreOld /\ InvoicesAreOfMonths
  /\ \A g \in Generators : AtWork(g)
  /\ PreviewsCloseNothing

\* A transaction is in the window of one month.
LEMMA OneMonth ==
  ASSUME NEW t \in Transactions, NEW m \in Months, NEW n \in Months,
         InWindow(t, m), InWindow(t, n)
  PROVE  m = n
  BY InvoicingAssumption DEF Transactions, Instants, Months, InWindow

\* While a process takes a step, the others rest.
LEMMA OthersRest ==
  ASSUME Alone, Alone', NEW q \in Procs, Active(q) \/ Active(q)',
         \A o \in Procs : o # q => pc'[o] = pc[o]
  PROVE  \A o \in Procs : o # q => ~Active(o) /\ ~Active(o)'
  BY DEF Alone, Active

\* A writer's step, when one process works at a time.
LEMMA WriterTurn ==
  ASSUME TypeInv, TurnInv, Alone', NEW w \in Writers, WriterStep(w)
  PROVE  TurnInv'
  <1>0. w \in Procs /\ w \notin Generators /\ Generators \subseteq Procs
        /\ pc \in [Procs -> {"idle", "enter", "look", "save", "clean", "close", "done", "dead"}]
    BY InvoicingAssumption DEF Procs, TypeInv, TypeOK
  <1>1. /\ \A o \in Procs : o # w => pc'[o] = pc[o]
        /\ UNCHANGED <<invoices, asked, old, result>>
        /\ Active(w) \/ Active(w)'
    BY <1>0 DEF WriterStep, LoadOrganisation, EnterTransaction, Goto, Active
  <1>2. \A o \in Procs : o # w => ~Active(o) /\ ~Active(o)'
    BY <1>0, <1>1, OthersRest DEF TurnInv
  <1>3. \A g \in Generators : AtWork(g)'
    BY <1>0, <1>2 DEF AtWork, Active
  <1>4. \A i \in invoices : i.id \in Generators
    BY DEF TypeInv, TypeOK, Invoices
  <1>5. InvoicesAreOfMonths'
    BY <1>0, <1>1, <1>4 DEF TurnInv, InvoicesAreOfMonths
  <1>6. /\ \A i \in invoices : \A t \in i.lines : t.by \in Procs
        /\ \A t \in account : t.by \in Procs
    BY DEF TypeInv, TypeOK, Invoices, Transactions
  <1>7. CASE LoadOrganisation(w)
    <2>1. /\ account' = account /\ pc[w] = "idle" /\ copy' = [copy EXCEPT ![w] = account]
          /\ pc' = [pc EXCEPT ![w] = "enter"]
      BY <1>7 DEF LoadOrganisation, Goto
    <2>2. CopiesAreFresh'
      BY <1>0, <1>2, <2>1 DEF CopiesAreFresh, TypeInv, TypeOK
    <2>3. RowsAreOld'
      BY <1>0, <1>1, <1>6, <2>1 DEF TurnInv, RowsAreOld
    <2>4. PreviewsCloseNothing'
      BY <1>1, <2>1 DEF TurnInv, PreviewsCloseNothing
    <2>. QED BY <1>3, <1>5, <2>2, <2>3, <2>4 DEF TurnInv
  <1>8. ASSUME NEW amount \in Amounts, EnterTransaction(w, amount) PROVE TurnInv'
    <2> DEFINE t == [by |-> w, amount |-> amount, at |-> now]
    <2>1. /\ pc[w] = "enter" /\ pc' = [pc EXCEPT ![w] = "done"]
          /\ account' = Stored(w, {}, {t})
      BY <1>8 DEF EnterTransaction, Goto
    <2>2. account' = account \cup {t} /\ t.by = w
      BY <1>0, <2>1 DEF Stored, TurnInv, CopiesAreFresh, Active
    <2> HIDE DEF t
    <2>3. CopiesAreFresh'
      BY <1>0, <1>2, <2>1 DEF CopiesAreFresh, Active
    <2>4. RowsAreOld'
      BY <1>0, <1>1, <1>6, <2>1, <2>2 DEF TurnInv, RowsAreOld
    <2>5. PreviewsCloseNothing'
      BY <1>1, <2>2 DEF TurnInv, PreviewsCloseNothing
    <2>. QED BY <1>3, <1>5, <2>3, <2>4, <2>5 DEF TurnInv
  <1>. QED BY <1>7, <1>8 DEF WriterStep

\* When a generator closes its month, nothing but its invoice lists what leaves.
LEMMA ClosingLines ==
  ASSUME TypeInv, TurnInv, NEW g \in Generators, pc[g] = "close"
  PROVE  /\ Lines(g) = Due(g).lines /\ Due(g) \in invoices /\ Due(g).lines \subseteq account
         /\ \A i \in invoices : i.lines \cap Due(g).lines # {} => i = Due(g)
         /\ account' = (IF Lines(g) = {} THEN account
                        ELSE Stored(g, Lines(g), Carry(g, Lines(g)))) =>
              /\ account \ Lines(g) \subseteq account'
              /\ account' \subseteq (account \ Lines(g)) \cup Carry(g, Lines(g))
  <1>1. result[g] = {Due(g)} /\ Existing(asked[g].month) = {Due(g)} /\ ~asked[g].isPreview
        /\ copy[g] = account
    BY DEF TurnInv, AtWork, CopiesAreFresh, Active, Procs
  <1>2. Lines(g) = Due(g).lines
    BY <1>1 DEF Lines
  <1>3. Due(g) \in invoices /\ Due(g).lines \subseteq account
    BY <1>1 DEF Existing, Due
  <1>4. ASSUME NEW i \in invoices, NEW t \in i.lines, t \in Due(g).lines PROVE i = Due(g)
    <2>1. t \in Transactions /\ i.month \in Months /\ asked[g].month \in Months
      BY DEF TypeInv, TypeOK, Invoices
    <2>2. InWindow(t, i.month) /\ InWindow(t, asked[g].month)
      BY <1>4 DEF TurnInv, InvoicesAreOfMonths, Due
    <2>3. i.month = asked[g].month
      BY <2>1, <2>2, OneMonth
    <2>4. i \in Existing(asked[g].month)
      BY <2>3 DEF Existing
    <2>. QED BY <1>1, <2>4
  <1>. QED BY <1>1, <1>2, <1>3, <1>4 DEF Stored

\* What holds of the other processes, and of what a generator is asked for, while
\* it takes a step.
LEMMA GeneratorTurn ==
  ASSUME TypeInv, TurnInv, Alone', NEW g \in Generators, GeneratorStep(g)
  PROVE  /\ g \in Procs
         /\ \A o \in Procs : o # g => pc'[o] = pc[o] /\ ~Active(o) /\ ~Active(o)'
         /\ \A o \in Generators : o # g => AtWork(o)'
         /\ copy'[g] = account' => CopiesAreFresh'
         /\ pc[g] # "done" /\ pc[g] # "dead"
  <1>0. g \in Procs /\ Generators \subseteq Procs
        /\ pc \in [Procs -> {"idle", "enter", "look", "save", "clean", "close", "done", "dead"}]
    BY DEF Procs, TypeInv, TypeOK
  <1>1. /\ \A o \in Procs : o # g => pc'[o] = pc[o]
        /\ Active(g) \/ Active(g)'
        /\ pc[g] # "done" /\ pc[g] # "dead"
    BY <1>0 DEF GeneratorStep, ReadOrganisation, ReturnExisting, StartInvoice, SaveInvoice,
                RemoveOld, CloseMonth, GeneratorFails, Goto, Active
  <1>2. \A o \in Procs : o # g => ~Active(o) /\ ~Active(o)'
    BY <1>0, <1>1, OthersRest DEF TurnInv
  <1>3. \A o \in Generators : o # g => AtWork(o)'
    BY <1>0, <1>2 DEF AtWork, Active
  <1>4. copy'[g] = account' => CopiesAreFresh'
    BY <1>2 DEF CopiesAreFresh
  <1>. QED BY <1>0, <1>1, <1>2, <1>3, <1>4

\* A step of a generator that leaves the account alone, and of the invoices
\* removes some and adds at most the one that is due.
LEMMA InvoicesTurn ==
  ASSUME TypeInv, TurnInv, Alone', NEW g \in Generators, GeneratorStep(g),
         account' = account,
         \A i \in invoices' : i \in invoices \/ (i = Due(g) /\ pc'[g] = "clean"),
         pc'[g] \in {"clean", "close"} => result'[g] = result[g] /\ result[g] = {Due(g)},
         pc'[g] \in {"clean", "close", "done", "dead"}
           \/ \A i \in invoices' : i.id # g,
         \A o \in Generators : o # g => result'[o] = result[o],
         pc'[g] = "close" => pc[g] = "clean"
  PROVE  RowsAreOld' /\ InvoicesAreOfMonths' /\ PreviewsCloseNothing'
  <1>0. /\ \A o \in Procs : o # g => pc'[o] = pc[o]
        /\ pc[g] # "done" /\ pc[g] # "dead" /\ g \in Procs
    BY GeneratorTurn
  <1>1. /\ \A i \in invoices : i.id \in Generators /\ \A t \in i.lines : t.by \in Procs
        /\ \A t \in account : t.by \in Procs
    BY DEF TypeInv, TypeOK, Invoices, Transactions
  <1>2. /\ Due(g).id = g /\ Due(g).lines \subseteq account
        /\ \A t \in Due(g).lines : InWindow(t, Due(g).month)
    BY DEF Due
  <1>3. RowsAreOld'
    BY <1>0, <1>1, <1>2 DEF TurnInv, RowsAreOld
  <1>4. PreviewsCloseNothing'
    BY <1>2 DEF TurnInv, PreviewsCloseNothing
  <1>5. InvoicesAreOfMonths'
    <2>1. SUFFICES ASSUME NEW i \in invoices'
                   PROVE  /\ pc'[i.id] \in {"clean", "close", "done", "dead"}
                          /\ pc'[i.id] \in {"clean", "close"} => i \in result'[i.id]
                          /\ \A t \in i.lines : InWindow(t, i.month)
      BY DEF InvoicesAreOfMonths
    <2>2. CASE i = Due(g) /\ pc'[g] = "clean"
      BY <1>2, <2>2
    <2>3. CASE i \in invoices /\ i.id # g
      <3>1. i.id \in Generators /\ i.id \in Procs
        BY <1>1, <2>3 DEF Procs
      <3>. QED BY <1>0, <2>3, <3>1 DEF TurnInv, InvoicesAreOfMonths
    <2>4. CASE i \in invoices /\ i.id = g
      <3>1. pc[g] \in {"clean", "close"} /\ i \in result[g]
            /\ \A t \in i.lines : InWindow(t, i.month)
        BY <1>0, <2>4 DEF TurnInv, InvoicesAreOfMonths
      <3>. QED BY <2>1, <2>4, <3>1
    <2>. QED BY <2>1, <2>2, <2>3, <2>4
  <1>. QED BY <1>3, <1>4, <1>5

\* A generator's step keeps all of it.
LEMMA StepTurn ==
  ASSUME TypeInv, TurnInv, Alone', NEW g \in Generators, GeneratorStep(g)
  PROVE  TurnInv'
  <1>0. /\ g \in Procs
        /\ \A o \in Procs : o # g => pc'[o] = pc[o] /\ ~Active(o) /\ ~Active(o)'
        /\ \A o \in Generators : o # g => AtWork(o)'
        /\ copy'[g] = account' => CopiesAreFresh'
        /\ pc[g] # "done" /\ pc[g] # "dead"
    BY GeneratorTurn
  <1>1. /\ pc \in [Procs -> {"idle", "enter", "look", "save", "clean", "close", "done", "dead"}]
        /\ asked \in [Generators -> [month : Months, isPreview : BOOLEAN, regenerate : BOOLEAN]]
        /\ copy \in [Procs -> SUBSET Transactions]
        /\ DOMAIN result = Generators /\ DOMAIN old = Generators
    BY DEF TypeInv, TypeOK
  <1>2. /\ Active(g) => copy[g] = account
        /\ \A i \in invoices : i.id = g => pc[g] \in {"clean", "close", "done", "dead"}
        /\ AtWork(g)
    BY <1>0 DEF TurnInv, CopiesAreFresh, InvoicesAreOfMonths
  <1>3. Active(g) /\ ReadAgain(g) => copy'[g] = account
    <2>1. ASSUME Active(g), NEW fresh \in {copy[g], copy[g] \cup account},
                 copy' = [copy EXCEPT ![g] = fresh]
          PROVE  copy'[g] = account
      <3>1. copy[g] = account /\ fresh = account
        BY <1>2, <2>1
      <3>. QED BY <1>0, <1>1, <2>1, <3>1
    <2>. QED BY <2>1 DEF ReadAgain
  <1>4. ~Active(g)' => CopiesAreFresh'
    BY <1>0 DEF CopiesAreFresh
  <1>5. RowsAreOld' /\ InvoicesAreOfMonths' /\ PreviewsCloseNothing' /\ AtWork(g)'
          /\ CopiesAreFresh' => TurnInv'
    BY <1>0 DEF TurnInv
  <1>6. ASSUME NEW month \in Months, NEW isPreview \in BOOLEAN, NEW regenerate \in BOOLEAN,
               ReadOrganisation(g, month, isPreview, regenerate)
        PROVE  TurnInv'
    <2>1. /\ pc[g] = "idle" /\ pc'[g] = "look" /\ pc' = [pc EXCEPT ![g] = "look"]
          /\ account' = account /\ invoices' = invoices /\ result' = result
          /\ copy'[g] = account
      BY <1>0, <1>1, <1>6 DEF ReadOrganisation, Goto
    <2>2. \A i \in invoices' : i.id # g
      BY <1>2, <2>1
    <2>3. RowsAreOld' /\ InvoicesAreOfMonths' /\ PreviewsCloseNothing'
      BY <2>1, <2>2, InvoicesTurn
    <2>4. AtWork(g)'
      BY <2>1 DEF AtWork
    <2>. QED BY <1>0, <1>5, <2>1, <2>3, <2>4
  <1>7. CASE ReturnExisting(g)
    <2>1. /\ pc[g] = "look" /\ pc'[g] = "done" /\ pc' = [pc EXCEPT ![g] = "done"]
          /\ account' = account /\ invoices' = invoices
          /\ \A o \in Generators : o # g => result'[o] = result[o]
      BY <1>0, <1>1, <1>7 DEF ReturnExisting, Goto
    <2>2. RowsAreOld' /\ InvoicesAreOfMonths' /\ PreviewsCloseNothing'
      BY <2>1, InvoicesTurn
    <2>3. AtWork(g)' /\ ~Active(g)'
      BY <2>1 DEF AtWork, Active
    <2>. QED BY <1>4, <1>5, <2>2, <2>3
  <1>8. CASE StartInvoice(g)
    <2>1. /\ pc[g] = "look" /\ pc'[g] = "save" /\ pc' = [pc EXCEPT ![g] = "save"]
          /\ account' = account /\ invoices' = invoices /\ copy' = copy /\ asked' = asked
          /\ \A o \in Generators : o # g => result'[o] = result[o]
          /\ old'[g] = Existing(asked[g].month)
          /\ result'[g] = {[id |-> g, month |-> asked[g].month,
                            isPreview |-> asked[g].isPreview,
                            lines |-> {t \in copy[g] : InWindow(t, asked[g].month)}]}
      BY <1>0, <1>1, <1>8 DEF StartInvoice, Goto
    <2>2. \A i \in invoices' : i.id # g
      BY <1>2, <2>1
    <2>3. RowsAreOld' /\ InvoicesAreOfMonths' /\ PreviewsCloseNothing'
      BY <2>1, <2>2, InvoicesTurn
    <2>4. copy[g] = account
      BY <1>2, <2>1 DEF Active
    <2>5. AtWork(g)'
      BY <2>1, <2>4 DEF AtWork, Due, Existing, InWindow
    <2>. QED BY <1>0, <1>5, <2>1, <2>3, <2>4, <2>5
  <1>9. CASE SaveInvoice(g)
    <2>1. /\ pc[g] = "save" /\ pc'[g] = "clean" /\ pc' = [pc EXCEPT ![g] = "clean"]
          /\ account' = account /\ invoices' = invoices \cup result[g] /\ asked' = asked
          /\ result' = result /\ old' = old /\ ReadAgain(g)
      BY <1>0, <1>1, <1>9 DEF SaveInvoice, Goto
    <2>2. result[g] = {Due(g)} /\ old[g] = Existing(asked[g].month)
      BY <1>2, <2>1 DEF AtWork
    <2>3. RowsAreOld' /\ InvoicesAreOfMonths' /\ PreviewsCloseNothing'
      BY <2>1, <2>2, InvoicesTurn
    <2>4. Due(g)' = Due(g)
      BY <2>1 DEF Due, InWindow
    <2>5. Existing(asked[g].month)' = Existing(asked[g].month) \cup {Due(g)}
      <3>1. Due(g).month = asked[g].month
        BY DEF Due
      <3>. QED BY <2>1, <2>2, <3>1 DEF Existing
    <2>6. Due(g) \notin old[g]
      <3>1. Due(g).id = g /\ \A i \in old[g] : i \in invoices
        BY <2>2 DEF Due, Existing
      <3>. QED BY <1>2, <2>1, <3>1
    <2>7. AtWork(g)'
      BY <2>1, <2>2, <2>4, <2>5, <2>6 DEF AtWork
    <2>. QED BY <1>0, <1>3, <1>5, <2>1, <2>3, <2>7 DEF Active
  <1>10. CASE RemoveOld(g)
    <2>1. /\ pc[g] = "clean" /\ pc'[g] = (IF asked[g].isPreview THEN "done" ELSE "close")
          /\ pc' = [pc EXCEPT ![g] = IF asked[g].isPreview THEN "done" ELSE "close"]
          /\ account' = account /\ invoices' = invoices \ old[g] /\ asked' = asked
          /\ result' = result /\ old' = old /\ ReadAgain(g)
      BY <1>0, <1>1, <1>10 DEF RemoveOld, Goto
    <2>2. result[g] = {Due(g)} /\ Due(g) \notin old[g]
          /\ Existing(asked[g].month) = old[g] \cup {Due(g)}
      BY <1>2, <2>1 DEF AtWork
    <2>3. RowsAreOld' /\ InvoicesAreOfMonths' /\ PreviewsCloseNothing'
      BY <2>1, <2>2, InvoicesTurn
    <2>4. Due(g)' = Due(g)
      BY <2>1 DEF Due, InWindow
    <2>5. Existing(asked[g].month)' = {Due(g)}
      <3>1. Existing(asked[g].month)' = Existing(asked[g].month) \ old[g]
        BY <2>1 DEF Existing
      <3>. QED BY <2>2, <3>1
    <2>6. AtWork(g)'
      BY <2>1, <2>2, <2>4, <2>5 DEF AtWork
    <2>. QED BY <1>0, <1>3, <1>5, <2>1, <2>3, <2>6 DEF Active
  <1>11. CASE CloseMonth(g)
    <2>1. /\ pc[g] = "close" /\ pc'[g] = "done" /\ pc' = [pc EXCEPT ![g] = "done"]
          /\ invoices' = invoices /\ result' = result
          /\ account' = (IF Lines(g) = {} THEN account
                         ELSE Stored(g, Lines(g), Carry(g, Lines(g))))
      BY <1>0, <1>1, <1>11 DEF CloseMonth, Goto
    <2>2. /\ Lines(g) = Due(g).lines
          /\ \A i \in invoices : i.lines \cap Due(g).lines # {} => i = Due(g)
          /\ account \ Lines(g) \subseteq account'
          /\ account' \subseteq (account \ Lines(g)) \cup Carry(g, Lines(g))
      BY <2>1, ClosingLines
    <2>3. \A t \in Carry(g, Lines(g)) : t.by = g
      BY DEF Carry
    <2>4. /\ \A i \in invoices : i.id \in Generators /\ \A t \in i.lines : t.by \in Procs
          /\ \A t \in account : t.by \in Procs
      BY DEF TypeInv, TypeOK, Invoices, Transactions
    <2>5. RowsAreOld'
      <3>1. \A t \in account : pc'[t.by] = "done"
        BY <1>0, <2>1, <2>4 DEF TurnInv, RowsAreOld
      <3>2. \A t \in account' : pc'[t.by] = "done"
        BY <2>1, <2>2, <2>3, <3>1
      <3>3. \A i \in invoices' : \A t \in i.lines : pc'[t.by] = "done"
        BY <1>0, <2>1, <2>4 DEF TurnInv, RowsAreOld
      <3>. QED BY <3>2, <3>3 DEF RowsAreOld
    <2>6. InvoicesAreOfMonths'
      BY <1>0, <2>1, <2>4 DEF TurnInv, InvoicesAreOfMonths, Procs
    <2>7. PreviewsCloseNothing'
      <3>1. SUFFICES ASSUME NEW i \in invoices, i.isPreview PROVE i.lines \subseteq account'
        BY <2>1 DEF PreviewsCloseNothing
      <3>2. i.lines \subseteq account
        BY <3>1 DEF TurnInv, PreviewsCloseNothing
      <3>3. i # Due(g)
        BY <1>2, <2>1, <3>1 DEF AtWork, Due
      <3>. QED BY <2>2, <3>2, <3>3
    <2>8. AtWork(g)' /\ ~Active(g)'
      BY <2>1 DEF AtWork, Active
    <2>. QED BY <1>4, <1>5, <2>5, <2>6, <2>7, <2>8
  <1>12. CASE GeneratorFails(g)
    <2>1. /\ pc'[g] = "dead" /\ pc' = [pc EXCEPT ![g] = "dead"]
          /\ account' = account /\ result' = result
          /\ invoices' \subseteq invoices
      BY <1>0, <1>1, <1>12 DEF GeneratorFails, Goto
    <2>2. RowsAreOld' /\ InvoicesAreOfMonths' /\ PreviewsCloseNothing'
      BY <2>1, InvoicesTurn
    <2>3. AtWork(g)' /\ ~Active(g)'
      BY <2>1 DEF AtWork, Active
    <2>. QED BY <1>4, <1>5, <2>2, <2>3
  <1>. QED
    BY <1>6, <1>7, <1>8, <1>9, <1>10, <1>11, <1>12 DEF GeneratorStep

\* What no process does leaves it in place.
LEMMA RestTurn ==
  ASSUME TurnInv,
         UNCHANGED <<account, invoices, pc, asked, copy, old, result>>
  PROVE  TurnInv'
  <1>1. \A g : Due(g)' = Due(g)
    BY DEF Due, InWindow
  <1>2. \A g \in Generators : AtWork(g)'
    BY <1>1 DEF TurnInv, AtWork, Existing
  <1>3. Alone' /\ CopiesAreFresh'
    BY DEF TurnInv, Alone, CopiesAreFresh, Active
  <1>4. RowsAreOld' /\ InvoicesAreOfMonths' /\ PreviewsCloseNothing'
    BY DEF TurnInv, RowsAreOld, InvoicesAreOfMonths, PreviewsCloseNothing, InWindow
  <1>. QED BY <1>2, <1>3, <1>4 DEF TurnInv

\* Nobody works at the start,
LEMMA InitTurn == Init => TurnInv
  <1> SUFFICES ASSUME Init PROVE TurnInv
    OBVIOUS
  <1>1. /\ account = {} /\ invoices = {} /\ \A q \in Procs : pc[q] = "idle"
        /\ Generators \subseteq Procs
    BY DEF Init, Procs
  <1>. QED
    BY <1>1 DEF TurnInv, Alone, CopiesAreFresh, Active, RowsAreOld, InvoicesAreOfMonths,
                AtWork, PreviewsCloseNothing

\* one at a time after each step,
LEMMA NextTurn == TypeInv /\ TurnInv /\ [Next /\ Alone']_vars => TurnInv'
  <1> SUFFICES ASSUME TypeInv, TurnInv, [Next /\ Alone']_vars PROVE TurnInv'
    OBVIOUS
  <1>1. CASE Tick \/ UNCHANGED vars
    BY <1>1, RestTurn DEF Tick, vars
  <1>. QED BY <1>1, WriterTurn, StepTurn DEF Next

\* and always.
LEMMA TurnInvariant == SerialSpec => [](TypeInv /\ TurnInv)
  <1>1. TypeInv /\ [Next /\ Alone']_vars => TypeInv'
    BY StepType
  <1>. QED BY <1>1, InitType, InitTurn, NextTurn, PTL DEF SerialSpec

\* Regenerating (GenerateInvoiceAsync, regenerate: true) leaves the one invoice that
\* it returns for the month, whatever an earlier failure has left there.
THEOREM RegeneratingLeavesOne == SerialSpec => RegenerateLeavesOne
  <1>1. ASSUME TurnInv, NEW g \in Generators, RemoveOld(g)
        PROVE  {i \in invoices' : i.month = asked[g].month} = result[g]
    <2>1. /\ pc[g] = "clean" /\ invoices' = invoices \ old[g]
          /\ Existing(asked[g].month) = old[g] \cup {Due(g)} /\ Due(g) \notin old[g]
          /\ result[g] = {Due(g)}
      BY <1>1 DEF TurnInv, AtWork, RemoveOld
    <2>2. Due(g).month = asked[g].month
      BY DEF Due
    <2>3. \A i : i \in Existing(asked[g].month) <=>
                   i \in invoices /\ i.month % MonthsInYear = asked[g].month % MonthsInYear
      BY DEF Existing
    <2> HIDE DEF Due
    <2>4. \A i \in invoices' : i.month = asked[g].month => i = Due(g)
      BY <2>1, <2>3
    <2>5. Due(g) \in invoices'
      BY <2>1, <2>3
    <2>. QED BY <2>1, <2>2, <2>4, <2>5
  <1>2. TurnInv /\ [Next /\ Alone']_vars =>
          [\A g \in Generators : RemoveOld(g) =>
             {i \in invoices' : i.month = asked[g].month} = result[g]]_vars
    BY <1>1
  <1>. QED BY <1>2, TurnInvariant, PTL DEF SerialSpec, RegenerateLeavesOne

\* What was entered is forgotten by nobody but a generator that regenerates a final
\* invoice: closing a month takes from the account what its invoice lists, and a
\* preview that is replaced lists what the account still has.
THEOREM NothingForgotten == SerialSpec => NothingIsForgotten
  <1> DEFINE Regenerated(t) ==
               \E g \in Generators : pc[g] = "clean" /\
                 \E i \in old[g] \ invoices' : ~i.isPreview /\ t \in i.lines
  <1>1. ASSUME TypeInv, TurnInv, Next /\ Alone', NEW t \in Entered, Recorded(t), ~Recorded(t)'
        PROVE  Regenerated(t)
    <2>1. t \notin account' /\ \A i \in invoices' : t \notin i.lines
      BY <1>1 DEF Recorded
    <2>2. ASSUME NEW w \in Writers, WriterStep(w) PROVE FALSE
      <3>1. w \in Procs /\ (pc[w] = "enter" => copy[w] = account)
        BY <1>1 DEF Procs, TurnInv, CopiesAreFresh, Active
      <3>2. account \subseteq account' /\ invoices' = invoices
        BY <2>2, <3>1 DEF WriterStep, LoadOrganisation, EnterTransaction, Stored
      <3>. QED BY <1>1, <2>1, <3>2 DEF Recorded
    <2>3. ASSUME NEW g \in Generators, CloseMonth(g) PROVE FALSE
      <3>1. /\ pc[g] = "close" /\ invoices' = invoices
            /\ account' = (IF Lines(g) = {} THEN account
                           ELSE Stored(g, Lines(g), Carry(g, Lines(g))))
        BY <2>3 DEF CloseMonth
      <3>2. Lines(g) = Due(g).lines /\ Due(g) \in invoices /\ account \ Lines(g) \subseteq account'
        BY <1>1, <3>1, ClosingLines
      <3>. QED BY <1>1, <2>1, <3>1, <3>2 DEF Recorded
    <2>4. ASSUME NEW g \in Generators, GeneratorStep(g), account' = account
          PROVE  Regenerated(t)
      <3>1. PICK i \in invoices : t \in i.lines /\ i \notin invoices'
        BY <1>1, <2>1, <2>4 DEF Recorded
      <3>2. pc[g] = "clean" /\ i \in old[g]
        BY <2>4, <3>1
        DEF GeneratorStep, ReadOrganisation, ReturnExisting, StartInvoice, SaveInvoice,
            RemoveOld, CloseMonth, GeneratorFails
      <3>3. ~i.isPreview
        BY <1>1, <2>1, <2>4, <3>1 DEF TurnInv, PreviewsCloseNothing
      <3>. QED BY <3>1, <3>2, <3>3
    <2>5. ASSUME NEW g \in Generators, GeneratorStep(g), ~CloseMonth(g)
          PROVE  account' = account
      BY <2>5 DEF GeneratorStep, ReadOrganisation, ReturnExisting, StartInvoice, SaveInvoice,
                  RemoveOld, GeneratorFails
    <2>6. ASSUME Tick PROVE FALSE
      BY <1>1, <2>1, <2>6 DEF Tick, Recorded
    <2>. QED BY <1>1, <2>2, <2>3, <2>4, <2>5, <2>6 DEF Next
  <1>2. TypeInv /\ TurnInv /\ [Next /\ Alone']_vars =>
          [\A t \in Entered : Recorded(t) /\ ~Recorded(t)' => Regenerated(t)]_vars
    <2> HIDE DEF Regenerated
    <2>. QED BY <1>1
  <1>. QED BY <1>2, TurnInvariant, PTL DEF SerialSpec, NothingIsForgotten

------------------------------------------------------------------------------
(* When processes take turns, invoices that list the same *)

\* Until something fails, a final invoice whose generator is through has its lines
\* to itself.
ClosedHaveLeft ==
  faults = 0 =>
    \A i \in invoices : ~i.isPreview /\ pc[i.id] \notin {"clean", "close"} =>
      i.lines \cap account = {}

\* Two final invoices list the same only after a failure, while a generator is about
\* to remove one of them.
SharedAreReplaced ==
  \A i, j \in invoices :
    i # j /\ ~i.isPreview /\ ~j.isPreview /\ i.lines \cap j.lines # {} =>
      faults > 0 /\ \E g \in Generators : pc[g] = "clean" /\ {i, j} \cap old[g] # {}

ListedInv == ClosedHaveLeft /\ SharedAreReplaced

\* When all others rest, one of them is not about to remove an invoice.
LEMMA NoneShared ==
  ASSUME TypeInv, ListedInv, NEW q \in Procs, pc[q] # "clean",
         \A o \in Procs : o # q => ~Active(o)
  PROVE  \A i, j \in invoices :
           ~i.isPreview /\ ~j.isPreview /\ i.lines \cap j.lines # {} => i = j
  <1>1. \A g \in Generators : pc[g] # "clean"
    BY DEF Active, Procs
  <1>. QED BY <1>1 DEF ListedInv, SharedAreReplaced

\* A step of a writer keeps what is listed apart,
LEMMA WriterListed ==
  ASSUME TypeInv, TurnInv, ListedInv, Alone', NEW w \in Writers, WriterStep(w)
  PROVE  ListedInv'
  <1>0. w \in Procs /\ w \notin Generators /\ Generators \subseteq Procs
        /\ pc \in [Procs -> {"idle", "enter", "look", "save", "clean", "close", "done", "dead"}]
    BY InvoicingAssumption DEF Procs, TypeInv, TypeOK
  <1>1. /\ \A o \in Procs : o # w => pc'[o] = pc[o]
        /\ invoices' = invoices /\ faults' = faults
        /\ Active(w) \/ Active(w)'
        /\ pc[w] \in {"idle", "enter"}
    BY <1>0 DEF WriterStep, LoadOrganisation, EnterTransaction, Goto, Active
  <1>2. \A o \in Procs : o # w => ~Active(o) /\ ~Active(o)'
    BY <1>0, <1>1, OthersRest DEF TurnInv
  <1>3. SharedAreReplaced'
    <2>1. \A i, j \in invoices :
            ~i.isPreview /\ ~j.isPreview /\ i.lines \cap j.lines # {} => i = j
      BY <1>0, <1>1, <1>2, NoneShared
    <2>. QED BY <1>1, <2>1 DEF SharedAreReplaced
  <1>4. \A t \in account' : t \in account \/ t.by = w
    BY <1>0 DEF WriterStep, LoadOrganisation, EnterTransaction, Stored, TurnInv,
                CopiesAreFresh, Active
  <1>5. \A i \in invoices : \A t \in i.lines : t.by # w
    BY <1>1 DEF TurnInv, RowsAreOld
  <1>6. \A i \in invoices : i.id \in Generators
    BY DEF TypeInv, TypeOK, Invoices
  <1>7. ClosedHaveLeft'
    <2>1. SUFFICES ASSUME faults' = 0, NEW i \in invoices, ~i.isPreview,
                          pc'[i.id] \notin {"clean", "close"},
                          NEW t \in i.lines, t \in account'
                   PROVE  FALSE
      BY <1>1 DEF ClosedHaveLeft
    <2>2. pc[i.id] \notin {"clean", "close"} /\ t \in account
      BY <1>0, <1>1, <1>4, <1>5, <1>6, <2>1
    <2>. QED BY <1>1, <2>1, <2>2 DEF ListedInv, ClosedHaveLeft
  <1>. QED BY <1>3, <1>7 DEF ListedInv

\* A generator that takes its turn fails only when a fault is left.
LEMMA OnlyFaultsFail ==
  ASSUME TypeInv, TurnInv, NEW g \in Generators, GeneratorFails(g)
  PROVE  Fault
  <1>1. CASE pc[g] = "clean"
    <2>1. old[g] \subseteq invoices
      BY <1>1 DEF TurnInv, AtWork, Existing
    <2>. QED BY <1>1, <2>1 DEF GeneratorFails
  <1>2. CASE pc[g] = "close"
    <2>1. CanClose(g)
      BY <1>2, ClosingLines DEF CanClose
    <2>. QED BY <1>2, <2>1 DEF GeneratorFails
  <1>. QED BY <1>1, <1>2 DEF GeneratorFails

\* and so does one of a generator, when one save fails at most.
LEMMA GeneratorListed ==
  ASSUME MaxFaults <= 1, TypeInv, TurnInv, ListedInv, Alone', NEW g \in Generators,
         GeneratorStep(g)
  PROVE  ListedInv'
  <1>0. /\ g \in Procs
        /\ \A o \in Procs : o # g => pc'[o] = pc[o] /\ ~Active(o) /\ ~Active(o)'
        /\ pc[g] # "done" /\ pc[g] # "dead"
    BY GeneratorTurn
  <1>1. /\ pc \in [Procs -> {"idle", "enter", "look", "save", "clean", "close", "done", "dead"}]
        /\ faults \in Nat /\ MaxFaults \in Nat
        /\ \A i \in invoices : i.id \in Generators /\ i.id \in Procs
    BY InvoicingAssumption DEF TypeInv, TypeOK, Invoices, Procs
  <1>2. AtWork(g)
    BY DEF TurnInv
  <1>3. pc[g] # "clean" =>
          \A i, j \in invoices :
            ~i.isPreview /\ ~j.isPreview /\ i.lines \cap j.lines # {} => i = j
    BY <1>0, NoneShared
  <1>4. CASE GeneratorFails(g)
    <2>1. Fault
      BY <1>4, OnlyFaultsFail
    <2>2. /\ faults = 0 /\ faults' = 1 /\ invoices' \subseteq invoices
      <3>1. faults < MaxFaults /\ faults' = faults + 1
        BY <2>1 DEF Fault
      <3>2. faults = 0 /\ faults' = 1
        BY <1>1, <3>1
      <3>3. invoices' \subseteq invoices
        BY <1>4 DEF GeneratorFails
      <3>. QED BY <3>2, <3>3
    <2>3. ClosedHaveLeft'
      BY <2>2 DEF ClosedHaveLeft
    <2>4. SharedAreReplaced'
      BY <2>2 DEF ListedInv, SharedAreReplaced
    <2>. QED BY <2>3, <2>4 DEF ListedInv
  <1>5. CASE SaveInvoice(g)
    <2>1. /\ pc[g] = "save" /\ pc'[g] = "clean" /\ invoices' = invoices \cup result[g]
          /\ account' = account /\ old' = old /\ faults' = faults
      BY <1>0, <1>1, <1>5 DEF SaveInvoice, Goto
    <2>2. invoices' = invoices \cup {Due(g)} /\ old[g] = Existing(asked[g].month)
      BY <1>2, <2>1 DEF AtWork
    <2>3. /\ Due(g).id = g /\ Due(g).lines \subseteq account
          /\ \A t \in Due(g).lines : InWindow(t, asked[g].month)
      BY DEF Due
    <2>4. ClosedHaveLeft'
      BY <1>0, <1>1, <2>1, <2>2, <2>3 DEF ListedInv, ClosedHaveLeft
    <2>5. ASSUME NEW i \in invoices, ~i.isPreview, i.lines \cap Due(g).lines # {}
          PROVE  faults > 0 /\ i \in old[g]
      <3>1. PICK t \in i.lines : t \in Due(g).lines
        BY <2>5
      <3>2. t \in Transactions /\ i.month \in Months /\ asked[g].month \in Months
        BY <3>1 DEF TypeInv, TypeOK, Invoices
      <3>3. InWindow(t, i.month) /\ InWindow(t, asked[g].month)
        BY <2>3, <3>1 DEF TurnInv, InvoicesAreOfMonths
      <3>4. i.month = asked[g].month
        BY <3>2, <3>3, OneMonth
      <3>5. i \in old[g]
        BY <2>2, <3>4 DEF Existing
      <3>6. pc[i.id] \notin {"clean", "close"}
        BY <1>0, <1>1, <2>1 DEF Active
      <3>7. faults # 0
        BY <2>3, <2>5, <3>1, <3>6 DEF ListedInv, ClosedHaveLeft
      <3>. QED BY <1>1, <3>5, <3>7
    <2>6. SharedAreReplaced'
      <3>1. SUFFICES ASSUME NEW i \in invoices', NEW j \in invoices', i # j,
                            ~i.isPreview, ~j.isPreview, i.lines \cap j.lines # {}
                     PROVE  faults > 0 /\ {i, j} \cap old[g] # {}
        BY <2>1 DEF SharedAreReplaced
      <3>2. i = Due(g) \/ j = Due(g)
        BY <1>3, <2>1, <2>2, <3>1
      <3>. QED BY <2>2, <2>5, <3>1, <3>2
    <2>. QED BY <2>4, <2>6 DEF ListedInv
  <1>6. CASE RemoveOld(g)
    <2>1. /\ pc[g] = "clean" /\ pc'[g] = (IF asked[g].isPreview THEN "done" ELSE "close")
          /\ invoices' = invoices \ old[g] /\ account' = account /\ faults' = faults
      BY <1>0, <1>1, <1>6 DEF RemoveOld, Goto
    <2>2. \A i \in invoices : i.id = g => i = Due(g)
      BY <1>2, <2>1 DEF TurnInv, InvoicesAreOfMonths, AtWork
    <2>3. Due(g).isPreview = asked[g].isPreview
      BY DEF Due
    <2>4. ClosedHaveLeft'
      <3>1. SUFFICES ASSUME faults = 0, NEW i \in invoices, ~i.isPreview,
                            pc'[i.id] \notin {"clean", "close"}
                     PROVE  i.lines \cap account = {}
        BY <2>1 DEF ClosedHaveLeft
      <3>2. i.id # g
        BY <2>1, <2>2, <2>3, <3>1
      <3>3. pc[i.id] \notin {"clean", "close"}
        BY <1>0, <1>1, <3>1, <3>2
      <3>. QED BY <3>1, <3>3 DEF ListedInv, ClosedHaveLeft
    <2>5. \A o \in Generators : o # g => pc[o] # "clean"
      BY <1>0 DEF Active, Procs
    <2>6. SharedAreReplaced'
      BY <2>1, <2>5 DEF ListedInv, SharedAreReplaced
    <2>. QED BY <2>4, <2>6 DEF ListedInv
  <1>7. CASE CloseMonth(g)
    <2>1. /\ pc[g] = "close" /\ pc'[g] = "done" /\ invoices' = invoices /\ faults' = faults
          /\ account' = (IF Lines(g) = {} THEN account
                         ELSE Stored(g, Lines(g), Carry(g, Lines(g))))
      BY <1>0, <1>1, <1>7 DEF CloseMonth, Goto
    <2>2. /\ Lines(g) = Due(g).lines
          /\ account' \subseteq (account \ Lines(g)) \cup Carry(g, Lines(g))
      BY <2>1, ClosingLines
    <2>3. \A i \in invoices : i.id = g => i = Due(g)
      BY <1>2, <2>1 DEF TurnInv, InvoicesAreOfMonths, AtWork
    <2>4. /\ \A t \in Carry(g, Lines(g)) : t.by = g
          /\ \A i \in invoices : \A t \in i.lines : t.by # g
      BY <1>0 DEF Carry, TurnInv, RowsAreOld
    <2>5. ClosedHaveLeft'
      <3>1. SUFFICES ASSUME faults = 0, NEW i \in invoices, ~i.isPreview,
                            pc'[i.id] \notin {"clean", "close"},
                            NEW t \in i.lines, t \in account'
                     PROVE  FALSE
        BY <2>1 DEF ClosedHaveLeft
      <3>2. t \in account /\ t \notin Lines(g)
        BY <2>2, <2>4, <3>1
      <3>3. i.id # g
        BY <2>2, <2>3, <3>1, <3>2
      <3>4. pc[i.id] \notin {"clean", "close"}
        BY <1>0, <1>1, <3>1, <3>3
      <3>. QED BY <3>1, <3>2, <3>4 DEF ListedInv, ClosedHaveLeft
    <2>6. SharedAreReplaced'
      BY <1>3, <2>1 DEF SharedAreReplaced
    <2>. QED BY <2>5, <2>6 DEF ListedInv
  <1>8. ASSUME pc[g] \in {"idle", "look"}, pc'[g] \notin {"clean", "close"},
               UNCHANGED <<invoices, account, faults>>
        PROVE  ListedInv'
    <2>1. \A i \in invoices : i.id # g
      BY <1>8 DEF TurnInv, InvoicesAreOfMonths
    <2>2. ClosedHaveLeft'
      BY <1>0, <1>1, <1>8, <2>1 DEF ListedInv, ClosedHaveLeft
    <2>3. SharedAreReplaced'
      BY <1>3, <1>8 DEF SharedAreReplaced
    <2>. QED BY <2>2, <2>3 DEF ListedInv
  <1>9. CASE ReturnExisting(g) \/ StartInvoice(g)
    BY <1>0, <1>1, <1>8, <1>9 DEF ReturnExisting, StartInvoice, Goto
  <1>10. CASE \E month \in Months, isPreview, regenerate \in BOOLEAN :
                ReadOrganisation(g, month, isPreview, regenerate)
    BY <1>0, <1>1, <1>8, <1>10 DEF ReadOrganisation, Goto
  <1>. QED BY <1>4, <1>5, <1>6, <1>7, <1>9, <1>10 DEF GeneratorStep

\* While at most one call fails or one process is killed, no transaction is on two
\* final invoices once the generators are through: what a generator that failed had
\* not closed is listed again only by the invoice that replaces its invoice.
THEOREM EachListedOnce == ASSUME MaxFaults <= 1 PROVE SerialSpec => []ListedOnce
  <1>1. Init => ListedInv
    BY DEF Init, ListedInv, ClosedHaveLeft, SharedAreReplaced
  <1>2. TypeInv /\ TurnInv /\ ListedInv /\ [Next /\ Alone']_vars => ListedInv'
    <2> SUFFICES ASSUME TypeInv, TurnInv, ListedInv, [Next /\ Alone']_vars PROVE ListedInv'
      OBVIOUS
    <2>1. ASSUME UNCHANGED <<account, invoices, pc, old, faults>> PROVE ListedInv'
      BY <2>1 DEF ListedInv, ClosedHaveLeft, SharedAreReplaced
    <2>2. CASE Tick \/ UNCHANGED vars
      BY <2>1, <2>2 DEF Tick, vars
    <2>. QED BY <2>2, WriterListed, GeneratorListed DEF Next
  <1>3. ListedInv => ListedOnce
    BY DEF ListedInv, SharedAreReplaced, ListedOnce, Quiet, Active, Procs
  <1>. QED BY <1>1, <1>2, <1>3, TurnInvariant, PTL DEF SerialSpec
==============================================================================

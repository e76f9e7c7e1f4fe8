------------------------------ MODULE Library -------------------------------
(***************************************************************************)
(* The user's Amphorae and the creation of one.  CreateAmphora.tsx sends   *)
(* the Amphora, takes the user to the list, which fetches, and has the     *)
(* list fetched again a second later, whatever page is open by then and    *)
(* whether or not the server has answered.                                 *)
(***************************************************************************)
EXTENDS Collection

CONSTANT MaxCreated    \* bound on the Amphorae created

ASSUME LibraryAssumption == MaxCreated \in Nat

VARIABLES
  writing,     \* whether the page "Create Amphora" is open
  creating,    \* the creations under way
  timers,      \* the creations whose second has not passed
  created,     \* the creations answered
  shouldList   \* the creations answered before the fetch that follows them

creationVars == <<creating, timers, created, shouldList>>
libraryVars == <<collectionVars, writing, creationVars>>

Creations == 1 .. MaxCreated

AtList == [tab |-> "none", page |-> 1]

Elsewhere == list = Off /\ ~writing

------------------------------------------------------------------------------
(* Routes *)

OpenList(u) ==
  /\ Elsewhere /\ CanAsk
  /\ MountList(u)
  /\ UNCHANGED <<mine, mineAsked, stored, disturbed, writing, creationVars>>

OpenCreate ==
  /\ Elsewhere
  /\ writing' = TRUE
  /\ UNCHANGED <<collectionVars, creationVars>>

Leave ==
  /\ ~Elsewhere /\ Settled
  /\ writing' = FALSE
  /\ UnmountList
  /\ UNCHANGED <<mine, mineAsked, stored, disturbed, creationVars>>

------------------------------------------------------------------------------
(* Creation *)

\* The model is sent, the second begins, and the user is taken to the list.
CreateAmphora(c) ==
  /\ writing /\ CanAsk
  /\ c \notin creating \cup stored \cup created
  /\ creating' = creating \cup {c}
  /\ timers' = timers \cup {c}
  /\ writing' = FALSE
  /\ MountList(AtList)
  /\ UNCHANGED <<mine, mineAsked, stored, disturbed, created, shouldList>>

\* The server stores the Amphora; its answer comes with it or later.
StoreAmphora(c) ==
  /\ c \in creating \ stored
  /\ stored' = stored \cup {c}
  /\ UNCHANGED <<url, list, listDue, mine, mineAsked, disturbed, writing, creationVars>>

AnswerCreation(c) ==
  /\ c \in creating
  /\ creating' = creating \ {c}
  /\ created' = created \cup {c}
  /\ UNCHANGED <<collectionVars, writing, timers, shouldList>>

\* (mutant of Timer)
TimerUnheard(c) ==
  /\ c \in timers
  /\ Settled /\ CanAsk
  /\ timers' = timers \ {c}
  /\ shouldList' = shouldList \cup (created \cap stored)
  /\ UNCHANGED <<collectionVars, writing, creating, created>>
\* A second later the first page of the user's own list is fetched into the
\* context the list shows, whatever the list is showing by then.
Timer(c) ==
  /\ c \in timers
  /\ Settled /\ CanAsk
  /\ timers' = timers \ {c}
  /\ mineAsked' = Append(mineAsked, Request(CreatedQuery))
  /\ mine' = [mine EXCEPT !.isLoading = TRUE]
  /\ listDue' = IF list # Off /\ ~mine.isLoading THEN {"loading"} ELSE {}
  /\ Disturb(list # Off /\ Selected # CreatedQuery)
  /\ shouldList' = shouldList \cup (created \cap stored)
  /\ UNCHANGED <<url, list, stored, writing, creating, created>>

------------------------------------------------------------------------------

LibraryInit ==
  /\ ListInit
  /\ writing = FALSE
  /\ creating = {}
  /\ timers = {}
  /\ created = {}
  /\ shouldList = {}

LibraryUser ==
  \/ ListUser /\ UNCHANGED <<writing, creationVars>>
  \/ \E u \in [tab : {"none", "purchased"}, page : Pages] : OpenList(u)
  \/ OpenCreate
  \/ Leave
  \/ \E c \in Creations : CreateAmphora(c)

LibraryEffects == RunListEffects /\ UNCHANGED <<writing, creationVars>>

LibraryAnswers == ListAnswers /\ UNCHANGED <<writing, creationVars>>

CreationSteps == \E c \in Creations : StoreAmphora(c) \/ AnswerCreation(c) \/ Timer(c)

LibraryNext == LibraryUser \/ LibraryEffects \/ LibraryAnswers \/ CreationSteps

------------------------------------------------------------------------------
(* What the page promises *)

\* Once the fetch that follows a creation is answered, the user's own list has
\* every Amphora whose creation was answered before that fetch.
CreatedIsListed ==
  list # Off /\ Settled /\ mineAsked = <<>> /\ ~disturbed /\ Selected = CreatedQuery
    => shouldList \subseteq list.results.has
==============================================================================

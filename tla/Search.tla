------------------------------- MODULE Search --------------------------------
(***************************************************************************)
(* The page "Search" of the browser client (SearchSection.tsx).            *)
(*                                                                         *)
(* The term is in the query string and in the state of the page; a search  *)
(* is executed when the term or the page in the state changes, and its     *)
(* results come through the context Search of react-amphora.  Effects and  *)
(* commits are as in Collection.                                           *)
(*                                                                         *)
(* The page in the state follows the query string; the term does not: only *)
(* the mount and setTerm write it, so a link of the menu, or Back, may     *)
(* change the query string's term under the page, whose box and rows stay  *)
(* those of the term before.                                               *)
(***************************************************************************)
EXTENDS Browser

CONSTANTS
  SearchTerms,    \* the terms searched for
  EmptyTerm,      \* the empty one, among them
  CommonTerms,    \* those that match more than a page of Amphorae
  MaxPages,       \* how many pages these match
  MaxSearches     \* bound on the searches under way

ASSUME SearchAssumption ==
  /\ EmptyTerm \in SearchTerms
  /\ CommonTerms \subseteq SearchTerms
  /\ MaxPages \in Nat \ {0, 1}
  /\ MaxSearches \in Nat \ {0}

VARIABLES
  findUrl,      \* the query string: [term, page]
  find,         \* SearchPageState, or Off
  findDue,      \* the effects whose dependencies have changed
  found,        \* the context: [isLoading, results]
  findAsked,    \* the searches under way, oldest first
  findDisturbed,\* whether a search failed or was overtaken since the page last searched
  findLed       \* whether the query string was last led, under the page, to a term not its own

searchVars == <<findUrl, find, findDue, found, findAsked, findDisturbed, findLed>>

PagesOf(t) == IF t \in CommonTerms THEN MaxPages ELSE 1
SearchPages == 1 .. MaxPages
NothingFound == [term |-> EmptyTerm, page |-> 0]

FindSettled == findDue = {}
CanSearch == Len(findAsked) < MaxSearches
Query == [term |-> find.term, page |-> find.page]

\* A page of results: none past the last page, and the pages before it are full.
IsEmpty(results) == results.page = 0 \/ results.page > PagesOf(results.term)
IsFull(results) == results.page # 0 /\ results.page < PagesOf(results.term)

------------------------------------------------------------------------------
(* The effects *)

\* The page effect has no dependencies: it runs on every commit.
PageEffect == [find EXCEPT !.page = findUrl.page]

\* A search sets the page loading, on the state of the commit.
ExecuteEffect(s) ==
  IF "query" \in findDue THEN [find EXCEPT !.loading = TRUE] ELSE s

Execute ==
  IF "query" \in findDue
  THEN /\ findAsked' = Append(findAsked, Query)
       /\ found' = [found EXCEPT !.isLoading = TRUE]
       /\ findDisturbed' = (findDisturbed /\ findAsked # <<>>)
  ELSE UNCHANGED <<findAsked, found, findDisturbed>>

\* New results end the loading, on the state of the commit.
FoundEffect(s) ==
  IF "results" \in findDue
  THEN [find EXCEPT !.loading = found.isLoading, !.results = found.results] ELSE s

\* (mutant of SearchDue)
SearchDueForTerm(s) == IF s.term # find.term THEN {"query"} ELSE {}
\* The search depends on the term and the page.
SearchDue(s) ==
  IF s.term # find.term \/ s.page # find.page THEN {"query"} ELSE {}

RunFindEffects ==
  /\ find # Off /\ ~FindSettled
  /\ "query" \in findDue => CanSearch
  /\ Execute
  /\ find' = FoundEffect(ExecuteEffect(PageEffect))
  /\ findDue' = SearchDue(find') \cup (IF find'.page # findUrl.page THEN {"page"} ELSE {})
  /\ UNCHANGED <<findUrl, findLed>>

------------------------------------------------------------------------------
(* Mounting, and what the user does *)

MountFind(u) ==
  /\ findUrl' = u
  /\ find' = [loading |-> TRUE, term |-> u.term, page |-> u.page, results |-> NothingFound]
  /\ findDue' = {"page", "query", "results"}
  /\ findLed' = FALSE

OpenFind(u) ==
  /\ find = Off /\ CanSearch
  /\ MountFind(u)
  /\ UNCHANGED <<found, findAsked, findDisturbed>>

\* The context and what it was asked outlive the page.
CloseFind ==
  /\ find # Off /\ FindSettled
  /\ find' = Off
  /\ findDue' = {}
  /\ UNCHANGED <<findUrl, found, findAsked, findDisturbed, findLed>>

\* setTerm, at the blur of the search bar: the term is replaced in the query
\* string, which keeps its page, and the page is loading.
SetTerm(t) ==
  /\ find # Off /\ FindSettled /\ CanSearch
  /\ findUrl' = [findUrl EXCEPT !.term = t]
  /\ find' = [find EXCEPT !.term = t, !.loading = TRUE]
  /\ findDue' = SearchDue(find') \cup {"page"}
  /\ findLed' = FALSE
  /\ UNCHANGED <<found, findAsked, findDisturbed>>

ShowsRows == find # Off /\ ~find.loading /\ ~IsEmpty(find.results)

ShowsNoResults == find # Off /\ ~find.loading /\ IsEmpty(find.results)

\* The pagination keeps the query string and changes the page in it.
FindPageLinks ==
  LET nPages == IF IsFull(find.results) THEN find.page + 1 ELSE find.page
  IN  {1, nPages} \cup {p \in (find.page - 2) .. (find.page + 2) : p > 0 /\ p <= nPages}

ClickFindPage(p) ==
  /\ FindSettled /\ CanSearch
  /\ ShowsRows
  /\ p \in FindPageLinks
  /\ findUrl' = [findUrl EXCEPT !.page = p]
  /\ findDue' = {"page"}
  /\ UNCHANGED <<find, found, findAsked, findDisturbed, findLed>>

\* The menu's link "Search", which has neither term nor page, and Back and Forward,
\* to any address the page had: the query string is another under the mounted page.
FollowLink(u) ==
  /\ find # Off /\ FindSettled /\ CanSearch
  /\ findUrl' = u
  /\ findDue' = {"page"}
  /\ findLed' = (u.term # find.term)
  /\ UNCHANGED <<find, found, findAsked, findDisturbed>>

------------------------------------------------------------------------------
(* The answers of the context, which is external *)

AnswerSearch(i) ==
  /\ FindSettled
  /\ found' = [isLoading |-> FALSE, results |-> findAsked[i]]
  /\ findDue' = IF find = Off THEN {} ELSE {"page", "results"}
  /\ findAsked' = Without(findAsked, i)
  /\ findDisturbed' = (findDisturbed \/ i # 1)
  /\ UNCHANGED <<findUrl, find, findLed>>

FailSearch(i) ==
  /\ FindSettled
  /\ found' = [found EXCEPT !.isLoading = FALSE]
  /\ findAsked' = Without(findAsked, i)
  /\ findDisturbed' = TRUE
  /\ UNCHANGED <<findUrl, find, findDue, findLed>>

SearchUser ==
  \/ \E t \in SearchTerms : SetTerm(t)
  \/ \E p \in SearchPages : ClickFindPage(p)
  \/ \E u \in [term : SearchTerms, page : SearchPages] : OpenFind(u) \/ FollowLink(u)
  \/ CloseFind

SearchAnswers == \E i \in DOMAIN findAsked : AnswerSearch(i) \/ FailSearch(i)

SearchNext == SearchUser \/ SearchAnswers \/ RunFindEffects

SearchInit ==
  /\ findUrl = [term |-> EmptyTerm, page |-> 1]
  /\ find = Off
  /\ findDue = {}
  /\ found = [isLoading |-> FALSE, results |-> NothingFound]
  /\ findAsked = <<>>
  /\ findDisturbed = FALSE
  /\ findLed = FALSE

------------------------------------------------------------------------------
(* What the page promises *)

\* When nothing is under way the page shows the page the query string asks for of
\* what was found for the page's term, unless a search failed or was overtaken; and
\* the term is the query string's, unless that was led to another under the page.
FoundIsSearched ==
  find # Off /\ FindSettled /\ findAsked = <<>> /\ ~findDisturbed =>
    /\ find.results = Query
    /\ find.page = findUrl.page
    /\ ~findLed => find.term = findUrl.term
==============================================================================

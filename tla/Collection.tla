----------------------------- MODULE Collection ------------------------------
(***************************************************************************)
(* The page "My Amphora" of the browser client.                            *)
(*                                                                         *)
(*   MyAmphoraPage.tsx      the page, with its four effects                *)
(*   QueryStringTabs.tsx    the tabs: created or purchased                 *)
(*   Pagination.tsx         the links to other pages                       *)
(*   Toggle.tsx             the scope: my list or my organisation          *)
(*   AmphoraTable.tsx       the table of what was found                    *)
(*                                                                         *)
(* What the page shows is kept in three places: the query string, the      *)
(* state of the page and the results of the context MyAmphora of the       *)
(* library react-amphora, which outlives the page.  The effects of a       *)
(* commit copy one to the other; they run before the next event, in the    *)
(* order they are written in, each on the state of the commit, so that     *)
(* the last state set is the one that stays.                               *)
(*                                                                         *)
(* A result is the query it answers, with the Amphorae that were there     *)
(* when the server read them.                                              *)
(***************************************************************************)
EXTENDS Browser

CONSTANTS
  LastPage,     \* the pages before this one are full
  MaxAsked      \* bound on the requests of one context that are under way

ASSUME CollectionAssumption ==
  /\ LastPage \in Nat \ {0}
  /\ MaxAsked \in Nat \ {0}

VARIABLES
  url,          \* the query string: [tab, page]; none elsewhere
  list,         \* MyAmphoraPageState, or Off
  listDue,      \* the effects whose dependencies have changed
  mine,         \* the context: [isLoading, results]
  mineAsked,    \* its requests under way, oldest first: the query, and what was stored then
  stored,       \* the Amphorae of the user, on the server
  disturbed     \* whether the page may show what it did not ask for last (see Disturb)

collectionVars == <<url, list, listDue, mine, mineAsked, stored, disturbed>>

AccessTypes == {"created", "purchased"}
Scopes == {"self", "organisation"}
Pages == 1 .. LastPage
Queries == [accessType : AccessTypes, scope : Scopes, page : Pages]
NoQuery == [accessType |-> "none", scope |-> "self", page |-> LastPage]
NoResults == [query |-> NoQuery, has |-> {}]

------------------------------------------------------------------------------
(* The query string *)

\* getAccessType: the tab named in the query string, or "created".
AccessTypeOf(u) == IF u.tab = "none" THEN "created" ELSE u.tab

\* The links of the tabs name the tab alone, so the page goes back to 1.
UrlOfTab(t) == [tab |-> t, page |-> 1]

\* The links to the pages name the page alone: this page passes no query
\* string to the pagination.
UrlOfPage(p) == [tab |-> "none", page |-> p]

\* The tabs, when they are drawn and none is named, push the default one.
Drawn(l, u) ==
  IF l # Off /\ ~l.loading /\ u.tab = "none" THEN [u EXCEPT !.tab = "created"] ELSE u

\* Whether a page of results is full.
Full(results) == results.query.page < LastPage

\* The page links: the first, the previous, the near ones, the next, the last.
PageLinks ==
  LET nPages == IF Full(list.results) THEN list.page + 1 ELSE list.page
  IN  {1, nPages} \cup {p \in (list.page - 2) .. (list.page + 2) : p > 0 /\ p <= nPages}

------------------------------------------------------------------------------
(* The context, which is external: a dispatch asks the server and the answer *)
(* replaces the results.                                                     *)

Selected == [accessType |-> list.accessType, scope |-> list.scope, page |-> list.page]

Settled == listDue = {}

CanAsk == Len(mineAsked) < MaxAsked

\* The contents of a list are followed for one query only: what the user created,
\* the first page.
CreatedQuery == [accessType |-> "created", scope |-> "self", page |-> 1]

Request(query) == [query |-> query, from |-> IF query = CreatedQuery THEN stored ELSE {}]

\* The list may differ from the selection after a request that failed, an
\* answer that overtook a later one, or a fetch by another component, until
\* the page asks again with nothing under way.
Disturb(why) == disturbed' = (disturbed \/ why)

------------------------------------------------------------------------------
(* The effects of a commit *)

\* (mutant of UrlEffect)
UrlEffectOfTab(l) ==
  IF "url" \in listDue THEN [l EXCEPT !.accessType = AccessTypeOf(url)] ELSE l
\* React to the query string.
UrlEffect(l) ==
  IF "url" \in listDue
  THEN [l EXCEPT !.page = url.page, !.accessType = AccessTypeOf(url)] ELSE l

\* React to the selection: ask for the list.
FetchEffect ==
  IF "query" \in listDue
  THEN /\ mineAsked' = Append(mineAsked, Request(Selected))
       /\ mine' = [mine EXCEPT !.isLoading = TRUE]
       /\ disturbed' = (disturbed /\ mineAsked # <<>>)
  ELSE UNCHANGED <<mineAsked, mine, disturbed>>

\* React to new results, on the state of the commit.
ResultsEffect(l) ==
  IF "results" \in listDue
  THEN [list EXCEPT !.loading = FALSE, !.results = mine.results] ELSE l

\* React to the context's isLoading, on the state of the commit.
LoadingEffect(l) ==
  IF "loading" \in listDue
  THEN [list EXCEPT !.loading = mine.isLoading, !.results = mine.results] ELSE l

\* (mutant of DueFor)
DueForTab(l) ==
  IF <<l.accessType, l.scope>> # <<list.accessType, list.scope>> THEN {"query"} ELSE {}
\* The dependencies that differ from one commit to the next.
DueFor(l) ==
  (IF <<l.accessType, l.scope, l.page>> # <<list.accessType, list.scope, list.page>>
   THEN {"query"} ELSE {})

RunListEffects ==
  /\ list # Off /\ listDue # {}
  /\ "query" \in listDue => CanAsk
  /\ FetchEffect
  /\ list' = LoadingEffect(ResultsEffect(UrlEffect(list)))
  /\ url' = Drawn(list', url)
  /\ listDue' = DueFor(list')
                \cup (IF mine'.isLoading # mine.isLoading THEN {"loading"} ELSE {})
                \cup (IF url' # url THEN {"url"} ELSE {})
  /\ UNCHANGED stored

------------------------------------------------------------------------------
(* Mounting *)

\* The page is mounted: every effect runs, on the results the context kept.
MountList(u) ==
  /\ list' = [loading |-> TRUE, accessType |-> AccessTypeOf(u), scope |-> "self",
              page |-> u.page, results |-> mine.results]
  /\ listDue' = {"url", "query", "results", "loading"}
  /\ url' = u

UnmountList ==
  /\ list' = Off
  /\ listDue' = {}
  /\ url' = [tab |-> "none", page |-> 1]

------------------------------------------------------------------------------
(* What the user does *)

\* The query string changes under the page.
Navigate(u) ==
  /\ url' = Drawn(list, u)
  /\ listDue' = IF u # url THEN {"url"} ELSE {}
  /\ UNCHANGED <<list, mine, mineAsked, stored, disturbed>>

\* While the page is loading there are neither tabs nor pages to click.
ClickTab(t) ==
  /\ list # Off /\ Settled /\ CanAsk
  /\ ~list.loading
  /\ Navigate(UrlOfTab(t))

ClickPage(p) ==
  /\ list # Off /\ Settled /\ CanAsk
  /\ ~list.loading
  /\ p \in PageLinks
  /\ Navigate(UrlOfPage(p))

\* The table has rows when it has results, and says so when it has none.
HasRows == list.results # NoResults

\* A row opens the detail of an Amphora over the page, without a query string.
ClickRow ==
  /\ list # Off /\ Settled /\ CanAsk
  /\ ~list.loading
  /\ HasRows
  /\ Navigate([tab |-> "none", page |-> 1])

\* The scope is there to toggle whether the page is loading or not.
SelectScope(s) ==
  /\ list # Off /\ Settled /\ CanAsk
  /\ list' = [list EXCEPT !.scope = s]
  /\ listDue' = IF s # list.scope THEN {"query"} ELSE {}
  /\ UNCHANGED <<url, mine, mineAsked, stored, disturbed>>

------------------------------------------------------------------------------
(* The answers *)

\* What the server may read between the request and its answer.
Reads(request) ==
  IF request.query = CreatedQuery
  THEN {has \in SUBSET stored : request.from \subseteq has} ELSE {{}}

\* The context sets isLoading, and the page's effects are due.
Tell(results, due) ==
  /\ mine' = [isLoading |-> FALSE, results |-> results]
  /\ listDue' = IF list = Off THEN {}
                ELSE due \cup (IF mine.isLoading THEN {"loading"} ELSE {})

\* Any request may be answered first.
AnswerList(i, has) ==
  /\ Settled
  /\ has \in Reads(mineAsked[i])
  /\ Tell([query |-> mineAsked[i].query, has |-> has], {"results"})
  /\ mineAsked' = Without(mineAsked, i)
  /\ Disturb(i # 1)
  /\ UNCHANGED <<url, list, stored>>

\* A request that fails leaves the results as they were.
FailList(i) ==
  /\ Settled
  /\ Tell(mine.results, {})
  /\ mineAsked' = Without(mineAsked, i)
  /\ Disturb(TRUE)
  /\ UNCHANGED <<url, list, stored>>

ListAnswers ==
  \E i \in DOMAIN mineAsked :
    \/ \E has \in SUBSET stored : AnswerList(i, has)
    \/ FailList(i)

ListUser ==
  \/ \E t \in AccessTypes : ClickTab(t)
  \/ \E p \in Pages : ClickPage(p)
  \/ ClickRow
  \/ \E s \in Scopes : SelectScope(s)

ListInit ==
  /\ url = [tab |-> "none", page |-> 1]
  /\ list = Off
  /\ listDue = {}
  /\ mine = [isLoading |-> FALSE, results |-> NoResults]
  /\ mineAsked = <<>>
  /\ stored = {}
  /\ disturbed = FALSE

------------------------------------------------------------------------------
(* What the page promises *)

\* When its effects have run, the page is on the tab and the page the query
\* string names: no effect writes a state of an earlier commit over them.
UrlIsSelected ==
  list # Off /\ Settled =>
    list.accessType = AccessTypeOf(url) /\ list.page = url.page

\* With no request under way, the page shows the answer to what is selected,
\* unless a request failed, an answer was overtaken or another component
\* fetched something else since the page last asked.
ListIsSelected ==
  list # Off /\ Settled /\ mineAsked = <<>> /\ ~disturbed =>
    ~list.loading /\ list.results.query = Selected

\* Address, tab and list say one thing, and the list holds its answer.
SelectedIsShown == UrlIsSelected /\ ListIsSelected
==============================================================================

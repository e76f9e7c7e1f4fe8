--------------------------- MODULE BrowsingProofs ----------------------------
(***************************************************************************)
(* Proofs about the pages of Browsing: what each shows, opens on or sends, *)
(* for any number of requests under way, answered in any order or lost.    *)
(***************************************************************************)
EXTENDS Browsing, FiniteSetTheorems, SequenceTheorems, WellFoundedInduction, TLAPS

\* A step of the client is a step of the page that is visited, and of no other.
LEMMA PageSteps ==
  [Next]_browsingVars =>
    /\ LibraryNext \/ UNCHANGED libraryVars
    /\ SearchNext \/ UNCHANGED searchVars
    /\ FormNext \/ UNCHANGED formVars
    /\ EditingNext \/ UNCHANGED editingVars
    /\ MapNext \/ UNCHANGED mapVars
    /\ SignalNext \/ UNCHANGED signalVars
    /\ ChartNext \/ UNCHANGED chartVars
    /\ SchemeNext \/ UNCHANGED schemeVars
    /\ BoxNext \/ UNCHANGED boxVars
    /\ CloudPageNext \/ UNCHANGED pageVars
  <1> SUFFICES ASSUME [Next]_browsingVars
               PROVE  /\ LibraryNext \/ UNCHANGED libraryVars
                      /\ SearchNext \/ UNCHANGED searchVars
                      /\ FormNext \/ UNCHANGED formVars
                      /\ EditingNext \/ UNCHANGED editingVars
                      /\ MapNext \/ UNCHANGED mapVars
                      /\ SignalNext \/ UNCHANGED signalVars
                      /\ ChartNext \/ UNCHANGED chartVars
                      /\ SchemeNext \/ UNCHANGED schemeVars
                      /\ BoxNext \/ UNCHANGED boxVars
                      /\ CloudPageNext \/ UNCHANGED pageVars
    OBVIOUS
  <1>. QED
    BY DEF Next, Visit, browsingVars, OffLibrary, OffSearch, OffCreate, OffDetail, OffMap,
           OffSignals, OffChart, OffColours, OffBox, OffCloud

------------------------------------------------------------------------------
(* Requests under way *)

\* The request that was sent last.
Latest(s) == s[Len(s)]

\* A sequence without one of its elements: those behind it move up.
LEMMA WithoutOne ==
  ASSUME NEW T, NEW s \in Seq(T), NEW i \in DOMAIN s
  PROVE  /\ Without(s, i) \in Seq(T)
         /\ Len(Without(s, i)) = Len(s) - 1
         /\ \A j \in 1 .. Len(s) - 1 : Without(s, i)[j] = IF j < i THEN s[j] ELSE s[j + 1]
  <1>1. /\ Len(s) \in Nat /\ DOMAIN s = 1 .. Len(s) /\ i \in 1 .. Len(s)
        /\ \A j \in 1 .. Len(s) : s[j] \in T
    BY LenProperties, ElementOfSeq
  <1> DEFINE before == SubSeq(s, 1, i - 1)
             after == SubSeq(s, i + 1, Len(s))
  <1>2. /\ before \in Seq(T) /\ Len(before) = i - 1
        /\ \A j \in 1 .. i - 1 : before[j] = s[j]
    BY <1>1, SubSeqProperties
  <1>3. /\ after \in Seq(T) /\ Len(after) = Len(s) - i
        /\ \A j \in 1 .. Len(s) - i : after[j] = s[j + i]
    <2>1. i + 1 \in Int /\ Len(s) \in Int /\ \A j \in i + 1 .. Len(s) : s[j] \in T
      BY <1>1
    <2>2. /\ after \in Seq(T)
          /\ Len(after) = IF i + 1 <= Len(s) THEN Len(s) - (i + 1) + 1 ELSE 0
          /\ \A j \in 1 .. Len(s) - (i + 1) + 1 : after[j] = s[i + 1 + j - 1]
      BY <2>1, SubSeqProperties
    <2>3. Len(after) = Len(s) - i
      BY <1>1, <2>2
    <2>4. ASSUME NEW j \in 1 .. Len(s) - i PROVE after[j] = s[j + i]
      <3>1. j \in 1 .. Len(s) - (i + 1) + 1 /\ i + 1 + j - 1 = j + i
        BY <1>1
      <3>. QED BY <2>2, <3>1
    <2>. QED BY <2>2, <2>3, <2>4
  <1> HIDE DEF before, after
  <1>4. /\ before \o after \in Seq(T)
        /\ Len(before \o after) = Len(before) + Len(after)
        /\ \A j \in 1 .. Len(before) + Len(after) :
             (before \o after)[j] = IF j <= Len(before) THEN before[j] ELSE after[j - Len(before)]
    BY <1>2, <1>3, ConcatProperties
  <1>5. Without(s, i) = before \o after
    BY DEF Without, before, after
  <1>6. ASSUME NEW j \in 1 .. Len(s) - 1
        PROVE  (before \o after)[j] = IF j < i THEN s[j] ELSE s[j + 1]
    <2>1. j \in 1 .. Len(before) + Len(after)
      BY <1>1, <1>2, <1>3
    <2>2. CASE j < i
      BY <1>1, <1>2, <1>4, <2>1, <2>2
    <2>3. CASE ~(j < i)
      <3>1. j - Len(before) \in 1 .. Len(s) - i /\ ~(j <= Len(before))
            /\ j - Len(before) + i = j + 1
        BY <1>1, <1>2, <2>3
      <3>2. (before \o after)[j] = after[j - Len(before)]
        BY <1>4, <2>1, <3>1
      <3>3. after[j - Len(before)] = s[j - Len(before) + i]
        BY <1>3, <3>1
      <3>4. s[j - Len(before) + i] = s[j + 1]
        BY <3>1
      <3>. QED BY <2>3, <3>2, <3>3, <3>4
    <2>. QED BY <2>2, <2>3
  <1>7. Len(before) + Len(after) = Len(s) - 1
    BY <1>1, <1>2, <1>3
  <1>8. \A j \in 1 .. Len(s) - 1 : (before \o after)[j] = IF j < i THEN s[j] ELSE s[j + 1]
    BY <1>6
  <1>. QED BY <1>4, <1>5, <1>7, <1>8

\* The oldest of several leaves the latest; the only one leaves none.
LEMMA WithoutOldest ==
  ASSUME NEW T, NEW s \in Seq(T), 1 \in DOMAIN s
  PROVE  IF Len(s) = 1 THEN Without(s, 1) = <<>>
         ELSE Without(s, 1) # <<>> /\ Latest(Without(s, 1)) = Latest(s)
  <1>1. Len(s) \in Nat /\ DOMAIN s = 1 .. Len(s)
    BY LenProperties
  <1>2. Without(s, 1) \in Seq(T) /\ Len(Without(s, 1)) = Len(s) - 1
        /\ \A j \in 1 .. Len(s) - 1 : Without(s, 1)[j] = IF j < 1 THEN s[j] ELSE s[j + 1]
    BY WithoutOne
  <1>3. Len(s) = 1 => Without(s, 1) = <<>>
    BY <1>2, EmptySeq
  <1>4. Len(s) # 1 => Without(s, 1) # <<>> /\ Latest(Without(s, 1)) = Latest(s)
    BY <1>1, <1>2, EmptySeq DEF Latest
  <1>. QED BY <1>3, <1>4

\* One more is the latest.
LEMMA OneMore ==
  ASSUME NEW T, NEW s \in Seq(T), NEW x \in T
  PROVE  /\ Append(s, x) \in Seq(T) /\ Append(s, x) # <<>>
         /\ Len(Append(s, x)) = Len(s) + 1 /\ Latest(Append(s, x)) = x
         /\ \A j \in 1 .. Len(s) : Append(s, x)[j] = s[j]
  BY DEF Latest

------------------------------------------------------------------------------
(* The page "Search" *)

SearchQueries == [term : SearchTerms, page : 0 .. MaxPages]

SearchType ==
  /\ findUrl \in [term : SearchTerms, page : SearchPages]
  /\ find # Off => find \in [loading : BOOLEAN, term : SearchTerms, page : SearchPages,
                             results : SearchQueries]
  /\ findDue \subseteq {"page", "query", "results"}
  /\ found \in [isLoading : BOOLEAN, results : SearchQueries]
  /\ findAsked \in Seq(SearchQueries)
  /\ findLed \in BOOLEAN

\* The term is that of the query string, unless that was led away, and the page is, or
\* is about to be; what is searched for is asked last, or what was found, or is about
\* to be asked; and the page shows what was found, or is about to.
SearchInv ==
  find # Off =>
    /\ ~findLed => find.term = findUrl.term
    /\ "page" \notin findDue => find.page = findUrl.page
    /\ "query" \notin findDue /\ ~findDisturbed =>
         Query = IF findAsked = <<>> THEN found.results ELSE Latest(findAsked)
    /\ "results" \notin findDue => find.results = found.results

\* A step of the search keeps its invariant,
LEMMA SearchStep ==
  ASSUME SearchType, SearchInv, SearchNext
  PROVE  SearchType' /\ SearchInv'
  <1>0. MaxPages \in Nat /\ 1 \in SearchPages /\ SearchPages \subseteq 0 .. MaxPages
        /\ EmptyTerm \in SearchTerms
    BY SearchAssumption DEF SearchPages
  <1>1. ASSUME NEW t \in SearchTerms, SetTerm(t) PROVE SearchType' /\ SearchInv'
    BY <1>0, <1>1 DEF SearchType, SearchInv, SetTerm, SearchDue, FindSettled, Query
  <1>2. ASSUME NEW p \in SearchPages, ClickFindPage(p) PROVE SearchType' /\ SearchInv'
    BY <1>0, <1>2 DEF SearchType, SearchInv, ClickFindPage, FindSettled, Query, ShowsRows
  <1>3. ASSUME NEW u \in [term : SearchTerms, page : SearchPages], OpenFind(u)
        PROVE  SearchType' /\ SearchInv'
    <2>1. /\ find' = [loading |-> TRUE, term |-> u.term, page |-> u.page, results |-> NothingFound]
          /\ findUrl' = u /\ findLed' = FALSE /\ findDue' = {"page", "query", "results"}
          /\ found' = found /\ findAsked' = findAsked
      BY <1>3 DEF OpenFind, MountFind
    <2>2. /\ u.term \in SearchTerms /\ u.page \in SearchPages
          /\ NothingFound \in SearchQueries
      BY <1>0 DEF NothingFound, SearchQueries
    <2>3. find'.term = u.term
      BY <2>1
    <2>4. SearchType'
      BY <2>1, <2>2 DEF SearchType
    <2>. QED BY <2>1, <2>3, <2>4 DEF SearchInv
  <1>4. CASE CloseFind
    BY <1>4 DEF SearchType, SearchInv, CloseFind
  <1>5. ASSUME NEW i \in DOMAIN findAsked, AnswerSearch(i) PROVE SearchType' /\ SearchInv'
    <2>1. /\ findAsked \in Seq(SearchQueries) /\ findAsked[i] \in SearchQueries
          /\ findAsked' = Without(findAsked, i) /\ findAsked' \in Seq(SearchQueries)
          /\ DOMAIN findAsked = 1 .. Len(findAsked)
      BY <1>5, WithoutOne, ElementOfSeq, LenProperties DEF SearchType, AnswerSearch
    <2>2. SearchType'
      BY <1>5, <2>1 DEF SearchType, AnswerSearch
    <2>3. i = 1 => IF findAsked' = <<>> THEN Latest(findAsked) = findAsked[1]
                   ELSE Latest(findAsked') = Latest(findAsked)
      BY <2>1, WithoutOldest DEF Latest
    <2>4. findAsked # <<>>
      BY <1>5, <2>1
    <2>5. SearchInv'
      BY <1>5, <2>3, <2>4 DEF SearchInv, AnswerSearch, FindSettled, Query
    <2>. QED BY <2>2, <2>5
  <1>6. ASSUME NEW i \in DOMAIN findAsked, FailSearch(i) PROVE SearchType' /\ SearchInv'
    <2>1. findAsked' \in Seq(SearchQueries)
      BY <1>6, WithoutOne DEF SearchType, FailSearch
    <2>. QED BY <1>6, <2>1 DEF SearchType, SearchInv, FailSearch, FindSettled, Query
  <1>7. CASE RunFindEffects
    <2>1. /\ find # Off /\ find \in [loading : BOOLEAN, term : SearchTerms, page : SearchPages,
                                     results : SearchQueries]
          /\ findUrl' = findUrl /\ findLed' = findLed
          /\ Query \in SearchQueries
      BY <1>0, <1>7 DEF RunFindEffects, SearchType, Query, SearchQueries
    <2>2. /\ find' \in [loading : BOOLEAN, term : SearchTerms, page : SearchPages,
                        results : SearchQueries]
          /\ find'.term = find.term
          /\ find'.page = IF findDue \cap {"query", "results"} = {} THEN findUrl.page
                          ELSE find.page
          /\ find'.results = IF "results" \in findDue THEN found.results ELSE find.results
      BY <1>7, <2>1 DEF RunFindEffects, FoundEffect, ExecuteEffect, PageEffect, SearchType
    <2>3. /\ found'.results = found.results /\ found' \in [isLoading : BOOLEAN, results : SearchQueries]
          /\ "query" \in findDue => findAsked' = Append(findAsked, Query)
          /\ "query" \notin findDue => /\ findAsked' = findAsked
                                       /\ findDisturbed' = findDisturbed
      BY <1>7 DEF RunFindEffects, Execute, SearchType
    <2>4. "query" \in findDue => /\ findAsked' \in Seq(SearchQueries) /\ findAsked' # <<>>
                                 /\ Latest(findAsked') = Query
      <3>1. findAsked \in Seq(SearchQueries)
        BY DEF SearchType
      <3>2. /\ Append(findAsked, Query) \in Seq(SearchQueries) /\ Append(findAsked, Query) # <<>>
            /\ Latest(Append(findAsked, Query)) = Query
        BY <2>1, <3>1, OneMore
      <3>. QED BY <2>3, <3>2
    <2>5. /\ findDue' \subseteq {"page", "query"}
          /\ "query" \notin findDue' => find'.page = find.page /\ find'.term = find.term
          /\ "page" \notin findDue' => find'.page = findUrl.page
      BY <1>7 DEF RunFindEffects, SearchDue
    <2>6. "query" \notin findDue' => Query' = Query
      BY <2>5 DEF Query
    <2>7. SearchType'
      BY <2>1, <2>2, <2>3, <2>4, <2>5 DEF SearchType
    <2>. QED BY <2>1, <2>2, <2>3, <2>4, <2>5, <2>6, <2>7 DEF SearchInv
  <1>8. ASSUME NEW u \in [term : SearchTerms, page : SearchPages], FollowLink(u)
        PROVE  SearchType' /\ SearchInv'
    BY <1>0, <1>8 DEF SearchType, SearchInv, FollowLink, FindSettled, Query
  <1>. QED BY <1>1, <1>2, <1>3, <1>4, <1>5, <1>6, <1>7, <1>8
           DEF SearchNext, SearchUser, SearchAnswers

\* which says that what is found is what was searched.
LEMMA SearchFound == SearchType /\ SearchInv => FoundIsSearched
  BY DEF SearchType, SearchInv, FoundIsSearched, FindSettled, Query

------------------------------------------------------------------------------
(* The page "My Amphora" and the creation of an Amphora *)

Urls == [tab : AccessTypes \cup {"none"}, page : Pages]
Results == [query : Queries \cup {NoQuery}, has : SUBSET Creations]
Requests == [query : Queries, from : SUBSET Creations]

ListType ==
  /\ url \in Urls
  /\ list # Off => list \in [loading : BOOLEAN, accessType : AccessTypes, scope : Scopes,
                             page : Pages, results : Results]
  /\ listDue \subseteq {"url", "query", "results", "loading"}
  /\ mine \in [isLoading : BOOLEAN, results : Results]
  /\ mineAsked \in Seq(Requests)
  /\ stored \subseteq Creations
  /\ shouldList \subseteq stored

\* The page is where the query string is, unless that alone has changed: an effect
\* that writes the state of the commit over what the query string's effect set
\* runs beside it only when there was nothing to set.
UrlInv ==
  list # Off => \/ list.accessType = AccessTypeOf(url) /\ list.page = url.page
                \/ listDue = {"url"}

\* The context loads only while it asks; the page loads with it, or is about to be
\* told; it has the context's results, or is about to; and what is selected was asked
\* for last, or is what the context has, or is about to be asked for.
ListInv ==
  /\ mineAsked = <<>> => ~mine.isLoading
  /\ list # Off =>
       /\ list.loading => mine.isLoading \/ "loading" \in listDue \/ "results" \in listDue
       /\ "results" \notin listDue => list.results = mine.results
       /\ ~disturbed /\ "query" \notin listDue =>
            Selected = IF mineAsked = <<>> THEN mine.results.query
                       ELSE Latest(mineAsked).query

\* What should be listed was stored before the user's own list was asked for last, or
\* is in it.
CreatedInv ==
  ~disturbed =>
    IF mineAsked = <<>>
    THEN mine.results.query = CreatedQuery => shouldList \subseteq mine.results.has
    ELSE Latest(mineAsked).query = CreatedQuery => shouldList \subseteq Latest(mineAsked).from

LibraryInv == ListType /\ UrlInv /\ ListInv /\ CreatedInv

\* The page opens on a query string.
LEMMA MountStep ==
  ASSUME ListType, ListInv, NEW u \in Urls, MountList(u)
  PROVE  /\ url' \in Urls
         /\ list' \in [loading : BOOLEAN, accessType : AccessTypes, scope : Scopes,
                       page : Pages, results : Results]
         /\ list'.accessType = AccessTypeOf(url') /\ list'.page = url'.page
         /\ listDue' = {"url", "query", "results", "loading"}
  BY DEF MountList, ListType, Urls, AccessTypeOf, AccessTypes, Scopes

\* What the user does on the page.
LEMMA ListUserStep ==
  ASSUME LibraryInv, ListUser, UNCHANGED <<writing, creationVars>>
  PROVE  LibraryInv'
  <1>1. list # Off /\ listDue = {} /\ ListType /\ UrlInv /\ ListInv /\ CreatedInv
        /\ UNCHANGED <<mine, mineAsked, stored, disturbed, shouldList>>
    BY DEF ListUser, ClickTab, ClickPage, ClickRow, SelectScope, Navigate, Settled,
           LibraryInv, creationVars
  <1>2. ASSUME NEW u \in Urls, Navigate(u) PROVE LibraryInv'
    <2>1. /\ list' = list /\ url' \in Urls
          /\ listDue' \in {{}, {"url"}}
          /\ listDue' = {} => u = url /\ AccessTypeOf(url') = AccessTypeOf(url)
                              /\ url'.page = url.page
      BY <1>1, <1>2 DEF Navigate, Drawn, Urls, AccessTypes, AccessTypeOf, ListType
    <2>2. ListType' /\ UrlInv'
      BY <1>1, <2>1 DEF ListType, UrlInv
    <2>3. ListInv'
      BY <1>1, <2>1 DEF ListInv, Selected
    <2>4. CreatedInv'
      BY <1>1 DEF CreatedInv
    <2>. QED BY <2>2, <2>3, <2>4 DEF LibraryInv
  <1>3. ASSUME NEW s \in Scopes, SelectScope(s) PROVE LibraryInv'
    <2>1. /\ list' \in [loading : BOOLEAN, accessType : AccessTypes, scope : Scopes,
                        page : Pages, results : Results]
          /\ list' = [list EXCEPT !.scope = s] /\ url' = url
          /\ listDue' \in {{}, {"query"}}
          /\ listDue' = {} => list'.scope = list.scope
      BY <1>1, <1>3 DEF SelectScope, ListType
    <2>2. ListType' /\ UrlInv'
      BY <1>1, <2>1 DEF ListType, UrlInv
    <2>3. ListInv'
      BY <1>1, <2>1 DEF ListInv, Selected, ListType
    <2>4. CreatedInv'
      BY <1>1 DEF CreatedInv
    <2>. QED BY <2>2, <2>3, <2>4 DEF LibraryInv
  <1>4. ASSUME NEW t \in AccessTypes, ClickTab(t) PROVE LibraryInv'
    <2>1. UrlOfTab(t) \in Urls
      BY CollectionAssumption DEF UrlOfTab, Urls, Pages
    <2>. QED BY <1>2, <1>4, <2>1 DEF ClickTab
  <1>5. ASSUME NEW p \in Pages, ClickPage(p) PROVE LibraryInv'
    <2>1. UrlOfPage(p) \in Urls
      BY DEF UrlOfPage, Urls
    <2>. QED BY <1>2, <1>5, <2>1 DEF ClickPage
  <1>6. CASE ClickRow
    <2>1. [tab |-> "none", page |-> 1] \in Urls
      BY CollectionAssumption DEF Urls, Pages
    <2>. QED BY <1>2, <1>6, <2>1 DEF ClickRow
  <1>. QED BY <1>3, <1>4, <1>5, <1>6 DEF ListUser

\* The effects of a commit of the page.
LEMMA ListEffectsStep ==
  ASSUME LibraryInv, RunListEffects, UNCHANGED <<writing, creationVars>>
  PROVE  LibraryInv'
  <1>1. /\ list # Off /\ ListType /\ UrlInv /\ ListInv /\ CreatedInv
        /\ UNCHANGED <<stored, shouldList>> /\ stored \subseteq Creations
        /\ shouldList \subseteq stored
        /\ list \in [loading : BOOLEAN, accessType : AccessTypes, scope : Scopes,
                     page : Pages, results : Results]
        /\ mine \in [isLoading : BOOLEAN, results : Results]
        /\ url \in Urls
        /\ Selected \in Queries
        /\ mineAsked \in Seq(Requests)
    BY DEF RunListEffects, LibraryInv, creationVars, ListType, Selected, Queries
  <1>2. /\ Append(mineAsked, Request(Selected)) \in Seq(Requests)
        /\ Append(mineAsked, Request(Selected)) # <<>>
        /\ Latest(Append(mineAsked, Request(Selected))) = Request(Selected)
        /\ Request(Selected).query = Selected
        /\ Selected = CreatedQuery => Request(Selected).from = stored
    <2>1. Request(Selected) \in Requests
      BY <1>1 DEF Request, Requests
    <2>2. /\ Request(Selected).query = Selected
          /\ Selected = CreatedQuery => Request(Selected).from = stored
      BY DEF Request
    <2>. QED BY <1>1, <2>1, <2>2, OneMore
  <1>3. /\ mine' \in [isLoading : BOOLEAN, results : Results] /\ mine'.results = mine.results
        /\ mine.isLoading => mine'.isLoading
        /\ "query" \in listDue => /\ mineAsked' = Append(mineAsked, Request(Selected))
                                  /\ mine'.isLoading
        /\ "query" \notin listDue => UNCHANGED <<mineAsked, mine, disturbed>>
    BY <1>1 DEF RunListEffects, FetchEffect
  <1>4. /\ list' \in [loading : BOOLEAN, accessType : AccessTypes, scope : Scopes,
                      page : Pages, results : Results]
        /\ list'.scope = list.scope
        /\ IF listDue = {"url"}
           THEN list'.accessType = AccessTypeOf(url) /\ list'.page = url.page
           ELSE \/ list'.accessType = list.accessType /\ list'.page = list.page
                \/ "url" \in listDue
                   /\ list'.accessType = AccessTypeOf(url) /\ list'.page = url.page
        /\ list'.results = IF {"results", "loading"} \cap listDue = {} THEN list.results
                           ELSE mine.results
        /\ list'.loading = IF "loading" \in listDue THEN mine.isLoading
                           ELSE IF "results" \in listDue THEN FALSE ELSE list.loading
    <2> DEFINE Lists == [loading : BOOLEAN, accessType : AccessTypes, scope : Scopes,
                         page : Pages, results : Results]
               u == UrlEffect(list)
               r == ResultsEffect(u)
    <2>1. AccessTypeOf(url) \in AccessTypes /\ url.page \in Pages
      BY <1>1 DEF AccessTypeOf, Urls, AccessTypes
    <2>2. /\ u \in Lists /\ u.scope = list.scope
          /\ u.results = list.results /\ u.loading = list.loading
          /\ IF "url" \in listDue THEN u.accessType = AccessTypeOf(url) /\ u.page = url.page
             ELSE u.accessType = list.accessType /\ u.page = list.page
      BY <1>1, <2>1 DEF UrlEffect
    <2> HIDE DEF u
    <2>3. r = IF "results" \in listDue
              THEN [list EXCEPT !.loading = FALSE, !.results = mine.results] ELSE u
      BY DEF ResultsEffect
    <2> HIDE DEF r
    <2>4. list' = IF "loading" \in listDue
                  THEN [list EXCEPT !.loading = mine.isLoading, !.results = mine.results] ELSE r
      BY DEF RunListEffects, LoadingEffect, r, u
    <2>5. CASE "loading" \in listDue
      BY <1>1, <2>4, <2>5
    <2>6. CASE "loading" \notin listDue /\ "results" \in listDue
      BY <1>1, <2>3, <2>4, <2>6
    <2>7. CASE "loading" \notin listDue /\ "results" \notin listDue
      BY <2>2, <2>3, <2>4, <2>7
    <2>. QED BY <2>5, <2>6, <2>7
  <1>5. /\ url' \in Urls /\ AccessTypeOf(url') = AccessTypeOf(url) /\ url'.page = url.page
    BY <1>1, <1>4 DEF RunListEffects, Drawn, AccessTypeOf, Urls, AccessTypes
  <1>6. /\ listDue' \subseteq {"url", "query", "loading"}
        /\ "query" \notin listDue' => /\ list'.accessType = list.accessType
                                      /\ list'.scope = list.scope /\ list'.page = list.page
    BY DEF RunListEffects, DueFor
  <1>7. ListType'
    BY <1>1, <1>2, <1>3, <1>4, <1>5, <1>6 DEF ListType
  <1>8. UrlInv'
    <2>1. list'.accessType = AccessTypeOf(url) /\ list'.page = url.page
      BY <1>1, <1>4 DEF UrlInv
    <2>. QED BY <1>5, <2>1 DEF UrlInv
  <1>9. ListInv'
    <2>1. mineAsked' = <<>> => ~mine'.isLoading
      BY <1>1, <1>2, <1>3 DEF ListInv
    <2>2. list'.loading => mine'.isLoading
      BY <1>1, <1>3, <1>4 DEF ListInv
    <2>3. list'.results = mine'.results
      BY <1>1, <1>3, <1>4 DEF ListInv
    <2>4. "query" \notin listDue' => Selected' = Selected
      BY <1>6 DEF Selected
    <2>5. ASSUME ~disturbed', "query" \notin listDue'
          PROVE  Selected' = IF mineAsked' = <<>> THEN mine'.results.query
                             ELSE Latest(mineAsked').query
      <3>1. CASE "query" \in listDue
        BY <1>2, <1>3, <2>4, <2>5, <3>1
      <3>2. CASE "query" \notin listDue
        BY <1>1, <1>3, <2>4, <2>5, <3>2 DEF ListInv
      <3>. QED BY <3>1, <3>2
    <2>. QED BY <2>1, <2>2, <2>3, <2>5 DEF ListInv
  <1>10. CreatedInv'
    <2>1. CASE "query" \in listDue
      BY <1>1, <1>2, <1>3, <2>1 DEF CreatedInv
    <2>2. CASE "query" \notin listDue
      BY <1>1, <1>3, <2>2 DEF CreatedInv
    <2>. QED BY <2>1, <2>2
  <1>. QED BY <1>7, <1>8, <1>9, <1>10 DEF LibraryInv

\* A request is answered, or fails.
LEMMA ListAnswersStep ==
  ASSUME LibraryInv, ListAnswers, UNCHANGED <<writing, creationVars>>
  PROVE  LibraryInv'
  <1>1. /\ ListType /\ UrlInv /\ ListInv /\ CreatedInv
        /\ UNCHANGED <<url, list, stored, shouldList>>
        /\ listDue = {}
        /\ mine \in [isLoading : BOOLEAN, results : Results]
        /\ mineAsked \in Seq(Requests) /\ stored \subseteq Creations
        /\ shouldList \subseteq stored
    BY DEF ListAnswers, AnswerList, FailList, Settled, LibraryInv, creationVars, ListType
  <1>2. PICK i \in DOMAIN mineAsked :
          (\E has \in SUBSET stored : AnswerList(i, has)) \/ FailList(i)
    BY DEF ListAnswers
  <1>3. /\ mineAsked[i] \in Requests /\ Without(mineAsked, i) \in Seq(Requests)
        /\ mineAsked' = Without(mineAsked, i) /\ mineAsked # <<>>
        /\ i = 1 => IF mineAsked' = <<>> THEN Latest(mineAsked) = mineAsked[1]
                    ELSE Latest(mineAsked') = Latest(mineAsked)
    <2>1. /\ mineAsked[i] \in Requests /\ Without(mineAsked, i) \in Seq(Requests)
          /\ mineAsked # <<>> /\ Len(mineAsked) \in Nat /\ DOMAIN mineAsked = 1 .. Len(mineAsked)
      BY <1>1, WithoutOne, ElementOfSeq, LenProperties
    <2>2. mineAsked' = Without(mineAsked, i)
      BY <1>2 DEF AnswerList, FailList
    <2>3. i = 1 => IF Len(mineAsked) = 1 THEN Without(mineAsked, i) = <<>>
                   ELSE Without(mineAsked, i) # <<>>
                        /\ Latest(Without(mineAsked, i)) = Latest(mineAsked)
      BY <1>1, WithoutOldest
    <2>. QED BY <2>1, <2>2, <2>3 DEF Latest
  <1>4. CASE FailList(i)
    <2>1. /\ mine' = [isLoading |-> FALSE, results |-> mine.results]
          /\ listDue' = IF list # Off /\ mine.isLoading THEN {"loading"} ELSE {}
          /\ disturbed'
      BY <1>4 DEF FailList, Tell, Disturb
    <2>2. ListType'
      BY <1>1, <1>3, <2>1 DEF ListType
    <2>3. UrlInv' /\ CreatedInv'
      BY <1>1, <2>1 DEF UrlInv, CreatedInv
    <2>4. ListInv'
      BY <1>1, <2>1 DEF ListInv
    <2>. QED BY <2>2, <2>3, <2>4 DEF LibraryInv
  <1>5. ASSUME NEW has \in SUBSET stored, AnswerList(i, has) PROVE LibraryInv'
    <2>1. /\ mine' = [isLoading |-> FALSE, results |-> [query |-> mineAsked[i].query, has |-> has]]
          /\ listDue' \subseteq {"results", "loading"}
          /\ list # Off => "results" \in listDue'
          /\ disturbed' = (disturbed \/ i # 1)
          /\ mineAsked[i].query = CreatedQuery => mineAsked[i].from \subseteq has
      BY <1>5 DEF AnswerList, Tell, Disturb, Reads
    <2>2. mine' \in [isLoading : BOOLEAN, results : Results]
      BY <1>1, <1>3, <2>1 DEF Results, Requests
    <2>3. ListType'
      BY <1>1, <1>3, <2>1, <2>2 DEF ListType
    <2>4. UrlInv'
      BY <1>1 DEF UrlInv
    <2>5. ListInv'
      BY <1>1, <1>3, <2>1 DEF ListInv, Selected
    <2>6. CreatedInv'
      BY <1>1, <1>3, <2>1 DEF CreatedInv
    <2>. QED BY <2>3, <2>4, <2>5, <2>6 DEF LibraryInv
  <1>. QED BY <1>2, <1>4, <1>5

\* Pages are opened and left, and Amphorae are created.
LEMMA CreationStep ==
  ASSUME LibraryInv,
         \/ \E u \in [tab : {"none", "purchased"}, page : Pages] : OpenList(u)
         \/ OpenCreate \/ Leave
         \/ \E c \in Creations : CreateAmphora(c)
         \/ CreationSteps
  PROVE  LibraryInv'
  <1>0. ListType /\ UrlInv /\ ListInv /\ CreatedInv
    BY DEF LibraryInv
  <1>1. ASSUME NEW u \in Urls, MountList(u), UNCHANGED <<mine, mineAsked, stored, disturbed, shouldList>>
        PROVE  LibraryInv'
    <2>1. /\ url' \in Urls
          /\ list' \in [loading : BOOLEAN, accessType : AccessTypes, scope : Scopes,
                        page : Pages, results : Results]
          /\ list'.accessType = AccessTypeOf(url') /\ list'.page = url'.page
          /\ listDue' = {"url", "query", "results", "loading"}
      BY <1>0, <1>1, MountStep
    <2>2. ListType'
      BY <1>0, <1>1, <2>1 DEF ListType
    <2>3. UrlInv'
      BY <2>1 DEF UrlInv
    <2>4. ListInv' /\ CreatedInv'
      BY <1>0, <1>1, <2>1 DEF ListInv, CreatedInv
    <2>. QED BY <2>2, <2>3, <2>4 DEF LibraryInv
  <1>2. ASSUME NEW u \in [tab : {"none", "purchased"}, page : Pages], OpenList(u)
        PROVE  LibraryInv'
    BY <1>1, <1>2 DEF OpenList, creationVars, Urls, AccessTypes
  <1>3. ASSUME NEW c \in Creations, CreateAmphora(c) PROVE LibraryInv'
    <2>1. AtList \in Urls
      BY CollectionAssumption DEF AtList, Urls, Pages
    <2>. QED BY <1>1, <1>3, <2>1 DEF CreateAmphora
  <1>4. CASE OpenCreate
    <2>1. UNCHANGED <<collectionVars, shouldList>>
      BY <1>4 DEF OpenCreate, creationVars
    <2>. QED BY <1>0, <2>1 DEF LibraryInv, ListType, UrlInv, ListInv, CreatedInv, Selected,
                               collectionVars
  <1>5. CASE Leave
    <2>1. /\ list' = Off /\ listDue' = {} /\ url' = [tab |-> "none", page |-> 1]
          /\ UNCHANGED <<mine, mineAsked, stored, disturbed, shouldList>>
      BY <1>5 DEF Leave, UnmountList, creationVars
    <2>2. url' \in Urls
      BY <2>1, CollectionAssumption DEF Urls, Pages
    <2>. QED BY <1>0, <2>1, <2>2 DEF LibraryInv, ListType, UrlInv, ListInv, CreatedInv
  <1>6. ASSUME NEW c \in Creations, StoreAmphora(c) PROVE LibraryInv'
    <2>1. /\ stored' = stored \cup {c}
          /\ UNCHANGED <<url, list, listDue, mine, mineAsked, disturbed, shouldList>>
      BY <1>6 DEF StoreAmphora, creationVars
    <2>. QED BY <1>0, <2>1 DEF LibraryInv, ListType, UrlInv, ListInv, CreatedInv, Selected
  <1>7. ASSUME NEW c \in Creations, AnswerCreation(c) PROVE LibraryInv'
    <2>1. UNCHANGED <<collectionVars, shouldList>>
      BY <1>7 DEF AnswerCreation
    <2>. QED BY <1>0, <2>1 DEF LibraryInv, ListType, UrlInv, ListInv, CreatedInv, Selected,
                               collectionVars
  <1>8. ASSUME NEW c \in Creations, Timer(c) PROVE LibraryInv'
    <2>1. /\ mineAsked' = Append(mineAsked, Request(CreatedQuery))
          /\ mine' = [mine EXCEPT !.isLoading = TRUE]
          /\ listDue = {} /\ listDue' \subseteq {"loading"}
          /\ disturbed' = (disturbed \/ (list # Off /\ Selected # CreatedQuery))
          /\ shouldList' = shouldList \cup (created \cap stored)
          /\ UNCHANGED <<url, list, stored>>
      BY <1>8 DEF Timer, Disturb, Settled
    <2>2. /\ Request(CreatedQuery) = [query |-> CreatedQuery, from |-> stored]
          /\ Request(CreatedQuery) \in Requests
      BY <1>0, CollectionAssumption DEF Request, Requests, CreatedQuery, Queries, AccessTypes,
                                        Scopes, Pages, ListType
    <2>3. mineAsked \in Seq(Requests) /\ mine \in [isLoading : BOOLEAN, results : Results]
          /\ stored \subseteq Creations /\ shouldList \subseteq stored
      BY <1>0 DEF ListType
    <2>4. /\ mineAsked' \in Seq(Requests) /\ mineAsked' # <<>>
          /\ Latest(mineAsked') = [query |-> CreatedQuery, from |-> stored]
      BY <2>1, <2>2, <2>3, OneMore
    <2>5. ListType'
      BY <1>0, <2>1, <2>3, <2>4 DEF ListType
    <2>6. UrlInv'
      BY <1>0, <2>1 DEF UrlInv
    <2>7. ListInv'
      <3>1. mine'.isLoading /\ mine'.results = mine.results /\ Selected' = Selected
        BY <2>1, <2>3 DEF Selected
      <3>2. Latest(mineAsked').query = CreatedQuery
        BY <2>4
      <3>. QED BY <1>0, <2>1, <2>4, <3>1, <3>2 DEF ListInv
    <2>8. CreatedInv'
      BY <1>0, <2>1, <2>3, <2>4 DEF CreatedInv
    <2>. QED BY <2>5, <2>6, <2>7, <2>8 DEF LibraryInv
  <1>. QED BY <1>2, <1>3, <1>4, <1>5, <1>6, <1>7, <1>8 DEF CreationSteps

\* A step of the library keeps its invariant,
LEMMA LibraryStep ==
  ASSUME LibraryInv, LibraryNext
  PROVE  LibraryInv'
  BY ListUserStep, ListEffectsStep, ListAnswersStep, CreationStep
     DEF LibraryNext, LibraryUser, LibraryEffects, LibraryAnswers

\* which says what is selected and what is listed.
LEMMA LibraryShown == LibraryInv => SelectedIsShown /\ CreatedIsListed
  <1> SUFFICES ASSUME LibraryInv PROVE SelectedIsShown /\ CreatedIsListed
    OBVIOUS
  <1>1. UrlIsSelected
    BY DEF UrlIsSelected, Settled, LibraryInv, UrlInv
  <1>2. ListIsSelected
    BY DEF ListIsSelected, Settled, LibraryInv, ListInv
  <1>3. CreatedIsListed
    BY DEF CreatedIsListed, Settled, LibraryInv, ListInv, CreatedInv
  <1>. QED BY <1>1, <1>2, <1>3 DEF SelectedIsShown

------------------------------------------------------------------------------
(* The page "Create Amphora" *)

Models == [text : [TextFields -> {"", "fits"}], price : Amounts,
           terms : TermsOffered \cup {NoTerms}, lat : Coordinates, lon : Coordinates]
Prices == [editing : BOOLEAN, open : BOOLEAN, manually : BOOLEAN, amount : Amounts,
           value : Amounts]
Forms == [model : Models, manual : BOOLEAN, text : [TextFields -> Texts], price : Prices,
          lat : Coordinates, lon : Coordinates]

\* The model has no text that is too long, and the price the box shows unless that is 0;
\* so has what was sent.
FormInv ==
  /\ form # Off => /\ form \in Forms
                   /\ form.model.price = form.price.value \/ form.price.value = 0
  /\ sent.text \in [TextFields -> {"", "fits"}]
  /\ sent.price = sent.shown \/ sent.shown = 0

\* Completing an input gives the model a text within its limit.
LEMMA CompleteModel ==
  ASSUME form \in Forms, NEW f \in TextFields, form.text[f] # "long"
  PROVE  /\ Complete(f, form.text[f]) \in Models
         /\ Complete(f, form.text[f]).price = form.model.price
  <1>1. form.model \in Models /\ form.text[f] \in {"", "fits"}
    BY DEF Forms, Texts
  <1>2. ASSUME NEW g \in {"name", "description"}
        PROVE  /\ [form.model EXCEPT !.text[g] = form.text[f]] \in Models
               /\ [form.model EXCEPT !.text[g] = form.text[f]].price = form.model.price
    <2>1. [form.model.text EXCEPT ![g] = form.text[f]] \in [TextFields -> {"", "fits"}]
      BY <1>1 DEF Models
    <2>. QED BY <1>1, <2>1 DEF Models
  <1>. QED BY <1>1, <1>2 DEF Complete, setName, setDescription

\* So does every change that keeps to the form.
LEMMA ChangeStep ==
  ASSUME FormInv, NEW f \in Forms, Change(f),
         f.model.price = f.price.value \/ f.price.value = 0
  PROVE  FormInv'
  BY DEF FormInv, Change

\* A step of the form keeps its invariant,
LEMMA FormStep ==
  ASSUME FormInv, FormNext
  PROVE  FormInv'
  <1>0. TextFields \subseteq {"name", "description"} /\ Amounts \subseteq Nat /\ 0 \in Amounts
    BY CreateFormAssumption
  <1>1. ASSUME NEW f \in TextFields, NEW text \in Texts, Type(f, text) PROVE FormInv'
    <2>1. /\ form # Off /\ form \in Forms
          /\ form.model.price = form.price.value \/ form.price.value = 0
          /\ Change([form EXCEPT !.text[f] = text])
      BY <1>1 DEF Type, FormInv
    <2>2. [form EXCEPT !.text[f] = text] \in Forms
      BY <2>1 DEF Forms
    <2>. QED BY <2>1, <2>2, ChangeStep DEF Forms
  <1>2. ASSUME NEW f \in TextFields, ClearText(f) PROVE FormInv'
    BY <1>1, <1>2 DEF ClearText, Texts
  <1>3. ASSUME NEW f \in TextFields, Blur(f) PROVE FormInv'
    <2>1. /\ form # Off /\ form \in Forms /\ form.text[f] # "long"
          /\ form.model.price = form.price.value \/ form.price.value = 0
          /\ Change([form EXCEPT !.model = Complete(f, form.text[f])])
      BY <1>3 DEF Blur, FormInv, IsValid
    <2>2. /\ Complete(f, form.text[f]) \in Models
          /\ Complete(f, form.text[f]).price = form.model.price
      BY <2>1, CompleteModel
    <2>3. [form EXCEPT !.model = Complete(f, form.text[f])] \in Forms
      BY <2>1, <2>2 DEF Forms
    <2>. QED BY <2>1, <2>2, <2>3, ChangeStep DEF Forms
  \* The price box changes its own state, and the model with it when it saves.
  <1>4. ASSUME form # Off, NEW p \in Prices,
               p.value = form.price.value,
               Change([form EXCEPT !.price = p])
        PROVE  FormInv'
    <2>1. form \in Forms /\ (form.model.price = form.price.value \/ form.price.value = 0)
      BY <1>4 DEF FormInv
    <2>2. [form EXCEPT !.price = p] \in Forms
      BY <1>4, <2>1 DEF Forms
    <2>. QED BY <1>4, <2>1, <2>2, ChangeStep DEF Forms
  <1>5. ASSUME form # Off, NEW a \in Amounts, SavePrice(a) PROVE FormInv'
    <2>1. form \in Forms
      BY <1>5 DEF FormInv
    <2>2. /\ SetPrice(a) \in Models
          /\ SetPrice(a).price = a \/ a = 0
      BY <2>1, <1>5 DEF SetPrice, Models, Forms
    <2>3. /\ [NewPrice EXCEPT !.value = a] \in Prices
          /\ [NewPrice EXCEPT !.value = a].value = a
      BY <1>0 DEF NewPrice, Prices
    <2>4. [form EXCEPT !.model = SetPrice(a), !.price = [NewPrice EXCEPT !.value = a]] \in Forms
      BY <2>1, <2>2, <2>3 DEF Forms
    <2>. QED BY <1>5, <2>1, <2>2, <2>3, <2>4, ChangeStep DEF SavePrice, Forms
  <1>6. form # Off => form \in Forms /\ form.price \in Prices
    BY DEF FormInv, Forms
  <1>7. CASE OpenPrice
    <2>1. [form.price EXCEPT !.editing = TRUE, !.open = TRUE, !.manually = FALSE,
                             !.amount = form.price.value] \in Prices
      BY <1>6, <1>7 DEF OpenPrice, Prices
    <2>2. Change([form EXCEPT !.price = [form.price EXCEPT !.editing = TRUE, !.open = TRUE,
                                !.manually = FALSE, !.amount = form.price.value]])
      BY <1>6, <1>7 DEF OpenPrice, Forms
    <2>. QED BY <1>4, <1>6, <1>7, <2>1, <2>2 DEF OpenPrice, Prices
  <1>8. CASE EnterManually
    <2>1. [form.price EXCEPT !.manually = TRUE] \in Prices
      BY <1>6, <1>8 DEF EnterManually, PriceIsOpen, Prices
    <2>2. Change([form EXCEPT !.price = [form.price EXCEPT !.manually = TRUE]])
      BY <1>6, <1>8 DEF EnterManually, PriceIsOpen, Forms
    <2>. QED BY <1>4, <1>6, <1>8, <2>1, <2>2 DEF EnterManually, PriceIsOpen, Prices
  <1>9. ASSUME NEW a \in Amounts, TypeAmount(a) PROVE FormInv'
    <2>1. [form.price EXCEPT !.amount = a] \in Prices
      BY <1>6, <1>9 DEF TypeAmount, PriceIsOpen, Prices
    <2>2. Change([form EXCEPT !.price = [form.price EXCEPT !.amount = a]])
      BY <1>6, <1>9 DEF TypeAmount, PriceIsOpen, Forms
    <2>. QED BY <1>4, <1>6, <1>9, <2>1, <2>2 DEF TypeAmount, PriceIsOpen, Prices
  <1>10. CASE SaveManually
    BY <1>5, <1>6, <1>10 DEF SaveManually, PriceIsOpen, Prices
  <1>11. ASSUME NEW a \in Amounts, SelectAmount(a) PROVE FormInv'
    BY <1>5, <1>11 DEF SelectAmount, PriceIsOpen
  <1>12. CASE CancelPrice
    <2>1. [NewPrice EXCEPT !.value = form.price.value] \in Prices
      BY <1>0, <1>6, <1>12 DEF CancelPrice, PriceIsOpen, Prices, NewPrice
    <2>. QED BY <1>4, <1>12, <2>1 DEF CancelPrice, PriceIsOpen, NewPrice
  <1>13. CASE EscapePrice
    <2>1. [form.price EXCEPT !.open = FALSE, !.manually = FALSE] \in Prices
      BY <1>6, <1>13 DEF EscapePrice, PriceIsOpen, Prices
    <2>2. Change([form EXCEPT !.price = [form.price EXCEPT !.open = FALSE, !.manually = FALSE]])
      BY <1>6, <1>13 DEF EscapePrice, PriceIsOpen, Forms
    <2>. QED BY <1>4, <1>6, <1>13, <2>1, <2>2 DEF EscapePrice, PriceIsOpen, Prices
  \* The position and the terms leave the texts and the price.
  <1>14. ASSUME form # Off, NEW model \in Models, model.price = form.model.price,
                Change([form EXCEPT !.model = model])
         PROVE  FormInv'
    <2>1. form \in Forms /\ (form.model.price = form.price.value \/ form.price.value = 0)
      BY <1>14 DEF FormInv
    <2>2. [form EXCEPT !.model = model] \in Forms
      BY <1>14, <2>1 DEF Forms
    <2>. QED BY <1>14, <2>1, <2>2, ChangeStep DEF Forms
  <1>15. CASE ToggleManualPosition
    <2>1. [form EXCEPT !.manual = ~form.manual] \in Forms
      BY <1>6, <1>15 DEF ToggleManualPosition, Forms
    <2>2. Change([form EXCEPT !.manual = ~form.manual])
      BY <1>6, <1>15 DEF ToggleManualPosition, Forms
    <2>. QED BY <1>6, <1>15, <2>1, <2>2, ChangeStep DEF ToggleManualPosition, Forms, FormInv
  <1>16. CASE FindPlace
    <2>1. setPosition \in Models /\ setPosition.price = form.model.price
      BY <1>6, <1>16 DEF FindPlace, setPosition, Forms, Models, Coordinates
    <2>. QED BY <1>14, <1>16, <2>1 DEF FindPlace
  <1>17. ASSUME NEW c \in {"lat", "lon"}, BlurCoordinate(c) PROVE FormInv'
    <2>1. form # Off /\ form \in Forms /\ form.model \in Models
      BY <1>6, <1>17 DEF BlurCoordinate, Forms
    <2>2. form[c] \in Coordinates
      BY <1>17, <2>1 DEF Forms
    <2>3. /\ SetCoordinates(c, form[c]) \in Models
          /\ SetCoordinates(c, form[c]).price = form.model.price
      <3>1. CASE c = "lat"
        BY <2>1, <2>2, <3>1 DEF SetCoordinates, Models, Coordinates
      <3>2. CASE c = "lon"
        BY <2>1, <2>2, <3>2 DEF SetCoordinates, Models, Coordinates
      <3>. QED BY <3>1, <3>2
    <2>. QED BY <1>14, <1>17, <2>1, <2>3 DEF BlurCoordinate
  <1>18. ASSUME NEW c \in {"lat", "lon"}, NEW value \in Coordinates, TypeCoordinate(c, value)
         PROVE  FormInv'
    <2>1. /\ form # Off /\ form \in Forms
          /\ form.model.price = form.price.value \/ form.price.value = 0
      BY <1>18 DEF TypeCoordinate, FormInv
    <2>2. CASE c = "lat"
      <3>1. [form EXCEPT !.lat = value] \in Forms
        BY <2>1 DEF Forms
      <3>. QED BY <1>18, <2>1, <2>2, <3>1, ChangeStep DEF TypeCoordinate, Forms
    <2>3. CASE c = "lon"
      <3>1. [form EXCEPT !.lon = value] \in Forms
        BY <2>1 DEF Forms
      <3>. QED BY <1>18, <2>1, <2>3, <3>1, ChangeStep DEF TypeCoordinate, Forms
    <2>. QED BY <2>2, <2>3
  <1>19. ASSUME NEW t \in TermsOffered, PickTerms(t) PROVE FormInv'
    <2>1. form # Off /\ form \in Forms
      BY <1>6, <1>19 DEF PickTerms, OffersTerms
    <2> DEFINE terms == IF t = TermsDefault THEN NoTerms ELSE t
    <2>2. /\ [form.model EXCEPT !.terms = terms] \in Models
          /\ [form.model EXCEPT !.terms = terms].price = form.model.price
      BY <2>1 DEF Forms, Models
    <2>3. Change([form EXCEPT !.model = [form.model EXCEPT !.terms = terms]])
      BY <1>19, <2>1 DEF PickTerms, Forms
    <2>. QED BY <1>14, <2>1, <2>2, <2>3
  <1>20. CASE FormAnswers
    BY <1>20 DEF FormAnswers, AnswerTerms, FormInv
  <1>21. CASE OpenForm
    <2>1. /\ NewForm \in Forms /\ NewForm.price.value = 0
          /\ NothingSent.text \in [TextFields -> {"", "fits"}]
          /\ NothingSent.price = NothingSent.shown
      BY <1>0 DEF NewForm, NewModel, NewPrice, NothingSent, Forms, Models, Prices, Texts,
                  Coordinates
    <2>. QED BY <1>21, <2>1 DEF OpenForm, FormInv
  <1>22. CASE Submit
    BY <1>22 DEF Submit, FormInv, Forms, Models
  <1>. QED BY <1>1, <1>2, <1>3, <1>7, <1>8, <1>9, <1>10, <1>11, <1>12, <1>13, <1>15, <1>16,
              <1>17, <1>18, <1>19, <1>20, <1>21, <1>22 DEF FormNext, FormUser

\* which says that what is sent is what it showed.
LEMMA FormSent == FormInv => SentIsShown
  BY DEF FormInv, SentIsShown, SentIsValid, SentPriceIsShown, IsValid

------------------------------------------------------------------------------
(* The boxes that complete what is typed *)

Scripts == {autocompleteGeoSearch, organisationsAutocomplete, staticAutocomplete}
Typed == BoxTexts \cup {Empty}
Shown == Typed \cup {Off, "typed"}
FieldValues == UNION {[script.sets -> Shown] : script \in Scripts}

\* What is in the input was asked for last, or is what is listed, unless it was
\* emptied by a choice; a script that has its list asks nothing.
BoxInv ==
  /\ boxAsked \in Seq(Typed)
  /\ box # Off =>
       /\ box \in [script : Scripts, input : Typed, due : BOOLEAN, list : Typed \cup {Off},
                   placeholder : Shown \cup {"Loading..."}, typed : SUBSET {"lat", "lon"},
                   value : FieldValues]
       /\ ~box.script.fetches => boxAsked = <<>>
       /\ ~box.due /\ ~boxLate =>
            IF boxAsked = <<>> THEN box.list # Off => box.list = box.input
            ELSE box.input \in {Latest(boxAsked), Empty}
       /\ PositionIsOnePlace

\* A step of a box keeps its invariant,
LEMMA BoxStep ==
  ASSUME BoxInv, BoxNext
  PROVE  BoxInv'
  <1> DEFINE Boxes == [script : Scripts, input : Typed, due : BOOLEAN, list : Typed \cup {Off},
                       placeholder : Shown \cup {"Loading..."}, typed : SUBSET {"lat", "lon"},
                       value : FieldValues]
  <1>0. /\ boxAsked \in Seq(Typed)
        /\ box # Off =>
             /\ box \in Boxes
             /\ ~box.script.fetches => boxAsked = <<>>
             /\ ~box.due /\ ~boxLate =>
                  IF boxAsked = <<>> THEN box.list # Off => box.list = box.input
                  ELSE box.input \in {Latest(boxAsked), Empty}
             /\ box.typed = {} => \A f, g \in DOMAIN box.value : box.value[f] = box.value[g]
    BY DEF BoxInv, PositionIsOnePlace
  <1>a. LongTexts \subseteq BoxTexts /\ Empty \notin LongTexts
    BY AutocompleteAssumption DEF Empty
  <1>1. CASE OpenBox
    <2>1. PICK script \in Scripts :
            box' = [script |-> script, input |-> Empty, due |-> FALSE, list |-> Off,
                    placeholder |-> Empty, typed |-> {},
                    value |-> [field \in script.sets |-> Empty]]
      BY <1>1 DEF OpenBox, Scripts
    <2>2. [field \in script.sets |-> Empty] \in [script.sets -> Shown]
      BY DEF Shown, Typed
    <2>3. [field \in script.sets |-> Empty] \in FieldValues
      BY <2>2 DEF FieldValues
    <2>4. box' \in Boxes
      BY <2>1, <2>3 DEF Typed, Shown
    <2>5. boxAsked' = <<>> /\ boxAsked' \in Seq(Typed)
      BY <1>1 DEF OpenBox
    <2>6. PositionIsOnePlace'
      BY <2>1 DEF PositionIsOnePlace
    <2>. QED BY <2>1, <2>4, <2>5, <2>6 DEF BoxInv
  <1>2. CASE CloseBox
    BY <1>2 DEF CloseBox, BoxInv
  <1>3. ASSUME NEW query \in BoxTexts, TypeQuery(query) PROVE BoxInv'
    <2>1. /\ box' = [box EXCEPT !.input = query, !.due = TRUE] /\ box # Off
          /\ UNCHANGED <<boxAsked, boxLate>>
      BY <1>3 DEF TypeQuery
    <2>2. box' \in Boxes /\ box'.due /\ box'.script = box.script /\ box'.typed = box.typed
          /\ box'.value = box.value
      BY <1>0, <2>1 DEF Typed
    <2>3. PositionIsOnePlace'
      BY <1>0, <2>1, <2>2 DEF PositionIsOnePlace
    <2>. QED BY <1>0, <2>1, <2>2, <2>3 DEF BoxInv
  <1>4. CASE Select
    <2>1. box # Off /\ box \in Boxes /\ UNCHANGED <<boxAsked, boxLate>>
      BY <1>0, <1>4 DEF Select
    <2> DEFINE value == [field \in DOMAIN box.value |->
                           IF field \in box.typed THEN box.value[field] ELSE box.list]
    <2>2. value \in FieldValues
      <3>1. PICK script \in Scripts : box.value \in [script.sets -> Shown]
        BY <2>1 DEF FieldValues
      <3>2. box.list \in Shown
        BY <2>1 DEF Shown
      <3>3. value \in [script.sets -> Shown]
        BY <3>1, <3>2
      <3>. QED BY <3>3 DEF FieldValues
    <2>3. box' = [box EXCEPT !.list = Off, !.input = Empty, !.placeholder = box.list,
                             !.value = value]
      BY <1>4, <2>1 DEF Select
    <2>4. box.typed = {} => \A f, g \in DOMAIN value : value[f] = value[g]
      OBVIOUS
    <2> HIDE DEF value
    <2>5. /\ box' \in Boxes /\ box'.script = box.script /\ box'.typed = box.typed
          /\ box'.value = value /\ box'.list = Off /\ box'.input = Empty
      BY <2>1, <2>2, <2>3 DEF Typed, Shown
    <2>6. PositionIsOnePlace'
      BY <2>4, <2>5 DEF PositionIsOnePlace
    <2>. QED BY <1>0, <2>1, <2>5, <2>6 DEF BoxInv
  <1>5. ASSUME NEW field \in {"lat", "lon"}, TypeField(field) PROVE BoxInv'
    <2>1. /\ box # Off /\ box \in Boxes /\ UNCHANGED <<boxAsked, boxLate>>
          /\ box' = [box EXCEPT !.typed = box.typed \cup {field},
                                !.value = [box.value EXCEPT ![field] = "typed"]]
      BY <1>0, <1>5 DEF TypeField
    <2>2. [box.value EXCEPT ![field] = "typed"] \in FieldValues
      <3>1. PICK script \in Scripts : box.value \in [script.sets -> Shown]
        BY <2>1 DEF FieldValues
      <3>2. [box.value EXCEPT ![field] = "typed"] \in [script.sets -> Shown]
        BY <3>1 DEF Shown
      <3>. QED BY <3>2 DEF FieldValues
    <2>3. /\ box' \in Boxes /\ box'.script = box.script /\ box'.typed # {}
          /\ box'.due = box.due /\ box'.list = box.list /\ box'.input = box.input
      BY <2>1, <2>2
    <2>4. PositionIsOnePlace'
      BY <2>3 DEF PositionIsOnePlace
    <2>. QED BY <1>0, <2>1, <2>3, <2>4 DEF BoxInv
  <1>6. CASE Pause
    <2>1. /\ box # Off /\ box \in Boxes
          /\ boxLate' = (boxLate /\ boxAsked # <<>>)
          /\ List(box.input) \in Typed \cup {Off}
          /\ List(box.input) # Off => List(box.input) = box.input
      BY <1>0, <1>6 DEF Pause, List
    <2>2. /\ box' \in Boxes /\ box'.script = box.script /\ box'.typed = box.typed
          /\ box'.value = box.value /\ box'.input = box.input
          /\ ~box.script.fetches => box'.list = List(box.input)
      <3>1. box.script.says \in {Empty, "Loading..."}
        BY <2>1 DEF Scripts, autocompleteGeoSearch, organisationsAutocomplete, staticAutocomplete
      <3>. QED BY <1>6, <2>1, <3>1 DEF Pause, Shown, Typed
    <2>3. CASE box.script.fetches
      <3>1. box.input \in Typed /\ boxAsked' = boxAsked \o <<box.input>>
        BY <1>6, <2>1, <2>3 DEF Pause, src
      <3>2. boxAsked \o <<box.input>> = Append(boxAsked, box.input)
        BY <1>0, <3>1
      <3>3. boxAsked' \in Seq(Typed) /\ boxAsked' # <<>> /\ Latest(boxAsked') = box.input
        <4>1. /\ Append(boxAsked, box.input) \in Seq(Typed)
              /\ Append(boxAsked, box.input) # <<>>
              /\ Latest(Append(boxAsked, box.input)) = box.input
          BY <1>0, <3>1, OneMore
        <4>. QED BY <3>1, <3>2, <4>1
      <3>4. PositionIsOnePlace'
        BY <1>0, <2>1, <2>2 DEF PositionIsOnePlace
      <3>. QED BY <2>1, <2>2, <2>3, <3>3, <3>4 DEF BoxInv
    <2>4. CASE ~box.script.fetches
      <3>1. boxAsked' = boxAsked /\ boxAsked = <<>>
        BY <1>0, <1>6, <2>1, <2>4 DEF Pause, src
      <3>2. PositionIsOnePlace'
        BY <1>0, <2>1, <2>2 DEF PositionIsOnePlace
      <3>. QED BY <1>0, <2>1, <2>2, <2>4, <3>1, <3>2 DEF BoxInv
    <2>. QED BY <2>3, <2>4
  <1>7. CASE BoxAnswers
    <2>1. PICK i \in DOMAIN boxAsked : ListPlaces(i) \/ FailPlaces(i)
      BY <1>7 DEF BoxAnswers
    <2>2. /\ boxAsked[i] \in Typed /\ Without(boxAsked, i) \in Seq(Typed)
          /\ boxAsked # <<>> /\ Len(boxAsked) \in Nat /\ DOMAIN boxAsked = 1 .. Len(boxAsked)
      BY <1>0, WithoutOne, ElementOfSeq, LenProperties
    <2>3. i = 1 => IF Len(boxAsked) = 1 THEN Without(boxAsked, i) = <<>>
                   ELSE Without(boxAsked, i) # <<>>
                        /\ Latest(Without(boxAsked, i)) = Latest(boxAsked)
      BY <1>0, WithoutOldest
    <2>4. /\ box # Off /\ box \in Boxes /\ boxAsked' = Without(boxAsked, i)
          /\ box.script.fetches
      BY <1>0, <2>1, <2>2 DEF ListPlaces, FailPlaces
    <2>5. i = 1 => IF boxAsked' = <<>> THEN Latest(boxAsked) = boxAsked[1]
                   ELSE Latest(boxAsked') = Latest(boxAsked)
      BY <2>2, <2>3, <2>4 DEF Latest
    <2>6. CASE ListPlaces(i)
      <3>1. /\ List(boxAsked[i]) \in Typed \cup {Off}
            /\ List(boxAsked[i]) # Off => List(boxAsked[i]) = boxAsked[i] /\ box.input # Empty
        BY <1>a, <2>2 DEF List
      <3>2. /\ box' = [box EXCEPT !.list = List(boxAsked[i])]
            /\ boxLate' = (boxLate \/ i # 1)
        BY <2>6 DEF ListPlaces
      <3>3. /\ box' \in Boxes /\ box'.script = box.script /\ box'.typed = box.typed
            /\ box'.value = box.value /\ box'.input = box.input /\ box'.due = box.due
            /\ box'.list = List(boxAsked[i])
        BY <2>4, <3>1, <3>2
      <3>4. PositionIsOnePlace'
        BY <1>0, <2>4, <3>3 DEF PositionIsOnePlace
      <3>5. ~box'.due /\ ~boxLate' =>
              IF boxAsked' = <<>> THEN box'.list # Off => box'.list = box'.input
              ELSE box'.input \in {Latest(boxAsked'), Empty}
        <4> SUFFICES ASSUME ~box'.due, ~boxLate'
                     PROVE  IF boxAsked' = <<>> THEN box'.list # Off => box'.list = box'.input
                            ELSE box'.input \in {Latest(boxAsked'), Empty}
          OBVIOUS
        <4>1. i = 1 /\ ~boxLate /\ ~box.due
          BY <3>2, <3>3
        <4>2. box.input \in {Latest(boxAsked), Empty}
          BY <1>0, <2>2, <2>4, <4>1
        <4>3. CASE boxAsked' = <<>>
          <5>1. Latest(boxAsked) = boxAsked[i]
            BY <2>5, <4>1, <4>3
          <5>. QED BY <3>1, <3>3, <4>2, <4>3, <5>1
        <4>4. CASE boxAsked' # <<>>
          BY <2>5, <3>3, <4>1, <4>2, <4>4
        <4>. QED BY <4>3, <4>4
      <3>. QED BY <2>2, <2>4, <3>3, <3>4, <3>5 DEF BoxInv
    <2>7. CASE FailPlaces(i)
      <3>1. box' = box /\ boxLate'
        BY <2>7 DEF FailPlaces
      <3>2. PositionIsOnePlace'
        BY <1>0, <2>4, <3>1 DEF PositionIsOnePlace
      <3>. QED BY <2>2, <2>4, <3>1, <3>2 DEF BoxInv
    <2>. QED BY <2>1, <2>6, <2>7
  <1>. QED BY <1>1, <1>2, <1>3, <1>4, <1>5, <1>6, <1>7 DEF BoxNext, BoxUser

\* which says that its list is of its input.
LEMMA BoxTrue == BoxInv => BoxIsTrue
  BY DEF BoxInv, BoxIsTrue, ListIsOfTheInput, PositionIsOnePlace

------------------------------------------------------------------------------
(* Adding a signal *)

Trails == {"signals", "files", "add"}

\* The form is opened from the signals only.
TrailInv(t) ==
  /\ t \in Seq(Trails) /\ 1 \in DOMAIN t /\ t[1] = "signals"
  /\ \A k \in DOMAIN t : k > 1 /\ t[k] = "add" => t[k - 1] = "signals"

SignalForms == [property : PropertyNames, valueType : ValueTypes, typed : PropertyNames,
                focused : BOOLEAN]
Saves == [property : PropertyNames, type : ValueTypes]

\* The form is there only in its view; and a user who has not moved while a signal
\* is saved is in that view, and has saved one.
SignalInv ==
  /\ TrailInv(trail) /\ here \in DOMAIN trail
  /\ signal # Off => signal \in SignalForms /\ View = "add"
  /\ saves \in Seq(Saves)
  /\ ~moved => saves = <<>> \/ (Len(saves) = 1 /\ View = "add")
  /\ SavedReturnsToSignals

\* A push keeps the trail and shows its end.
LEMMA PushStep ==
  ASSUME TrailInv(trail), here \in DOMAIN trail, NEW view \in Trails,
         view = "add" => View = "signals", Push(view)
  PROVE  TrailInv(trail)' /\ here' \in DOMAIN trail' /\ View' = view
  <1>1. /\ trail \in Seq(Trails) /\ Len(trail) \in Nat /\ DOMAIN trail = 1 .. Len(trail)
        /\ here \in 1 .. Len(trail) /\ here' = here + 1
        /\ trail[1] = "signals"
        /\ \A k \in 1 .. Len(trail) : k > 1 /\ trail[k] = "add" => trail[k - 1] = "signals"
    BY LenProperties DEF TrailInv, Push
  <1> DEFINE before == SubSeq(trail, 1, here)
  <1>2. /\ before \in Seq(Trails) /\ Len(before) = here
        /\ \A k \in 1 .. here : before[k] = trail[k]
    BY <1>1, SubSeqProperties
  <1>3. trail' = Append(before, view)
    BY DEF Push
  <1> HIDE DEF before
  <1>4. /\ trail' \in Seq(Trails) /\ Len(trail') = here + 1 /\ DOMAIN trail' = 1 .. here + 1
        /\ trail'[here + 1] = view
        /\ \A k \in 1 .. here : trail'[k] = trail[k]
    <2>1. /\ Append(before, view) \in Seq(Trails) /\ Len(Append(before, view)) = here + 1
          /\ Append(before, view)[here + 1] = view
          /\ \A k \in 1 .. here : Append(before, view)[k] = before[k]
      BY <1>1, <1>2, AppendProperties
    <2>2. DOMAIN Append(before, view) = 1 .. here + 1
      BY <2>1, LenProperties
    <2>. QED BY <1>2, <1>3, <2>1, <2>2
  <1>5. ASSUME NEW k \in DOMAIN trail', k > 1, trail'[k] = "add"
        PROVE  trail'[k - 1] = "signals"
    <2>1. CASE k = here + 1
      <3>1. k - 1 = here /\ trail'[here] = trail[here] /\ view = "add"
        BY <1>1, <1>4, <1>5, <2>1
      <3>. QED BY <3>1 DEF View
    <2>2. CASE k # here + 1
      <3>1. k \in 1 .. here /\ k - 1 \in 1 .. here /\ k \in 1 .. Len(trail)
        BY <1>1, <1>4, <1>5, <2>2
      <3>2. trail'[k] = trail[k] /\ trail'[k - 1] = trail[k - 1]
        BY <1>4, <3>1
      <3>. QED BY <1>1, <1>5, <3>1, <3>2
    <2>. QED BY <2>1, <2>2
  <1>6. 1 \in DOMAIN trail' /\ trail'[1] = "signals" /\ here' \in DOMAIN trail'
    BY <1>1, <1>4
  <1>. QED BY <1>1, <1>4, <1>5, <1>6 DEF TrailInv, View

\* A step of the form for a signal keeps its invariant.
LEMMA SignalStep ==
  ASSUME SignalInv, SignalNext
  PROVE  SignalInv'
  <1>0. /\ TrailInv(trail) /\ here \in DOMAIN trail /\ View \in Trails
        /\ signal # Off => signal \in SignalForms /\ View = "add"
        /\ saves \in Seq(Saves)
        /\ ~moved => saves = <<>> \/ (Len(saves) = 1 /\ View = "add")
        /\ landed \in {"none", "signals"}
    BY ElementOfSeq DEF SignalInv, SavedReturnsToSignals, TrailInv, View
  \* Moving: what is saved meanwhile is no longer waited for.
  <1>1. ASSUME NEW view \in Trails, Moves(view), View' = view, UNCHANGED saves,
               TrailInv(trail)', here' \in DOMAIN trail'
        PROVE  SignalInv'
    <2>1. signal' # Off => signal' \in SignalForms /\ View' = "add"
      BY <1>1 DEF Moves, SignalForms, PropertyNames, ValueTypes
    <2>. QED BY <1>0, <1>1, <2>1 DEF SignalInv, Moves, SavedReturnsToSignals
  <1>2. CASE ClickAdd
    BY <1>0, <1>1, <1>2, PushStep DEF ClickAdd, Trails
  <1>3. CASE ClickCancel
    BY <1>0, <1>1, <1>3, PushStep DEF ClickCancel, Trails
  <1>4. ASSUME NEW view \in SignalViews, ClickMenu(view) PROVE SignalInv'
    BY <1>0, <1>1, <1>4, PushStep DEF ClickMenu, Trails, SignalViews
  <1>5. CASE BrowserBack
    <2>1. /\ trail' = trail /\ here' = here - 1 /\ here - 1 \in DOMAIN trail
          /\ trail[here - 1] \in Trails
      BY <1>0, <1>5, LenProperties, ElementOfSeq DEF BrowserBack, TrailInv
    <2>. QED BY <1>0, <1>1, <1>5, <2>1 DEF BrowserBack, View
  \* Filling the form in.
  <1>6. ASSUME NEW s \in SignalForms, signal # Off, Fill(s) PROVE SignalInv'
    <2>1. UNCHANGED <<trail, here, saves, moved, landed>> /\ signal' = s /\ View' = View
      BY <1>6 DEF Fill, View
    <2>. QED BY <1>0, <1>6, <2>1 DEF SignalInv, SavedReturnsToSignals
  <1>7. CASE SetProperty
    BY <1>0, <1>6, <1>7 DEF SetProperty, SignalForms
  <1>8. ASSUME NEW name \in PropertyNames, TypeProperty(name) PROVE SignalInv'
    BY <1>0, <1>6, <1>8 DEF TypeProperty, SignalForms
  <1>9. ASSUME NEW t \in ValueTypes, SetValueType(t) PROVE SignalInv'
    BY <1>0, <1>6, <1>9 DEF SetValueType, SignalForms
  <1>10. CASE CreateSignal
    <2> DEFINE save == [property |-> signal.property, type |-> signal.valueType]
    <2>1. /\ signal # Off /\ save \in Saves /\ View = "add"
          /\ saves' = Append(saves, save) /\ moved' = (saves # <<>>)
          /\ UNCHANGED <<trail, here, signal, landed>> /\ View' = View
      BY <1>0, <1>10 DEF CreateSignal, Saves, SignalForms, View
    <2> HIDE DEF save
    <2>2. Append(saves, save) \in Seq(Saves) /\ Len(Append(saves, save)) = Len(saves) + 1
      BY <1>0, <2>1, OneMore
    <2>3. saves = <<>> => Len(saves') = 1
      BY <2>1, <2>2
    <2>. QED BY <1>0, <2>1, <2>2, <2>3 DEF SignalInv, SavedReturnsToSignals
  \* The answers: the one that was waited for was the only one.
  <1>11. ASSUME NEW i \in DOMAIN saves
         PROVE  /\ Without(saves, i) \in Seq(Saves)
                /\ ~moved => Len(saves) = 1 /\ View = "add"
                /\ ~(moved /\ Len(saves) > 1) => Without(saves, i) = <<>>
    <2>1. /\ Without(saves, i) \in Seq(Saves) /\ Len(Without(saves, i)) = Len(saves) - 1
          /\ Len(saves) \in Nat /\ DOMAIN saves = 1 .. Len(saves) /\ saves # <<>>
      BY <1>0, <1>11, WithoutOne, LenProperties
    <2>2. ~moved => Len(saves) = 1 /\ View = "add"
      BY <1>0, <2>1
    <2>3. ~(Len(saves) > 1) => Len(Without(saves, i)) = 0
      BY <2>1
    <2>4. ~(Len(saves) > 1) => Without(saves, i) = <<>>
      BY <2>1, <2>3, EmptySeq
    <2>5. Len(saves) = 1 => ~(Len(saves) > 1)
      OBVIOUS
    <2>. QED BY <2>1, <2>2, <2>4, <2>5
  <1>12. ASSUME NEW i \in DOMAIN saves, SignalCreated(i) PROVE SignalInv'
    <2>1. /\ trail \in Seq(Trails) /\ DOMAIN trail = 1 .. Len(trail) /\ Len(trail) \in Nat
          /\ trail[1] = "signals"
          /\ \A k \in DOMAIN trail : k > 1 /\ trail[k] = "add" => trail[k - 1] = "signals"
      BY <1>0, LenProperties DEF TrailInv
    <2>2. trail' = trail /\ here' \in DOMAIN trail' /\ View' = trail[here']
      <3>1. trail' = trail /\ here' = IF here > 1 THEN here - 1 ELSE here
        BY <1>12 DEF SignalCreated
      <3>2. here' \in DOMAIN trail
        BY <1>0, <2>1, <3>1
      <3>. QED BY <3>1, <3>2 DEF View
    <2>3. signal' # Off => signal' \in SignalForms /\ View' = "add"
      BY <1>12, <2>2 DEF SignalCreated, SignalForms, PropertyNames, ValueTypes
    <2>4. saves' = Without(saves, i) /\ (~moved' => saves' = <<>>)
      <3>1. saves' = Without(saves, i) /\ moved' = (moved /\ Len(saves) > 1)
        BY <1>12 DEF SignalCreated
      <3>. QED BY <1>11, <3>1
    <2>5. landed' \in {"none", "signals"}
      <3>1. CASE moved
        BY <1>12, <3>1 DEF SignalCreated
      <3>2. CASE ~moved
        <4>1. trail[here] = "add" /\ here > 1
          BY <1>0, <1>11, <2>1, <3>2 DEF View
        <4>2. landed' = trail[here - 1]
          BY <1>12, <3>2, <4>1 DEF SignalCreated
        <4>. QED BY <1>0, <2>1, <4>1, <4>2
      <3>. QED BY <3>1, <3>2
    <2>. QED BY <1>0, <1>11, <2>2, <2>3, <2>4, <2>5 DEF SignalInv, SavedReturnsToSignals
  <1>13. ASSUME NEW i \in DOMAIN saves, SignalRefused(i) PROVE SignalInv'
    <2>1. /\ UNCHANGED <<trail, here, signal, landed>> /\ View' = View
          /\ saves' = Without(saves, i) /\ moved' = (moved /\ Len(saves) > 1)
      BY <1>13 DEF SignalRefused, View
    <2>2. ~moved' => saves' = <<>>
      BY <1>11, <2>1
    <2>. QED BY <1>0, <1>11, <2>1, <2>2 DEF SignalInv, SavedReturnsToSignals
  <1>. QED BY <1>2, <1>3, <1>4, <1>5, <1>7, <1>8, <1>9, <1>10, <1>12, <1>13
           DEF SignalNext, SignalUser, SignalAnswers

------------------------------------------------------------------------------
(* The detail of an Amphora and the inputs that edit it *)

Contents == [Fields -> {0, Written}]
Answered == {"none", "ok", "refused"}
OpReads == [kind : {"read"}, id : Ids, model : Contents, field : {"none"},
            answer : Answered, level : Nat]
OpUpdates == [kind : {"update"}, id : Ids, model : Contents, field : Fields,
              answer : Answered, level : Nat]
OpRequests == OpReads \cup OpUpdates

DetailType ==
  /\ detail # Off => detail \in [id : Ids, view : Views, open : BOOLEAN,
                                 attempts : 0 .. MaxAttempts]
  /\ menuDue \in BOOLEAN /\ wide \in BOOLEAN /\ toggled \in BOOLEAN /\ behind \in BOOLEAN
  /\ ops \in [isLoading : BOOLEAN, level : Nat,
              current : [id : Ids \cup {NoAmphora}, model : Contents]]
  /\ opsAsked \in Seq(OpRequests)
  /\ purchasing \subseteq Ids
  /\ amphora \in [Ids -> Contents] /\ edited \in [Ids -> Contents]
  /\ level \in [Ids -> Nat]

\* The menu fits, or its effect is due; the user turns it when it is not.
MenuInv ==
  /\ menuDue => ~toggled
  /\ detail # Off /\ ~menuDue => /\ ~toggled => detail.open = wide
                                 /\ toggled => detail.open # wide

\* Whether the server has taken an edit that the context does not have yet.
Accepted == opsAsked # <<>> /\ opsAsked[1].kind = "update" /\ opsAsked[1].answer = "ok"

\* An answer has the Amphora as it is; an edit is of the current one, and differs from
\* it in its field alone.
RequestInv(r) ==
  /\ r.answer = "ok" => r.model = amphora[r.id]
  /\ r.kind = "update" => r.id = ops.current.id
  /\ r.kind = "update" /\ r.answer = "none" =>
       r.model = [amphora[r.id] EXCEPT ![r.field] = r.model[r.field]]

\* A context that is not behind has one request under way at most, loads as long as
\* that lasts, and has the Amphora as it is but for an edit that is being answered.
ContextInv ==
  ~behind =>
    /\ opsAsked # <<>> => Len(opsAsked) = 1
    /\ ops.isLoading <=> opsAsked # <<>>
    /\ amphora = edited
    /\ ops.current.id # NoAmphora /\ ~Accepted => ops.current.model = amphora[ops.current.id]
    /\ opsAsked # <<>> => RequestInv(opsAsked[1])

\* The inputs are those that are shown, and what is open is one of them.
MagicInv ==
  /\ magic \in [values : [Inputs -> {0, Written}], at : Inputs \cup {"none"},
                typed : {0, Written}]
  /\ InputsHoldTheShown

EditingInv == DetailType /\ MenuInv /\ ContextInv /\ MagicInv

\* A step of the page keeps its inputs' Amphora, or none is shown.
KeepsShown == ~behind' => ~behind /\ (ops'.current = ops.current \/ ~ShowsAmphora)

DetailMoves == DetailClicks \/ Resize \/ DetailEffects \/ OpAnswers \/ PurchaseAnswers

\* What the user does on the page, and the menu's effect, leave the context alone.
LEMMA ClicksStep ==
  ASSUME DetailType, MenuInv, ContextInv, DetailClicks \/ Resize \/ MenuEffect
  PROVE  DetailType' /\ MenuInv' /\ ContextInv' /\ KeepsShown
  <1>1. /\ UNCHANGED <<ops, opsAsked, amphora, level, edited, behind>>
        /\ ContextInv' = ContextInv
    BY DEF DetailClicks, OpenDetail, FollowToast, CloseDetail, ToggleMenu, Purchase, ClickView,
           Resize, MenuEffect, serverVars, ContextInv, RequestInv, Accepted
  <1>2. ContextInv' /\ KeepsShown
    BY <1>1 DEF KeepsShown
  <1>3. ASSUME NEW id \in Ids, OpenDetail(id) PROVE DetailType' /\ MenuInv'
    <2>1. detail' = [id |-> id, view |-> "description", open |-> TRUE, attempts |-> 0]
          /\ menuDue' = TRUE /\ toggled' = FALSE /\ UNCHANGED <<wide, purchasing>>
      BY <1>3 DEF OpenDetail
    <2>2. detail' \in [id : Ids, view : Views, open : BOOLEAN, attempts : 0 .. MaxAttempts]
      BY <2>1 DEF Views, MaxAttempts
    <2>. QED BY <1>1, <2>1, <2>2 DEF DetailType, MenuInv
  <1>4. ASSUME NEW id \in Ids, FollowToast(id) PROVE DetailType' /\ MenuInv'
    BY <1>1, <1>4 DEF FollowToast, DetailType, MenuInv, Views
  <1>5. CASE CloseDetail
    <2>1. /\ detail' = Off /\ menuDue' = FALSE /\ toggled' = FALSE
          /\ UNCHANGED <<wide, purchasing>>
      BY <1>5 DEF CloseDetail
    <2>2. DetailType'
      BY <1>1, <2>1 DEF DetailType
    <2>3. MenuInv'
      BY <2>1 DEF MenuInv
    <2>. QED BY <1>2, <2>2, <2>3
  <1>6. CASE ToggleMenu
    <2>1. /\ detail # Off /\ ~menuDue
          /\ detail' = [detail EXCEPT !.open = ~detail.open] /\ toggled' = ~toggled
          /\ UNCHANGED <<menuDue, wide, purchasing>>
          /\ detail \in [id : Ids, view : Views, open : BOOLEAN, attempts : 0 .. MaxAttempts]
      BY <1>6 DEF ToggleMenu, ShowsAmphora, DetailSettled, DetailType
    <2>2. detail' \in [id : Ids, view : Views, open : BOOLEAN, attempts : 0 .. MaxAttempts]
          /\ detail'.open = ~detail.open
      BY <2>1
    <2>3. DetailType'
      BY <1>1, <2>1, <2>2 DEF DetailType
    <2>4. MenuInv'
      <3>1. wide \in BOOLEAN /\ detail.open \in BOOLEAN
        BY <2>1 DEF DetailType
      <3>2. /\ ~toggled => detail.open = wide
            /\ toggled => detail.open # wide
        BY <2>1 DEF MenuInv
      <3>. QED BY <2>1, <2>2, <3>1, <3>2 DEF MenuInv
    <2>. QED BY <1>2, <2>3, <2>4
  <1>7. CASE Purchase
    <2>1. /\ UNCHANGED <<detail, menuDue, wide, toggled>>
          /\ purchasing' = purchasing \cup {ops.current.id} /\ ops.current.id # NoAmphora
      BY <1>7 DEF Purchase, ShowsAmphora
    <2>2. DetailType'
      BY <1>1, <2>1 DEF DetailType
    <2>3. MenuInv'
      BY <2>1 DEF MenuInv
    <2>. QED BY <1>2, <2>2, <2>3
  <1>8. ASSUME NEW view \in Views, ClickView(view) PROVE DetailType' /\ MenuInv'
    BY <1>1, <1>8 DEF ClickView, DetailType, MenuInv, ShowsAmphora
  <1>9. CASE Resize
    <2>1. /\ UNCHANGED <<detail, purchasing>>
          /\ wide' = ~wide /\ menuDue' = TRUE /\ toggled' = FALSE
      BY <1>9 DEF Resize
    <2>2. DetailType'
      BY <1>1, <2>1 DEF DetailType
    <2>3. MenuInv'
      BY <2>1 DEF MenuInv
    <2>. QED BY <1>2, <2>2, <2>3
  <1>10. CASE MenuEffect
    <2>1. detail # Off
          /\ detail \in [id : Ids, view : Views, open : BOOLEAN, attempts : 0 .. MaxAttempts]
      BY <1>10 DEF MenuEffect, ShowsAmphora, DetailType
    <2>2. /\ detail' = [detail EXCEPT !.open = wide] /\ menuDue' = FALSE /\ menuDue
          /\ UNCHANGED <<wide, toggled, purchasing>>
      BY <1>10 DEF MenuEffect
    <2>3. detail' \in [id : Ids, view : Views, open : BOOLEAN, attempts : 0 .. MaxAttempts]
          /\ detail'.open = wide'
      BY <2>1, <2>2 DEF DetailType
    <2>4. DetailType'
      BY <1>1, <2>2, <2>3 DEF DetailType
    <2>5. MenuInv'
      BY <2>2, <2>3 DEF MenuInv
    <2>. QED BY <1>2, <2>4, <2>5
  <1>. QED BY <1>2, <1>3, <1>4, <1>5, <1>6, <1>7, <1>8, <1>9, <1>10 DEF DetailClicks

\* A request is one more; with none under way, it is the one.
LEMMA AskStep ==
  ASSUME DetailType, NEW kind, NEW id \in Ids, NEW model \in Contents, NEW field,
         \/ kind = "read" /\ field = "none"
         \/ kind = "update" /\ field \in Fields,
         Ask(kind, id, model, field)
  PROVE  /\ opsAsked' \in Seq(OpRequests) /\ opsAsked' # <<>>
         /\ opsAsked = <<>> => /\ Len(opsAsked') = 1
                               /\ opsAsked'[1] = [kind |-> kind, id |-> id, model |-> model,
                                     field |-> field, answer |-> "none", level |-> 0]
         /\ ops' = [ops EXCEPT !.isLoading = TRUE]
         /\ ops' \in [isLoading : BOOLEAN, level : Nat,
                      current : [id : Ids \cup {NoAmphora}, model : Contents]]
  <1> DEFINE r == [kind |-> kind, id |-> id, model |-> model, field |-> field,
                   answer |-> "none", level |-> 0]
  <1>1. r \in OpRequests
    BY DEF OpRequests, OpReads, OpUpdates, Answered
  <1>2. opsAsked \in Seq(OpRequests) /\ opsAsked' = Append(opsAsked, r)
        /\ ops' = [ops EXCEPT !.isLoading = TRUE]
    BY DEF DetailType, Ask
  <1> HIDE DEF r
  <1>3. /\ Append(opsAsked, r) \in Seq(OpRequests) /\ Append(opsAsked, r) # <<>>
        /\ Len(Append(opsAsked, r)) = Len(opsAsked) + 1 /\ Latest(Append(opsAsked, r)) = r
    BY <1>1, <1>2, OneMore
  <1>4. opsAsked = <<>> => Len(opsAsked') = 1 /\ opsAsked'[1] = r
    BY <1>2, <1>3 DEF Latest
  <1>5. ops' \in [isLoading : BOOLEAN, level : Nat,
                  current : [id : Ids \cup {NoAmphora}, model : Contents]]
    BY <1>2 DEF DetailType
  <1>. QED BY <1>2, <1>3, <1>4, <1>5 DEF r

\* The first contents of a field.
LEMMA NoModel == NoCurrent.model \in Contents
  BY DEF NoCurrent, Contents

\* The effect that reads keeps what is shown,
LEMMA ReadStep ==
  ASSUME DetailType, MenuInv, ContextInv, ReadEffect
  PROVE  DetailType' /\ MenuInv' /\ ContextInv' /\ KeepsShown
  <1>1. /\ detail # Off /\ ~ops.isLoading /\ detail.attempts < MaxAttempts
        /\ detail \in [id : Ids, view : Views, open : BOOLEAN, attempts : 0 .. MaxAttempts]
        /\ Ask("read", detail.id, NoCurrent.model, "none")
        /\ detail' = [detail EXCEPT !.attempts = @ + 1]
        /\ behind' = (behind \/ opsAsked # <<>>)
        /\ UNCHANGED <<menuDue, wide, toggled, purchasing, amphora, level, edited>>
    BY DEF ReadEffect, NeedsRead, DetailType, serverVars
  <1>2. /\ opsAsked' \in Seq(OpRequests) /\ opsAsked' # <<>>
        /\ opsAsked = <<>> => /\ Len(opsAsked') = 1
                              /\ opsAsked'[1] = [kind |-> "read", id |-> detail.id,
                                    model |-> NoCurrent.model, field |-> "none",
                                    answer |-> "none", level |-> 0]
        /\ ops' = [ops EXCEPT !.isLoading = TRUE]
        /\ ops' \in [isLoading : BOOLEAN, level : Nat,
                     current : [id : Ids \cup {NoAmphora}, model : Contents]]
    BY <1>1, AskStep, NoModel
  <1>3. detail' \in [id : Ids, view : Views, open : BOOLEAN, attempts : 0 .. MaxAttempts]
        /\ detail'.open = detail.open
    BY <1>1 DEF MaxAttempts
  <1>4. DetailType'
    BY <1>1, <1>2, <1>3 DEF DetailType
  <1>5. MenuInv'
    BY <1>1, <1>3 DEF MenuInv
  <1>6. ops'.isLoading /\ ops'.current = ops.current
    BY <1>2 DEF DetailType
  <1>7. ContextInv' /\ KeepsShown
    BY <1>1, <1>2, <1>6 DEF ContextInv, KeepsShown, RequestInv, Accepted
  <1>. QED BY <1>4, <1>5, <1>7

\* and so does a purchase.
LEMMA PurchasedStep ==
  ASSUME DetailType, MenuInv, ContextInv, NEW id \in Ids, Purchased(id)
  PROVE  DetailType' /\ MenuInv' /\ ContextInv' /\ KeepsShown
  <1>1. /\ Ask("read", id, NoCurrent.model, "none")
        /\ behind' = (behind \/ opsAsked # <<>>)
        /\ purchasing' = purchasing \ {id} /\ level' = [level EXCEPT ![id] = ReadContents]
        /\ UNCHANGED <<detail, menuDue, wide, toggled, amphora, edited>>
    BY DEF Purchased, ReadPurchased
  <1>2. /\ opsAsked' \in Seq(OpRequests) /\ opsAsked' # <<>>
        /\ opsAsked = <<>> => /\ Len(opsAsked') = 1
                              /\ opsAsked'[1] = [kind |-> "read", id |-> id,
                                    model |-> NoCurrent.model, field |-> "none",
                                    answer |-> "none", level |-> 0]
        /\ ops' = [ops EXCEPT !.isLoading = TRUE]
        /\ ops' \in [isLoading : BOOLEAN, level : Nat,
                     current : [id : Ids \cup {NoAmphora}, model : Contents]]
    BY <1>1, AskStep, NoModel
  <1>3. DetailType'
    BY <1>1, <1>2 DEF DetailType, ReadContents
  <1>4. MenuInv'
    BY <1>1 DEF MenuInv
  <1>5. ops'.isLoading /\ ops'.current = ops.current
    BY <1>2 DEF DetailType
  <1>6. ContextInv' /\ KeepsShown
    BY <1>1, <1>2, <1>5 DEF ContextInv, KeepsShown, RequestInv, Accepted
  <1>. QED BY <1>3, <1>4, <1>6

\* The server answers a request.
LEMMA ServeStep ==
  ASSUME DetailType, MenuInv, ContextInv, NEW i \in DOMAIN opsAsked,
         ServeRead(i) \/ ServeUpdate(i)
  PROVE  DetailType' /\ MenuInv' /\ ContextInv' /\ KeepsShown
  <1> DEFINE r == opsAsked[i]
             s == opsAsked'[i]
  <1>1. /\ opsAsked \in Seq(OpRequests) /\ r \in OpRequests /\ r.id \in Ids
        /\ DOMAIN opsAsked = 1 .. Len(opsAsked) /\ Len(opsAsked) \in Nat
        /\ amphora \in [Ids -> Contents] /\ edited \in [Ids -> Contents]
        /\ level \in [Ids -> Nat]
        /\ opsAsked # <<>>
    BY ElementOfSeq, LenProperties DEF DetailType, OpRequests, OpReads, OpUpdates
  <1>2. UNCHANGED <<detail, menuDue, wide, toggled, ops, purchasing, level, behind>>
    BY DEF ServeRead, ServeUpdate, serverVars
  <1>3. MenuInv' /\ KeepsShown
    BY <1>2 DEF MenuInv, KeepsShown
  \* The queue keeps its length, and all but the one that is answered.
  <1>4. ASSUME NEW q \in OpRequests, opsAsked' = [opsAsked EXCEPT ![i] = q]
        PROVE  /\ opsAsked' \in Seq(OpRequests) /\ Len(opsAsked') = Len(opsAsked)
               /\ opsAsked' # <<>> /\ opsAsked'[i] = q
    <2>1. opsAsked' \in Seq(OpRequests) /\ Len(opsAsked') = Len(opsAsked)
      BY <1>1, <1>4, ExceptSeq
    <2>. QED BY <1>1, <1>4, <2>1, EmptySeq
  <1>5. CASE ServeRead(i)
    <2> DEFINE q == [r EXCEPT !.answer = "ok", !.model = amphora[r.id], !.level = level[r.id]]
    <2>1. r.kind = "read" /\ UNCHANGED <<amphora, edited>>
          /\ opsAsked' = [opsAsked EXCEPT ![i] = q]
      BY <1>1, <1>5 DEF ServeRead, serverVars
    <2>2. r \in OpReads
      BY <1>1, <2>1 DEF OpRequests, OpUpdates
    <2>3. /\ q \in OpRequests /\ q.kind = "read" /\ q.model = amphora[r.id] /\ q.id = r.id
      BY <1>1, <2>2 DEF OpRequests, OpReads, Answered
    <2> HIDE DEF q
    <2>4. /\ opsAsked' \in Seq(OpRequests) /\ Len(opsAsked') = Len(opsAsked)
          /\ opsAsked' # <<>> /\ opsAsked'[i] = q
      BY <1>4, <2>1, <2>3
    <2>5. DetailType'
      BY <1>2, <2>1, <2>4 DEF DetailType
    <2>6. ASSUME ~behind' PROVE Len(opsAsked') = 1 /\ ops'.isLoading /\ i = 1 /\ amphora' = edited'
                                /\ RequestInv(opsAsked[1])
      BY <1>1, <1>2, <2>1, <2>4, <2>6 DEF ContextInv
    <2>7. ASSUME ~behind' PROVE ~Accepted /\ ~Accepted' /\ RequestInv(opsAsked[1])'
      BY <1>2, <2>1, <2>3, <2>4, <2>6, <2>7 DEF RequestInv, Accepted
    <2>8. ContextInv'
      BY <1>1, <1>2, <2>1, <2>4, <2>6, <2>7 DEF ContextInv
    <2>. QED BY <1>3, <2>5, <2>8
  <1>6. CASE ServeUpdate(i)
    <2>0. r.kind = "update" /\ r.answer = "none"
      BY <1>6 DEF ServeUpdate
    <2>1. r \in OpUpdates /\ r.field \in Fields /\ r.model \in Contents
      BY <1>1, <2>0 DEF OpRequests, OpReads, OpUpdates
    <2>2. CASE level[r.id] >= Update
      <3> DEFINE q == [r EXCEPT !.answer = "ok", !.level = level[r.id]]
      <3>1. /\ opsAsked' = [opsAsked EXCEPT ![i] = q]
            /\ amphora' = [amphora EXCEPT ![r.id] = r.model]
            /\ edited' = [edited EXCEPT ![r.id] =
                            [edited[r.id] EXCEPT ![r.field] = r.model[r.field]]]
        BY <1>1, <1>6, <2>2 DEF ServeUpdate
      <3>2. /\ q \in OpRequests /\ q.kind = "update" /\ q.answer = "ok" /\ q.id = r.id
            /\ q.model = r.model
        BY <1>1, <2>1 DEF OpRequests, OpUpdates, Answered
      <3> HIDE DEF q
      <3>3. /\ opsAsked' \in Seq(OpRequests) /\ Len(opsAsked') = Len(opsAsked)
            /\ opsAsked' # <<>> /\ opsAsked'[i] = q
        BY <1>4, <3>1, <3>2
      <3>4. amphora' \in [Ids -> Contents]
        BY <1>1, <2>1, <3>1
      <3>5. edited' \in [Ids -> Contents]
        <4>1. [edited[r.id] EXCEPT ![r.field] = r.model[r.field]] \in Contents
          BY <1>1, <2>1 DEF Contents
        <4>. QED BY <1>1, <3>1, <4>1
      <3>6. DetailType'
        BY <1>2, <3>3, <3>4, <3>5 DEF DetailType
      <3>7. ASSUME ~behind'
            PROVE  /\ Len(opsAsked') = 1 /\ ops'.isLoading /\ i = 1 /\ amphora = edited
                   /\ RequestInv(r)
        BY <1>1, <1>2, <3>3, <3>7 DEF ContextInv
      <3>8. ASSUME ~behind' PROVE amphora' = edited'
        <4>1. r.model = [amphora[r.id] EXCEPT ![r.field] = r.model[r.field]]
          BY <2>0, <3>7, <3>8 DEF RequestInv
        <4>. QED BY <3>1, <3>7, <3>8, <4>1
      <3>9. ASSUME ~behind' PROVE Accepted' /\ RequestInv(opsAsked[1])'
        <4>1. /\ opsAsked'[1] = q /\ amphora'[r.id] = r.model /\ r.id = ops'.current.id
          BY <1>1, <1>2, <2>0, <3>1, <3>3, <3>7, <3>9 DEF RequestInv
        <4>. QED BY <3>2, <3>3, <4>1 DEF RequestInv, Accepted
      <3>10. ContextInv'
        BY <3>3, <3>7, <3>8, <3>9 DEF ContextInv
      <3>. QED BY <1>3, <3>6, <3>10
    <2>3. CASE ~(level[r.id] >= Update)
      <3> DEFINE q == [r EXCEPT !.answer = "refused"]
      <3>1. opsAsked' = [opsAsked EXCEPT ![i] = q] /\ UNCHANGED <<amphora, edited>>
        BY <1>1, <1>6, <2>3 DEF ServeUpdate
      <3>2. /\ q \in OpRequests /\ q.kind = "update" /\ q.answer = "refused" /\ q.id = r.id
        BY <1>1, <2>1 DEF OpRequests, OpUpdates, Answered
      <3> HIDE DEF q
      <3>3. /\ opsAsked' \in Seq(OpRequests) /\ Len(opsAsked') = Len(opsAsked)
            /\ opsAsked' # <<>> /\ opsAsked'[i] = q
        BY <1>4, <3>1, <3>2
      <3>4. DetailType'
        BY <1>2, <3>1, <3>3 DEF DetailType
      <3>5. ASSUME ~behind'
            PROVE  /\ Len(opsAsked') = 1 /\ ops'.isLoading /\ i = 1 /\ amphora' = edited'
                   /\ RequestInv(r)
        BY <1>1, <1>2, <3>1, <3>3, <3>5 DEF ContextInv
      <3>6. ASSUME ~behind' PROVE ~Accepted /\ ~Accepted' /\ RequestInv(opsAsked[1])'
        BY <1>2, <2>0, <3>1, <3>2, <3>3, <3>5, <3>6 DEF RequestInv, Accepted
      <3>7. ContextInv'
        BY <1>2, <3>1, <3>3, <3>5, <3>6 DEF ContextInv
      <3>. QED BY <1>3, <3>4, <3>7
    <2>. QED BY <2>2, <2>3
  <1>. QED BY <1>5, <1>6

\* The page hears an answer, or that there is none: a context that is not behind has
\* nothing under way any more.
LEMMA HearStep ==
  ASSUME DetailType, MenuInv, ContextInv, NEW i \in DOMAIN opsAsked, AnswerOp(i) \/ FailOp(i)
  PROVE  DetailType' /\ MenuInv' /\ ContextInv' /\ KeepsShown
  <1> DEFINE r == opsAsked[i]
  <1>1. /\ opsAsked \in Seq(OpRequests) /\ r \in OpRequests /\ r.id \in Ids
        /\ r.model \in Contents /\ r.level \in Nat /\ r.kind \in {"read", "update"}
        /\ r.answer \in Answered
        /\ opsAsked # <<>> /\ Without(opsAsked, i) \in Seq(OpRequests)
        /\ Len(Without(opsAsked, i)) = Len(opsAsked) - 1
        /\ DOMAIN opsAsked = 1 .. Len(opsAsked) /\ Len(opsAsked) \in Nat
    BY ElementOfSeq, LenProperties, WithoutOne DEF DetailType, OpRequests, OpReads, OpUpdates
  <1>2. /\ opsAsked' = Without(opsAsked, i)
        /\ menuDue' = (detail # Off /\ (menuDue \/ ops.isLoading))
        /\ toggled' = (toggled /\ ~ops.isLoading)
        /\ UNCHANGED <<detail, wide, purchasing, amphora, level, edited>>
    BY DEF AnswerOp, FailOp, serverVars
  <1>3. MenuInv'
    BY <1>2 DEF MenuInv, DetailType
  <1>4. /\ ops' \in [isLoading : {FALSE}, level : Nat,
                     current : [id : Ids \cup {NoAmphora}, model : Contents]]
        /\ behind' \in BOOLEAN /\ (~behind' => ~behind)
    <2>1. /\ ops \in [isLoading : BOOLEAN, level : Nat,
                      current : [id : Ids \cup {NoAmphora}, model : Contents]]
          /\ behind \in BOOLEAN
      BY DEF DetailType
    <2>2. CASE AnswerOp(i)
      <3>1. behind' = behind
        BY <2>2 DEF AnswerOp
      <3>2. CASE r.answer = "ok"
        BY <1>1, <2>1, <2>2, <3>1, <3>2 DEF AnswerOp
      <3>3. CASE r.answer # "ok"
        <4>1. ops' = [ops EXCEPT !.isLoading = FALSE]
          BY <2>2, <3>3 DEF AnswerOp
        <4>. QED BY <2>1, <3>1, <4>1
      <3>. QED BY <3>2, <3>3
    <2>3. CASE FailOp(i)
      <3>1. ops' = [ops EXCEPT !.isLoading = FALSE]
            /\ behind' = (behind \/ (r.kind = "update" /\ r.answer # "none"))
        BY <2>3 DEF FailOp
      <3>. QED BY <2>1, <3>1
    <2>. QED BY <2>2, <2>3
  <1>5. DetailType'
    BY <1>1, <1>2, <1>4 DEF DetailType
  <1>6. ASSUME ~behind'
        PROVE  /\ opsAsked' = <<>> /\ amphora' = edited' /\ i = 1 /\ RequestInv(r)
               /\ ops.isLoading
               /\ ops.current.id # NoAmphora /\ ~Accepted =>
                    ops.current.model = amphora[ops.current.id]
    <2>1. Len(opsAsked) = 1 /\ amphora = edited /\ RequestInv(opsAsked[1]) /\ ops.isLoading
          /\ (ops.current.id # NoAmphora /\ ~Accepted =>
                    ops.current.model = amphora[ops.current.id])
      BY <1>1, <1>4, <1>6 DEF ContextInv
    <2>2. Len(Without(opsAsked, i)) = 0 /\ i = 1
      BY <1>1, <2>1
    <2>. QED BY <1>1, <1>2, <2>1, <2>2, EmptySeq
  <1>7. KeepsShown
    BY <1>4, <1>6 DEF KeepsShown, ShowsAmphora
  <1>8. ASSUME ~behind', ops'.current.id # NoAmphora
        PROVE  ops'.current.model = amphora'[ops'.current.id]
    <2>1. CASE AnswerOp(i) /\ r.answer = "ok"
      BY <1>2, <1>6, <1>8, <2>1 DEF AnswerOp, RequestInv
    <2>2. CASE AnswerOp(i) /\ r.answer # "ok"
      <3>1. ops'.current = ops.current
        BY <2>2 DEF AnswerOp, DetailType
      <3>. QED BY <1>2, <1>6, <1>8, <2>2, <3>1 DEF Accepted
    <2>3. CASE FailOp(i)
      <3>1. ops'.current = ops.current /\ ~Accepted
        BY <1>6, <1>8, <2>3 DEF FailOp, DetailType, Accepted
      <3>. QED BY <1>2, <1>6, <1>8, <3>1
    <2>. QED BY <2>1, <2>2, <2>3
  <1>9. ContextInv'
    BY <1>4, <1>6, <1>8 DEF ContextInv
  <1>. QED BY <1>3, <1>5, <1>7, <1>9

\* Every step of the detail keeps what is shown.
LEMMA DetailStep ==
  ASSUME DetailType, MenuInv, ContextInv, DetailMoves
  PROVE  DetailType' /\ MenuInv' /\ ContextInv' /\ KeepsShown
  BY ClicksStep, ReadStep, PurchasedStep, ServeStep, HearStep
     DEF DetailMoves, DetailEffects, OpAnswers, PurchaseAnswers

\* Inputs are mounted on what is shown, and those that stay have it.
LEMMA MountInputs ==
  ASSUME DetailType', MagicInv, KeepsShown, Mount
  PROVE  MagicInv'
  <1>1. /\ magic \in [values : [Inputs -> {0, Written}], at : Inputs \cup {"none"},
                      typed : {0, Written}]
        /\ ~behind => \A f \in Inputs : magic.values[f] = ops.current.model[f]
        /\ "none" \notin Fields
    BY DetailAssumption DEF MagicInv, InputsHoldTheShown
  <1>2. Inputs \subseteq Fields /\ Inputs' \subseteq Fields
        /\ (~ShowsAmphora => Inputs = {})
    BY DEF Inputs, ShowsDescription
  <1>3. \A f \in Inputs' : ops'.current.model[f] \in {0, Written}
    BY <1>2 DEF DetailType, Contents
  <1> DEFINE values == [f \in Inputs' |-> IF f \in Inputs THEN magic.values[f]
                                          ELSE ops'.current.model[f]]
  <1>4. values \in [Inputs' -> {0, Written}]
    BY <1>1, <1>3
  <1>5. ~behind' => \A f \in Inputs' : values[f] = ops'.current.model[f]
    BY <1>1, <1>2 DEF KeepsShown
  <1>6. magic' = [values |-> values,
                  at |-> IF magic.at \in Inputs' THEN magic.at ELSE "none",
                  typed |-> IF magic.at \in Inputs' THEN magic.typed ELSE 0]
    BY DEF Mount
  <1> HIDE DEF values
  <1>7. magic' \in [values : [Inputs' -> {0, Written}], at : Inputs' \cup {"none"},
                    typed : {0, Written}]
    BY <1>1, <1>4, <1>6
  <1>8. InputsHoldTheShown'
    BY <1>5, <1>6 DEF InputsHoldTheShown
  <1>. QED BY <1>7, <1>8 DEF MagicInv

\* An edit that is completed unchanged sends nothing; one that changes what is shown
\* is the only request of a context that is not behind.
LEMMA CompleteStep ==
  ASSUME EditingInv, CompleteEdit
  PROVE  EditingInv'
  <1> DEFINE f == magic.at
             value == magic.typed
  <1>1. /\ f \in Inputs /\ f \in Fields /\ value \in {0, Written}
        /\ magic.values \in [Inputs -> {0, Written}]
        /\ ShowsAmphora /\ ~ops.isLoading /\ ops.current.id \in Ids
        /\ ops.current.model \in Contents
        /\ ~behind => \A g \in Inputs : magic.values[g] = ops.current.model[g]
    BY DEF CompleteEdit, EditingInv, MagicInv, Inputs, ShowsDescription, ShowsAmphora, DetailType,
           InputsHoldTheShown
  <1>2. /\ DetailType /\ MenuInv /\ ContextInv
        /\ UNCHANGED <<detail, menuDue, wide, toggled, purchasing, amphora, level, edited, behind>>
        /\ Save(f, value)
        /\ magic' = [values |-> [g \in Inputs' |-> IF g = f THEN value ELSE magic.values[g]],
                     at |-> "none", typed |-> 0]
    BY DEF CompleteEdit, EditingInv, serverVars, handleUpdateName
  <1>3. MenuInv'
    BY <1>2 DEF MenuInv
  <1> HIDE DEF f, value
  <1>4. CASE value = ops.current.model[f]
    <2>1. UNCHANGED <<ops, opsAsked>>
      BY <1>2, <1>4 DEF Save
    <2>2. DetailType' /\ Inputs' = Inputs
      BY <1>2, <2>1 DEF DetailType, Inputs, ShowsDescription, ShowsAmphora
    <2>3. ContextInv'
      BY <1>2, <2>1 DEF ContextInv, RequestInv, Accepted
    <2> DEFINE values == [g \in Inputs |-> IF g = f THEN value ELSE magic.values[g]]
    <2>4. /\ values \in [Inputs -> {0, Written}]
          /\ ~behind => \A g \in Inputs : values[g] = ops.current.model[g]
      BY <1>1, <1>4
    <2>5. magic' = [values |-> values, at |-> "none", typed |-> 0]
      BY <1>2, <2>2
    <2> HIDE DEF values
    <2>6. magic' \in [values : [Inputs' -> {0, Written}], at : Inputs' \cup {"none"},
                      typed : {0, Written}]
      BY <2>2, <2>4, <2>5
    <2>7. InputsHoldTheShown'
      BY <1>2, <2>1, <2>2, <2>4, <2>5 DEF InputsHoldTheShown
    <2>. QED BY <1>3, <2>2, <2>3, <2>6, <2>7 DEF EditingInv, MagicInv
  <1>5. CASE value # ops.current.model[f]
    <2> DEFINE model == [ops.current.model EXCEPT ![f] = value]
    <2>1. Ask("update", ops.current.id, model, f) /\ model \in Contents
      BY <1>1, <1>2, <1>5 DEF Save, Contents
    <2>2. model = [ops.current.model EXCEPT ![f] = model[f]]
      BY <1>1 DEF Contents
    <2> HIDE DEF model
    <2>3. /\ opsAsked' \in Seq(OpRequests) /\ opsAsked' # <<>>
          /\ opsAsked = <<>> => /\ Len(opsAsked') = 1
                                /\ opsAsked'[1] = [kind |-> "update", id |-> ops.current.id,
                                      model |-> model, field |-> f, answer |-> "none",
                                      level |-> 0]
          /\ ops' = [ops EXCEPT !.isLoading = TRUE]
          /\ ops' \in [isLoading : BOOLEAN, level : Nat,
                       current : [id : Ids \cup {NoAmphora}, model : Contents]]
      BY <1>1, <1>2, <2>1, AskStep
    <2>4. DetailType'
      BY <1>2, <2>3 DEF DetailType
    <2>5. ops'.isLoading /\ ops'.current = ops.current
      BY <1>2, <2>3 DEF DetailType
    <2>6. ContextInv'
      <3> SUFFICES ASSUME ~behind' PROVE ContextInv'
        BY DEF ContextInv
      <3>1. /\ opsAsked = <<>> /\ amphora = edited /\ ~Accepted
            /\ ops.current.model = amphora[ops.current.id]
        BY <1>1, <1>2, DetailAssumption DEF ContextInv, Accepted
      <3>2. /\ opsAsked'[1].kind = "update" /\ opsAsked'[1].id = ops.current.id
            /\ opsAsked'[1].model = model /\ opsAsked'[1].field = f
            /\ opsAsked'[1].answer = "none" /\ Len(opsAsked') = 1
        BY <2>3, <3>1
      <3>3. ~Accepted' /\ RequestInv(opsAsked[1])'
        BY <1>2, <2>2, <2>5, <3>1, <3>2 DEF Accepted, RequestInv
      <3>. QED BY <1>2, <2>3, <2>5, <3>1, <3>2, <3>3 DEF ContextInv
    <2>7. Inputs' = {}
      BY <2>5 DEF Inputs, ShowsDescription, ShowsAmphora
    <2>8. magic' \in [values : [Inputs' -> {0, Written}], at : Inputs' \cup {"none"},
                      typed : {0, Written}]
      BY <1>2, <2>7
    <2>9. InputsHoldTheShown'
      BY <2>7 DEF InputsHoldTheShown
    <2>. QED BY <1>3, <2>4, <2>6, <2>8, <2>9 DEF EditingInv, MagicInv
  <1>. QED BY <1>4, <1>5

\* A step of the editing keeps its invariant,
LEMMA EditingStep ==
  ASSUME EditingInv, EditingNext
  PROVE  EditingInv'
  <1>0. DetailType /\ MenuInv /\ ContextInv /\ MagicInv
    BY DEF EditingInv
  <1>1. CASE DetailMoves /\ Mount
    BY <1>0, <1>1, DetailStep, MountInputs DEF EditingInv
  \* Opening an input, typing in it and leaving it are the input's own.
  <1>2. ASSUME UNCHANGED detailVars, magic'.values = magic.values,
               magic' \in [values : [Inputs -> {0, Written}], at : Inputs \cup {"none"},
                           typed : {0, Written}]
        PROVE  EditingInv'
    <2>1. /\ DetailType' /\ MenuInv' /\ ContextInv' /\ Inputs' = Inputs
          /\ UNCHANGED <<ops, behind>>
      BY <1>0, <1>2 DEF detailVars, serverVars, DetailType, MenuInv, ContextInv, RequestInv,
                        Accepted, Inputs, ShowsDescription, ShowsAmphora
    <2>2. MagicInv'
      BY <1>0, <1>2, <2>1 DEF MagicInv, InputsHoldTheShown
    <2>. QED BY <2>1, <2>2 DEF EditingInv
  <1>3. ASSUME NEW f \in Fields, StartEditing(f) PROVE EditingInv'
    BY <1>0, <1>2, <1>3 DEF StartEditing, MagicInv
  <1>4. CASE TypeText
    BY <1>0, <1>2, <1>4 DEF TypeText, MagicInv
  <1>5. CASE CancelEdit
    BY <1>0, <1>2, <1>5 DEF CancelEdit, MagicInv
  <1>6. CASE CompleteEdit
    BY <1>6, CompleteStep
  <1>. QED BY <1>1, <1>3, <1>4, <1>5, <1>6
           DEF EditingNext, EditingUser, EditingEffects, EditingAnswers, DetailMoves

\* which says that the detail is current.
LEMMA EditingShown == EditingInv => DetailIsCurrent
  <1> SUFFICES ASSUME EditingInv PROVE DetailIsCurrent
    OBVIOUS
  <1>1. DetailIsOfPath
    BY DEF DetailIsOfPath, DetailSettled, NeedsRead, ShowsAmphora, EditingInv, DetailType,
           MaxAttempts
  <1>2. OwnEditsAreKept /\ InputsHoldTheShown
    BY DEF EditingInv, ContextInv, OwnEditsAreKept, MagicInv
  <1>3. MenuFitsWindow
    BY DEF MenuFitsWindow, DetailSettled, ShowsAmphora, EditingInv, MenuInv
  <1>. QED BY <1>1, <1>2, <1>3 DEF DetailIsCurrent

------------------------------------------------------------------------------
(* The map *)

\* While the page is not drawn again during a request, the key is awaited once and
\* there is no map before it; with the key, nothing is awaited, and what is drawn is
\* the map the state has.
MapInv ==
  /\ keysAsked \in Nat /\ drawn \in Nat
  /\ map # Off => map \in [key : BOOLEAN, map : BOOLEAN, due : BOOLEAN]
  /\ ~redrawn => drawn <= 1
  /\ map # Off /\ ~redrawn =>
       IF map.key THEN keysAsked = 0 /\ drawn = (IF map.map THEN 1 ELSE 0)
       ELSE drawn = 0 /\ keysAsked = (IF map.due THEN 0 ELSE 1)

\* A step of the map keeps its invariant.
LEMMA MapStep ==
  ASSUME MapInv, MapNext
  PROVE  MapInv'
  <1>1. CASE OpenMap \/ CloseMap
    <2>1. keysAsked' = 0 /\ drawn' = 0
      BY <1>1 DEF OpenMap, CloseMap
    <2>2. CASE OpenMap
      BY <2>1, <2>2 DEF OpenMap, MapInv
    <2>3. CASE CloseMap
      BY <2>1, <2>3 DEF CloseMap, MapInv
    <2>. QED BY <1>1, <2>2, <2>3
  <1>2. CASE DrawAgain
    <2>1. /\ map # Off /\ ~map.due /\ map' = [map EXCEPT !.due = TRUE]
          /\ redrawn' = (redrawn \/ keysAsked > 0)
          /\ keysAsked' = keysAsked /\ drawn' = drawn
      BY <1>2 DEF DrawAgain
    <2>2. /\ map' \in [key : BOOLEAN, map : BOOLEAN, due : BOOLEAN]
          /\ map'.key = map.key /\ map'.map = map.map /\ map'.due
      BY <2>1 DEF MapInv
    <2>. QED BY <2>1, <2>2 DEF MapInv
  <1>3. CASE AnswerKey
    BY <1>3 DEF AnswerKey, WithKey, MapInv
  <1>4. CASE FailKey
    BY <1>4 DEF FailKey, MapInv
  <1>5. CASE MapEffects
    <2>1. /\ map # Off /\ map.due /\ map \in [key : BOOLEAN, map : BOOLEAN, due : BOOLEAN]
          /\ keysAsked' = IF ~map.key THEN keysAsked + 1 ELSE keysAsked
          /\ drawn' = IF map.key /\ ~map.map THEN drawn + 1 ELSE drawn
          /\ redrawn' = redrawn
      BY <1>5 DEF MapEffects, AsksForKey, DrawsMap, MapInv
    <2>2. /\ map' \in [key : BOOLEAN, map : BOOLEAN, due : BOOLEAN]
          /\ map'.key = map.key
          /\ map'.map = (map.map \/ (map.key /\ ~map.map))
          /\ map'.due = (map.key /\ ~map.map)
      BY <1>5, <2>1 DEF MapEffects, DrawsMap
    <2>. QED BY <2>1, <2>2 DEF MapInv
  <1>. QED BY <1>1, <1>2, <1>3, <1>4, <1>5 DEF MapNext, MapUser, KeyAnswers

------------------------------------------------------------------------------
(* The chart *)

Charts == [range : Ranges, filters : [FilterKeys -> {"none", "set"}]]
Graphs == [range : Ranges \cup {Off}, filter : SUBSET FilterKeys]

\* What is selected was asked for last, or is drawn.
ChartInv ==
  /\ chart # Off => chart \in Charts
  /\ chartAsked \in Seq(Graphs)
  /\ chart # Off /\ ~late =>
       getLineChartExpressions(chart) = IF chartAsked = <<>> THEN graph ELSE Latest(chartAsked)

\* What a request asks for.
LEMMA Asked == ASSUME NEW c \in Charts PROVE getLineChartExpressions(c) \in Graphs
  BY DEF Charts, Graphs, getLineChartExpressions

\* Asking anew, for whatever is selected now.
LEMMA AskChart ==
  ASSUME ChartInv, NEW c \in Charts, renderLineGraph(c)
  PROVE  ChartInv'
  <1>1. /\ chartAsked' \in Seq(Graphs) /\ chartAsked' # <<>>
        /\ Latest(chartAsked') = getLineChartExpressions(c)
    BY Asked, OneMore DEF renderLineGraph, ChartInv
  <1>. QED BY <1>1 DEF renderLineGraph, ChartInv

\* A step of the chart keeps its invariant,
LEMMA ChartStep ==
  ASSUME ChartInv, ChartNext
  PROVE  ChartInv'
  <1>1. CASE OpenChart
    <2> DEFINE e == getLineChartExpressions(NewChart)
    <2>1. NewChart \in Charts
      BY ChartAssumption DEF NewChart, Charts
    <2>2. e \in Graphs
      BY <2>1, Asked
    <2> HIDE DEF e
    <2>3. chart' = NewChart /\ chartAsked' = [i \in 1 .. 2 |-> e]
      BY <1>1 DEF OpenChart, e
    <2>4. chartAsked' \in Seq(Graphs) /\ Len(chartAsked') = 2
      BY <2>2, <2>3, SeqDef
    <2>5. chartAsked' # <<>> /\ Latest(chartAsked') = e
      BY <2>3, <2>4 DEF Latest
    <2>. QED BY <2>1, <2>3, <2>4, <2>5 DEF ChartInv, e
  <1>2. CASE CloseChart
    BY <1>2 DEF CloseChart, ChartInv
  <1>3. ASSUME NEW range \in Ranges, MoveBrush(range) PROVE ChartInv'
    <2>1. [chart EXCEPT !.range = range] \in Charts
      BY <1>3 DEF MoveBrush, ChartInv, Charts
    <2>. QED BY <1>3, <2>1, AskChart DEF MoveBrush
  <1>4. ASSUME NEW k \in FilterKeys, NEW value \in {"none", "set"}, setFilterValue(k, value)
        PROVE  ChartInv'
    <2>1. [chart EXCEPT !.filters[k] = value] \in Charts
      BY <1>4 DEF setFilterValue, ChartInv, Charts
    <2>. QED BY <1>4, <2>1, AskChart DEF setFilterValue
  <1>5. ASSUME NEW i \in DOMAIN chartAsked, DrawGraph(i) PROVE ChartInv'
    <2>1. /\ chartAsked \in Seq(Graphs) /\ chartAsked # <<>>
          /\ chartAsked' = Without(chartAsked, i) /\ chartAsked' \in Seq(Graphs)
          /\ DOMAIN chartAsked = 1 .. Len(chartAsked)
      BY <1>5, WithoutOne, LenProperties DEF ChartInv, DrawGraph
    <2>2. i = 1 => IF chartAsked' = <<>> THEN Latest(chartAsked) = chartAsked[1]
                   ELSE Latest(chartAsked') = Latest(chartAsked)
      BY <2>1, WithoutOldest DEF Latest
    <2>. QED BY <1>5, <2>1, <2>2 DEF ChartInv, DrawGraph
  <1>6. ASSUME NEW i \in DOMAIN chartAsked, FailGraph(i) PROVE ChartInv'
    <2>1. chartAsked' \in Seq(Graphs)
      BY <1>6, WithoutOne DEF ChartInv, FailGraph
    <2>. QED BY <1>6, <2>1 DEF ChartInv, FailGraph
  <1>. QED BY <1>1, <1>2, <1>3, <1>4, <1>5, <1>6 DEF ChartNext, ChartUser, ChartAnswers

\* which says that with nothing under way it is what is selected.
LEMMA ChartSelected == ChartInv => GraphIsSelected
  BY DEF ChartInv, GraphIsSelected, getLineChartExpressions

------------------------------------------------------------------------------
(* The colours *)

\* What colors() uses of an object's colours is the first and those it turns.
LEMMA UsedAreTurned ==
  ASSUME NEW s \in SchemeStates
  PROVE  /\ used_colors(s) \in 1 .. 4
         /\ \A i \in 2 .. used_colors(s) : i - 1 \in DOMAIN turns(s)
         /\ 0 \notin DOMAIN turns(s)
         /\ \A i \in DOMAIN turns(s) : turns(s)[i] \in Nat
  <1>1. s.distance \in 0 .. 4 /\ s.scheme \in SCHEMES /\ s.complement \in BOOLEAN
    BY DEF SchemeStates
  <1>2. CASE s.scheme = "mono"
    <2>1. turns(s) = <<>> /\ used_colors(s) = 1
      BY <1>2 DEF turns, used_colors
    <2>. QED BY <2>1
  <1>3. CASE s.scheme = "contrast"
    <2>1. turns(s) = <<720>> /\ used_colors(s) = 2
      BY <1>3 DEF turns, used_colors
    <2>. QED BY <2>1
  <1>4. CASE s.scheme = "triade"
    <2>1. turns(s) = <<720 - 60 * s.distance, 720 + 60 * s.distance>> /\ used_colors(s) = 3
      BY <1>4 DEF turns, used_colors
    <2>. QED BY <1>1, <2>1
  <1>5. CASE s.scheme = "tetrade"
    <2>1. /\ turns(s) = <<720, 720 + 90 * s.distance, 90 * s.distance>>
          /\ used_colors(s) = 4
      BY <1>5 DEF turns, used_colors
    <2>. QED BY <1>1, <2>1
  <1>6. CASE s.scheme = "analogic"
    <2>1. /\ turns(s) = <<60 * s.distance, 1440 - 60 * s.distance, 720>>
          /\ used_colors(s) \in 3 .. 4
      BY <1>6 DEF turns, used_colors
    <2>. QED BY <1>1, <2>1
  <1>. QED BY <1>1, <1>2, <1>3, <1>4, <1>5, <1>6 DEF SCHEMES

\* The hue that a colour is turned to.
LEMMA RotateType ==
  ASSUME NEW hue \in Nat, NEW q \in Nat
  PROVE  rotate(hue, q) \in Nat
  <1>1. (4 * hue + q) % 1440 \in Nat
    OBVIOUS
  <1>. QED BY <1>1 DEF rotate, Round

\* What colors() makes of an object.
LEMMA TurnedType ==
  ASSUME NEW s \in SchemeStates
  PROVE  /\ turned(s) \in SchemeStates
         /\ turned(s) = [s EXCEPT !.col = turned(s).col]
         /\ \A i \in 1 .. 4 : turned(s).col[i] = IF i - 1 \in DOMAIN turns(s)
                                                  THEN rotate(s.col[1], turns(s)[i - 1])
                                                  ELSE s.col[i]
         /\ turned(s).col[1] = s.col[1]
  <1> DEFINE col == [i \in 1 .. 4 |-> IF i - 1 \in DOMAIN turns(s)
                                      THEN rotate(s.col[1], turns(s)[i - 1]) ELSE s.col[i]]
  <1>1. turned(s) = [s EXCEPT !.col = col]
    BY DEF turned
  <1>2. col \in [1 .. 4 -> Nat]
    <2>1. ASSUME NEW i \in 1 .. 4, i - 1 \in DOMAIN turns(s)
          PROVE  rotate(s.col[1], turns(s)[i - 1]) \in Nat
      <3>1. s.col[1] \in Nat /\ turns(s)[i - 1] \in Nat
        BY <2>1, UsedAreTurned DEF SchemeStates
      <3>. QED BY <3>1, RotateType
    <2>2. ASSUME NEW i \in 1 .. 4 PROVE s.col[i] \in Nat
      BY DEF SchemeStates
    <2>. QED BY <2>1, <2>2
  <1>3. col[1] = s.col[1]
    BY UsedAreTurned
  <1> HIDE DEF col
  <1>4. turned(s) \in SchemeStates /\ turned(s).col = col
    BY <1>1, <1>2 DEF SchemeStates
  <1>. QED BY <1>1, <1>3, <1>4 DEF col

\* Objects with the same settings have the same colours, whatever colors() has left in
\* them.
LEMMA SameColours ==
  ASSUME NEW s \in SchemeStates, NEW t \in SchemeStates,
         t.col[1] = s.col[1], [t EXCEPT !.col = 0] = [s EXCEPT !.col = 0]
  PROVE  hexes(turned(s)) = hexes(turned(t))
  <1>1. /\ t.scheme = s.scheme /\ t.distance = s.distance /\ t.webSafe = s.webSafe
        /\ t.complement = s.complement /\ t.variant = s.variant
    <2> DEFINE x == [t EXCEPT !.col = 0]
               y == [s EXCEPT !.col = 0]
    <2>1. /\ x.scheme = t.scheme /\ x.distance = t.distance /\ x.webSafe = t.webSafe
          /\ x.complement = t.complement /\ x.variant = t.variant
      BY DEF SchemeStates
    <2>2. /\ y.scheme = s.scheme /\ y.distance = s.distance /\ y.webSafe = s.webSafe
          /\ y.complement = s.complement /\ y.variant = s.variant
      BY DEF SchemeStates
    <2>3. x = y
      OBVIOUS
    <2> HIDE DEF x, y
    <2>. QED BY <2>1, <2>2, <2>3
  <1>2. turns(t) = turns(s) /\ used_colors(t) = used_colors(s)
    BY <1>1 DEF turns, used_colors
  <1> DEFINE u == turned(s)
             v == turned(t)
  <1>3. /\ u.scheme = s.scheme /\ u.complement = s.complement /\ u.variant = s.variant
        /\ u.webSafe = s.webSafe
        /\ v.scheme = t.scheme /\ v.complement = t.complement /\ v.variant = t.variant
        /\ v.webSafe = t.webSafe
    <2>1. u = [s EXCEPT !.col = u.col] /\ v = [t EXCEPT !.col = v.col]
      BY TurnedType
    <2> HIDE DEF u, v
    <2>. QED BY <2>1 DEF SchemeStates
  <1>4. used_colors(u) = used_colors(s) /\ used_colors(v) = used_colors(s)
    BY <1>1, <1>2, <1>3 DEF used_colors
  <1>5. ASSUME NEW i \in 1 .. used_colors(s) PROVE u.col[i] = v.col[i]
    <2>1. i \in 1 .. 4 /\ used_colors(s) \in 1 .. 4
      BY UsedAreTurned
    <2>2. CASE i = 1
      BY <2>2, TurnedType
    <2>3. CASE i # 1
      <3>1. i \in 2 .. used_colors(s) /\ i - 1 \in DOMAIN turns(s)
        BY <2>1, <2>3, UsedAreTurned
      <3>2. u.col[i] = rotate(s.col[1], turns(s)[i - 1])
        BY <2>1, <3>1, TurnedType
      <3>3. v.col[i] = rotate(t.col[1], turns(t)[i - 1])
        BY <1>2, <2>1, <3>1, TurnedType
      <3>. QED BY <1>2, <3>2, <3>3
    <2>. QED BY <2>2, <2>3
  <1> HIDE DEF u, v
  <1>6. ASSUME NEW n \in 1 .. 4 * used_colors(s)
        PROVE  u.col[(n - 1) \div 4 + 1] = v.col[(n - 1) \div 4 + 1]
    <2>1. used_colors(s) \in 1 .. 4
      BY UsedAreTurned
    <2>2. (n - 1) \div 4 + 1 \in 1 .. used_colors(s)
      BY <2>1
    <2>. QED BY <1>5, <2>2
  <1>7. hexes(u) = hexes(v)
    BY <1>1, <1>3, <1>4, <1>6 DEF hexes
  <1>. QED BY <1>7 DEF u, v

\* A new object with the settings of one.
LEMMA FreshType ==
  ASSUME NEW s \in SchemeStates
  PROVE  /\ fresh(s) \in SchemeStates /\ fresh(s).col[1] = s.col[1]
         /\ [fresh(s) EXCEPT !.col = 0] = [s EXCEPT !.col = 0]
  <1> DEFINE col == <<s.col[1], 60, 60, 60>>
  <1>1. s.col[1] \in Nat
    BY DEF SchemeStates
  <1>2. col \in [1 .. 4 -> Nat] /\ col[1] = s.col[1]
    BY <1>1
  <1>3. fresh(s) = [s EXCEPT !.col = col]
    BY DEF fresh
  <1> HIDE DEF col
  <1>. QED BY <1>2, <1>3 DEF SchemeStates

\* What colors() gave is of the settings.
ColoursInv ==
  /\ scheme # Off => scheme \in SchemeStates
  /\ colours # Off => scheme \in SchemeStates /\ ColoursAreOfTheSettings

\* A setting keeps it, for what colors() gave before is forgotten,
LEMMA SetStep ==
  ASSUME ColoursInv, NEW s, scheme # Off => s \in SchemeStates, set(s)
  PROVE  ColoursInv'
  BY DEF ColoursInv, set, ColoursAreOfTheSettings

\* and so does colors().
LEMMA ColorsStep ==
  ASSUME ColoursInv, colors
  PROVE  ColoursInv'
  <1>1. scheme \in SchemeStates /\ scheme' = turned(scheme) /\ colours' = hexes(turned(scheme))
    BY DEF ColoursInv, colors
  <1> DEFINE t == turned(scheme)
  <1>2. t \in SchemeStates /\ t.col[1] = scheme.col[1] /\ t = [scheme EXCEPT !.col = t.col]
    BY <1>1, TurnedType
  <1> HIDE DEF t
  <1>3. [t EXCEPT !.col = 0] = [scheme EXCEPT !.col = 0]
    BY <1>1, <1>2 DEF SchemeStates
  <1>4. /\ fresh(t) \in SchemeStates /\ fresh(t).col[1] = scheme.col[1]
        /\ [fresh(t) EXCEPT !.col = 0] = [scheme EXCEPT !.col = 0]
    BY <1>2, <1>3, FreshType
  <1>5. hexes(turned(scheme)) = hexes(turned(fresh(t)))
    BY <1>1, <1>4, SameColours
  <1>6. scheme' = t /\ colours' = hexes(turned(fresh(t)))
    BY <1>1, <1>5 DEF t
  <1>. QED BY <1>2, <1>6 DEF ColoursInv, ColoursAreOfTheSettings

\* The objects there are at first.
LEMMA NewSchemeType ==
  /\ NewColorScheme \in SchemeStates
  /\ \A n \in Nat : chartScheme(n) \in SchemeStates
  <1>1. "default" \in DOMAIN PRESETS /\ "pastel" \in DOMAIN PRESETS
    BY DEF PRESETS
  <1> DEFINE col == <<60, 60, 60, 60>>
  <1>2. col \in [1 .. 4 -> Nat]
    OBVIOUS
  <1>3. NewColorScheme = [col |-> col, scheme |-> "mono", distance |-> 2, webSafe |-> FALSE,
                          complement |-> FALSE, variant |-> "default"]
    BY DEF NewColorScheme
  <1> HIDE DEF col
  <1>4. NewColorScheme \in SchemeStates
    BY <1>1, <1>2, <1>3 DEF SchemeStates, SCHEMES
  <1>5. ASSUME NEW n \in Nat PROVE chartScheme(n) \in SchemeStates
    <2> DEFINE hue == IF n > 10 THEN n ELSE 10
               d == [col EXCEPT ![1] = hue]
    <2>1. hue \in Nat
      OBVIOUS
    <2> HIDE DEF hue
    <2>2. d \in [1 .. 4 -> Nat]
      BY <1>2, <2>1
    <2>3. chartScheme(n) = [col |-> d, scheme |-> "tetrade", distance |-> 2, webSafe |-> FALSE,
                            complement |-> FALSE, variant |-> "pastel"]
      <3>1. chartScheme(n) = [NewColorScheme EXCEPT !.col[1] = hue, !.scheme = "tetrade",
                                                    !.variant = "pastel"]
        BY DEF chartScheme, hue
      <3>2. [NewColorScheme EXCEPT !.col[1] = hue] = [NewColorScheme EXCEPT !.col = d]
        BY <1>3
      <3>. HIDE DEF d
      <3>3. [NewColorScheme EXCEPT !.col[1] = hue, !.scheme = "tetrade", !.variant = "pastel"]
              = [NewColorScheme EXCEPT !.col = d, !.scheme = "tetrade", !.variant = "pastel"]
        BY <3>2
      <3>. QED BY <1>3, <3>1, <3>3
    <2> HIDE DEF d
    <2>. QED BY <1>1, <2>2, <2>3 DEF SchemeStates, SCHEMES
  <1>. QED BY <1>4, <1>5

\* A step of the object keeps the invariant.
LEMMA SchemeStep ==
  ASSUME ColoursInv, SchemeNext
  PROVE  ColoursInv'
  <1>0. scheme # Off => scheme \in SchemeStates
    BY DEF ColoursInv
  <1>1. CASE NewScheme
    <2>1. scheme = Off /\ colours' = colours
      BY <1>1 DEF NewScheme
    <2>2. scheme' \in SchemeStates
      BY <1>1, NewSchemeType DEF NewScheme
    <2>3. colours' = Off
      BY <2>1, ColorSchemeAssumption DEF ColoursInv
    <2>. QED BY <2>2, <2>3 DEF ColoursInv, ColoursAreOfTheSettings
  <1>2. CASE colors
    BY <1>2, ColorsStep
  <1>3. ASSUME NEW h \in Hues, from_hue(h) PROVE ColoursInv'
    <2>1. h % 360 \in Nat
      BY ColorSchemeAssumption
    <2>2. scheme # Off => [scheme EXCEPT !.col[1] = h % 360] \in SchemeStates
      BY <1>0, <2>1 DEF SchemeStates
    <2>. QED BY <1>3, <2>2, SetStep DEF from_hue
  <1>4. ASSUME NEW b \in BOOLEAN, add_complement(b) PROVE ColoursInv'
    <2>1. scheme # Off => [scheme EXCEPT !.complement = b] \in SchemeStates
      BY <1>0 DEF SchemeStates
    <2>. QED BY <1>4, <2>1, SetStep DEF add_complement
  <1>5. ASSUME NEW b \in BOOLEAN, web_safe(b) PROVE ColoursInv'
    <2>1. scheme # Off => [scheme EXCEPT !.webSafe = b] \in SchemeStates
      BY <1>0 DEF SchemeStates
    <2>. QED BY <1>5, <2>1, SetStep DEF web_safe
  <1>6. ASSUME NEW d \in Quarters, distance(d) PROVE ColoursInv'
    <2>1. scheme # Off => [scheme EXCEPT !.distance = d] \in SchemeStates
      BY <1>0, ColorSchemeAssumption DEF SchemeStates
    <2>. QED BY <1>6, <2>1, SetStep DEF distance
  <1>7. ASSUME NEW name \in Schemes, setScheme(name) PROVE ColoursInv'
    <2>1. scheme # Off => [scheme EXCEPT !.scheme = name] \in SchemeStates
      BY <1>0, ColorSchemeAssumption DEF SchemeStates
    <2>. QED BY <1>7, <2>1, SetStep DEF setScheme
  <1>8. ASSUME NEW name \in Variations, variation(name) PROVE ColoursInv'
    <2>1. scheme # Off => [scheme EXCEPT !.variant = name] \in SchemeStates
      BY <1>0, ColorSchemeAssumption DEF SchemeStates
    <2>. QED BY <1>8, <2>1, SetStep DEF variation
  <1>. QED BY <1>1, <1>2, <1>3, <1>4, <1>5, <1>6, <1>7, <1>8 DEF SchemeNext

\* What a quotient is.
LEMMA Quotient ==
  ASSUME NEW n \in Int, NEW d \in Nat, d > 0
  PROVE  n \div d \in Int /\ d * (n \div d) <= n /\ n < d * (n \div d) + d
  OBVIOUS

\* Rounding natural numbers.
LEMMA RoundNat ==
  ASSUME NEW n \in Nat, NEW d \in Nat, d > 0
  PROVE  Round(n, d) \in Nat
  <1>1. (2 * n + d) \in Int /\ 2 * d \in Nat /\ 2 * d > 0 /\ 2 * n + d >= 0
    OBVIOUS
  <1> DEFINE q == (2 * n + d) \div (2 * d)
  <1>2. q \in Int /\ 2 * n + d < (2 * d) * q + 2 * d
    BY <1>1, Quotient
  <1> HIDE DEF q
  <1>3. q >= 0
    <2>1. SUFFICES ASSUME q <= -1 PROVE FALSE
      BY <1>2
    <2>2. (2 * d) * q <= (2 * d) * (-1)
      BY <1>1, <1>2, <2>1
    <2>. QED BY <1>1, <1>2, <2>2
  <1>. QED BY <1>2, <1>3 DEF Round, q

\* Between two bytes, in fifteenths.
LEMMA Between ==
  ASSUME NEW a \in 0 .. 255, NEW b \in 0 .. 255, NEW d \in 0 .. 14
  PROVE  LET c == a + Round((b - a) * d, 15)
         IN  c \in Int /\ ((a <= c /\ c <= b) \/ (b <= c /\ c <= a))
  <1> DEFINE x == (b - a) * d
  <1>1. x \in Int
    OBVIOUS
  <1>2. a <= b => 0 <= x /\ x <= 14 * (b - a)
    OBVIOUS
  <1>3. b <= a => 14 * (b - a) <= x /\ x <= 0
    OBVIOUS
  <1> HIDE DEF x
  <1> DEFINE r == (2 * x + 15) \div 30
  <1>4. r \in Int /\ (a <= b => 0 <= r /\ r <= b - a) /\ (b <= a => b - a <= r /\ r <= 0)
    BY <1>1, <1>2, <1>3
  <1>5. Round(x, 15) = r
    BY DEF Round
  <1> HIDE DEF r
  <1>. QED BY <1>4, <1>5 DEF x

\* The wheel.
LEMMA WheelBytes ==
  ASSUME NEW k \in 1 .. 24, NEW i \in 1 .. 4
  PROVE  COLOR_WHEEL[k][i] \in 0 .. 255
  BY DEF COLOR_WHEEL

Next24(k) == IF k = 24 THEN 1 ELSE k + 1

\* Two neighbours have a part in common.
LEMMA WheelLit ==
  ASSUME NEW k \in 1 .. 24
  PROVE  \E i \in 1 .. 3 : COLOR_WHEEL[k][i] > 0 /\ COLOR_WHEEL[Next24(k)][i] > 0
  <1>1. \A n \in 1 .. 11 \cup 18 .. 24 : COLOR_WHEEL[n][1] > 0
    BY DEF COLOR_WHEEL
  <1>2. \A n \in 2 .. 18 : COLOR_WHEEL[n][2] > 0
    BY DEF COLOR_WHEEL
  <1>3. k \in 1 .. 10 \cup 18 .. 24 => Next24(k) \in 1 .. 11 \cup 18 .. 24
    BY DEF Next24
  <1>4. k \in 11 .. 17 => Next24(k) \in 2 .. 18
    BY DEF Next24
  <1>5. CASE k \in 1 .. 10 \cup 18 .. 24
    BY <1>1, <1>3, <1>5
  <1>6. CASE k \in 11 .. 17
    BY <1>2, <1>4, <1>6
  <1>. QED BY <1>5, <1>6

\* A hue lies between two neighbours of the wheel.
LEMMA HueBetween ==
  ASSUME NEW hue \in Nat
  PROVE  LET d == hue % 15
             k == ((hue - d) % 360) \div 15 + 1
         IN  /\ d \in 0 .. 14 /\ k \in 1 .. 24
             /\ ((hue - d + 15) % 360) \div 15 + 1 = Next24(k)
  <1> DEFINE d == hue % 15
             m == (hue - d) \div 15
             k == ((hue - d) % 360) \div 15 + 1
  <1>1. d \in 0 .. 14 /\ m \in Int /\ hue - d = 15 * m
    OBVIOUS
  <1> HIDE DEF d, m
  <1>2. (15 * m) % 360 = 15 * (m % 24) /\ m % 24 \in 0 .. 23
    BY <1>1
  <1>3. (15 * m + 15) % 360 = 15 * ((m + 1) % 24)
    BY <1>1
  <1>4. (m + 1) % 24 = IF m % 24 = 23 THEN 0 ELSE (m % 24) + 1
    BY <1>1
  <1>5. k = (m % 24) + 1
    BY <1>1, <1>2
  <1>6. ((hue - d + 15) % 360) \div 15 = (m + 1) % 24
    BY <1>1, <1>2, <1>3, <1>4
  <1>. QED BY <1>1, <1>2, <1>4, <1>5, <1>6 DEF d, Next24

\* The colour of a hue is of bytes, not all of them 0.
LEMMA BaseType ==
  ASSUME NEW hue \in Nat
  PROVE  /\ base(hue) \in [1 .. 4 -> 0 .. 255]
         /\ \E i \in 1 .. 3 : base(hue)[i] > 0
  <1> DEFINE d == hue % 15
             k == ((hue - d) % 360) \div 15 + 1
             from == COLOR_WHEEL[k]
             to == COLOR_WHEEL[Next24(k)]
  <1>1. d \in 0 .. 14 /\ k \in 1 .. 24 /\ Next24(k) \in 1 .. 24
        /\ ((hue - d + 15) % 360) \div 15 + 1 = Next24(k)
    <2>1. k \in 1 .. 24 => Next24(k) \in 1 .. 24
      BY DEF Next24
    <2>. QED BY <2>1, HueBetween
  <1>2. base(hue) = [i \in 1 .. 4 |-> from[i] + Round((to[i] - from[i]) * d, 15)]
    BY <1>1 DEF base
  <1> HIDE DEF d, k
  <1>3. ASSUME NEW i \in 1 .. 4 PROVE from[i] \in 0 .. 255 /\ to[i] \in 0 .. 255
    BY <1>1, WheelBytes
  <1>4. PICK i \in 1 .. 3 : from[i] > 0 /\ to[i] > 0
    BY <1>1, WheelLit
  <1> HIDE DEF from, to
  <1>5. ASSUME NEW j \in 1 .. 4
        PROVE  /\ base(hue)[j] \in 0 .. 255
               /\ from[j] > 0 /\ to[j] > 0 => base(hue)[j] > 0
    <2> DEFINE c == from[j] + Round((to[j] - from[j]) * d, 15)
    <2>1. c \in Int /\ ((from[j] <= c /\ c <= to[j]) \/ (to[j] <= c /\ c <= from[j]))
      BY <1>1, <1>3, Between
    <2>2. base(hue)[j] = c
      BY <1>2
    <2> HIDE DEF c
    <2>3. from[j] \in 0 .. 255 /\ to[j] \in 0 .. 255
      BY <1>3
    <2>4. c \in 0 .. 255 /\ (from[j] > 0 /\ to[j] > 0 => c > 0)
      BY <2>1, <2>3
    <2>. QED BY <2>2, <2>4
  <1>6. base(hue) \in [1 .. 4 -> 0 .. 255]
    <2>1. DOMAIN base(hue) = 1 .. 4 /\ base(hue) = [j \in 1 .. 4 |-> base(hue)[j]]
      BY <1>2
    <2>2. \A j \in 1 .. 4 : base(hue)[j] \in 0 .. 255
      BY <1>5
    <2>. QED BY <2>1, <2>2
  <1>7. i \in 1 .. 4 /\ base(hue)[i] > 0
    BY <1>4, <1>5
  <1>. QED BY <1>4, <1>6, <1>7

\* The shares of the presets.
LEMMA PresetShares ==
  ASSUME NEW variant \in DOMAIN PRESETS, NEW n \in 1 .. 8
  PROVE  PRESETS[variant][n] \in -20 .. 20
  BY DEF PRESETS

\* A colour, every part of it a byte, and a multiple of 51 if it is to be safe.
IsHex(c, webSafe) == \A i \in 1 .. 3 : c[i] \in 0 .. 255 /\ (webSafe => c[i] % 51 = 0)

\* What get_hex gives is one, whatever the hue, preset and variant.
LEMMA HexType ==
  ASSUME NEW hue \in Nat, NEW variant \in DOMAIN PRESETS, NEW n \in 1 .. 4, NEW webSafe \in BOOLEAN
  PROVE  IsHex(get_hex(hue, PRESETS[variant], n, webSafe), webSafe)
  <1> DEFINE b == base(hue)
             most == CHOOSE x \in {b[1], b[2], b[3]} : \A i \in 1 .. 3 : b[i] <= x
             s == get_saturation(PRESETS[variant], n)
             v == get_value(PRESETS[variant], n, b[4])
             rgb == [i \in 1 .. 3 |-> Round(51 * v * (20 * most - (most - b[i]) * s), 8000 * most)]
             capped == [i \in 1 .. 3 |-> IF rgb[i] > 255 THEN 255 ELSE rgb[i]]
  <1>1. b \in [1 .. 4 -> 0 .. 255] /\ \E i \in 1 .. 3 : b[i] > 0
    BY BaseType
  <1>2. most \in 1 .. 255 /\ \A i \in 1 .. 3 : b[i] <= most
    <2> HIDE DEF b
    <2>1. \E x \in {b[1], b[2], b[3]} : \A i \in 1 .. 3 : b[i] <= x
      <3>1. b[1] \in Int /\ b[2] \in Int /\ b[3] \in Int /\ 1 .. 3 = {1, 2, 3}
        BY <1>1
      <3>2. PICK x \in {b[1], b[2], b[3]} : b[1] <= x /\ b[2] <= x /\ b[3] <= x
        BY <3>1
      <3>. QED BY <3>1, <3>2
    <2>2. most \in {b[1], b[2], b[3]} /\ \A i \in 1 .. 3 : b[i] <= most
      BY <2>1
    <2> HIDE DEF most
    <2>. QED BY <1>1, <2>2
  <1>3. s \in 0 .. 20
    <2>1. 2 * n - 1 \in 1 .. 8
      OBVIOUS
    <2>2. PRESETS[variant][2 * n - 1] \in -20 .. 20
      BY <2>1, PresetShares
    <2>. QED BY <2>2 DEF get_saturation
  <1>4. v \in Nat
    <2>1. 2 * n \in 1 .. 8 /\ b[4] \in 0 .. 255
      BY <1>1
    <2> HIDE DEF b
    <2>2. PRESETS[variant][2 * n] \in -20 .. 20
      BY <2>1, PresetShares
    <2> DEFINE x == PRESETS[variant][2 * n]
    <2>3. v = IF x < 0 THEN -x * b[4] ELSE 100 * x
      BY DEF get_value
    <2> HIDE DEF x, v
    <2>4. x < 0 => -x * b[4] \in Nat
      <3>1. x \in Int /\ b[4] \in Nat
        BY <2>1, <2>2 DEF x
      <3>2. x < 0 => -x \in Nat
        BY <3>1
      <3>. QED BY <3>1, <3>2
    <2>. QED BY <2>2, <2>3, <2>4 DEF x
  <1>5. get_hex(hue, PRESETS[variant], n, webSafe)
        = IF webSafe THEN [i \in 1 .. 3 |-> 51 * Round(capped[i], 51)] ELSE capped
    BY DEF get_hex
  <1> HIDE DEF b, most, s, v
  <1>6. ASSUME NEW i \in 1 .. 3 PROVE rgb[i] \in Nat
    <2>1. b[i] \in 0 .. most /\ most \in Nat
      BY <1>1, <1>2
    <2>2. (most - b[i]) * s \in 0 .. 20 * most
      BY <1>3, <2>1
    <2>3. 20 * most - (most - b[i]) * s \in Nat
      BY <2>1, <2>2
    <2>4. 51 * v * (20 * most - (most - b[i]) * s) \in Nat
      <3> DEFINE y == 20 * most - (most - b[i]) * s
      <3> HIDE DEF y
      <3>1. y \in Nat
        BY <2>3 DEF y
      <3>2. 51 * v * y \in Nat
        BY <1>4, <3>1
      <3>. QED BY <3>2 DEF y
    <2>5. 8000 * most \in Nat /\ 8000 * most > 0
      BY <1>2
    <2>. QED BY <2>4, <2>5, RoundNat
  <1> HIDE DEF rgb
  <1>7. ASSUME NEW i \in 1 .. 3 PROVE capped[i] \in 0 .. 255
    BY <1>6
  <1> HIDE DEF capped
  <1>8. ASSUME NEW c \in 0 .. 255 PROVE 51 * Round(c, 51) \in 0 .. 255 /\ (51 * Round(c, 51)) % 51 = 0
    <2> DEFINE q == (2 * c + 51) \div (2 * 51)
    <2>1. q \in 0 .. 5
      OBVIOUS
    <2>2. Round(c, 51) = q
      BY DEF Round
    <2> HIDE DEF q
    <2>. QED BY <2>1, <2>2
  <1>9. ASSUME NEW i \in 1 .. 3
        PROVE  /\ get_hex(hue, PRESETS[variant], n, webSafe)[i] \in 0 .. 255
               /\ webSafe => get_hex(hue, PRESETS[variant], n, webSafe)[i] % 51 = 0
    <2>1. get_hex(hue, PRESETS[variant], n, webSafe)[i]
          = IF webSafe THEN 51 * Round(capped[i], 51) ELSE capped[i]
      BY <1>5
    <2>2. CASE webSafe
      <3>1. capped[i] \in 0 .. 255
        BY <1>7
      <3>2. 51 * Round(capped[i], 51) \in 0 .. 255 /\ (51 * Round(capped[i], 51)) % 51 = 0
        BY <1>8, <3>1
      <3>. QED BY <2>1, <2>2, <3>2
    <2>3. CASE ~webSafe
      BY <1>7, <2>1, <2>3
    <2>. QED BY <2>2, <2>3
  <1>. QED BY <1>9 DEF IsHex

------------------------------------------------------------------------------
(* The colours of a chart's series *)

\* What the value v makes of a part p of a colour whose greatest is m; and when that is
\* at least a number, for p is lo hundredths of m or more, or at most one.
Part(m, p, v) == Round(51 * v * p, 8000 * m)
Above(m, p, v, lo, least) == lo * m <= 100 * p /\ (2 * least - 1) * 800000 <= 102 * v * lo
Below(m, p, v, hi, most) == 100 * p <= hi * m /\ 102 * v * hi < (2 * most + 1) * 800000

\* As they say.
LEMMA RoundIsAbove ==
  ASSUME NEW m \in 1 .. 255, NEW p \in Nat, NEW v \in Nat, NEW lo \in Nat, NEW least \in Nat,
         Above(m, p, v, lo, least)
  PROVE  Part(m, p, v) >= least
  <1> DEFINE n == 102 * v * p + 8000 * m
             q == n \div (16000 * m)
  <1>1. v * p \in Nat /\ n \in Int /\ 16000 * m \in Nat /\ 16000 * m > 0
    OBVIOUS
  <1>2. Part(m, p, v) = q
    <2>1. 2 * (51 * v * p) + 8000 * m = n
      BY <1>1
    <2>2. 2 * (8000 * m) = 16000 * m
      OBVIOUS
    <2>. HIDE DEF n
    <2>. QED BY <2>1, <2>2 DEF Round, Part
  <1> HIDE DEF n
  <1>3. q \in Int /\ n < (16000 * m) * q + 16000 * m
    BY <1>1, Quotient
  <1> HIDE DEF q
  <1>4. ASSUME q <= least - 1 PROVE FALSE
    <2>1. m * q <= m * (least - 1)
      BY <1>3, <1>4
    <2>2. n < 16000 * (m * least)
      <3>1. (16000 * m) * q = 16000 * (m * q) /\ m * (least - 1) = m * least - m
        BY <1>3
      <3>2. m * q \in Int /\ m * least \in Int
        BY <1>3
      <3>. QED BY <1>1, <1>3, <2>1, <3>1, <3>2
    <2>3. 102 * v * p < 8000 * (m * (2 * least - 1))
      BY <1>1, <2>2 DEF n
    <2>4. v * (lo * m) <= v * (100 * p)
      BY DEF Above
    <2>5. (102 * v * lo) * m <= 10200 * (v * p)
      BY <1>1, <2>4
    <2>6. ((2 * least - 1) * 800000) * m <= (102 * v * lo) * m
      BY DEF Above
    <2>. QED BY <1>1, <2>3, <2>5, <2>6
  <1>. QED BY <1>2, <1>3, <1>4

\* The same for the other bound.
LEMMA RoundIsBelow ==
  ASSUME NEW m \in 1 .. 255, NEW p \in Nat, NEW v \in Nat, NEW hi \in Nat, NEW most \in Nat,
         Below(m, p, v, hi, most)
  PROVE  Part(m, p, v) <= most
  <1> DEFINE n == 102 * v * p + 8000 * m
             q == n \div (16000 * m)
  <1>1. v * p \in Nat /\ n \in Int /\ 16000 * m \in Nat /\ 16000 * m > 0
    OBVIOUS
  <1>2. Part(m, p, v) = q
    <2>1. 2 * (51 * v * p) + 8000 * m = n
      BY <1>1
    <2>2. 2 * (8000 * m) = 16000 * m
      OBVIOUS
    <2>. HIDE DEF n
    <2>. QED BY <2>1, <2>2 DEF Round, Part
  <1> HIDE DEF n
  <1>3. q \in Int /\ (16000 * m) * q <= n
    BY <1>1, Quotient
  <1> HIDE DEF q
  <1>4. ASSUME q >= most + 1 PROVE FALSE
    <2>1. m * (most + 1) <= m * q
      BY <1>3, <1>4
    <2>2. 16000 * (m * most) + 16000 * m <= n
      <3>1. (16000 * m) * q = 16000 * (m * q) /\ m * (most + 1) = m * most + m
        BY <1>3
      <3>2. m * q \in Int /\ m * most \in Int
        BY <1>3
      <3>. QED BY <1>1, <1>3, <2>1, <3>1, <3>2
    <2>3. 8000 * (m * (2 * most + 1)) <= 102 * v * p
      BY <1>1, <2>2 DEF n
    <2>4. v * (100 * p) <= v * (hi * m)
      BY DEF Below
    <2>5. 10200 * (v * p) <= (102 * v * hi) * m
      BY <1>1, <2>4
    <2>6. (102 * v * hi) * m < ((2 * most + 1) * 800000) * m
      BY DEF Below
    <2>. QED BY <1>1, <2>3, <2>5, <2>6
  <1>. QED BY <1>2, <1>3, <1>4

\* A part b of a colour whose greatest is m, in the variant of saturation s and value v.
Shade(m, b, s, v) == Part(m, 20 * m - (m - b) * s, v)

\* What the n-th variant makes of the greatest part, if the hue is of full value; of a
\* part that is almost none, at least and at most; and a number between what it makes
\* of a third and of a half.
Brightest == <<230, 128, 230, 191>>
LowFrom == <<79, 64, 207, 48>>
LowTo == <<116, 64, 207, 49>>
Middle == <<156, 90, 216, 110>>

Saturation == <<10, 10, 2, 15>>
Value(n, value) == IF n = 1 THEN 18 * value ELSE <<0, 1000, 1800, 1500>>[n]

\* The pastel variants.
LEMMA PastelVariants ==
  ASSUME NEW n \in 1 .. 4, NEW value \in Nat
  PROVE  /\ get_saturation(PRESETS.pastel, n) = Saturation[n]
         /\ get_value(PRESETS.pastel, n, value) = Value(n, value)
  <1>1. PRESETS.pastel = << 10, -18,  10,  10,   2, 18,  15, 15>>
    BY DEF PRESETS
  <1>2. n \in {1, 2, 3, 4}
    OBVIOUS
  <1>. QED BY <1>1, <1>2 DEF get_saturation, get_value, Saturation, Value

\* What the n-th variant makes of a part b of a colour whose greatest is m.
Shaded(c, n, b, m, value) ==
  /\ c \in 0 .. 255
  /\ b = m /\ value = 100 => c = Brightest[n]
  /\ b = m \/ (100 * b >= 56 * m /\ value = 100) => c > Middle[n]
  /\ 100 * b <= 35 * m => c <= Middle[n]
  /\ 100 * b <= m => c \in LowFrom[n] .. LowTo[n]

\* It is of one part of a hue of any value there is.
LEMMA PastelShades ==
  ASSUME NEW n \in 1 .. 4, NEW value \in 69 .. 100, NEW m \in 1 .. 255, NEW b \in 0 .. m
  PROVE  Shaded(Shade(m, b, Saturation[n], Value(n, value)), n, b, m, value)
  <1> DEFINE s == Saturation[n]
             v == Value(n, value)
             p == 20 * m - (m - b) * s
             c == Part(m, p, v)
  <1>1. n = 1 \/ n = 2 \/ n = 3 \/ n = 4
    OBVIOUS
  <1>2. s \in {2, 10, 15} /\ v \in Nat
    BY <1>1 DEF Saturation, Value
  <1>3. /\ p \in Nat
        /\ b = m => 100 * p = 2000 * m
        /\ 100 * p <= 2000 * m
        /\ 100 * b >= 56 * m => (2000 - 44 * s) * m <= 100 * p
        /\ 100 * b <= 35 * m => 100 * p <= (2000 - 65 * s) * m
        /\ 100 * b <= m => 100 * p <= (2000 - 99 * s) * m
        /\ (2000 - 100 * s) * m <= 100 * p
    <2> HIDE DEF s
    <2>. QED BY <1>2
  <1>4. value = 100 => /\ (2 * Brightest[n] - 1) * 800000 <= 102 * v * 2000
                       /\ 102 * v * 2000 < (2 * Brightest[n] + 1) * 800000
                       /\ (2 * (Middle[n] + 1) - 1) * 800000 <= 102 * v * (2000 - 44 * s)
    BY <1>1 DEF Saturation, Value, Brightest, Middle
  <1>5. /\ (2 * (Middle[n] + 1) - 1) * 800000 <= 102 * v * 2000
        /\ 102 * v * (2000 - 65 * s) < (2 * Middle[n] + 1) * 800000
        /\ 102 * v * 2000 < (2 * 255 + 1) * 800000
    BY <1>1 DEF Saturation, Value, Middle
  <1>6. /\ (2 * LowFrom[n] - 1) * 800000 <= 102 * v * (2000 - 100 * s)
        /\ 102 * v * (2000 - 99 * s) < (2 * LowTo[n] + 1) * 800000
    BY <1>1 DEF Saturation, Value, LowFrom, LowTo
  <1>7. Brightest[n] \in Nat /\ Middle[n] \in Nat /\ LowFrom[n] \in Nat /\ LowTo[n] \in Nat
    BY <1>1 DEF Brightest, Middle, LowFrom, LowTo
  <1>8. c \in Nat
    <2>1. 51 * v * p \in Nat /\ 8000 * m \in Nat /\ 8000 * m > 0
      BY <1>2, <1>3
    <2>. HIDE DEF v, p
    <2>. QED BY <2>1, RoundNat DEF Part
  <1> DEFINE whole == 2000
             half == 2000 - 44 * s
             third == 2000 - 65 * s
             none == 2000 - 100 * s
             little == 2000 - 99 * s
  <1>9. whole \in Nat /\ half \in Nat /\ third \in Nat /\ none \in Nat /\ little \in Nat
    BY <1>2
  <1> HIDE DEF s, v, p, whole, half, third, none, little
  <1>10. v \in Nat /\ p \in Nat
    BY <1>2, <1>3
  <1>11. ASSUME b = m, value = 100 PROVE c = Brightest[n]
    <2>1. Above(m, p, v, whole, Brightest[n]) /\ Below(m, p, v, whole, Brightest[n])
      BY <1>3, <1>4, <1>11 DEF Above, Below, whole
    <2>2. c >= Brightest[n] /\ c <= Brightest[n]
      BY <1>7, <1>9, <1>10, <2>1, RoundIsAbove, RoundIsBelow
    <2>. QED BY <1>7, <1>8, <2>2
  <1>12. ASSUME b = m \/ (100 * b >= 56 * m /\ value = 100) PROVE c > Middle[n]
    <2> DEFINE next == Middle[n] + 1
    <2>1. next \in Nat
      BY <1>7
    <2>2. Above(m, p, v, whole, next) \/ Above(m, p, v, half, next)
      BY <1>3, <1>4, <1>5, <1>12 DEF Above, whole, half
    <2>. HIDE DEF next
    <2>3. c >= next
      BY <1>9, <1>10, <2>1, <2>2, RoundIsAbove
    <2>. QED BY <1>7, <1>8, <2>3 DEF next
  <1>13. ASSUME 100 * b <= 35 * m PROVE c <= Middle[n]
    <2>1. Below(m, p, v, third, Middle[n])
      BY <1>3, <1>5, <1>13 DEF Below, third
    <2>. QED BY <1>7, <1>9, <1>10, <2>1, RoundIsBelow
  <1>14. ASSUME 100 * b <= m PROVE c \in LowFrom[n] .. LowTo[n]
    <2>1. Above(m, p, v, none, LowFrom[n]) /\ Below(m, p, v, little, LowTo[n])
      BY <1>3, <1>6, <1>14 DEF Above, Below, none, little
    <2>2. LowFrom[n] <= c /\ c <= LowTo[n]
      BY <1>7, <1>9, <1>10, <2>1, RoundIsAbove, RoundIsBelow
    <2>. QED BY <1>7, <1>8, <2>2
  <1>15. c <= 255
    <2> DEFINE most == 255
    <2>1. Below(m, p, v, whole, most) /\ most \in Nat
      BY <1>3, <1>5 DEF Below, whole
    <2>. HIDE DEF most
    <2>2. c <= most
      BY <1>9, <1>10, <2>1, RoundIsBelow
    <2>. QED BY <2>2 DEF most
  <1>16. c = Shade(m, b, Saturation[n], Value(n, value))
    BY DEF Shade, s, v, p
  <1> HIDE DEF c
  <1>. QED BY <1>8, <1>11, <1>12, <1>13, <1>14, <1>15, <1>16 DEF Shaded

\* The greatest part of a colour.
Greatest(b, m) == m \in {b[1], b[2], b[3]} /\ \A i \in 1 .. 3 : b[i] <= m

\* A pastel variant of a hue.
Pastel(hue, n) == get_hex(hue, PRESETS.pastel, n, FALSE)

\* It is what the shares of the preset make of each part.
LEMMA PastelHex ==
  ASSUME NEW hue \in Nat, NEW n \in 1 .. 4, NEW m \in 1 .. 255,
         Greatest(base(hue), m), base(hue)[4] \in 69 .. 100
  PROVE  \A i \in 1 .. 3 : /\ base(hue)[i] \in 0 .. m
                           /\ Pastel(hue, n)[i]
                              = Shade(m, base(hue)[i], Saturation[n], Value(n, base(hue)[4]))
  <1> DEFINE b == base(hue)
             most == CHOOSE x \in {b[1], b[2], b[3]} : \A i \in 1 .. 3 : b[i] <= x
             s == Saturation[n]
             v == Value(n, b[4])
             rgb == [i \in 1 .. 3 |-> Round(51 * v * (20 * m - (m - b[i]) * s), 8000 * m)]
             capped == [i \in 1 .. 3 |-> IF rgb[i] > 255 THEN 255 ELSE rgb[i]]
  <1>1. b \in [1 .. 4 -> 0 .. 255]
    BY BaseType
  <1>2. most = m
    <2> HIDE DEF b
    <2>1. m \in {b[1], b[2], b[3]} /\ \A i \in 1 .. 3 : b[i] <= m
      BY DEF Greatest, b
    <2>2. most \in {b[1], b[2], b[3]} /\ \A i \in 1 .. 3 : b[i] <= most
      BY <2>1
    <2> HIDE DEF most
    <2>3. b[1] \in Int /\ b[2] \in Int /\ b[3] \in Int /\ 1 .. 3 = {1, 2, 3}
      BY <1>1
    <2>4. m <= most /\ most <= m /\ most \in Int
      BY <2>1, <2>2, <2>3
    <2>. QED BY <2>4
  <1>3. get_saturation(PRESETS.pastel, n) = s /\ get_value(PRESETS.pastel, n, b[4]) = v
    BY PastelVariants
  <1>4. get_hex(hue, PRESETS.pastel, n, FALSE) = capped
    <2> DEFINE s0 == get_saturation(PRESETS.pastel, n)
               v0 == get_value(PRESETS.pastel, n, b[4])
               x == [i \in 1 .. 3 |-> Round(51 * v0 * (20 * most - (most - b[i]) * s0), 8000 * most)]
    <2>1. get_hex(hue, PRESETS.pastel, n, FALSE) = [i \in 1 .. 3 |-> IF x[i] > 255 THEN 255 ELSE x[i]]
      BY DEF get_hex
    <2>2. s0 = s /\ v0 = v
      BY <1>3
    <2> HIDE DEF b, most, s, v, s0, v0
    <2>3. x = rgb
      BY <1>2, <2>2
    <2>4. capped = [i \in 1 .. 3 |-> IF x[i] > 255 THEN 255 ELSE x[i]]
      BY <2>3
    <2> HIDE DEF x, rgb, capped
    <2>. QED BY <2>1, <2>4
  <1>5. ASSUME NEW i \in 1 .. 3
        PROVE  b[i] \in 0 .. m /\ rgb[i] = Shade(m, b[i], s, v)
    <2>1. b[i] \in 0 .. 255 /\ b[i] <= m
      BY <1>1 DEF Greatest
    <2>2. rgb[i] = Shade(m, b[i], s, v)
      BY DEF Shade, Part
    <2> HIDE DEF b, rgb
    <2>. QED BY <2>1, <2>2
  <1>6. ASSUME NEW i \in 1 .. 3 PROVE capped[i] = Shade(m, b[i], s, v)
    <2>1. b[i] \in 0 .. m /\ b[4] \in 69 .. 100
      BY <1>5
    <2> HIDE DEF b, rgb
    <2>2. Shaded(Shade(m, b[i], s, v), n, b[i], m, b[4])
      BY <2>1, PastelShades DEF s, v
    <2> HIDE DEF s, v
    <2>. QED BY <1>5, <2>2 DEF Shaded
  <1> HIDE DEF rgb, capped
  <1>. QED BY <1>4, <1>5, <1>6 DEF Pastel

\* A hue between the wheel's (k+1)-th and its next.
LEMMA BaseAt ==
  ASSUME NEW k \in 0 .. 22, NEW d \in 0 .. 14
  PROVE  base(15 * k + d)
         = [i \in 1 .. 4 |-> COLOR_WHEEL[k + 1][i]
                             + Round((COLOR_WHEEL[k + 2][i] - COLOR_WHEEL[k + 1][i]) * d, 15)]
  <1> DEFINE hue == 15 * k + d
  <1>1. hue % 15 = d /\ hue - d = 15 * k
    OBVIOUS
  <1>2. ((15 * k) % 360) \div 15 = k /\ ((15 * k + 15) % 360) \div 15 = k + 1
    OBVIOUS
  <1> HIDE DEF hue
  <1>3. base(hue) = [i \in 1 .. 4 |-> COLOR_WHEEL[k + 1][i]
                      + Round((COLOR_WHEEL[k + 1 + 1][i] - COLOR_WHEEL[k + 1][i]) * d, 15)]
    BY <1>1, <1>2 DEF base
  <1>. QED BY <1>3 DEF hue

\* How far a degree is from the colour before, on the way between two parts.
LEMMA OnTheWay ==
  ASSUME NEW k \in 0 .. 22, NEW d \in 0 .. 14, NEW i \in 1 .. 4
  PROVE  base(15 * k + d)[i] = COLOR_WHEEL[k + 1][i]
           + (2 * ((COLOR_WHEEL[k + 2][i] - COLOR_WHEEL[k + 1][i]) * d) + 15) \div 30
  <1> DEFINE x == (COLOR_WHEEL[k + 2][i] - COLOR_WHEEL[k + 1][i]) * d
  <1>1. base(15 * k + d)[i] = COLOR_WHEEL[k + 1][i] + Round(x, 15)
    BY BaseAt
  <1> HIDE DEF x
  <1>2. Round(x, 15) = (2 * x + 15) \div 30
    BY DEF Round
  <1>. QED BY <1>1, <1>2 DEF x

\* The four hues of a chart whose first is h: two of them warm, two light.
SeriesHues(h) == <<h, h + 180, h + 225, h + 45>>
Warm == {1, 4}
Light == {2, 4}

\* The d-th degree after the k-th colour of the wheel; the two colours it is between,
\* and its own parts.
Degree(k, d) == 15 * k + d
Neighbours(k, from, to) == k \in 0 .. 22 /\ COLOR_WHEEL[k + 1] = from /\ COLOR_WHEEL[k + 2] = to
Lies(k, d, from, to) ==
  \A i \in 1 .. 4 : base(Degree(k, d))[i] = from[i] + (2 * ((to[i] - from[i]) * d) + 15) \div 30

\* The parts of a degree, from those of the two.
LEMMA PartsAt ==
  ASSUME NEW k, NEW d \in 0 .. 14, NEW from, NEW to, Neighbours(k, from, to)
  PROVE  Lies(k, d, from, to)
  <1>1. k \in 0 .. 22 /\ COLOR_WHEEL[k + 1] = from /\ COLOR_WHEEL[k + 2] = to
    BY DEF Neighbours
  <1>2. ASSUME NEW i \in 1 .. 4
       PROVE  base(15 * k + d)[i] = from[i] + (2 * ((to[i] - from[i]) * d) + 15) \div 30
    BY <1>1, OnTheWay
  <1>. QED BY <1>2 DEF Lies, Degree

\* What the parts of the j-th are: of a warm one all the red and no blue, of another
\* hardly any red; of a light one much green, of another little.
IsSeriesHue(j, b) ==
  /\ b[4] \in 69 .. 100
  /\ j \in Warm => b[1] = 255 /\ b[3] = 0 /\ b[4] = 100 /\ Greatest(b, 255)
  /\ j = 1 => 100 * b[2] <= 35 * 255
  /\ j = 4 => 100 * b[2] >= 56 * 255
  /\ j = 2 => 100 * b[1] <= b[2] /\ Greatest(b, b[2])
  /\ j = 3 => 100 * b[1] <= b[3] /\ 100 * b[2] <= 35 * b[3] /\ Greatest(b, b[3])

\* They are: each is between two colours of the wheel, of which the parts are known.
LEMMA SeriesBase ==
  ASSUME NEW h \in 10 .. 16, NEW j \in 1 .. 4
  PROVE  SeriesHues(h)[j] \in Nat /\ IsSeriesHue(j, base(SeriesHues(h)[j]))
  <1>1. PICK k \in 0 .. 1, d \in 0 .. 14 : h = 15 * k + d /\ (k = 0 => d >= 10) /\ (k = 1 => d <= 1)
    <2>1. CASE h \in 10 .. 14
      BY <2>1
    <2>2. CASE h \in 15 .. 16
      BY <2>2
    <2>. QED BY <2>1, <2>2
  <1>2. CASE j = 1
    <2> DEFINE n == k + 0
               b == base(Degree(n, d))
    <2>1. SeriesHues(h)[j] = Degree(n, d) /\ SeriesHues(h)[j] \in Nat
      BY <1>1, <1>2 DEF SeriesHues, Degree
    <2> HIDE DEF n
    <2>2. CASE k = 0
      <3> DEFINE from == <<255, 0, 0, 100>>
                 to == <<255, 51, 0, 100>>
      <3>1. Neighbours(n, from, to)
        BY <2>2 DEF Neighbours, COLOR_WHEEL, n
      <3> HIDE DEF b, from, to
      <3>2. Lies(n, d, from, to)
        BY <3>1, PartsAt
      <3>3. /\ b[1] = 255
            /\ b[2] = 0 + (2 * ((51 - 0) * d) + 15) \div 30
            /\ b[3] = 0
            /\ b[4] = 100
        BY <3>2 DEF Lies, b, from, to
      <3>. QED BY <1>1, <1>2, <2>1, <2>2, <3>3 DEF b, Warm, Greatest, IsSeriesHue
    <2>3. CASE k = 1
      <3> DEFINE from == <<255, 51, 0, 100>>
                 to == <<255, 102, 0, 100>>
      <3>1. Neighbours(n, from, to)
        BY <2>3 DEF Neighbours, COLOR_WHEEL, n
      <3> HIDE DEF b, from, to
      <3>2. Lies(n, d, from, to)
        BY <3>1, PartsAt
      <3>3. /\ b[1] = 255
            /\ b[2] = 51 + (2 * ((102 - 51) * d) + 15) \div 30
            /\ b[3] = 0
            /\ b[4] = 100
        BY <3>2 DEF Lies, b, from, to
      <3>. QED BY <1>1, <1>2, <2>1, <2>3, <3>3 DEF b, Warm, Greatest, IsSeriesHue
    <2>. QED BY <1>1, <2>2, <2>3
  <1>3. CASE j = 2
    <2> DEFINE n == k + 12
               b == base(Degree(n, d))
    <2>1. SeriesHues(h)[j] = Degree(n, d) /\ SeriesHues(h)[j] \in Nat
      BY <1>1, <1>3 DEF SeriesHues, Degree
    <2> HIDE DEF n
    <2>2. CASE k = 0
      <3> DEFINE from == <<0, 204, 0, 80>>
                 to == <<0, 178, 102, 70>>
      <3>1. Neighbours(n, from, to)
        BY <2>2 DEF Neighbours, COLOR_WHEEL, n
      <3> HIDE DEF b, from, to
      <3>2. Lies(n, d, from, to)
        BY <3>1, PartsAt
      <3>3. /\ b[1] = 0
            /\ b[2] = 204 + (2 * ((178 - 204) * d) + 15) \div 30
            /\ b[3] = 0 + (2 * ((102 - 0) * d) + 15) \div 30
            /\ b[4] = 80 + (2 * ((70 - 80) * d) + 15) \div 30
        BY <3>2 DEF Lies, b, from, to
      <3>. QED BY <1>1, <1>3, <2>1, <2>2, <3>3 DEF b, Warm, Greatest, IsSeriesHue
    <2>3. CASE k = 1
      <3> DEFINE from == <<0, 178, 102, 70>>
                 to == <<0, 153, 153, 60>>
      <3>1. Neighbours(n, from, to)
        BY <2>3 DEF Neighbours, COLOR_WHEEL, n
      <3> HIDE DEF b, from, to
      <3>2. Lies(n, d, from, to)
        BY <3>1, PartsAt
      <3>3. /\ b[1] = 0
            /\ b[2] = 178 + (2 * ((153 - 178) * d) + 15) \div 30
            /\ b[3] = 102 + (2 * ((153 - 102) * d) + 15) \div 30
            /\ b[4] = 70 + (2 * ((60 - 70) * d) + 15) \div 30
        BY <3>2 DEF Lies, b, from, to
      <3>. QED BY <1>1, <1>3, <2>1, <2>3, <3>3 DEF b, Warm, Greatest, IsSeriesHue
    <2>. QED BY <1>1, <2>2, <2>3
  <1>4. CASE j = 3
    <2> DEFINE n == k + 15
               b == base(Degree(n, d))
    <2>1. SeriesHues(h)[j] = Degree(n, d) /\ SeriesHues(h)[j] \in Nat
      BY <1>1, <1>4 DEF SeriesHues, Degree
    <2> HIDE DEF n
    <2>2. CASE k = 0
      <3> DEFINE from == <<0, 102, 178, 70>>
                 to == <<0, 51, 204, 80>>
      <3>1. Neighbours(n, from, to)
        BY <2>2 DEF Neighbours, COLOR_WHEEL, n
      <3> HIDE DEF b, from, to
      <3>2. Lies(n, d, from, to)
        BY <3>1, PartsAt
      <3>3. /\ b[1] = 0
            /\ b[2] = 102 + (2 * ((51 - 102) * d) + 15) \div 30
            /\ b[3] = 178 + (2 * ((204 - 178) * d) + 15) \div 30
            /\ b[4] = 70 + (2 * ((80 - 70) * d) + 15) \div 30
        BY <3>2 DEF Lies, b, from, to
      <3>. QED BY <1>1, <1>4, <2>1, <2>2, <3>3 DEF b, Warm, Greatest, IsSeriesHue
    <2>3. CASE k = 1
      <3> DEFINE from == <<0, 51, 204, 80>>
                 to == <<25, 25, 178, 70>>
      <3>1. Neighbours(n, from, to)
        BY <2>3 DEF Neighbours, COLOR_WHEEL, n
      <3> HIDE DEF b, from, to
      <3>2. Lies(n, d, from, to)
        BY <3>1, PartsAt
      <3>3. /\ b[1] = 0 + (2 * ((25 - 0) * d) + 15) \div 30
            /\ b[2] = 51 + (2 * ((25 - 51) * d) + 15) \div 30
            /\ b[3] = 204 + (2 * ((178 - 204) * d) + 15) \div 30
            /\ b[4] = 80 + (2 * ((70 - 80) * d) + 15) \div 30
        BY <3>2 DEF Lies, b, from, to
      <3>. QED BY <1>1, <1>4, <2>1, <2>3, <3>3 DEF b, Warm, Greatest, IsSeriesHue
    <2>. QED BY <1>1, <2>2, <2>3
  <1>5. CASE j = 4
    <2> DEFINE n == k + 3
               b == base(Degree(n, d))
    <2>1. SeriesHues(h)[j] = Degree(n, d) /\ SeriesHues(h)[j] \in Nat
      BY <1>1, <1>5 DEF SeriesHues, Degree
    <2> HIDE DEF n
    <2>2. CASE k = 0
      <3> DEFINE from == <<255, 128, 0, 100>>
                 to == <<255, 153, 0, 100>>
      <3>1. Neighbours(n, from, to)
        BY <2>2 DEF Neighbours, COLOR_WHEEL, n
      <3> HIDE DEF b, from, to
      <3>2. Lies(n, d, from, to)
        BY <3>1, PartsAt
      <3>3. /\ b[1] = 255
            /\ b[2] = 128 + (2 * ((153 - 128) * d) + 15) \div 30
            /\ b[3] = 0
            /\ b[4] = 100
        BY <3>2 DEF Lies, b, from, to
      <3>. QED BY <1>1, <1>5, <2>1, <2>2, <3>3 DEF b, Warm, Greatest, IsSeriesHue
    <2>3. CASE k = 1
      <3> DEFINE from == <<255, 153, 0, 100>>
                 to == <<255, 178, 0, 100>>
      <3>1. Neighbours(n, from, to)
        BY <2>3 DEF Neighbours, COLOR_WHEEL, n
      <3> HIDE DEF b, from, to
      <3>2. Lies(n, d, from, to)
        BY <3>1, PartsAt
      <3>3. /\ b[1] = 255
            /\ b[2] = 153 + (2 * ((178 - 153) * d) + 15) \div 30
            /\ b[3] = 0
            /\ b[4] = 100
        BY <3>2 DEF Lies, b, from, to
      <3>. QED BY <1>1, <1>5, <2>1, <2>3, <3>3 DEF b, Warm, Greatest, IsSeriesHue
    <2>. QED BY <1>1, <2>2, <2>3
  <1>. QED BY <1>2, <1>3, <1>4, <1>5

\* What tells the n-th variant of the j-th hue of a chart from the others.
InSeries(c, j, n) ==
  /\ c[1] \in Nat /\ c[2] \in Nat /\ c[3] \in Nat
  /\ IF j \in Warm THEN c[1] = Brightest[n] /\ c[3] \in LowFrom[n] .. LowTo[n]
                    ELSE c[1] \in LowFrom[n] .. LowTo[n]
  /\ IF j \in Light THEN c[2] > Middle[n] ELSE c[2] <= Middle[n]

\* So is each of the sixteen colours.
LEMMA SeriesColour ==
  ASSUME NEW h \in 10 .. 16, NEW j \in 1 .. 4, NEW n \in 1 .. 4
  PROVE  InSeries(Pastel(SeriesHues(h)[j], n), j, n)
  <1> DEFINE hue == SeriesHues(h)[j]
             b == base(hue)
             s == Saturation[n]
             v == Value(n, b[4])
             c == Pastel(hue, n)
  <1>1. /\ hue \in Nat
        /\ b[4] \in 69 .. 100
        /\ j \in Warm => b[1] = 255 /\ b[3] = 0 /\ b[4] = 100 /\ Greatest(b, 255)
        /\ j = 1 => 100 * b[2] <= 35 * 255
        /\ j = 4 => 100 * b[2] >= 56 * 255
        /\ j = 2 => 100 * b[1] <= b[2] /\ Greatest(b, b[2])
        /\ j = 3 => 100 * b[1] <= b[3] /\ 100 * b[2] <= 35 * b[3] /\ Greatest(b, b[3])
    <2>1. hue \in Nat /\ IsSeriesHue(j, b)
      BY SeriesBase
    <2>. HIDE DEF hue, b
    <2>. QED BY <2>1 DEF IsSeriesHue
  <1> HIDE DEF hue, s, v, c
  <1>2. b \in [1 .. 4 -> 0 .. 255] /\ \E i \in 1 .. 3 : b[i] > 0
    <2>1. hue \in Nat
      BY <1>1
    <2>. QED BY <2>1, BaseType
  <1> HIDE DEF b
  <1>3. PICK m \in 1 .. 255 :
          /\ Greatest(b, m)
          /\ j \in Warm => m = 255
          /\ j = 2 => m = b[2]
          /\ j = 3 => m = b[3]
    <2>1. b[1] \in 0 .. 255 /\ b[2] \in 0 .. 255 /\ b[3] \in 0 .. 255 /\ 1 .. 3 = {1, 2, 3}
      BY <1>2
    <2>2. b[1] > 0 \/ b[2] > 0 \/ b[3] > 0
      BY <1>2, <2>1
    <2>3. CASE j \in Warm
      <3>. WITNESS 255 \in 1 .. 255
      <3>. QED BY <1>1, <2>3 DEF Warm
    <2>4. CASE j = 2
      <3>1. b[1] <= b[2] /\ b[2] <= b[2] /\ b[3] <= b[2]
        BY <1>1, <2>1, <2>4 DEF Greatest
      <3>2. b[2] \in 1 .. 255
        BY <2>1, <2>2, <3>1
      <3>. WITNESS b[2] \in 1 .. 255
      <3>. QED BY <1>1, <2>4 DEF Warm
    <2>5. CASE j = 3
      <3>1. b[1] <= b[3] /\ b[2] <= b[3] /\ b[3] <= b[3]
        BY <1>1, <2>1, <2>5 DEF Greatest
      <3>2. b[3] \in 1 .. 255
        BY <2>1, <2>2, <3>1
      <3>. WITNESS b[3] \in 1 .. 255
      <3>. QED BY <1>1, <2>5 DEF Warm
    <2>. QED BY <2>3, <2>4, <2>5 DEF Warm
  <1>4. ASSUME NEW i \in 1 .. 3
        PROVE  Shaded(c[i], n, b[i], m, b[4])
    <2>1. hue \in Nat /\ b[4] \in 69 .. 100 /\ Greatest(b, m)
      BY <1>1, <1>3
    <2>2. b[i] \in 0 .. m /\ c[i] = Shade(m, b[i], s, v)
      BY <2>1, PastelHex DEF b, c, s, v
    <2>. QED BY <2>1, <2>2, PastelShades DEF s, v
  <1>5. c[1] \in Nat /\ c[2] \in Nat /\ c[3] \in Nat
    <2>1. ASSUME NEW i \in 1 .. 3 PROVE c[i] \in Nat
      <3>1. Shaded(c[i], n, b[i], m, b[4])
        BY <1>4
      <3>2. c[i] \in 0 .. 255
        BY <3>1 DEF Shaded
      <3>. QED BY <3>2
    <2>. QED BY <2>1
  <1>6. j \in Warm => c[1] = Brightest[n] /\ c[3] \in LowFrom[n] .. LowTo[n]
    BY <1>1, <1>3, <1>4 DEF Shaded
  <1>7. j \notin Warm => c[1] \in LowFrom[n] .. LowTo[n]
    BY <1>1, <1>3, <1>4 DEF Shaded, Warm
  <1>8. j \in Light => c[2] > Middle[n]
    BY <1>1, <1>3, <1>4 DEF Shaded, Light, Warm
  <1>9. j \notin Light => c[2] <= Middle[n]
    BY <1>1, <1>3, <1>4 DEF Shaded, Light, Warm
  <1>. QED BY <1>5, <1>6, <1>7, <1>8, <1>9 DEF InSeries, c, hue

\* Variants of different hues, or different variants, are different colours.
LEMMA SeriesApart ==
  ASSUME NEW j \in 1 .. 4, NEW n \in 1 .. 4, NEW k \in 1 .. 4, NEW m \in 1 .. 4,
         NEW c, InSeries(c, j, n), InSeries(c, k, m)
  PROVE  j = k /\ n = m
  <1>1. n = m
    <2>1. SUFFICES ASSUME n # m PROVE FALSE
      OBVIOUS
    <2>2. j \in Warm /\ k \in Warm => LowFrom[n] <= LowTo[m] /\ LowFrom[m] <= LowTo[n]
      BY DEF InSeries, LowFrom, LowTo
    <2>3. j \notin Warm /\ k \notin Warm => LowFrom[n] <= LowTo[m] /\ LowFrom[m] <= LowTo[n]
      BY DEF InSeries, LowFrom, LowTo
    <2>4. LowTo[n] < LowFrom[m] \/ LowTo[m] < LowFrom[n]
      BY <2>1 DEF LowFrom, LowTo
    <2>5. Brightest[n] \notin LowFrom[m] .. LowTo[m] /\ Brightest[m] \notin LowFrom[n] .. LowTo[n]
      BY DEF Brightest, LowFrom, LowTo
    <2>. QED BY <2>2, <2>3, <2>4, <2>5 DEF InSeries, LowFrom, LowTo
  <1>2. j \in Warm <=> k \in Warm
    <2>1. Brightest[n] \notin LowFrom[n] .. LowTo[n]
      BY DEF Brightest, LowFrom, LowTo
    <2>. QED BY <1>1, <2>1 DEF InSeries
  <1>3. j \in Light <=> k \in Light
    <2>1. Middle[n] \in Nat
      BY DEF Middle
    <2>. QED BY <1>1, <2>1 DEF InSeries
  <1>. QED BY <1>1, <1>2, <1>3 DEF Warm, Light

\* The hues of a chart.
LEMMA SeriesAreTurned ==
  ASSUME NEW lines \in 1 .. 16
  PROVE  LET h == IF lines > 10 THEN lines ELSE 10
             s == turned(chartScheme(lines))
         IN  /\ h \in 10 .. 16 /\ \A j \in 1 .. 4 : s.col[j] = SeriesHues(h)[j]
             /\ s.variant = "pastel" /\ s.webSafe = FALSE /\ used_colors(s) = 4
  <1> DEFINE h == IF lines > 10 THEN lines ELSE 10
             s0 == chartScheme(lines)
             s == turned(s0)
  <1>1. h \in 10 .. 16
    OBVIOUS
  <1>2. s0 = [NewColorScheme EXCEPT !.col = [NewColorScheme.col EXCEPT ![1] = h],
                                    !.scheme = "tetrade", !.variant = "pastel"]
    BY DEF chartScheme, NewColorScheme
  <1>3. /\ DOMAIN s0 = {"col", "scheme", "distance", "webSafe", "complement", "variant"}
        /\ s0.col[1] = h /\ s0.scheme = "tetrade" /\ s0.distance = 2
        /\ s0.variant = "pastel" /\ s0.webSafe = FALSE
    BY <1>2 DEF NewColorScheme
  <1> HIDE DEF s0, h
  <1>4. turns(s0) = <<720, 900, 180>> /\ DOMAIN turns(s0) = 1 .. 3
    BY <1>3 DEF turns
  <1>5. s = [s0 EXCEPT !.col = [i \in 1 .. 4 |-> IF i - 1 \in 1 .. 3
                                  THEN rotate(h, turns(s0)[i - 1]) ELSE s0.col[i]]]
    BY <1>3, <1>4 DEF turned
  <1>6. /\ s.scheme = "tetrade" /\ s.variant = "pastel" /\ s.webSafe = FALSE
        /\ s.col = [i \in 1 .. 4 |-> IF i - 1 \in 1 .. 3
                                      THEN rotate(h, turns(s0)[i - 1]) ELSE s0.col[i]]
    BY <1>3, <1>5
  <1> HIDE DEF s
  <1>7. used_colors(s) = 4
    BY <1>6 DEF used_colors
  <1>8. rotate(h, 720) = h + 180 /\ rotate(h, 900) = h + 225 /\ rotate(h, 180) = h + 45
    BY <1>1 DEF rotate, Round
  <1>9. s.col[1] = h /\ s.col[2] = h + 180 /\ s.col[3] = h + 225 /\ s.col[4] = h + 45
    BY <1>3, <1>4, <1>6, <1>8
  <1>10. \A j \in 1 .. 4 : s.col[j] = SeriesHues(h)[j]
    BY <1>9 DEF SeriesHues
  <1>. QED BY <1>1, <1>6, <1>7, <1>10 DEF s, s0, h

\* So no two of a chart's colours are the same.
LEMMA SeriesColoursDiffer ==
  ASSUME NEW lines \in 1 .. 16
  PROVE  LET c == hexes(turned(chartScheme(lines)))
         IN  \A x, y \in DOMAIN c : x # y => c[x] # c[y]
  <1> DEFINE h == IF lines > 10 THEN lines ELSE 10
             s == turned(chartScheme(lines))
             c == hexes(s)
             J(x) == (x - 1) \div 4 + 1
             N(x) == ((x - 1) % 4) + 1
  <1>1. /\ h \in 10 .. 16 /\ \A j \in 1 .. 4 : s.col[j] = SeriesHues(h)[j]
        /\ s.variant = "pastel" /\ s.webSafe = FALSE /\ used_colors(s) = 4
    BY SeriesAreTurned
  <1> HIDE DEF h, s
  <1>2. c = [x \in 1 .. 16 |-> get_hex(s.col[J(x)], PRESETS[s.variant], N(x), s.webSafe)]
    BY <1>1 DEF hexes
  <1>3. ASSUME NEW x \in 1 .. 16
        PROVE  J(x) \in 1 .. 4 /\ N(x) \in 1 .. 4 /\ x = 4 * (J(x) - 1) + N(x)
    OBVIOUS
  <1>4. ASSUME NEW x \in 1 .. 16 PROVE InSeries(c[x], J(x), N(x))
    <2>1. J(x) \in 1 .. 4 /\ N(x) \in 1 .. 4
      BY <1>3
    <2>2. c[x] = get_hex(s.col[J(x)], PRESETS[s.variant], N(x), s.webSafe)
      BY <1>2
    <2> HIDE DEF c, J, N
    <2>3. c[x] = Pastel(SeriesHues(h)[J(x)], N(x))
      BY <1>1, <2>1, <2>2 DEF Pastel
    <2>. QED BY <1>1, <2>1, <2>3, SeriesColour
  <1>5. DOMAIN c = 1 .. 16
    BY <1>2
  <1> HIDE DEF c, J, N
  <1>6. ASSUME NEW x \in 1 .. 16, NEW y \in 1 .. 16, c[x] = c[y] PROVE x = y
    <2>1. InSeries(c[x], J(x), N(x)) /\ InSeries(c[x], J(y), N(y))
      BY <1>4, <1>6
    <2>2. J(x) = J(y) /\ N(x) = N(y)
      BY <1>3, <2>1, SeriesApart
    <2>. QED BY <1>3, <2>2
  <1>. QED BY <1>5, <1>6 DEF c, s

\* What colors() gives is then bytes, and different.
LEMMA ColoursAsSet == ColoursInv => ColoursAreAsSet
  <1>1. SUFFICES ASSUME ColoursInv, colours # Off
                 PROVE  ColoursAreBytes /\ SeriesDiffer
    BY DEF ColoursInv, ColoursAreAsSet, ColoursAreOfTheSettings, ColoursAreBytes, SeriesDiffer
  <1> DEFINE s == turned(fresh(scheme))
             hue(x) == s.col[(x - 1) \div 4 + 1]
             n(x) == ((x - 1) % 4) + 1
  <1>2. scheme \in SchemeStates /\ colours = hexes(s)
    BY <1>1 DEF ColoursInv, ColoursAreOfTheSettings
  <1>3. /\ s \in SchemeStates /\ s.webSafe = scheme.webSafe
        /\ used_colors(s) \in 1 .. 4
    <2>1. fresh(scheme) \in SchemeStates /\ s \in SchemeStates
          /\ s = [fresh(scheme) EXCEPT !.col = s.col]
      BY <1>2, FreshType, TurnedType
    <2>2. fresh(scheme).webSafe = scheme.webSafe
      BY <1>2 DEF fresh, SchemeStates
    <2> HIDE DEF s
    <2>3. s.webSafe = scheme.webSafe
      BY <2>1, <2>2 DEF SchemeStates
    <2>. QED BY <2>1, <2>3, UsedAreTurned
  <1> HIDE DEF s
  <1>4. colours = [x \in 1 .. 4 * used_colors(s) |->
                     get_hex(hue(x), PRESETS[s.variant], n(x), s.webSafe)]
    BY <1>2 DEF hexes
  <1>5. ASSUME NEW x \in DOMAIN colours
        PROVE  \A i \in 1 .. 3 : /\ colours[x][i] \in 0 .. 255
                                 /\ scheme.webSafe => colours[x][i] % 51 = 0
    <2>1. x \in 1 .. 4 * used_colors(s)
      BY <1>4
    <2>2. (x - 1) \div 4 + 1 \in 1 .. 4 /\ n(x) \in 1 .. 4
      BY <1>3, <2>1
    <2>3. hue(x) \in Nat /\ s.variant \in DOMAIN PRESETS /\ s.webSafe \in BOOLEAN
      BY <1>3, <2>2 DEF SchemeStates
    <2>4. colours[x] = get_hex(hue(x), PRESETS[s.variant], n(x), s.webSafe)
      BY <1>4, <2>1
    <2> HIDE DEF hue, n
    <2>5. IsHex(colours[x], s.webSafe)
      BY <2>2, <2>3, <2>4, HexType
    <2>. QED BY <1>3, <2>5 DEF IsHex
  <1>6. ColoursAreBytes
    BY <1>5 DEF ColoursAreBytes, IsColour
  <1>7. SeriesDiffer
    <2>1. SUFFICES ASSUME NEW lines \in 1 .. 16, fresh(scheme) = chartScheme(lines)
                   PROVE  \A x, y \in DOMAIN colours : x # y => colours[x] # colours[y]
      BY DEF SeriesDiffer
    <2>2. colours = hexes(turned(chartScheme(lines)))
      BY <1>2, <2>1 DEF s
    <2>. QED BY <2>2, SeriesColoursDiffer
  <1>. QED BY <1>6, <1>7

------------------------------------------------------------------------------
(* Clouds of words *)

\* Among natural numbers there is a smallest: of the intervals up to them, one
\* contains no other.
LEMMA SmallestNumber ==
  ASSUME NEW N \in Nat, NEW T, T \subseteq 0 .. N, T # {}
  PROVE  \E n \in T : \A m \in T : n <= m
  <1> DEFINE S == 0 .. N
             U == {0 .. n : n \in T}
  <1>1. IsFiniteSet(S)
    BY FS_Interval
  <1>2. U \subseteq FiniteSubsetsOf(S)
    BY <1>1, FS_Subset DEF FiniteSubsetsOf
  <1>3. PICK A \in U : \A B \in U : <<B, A>> \notin StrictSubsetOrdering(S)
    <2>1. U # {}
      OBVIOUS
    <2>. HIDE DEF S, U
    <2>. QED BY <1>1, <1>2, <2>1, WFMin, FS_StrictSubsetOrderingWellFounded
  <1>4. PICK n \in T : A = 0 .. n
    BY <1>3
  <1>5. ASSUME NEW m \in T, m < n PROVE FALSE
    <2>1. 0 .. m \subseteq 0 .. n /\ 0 .. m # 0 .. n /\ 0 .. m \in U
      BY <1>5
    <2>2. <<0 .. m, A>> \in StrictSubsetOrdering(S)
      BY <1>2, <1>4, <2>1 DEF StrictSubsetOrdering, FiniteSubsetsOf
    <2>. QED BY <1>3, <2>1, <2>2
  <1>. QED BY <1>4, <1>5

------------------------------------------------------------------------------
(* What putWord gives *)

\* What putWord does with a word of size n, by what it does with smaller ones.
Put(l, put, n) ==
  UNION {IF n = 0 \/ (~l.options.outOfBound /\ TooLarge(n, across)) THEN {{}}
         ELSE IF Fits(l, n, across) # {} THEN Fits(l, n, across)
         ELSE IF l.options.shrink THEN put[(3 * n) \div 4]
         ELSE {{}} : across \in getRotateDeg(l.options)}

\* A function that does it for all sizes up to n.
PutsUpTo(l, put, n) == put = [k \in 0 .. n |-> Put(l, put, k)]

\* A word is made smaller.
LEMMA Shrinks == ASSUME NEW n \in Nat, n > 0 PROVE (3 * n) \div 4 \in 0 .. n - 1
  OBVIOUS

\* There is such a function: a smallest size without one would have one.
LEMMA PutExists ==
  ASSUME NEW l, NEW N \in Nat
  PROVE  \E put : PutsUpTo(l, put, N)
  <1> DEFINE T == {n \in 0 .. N : ~ \E put : PutsUpTo(l, put, n)}
  <1>1. SUFFICES ASSUME T # {} PROVE FALSE
    OBVIOUS
  <1>2. PICK n \in T : \A m \in T : n <= m
    <2>1. T \subseteq 0 .. N
      OBVIOUS
    <2>. HIDE DEF T
    <2>. QED BY <1>1, <2>1, SmallestNumber
  <1>3. n \in Nat
    OBVIOUS
  <1>4. PICK g : n > 0 => PutsUpTo(l, g, n - 1)
    <2>1. CASE n = 0
      BY <2>1
    <2>2. CASE n > 0
      <3>1. n - 1 \in 0 .. N /\ n - 1 \notin T
        BY <1>2, <2>2
      <3>. QED BY <3>1
    <2>. QED BY <1>3, <2>1, <2>2
  <1> DEFINE f == [k \in 0 .. n |-> Put(l, g, k)]
  <1>5. ASSUME NEW k \in 0 .. n PROVE Put(l, g, k) = Put(l, f, k)
    <2>1. CASE k = 0
      BY <2>1 DEF Put
    <2>2. CASE k > 0
      <3>1. (3 * k) \div 4 \in 0 .. k - 1
        BY <2>2, Shrinks
      <3>2. (3 * k) \div 4 \in 0 .. n - 1 /\ n > 0
        BY <2>2, <3>1
      <3>3. g[(3 * k) \div 4] = Put(l, g, (3 * k) \div 4)
        BY <1>4, <3>2 DEF PutsUpTo
      <3>4. f[(3 * k) \div 4] = Put(l, g, (3 * k) \div 4)
        BY <3>2
      <3>. HIDE DEF f
      <3>. QED BY <3>3, <3>4 DEF Put
    <2>. QED BY <2>1, <2>2
  <1>6. f = [k \in 0 .. n |-> Put(l, f, k)]
    BY <1>5
  <1>7. PutsUpTo(l, f, n)
    BY <1>6 DEF PutsUpTo
  <1>. QED BY <1>2, <1>7

\* putWord is one.
LEMMA PutWordPuts ==
  ASSUME NEW l
  PROVE  \E put : /\ PutsUpTo(l, put, MaxSize)
                  /\ \A size : putWord(l, size) = put[size]
  <1> DEFINE put == CHOOSE put : PutsUpTo(l, put, MaxSize)
  <1>1. MaxSize \in Nat
    BY WordCloudAssumption
  <1>2. PutsUpTo(l, put, MaxSize)
    BY <1>1, PutExists
  <1>3. ASSUME NEW size PROVE putWord(l, size) = put[size]
    BY DEF putWord, PutsUpTo, Put
  <1>. QED BY <1>2, <1>3

\* A word is put where there is room for it, or not at all.
LEMMA PutWhereItFits ==
  ASSUME NEW l, NEW size \in 0 .. MaxSize, NEW cells \in putWord(l, size)
  PROVE  cells = {} \/ canFitText(l, cells)
  <1>1. PICK put : /\ PutsUpTo(l, put, MaxSize)
                   /\ \A n : putWord(l, n) = put[n]
    BY PutWordPuts
  <1> DEFINE Bad == {n \in 0 .. MaxSize : \E c \in put[n] : ~(c = {} \/ canFitText(l, c))}
  <1>2. SUFFICES ASSUME Bad # {} PROVE FALSE
    BY <1>1
  <1>3. PICK n \in Bad : \A m \in Bad : n <= m
    <2>1. Bad \subseteq 0 .. MaxSize /\ MaxSize \in Nat
      BY WordCloudAssumption
    <2>. HIDE DEF Bad
    <2>. QED BY <1>2, <2>1, SmallestNumber
  <1>4. PICK c \in put[n] : ~(c = {} \/ canFitText(l, c))
    OBVIOUS
  <1>5. put[n] = Put(l, put, n)
    BY <1>1 DEF PutsUpTo
  <1>6. PICK across \in getRotateDeg(l.options) :
          \/ c \in {{}}
          \/ c \in Fits(l, n, across)
          \/ n # 0 /\ c \in put[(3 * n) \div 4]
    BY <1>4, <1>5 DEF Put
  <1>7. c \notin Fits(l, n, across)
    BY <1>4 DEF Fits
  <1>8. (3 * n) \div 4 \in 0 .. n - 1 /\ (3 * n) \div 4 \in 0 .. MaxSize
    <2>1. n \in Nat /\ n > 0 /\ n <= MaxSize
      BY <1>4, <1>6, <1>7, WordCloudAssumption
    <2>. QED BY <2>1, Shrinks, WordCloudAssumption
  <1>9. (3 * n) \div 4 \in Bad
    BY <1>4, <1>6, <1>7, <1>8
  <1>. QED BY <1>3, <1>8, <1>9

------------------------------------------------------------------------------
(* The clouds *)

Closures == [cloud : Nat, options : Options, list : Seq(Entries), free : SUBSET Grid]

\* A cell that shows a word, where no loop will put another.
Kept(cell, word) == picture[cell] = word /\ \A l \in loops : cell \notin l.free

\* One loop at most draws, for the last cloud; what was written, what hover tells and
\* what it told of this cloud is kept.
CloudInv ==
  /\ clouds \in Nat
  /\ loops \subseteq Closures
  /\ \A l \in loops : loops = {l} /\ l.cloud = clouds
  /\ \A d \in written : d.cells \subseteq Grid /\ \A c \in d.cells : Kept(c, d.word)
  /\ info # Off => \A c \in Grid : info[c] # Off => Kept(c, info[c])
  /\ told # Off => /\ told.cloud \in 0 .. clouds
                   /\ told.cloud = clouds => told.cell \in Grid /\ Kept(told.cell, told.word)

\* A new cloud stops the one before, of which nothing is told any more.
LEMMA StartStep ==
  ASSUME CloudInv, NEW options \in Options, NEW words \in Seq(Entries), NEW showing,
         start(options, words, showing)
  PROVE  CloudInv'
  <1> DEFINE new == [cloud |-> clouds + 1, options |-> options, list |-> words,
                     free |-> {c \in Grid : showing[c] = Blank}]
  <1>1. /\ clouds \in Nat /\ clouds' = clouds + 1 /\ loops' = {new} /\ new \in Closures
        /\ new.cloud = clouds + 1
        /\ written' = {} /\ info' = emptyInfo(options) /\ told' = told
    BY DEF start, anotherWordCloudStart, CloudInv, Closures
  <1>2. info' # Off => \A c \in Grid : info'[c] = Off
    BY <1>1 DEF emptyInfo
  <1>3. told' # Off => told'.cloud \in 0 .. clouds' /\ told'.cloud # clouds'
    BY <1>1 DEF CloudInv
  <1> HIDE DEF new
  <1>. QED BY <1>1, <1>2, <1>3 DEF CloudInv

\* A tick puts a word into cells that are free, so that nothing kept is lost.
LEMMA TickStep ==
  ASSUME CloudInv, NEW closure \in loops, NEW aborts \in BOOLEAN, Tick(closure, aborts)
  PROVE  CloudInv'
  <1>1. /\ closure \in Closures /\ closure.list # <<>> /\ loops = {closure}
        /\ closure.cloud = clouds /\ clouds \in Nat
        /\ told' = told /\ clouds' = clouds
    BY DEF CloudInv, Tick
  <1>2. /\ closure.list \in Seq(Entries) /\ Head(closure.list) \in Entries
        /\ Tail(closure.list) \in Seq(Entries)
    BY <1>1, HeadTailProperties DEF Closures
  <1>3. PICK cells \in putWord(closure, Head(closure.list).size) \cup {{}} :
          /\ IF cells = {} THEN UNCHANGED <<picture, written, info>>
             ELSE /\ drawText(Head(closure.list).word, cells)
                  /\ updateGrid(Head(closure.list).word, cells)
          /\ loops' = (loops \ {closure}) \cup IF aborts THEN {} ELSE {loop(closure, cells)}
    BY DEF Tick
  <1> DEFINE word == Head(closure.list).word
  <1>4. cells = {} \/ cells \cap Grid \subseteq closure.free
    <2>1. Head(closure.list).size \in 0 .. MaxSize
      BY <1>2 DEF Entries
    <2>. QED BY <1>3, <2>1, PutWhereItFits DEF canFitText
  <1>5. loops' \subseteq {loop(closure, cells)}
    BY <1>1, <1>3
  <1>6. /\ loop(closure, cells) \in Closures
        /\ loop(closure, cells).cloud = closure.cloud
        /\ loop(closure, cells).free = closure.free \ cells
    BY <1>1, <1>2 DEF loop, Closures
  <1>7. ASSUME NEW c \in Grid, NEW w, Kept(c, w)
        PROVE  c \notin cells \/ cells = {}
    BY <1>1, <1>4, <1>7 DEF Kept
  <1>8. ASSUME NEW c \in Grid, NEW w, Kept(c, w) PROVE picture'[c] = w /\ \A l \in loops' : c \notin l.free
    <2>1. picture[c] = w /\ c \notin closure.free
      BY <1>1, <1>8 DEF Kept
    <2>2. picture'[c] = w
      BY <1>3, <1>7, <1>8, <2>1 DEF drawText
    <2>. QED BY <1>5, <1>6, <2>1, <2>2
  <1>9. ASSUME cells # {}, NEW c \in cells \cap Grid
        PROVE  picture'[c] = word /\ \A l \in loops' : c \notin l.free
    <2>1. picture'[c] = word
      BY <1>3, <1>9 DEF drawText
    <2>. QED BY <1>5, <1>6, <1>9, <2>1
  <1>10. ASSUME NEW d \in written'
         PROVE  /\ d.cells \subseteq Grid
                /\ \A c \in d.cells : picture'[c] = d.word /\ \A l \in loops' : c \notin l.free
    <2>1. CASE d \in written
      BY <1>8, <2>1 DEF CloudInv
    <2>2. CASE d \notin written
      <3>1. cells # {} /\ d = [word |-> word, cells |-> cells \cap Grid]
        BY <1>3, <1>10, <2>2 DEF drawText
      <3>. QED BY <1>9, <3>1
    <2>. QED BY <2>1, <2>2
  <1>11. ASSUME info' # Off, NEW c \in Grid, info'[c] # Off
         PROVE  picture'[c] = info'[c] /\ \A l \in loops' : c \notin l.free
    <2>1. CASE cells = {} \/ c \notin cells
      <3>1. info # Off /\ info'[c] = info[c]
        BY <1>3, <1>11, <2>1 DEF updateGrid
      <3>2. Kept(c, info[c])
        BY <1>11, <3>1 DEF CloudInv
      <3>. QED BY <1>8, <3>1, <3>2
    <2>2. CASE cells # {} /\ c \in cells
      <3>1. info'[c] = word
        BY <1>3, <1>11, <2>2 DEF updateGrid
      <3>. QED BY <1>9, <2>2, <3>1
    <2>. QED BY <2>1, <2>2
  <1>12. told' # Off => /\ told'.cloud \in 0 .. clouds'
                        /\ told'.cloud = clouds' =>
                             /\ told'.cell \in Grid
                             /\ picture'[told'.cell] = told'.word
                             /\ \A l \in loops' : told'.cell \notin l.free
    BY <1>1, <1>8 DEF CloudInv
  <1>13. \A l \in loops' : loops' = {l} /\ l.cloud = clouds' /\ l \in Closures
    BY <1>1, <1>5, <1>6
  <1>. QED BY <1>1, <1>10, <1>11, <1>12, <1>13 DEF CloudInv, Kept

\* The tick after the last word.
LEMMA StopStep ==
  ASSUME CloudInv, NEW closure \in loops, Stop(closure)
  PROVE  CloudInv'
  BY DEF CloudInv, Stop, Kept

\* What hover tells is what is kept.
LEMMA HoverStep ==
  ASSUME CloudInv, NEW cell \in Grid, wordcloudhover(cell)
  PROVE  CloudInv'
  <1>1. info # Off /\ UNCHANGED <<loops, picture, written, info, clouds>>
    BY DEF wordcloudhover
  <1>2. told' = IF info[cell] = Off THEN Off
                ELSE [cloud |-> clouds, cell |-> cell, word |-> info[cell]]
    BY DEF wordcloudhover
  <1>3. told' # Off => /\ told'.cloud = clouds /\ told'.cell = cell /\ told'.word = info[cell]
                       /\ Kept(cell, info[cell])
    BY <1>1, <1>2 DEF CloudInv
  <1>4. clouds \in 0 .. clouds
    BY DEF CloudInv
  <1>. QED BY <1>1, <1>3, <1>4 DEF CloudInv, Kept

\* A loop that goes on.
LEMMA LoopStep ==
  ASSUME CloudInv, NEW closure \in loops, Stops(closure) \/ Goes(closure)
  PROVE  CloudInv'
  BY TickStep, StopStep DEF Stops, Goes

------------------------------------------------------------------------------
(* The page of the cloud *)

CloudForms == [list : Seq(Entries), options : Options]

\* The form is filled once the page is ready, before the hash can change; and what was
\* run last is the example of the hash, unless a change of it is under way.
CloudPageInv ==
  /\ CloudInv
  /\ changes \in Nat
  /\ cloudForm # Off \/ changes > 0 => cloudForm \in CloudForms
  /\ HashNamesTheCloud

\* A run starts a cloud of what the form is filled with.
LEMMA RunStep ==
  ASSUME CloudInv, NEW filled \in CloudForms, run(filled)
  PROVE  CloudInv' /\ cloudForm' = filled /\ shown' = filled
  BY StartStep DEF run, CloudForms

\* An example fills the form and is run; no name runs the form.
LEMMA LoadStep ==
  ASSUME CloudInv, NEW name \in DOMAIN Examples \cup {NoName}, loadExampleData(name),
         name = NoName => cloudForm \in CloudForms
  PROVE  /\ CloudInv' /\ cloudForm' \in CloudForms
         /\ name \in DOMAIN Examples => shown' = Examples[name]
  <1>1. NoName \notin DOMAIN Examples /\ Examples \in [DOMAIN Examples -> CloudForms]
    BY CloudPageAssumption DEF CloudForms
  <1> DEFINE filled == IF name = NoName THEN cloudForm ELSE Examples[name]
  <1>2. filled \in CloudForms /\ run(filled)
    BY <1>1 DEF loadExampleData
  <1> HIDE DEF filled
  <1>3. CloudInv' /\ cloudForm' = filled /\ shown' = filled
    BY <1>2, RunStep
  <1>4. name \in DOMAIN Examples => filled = Examples[name]
    BY <1>1 DEF filled
  <1>. QED BY <1>2, <1>3, <1>4

\* Steps that leave the cloud as it is.
LEMMA CloudStays == CloudInv /\ UNCHANGED cloudVars => CloudInv'
  BY DEF CloudInv, cloudVars, Kept

\* A step of the page keeps its invariant.
LEMMA CloudPageStep ==
  ASSUME CloudPageInv, CloudPageNext
  PROVE  CloudPageInv'
  <1>0. CloudInv /\ changes \in Nat
    BY DEF CloudPageInv
  <1>1. ASSUME NEW name \in DOMAIN Examples \cup {NoName, "unknown"}, OpenPage(name)
        PROVE  CloudPageInv'
    <2>1. CASE name \in DOMAIN Examples
      <3>1. hash' = name /\ loadExampleData(name) /\ changes' = changes /\ name # NoName
        BY <1>1, <2>1, CloudPageAssumption DEF OpenPage
      <3>2. CloudInv' /\ cloudForm' \in CloudForms /\ shown' = Examples[name]
        BY <1>0, <2>1, <3>1, LoadStep
      <3>. QED BY <1>0, <3>1, <3>2 DEF CloudPageInv, HashNamesTheCloud
    <2>2. CASE name \notin DOMAIN Examples
      <3>1. changes' = 1 /\ cloudForm' = EmptyForm /\ UNCHANGED cloudVars
        BY <1>1, <2>2 DEF OpenPage
      <3>2. EmptyForm \in CloudForms
        <4>1. settings \in Options
          BY DEF settings, Options
        <4>. QED BY <4>1, EmptySeq DEF EmptyForm, CloudForms
      <3>3. CloudInv'
        BY <1>0, <3>1, CloudStays
      <3>4. changes' \in Nat /\ changes' # 0
        BY <3>1
      <3>5. cloudForm' \in CloudForms
        BY <3>1, <3>2
      <3>. QED BY <3>3, <3>4, <3>5 DEF CloudPageInv, HashNamesTheCloud
    <2>. QED BY <2>1, <2>2
  <1>2. ASSUME NEW name, NewHash(name), UNCHANGED <<cloudForm, shown, cloudVars>>, cloudForm # Off
        PROVE  CloudPageInv'
    <2>1. changes' = changes + 1 /\ changes' \in Nat /\ changes' > 0
      BY <1>0, <1>2 DEF NewHash
    <2>. QED BY <1>0, <1>2, <2>1, CloudStays DEF CloudPageInv, HashNamesTheCloud
  <1>3. ASSUME NEW name \in DOMAIN Examples \cup {NoName, "unknown"}, GoTo(name) PROVE CloudPageInv'
    BY <1>2, <1>3 DEF GoTo
  <1>4. ASSUME NEW name \in DOMAIN Examples \cup {NoName}, changeHash(name) PROVE CloudPageInv'
    <2>1. CASE hash = name /\ loadExampleData(name) /\ UNCHANGED <<hash, changes>>
      <3>1. cloudForm \in CloudForms
        BY <1>4 DEF changeHash, CloudPageInv
      <3>2. /\ CloudInv' /\ cloudForm' \in CloudForms
            /\ name \in DOMAIN Examples => shown' = Examples[name]
        BY <1>0, <2>1, <3>1, LoadStep
      <3>. QED BY <1>0, <2>1, <3>2 DEF CloudPageInv, HashNamesTheCloud
    <2>2. CASE NewHash(name) /\ UNCHANGED <<cloudForm, shown, loading, cloudVars>>
      BY <1>2, <1>4, <2>2 DEF changeHash
    <2>. QED BY <1>4, <2>1, <2>2 DEF changeHash
  <1>5. CASE hashChanged
    <2>1. changes > 0 /\ cloudForm \in CloudForms
      BY <1>5 DEF hashChanged, CloudPageInv
    <2>2. CASE /\ hash \in DOMAIN Examples \cup {NoName} /\ loadExampleData(hash)
               /\ changes' = changes - 1 /\ UNCHANGED hash
      <3>1. /\ CloudInv' /\ cloudForm' \in CloudForms
            /\ hash \in DOMAIN Examples => shown' = Examples[hash]
        BY <1>0, <2>1, <2>2, LoadStep
      <3>2. changes \in Nat /\ changes > 0 /\ changes' = changes - 1
        BY <1>0, <2>1, <2>2
      <3>3. changes' \in Nat
        BY ONLY <3>2
      <3>. QED BY <2>2, <3>1, <3>3 DEF CloudPageInv, HashNamesTheCloud
    <2>3. CASE hash' = NoName /\ UNCHANGED <<changes, cloudForm, shown, cloudVars>>
      BY <1>0, <2>1, <2>3, CloudStays, CloudPageAssumption DEF CloudPageInv, HashNamesTheCloud
    <2>. QED BY <1>5, <2>2, <2>3 DEF hashChanged
  <1>6. ASSUME NEW options \in OwnOptions, TypeOptions(options) PROVE CloudPageInv'
    <2>1. cloudForm \in CloudForms /\ options \in Options
      BY <1>6, CloudPageAssumption DEF TypeOptions, CloudPageInv
    <2>2. cloudForm' \in CloudForms /\ UNCHANGED <<hash, changes, shown, cloudVars>>
      BY <1>6, <2>1 DEF TypeOptions, CloudForms
    <2>. QED BY <1>0, <2>2, CloudStays DEF CloudPageInv, HashNamesTheCloud
  <1>7. ASSUME UNCHANGED <<hash, changes, cloudForm, shown>>, CloudInv' PROVE CloudPageInv'
    BY <1>7 DEF CloudPageInv, HashNamesTheCloud
  <1>8. ASSUME NEW file \in Files \cup {Off}, ChooseMask(file) PROVE CloudPageInv'
    BY <1>0, <1>7, <1>8, CloudStays DEF ChooseMask
  <1>9. ASSUME NEW i \in DOMAIN images, readPixels(i) PROVE CloudPageInv'
    BY <1>0, <1>7, <1>9, CloudStays DEF readPixels
  <1>10. ASSUME NEW cell \in Grid, drawBox(cell) PROVE CloudPageInv'
    BY <1>0, <1>7, <1>10, HoverStep DEF drawBox
  <1>11. CASE Ticks
    BY <1>0, <1>7, <1>11, LoopStep DEF Ticks
  <1>. QED BY <1>1, <1>3, <1>4, <1>5, <1>6, <1>8, <1>9, <1>10, <1>11
           DEF CloudPageNext, PageUser, PageEvents

\* which says that the cloud is true, and of the example the address names.
LEMMA CloudTrue == CloudPageInv => CloudPageIsTrue
  BY DEF CloudPageInv, CloudInv, Kept, CloudPageIsTrue, CloudIsTrue, WordsStayWhole, OneLoop,
         ToldIsShown

------------------------------------------------------------------------------
(* The pages, for every value of the constants *)

\* The library's invariant, of which both its promises are a consequence.
LEMMA LibraryAlways == Spec => []LibraryInv
  <1>1. Init => LibraryInv
    BY CollectionAssumption
       DEF Init, LibraryInit, ListInit, LibraryInv, ListType, UrlInv, ListInv, CreatedInv, Urls,
           Results, NoResults, NoQuery, Pages, Queries, CreatedQuery
  <1>2. LibraryInv /\ [Next]_browsingVars => LibraryInv'
    <2>1. ASSUME LibraryInv, UNCHANGED libraryVars PROVE LibraryInv'
      BY <2>1 DEF LibraryInv, ListType, UrlInv, ListInv, CreatedInv, Selected, libraryVars,
                  collectionVars, creationVars
    <2>. QED BY <2>1, LibraryStep, PageSteps
  <1>. QED BY <1>1, <1>2, PTL DEF Spec

\* "My Amphora" (MyAmphoraPage.tsx): once its effects have run, the page is on the tab
\* and page of the query string; once the answers are in, it shows what is selected,
\* unless a request failed, was overtaken, or was another component's.
THEOREM AddressIsShown == Spec => []SelectedIsShown
  BY LibraryAlways, LibraryShown, PTL

\* CreateAmphora.tsx: the list fetched a second after a creation has every Amphora
\* whose creation was answered by then, however many are created and whatever else the
\* page asked for meanwhile.
THEOREM CreationsAreListed == Spec => []CreatedIsListed
  BY LibraryAlways, LibraryShown, PTL

\* SearchSection.tsx and the boxes of wwwroot/js: what is listed is of what was last
\* asked for, once the answers are in and none was lost or overtaken; what is asked for
\* is the query string's page and, if no link led that away, its term.
THEOREM FindsAreOfTheQuery == Spec => []FoundIsAsked
  <1> DEFINE Inv == SearchType /\ SearchInv /\ BoxInv
  <1>1. Init => Inv
    <2>1. SearchInit => SearchType /\ SearchInv
      <3> SUFFICES ASSUME SearchInit PROVE SearchType /\ SearchInv
        OBVIOUS
      <3>1. 1 \in SearchPages /\ NothingFound \in SearchQueries /\ EmptyTerm \in SearchTerms
        BY SearchAssumption DEF SearchPages, SearchQueries, NothingFound
      <3>2. SearchType
        <4>1. /\ findUrl = [term |-> EmptyTerm, page |-> 1]
              /\ found = [isLoading |-> FALSE, results |-> NothingFound]
              /\ find = Off /\ findDue = {} /\ findAsked = <<>> /\ findLed = FALSE
          BY DEF SearchInit
        <4>2. findUrl \in [term : SearchTerms, page : SearchPages]
          BY <3>1, <4>1
        <4>3. found \in [isLoading : BOOLEAN, results : SearchQueries]
          BY <3>1, <4>1
        <4>4. findAsked \in Seq(SearchQueries)
          BY <4>1
        <4>. QED BY <4>1, <4>2, <4>3, <4>4 DEF SearchType
      <3>3. SearchInv
        BY DEF SearchInit, SearchInv
      <3>. QED BY <3>2, <3>3
    <2>2. BoxInit => BoxInv
      BY DEF BoxInit, BoxInv
    <2>. QED BY <2>1, <2>2 DEF Init
  <1>2. Inv /\ [Next]_browsingVars => Inv'
    <2>1. ASSUME SearchType, SearchInv, UNCHANGED searchVars PROVE SearchType' /\ SearchInv'
      BY <2>1 DEF SearchType, SearchInv, Query, searchVars
    <2>2. ASSUME BoxInv, UNCHANGED boxVars PROVE BoxInv'
      BY <2>2 DEF BoxInv, PositionIsOnePlace, boxVars
    <2>. QED BY <2>1, <2>2, SearchStep, BoxStep, PageSteps
  <1>3. Inv => FoundIsAsked
    BY SearchFound, BoxTrue DEF FoundIsAsked
  <1>. QED BY <1>1, <1>2, <1>3, PTL DEF Spec

\* CreateAmphora.tsx: what is sent has texts within their limits and the price the box
\* shows, or an earlier one if the box shows 0.
THEOREM CreationIsValid == Spec => []SentIsShown
  <1>1. Init => FormInv
    <2>1. /\ NothingSent.text \in [TextFields -> {"", "fits"}]
          /\ NothingSent.price = NothingSent.shown
      BY DEF NothingSent, NewModel
    <2>. QED BY <2>1 DEF Init, FormInit, FormInv
  <1>2. FormInv /\ [Next]_browsingVars => FormInv'
    <2>1. ASSUME FormInv, UNCHANGED formVars PROVE FormInv'
      BY <2>1 DEF FormInv, formVars
    <2>. QED BY <2>1, FormStep, PageSteps
  <1>. QED BY <1>1, <1>2, FormSent, PTL DEF Spec

\* ConnectedAmphoraModal.tsx and the inputs that edit in place: the page is about the
\* Amphora of its path, its edits do not undo each other, its inputs open on what is
\* shown and its menu fits the window.
THEOREM EditsAreKept == Spec => []DetailIsCurrent
  <1>1. Init => EditingInv
    <2> SUFFICES ASSUME Init PROVE EditingInv
      OBVIOUS
    <2>1. /\ detail = Off /\ menuDue = FALSE /\ wide = TRUE /\ toggled = FALSE
          /\ ops = [isLoading |-> FALSE, current |-> NoCurrent, level |-> 0]
          /\ opsAsked = <<>> /\ purchasing = {}
          /\ amphora = [id \in Ids |-> [f \in Fields |-> 0]]
          /\ level = [id \in Ids |-> IF id \in Own THEN Update ELSE Read]
          /\ edited = amphora /\ behind = FALSE
          /\ magic = [values |-> [f \in {} |-> 0], at |-> "none", typed |-> 0]
      BY DEF Init, EditingInit, DetailInit
    <2>2. NoCurrent \in [id : Ids \cup {NoAmphora}, model : Contents]
          /\ NoCurrent.id = NoAmphora
      BY DEF NoCurrent, Contents
    <2>3. DetailType
      <3>1. amphora \in [Ids -> Contents]
        BY <2>1 DEF Contents
      <3>2. level \in [Ids -> Nat]
        BY <2>1 DEF Update, Read
      <3>3. ops \in [isLoading : BOOLEAN, level : Nat,
                     current : [id : Ids \cup {NoAmphora}, model : Contents]]
        BY <2>1, <2>2
      <3>4. opsAsked \in Seq(OpRequests)
        BY <2>1
      <3>. QED BY <2>1, <3>1, <3>2, <3>3, <3>4 DEF DetailType
    <2>4. MenuInv
      BY <2>1 DEF MenuInv
    <2>5. ContextInv
      BY <2>1, <2>2 DEF ContextInv
    <2>6. Inputs = {}
      BY <2>1 DEF Inputs, ShowsDescription, ShowsAmphora
    <2>7. MagicInv
      BY <2>1, <2>6 DEF MagicInv, InputsHoldTheShown
    <2>. QED BY <2>3, <2>4, <2>5, <2>7 DEF EditingInv
  <1>2. EditingInv /\ [Next]_browsingVars => EditingInv'
    <2>1. ASSUME EditingInv, UNCHANGED editingVars PROVE EditingInv'
      BY <2>1 DEF EditingInv, DetailType, MenuInv, ContextInv, MagicInv, RequestInv, Accepted,
                  InputsHoldTheShown, Inputs, ShowsDescription, ShowsAmphora, editingVars,
                  detailVars, serverVars
    <2>. QED BY <2>1, EditingStep, PageSteps
  <1>. QED BY <1>1, <1>2, EditingShown, PTL DEF Spec

\* AddSignalComponent.tsx: who saves a signal once and waits is taken back to the
\* signals, however the user came to the form.
THEOREM SaverReturns == Spec => []SavedReturnsToSignals
  <1>1. Init => SignalInv
    <2> SUFFICES ASSUME Init PROVE SignalInv
      OBVIOUS
    <2>1. /\ trail = <<"signals">> /\ here = 1 /\ signal = Off /\ saves = <<>>
          /\ landed = "none"
      BY DEF Init, SignalInit
    <2>2. TrailInv(trail) /\ here \in DOMAIN trail
      BY <2>1 DEF TrailInv, Trails
    <2>. QED BY <2>1, <2>2 DEF SignalInv, SavedReturnsToSignals
  <1>2. SignalInv /\ [Next]_browsingVars => SignalInv'
    <2>1. ASSUME SignalInv, UNCHANGED signalVars PROVE SignalInv'
      BY <2>1 DEF SignalInv, TrailInv, View, SavedReturnsToSignals, signalVars
    <2>. QED BY <2>1, SignalStep, PageSteps
  <1>3. SignalInv => SavedReturnsToSignals
    BY DEF SignalInv
  <1>. QED BY <1>1, <1>2, <1>3, PTL DEF Spec

\* MapComponent.tsx, tsi.js and color-scheme.js: a map is drawn once, the chart is of
\* what is selected, and its colours are of the settings, valid, and for a chart all
\* different.
THEOREM DrawnAsChosen == Spec => []DrawnIsChosen
  <1> DEFINE Inv == MapInv /\ ChartInv /\ ColoursInv
  <1>1. Init => Inv
    <2>1. MapInit => MapInv
      BY DEF MapInit, MapInv
    <2>2. ChartInit => ChartInv
      BY DEF ChartInit, ChartInv
    <2>3. SchemeInit => ColoursInv
      BY DEF SchemeInit, ColoursInv
    <2>. QED BY <2>1, <2>2, <2>3 DEF Init
  <1>2. Inv /\ [Next]_browsingVars => Inv'
    <2>1. ASSUME MapInv, UNCHANGED mapVars PROVE MapInv'
      BY <2>1 DEF MapInv, mapVars
    <2>2. ASSUME ChartInv, UNCHANGED chartVars PROVE ChartInv'
      BY <2>2 DEF ChartInv, chartVars
    <2>3. ASSUME ColoursInv, UNCHANGED schemeVars PROVE ColoursInv'
      BY <2>3 DEF ColoursInv, ColoursAreOfTheSettings, schemeVars
    <2>. QED BY <2>1, <2>2, <2>3, MapStep, ChartStep, SchemeStep, PageSteps
  <1>3. Inv => DrawnIsChosen
    BY ChartSelected, ColoursAsSet DEF MapInv, OneMapIsDrawn, DrawnIsChosen
  <1>. QED BY <1>1, <1>2, <1>3, PTL DEF Spec

\* wordcloud2.js and the page around it (index.js): no word is drawn over another, one
\* loop draws, and of the last cloud; what hover tells is the word under the pointer; and
\* an address that names an example is of the cloud that is drawn.
THEOREM CloudsAreTrue == Spec => []CloudPageIsTrue
  <1>1. Init => CloudPageInv
    <2> SUFFICES ASSUME Init PROVE CloudPageInv
      OBVIOUS
    <2>1. /\ hash = NoName /\ changes = 0 /\ cloudForm = Off
          /\ loops = {} /\ written = {} /\ info = Off /\ told = Off /\ clouds = 0
      BY DEF Init, CloudPageInit, CloudInit
    <2>. QED BY <2>1, CloudPageAssumption DEF CloudPageInv, CloudInv, HashNamesTheCloud
  <1>2. CloudPageInv /\ [Next]_browsingVars => CloudPageInv'
    <2>1. ASSUME CloudPageInv, UNCHANGED pageVars PROVE CloudPageInv'
      BY <2>1, CloudStays DEF CloudPageInv, HashNamesTheCloud, pageVars
    <2>. QED BY <2>1, CloudPageStep, PageSteps
  <1>. QED BY <1>1, <1>2, CloudTrue, PTL DEF Spec
==============================================================================

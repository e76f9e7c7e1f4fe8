---------------------------- MODULE Applications -----------------------------
(***************************************************************************)
(* The page "Applications" of the browser client.                          *)
(*                                                                         *)
(*   ApplicationsPage.tsx                 the list, or one of the modals   *)
(*   ApplicationsList.tsx                 the list                         *)
(*   CreateOrUpdateApplicationModal.tsx,                                   *)
(*   ApplicationLocationSection.tsx       creates or edits one             *)
(*   DeleteApplicationModal.tsx           deletes one                      *)
(*                                                                         *)
(* An application is a name and its locations, each with an origin.  The   *)
(* body of an update has to name the application of its path; what is      *)
(* loaded names it, a new form does not.  The application a modal edits is *)
(* one object, changed in place; a request sends it as it is when Save is  *)
(* clicked, and its answer sets the state from that object.                *)
(***************************************************************************)
EXTENDS Browser, Bags

CONSTANTS
  MaxApps,       \* bound on the applications created
  NoApp,
  AppNames,      \* names and origins a user types, the empty one ("") not among them
  MaxLocations   \* bound on the locations of an application

Names == AppNames \cup {""}
Ids == Nat \cup {NoApp}

AppRecords == [id : Ids, name : Names, locations : Seq(Names)]

ModalStates == [kind : {"edit", "delete"}, opened : Ids, id : Ids, loading : BOOLEAN,
                closed : BOOLEAN, app : AppRecords]

ASSUME ApplicationsAssumption ==
  /\ MaxApps \in Nat /\ NoApp \notin 1 .. MaxApps /\ "" \notin AppNames
  /\ Off \notin ModalStates

VARIABLES
  appList,   \* ApplicationsListState, or Off
  modal,     \* the modal's state, one of ModalStates, or Off
  appReqs,   \* the requests under way, a bag
  apps,      \* the applications on the server
  given,     \* the ids it has given, in order; none is given twice
  made,      \* the applications this opening of the modal has created
  excused,   \* whether this opening may create one too many (see SavesOnce)
  stale,     \* whether a change was under way while the list was loaded
  appFaults

applicationsVars == <<appList, modal, appReqs, apps, given, made, excused, stale, appFaults>>

Blank == [id |-> NoApp, name |-> "", locations |-> <<"">>]

------------------------------------------------------------------------------
(* Requests *)

CanSend == BagCardinality(appReqs) < MaxRequests

With(reqs, r) == reqs (+) SetToBag({r})
Less(r) == appReqs (-) SetToBag({r})

Request(kind, id, app) ==
  [kind |-> kind, id |-> id, app |-> app, answer |-> "none", heard |-> TRUE]

Creations ==
  [r \in {q \in DOMAIN appReqs : q.kind = "create" /\ q.answer = "none"} |-> appReqs[r]]

Stored == {a.id : a \in apps}

Apps == 1 .. MaxApps

\* Bound: the server has an id for every application that is being created.
HasId == given + BagCardinality(Creations) < MaxApps

Send(kind, id, app) ==
  /\ CanSend
  /\ kind = "create" => HasId
  /\ appReqs' = With(appReqs, Request(kind, id, app))

IsChange(r) == r.kind \in {"create", "update", "delete"}

IsUnderWay(r) == IsChange(r) /\ r.answer = "none"

ChangeUnderWay == \E r \in DOMAIN appReqs : IsUnderWay(r)

Copies(r) == IF r \in DOMAIN appReqs THEN appReqs[r] ELSE 0

\* What is left of the requests when their component is left: the changes the
\* server has not made yet.  Nobody hears their answers.
Unheard ==
  [u \in {[r EXCEPT !.heard = FALSE] : r \in {q \in DOMAIN appReqs : IsUnderWay(q)}} |->
     Copies(u) + Copies([u EXCEPT !.heard = TRUE])]

------------------------------------------------------------------------------
(* Routes *)

\* The list is loaded when it is mounted; the requests of what was open before
\* are not heard any more.
OpenApplications ==
  /\ CanSend
  /\ appList' = [loading |-> TRUE, error |-> FALSE, applications |-> {}]
  /\ modal' = Off
  /\ appReqs' = With(Unheard, Request("list", NoApp, Blank))
  /\ stale' = ChangeUnderWay
  /\ made' = {}
  /\ excused' = FALSE
  /\ UNCHANGED <<apps, given, appFaults>>

LeaveApplications ==
  /\ appList # Off \/ modal # Off
  /\ appList' = Off
  /\ modal' = Off
  /\ appReqs' = Unheard
  /\ made' = {}
  /\ excused' = FALSE
  /\ stale' = FALSE
  /\ UNCHANGED <<apps, given, appFaults>>

\* What the rows link to: a modal replaces the list.
RowOf(id) == appList # Off /\ ~appList.loading /\ id \in appList.applications

\* A modal reads the application its path names, if any.
OpenModal(kind, id) ==
  /\ appList' = Off
  /\ modal' = [kind |-> kind, opened |-> id, id |-> id, loading |-> id # NoApp,
               closed |-> FALSE, app |-> Blank]
  /\ IF id = NoApp
     THEN appReqs' = Unheard
     ELSE CanSend /\ appReqs' = With(Unheard, Request("read", id, Blank))
  /\ made' = {}
  /\ excused' = FALSE
  /\ stale' = FALSE
  /\ UNCHANGED <<apps, given, appFaults>>

NewApplication == appList # Off /\ OpenModal("edit", NoApp)
EditApplication(id) == RowOf(id) /\ OpenModal("edit", id)
ClickDelete(id) == RowOf(id) /\ OpenModal("delete", id)

\* A modal that is closed redirects to the list.
CloseApplication == modal # Off /\ OpenApplications

------------------------------------------------------------------------------
(* Editing *)

ShowsInputs == modal # Off /\ ~modal.closed /\ modal.kind = "edit" /\ ~modal.loading

Write(app) ==
  /\ app # modal.app
  /\ modal' = [modal EXCEPT !.app = app]
  /\ UNCHANGED <<appList, appReqs, apps, given, made, excused, stale, appFaults>>

\* An empty name is passed over.
SetAppName(name) ==
  /\ ShowsInputs /\ name # ""
  /\ Write([modal.app EXCEPT !.name = name])

AddNewLocation ==
  /\ ShowsInputs
  /\ Len(modal.app.locations) < MaxLocations
  /\ Write([modal.app EXCEPT !.locations = Append(@, "")])

updateLocation(i, origin) == Write([modal.app EXCEPT !.locations[i] = origin])

removeLocation(i) == Write([modal.app EXCEPT !.locations = Without(@, i)])

ShowsLocation(i) == ShowsInputs /\ i \in DOMAIN modal.app.locations

\* The validator lets no empty origin through.
UpdateOrigin(i, origin) ==
  /\ ShowsLocation(i)
  /\ origin # ""
  /\ updateLocation(i, origin)

ClickRemove(i) == ShowsLocation(i) /\ removeLocation(i)

\* Save is there while the modal is loading too.  It creates when the state has
\* no id and updates when it has one.
Save ==
  /\ modal # Off /\ ~modal.closed /\ modal.kind = "edit"
  /\ IF modal.id = NoApp
     THEN Send("create", NoApp, modal.app)
     ELSE Send("update", modal.id, modal.app)
  /\ modal' = [modal EXCEPT !.loading = TRUE]
  /\ excused' = (excused \/ modal.loading)
  /\ UNCHANGED <<appList, apps, given, made, stale, appFaults>>

ShowsDelete == modal # Off /\ ~modal.closed /\ modal.kind = "delete" /\ ~modal.loading

ConfirmDelete ==
  /\ ShowsDelete
  /\ modal.app.id # NoApp
  /\ Send("delete", modal.app.id, modal.app)
  /\ UNCHANGED <<appList, modal, apps, given, made, excused, stale, appFaults>>

------------------------------------------------------------------------------
(* The server *)

Reply(r, answer, app) ==
  appReqs' = IF r.heard THEN With(Less(r), [r EXCEPT !.answer = answer, !.app = app]) ELSE Less(r)

ServeReadApp(r) ==
  /\ r.kind = "read" /\ r.answer = "none"
  /\ IF r.id \in Stored
     THEN Reply(r, "ok", CHOOSE a \in apps : a.id = r.id)
     ELSE Reply(r, "refused", Blank)
  /\ UNCHANGED <<appList, modal, apps, given, made, excused, stale, appFaults>>

ServeCreate(r) ==
  /\ r.kind = "create" /\ r.answer = "none"
  /\ given' = given + 1
  /\ apps' = apps \cup {[r.app EXCEPT !.id = given']}
  /\ Reply(r, "ok", r.app)
  /\ made' = IF r.heard THEN made \cup {given'} ELSE made
  /\ UNCHANGED <<appList, modal, excused, stale, appFaults>>

\* An update is refused when its body names another application, or none.
ServeUpdateApp(r) ==
  /\ r.kind = "update" /\ r.answer = "none"
  /\ IF r.app.id = r.id /\ r.id \in Stored
     THEN /\ apps' = {a \in apps : a.id # r.id} \cup {r.app}
          /\ Reply(r, "ok", r.app)
     ELSE Reply(r, "refused", r.app) /\ UNCHANGED apps
  /\ UNCHANGED <<appList, modal, given, made, excused, stale, appFaults>>

ServeDelete(r) ==
  /\ r.kind = "delete" /\ r.answer = "none"
  /\ apps' = {a \in apps : a.id # r.id}
  /\ Reply(r, IF r.id \in Stored THEN "ok" ELSE "refused", r.app)
  /\ UNCHANGED <<appList, modal, given, made, excused, stale, appFaults>>

------------------------------------------------------------------------------
(* The answers *)

Answered(r, answer) ==
  /\ r.answer = answer
  /\ appReqs' = Less(r)

Heard(r, kind) == r.heard /\ r.kind = kind

\* What the list reads is what the server has when it answers.
AnswerListApps(r) ==
  /\ r.kind = "list"
  /\ Answered(r, "none")
  /\ appList' = IF r.heard
                THEN [loading |-> FALSE, error |-> FALSE, applications |-> Stored] ELSE appList
  /\ stale' = (stale \/ ChangeUnderWay)
  /\ UNCHANGED <<modal, apps, given, made, excused, appFaults>>

\* (mutant of Loaded)
LoadedWithoutId(app) == [modal EXCEPT !.loading = FALSE, !.app = app, !.id = NoApp]
\* Loaded: the state takes the application and its id.
Loaded(app) == [modal EXCEPT !.loading = FALSE, !.app = app, !.id = app.id]

AnswerRead(r) ==
  /\ r.kind = "read"
  /\ Answered(r, "ok")
  /\ modal' = IF r.heard THEN Loaded(r.app) ELSE modal
  /\ UNCHANGED <<appList, apps, given, made, excused, stale, appFaults>>

\* Created, updated or deleted: the modal closes.
SucceededModal == [modal EXCEPT !.closed = TRUE]

AnswerChange(r) ==
  /\ IsChange(r)
  /\ Answered(r, "ok")
  /\ modal' = IF r.heard THEN SucceededModal ELSE modal
  /\ UNCHANGED <<appList, apps, given, made, excused, stale, appFaults>>

\* A creation or an update that fails sets the state without an id, so that the
\* next Save creates.
FailedSave(r) ==
  /\ modal' = IF r.heard
              THEN [modal EXCEPT !.loading = FALSE, !.id = NoApp, !.app = r.app]
              ELSE modal
  /\ excused' = (excused \/ r.heard)

RefuseSave(r) ==
  /\ r.kind \in {"create", "update"}
  /\ Answered(r, "refused")
  /\ FailedSave(r)
  /\ UNCHANGED <<appList, apps, given, made, stale, appFaults>>

\* An application that cannot be read closes the modal; one that cannot be
\* deleted leaves it open.
RefuseRead(r) ==
  /\ r.kind = "read"
  /\ Answered(r, "refused")
  /\ modal' = IF r.heard THEN [modal EXCEPT !.closed = TRUE] ELSE modal
  /\ UNCHANGED <<appList, apps, given, made, excused, stale, appFaults>>

RefuseDelete(r) ==
  /\ r.kind = "delete"
  /\ Answered(r, "refused")
  /\ UNCHANGED <<appList, modal, apps, given, made, excused, stale, appFaults>>

\* (mutant of ListFailed)
ListEmpty == [loading |-> FALSE, error |-> FALSE, applications |-> {}]
\* The list could not be loaded.
ListFailed == [loading |-> FALSE, error |-> TRUE, applications |-> {}]

\* A request is lost, before or after the server has served it.
LoseRequest(r) ==
  /\ appFaults < MaxFaults /\ appFaults' = appFaults + 1
  /\ appReqs' = Less(r)
  /\ CASE Heard(r, "list") ->
            /\ appList' = ListFailed
            /\ UNCHANGED <<modal, excused>>
       [] Heard(r, "read") ->
            /\ modal' = [modal EXCEPT !.closed = TRUE]
            /\ UNCHANGED <<appList, excused>>
       [] r.kind \in {"create", "update"} -> FailedSave(r) /\ UNCHANGED appList
       [] OTHER -> UNCHANGED <<appList, modal, excused>>
  /\ UNCHANGED <<apps, given, made, stale>>

------------------------------------------------------------------------------

ApplicationsUser ==
  \/ appList = Off /\ modal = Off /\ OpenApplications
  \/ LeaveApplications \/ NewApplication \/ CloseApplication
  \/ \E id \in Apps : EditApplication(id) \/ ClickDelete(id)
  \/ \E name \in AppNames : SetAppName(name)
  \/ AddNewLocation
  \/ \E i \in 1 .. MaxLocations :
       ClickRemove(i) \/ \E origin \in AppNames : UpdateOrigin(i, origin)
  \/ Save \/ ConfirmDelete

ApplicationsAnswers ==
  \E r \in DOMAIN appReqs :
    \/ ServeReadApp(r) \/ ServeCreate(r) \/ ServeUpdateApp(r) \/ ServeDelete(r)
    \/ AnswerListApps(r) \/ AnswerRead(r) \/ AnswerChange(r)
    \/ RefuseSave(r) \/ RefuseRead(r) \/ RefuseDelete(r) \/ LoseRequest(r)

ApplicationsNext == ApplicationsUser \/ ApplicationsAnswers

ApplicationsInit ==
  /\ appList = Off
  /\ modal = Off
  /\ appReqs = EmptyBag
  /\ apps = {} /\ given = 0
  /\ made = {}
  /\ excused = FALSE
  /\ stale = FALSE
  /\ appFaults = 0

------------------------------------------------------------------------------
(* What the page promises *)

\* A modal opened for a new application creates at most one, and one opened for
\* an application there is creates none, unless a save failed (the state loses
\* its id) or Save was clicked while the modal was loading.
SavesOnce ==
  modal # Off /\ ~excused =>
    Cardinality(made) <= IF modal.opened = NoApp THEN 1 ELSE 0

\* A list that is shown has the applications of the server, unless a change was
\* under way while it was loaded.
ListIsOfServer ==
  appList # Off /\ ~appList.loading /\ ~appList.error /\ ~stale /\ ~ChangeUnderWay =>
    appList.applications = Stored

\* Applications are created as often as asked, and listed as they are stored.
ApplicationsAreAsAsked == SavesOnce /\ ListIsOfServer
==============================================================================

------------------------------- MODULE Detail --------------------------------
(***************************************************************************)
(* The detail of an Amphora in the browser client.                         *)
(*                                                                         *)
(*   ConnectedAmphoraModal.tsx  loads the Amphora the path names           *)
(*   AmphoraDetailMenu.tsx      the menu of its views                      *)
(*   PurchaseButton.tsx         what follows a purchase                    *)
(*                                                                         *)
(* The Amphora that is shown is the current one of the context             *)
(* AmphoraOperations of react-amphora.  It is edited in Editing.           *)
(***************************************************************************)
EXTENDS Browser

CONSTANTS
  Ids,          \* Amphorae
  Own,          \* those the user may edit
  NoAmphora,
  Fields        \* what can be edited of an Amphora

ASSUME DetailAssumption ==
  Own \subseteq Ids /\ NoAmphora \notin Ids /\ Fields \subseteq {"name", "description", "price"}

VARIABLES
  detail,       \* the modal: the id of the path, the view, the menu, the reads tried; or Off
  menuDue,      \* whether the menu's effect is due
  wide,         \* whether the window is wider than windowWidthBreakpoint
  toggled,      \* whether the user has turned the menu of this view the other way
  ops,          \* the context: [isLoading, current, level]
  opsAsked,     \* its requests under way, oldest first
  purchasing,   \* the purchases under way
  amphora,      \* the Amphorae on the server
  level,        \* the user's access level to each
  edited,       \* what the user's accepted edits make of each
  behind,       \* whether the context may be behind the server: an answer to an edit was
                \* lost, or a read was sent while another request was under way
  opFaults

serverVars == <<amphora, level, edited>>
detailVars == <<detail, menuDue, wide, toggled, ops, opsAsked, purchasing, serverVars, behind, opFaults>>

Written == 1      \* what the user makes of a field, which is 0 at first
Read == 16
ReadContents == 32
Update == 128
MaxAttempts == 4
Views == {"description", "files"}   \* two of the views

NoCurrent == [id |-> NoAmphora, model |-> [f \in Fields |-> 0]]

------------------------------------------------------------------------------
(* What is drawn *)

IsCorrectId == detail # Off /\ ops.current.id = detail.id

\* (mutant of ShowsAmphora)
ShowsAmphoraLoading == detail # Off /\ ops.current.id # NoAmphora
\* While the context is loading the page is hidden.
ShowsAmphora == detail # Off /\ ~ops.isLoading /\ ops.current.id # NoAmphora

\* The views that are listed in the menu.
IsEnabled(view) == view = "files" => ops.level >= ReadContents

CanEditName == ops.level >= Update

------------------------------------------------------------------------------
(* The context, which is external *)

CanAskOps == Len(opsAsked) < MaxRequests

\* A request, and what the server has made of it so far.
Ask(kind, id, model, field) ==
  /\ CanAskOps
  /\ opsAsked' = Append(opsAsked, [kind |-> kind, id |-> id, model |-> model,
                                   field |-> field, answer |-> "none", level |-> 0])
  /\ ops' = [ops EXCEPT !.isLoading = TRUE]

------------------------------------------------------------------------------
(* The effects *)

\* (mutant of NeedsRead)
NeedsFirstRead ==
  detail # Off /\ ~ops.isLoading /\ ops.current.id = NoAmphora /\ detail.attempts < MaxAttempts
\* The context holds another Amphora than the path names: read it, four times
\* at most, since the modal was mounted.
NeedsRead ==
  detail # Off /\ ~ops.isLoading /\ ~IsCorrectId /\ detail.attempts < MaxAttempts

ReadEffect ==
  /\ NeedsRead
  /\ Ask("read", detail.id, NoCurrent.model, "none")
  /\ detail' = [detail EXCEPT !.attempts = @ + 1]
  /\ behind' = (behind \/ opsAsked # <<>>)
  /\ UNCHANGED <<menuDue, wide, toggled, purchasing, serverVars, opFaults>>

\* The menu is opened in a wide window and closed in a narrow one, when it is
\* mounted, when the window is resized and when the location changes.
MenuEffect ==
  /\ ~NeedsRead /\ ShowsAmphora /\ menuDue
  /\ detail' = [detail EXCEPT !.open = wide]
  /\ menuDue' = FALSE
  /\ UNCHANGED <<wide, toggled, ops, opsAsked, purchasing, serverVars, behind, opFaults>>

DetailSettled == ~NeedsRead /\ ~(ShowsAmphora /\ menuDue)

DetailEffects == ReadEffect \/ MenuEffect

------------------------------------------------------------------------------
(* What the user does *)

OpenDetail(id) ==
  /\ detail = Off
  /\ detail' = [id |-> id, view |-> "description", open |-> TRUE, attempts |-> 0]
  /\ menuDue' = TRUE
  /\ toggled' = FALSE
  /\ UNCHANGED <<wide, ops, opsAsked, purchasing, serverVars, behind, opFaults>>

CloseDetail ==
  /\ detail # Off /\ DetailSettled
  /\ detail' = Off
  /\ menuDue' = FALSE /\ toggled' = FALSE
  /\ UNCHANGED <<wide, ops, opsAsked, purchasing, serverVars, behind, opFaults>>

\* The link of a toast leads to another Amphora without unmounting the modal.
FollowToast(id) ==
  /\ detail # Off /\ DetailSettled
  /\ id # detail.id
  /\ level[id] = ReadContents
  /\ detail' = [detail EXCEPT !.id = id, !.view = "description"]
  /\ menuDue' = TRUE
  /\ toggled' = FALSE
  /\ UNCHANGED <<wide, ops, opsAsked, purchasing, serverVars, behind, opFaults>>

ClickView(view) ==
  /\ ShowsAmphora /\ DetailSettled
  /\ view # detail.view /\ IsEnabled(view)
  /\ detail' = [detail EXCEPT !.view = view]
  /\ menuDue' = TRUE
  /\ toggled' = FALSE
  /\ UNCHANGED <<wide, ops, opsAsked, purchasing, serverVars, behind, opFaults>>

ToggleMenu ==
  /\ ShowsAmphora /\ DetailSettled
  /\ detail' = [detail EXCEPT !.open = ~@]
  /\ toggled' = ~toggled
  /\ UNCHANGED <<menuDue, wide, ops, opsAsked, purchasing, serverVars, behind, opFaults>>

Resize ==
  /\ detail # Off /\ DetailSettled
  /\ wide' = ~wide
  /\ menuDue' = TRUE
  /\ toggled' = FALSE
  /\ UNCHANGED <<detail, ops, opsAsked, purchasing, serverVars, behind, opFaults>>

Purchase ==
  /\ ShowsAmphora /\ DetailSettled
  /\ level[ops.current.id] = Read
  /\ purchasing' = purchasing \cup {ops.current.id}
  /\ UNCHANGED <<detail, menuDue, wide, toggled, ops, opsAsked, serverVars, behind, opFaults>>

------------------------------------------------------------------------------
(* The server *)

ServeRead(i) ==
  LET r == opsAsked[i] IN
  /\ r.kind = "read" /\ r.answer = "none"
  /\ opsAsked' = [opsAsked EXCEPT ![i].answer = "ok", ![i].model = amphora[r.id],
                                  ![i].level = level[r.id]]
  /\ UNCHANGED <<detail, menuDue, wide, toggled, ops, purchasing, serverVars, behind, opFaults>>

\* An update replaces the Amphora; one the user may not make is refused.
ServeUpdate(i) ==
  LET r == opsAsked[i] IN
  /\ r.kind = "update" /\ r.answer = "none"
  /\ IF level[r.id] >= Update
     THEN /\ opsAsked' = [opsAsked EXCEPT ![i].answer = "ok", ![i].level = level[r.id]]
          /\ amphora' = [amphora EXCEPT ![r.id] = r.model]
          /\ edited' = [edited EXCEPT ![r.id][r.field] = r.model[r.field]]
     ELSE /\ opsAsked' = [opsAsked EXCEPT ![i].answer = "refused"]
          /\ UNCHANGED <<amphora, edited>>
  /\ UNCHANGED <<detail, menuDue, wide, toggled, ops, purchasing, level, behind, opFaults>>

\* The Amphora that was purchased is read again, whatever the path names by then.
ReadPurchased(id) ==
  /\ Ask("read", id, NoCurrent.model, "none")
  /\ behind' = (behind \/ opsAsked # <<>>)

Purchased(id) ==
  /\ id \in purchasing /\ DetailSettled
  /\ purchasing' = purchasing \ {id}
  /\ level' = [level EXCEPT ![id] = ReadContents]
  /\ ReadPurchased(id)
  /\ UNCHANGED <<detail, menuDue, wide, toggled, amphora, edited, opFaults>>

\* Answers come in any order.  The menu is mounted again with the page.
AnswerOp(i) ==
  LET r == opsAsked[i] IN
  /\ DetailSettled
  /\ r.answer # "none"
  /\ opsAsked' = Without(opsAsked, i)
  /\ ops' = IF r.answer = "ok"
            THEN [isLoading |-> FALSE, current |-> [id |-> r.id, model |-> r.model],
                  level |-> r.level]
            ELSE [ops EXCEPT !.isLoading = FALSE]
  /\ menuDue' = (detail # Off /\ (menuDue \/ ops.isLoading))
  /\ toggled' = (toggled /\ ~ops.isLoading)
  /\ UNCHANGED <<detail, wide, purchasing, serverVars, behind, opFaults>>

\* A request or its answer is lost.
FailOp(i) ==
  /\ DetailSettled
  /\ opFaults < MaxFaults /\ opFaults' = opFaults + 1
  /\ behind' = (behind \/ (opsAsked[i].kind = "update" /\ opsAsked[i].answer # "none"))
  /\ opsAsked' = Without(opsAsked, i)
  /\ ops' = [ops EXCEPT !.isLoading = FALSE]
  /\ menuDue' = (detail # Off /\ (menuDue \/ ops.isLoading))
  /\ toggled' = (toggled /\ ~ops.isLoading)
  /\ UNCHANGED <<detail, wide, purchasing, serverVars>>

------------------------------------------------------------------------------

DetailClicks ==
  \/ \E id \in Ids : OpenDetail(id) \/ FollowToast(id)
  \/ CloseDetail \/ ToggleMenu \/ Purchase
  \/ \E view \in Views : ClickView(view)

OpAnswers ==
  \E i \in DOMAIN opsAsked : ServeRead(i) \/ ServeUpdate(i) \/ AnswerOp(i) \/ FailOp(i)

PurchaseAnswers == \E id \in Ids : Purchased(id)

DetailInit ==
  /\ detail = Off
  /\ menuDue = FALSE
  /\ wide = TRUE
  /\ toggled = FALSE
  /\ ops = [isLoading |-> FALSE, current |-> NoCurrent, level |-> 0]
  /\ opsAsked = <<>>
  /\ purchasing = {}
  /\ amphora = [id \in Ids |-> [f \in Fields |-> 0]]
  /\ level = [id \in Ids |-> IF id \in Own THEN Update ELSE Read]
  /\ edited = amphora
  /\ behind = FALSE
  /\ opFaults = 0

------------------------------------------------------------------------------
(* What the page promises *)

\* The Amphora shown is the one the path names, until four reads have been tried.
DetailIsOfPath ==
  ShowsAmphora /\ DetailSettled => IsCorrectId \/ detail.attempts = MaxAttempts

\* The menu is open in a wide window and closed in a narrow one, or the other
\* way when the user has turned it since it was drawn.
MenuFitsWindow ==
  ShowsAmphora /\ DetailSettled => (detail.open = wide) = ~toggled
==============================================================================

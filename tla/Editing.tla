------------------------------- MODULE Editing -------------------------------
(***************************************************************************)
(* The detail of an Amphora with the inputs that edit it in place:         *)
(*                                                                         *)
(*   MagicLabel.tsx               its name                                 *)
(*   MagicTextArea.tsx            its description                          *)
(*   MagicModalCurrencyInput.tsx  its price                                *)
(*   Description.tsx              what is sent of the last two             *)
(*                                                                         *)
(* Each input keeps the value it was mounted with, or was last completed   *)
(* with, and opens on that, whatever the context holds by then.  They are  *)
(* mounted when the page is shown again after loading.  Of a text it only  *)
(* matters whether it is the first one or what the user makes of it.  The  *)
(* price dialog closed by a key is in CreateForm.                          *)
(***************************************************************************)
EXTENDS Detail

VARIABLE magic    \* what the inputs hold, the one that is open ("none") and its text

editingVars == <<detailVars, magic>>

ShowsDescription == ShowsAmphora /\ detail.view = "description"

\* The inputs the page shows.
Inputs == {f \in Fields : IF f = "name" THEN ShowsAmphora ELSE ShowsDescription}

\* (mutant of Mount)
MountOnce ==
  magic' = [values |-> [f \in Inputs' \cup DOMAIN magic.values |->
                          IF f \in DOMAIN magic.values THEN magic.values[f]
                          ELSE ops'.current.model[f]],
            at |-> "none", typed |-> 0]
\* useState(props.initialValue): an input that is mounted by a step of the page
\* takes what the page is given, one that is not keeps what it has.
Mount ==
  magic' = [values |-> [f \in Inputs' |-> IF f \in Inputs THEN magic.values[f]
                                          ELSE ops'.current.model[f]],
            at |-> IF magic.at \in Inputs' THEN magic.at ELSE "none",
            typed |-> IF magic.at \in Inputs' THEN magic.typed ELSE 0]

\* A click on the pencil, the description or the price.  The name is only
\* editable with the level to; the others are whatever the level.
StartEditing(f) ==
  /\ f \in Inputs /\ DetailSettled /\ magic.at = "none"
  /\ f = "name" => CanEditName
  /\ magic' = [magic EXCEPT !.at = f, !.typed = magic.values[f]]
  /\ UNCHANGED detailVars

TypeText ==
  /\ magic.at # "none"
  /\ magic.typed # Written
  /\ magic' = [magic EXCEPT !.typed = Written]
  /\ UNCHANGED detailVars

\* onSaveDescription, onSavePrice: what differs from what is shown is sent, with
\* the rest of the Amphora as it is shown.
Save(f, value) ==
  IF value # ops.current.model[f]
  THEN Ask("update", ops.current.id, [ops.current.model EXCEPT ![f] = value], f)
  ELSE UNCHANGED <<ops, opsAsked>>

handleUpdateName(name) == Save("name", name)

\* A text is completed when its input loses the focus, the price in its dialog.
CompleteEdit ==
  /\ magic.at # "none" /\ DetailSettled
  /\ IF magic.at = "name" THEN handleUpdateName(magic.typed)
                          ELSE Save(magic.at, magic.typed)
  /\ UNCHANGED <<detail, menuDue, wide, toggled, purchasing, serverVars, behind, opFaults>>
  /\ magic' = [values |-> [f \in Inputs' |-> IF f = magic.at THEN magic.typed
                                             ELSE magic.values[f]],
               at |-> "none", typed |-> 0]

CancelEdit ==
  /\ magic.at = "price"
  /\ magic' = [magic EXCEPT !.at = "none", !.typed = 0]
  /\ UNCHANGED detailVars

------------------------------------------------------------------------------

\* A click elsewhere first takes the focus from the input that is open.
EditingUser ==
  \/ magic.at = "none" /\ DetailClicks /\ Mount
  \/ Resize /\ Mount
  \/ \E f \in Fields : StartEditing(f)
  \/ TypeText \/ CompleteEdit \/ CancelEdit

EditingEffects == DetailEffects /\ Mount

EditingAnswers == OpAnswers /\ Mount

EditingNext ==
  EditingUser \/ EditingEffects \/ EditingAnswers \/ (PurchaseAnswers /\ Mount)

EditingInit ==
  DetailInit /\ magic = [values |-> [f \in {} |-> 0], at |-> "none", typed |-> 0]

------------------------------------------------------------------------------
(* What the page promises *)

\* The edits of one user in one browser do not undo each other: the Amphora is
\* what the accepted edits make of it, though each sends every field as it is
\* shown, unless the context is behind the server.
OwnEditsAreKept == ~behind => amphora = edited

\* An input opens on what the page shows, so that completing it unchanged
\* sends nothing, unless the context has fallen behind the server.
InputsHoldTheShown ==
  ~behind => \A f \in Inputs : magic.values[f] = ops.current.model[f]

\* The page is about the Amphora of its path, as its own edits have left it,
\* with inputs that hold what is shown and a menu that fits the window.
DetailIsCurrent ==
  DetailIsOfPath /\ OwnEditsAreKept /\ InputsHoldTheShown /\ MenuFitsWindow
==============================================================================

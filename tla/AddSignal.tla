------------------------------ MODULE AddSignal ------------------------------
(***************************************************************************)
(* Adding a signal to an Amphora in the browser client (Signals.tsx,       *)
(* AddSignalComponent.tsx).  The form goes back in the history of the      *)
(* browser when its signal has been created, wherever the user is by then; *)
(* the component need not be mounted for that.                             *)
(***************************************************************************)
EXTENDS Browser

CONSTANT MaxTrail     \* bound on the length of the history

VARIABLES
  trail,      \* the history of the browser: the views visited
  here,       \* where the browser is in it
  signal,     \* AddSignalState and the name typed, or Off
  saves,      \* the creations under way
  signals,    \* the signals of the Amphora: their value types
  moved,      \* whether the user has moved, or saved again, since the first of these
  landed      \* the view the last creation went back to, if the user had not moved

signalVars == <<trail, here, signal, saves, signals, moved, landed>>

SignalViews == {"signals", "files"}
ValueTypes == {"Numeric", "String"}
PropertyNames == {"", "name"}

View == trail[here]

\* To push a view forgets the views that were gone back from.
Push(view) ==
  /\ here < MaxTrail
  /\ trail' = Append(SubSeq(trail, 1, here), view)
  /\ here' = here + 1

Moves(to) ==
  /\ moved' = (saves # <<>>)
  /\ landed' = "none"
  /\ signal' = IF to = "add" THEN [property |-> "", valueType |-> "Numeric", typed |-> "",
                                   focused |-> FALSE] ELSE Off

Unfocused == signal # Off => ~signal.focused

------------------------------------------------------------------------------

\* The button of the view "signals".
ClickAdd ==
  /\ View = "signals"
  /\ Push("add") /\ Moves("add")
  /\ UNCHANGED <<saves, signals>>

\* Back and Cancel are links to the signals: they push.
ClickCancel ==
  /\ View = "add" /\ Unfocused
  /\ Push("signals") /\ Moves("signals")
  /\ UNCHANGED <<saves, signals>>

\* Another view of the menu.
ClickMenu(view) ==
  /\ Unfocused /\ view # View
  /\ Push(view) /\ Moves(view)
  /\ UNCHANGED <<saves, signals>>

BrowserBack ==
  /\ here > 1 /\ Unfocused
  /\ here' = here - 1
  /\ Moves(trail[here - 1])
  /\ UNCHANGED <<trail, saves, signals>>

Fill(s) ==
  /\ s # signal
  /\ signal' = s
  /\ UNCHANGED <<trail, here, saves, signals, moved, landed>>

TypeProperty(name) ==
  signal # Off /\ Fill([signal EXCEPT !.typed = name, !.focused = TRUE])

\* setProperty, when the input is left: no name is refused here.
SetProperty ==
  signal # Off /\ Fill([signal EXCEPT !.property = signal.typed, !.focused = FALSE])

SetValueType(t) ==
  signal # Off /\ Unfocused /\ Fill([signal EXCEPT !.valueType = t])

\* (mutant of CreateSignal)
CreateSignalAndReturn ==
  /\ signal # Off /\ Unfocused
  /\ Len(saves) < MaxRequests /\ here > 1
  /\ saves' = Append(saves, [property |-> signal.property, type |-> signal.valueType])
  /\ moved' = (saves # <<>>)
  /\ here' = here - 1 /\ signal' = Off
  /\ UNCHANGED <<trail, signals, landed>>
\* createSignal: the form stays as it is until the answer.
CreateSignal ==
  /\ signal # Off /\ Unfocused
  /\ Len(saves) < MaxRequests
  /\ saves' = Append(saves, [property |-> signal.property, type |-> signal.valueType])
  /\ moved' = (saves # <<>>)
  /\ UNCHANGED <<trail, here, signal, signals, landed>>

\* The signal is created: back to the entry before this one, whatever it is.
SignalCreated(i) ==
  /\ saves[i].property # ""
  /\ saves' = Without(saves, i)
  /\ signals' = signals \cup {saves[i].type}
  /\ here' = IF here > 1 THEN here - 1 ELSE here
  /\ landed' = IF moved THEN "none" ELSE trail[here']
  /\ moved' = (moved /\ Len(saves) > 1)
  /\ signal' = IF trail[here'] = "add"
               THEN [property |-> "", valueType |-> "Numeric", typed |-> "",
                     focused |-> FALSE] ELSE Off
  /\ UNCHANGED trail

\* It is refused, for want of a name, or the request is lost: an alert.
SignalRefused(i) ==
  /\ saves' = Without(saves, i)
  /\ moved' = (moved /\ Len(saves) > 1)
  /\ UNCHANGED <<trail, here, signal, signals, landed>>

SignalUser ==
  \/ ClickAdd \/ ClickCancel \/ BrowserBack \/ SetProperty \/ CreateSignal
  \/ \E view \in SignalViews : ClickMenu(view)
  \/ \E name \in PropertyNames : TypeProperty(name)
  \/ \E t \in ValueTypes : SetValueType(t)

SignalAnswers == \E i \in DOMAIN saves : SignalCreated(i) \/ SignalRefused(i)

SignalNext == SignalUser \/ SignalAnswers

SignalInit ==
  /\ trail = <<"signals">> /\ here = 1
  /\ signal = Off
  /\ saves = <<>>
  /\ signals = {}
  /\ moved = FALSE
  /\ landed = "none"

------------------------------------------------------------------------------
(* What the view promises *)

\* A user who saves a signal once and waits is taken back to the signals the
\* form was opened from.
SavedReturnsToSignals == landed \in {"none", "signals"}
==============================================================================

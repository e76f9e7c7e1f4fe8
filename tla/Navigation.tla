----------------------------- MODULE Navigation ------------------------------
(***************************************************************************)
(* The menu and the tour of the browser client, in one tab with a user.    *)
(*                                                                         *)
(*   HamburgerMenu.tsx, useWindowSize.tsx, middleware/ui/burgerMenu.ts     *)
(*                               the menu                                  *)
(*   withTour.tsx, tourSteps.ts  the prompt and the tour                   *)
(*                                                                         *)
(* The answer to the prompt is kept in the storage of the browser.  It is  *)
(* read once, when the page is loaded.  Joyride, which walks through the   *)
(* steps, is external: a step whose target is not on the page is passed    *)
(* over, the others show a beacon, which opens a tooltip, which is closed. *)
(***************************************************************************)
EXTENDS Browser

VARIABLES
  shown,       \* the page: its path and its menu's sections that are open; or Off
  tour,        \* the state of Tour
  tourStored,  \* the item "tour" of the storage
  answer,      \* what the user last said of the tour: "none", "yes" or "no"
  step,        \* the step of the tour, and whether its tooltip is open
  window,      \* whether the window is wide; whether the menu's effect is due
  burger,      \* burgerMenu.primary.isOpen
  burgerMoved  \* whether the user has toggled the menu since its effect last ran

navigationVars == <<shown, tour, tourStored, answer, step, window, burger, burgerMoved>>

MenuSections == {"account", "amphora", "management", "more"}

\* The items of the menu that are links, and their sections.
MenuItems == [profile |-> "account", search |-> "amphora", create |-> "amphora",
              amphora |-> "amphora", terms |-> "management", settings |-> "more"]

\* Where the click on a beacon leads, and the page its target is on.
Welcome == [to |-> "home", on |-> "any"]
CollectionSteps == <<[to |-> "amphora", on |-> "any"], [to |-> "none", on |-> "amphora"]>>
CreateSteps == <<[to |-> "create", on |-> "any"]>>
               \o [i \in 1 .. 4 |-> [to |-> "none", on |-> "create"]]
SearchSteps == <<[to |-> "search", on |-> "any"], [to |-> "none", on |-> "search"]>>
RedoTour == [to |-> "home", on |-> "any"]
Final == [to |-> "home", on |-> "any"]
tourSteps ==
  <<Welcome>> \o CollectionSteps \o CreateSteps \o SearchSteps \o <<RedoTour, Final>>

FirstStep == [at |-> 1, tooltip |-> FALSE]

------------------------------------------------------------------------------
(* Loading the page *)

LoadShell(stored) ==
  /\ shown' = [path |-> "home", sections |-> {"amphora"}]
  /\ tour' = [prompt |-> stored = "none", do |-> stored = "accept"]
  /\ step' = FirstStep
  /\ window' = [window EXCEPT !.due = TRUE]
  /\ burger' = FALSE /\ burgerMoved' = FALSE

OpenShell ==
  /\ shown = Off
  /\ LoadShell(tourStored)
  /\ UNCHANGED <<tourStored, answer>>

CloseShell ==
  /\ shown # Off
  /\ shown' = Off
  /\ tour' = [prompt |-> FALSE, do |-> FALSE]
  /\ step' = FirstStep
  /\ window' = [window EXCEPT !.due = FALSE]
  /\ burger' = FALSE /\ burgerMoved' = FALSE
  /\ UNCHANGED <<tourStored, answer>>

------------------------------------------------------------------------------
(* The menu *)

\* The effect runs when the window is measured and when the location changes.
MenuSizeEffect ==
  /\ shown # Off /\ window.due
  /\ burger' = window.wide
  /\ burgerMoved' = FALSE
  /\ window' = [window EXCEPT !.due = FALSE]
  /\ UNCHANGED <<shown, tour, tourStored, answer, step>>

\* While the menu's effect is due nothing else happens.
Calm == shown # Off /\ ~window.due

ResizeWindow ==
  /\ shown = Off \/ Calm
  /\ window' = [wide |-> ~window.wide, due |-> shown # Off]
  /\ UNCHANGED <<shown, tour, tourStored, answer, step, burger, burgerMoved>>

ToggleBurger ==
  /\ Calm
  /\ burger' = ~burger
  /\ burgerMoved' = TRUE
  /\ UNCHANGED <<shown, tour, tourStored, answer, step, window>>

ToggleSection(s) ==
  /\ Calm /\ burger
  /\ shown' = [shown EXCEPT !.sections = IF s \in @ THEN @ \ {s} ELSE @ \cup {s}]
  /\ UNCHANGED <<tour, tourStored, answer, step, window, burger, burgerMoved>>

GoTo(path) ==
  /\ shown' = [shown EXCEPT !.path = path]
  /\ window' = [window EXCEPT !.due = @ \/ path # shown.path]

ClickItem(item) ==
  /\ Calm /\ burger
  /\ MenuItems[item] \in shown.sections
  /\ GoTo(item)
  /\ UNCHANGED <<tour, tourStored, answer, step, burger, burgerMoved>>

\* The item "Tour" has the tour start with a page loaded anew.
ClickTour ==
  /\ Calm /\ burger /\ "more" \in shown.sections
  /\ tourStored' = "accept"
  /\ answer' = "yes"
  /\ LoadShell("accept")

------------------------------------------------------------------------------
(* The prompt: while it is there no page is drawn below it *)

\* (mutant of dismissTour)
dismissTourHere ==
  /\ Calm /\ tour.prompt
  /\ tour' = [prompt |-> FALSE, do |-> FALSE]
  /\ answer' = "no"
  /\ UNCHANGED <<shown, tourStored, step, window, burger, burgerMoved>>
dismissTour ==
  /\ Calm /\ tour.prompt
  /\ tour' = [prompt |-> FALSE, do |-> FALSE]
  /\ tourStored' = "dismiss"
  /\ answer' = "no"
  /\ UNCHANGED <<shown, step, window, burger, burgerMoved>>

acceptTour ==
  /\ Calm /\ tour.prompt
  /\ tourStored' = "accept"
  /\ tour' = [prompt |-> FALSE, do |-> TRUE]
  /\ answer' = "yes"
  /\ UNCHANGED <<shown, step, window, burger, burgerMoved>>

------------------------------------------------------------------------------
(* The tour *)

Step == tourSteps[step.at]

HasTarget == Step.on \in {"any", shown.path}

\* A target that is not there is passed over.
PassOver ==
  /\ Calm /\ tour.do /\ ~step.tooltip /\ ~HasTarget
  /\ step' = [step EXCEPT !.at = @ + 1]
  /\ UNCHANGED <<shown, tour, tourStored, answer, window, burger, burgerMoved>>

\* tourCallback, when the tooltip opens: the page the step leads to.
OpenTooltip ==
  /\ Calm /\ tour.do /\ ~step.tooltip /\ HasTarget
  /\ step' = [step EXCEPT !.tooltip = TRUE]
  /\ IF Step.to = "none" THEN UNCHANGED <<shown, window>> ELSE GoTo(Step.to)
  /\ UNCHANGED <<tour, tourStored, answer, burger, burgerMoved>>

\* tourCallback, when the tooltip is closed: the last one ends the tour.
CloseTooltip ==
  /\ Calm /\ tour.do /\ step.tooltip
  /\ IF step.at = Len(tourSteps)
     THEN /\ tourStored' = "dismiss"
          /\ tour' = [tour EXCEPT !.do = FALSE]
          /\ answer' = "no"
          /\ step' = FirstStep
     ELSE /\ step' = [at |-> step.at + 1, tooltip |-> FALSE]
          /\ UNCHANGED <<tour, tourStored, answer>>
  /\ UNCHANGED <<shown, window, burger, burgerMoved>>

------------------------------------------------------------------------------

NavigationUser ==
  \/ OpenShell \/ CloseShell \/ ResizeWindow \/ ToggleBurger \/ ClickTour
  \/ \E s \in MenuSections : ToggleSection(s)
  \/ \E item \in DOMAIN MenuItems : ClickItem(item)
  \/ dismissTour \/ acceptTour \/ PassOver \/ OpenTooltip \/ CloseTooltip

NavigationNext == NavigationUser \/ MenuSizeEffect

NavigationInit ==
  /\ shown = Off
  /\ tour = [prompt |-> FALSE, do |-> FALSE]
  /\ tourStored = "none" /\ answer = "none"
  /\ step = FirstStep
  /\ window \in [wide : BOOLEAN, due : {FALSE}]
  /\ burger = FALSE /\ burgerMoved = FALSE

------------------------------------------------------------------------------
(* What the shell promises *)

\* Who has not been asked is asked; the tour runs for who last said yes and has
\* not finished it, also after the page is loaded again.
TourFollowsAnswer ==
  shown # Off => (tour.prompt <=> answer = "none") /\ (tour.do <=> answer = "yes")

\* The menu is open in a wide window and closed in a narrow one, on every page,
\* unless the user has toggled it there.
BurgerFitsWindow == Calm /\ ~burgerMoved => burger = window.wide
==============================================================================

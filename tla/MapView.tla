------------------------------- MODULE MapView -------------------------------
(***************************************************************************)
(* The map of the browser client (geo/MapComponent.tsx, geo/model.ts) and  *)
(* the view of an Amphora's location that shows it (detail/Location.tsx).  *)
(*                                                                         *)
(* Both effects of the map run after every commit: the first asks for the  *)
(* key while there is none, the second draws a map while there is none.    *)
(* The answer to a request replaces the whole state.                       *)
(***************************************************************************)
EXTENDS Browser

VARIABLES
  map,         \* MapComponentState: [key, map] and whether its effects are due; or Off
  keysAsked,   \* the requests for the key under way
  drawn,       \* the maps drawn into the page since it was mounted
  redrawn,     \* whether the page was drawn again while a request was under way
  mapFaults

mapVars == <<map, keysAsked, drawn, redrawn, mapFaults>>

------------------------------------------------------------------------------
(* The effects of a commit *)

AsksForKey == ~map.key

\* (mutant of DrawsMap)
DrawsMapAgain == map.key
DrawsMap == map.key /\ ~map.map

MapEffects ==
  /\ map # Off /\ map.due
  /\ AsksForKey => keysAsked < MaxRequests
  /\ keysAsked' = IF AsksForKey THEN keysAsked + 1 ELSE keysAsked
  /\ drawn' = IF DrawsMap THEN drawn + 1 ELSE drawn
  /\ map' = [map EXCEPT !.map = @ \/ DrawsMap, !.due = DrawsMap]
  /\ UNCHANGED <<redrawn, mapFaults>>

------------------------------------------------------------------------------

\* Requests of an earlier visit are not heard: they are dropped here.
OpenMap ==
  /\ map = Off
  /\ map' = [key |-> FALSE, map |-> FALSE, due |-> TRUE]
  /\ keysAsked' = 0 /\ drawn' = 0 /\ redrawn' = FALSE
  /\ UNCHANGED mapFaults

CloseMap ==
  /\ map # Off
  /\ map' = Off
  /\ keysAsked' = 0 /\ drawn' = 0 /\ redrawn' = FALSE
  /\ UNCHANGED mapFaults

\* The page the map is on is drawn again: the Amphora or the window changes, or
\* the form it is on is filled in.
DrawAgain ==
  /\ map # Off /\ ~map.due
  /\ AsksForKey => keysAsked < MaxRequests
  /\ map' = [map EXCEPT !.due = TRUE]
  /\ redrawn' = (redrawn \/ keysAsked > 0)
  /\ UNCHANGED <<keysAsked, drawn, mapFaults>>

\* The state that is set with the key has no map.
WithKey == [key |-> TRUE, map |-> FALSE, due |-> TRUE]

AnswerKey ==
  /\ map # Off /\ ~map.due /\ keysAsked > 0
  /\ keysAsked' = keysAsked - 1
  /\ map' = WithKey
  /\ UNCHANGED <<drawn, redrawn, mapFaults>>

\* (mutant of FailKey)
FailKeyQuietly ==
  /\ map # Off /\ ~map.due /\ keysAsked > 0
  /\ mapFaults < MaxFaults
  /\ mapFaults' = mapFaults + 1
  /\ keysAsked' = keysAsked - 1
  /\ UNCHANGED <<map, drawn, redrawn>>
\* The state that is set with the error has no key, and the commit asks again
\* at once.
FailKey ==
  /\ map # Off /\ ~map.due /\ keysAsked > 0
  /\ mapFaults < MaxFaults
  /\ mapFaults' = mapFaults + 1
  /\ keysAsked' = keysAsked - 1
  /\ map' = [key |-> FALSE, map |-> FALSE, due |-> TRUE]
  /\ UNCHANGED <<drawn, redrawn>>

MapUser == OpenMap \/ CloseMap \/ DrawAgain

KeyAnswers == AnswerKey \/ FailKey

MapNext == MapUser \/ KeyAnswers \/ MapEffects

MapInit ==
  /\ map = Off
  /\ keysAsked = 0 /\ drawn = 0 /\ redrawn = FALSE
  /\ mapFaults = 0

------------------------------------------------------------------------------
(* What the view promises *)

\* One map is drawn into the page, unless the page was drawn again while the
\* key was awaited: each of the two answers then makes one.
OneMapIsDrawn == redrawn \/ drawn <= 1
==============================================================================

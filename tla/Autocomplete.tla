----------------------------- MODULE Autocomplete ----------------------------
(***************************************************************************)
(* The boxes of the Razor pages that complete what is typed (wwwroot/js):  *)
(* places (geo.js), organisations, and a list the page has (not used by    *)
(* any page).  The library autoComplete is external: it waits until typing *)
(* pauses, asks src for the data, and, when they come, lists them if what  *)
(* is in the input by then is long enough.  A query is its text; a result  *)
(* is the query it was given for.                                          *)
(***************************************************************************)
EXTENDS Browser

CONSTANTS
  BoxTexts,      \* what may be typed
  LongTexts      \* those of the threshold's length

ASSUME AutocompleteAssumption == LongTexts \subseteq BoxTexts /\ "" \notin LongTexts

VARIABLES
  box,        \* a box, or Off
  boxAsked,   \* the requests under way, oldest first
  boxLate     \* whether one failed or was overtaken since the last was sent

boxVars == <<box, boxAsked, boxLate>>

Empty == ""

\* What the three scripts ask of the library.
autocompleteGeoSearch == [fetches |-> TRUE, says |-> "Loading...", sets |-> {"lat", "lon"}]
organisationsAutocomplete == [fetches |-> TRUE, says |-> Empty, sets |-> {"organisation"}]
staticAutocomplete == [fetches |-> FALSE, says |-> Empty, sets |-> {"callback"}]

OpenBox ==
  /\ box = Off
  /\ \E script \in {autocompleteGeoSearch, organisationsAutocomplete, staticAutocomplete} :
       box' = [script |-> script, input |-> Empty, due |-> FALSE, list |-> Off,
               placeholder |-> Empty, typed |-> {},
               value |-> [field \in script.sets |-> Empty]]
  /\ boxAsked' = <<>> /\ boxLate' = FALSE

CloseBox ==
  /\ box # Off
  /\ box' = Off /\ boxAsked' = <<>> /\ boxLate' = FALSE

\* The debounce begins anew with every key.
TypeQuery(query) ==
  /\ box # Off
  /\ query # box.input
  /\ box' = [box EXCEPT !.input = query, !.due = TRUE]
  /\ UNCHANGED <<boxAsked, boxLate>>

\* The library lists what came for a query, if there is enough in the input.
List(query) == IF box.input \in LongTexts THEN query ELSE Off

\* (mutant of src)
srcAtFirst == <<Empty>>
\* src reads the input when the pause is over; the list of the page is there.
src == IF box.script.fetches THEN <<box.input>> ELSE <<>>

Pause ==
  /\ box # Off /\ box.due
  /\ Len(boxAsked) < MaxRequests
  /\ boxAsked' = boxAsked \o src
  /\ box' = [box EXCEPT !.due = FALSE,
                        !.placeholder = IF box.script.fetches THEN box.script.says ELSE @,
                        !.list = IF box.script.fetches THEN @ ELSE List(box.input)]
  /\ boxLate' = (boxLate /\ boxAsked # <<>>)

ListPlaces(i) ==
  /\ box # Off
  /\ box' = [box EXCEPT !.list = List(boxAsked[i])]
  /\ boxAsked' = Without(boxAsked, i)
  /\ boxLate' = (boxLate \/ i # 1)

\* Nothing catches the failure.
FailPlaces(i) ==
  /\ box # Off
  /\ boxAsked' = Without(boxAsked, i)
  /\ boxLate' = TRUE
  /\ UNCHANGED box

\* onSelection: a field is given another default, which is what it shows and
\* sends unless something was typed into it.
Select ==
  /\ box # Off /\ box.list # Off
  /\ box' = [box EXCEPT !.list = Off, !.input = Empty, !.placeholder = box.list,
                        !.value = [field \in DOMAIN @ |-> IF field \in box.typed THEN @[field]
                                                          ELSE box.list]]
  /\ UNCHANGED <<boxAsked, boxLate>>

TypeField(field) ==
  /\ box # Off
  /\ field \in DOMAIN box.value \cap {"lat", "lon"}
  /\ field \notin box.typed
  /\ box' = [box EXCEPT !.typed = @ \cup {field}, !.value[field] = "typed"]
  /\ UNCHANGED <<boxAsked, boxLate>>

BoxUser ==
  \/ OpenBox \/ CloseBox \/ Select
  \/ \E query \in BoxTexts : TypeQuery(query)
  \/ \E field \in {"lat", "lon"} : TypeField(field)

BoxAnswers == \E i \in DOMAIN boxAsked : ListPlaces(i) \/ FailPlaces(i)

BoxNext == BoxUser \/ Pause \/ BoxAnswers

BoxInit == box = Off /\ boxAsked = <<>> /\ boxLate = FALSE

------------------------------------------------------------------------------
(* What the boxes promise *)

\* Once typing has paused and the answers are in, the places listed are those
\* of what is in the input, unless a request failed or was overtaken.
ListIsOfTheInput ==
  box # Off /\ ~box.due /\ boxAsked = <<>> /\ ~boxLate /\ box.list # Off =>
    box.list = box.input

\* A position is one place's, unless part of it was typed.
PositionIsOnePlace ==
  box # Off /\ box.typed = {} => \A f, g \in DOMAIN box.value : box.value[f] = box.value[g]

\* What a box lists and what it sends are of what was typed and chosen there.
BoxIsTrue == ListIsOfTheInput /\ PositionIsOnePlace
==============================================================================

------------------------------- MODULE Browser -------------------------------
(***************************************************************************)
(* What the pages of the browser client share.  A page is a React          *)
(* component: an event (a click, an answer) changes state, a commit        *)
(* follows, and the effects whose dependencies changed run before the next *)
(* event.  An answer to a component that is not mounted is not heard.      *)
(***************************************************************************)
EXTENDS Integers, Sequences, FiniteSets

CONSTANTS
  Off,           \* the state of a component that is not mounted
  MaxRequests,   \* bound on the requests of one page that are under way
  MaxFaults      \* bound on the requests of one page that fail

ASSUME BrowserAssumption ==
  /\ MaxRequests \in Nat \ {0}
  /\ MaxFaults \in Nat

\* The requests under way without the i-th.
Without(s, i) == SubSeq(s, 1, i - 1) \o SubSeq(s, i + 1, Len(s))

==============================================================================

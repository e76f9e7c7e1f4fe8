----------------------------- MODULE MCBrowsing ------------------------------
(* Browsing on small sets. *)
EXTENDS Browsing

CONSTANTS t1, t2, a1, a2, w1, w2

\* The options of a cloud; words that fit beside each other, turned or not.
MCOptions(rotates, outOfBound, shrink, timed, hover) ==
  [rotates |-> rotates, outOfBound |-> outOfBound, shrink |-> shrink, timed |-> timed,
   hover |-> hover]

MCExamples ==
  [love |-> [list |-> <<[word |-> "love", size |-> 2], [word |-> "liebe", size |-> 1]>>,
             options |-> MCOptions(FALSE, TRUE, FALSE, FALSE, TRUE)]]

MCOptionsTyped == {MCOptions(TRUE, FALSE, TRUE, TRUE, TRUE)}
==============================================================================

---------------------------- MODULE MCMembership -----------------------------
(* Membership on a few requests of two users. *)
EXTENDS Membership, TLC

CONSTANTS r1, r2, r3, r4, u1, u2, s1

Symmetry == Permutations(Requests) \cup Permutations(Users)
==============================================================================

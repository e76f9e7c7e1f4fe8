------------------------------ MODULE MCBilling ------------------------------
(* Billing for TLC: one buying organisation with two users, one seller. *)
EXTENDS Billing, TLC

CONSTANTS buyer, seller, u1, u2, a1, a2, r1, r2, g1, g2

MCOrgOf == [u \in Users |-> buyer]
MCSellerOf == [a \in Amphorae |-> seller]
MCPermitted == Users \X Amphorae
MCPrice == [a \in Amphorae |-> 124]
MCRate == [o \in Orgs |-> 90]

Symmetry == Permutations(Users) \cup Permutations(Amphorae)
              \cup Permutations(Requests) \cup Permutations(Runs)
==============================================================================

------------------------------ MODULE MCAccess -------------------------------
(* Access with an owner organisation, a buying one, and a user of neither. *)
EXTENDS Access, TLC

CONSTANTS r1, r2, r3, r4, admin, owner, buyer, stranger, seller, customer, t0

MCOrgOf == [u \in Users |-> CASE u \in {admin, owner} -> seller
                              [] u = buyer -> customer
                              [] OTHER -> NoOrg]
MCRoleIn == [o \in Orgs |-> [u \in Users |->
  CASE o = seller /\ u = admin -> "admin"
    [] o = seller /\ u = owner -> "user"
    [] o = customer /\ u = buyer -> "admin"
    [] OTHER -> "none"]]
MCTargets == {All, buyer, customer} \cap (Users \cup Orgs \cup {All})
MCPriorities == {0, 1}
Symmetry == Permutations(Requests)
==============================================================================

----------------------------- MODULE Membership ------------------------------
(***************************************************************************)
(* Organisations, their members and the invitations to join them.          *)
(*                                                                         *)
(*   OrganisationService.CreateAsync and DeleteAsync                       *)
(*   InvitationService.CreateInvitation and HandleInvitationAsync, with    *)
(*   InvitationWorkflow, the state machine of an invitation                *)
(*   the SetRole page                                                      *)
(*                                                                         *)
(* Every request has a context of its own; an action is one save, or the   *)
(* reads before one.  An organisation and an invitation are named by the   *)
(* request that creates them, an e-mail address is its user.               *)
(***************************************************************************)
EXTENDS Naturals, FiniteSets

CONSTANTS
  Requests, Users, Sites,
  None,            \* no organisation, no website
  MaxUsers,        \* PlanLimits.MaxUsers
  Provider,        \* "Sql" or "Cosmos"
  MaxFaults        \* bound on failed calls and killed processes

ASSUME MembershipAssumption ==
  /\ IsFiniteSet(Users)
  /\ None \notin Requests /\ None \notin Sites
  /\ MaxUsers \in Nat
  /\ Provider \in {"Sql", "Cosmos"}
  /\ MaxFaults \in Nat

VARIABLES
  \* the database
  orgs,         \* the organisations that exist
  site,         \* OrganisationModel.WebsiteUrl
  role,         \* Memberships: the role of a user in an organisation
  home,         \* ApplicationUserDataModel.OrganisationId
  invitation,   \* InvitationModel
  \* a request
  pc,
  user,         \* whose request it is
  org,          \* the organisation in hand
  inv,          \* the invitation in hand, or the one to create
  answer,       \* what is asked of it: the state it is to have
  loaded,       \* as its context loaded them: [home, state, role]
  faults

db == <<orgs, site, role, home, invitation>>
local == <<user, org, inv, answer, loaded>>
vars == <<db, pc, local, faults>>

------------------------------------------------------------------------------
(* The store *)

NoRoles == [u \in Users |-> "none"]
NoInvitation == [to |-> None, org |-> None, state |-> "none"]

Goto(r, label) == pc' = [pc EXCEPT ![r] = label]
Fault == faults < MaxFaults /\ faults' = faults + 1

\* A request starts: it loads the user, the organisation with its members, and
\* the invitation.
Load(r, u, o, i) ==
  /\ user' = [user EXCEPT ![r] = u]
  /\ org' = [org EXCEPT ![r] = o]
  /\ inv' = [inv EXCEPT ![r] = i]
  /\ loaded' = [loaded EXCEPT ![r] =
       [home |-> home[u], state |-> invitation[i].state,
        role |-> IF o \in orgs THEN role[o] ELSE NoRoles]]

\* A save of the role of user u in the organisation at hand: a row of its own
\* in Sql; in Cosmos the document is replaced by the context's copy.
SaveRole(r, u, x) ==
  role' = [role EXCEPT ![org[r]] =
             IF Provider = "Sql" THEN [@ EXCEPT ![u] = x]
             ELSE [loaded[r].role EXCEPT ![u] = x]]

\* Inserting a row that is there or updating one that is not is refused, and so
\* is replacing a document that is gone.
CanSaveRole(r, u) ==
  /\ org[r] \in orgs
  /\ Provider = "Sql" =>
       (role[org[r]][u] = "none" <=> loaded[r].role[u] = "none")

------------------------------------------------------------------------------
(* OrganisationService.CreateAsync *)

\* The website is looked up before the organisation is created.
CountWebsites(r, u, s) ==
  /\ pc[r] = "idle"
  /\ site' = [site EXCEPT ![r] = s]
  /\ Load(r, u, r, r)
  /\ Goto(r, IF s # None /\ \E o \in orgs : site[o] = s THEN "refused" ELSE "create")
  /\ UNCHANGED <<orgs, role, home, invitation, answer, faults>>

CreateOrganisation(r) ==
  /\ pc[r] = "create"
  /\ orgs' = orgs \cup {r}
  /\ role' = [role EXCEPT ![r] = [NoRoles EXCEPT ![user[r]] = "admin"]]
  /\ Goto(r, IF loaded[r].home = None THEN "adopt" ELSE "done")
  /\ UNCHANGED <<site, home, invitation, local, faults>>

\* The home organisation of a user who had none.
SetHome(r) ==
  /\ pc[r] = "adopt"
  /\ Provider = "Sql" => r \in orgs
  /\ home' = [home EXCEPT ![user[r]] = r]
  /\ Goto(r, "done")
  /\ UNCHANGED <<orgs, site, role, invitation, local, faults>>

------------------------------------------------------------------------------
(* OrganisationService.DeleteAsync *)

\* Whoever refers to the organisation is released by the database in Sql; in
\* Cosmos only the users the context has loaded are.
\* (mutant) the foreign key of the home organisation is left as it is.
RemoveWithMembers(o, tracked) ==
  /\ orgs' = orgs \ {o}
  /\ role' = [role EXCEPT ![o] = NoRoles]
  /\ UNCHANGED <<home, invitation>>
Remove(o, tracked) ==
  /\ orgs' = orgs \ {o}
  /\ role' = [role EXCEPT ![o] = NoRoles]
  /\ home' = [u \in Users |->
       IF home[u] = o /\ (Provider = "Sql" \/ u \in tracked) THEN None ELSE home[u]]
  /\ invitation' = [i \in Requests |->
       IF invitation[i].org = o /\ Provider = "Sql"
       THEN [invitation[i] EXCEPT !.org = None] ELSE invitation[i]]

ReadToDelete(r, u, o) ==
  /\ pc[r] = "idle"
  /\ o \in orgs
  /\ Load(r, u, o, r)
  /\ Goto(r, IF role[o][u] = "admin" THEN "delete" ELSE "refused")
  /\ UNCHANGED <<db, answer, faults>>

DeleteOrganisation(r) ==
  /\ pc[r] = "delete"
  /\ IF org[r] \in orgs THEN Remove(org[r], {user[r]})
     ELSE UNCHANGED <<orgs, role, home, invitation>>
  /\ Goto(r, "done")
  /\ UNCHANGED <<site, local, faults>>

\* The catch block of CreateAsync.
DeleteAgain(r) ==
  /\ pc[r] = "undo"
  /\ IF r \in orgs THEN Remove(r, {user[r]})
     ELSE UNCHANGED <<orgs, role, home, invitation>>
  /\ Goto(r, "failed")
  /\ UNCHANGED <<site, local, faults>>

------------------------------------------------------------------------------
(* InvitationService.CreateInvitation *)

CanAddUser(o) == Cardinality({u \in Users : role[o][u] # "none"}) < MaxUsers

\* An invitation that names the organisation takes an administrator.
\* inv and answer hold what the request says: whom, and the organisation or not.
CheckInviter(r, u, v, named) ==
  /\ pc[r] = "idle"
  /\ Load(r, u, home[u], r)
  /\ answer' = [answer EXCEPT ![r] = [to |-> v, org |-> IF named THEN home[u] ELSE None,
                                      state |-> "Open"]]
  /\ Goto(r, IF home[u] \notin orgs THEN "failed"
             ELSE IF CanAddUser(home[u]) /\ (named => role[home[u]][u] = "admin")
             THEN "lookup" ELSE "refused")
  /\ UNCHANGED <<db, faults>>

LookUpInvitation(r) ==
  /\ pc[r] = "lookup"
  /\ Goto(r, IF \E i \in Requests : /\ invitation[i].to = answer[r].to
                                    /\ invitation[i].org = answer[r].org
             THEN "refused" ELSE "invite")
  /\ UNCHANGED <<db, local, faults>>

\* The organisation is now the inviter's, named or not.
CreateInvitation(r) ==
  /\ pc[r] = "invite"
  /\ Provider = "Sql" => org[r] \in orgs
  /\ invitation' = [invitation EXCEPT ![r] = [answer[r] EXCEPT !.org = org[r]]]
  /\ Goto(r, "done")
  /\ UNCHANGED <<orgs, site, role, home, local, faults>>

------------------------------------------------------------------------------
(* InvitationService.HandleInvitationAsync *)

\* trigger is Accepted or Rejected; an organisation that is gone throws.
ReadInvitation(r, u, i, trigger) ==
  /\ pc[r] = "idle"
  /\ invitation[i].to = u /\ invitation[i].org # None
  /\ Load(r, u, invitation[i].org, i)
  /\ answer' = [answer EXCEPT ![r] = [invitation[i] EXCEPT !.state = trigger]]
  /\ Goto(r, IF trigger = "Rejected" THEN "answer"
             ELSE IF invitation[i].org \in orgs THEN "join" ELSE "failed")
  /\ UNCHANGED <<db, faults>>

\* AddOrUpdateMembership with the role of a user, and the user's home: one save.
MembershipChanges(r) == loaded[r].role[user[r]] # "user"
HomeChanges(r) == loaded[r].home # org[r]
CanJoin(r) ==
  /\ MembershipChanges(r) => CanSaveRole(r, user[r])
  /\ Provider = "Sql" /\ HomeChanges(r) => org[r] \in orgs

\* (mutant) only a user without a home organisation is added to the members.
WriteRoleOfHomeless(r) ==
  IF MembershipChanges(r) /\ loaded[r].home = None
  THEN SaveRole(r, user[r], "user") ELSE UNCHANGED role
WriteRole(r) ==
  IF MembershipChanges(r) THEN SaveRole(r, user[r], "user") ELSE UNCHANGED role
WriteHome(r) ==
  home' = IF HomeChanges(r) THEN [home EXCEPT ![user[r]] = org[r]] ELSE home

Join(r) ==
  /\ pc[r] = "join"
  /\ CanJoin(r)
  /\ WriteRole(r) /\ WriteHome(r)
  /\ Goto(r, "answer")
  /\ UNCHANGED <<orgs, site, invitation, local, faults>>

\* Only an open invitation is accepted or rejected; anything else throws.
\* (mutant) the trigger is stored and not the state it leads to.
AnswerWithTrigger(r) ==
  /\ pc[r] = "answer"
  /\ IF loaded[r].state = "Open"
     THEN /\ invitation' = [invitation EXCEPT ![inv[r]].state = "Accept"]
          /\ Goto(r, "done")
     ELSE Goto(r, "failed") /\ UNCHANGED invitation
  /\ UNCHANGED <<orgs, site, role, home, local, faults>>
AnswerInvitation(r) ==
  /\ pc[r] = "answer"
  /\ IF loaded[r].state = "Open"
     THEN /\ invitation' = [invitation EXCEPT ![inv[r]].state = answer[r].state]
          /\ Goto(r, "done")
     ELSE Goto(r, "failed") /\ UNCHANGED invitation
  /\ UNCHANGED <<orgs, site, role, home, local, faults>>

------------------------------------------------------------------------------
(* SetRolePageModel.OnGetAsync *)

\* answer holds the member to promote.
CheckAdministrator(r, u, v) ==
  /\ pc[r] = "idle"
  /\ home[u] \in orgs
  /\ Load(r, u, home[u], r)
  /\ answer' = [answer EXCEPT ![r] = [NoInvitation EXCEPT !.to = v]]
  /\ Goto(r, IF role[home[u]][v] # "none" /\ role[home[u]][u] = "admin"
             THEN "appoint" ELSE "refused")
  /\ UNCHANGED <<db, faults>>

\* A member who was an administrator when loaded is no change to save.
Appoint(r) ==
  /\ pc[r] = "appoint"
  /\ IF loaded[r].role[answer[r].to] = "admin" THEN UNCHANGED role
     ELSE CanSaveRole(r, answer[r].to) /\ SaveRole(r, answer[r].to, "admin")
  /\ Goto(r, "done")
  /\ UNCHANGED <<orgs, site, home, invitation, local, faults>>

------------------------------------------------------------------------------
(* Failures *)

\* A save that is refused throws.
IsRefused(r) ==
  \/ pc[r] = "adopt" /\ Provider = "Sql" /\ r \notin orgs
  \/ pc[r] = "invite" /\ Provider = "Sql" /\ org[r] \notin orgs
  \/ pc[r] = "join" /\ ~CanJoin(r)
  \/ pc[r] = "appoint" /\ loaded[r].role[answer[r].to] # "admin"
                       /\ ~CanSaveRole(r, answer[r].to)

\* What a save that fails has written: nothing in Sql; in Cosmos a member joins
\* in two documents, of which either may be there.
HalfJoined(r) ==
  IF pc[r] = "join" /\ Provider = "Cosmos"
  THEN \/ UNCHANGED <<role, home>>
       \/ WriteHome(r) /\ UNCHANGED role
       \/ CanJoin(r) /\ WriteRole(r) /\ UNCHANGED home
  ELSE UNCHANGED <<role, home>>

\* An exception or the server's death.  CreateAsync catches an exception of
\* its last call and deletes the organisation.
RequestFails(r) ==
  /\ pc[r] \in {"create", "adopt", "undo", "delete", "lookup", "invite", "join",
                "answer", "appoint"}
  /\ \/ Fault
     \/ IsRefused(r) /\ UNCHANGED faults
  /\ HalfJoined(r)
  /\ \E label \in IF pc[r] = "adopt" THEN {"undo", "dead"} ELSE {"dead"} : Goto(r, label)
  /\ UNCHANGED <<orgs, site, invitation, local>>

------------------------------------------------------------------------------
(* The specification *)

Init ==
  /\ orgs = {}
  /\ site = [o \in Requests |-> None]
  /\ role = [o \in Requests |-> NoRoles]
  /\ home = [u \in Users |-> None]
  /\ invitation = [i \in Requests |-> NoInvitation]
  /\ pc = [r \in Requests |-> "idle"]
  /\ user = [r \in Requests |-> None]
  /\ org = [r \in Requests |-> None]
  /\ inv = [r \in Requests |-> r]
  /\ answer = [r \in Requests |-> NoInvitation]
  /\ loaded = [r \in Requests |-> [home |-> None, state |-> "none", role |-> NoRoles]]
  /\ faults = 0

Step(r) ==
  \/ \E u \in Users, s \in Sites \cup {None} : CountWebsites(r, u, s)
  \/ \E u \in Users, o \in Requests : ReadToDelete(r, u, o)
  \/ \E u, v \in Users, named \in BOOLEAN : CheckInviter(r, u, v, named)
  \/ \E u \in Users, i \in Requests, trigger \in {"Accepted", "Rejected"} :
       ReadInvitation(r, u, i, trigger)
  \/ \E u, v \in Users : CheckAdministrator(r, u, v)
  \/ CreateOrganisation(r) \/ SetHome(r) \/ DeleteAgain(r) \/ DeleteOrganisation(r)
  \/ LookUpInvitation(r) \/ CreateInvitation(r) \/ Join(r) \/ AnswerInvitation(r)
  \/ Appoint(r) \/ RequestFails(r)

Next == \E r \in Requests : Step(r)

Spec == Init /\ [][Next]_vars

\* One request at a time.
Active(r) == pc[r] \notin {"idle", "refused", "done", "failed", "dead"}
Alone == \A r1, r2 \in Requests : Active(r1) /\ Active(r2) => r1 = r2
SerialSpec == Init /\ [][Next /\ Alone']_vars

------------------------------------------------------------------------------
(* Properties *)

Roles == {"none", "user", "admin"}
Labels == {"idle", "create", "adopt", "undo", "delete", "lookup", "invite", "join",
           "answer", "appoint", "refused", "done", "failed", "dead"}
Orgs == Requests \cup {None}
Invitations ==
  [to : Users \cup {None}, org : Orgs, state : {"none", "Open", "Accepted", "Rejected"}]

\* Type correctness; only an organisation that exists has members.
TypeOK ==
  /\ orgs \subseteq Requests
  /\ site \in [Requests -> Sites \cup {None}]
  /\ role \in [Requests -> [Users -> Roles]]
  /\ home \in [Users -> Orgs]
  /\ invitation \in [Requests -> Invitations]
  /\ pc \in [Requests -> Labels]
  /\ user \in [Requests -> Users \cup {None}]
  /\ org \in [Requests -> Orgs]
  /\ inv \in [Requests -> Requests]
  /\ answer \in [Requests -> Invitations]
  /\ loaded \in [Requests -> [home : Orgs, state : {"none", "Open", "Accepted", "Rejected"},
                              role : [Users -> Roles]]]
  /\ faults \in 0 .. MaxFaults

\* A user's home organisation exists and the user is a member of it, whoever
\* joins, creates, promotes or deletes at the same time and whatever fails.
HomeIsMembership ==
  \A u \in Users : home[u] # None => home[u] \in orgs /\ role[home[u]][u] # "none"

\* Who has accepted an invitation to an organisation that still exists is a
\* member of it.
AcceptedIsMember ==
  \A i \in Requests :
    invitation[i].state = "Accepted" /\ invitation[i].org \in orgs =>
      role[invitation[i].org][invitation[i].to] # "none"

==============================================================================

-------------------------- MODULE MembershipProofs ---------------------------
(***************************************************************************)
(* Theorems about Membership with the Sql provider, for any number of      *)
(* requests, users and websites.                                           *)
(***************************************************************************)
EXTENDS Membership, TLAPS

\* An organisation that exists, or did.
Born(o) == o \in Requests /\ pc[o] \notin {"idle", "create"}

Named == \A r \in Requests : pc[r] # "idle" => user[r] \in Users

\* A creator that sets the home organisation is a member of it.
AdoptInv ==
  \A r \in Requests : pc[r] = "adopt" /\ r \in orgs => role[r][user[r]] # "none"

\* Who is about to join as a member already loaded is one still.
JoinInv ==
  \A r \in Requests :
    /\ pc[r] \in {"join", "answer"} => Born(org[r])
    /\ pc[r] = "join" /\ org[r] \in orgs /\ loaded[r].role[user[r]] # "none" =>
         role[org[r]][user[r]] # "none"

\* Invitations are for organisations that exist.
ForOrganisation == \A i \in Requests : invitation[i].org \in orgs \cup {None}

\* An invitation has a state once its request has created it, and not before.
Created ==
  \A i \in Requests :
    /\ invitation[i].state # "none" =>
         pc[i] \notin {"idle", "lookup", "invite"} /\ invitation[i].to \in Users
    /\ invitation[i].org # None => invitation[i].state # "none"

\* What a request knows of the invitation in hand.
InHand ==
  \A r \in Requests :
    /\ pc[r] \in {"lookup", "invite"} => answer[r].state = "Open" /\ answer[r].to \in Users
    /\ pc[r] \in {"join", "answer"} =>
         /\ answer[r].state \in {"Accepted", "Rejected"}
         /\ invitation[inv[r]].state # "none"
         /\ invitation[inv[r]].to = user[r]
         /\ invitation[inv[r]].org \in {org[r], None}

\* Whoever answers an invitation to accept it has joined.
AnswerInv ==
  \A r \in Requests :
    pc[r] = "answer" /\ answer[r].state = "Accepted" /\ org[r] \in orgs =>
      role[org[r]][user[r]] # "none"

IInv ==
  /\ TypeOK /\ Named
  /\ \A o \in orgs : Born(o)
  /\ HomeIsMembership /\ AdoptInv /\ JoinInv
  /\ ForOrganisation /\ Created /\ InHand /\ AnswerInv /\ AcceptedIsMember

------------------------------------------------------------------------------
(* Types *)

States == {"none", "Open", "Accepted", "Rejected"}
Copies == [home : Orgs, state : States, role : [Users -> Roles]]

\* Nobody has a role at first.
LEMMA NoRolesType == NoRoles \in [Users -> Roles]
  BY DEF NoRoles, Roles

\* No invitation is one too, in the types.
LEMMA NoInvitationType == NoInvitation \in Invitations
  BY DEF NoInvitation, Invitations, Orgs

\* The fields of an invitation.
LEMMA InvitationFields ==
  ASSUME NEW x \in Invitations
  PROVE  x.org \in Orgs /\ x.state \in States /\ x.to \in Users \cup {None}
  BY DEF Invitations, States

\* Changing a field of an invitation.
LEMMA InvitationTypes ==
  ASSUME NEW x \in Invitations, NEW o \in Orgs, NEW s \in States
  PROVE  /\ [x EXCEPT !.org = o] \in Invitations
         /\ [x EXCEPT !.state = s] \in Invitations
  BY DEF Invitations, States

\* What a request loads has the types of what it loads.
LEMMA LoadType ==
  ASSUME TypeOK, NEW r \in Requests, NEW u \in Users, NEW o \in Orgs,
         NEW i \in Requests, Load(r, u, o, i)
  PROVE  /\ user' \in [Requests -> Users \cup {None}]
         /\ org' \in [Requests -> Orgs]
         /\ inv' \in [Requests -> Requests]
         /\ loaded' \in [Requests -> Copies]
  <1>1. home[u] \in Orgs /\ invitation[i] \in Invitations
    BY DEF TypeOK
  <1>2. invitation[i].state \in States
    BY <1>1 DEF Invitations, States
  <1>3. (IF o \in orgs THEN role[o] ELSE NoRoles) \in [Users -> Roles]
    BY NoRolesType DEF TypeOK
  <1>4. [home |-> home[u], state |-> invitation[i].state,
         role |-> IF o \in orgs THEN role[o] ELSE NoRoles] \in Copies
    BY <1>1, <1>2, <1>3 DEF Copies
  <1>5. loaded \in [Requests -> Copies]
    BY DEF TypeOK, Copies, States
  <1>. QED BY <1>4, <1>5 DEF Load, TypeOK

\* A role that is saved is a role.
LEMMA RoleTypes ==
  ASSUME TypeOK, NEW r \in Requests, NEW u, NEW x \in Roles,
         SaveRole(r, u, x)
  PROVE  role' \in [Requests -> [Users -> Roles]]
  <1>1. loaded[r].role \in [Users -> Roles]
    BY DEF TypeOK
  <1>2. [loaded[r].role EXCEPT ![u] = x] \in [Users -> Roles]
    BY <1>1
  <1>3. CASE Provider = "Sql"
    <2>1. role' = [role EXCEPT ![org[r]] = [@ EXCEPT ![u] = x]]
      BY <1>3 DEF SaveRole
    <2>2. org[r] \in Requests => [role[org[r]] EXCEPT ![u] = x] \in [Users -> Roles]
      BY DEF TypeOK
    <2>. QED BY <2>1, <2>2 DEF TypeOK
  <1>4. CASE Provider # "Sql"
    BY <1>2, <1>4 DEF SaveRole, TypeOK
  <1>. QED BY <1>3, <1>4

\* The types hold at the start
LEMMA TypeInit == Init => TypeOK
  <1>. SUFFICES ASSUME Init PROVE TypeOK
    OBVIOUS
  <1>1. loaded \in [Requests -> Copies]
    BY NoRolesType DEF Init, Copies, Orgs, States
  <1>. QED
    BY <1>1, NoRolesType, NoInvitationType, MembershipAssumption
    DEF Init, TypeOK, Orgs, Labels, Copies, States

\* Every step keeps the types.
LEMMA TypeStep ==
  ASSUME TypeOK, NEW r \in Requests, Step(r)
  PROVE  TypeOK'
  <1>1. ASSUME NEW u \in Users, NEW s \in Sites \cup {None}, CountWebsites(r, u, s)
        PROVE  TypeOK'
    <2>1. r \in Orgs
      BY DEF Orgs
    <2>. QED
      BY <1>1, <2>1, LoadType DEF CountWebsites, TypeOK, Labels, Copies, States, Goto
  <1>2. ASSUME NEW u \in Users, NEW o \in Requests, ReadToDelete(r, u, o)
        PROVE  TypeOK'
    <2>1. o \in Orgs
      BY DEF Orgs
    <2>. QED
      BY <1>2, <2>1, LoadType DEF ReadToDelete, db, TypeOK, Labels, Copies, States, Goto
  <1>3. ASSUME NEW u \in Users, NEW v \in Users, NEW named \in BOOLEAN,
               CheckInviter(r, u, v, named)
        PROVE  TypeOK'
    <2>1. home[u] \in Orgs
      BY DEF TypeOK
    <2>2. [to |-> v, org |-> IF named THEN home[u] ELSE None, state |-> "Open"]
            \in Invitations
      BY <2>1 DEF Invitations, Orgs
    <2>3. answer' \in [Requests -> Invitations]
      BY <1>3, <2>2 DEF CheckInviter, TypeOK
    <2>. QED
      BY <1>3, <2>1, <2>3, LoadType DEF CheckInviter, db, TypeOK, Labels, Copies, States, Goto
  <1>4. ASSUME NEW u \in Users, NEW i \in Requests,
               NEW trigger \in {"Accepted", "Rejected"}, ReadInvitation(r, u, i, trigger)
        PROVE  TypeOK'
    <2>1. invitation[i] \in Invitations
      BY DEF TypeOK
    <2>2. invitation[i].org \in Orgs /\ [invitation[i] EXCEPT !.state = trigger] \in Invitations
      BY <2>1, InvitationFields, InvitationTypes DEF States
    <2>3. answer' \in [Requests -> Invitations]
      BY <1>4, <2>2 DEF ReadInvitation, TypeOK
    <2>. QED
      BY <1>4, <2>2, <2>3, LoadType DEF ReadInvitation, db, TypeOK, Labels, Copies, States, Goto
  <1>5. ASSUME NEW u \in Users, NEW v \in Users, CheckAdministrator(r, u, v)
        PROVE  TypeOK'
    <2>1. home[u] \in Orgs
      BY DEF TypeOK
    <2>2. [NoInvitation EXCEPT !.to = v] \in Invitations
      BY NoInvitationType DEF Invitations
    <2>3. answer' \in [Requests -> Invitations]
      BY <1>5, <2>2 DEF CheckAdministrator, TypeOK
    <2>. QED
      BY <1>5, <2>1, <2>3, LoadType
      DEF CheckAdministrator, db, TypeOK, Labels, Copies, States, Goto
  <1>6. CASE CreateOrganisation(r)
    <2>1. [NoRoles EXCEPT ![user[r]] = "admin"] \in [Users -> Roles]
      BY NoRolesType DEF Roles
    <2>. QED
      BY <1>6, <2>1 DEF CreateOrganisation, local, TypeOK, Labels, Goto
  <1>7. CASE SetHome(r)
    BY <1>7 DEF SetHome, local, TypeOK, Labels, Goto, Orgs
  <1>8. ASSUME NEW o \in Requests, NEW tracked, Remove(o, tracked)
        PROVE  /\ orgs' \subseteq Requests
               /\ role' \in [Requests -> [Users -> Roles]]
               /\ home' \in [Users -> Orgs]
               /\ invitation' \in [Requests -> Invitations]
    <2>1. \A i \in Requests : [invitation[i] EXCEPT !.org = None] \in Invitations
      BY InvitationTypes DEF TypeOK, Orgs, States
    <2>. QED
      BY <1>8, <2>1, NoRolesType DEF Remove, TypeOK, Orgs
  <1>9. CASE DeleteAgain(r)
    BY <1>8, <1>9 DEF DeleteAgain, local, TypeOK, Labels, Goto
  <1>10. CASE DeleteOrganisation(r)
    BY <1>8, <1>10 DEF DeleteOrganisation, local, TypeOK, Labels, Goto
  <1>11. CASE LookUpInvitation(r)
    BY <1>11 DEF LookUpInvitation, db, local, TypeOK, Labels, Goto
  <1>12. CASE CreateInvitation(r)
    <2>1. answer[r] \in Invitations /\ org[r] \in Orgs
      BY DEF TypeOK
    <2>2. [answer[r] EXCEPT !.org = org[r]] \in Invitations
      BY <2>1 DEF Invitations
    <2>. QED
      BY <1>12, <2>2 DEF CreateInvitation, local, TypeOK, Labels, Goto
  <1>13. WriteHome(r) => home' \in [Users -> Orgs]
    BY DEF WriteHome, TypeOK
  <1>14. WriteRole(r) => role' \in [Requests -> [Users -> Roles]]
    BY RoleTypes DEF WriteRole, TypeOK, Roles
  <1>15. CASE Join(r)
    BY <1>13, <1>14, <1>15 DEF Join, local, TypeOK, Labels, Goto
  <1>16. CASE AnswerInvitation(r)
    <2>1. answer[r] \in Invitations /\ invitation[inv[r]] \in Invitations
      BY DEF TypeOK
    <2>2. answer[r].state \in States /\ invitation[inv[r]].org \in Orgs
      BY <2>1, InvitationFields
    <2>3. [invitation[inv[r]] EXCEPT !.state = answer[r].state] \in Invitations
      BY <2>1, <2>2, InvitationTypes
    <2>4. invitation' \in [Requests -> Invitations]
      BY <1>16, <2>3 DEF AnswerInvitation, TypeOK
    <2>5. pc' \in [Requests -> Labels]
      BY <1>16 DEF AnswerInvitation, TypeOK, Labels, Goto
    <2>. QED
      BY <1>16, <2>4, <2>5 DEF AnswerInvitation, local, TypeOK
  <1>17. CASE Appoint(r)
    <2>1. role' \in [Requests -> [Users -> Roles]]
      BY <1>17, RoleTypes DEF Appoint, TypeOK, Roles
    <2>. QED
      BY <1>17, <2>1 DEF Appoint, local, TypeOK, Labels, Goto
  <1>18. CASE RequestFails(r)
    <2>1. home' \in [Users -> Orgs] /\ role' \in [Requests -> [Users -> Roles]]
      BY <1>13, <1>14, <1>18 DEF RequestFails, HalfJoined, TypeOK
    <2>2. faults' \in 0 .. MaxFaults
      BY <1>18, MembershipAssumption DEF RequestFails, Fault, TypeOK
    <2>3. pc' \in [Requests -> Labels]
      BY <1>18 DEF RequestFails, Goto, TypeOK, Labels
    <2>. QED
      BY <1>18, <2>1, <2>2, <2>3 DEF RequestFails, local, TypeOK
  <1>. QED
    BY <1>1, <1>2, <1>3, <1>4, <1>5, <1>6, <1>7, <1>9, <1>10, <1>11, <1>12, <1>15,
       <1>16, <1>17, <1>18 DEF Step

\* and while nothing happens.
LEMMA TypeStutter == TypeOK /\ UNCHANGED vars => TypeOK'
  BY DEF TypeOK, vars, db, local

\* Type correctness, of every provider.
THEOREM TypeCorrect == Spec => []TypeOK
  <1>1. TypeOK /\ [Next]_vars => TypeOK'
    BY TypeStep, TypeStutter DEF Next
  <1>. QED BY TypeInit, <1>1, PTL DEF Spec

------------------------------------------------------------------------------
(* Steps *)

\* A step moves one request and leaves what the others remember.
Elsewhere(r) ==
  /\ \A q \in Requests : q # r =>
       /\ pc'[q] = pc[q] /\ user'[q] = user[q] /\ org'[q] = org[q]
       /\ inv'[q] = inv[q] /\ answer'[q] = answer[q] /\ loaded'[q] = loaded[q]
  /\ pc[r] # "idle" => UNCHANGED local

\* Where a request that has moved comes from.
Moves(r) ==
  /\ pc'[r] # "idle"
  /\ pc'[r] \in {"create", "lookup", "join"} => pc[r] = "idle"
  /\ pc'[r] = "adopt" => CreateOrganisation(r)
  /\ pc'[r] = "invite" => pc[r] = "lookup"
  /\ pc'[r] = "answer" => pc[r] = "idle" \/ Join(r)

\* A removal is the end of a request that deletes an organisation.
RemoveOne(r) ==
  /\ pc[r] \in {"undo", "delete"}
  /\ \E o \in Requests, tracked \in SUBSET Users : Remove(o, tracked)

\* The steps that write organisations, members, homes or invitations.
Writes(r) ==
  \/ CreateOrganisation(r) \/ SetHome(r) \/ RemoveOne(r) \/ CreateInvitation(r)
  \/ Join(r) \/ AnswerInvitation(r) \/ Appoint(r)
  \/ UNCHANGED <<orgs, role, home, invitation>>

\* A step of one request seen from the others, where it leads, and its writes.
LEMMA StepShape ==
  ASSUME TypeOK, Named, Provider = "Sql", NEW r \in Requests, Step(r)
  PROVE  Elsewhere(r) /\ Moves(r) /\ Writes(r)
  <1>0. pc \in [Requests -> Labels]
    BY DEF TypeOK
  <1>1. ASSUME NEW u \in Users, NEW o, NEW i, Load(r, u, o, i)
        PROVE  \A q \in Requests : q # r =>
                 /\ user'[q] = user[q] /\ org'[q] = org[q]
                 /\ inv'[q] = inv[q] /\ loaded'[q] = loaded[q]
    BY <1>1 DEF Load, TypeOK
  <1>2. ASSUME NEW u \in Users, NEW s \in Sites \cup {None}, CountWebsites(r, u, s)
        PROVE  Elsewhere(r) /\ Moves(r) /\ Writes(r)
    BY <1>0, <1>1, <1>2 DEF CountWebsites, Elsewhere, Moves, Writes, Goto
  <1>3. ASSUME NEW u \in Users, NEW o \in Requests, ReadToDelete(r, u, o)
        PROVE  Elsewhere(r) /\ Moves(r) /\ Writes(r)
    BY <1>0, <1>1, <1>3 DEF ReadToDelete, db, Elsewhere, Moves, Writes, Goto
  <1>4. ASSUME NEW u \in Users, NEW v \in Users, NEW named \in BOOLEAN,
               CheckInviter(r, u, v, named)
        PROVE  Elsewhere(r) /\ Moves(r) /\ Writes(r)
    BY <1>0, <1>1, <1>4 DEF CheckInviter, db, Elsewhere, Moves, Writes, Goto, TypeOK
  <1>5. ASSUME NEW u \in Users, NEW i \in Requests,
               NEW trigger \in {"Accepted", "Rejected"}, ReadInvitation(r, u, i, trigger)
        PROVE  Elsewhere(r) /\ Moves(r) /\ Writes(r)
    BY <1>0, <1>1, <1>5 DEF ReadInvitation, db, Elsewhere, Moves, Writes, Goto, TypeOK
  <1>6. ASSUME NEW u \in Users, NEW v \in Users, CheckAdministrator(r, u, v)
        PROVE  Elsewhere(r) /\ Moves(r) /\ Writes(r)
    BY <1>0, <1>1, <1>6 DEF CheckAdministrator, db, Elsewhere, Moves, Writes, Goto, TypeOK
  <1>7. CASE CreateOrganisation(r)
    BY <1>0, <1>7 DEF CreateOrganisation, local, Elsewhere, Moves, Writes, Goto
  <1>8. CASE SetHome(r)
    BY <1>0, <1>8 DEF SetHome, local, Elsewhere, Moves, Writes, Goto
  <1>9. CASE DeleteAgain(r)
    <2>1. pc[r] = "undo" => user[r] \in Users
      BY DEF Named
    <2>. QED
      BY <1>0, <1>9, <2>1 DEF DeleteAgain, local, Elsewhere, Moves, Writes, RemoveOne, Goto
  <1>10. CASE DeleteOrganisation(r)
    <2>1. pc[r] = "delete" => user[r] \in Users
      BY DEF Named
    <2>. QED
      BY <1>0, <1>10, <2>1
      DEF DeleteOrganisation, local, Elsewhere, Moves, Writes, RemoveOne, Goto, TypeOK
  <1>11. CASE LookUpInvitation(r)
    BY <1>0, <1>11 DEF LookUpInvitation, db, local, Elsewhere, Moves, Writes, Goto
  <1>12. CASE CreateInvitation(r)
    BY <1>0, <1>12 DEF CreateInvitation, local, Elsewhere, Moves, Writes, Goto
  <1>13. CASE Join(r)
    BY <1>0, <1>13 DEF Join, local, Elsewhere, Moves, Writes, Goto
  <1>14. CASE AnswerInvitation(r)
    BY <1>0, <1>14 DEF AnswerInvitation, local, Elsewhere, Moves, Writes, Goto
  <1>15. CASE Appoint(r)
    BY <1>0, <1>15 DEF Appoint, local, Elsewhere, Moves, Writes, Goto
  <1>16. CASE RequestFails(r)
    BY <1>0, <1>16 DEF RequestFails, HalfJoined, local, Elsewhere, Moves, Writes, Goto
  <1>. QED
    BY <1>2, <1>3, <1>4, <1>5, <1>6, <1>7, <1>8, <1>9, <1>10, <1>11, <1>12, <1>13,
       <1>14, <1>15, <1>16 DEF Step

------------------------------------------------------------------------------
(* The invariant, in Sql *)

\* What the members of one organisation become when a role is saved.
LEMMA SavedRole ==
  ASSUME TypeOK, Provider = "Sql", NEW r \in Requests, NEW u \in Users,
         NEW x \in {"user", "admin"}, SaveRole(r, u, x), CanSaveRole(r, u)
  PROVE  /\ org[r] \in orgs /\ role'[org[r]][u] = x
         /\ \A o \in orgs, v \in Users : role[o][v] # "none" => role'[o][v] # "none"
  <1>1. org[r] \in orgs /\ orgs \subseteq Requests
    BY DEF CanSaveRole, TypeOK
  <1>2. role' = [role EXCEPT ![org[r]] = [role[org[r]] EXCEPT ![u] = x]]
    BY DEF SaveRole
  <1>. QED BY <1>1, <1>2 DEF TypeOK

\* No step takes a role away in an organisation that stays, and a step creates
\* no organisation but its own request's.
LEMMA RolesStay ==
  ASSUME IInv, Provider = "Sql", NEW r \in Requests, Writes(r)
  PROVE  /\ orgs' \subseteq orgs \/ (orgs' = orgs \cup {r} /\ pc[r] = "create")
         /\ \A o \in orgs \cap orgs', v \in Users :
              role[o][v] # "none" => role'[o][v] # "none"
  <1>. USE DEF IInv
  <1>1. CASE CreateOrganisation(r)
    <2>1. r \notin orgs
      BY <1>1 DEF CreateOrganisation, Born
    <2>. QED BY <1>1, <2>1 DEF CreateOrganisation, TypeOK
  <1>2. CASE SetHome(r)
    BY <1>2 DEF SetHome
  <1>3. CASE RemoveOne(r)
    BY <1>3 DEF RemoveOne, Remove, TypeOK
  <1>4. CASE CreateInvitation(r)
    BY <1>4 DEF CreateInvitation
  <1>5. CASE Join(r)
    <2>1. user[r] \in Users
      BY <1>5 DEF Join, Named
    <2>2. orgs' = orgs
      BY <1>5 DEF Join
    <2>3. CASE MembershipChanges(r)
      BY <1>5, <2>1, <2>2, <2>3, SavedRole DEF Join, CanJoin, WriteRole
    <2>4. CASE ~MembershipChanges(r)
      BY <1>5, <2>2, <2>4 DEF Join, WriteRole
    <2>. QED BY <2>3, <2>4
  <1>6. CASE AnswerInvitation(r)
    BY <1>6 DEF AnswerInvitation
  <1>7. CASE Appoint(r)
    <2>1. orgs' = orgs
      BY <1>7 DEF Appoint
    <2>2. CASE role' = role
      BY <2>1, <2>2
    <2>3. CASE role' # role
      <3>1. CanSaveRole(r, answer[r].to) /\ SaveRole(r, answer[r].to, "admin")
        BY <1>7, <2>3 DEF Appoint
      <3>2. org[r] \in orgs /\ orgs \subseteq Requests
        BY <3>1 DEF CanSaveRole, TypeOK
      <3>3. role' = [role EXCEPT ![org[r]] = [role[org[r]] EXCEPT ![answer[r].to] = "admin"]]
        BY <3>1 DEF SaveRole
      <3>. QED BY <2>1, <3>2, <3>3 DEF TypeOK
    <2>. QED BY <2>2, <2>3
  <1>8. CASE UNCHANGED <<orgs, role, home, invitation>>
    BY <1>8
  <1>. QED
    BY <1>1, <1>2, <1>3, <1>4, <1>5, <1>6, <1>7, <1>8 DEF Writes

\* An organisation once created stays so, for the requests that name it.
LEMMA BornStays ==
  ASSUME NEW r \in Requests, Elsewhere(r), Moves(r)
  PROVE  \A o : Born(o) => o \in Requests /\ pc'[o] \notin {"idle", "create"}
  BY DEF Born, Moves, Elsewhere

\* Requests that have started belong to a user.
LEMMA NamedStays ==
  ASSUME Named, NEW r \in Requests, Step(r), Elsewhere(r), TypeOK
  PROVE  Named'
  <1>1. \A q \in Requests : q # r /\ pc'[q] # "idle" => user'[q] \in Users
    BY DEF Named, Elsewhere
  <1>2. pc[r] # "idle" => user'[r] \in Users
    BY DEF Named, Elsewhere, local
  <1>3. ASSUME NEW u \in Users, NEW o, NEW i, Load(r, u, o, i)
        PROVE  user'[r] \in Users
    BY <1>3 DEF Load, TypeOK
  <1>4. pc[r] = "idle" => user'[r] \in Users
    BY <1>3 DEF Step, CountWebsites, ReadToDelete, CheckInviter, ReadInvitation,
       CheckAdministrator, CreateOrganisation, SetHome, DeleteAgain, DeleteOrganisation,
       LookUpInvitation, CreateInvitation, Join, AnswerInvitation, Appoint, RequestFails
  <1>. QED BY <1>1, <1>2, <1>4 DEF Named

\* Whoever has just joined is a member.
LEMMA Joined ==
  ASSUME IInv, Provider = "Sql", NEW r \in Requests, Join(r), org[r] \in orgs
  PROVE  role'[org[r]][user[r]] # "none"
  <1>1. user[r] \in Users
    BY DEF Join, Named, IInv
  <1>2. CASE MembershipChanges(r)
    BY <1>1, <1>2, SavedRole DEF Join, CanJoin, WriteRole, IInv
  <1>3. CASE ~MembershipChanges(r)
    <2>1. loaded[r].role[user[r]] # "none" /\ role' = role
      BY <1>3 DEF MembershipChanges, Join, WriteRole
    <2>. QED BY <2>1 DEF IInv, JoinInv, Join
  <1>. QED BY <1>2, <1>3

\* Organisations that exist have been created by their requests.
LEMMA BornStep ==
  ASSUME IInv, Provider = "Sql", NEW r \in Requests, Elsewhere(r), Moves(r), Writes(r),
         Step(r)
  PROVE  \A o \in orgs' : Born(o)'
  <1>1. \A o \in orgs : o \in Requests /\ pc'[o] \notin {"idle", "create"}
    BY BornStays DEF IInv
  <1>2. CASE orgs' \subseteq orgs
    BY <1>1, <1>2 DEF Born
  <1>3. CASE orgs' = orgs \cup {r} /\ pc[r] = "create"
    BY <1>1, <1>3 DEF Born, Moves
  <1>. QED BY <1>2, <1>3, RolesStay

\* The parts of the invariant, each kept by a step that writes: the homes,
LEMMA HomeStep ==
  ASSUME IInv, Provider = "Sql", NEW r \in Requests, Writes(r)
  PROVE  HomeIsMembership'
  <1>. SUFFICES ASSUME NEW u \in Users, home'[u] # None
                PROVE  home'[u] \in orgs' /\ role'[home'[u]][u] # "none"
    BY DEF HomeIsMembership
  <1>. USE DEF IInv
  <1>1. home'[u] = home[u] /\ home[u] \in orgs' =>
          home'[u] \in orgs' /\ role'[home'[u]][u] # "none"
    BY RolesStay DEF HomeIsMembership
  <1>2. CASE SetHome(r)
    <2>1. r \in orgs /\ role[r][user[r]] # "none" /\ orgs' = orgs /\ role' = role
      BY <1>2 DEF SetHome, AdoptInv
    <2>2. home' = [home EXCEPT ![user[r]] = r] /\ home \in [Users -> Orgs]
      BY <1>2 DEF SetHome, TypeOK
    <2>. QED BY <2>1, <2>2 DEF HomeIsMembership
  <1>3. CASE RemoveOne(r)
    <2>1. PICK o \in Requests, tracked \in SUBSET Users : Remove(o, tracked)
      BY <1>3 DEF RemoveOne
    <2>2. home'[u] = home[u] /\ home[u] # o
      BY <2>1 DEF Remove
    <2>3. home[u] \in orgs'
      BY <2>1, <2>2 DEF Remove, HomeIsMembership
    <2>. QED BY <1>1, <2>2, <2>3
  <1>4. CASE Join(r)
    <2>1. orgs' = orgs
      BY <1>4 DEF Join
    <2>2. CASE home'[u] = home[u]
      BY <1>1, <2>1, <2>2 DEF HomeIsMembership
    <2>3. CASE home'[u] # home[u]
      <3>1. u = user[r] /\ home'[u] = org[r] /\ HomeChanges(r)
        BY <1>4, <2>3 DEF Join, WriteHome, TypeOK
      <3>2. org[r] \in orgs
        BY <1>4, <3>1 DEF Join, CanJoin
      <3>. QED BY <1>4, <2>1, <3>1, <3>2, Joined
    <2>. QED BY <2>2, <2>3
  <1>5. CASE orgs \subseteq orgs' /\ home' = home
    BY <1>1, <1>5 DEF HomeIsMembership
  <1>6. CreateOrganisation(r) \/ CreateInvitation(r) \/ AnswerInvitation(r) \/ Appoint(r)
          => orgs \subseteq orgs' /\ home' = home
    BY DEF CreateOrganisation, CreateInvitation, AnswerInvitation, Appoint
  <1>. QED BY <1>2, <1>3, <1>4, <1>5, <1>6 DEF Writes

\* who is adopted,
LEMMA AdoptStep ==
  ASSUME IInv, Provider = "Sql", NEW r \in Requests, Elsewhere(r), Moves(r), Writes(r),
         Step(r), Named'
  PROVE  AdoptInv'
  <1>. USE DEF IInv
  <1>. SUFFICES ASSUME NEW q \in Requests, pc'[q] = "adopt", q \in orgs'
                PROVE  role'[q][user'[q]] # "none"
    BY DEF AdoptInv
  <1>1. CASE q = r
    <2>1. CreateOrganisation(r)
      BY <1>1 DEF Moves
    <2>. QED
      BY <1>1, <2>1 DEF CreateOrganisation, local, TypeOK, Named, NoRoles
  <1>2. CASE q # r
    <2>1. pc[q] = "adopt" /\ user'[q] = user[q] /\ user[q] \in Users
      BY <1>2 DEF Elsewhere, Named
    <2>2. q \in orgs
      BY <1>2, RolesStay
    <2>. QED BY <2>1, <2>2, RolesStay DEF AdoptInv
  <1>. QED BY <1>1, <1>2

\* who joins,
LEMMA JoinStep ==
  ASSUME IInv, Provider = "Sql", NEW r \in Requests, Step(r), Elsewhere(r), Moves(r),
         Writes(r)
  PROVE  JoinInv'
  <1>. USE DEF IInv
  <1>. DEFINE Grown(o) == o \in Requests /\ pc'[o] \notin {"idle", "create"}
  <1>1. ASSUME NEW q \in Requests, q # r, pc'[q] \in {"join", "answer"}
        PROVE  /\ Grown(org'[q])
               /\ pc'[q] = "join" /\ org'[q] \in orgs' /\ loaded'[q].role[user'[q]] # "none"
                    => role'[org'[q]][user'[q]] # "none"
    <2>1. pc[q] = pc'[q] /\ loaded'[q] = loaded[q] /\ user'[q] = user[q] /\ org'[q] = org[q]
      BY <1>1 DEF Elsewhere
    <2>2. Born(org[q]) /\ user[q] \in Users
      BY <1>1, <2>1 DEF JoinInv, Named
    <2>3. org[q] \in orgs' => org[q] \in orgs
      BY <2>2, RolesStay DEF Born
    <2>4. pc'[q] = "join" /\ org[q] \in orgs' /\ loaded[q].role[user[q]] # "none"
            => role'[org[q]][user[q]] # "none"
      BY <2>1, <2>2, <2>3, RolesStay DEF JoinInv
    <2>. QED BY <2>1, <2>2, <2>4, BornStays
  <1>2. ASSUME NEW u \in Users, NEW i \in Requests,
               NEW trigger \in {"Accepted", "Rejected"}, ReadInvitation(r, u, i, trigger)
        PROVE  /\ Grown(org'[r])
               /\ org'[r] \in orgs' /\ loaded'[r].role[user'[r]] # "none"
                    => role'[org'[r]][user'[r]] # "none"
    <2>1. invitation[i].org \in orgs
      BY <1>2 DEF ReadInvitation, ForOrganisation
    <2>2. /\ org'[r] = invitation[i].org /\ user'[r] = u
          /\ loaded'[r].role = role[invitation[i].org]
          /\ orgs' = orgs /\ role' = role
      BY <1>2, <2>1 DEF ReadInvitation, Load, TypeOK, db
    <2>3. Grown(invitation[i].org)
      BY <2>1, BornStays
    <2>. QED BY <2>2, <2>3
  <1>3. ASSUME pc'[r] \in {"join", "answer"}, pc[r] = "idle"
        PROVE  \E u \in Users, i \in Requests, trigger \in {"Accepted", "Rejected"} :
                 ReadInvitation(r, u, i, trigger)
    BY <1>3
    DEF Step, CountWebsites, ReadToDelete, CheckInviter, CheckAdministrator,
        CreateOrganisation, SetHome, DeleteAgain, DeleteOrganisation, LookUpInvitation,
        CreateInvitation, Join, AnswerInvitation, Appoint, RequestFails, Goto, TypeOK
  <1>4. CASE Join(r)
    <2>1. pc'[r] = "answer" /\ org' = org /\ Born(org[r])
      BY <1>4 DEF Join, Goto, local, TypeOK, JoinInv
    <2>. QED BY <1>1, <2>1, BornStays DEF JoinInv, Born
  <1>5. CASE ~Join(r)
    <2>1. pc'[r] \in {"join", "answer"} => pc[r] = "idle"
      BY <1>5 DEF Moves
    <2>. QED BY <1>1, <1>2, <1>3, <2>1 DEF JoinInv, Born
  <1>. QED BY <1>4, <1>5

\* A request that has just read an invitation to answer it.
LEMMA ReadsInvitation ==
  ASSUME TypeOK, NEW r \in Requests, Step(r), pc[r] = "idle",
         pc'[r] \in {"join", "answer"}
  PROVE  \E u \in Users, i \in Requests, trigger \in {"Accepted", "Rejected"} :
           /\ ReadInvitation(r, u, i, trigger)
           /\ pc'[r] = "answer" => trigger = "Rejected"
  BY DEF Step, CountWebsites, ReadToDelete, CheckInviter, CheckAdministrator,
     CreateOrganisation, SetHome, DeleteAgain, DeleteOrganisation, LookUpInvitation,
     CreateInvitation, Join, AnswerInvitation, Appoint, RequestFails, ReadInvitation,
     Goto, TypeOK

\* what is for an organisation,
LEMMA ForOrganisationStep ==
  ASSUME IInv, Provider = "Sql", NEW r \in Requests, Writes(r)
  PROVE  ForOrganisation'
  <1>. USE DEF IInv
  <1>1. CASE RemoveOne(r)
    <2>1. PICK o \in Requests, tracked \in SUBSET Users : Remove(o, tracked)
      BY <1>1 DEF RemoveOne
    <2>. SUFFICES ASSUME NEW i \in Requests PROVE invitation'[i].org \in orgs' \cup {None}
      BY DEF ForOrganisation
    <2>2. CASE invitation[i].org = o
      <3>1. invitation'[i] = [invitation[i] EXCEPT !.org = None]
        BY <2>1, <2>2 DEF Remove
      <3>2. invitation[i] \in Invitations
        BY DEF TypeOK
      <3>. QED BY <3>1, <3>2 DEF Invitations
    <2>3. CASE invitation[i].org # o
      BY <2>1, <2>3 DEF Remove, ForOrganisation
    <2>. QED BY <2>2, <2>3
  <1>2. CASE CreateInvitation(r)
    <2>1. answer[r] \in Invitations
      BY DEF TypeOK
    <2>2. [answer[r] EXCEPT !.org = org[r]].org = org[r]
      BY <2>1 DEF Invitations
    <2>3. /\ org[r] \in orgs /\ orgs' = orgs
          /\ invitation' = [invitation EXCEPT ![r] = [answer[r] EXCEPT !.org = org[r]]]
      BY <1>2 DEF CreateInvitation
    <2>. QED BY <2>2, <2>3 DEF ForOrganisation, TypeOK
  <1>3. CASE AnswerInvitation(r)
    <2>1. inv[r] \in Requests /\ invitation[inv[r]] \in Invitations /\ orgs' = orgs
      BY <1>3 DEF TypeOK, AnswerInvitation
    <2>2. [invitation[inv[r]] EXCEPT !.state = answer[r].state].org = invitation[inv[r]].org
      BY <2>1 DEF Invitations
    <2>3. \/ UNCHANGED invitation
          \/ invitation' = [invitation EXCEPT
               ![inv[r]] = [invitation[inv[r]] EXCEPT !.state = answer[r].state]]
      BY <1>3 DEF AnswerInvitation
    <2>. QED BY <2>1, <2>2, <2>3 DEF ForOrganisation, TypeOK
  <1>4. CASE invitation' = invitation /\ orgs \subseteq orgs'
    BY <1>4 DEF ForOrganisation
  <1>. QED
    BY <1>1, <1>2, <1>3, <1>4
    DEF Writes, CreateOrganisation, SetHome, Join, Appoint

\* No step but its creation and its answer changes the state of an invitation.
LEMMA InvitationStays ==
  ASSUME IInv, Provider = "Sql", NEW r \in Requests, Writes(r), NEW i \in Requests
  PROVE  /\ \/ invitation'[i].to = invitation[i].to
            \/ CreateInvitation(r) /\ i = r
         /\ \/ invitation'[i].org \in {invitation[i].org, None}
            \/ CreateInvitation(r) /\ i = r
         /\ \/ invitation'[i].state = invitation[i].state
            \/ CreateInvitation(r) /\ i = r
            \/ AnswerInvitation(r) /\ i = inv[r] /\ invitation'[i].state = answer[r].state
  <1>. USE DEF IInv
  <1>1. invitation[i] \in Invitations
    BY DEF TypeOK
  <1>2. CASE RemoveOne(r)
    <2>1. PICK o \in Requests, tracked \in SUBSET Users : Remove(o, tracked)
      BY <1>2 DEF RemoveOne
    <2>2. invitation'[i] \in {invitation[i], [invitation[i] EXCEPT !.org = None]}
      BY <2>1 DEF Remove
    <2>. QED BY <1>1, <2>2 DEF Invitations
  <1>3. CASE CreateInvitation(r)
    <2>1. i # r => invitation'[i] = invitation[i]
      BY <1>3 DEF CreateInvitation, TypeOK
    <2>. QED BY <1>3, <2>1
  <1>4. CASE AnswerInvitation(r)
    <2>1. \/ invitation'[i] = invitation[i]
          \/ i = inv[r] /\ invitation'[i] = [invitation[i] EXCEPT !.state = answer[r].state]
      BY <1>4 DEF AnswerInvitation, TypeOK
    <2>. QED BY <1>1, <1>4, <2>1 DEF Invitations
  <1>5. CASE invitation' = invitation
    BY <1>5
  <1>. QED
    BY <1>2, <1>3, <1>4, <1>5
    DEF Writes, CreateOrganisation, SetHome, Join, Appoint

\* what was created,
LEMMA CreatedStep ==
  ASSUME IInv, Provider = "Sql", NEW r \in Requests, Step(r), Elsewhere(r), Moves(r),
         Writes(r)
  PROVE  Created'
  <1>. USE DEF IInv
  <1>. SUFFICES ASSUME NEW i \in Requests
                PROVE  /\ invitation'[i].state # "none" =>
                            /\ pc'[i] \notin {"idle", "lookup", "invite"}
                            /\ invitation'[i].to \in Users
                       /\ invitation'[i].org # None => invitation'[i].state # "none"
    BY DEF Created
  <1>1. CASE CreateInvitation(r) /\ i = r
    <2>1. answer[r] \in Invitations /\ answer[r].state = "Open" /\ answer[r].to \in Users
      BY <1>1 DEF CreateInvitation, InHand, TypeOK
    <2>2. invitation'[r] = [answer[r] EXCEPT !.org = org[r]] /\ pc'[r] = "done"
      BY <1>1 DEF CreateInvitation, Goto, TypeOK
    <2>. QED BY <1>1, <2>1, <2>2 DEF Invitations
  <1>2. CASE AnswerInvitation(r) /\ i = inv[r]
    <2>1. /\ invitation[i].state # "none" /\ answer[r].state \in {"Accepted", "Rejected"}
          /\ pc[r] = "answer" /\ pc'[r] \in {"done", "failed"}
      BY <1>2 DEF AnswerInvitation, InHand, Goto, TypeOK
    <2>2. invitation'[i].state # "none" /\ invitation'[i].to = invitation[i].to
      BY <1>2, <2>1, InvitationStays DEF AnswerInvitation, CreateInvitation
    <2>. QED BY <2>1, <2>2 DEF Created, Elsewhere
  <1>3. CASE ~(CreateInvitation(r) /\ i = r) /\ ~(AnswerInvitation(r) /\ i = inv[r])
    <2>1. /\ invitation'[i].state = invitation[i].state
          /\ invitation'[i].org \in {invitation[i].org, None}
          /\ invitation'[i].to = invitation[i].to
      BY <1>3, InvitationStays
    <2>. QED BY <2>1 DEF Created, Elsewhere, Moves
  <1>. QED BY <1>1, <1>2, <1>3

\* what is in hand,
LEMMA InHandStep ==
  ASSUME IInv, Provider = "Sql", NEW r \in Requests, Step(r), Elsewhere(r), Moves(r),
         Writes(r)
  PROVE  InHand'
  <1>. USE DEF IInv
  \* The invitation in hand of a request whose memory is kept.
  <1>1. ASSUME NEW q \in Requests, pc[q] \in {"join", "answer"},
               user'[q] = user[q], org'[q] = org[q], inv'[q] = inv[q], answer'[q] = answer[q]
        PROVE  /\ answer'[q].state \in {"Accepted", "Rejected"}
               /\ invitation'[inv'[q]].state # "none"
               /\ invitation'[inv'[q]].to = user'[q]
               /\ invitation'[inv'[q]].org \in {org'[q], None}
    <2>1. inv[q] \in Requests
      BY DEF TypeOK
    <2>2. /\ answer[q].state \in {"Accepted", "Rejected"}
          /\ invitation[inv[q]].state # "none"
          /\ invitation[inv[q]].to = user[q]
          /\ invitation[inv[q]].org \in {org[q], None}
      BY <1>1 DEF InHand
    <2>3. ~(CreateInvitation(r) /\ inv[q] = r)
      BY <2>1, <2>2 DEF CreateInvitation, Created
    <2>4. AnswerInvitation(r) => answer[r].state \in {"Accepted", "Rejected"}
      BY DEF AnswerInvitation, InHand
    <2>. QED BY <1>1, <2>1, <2>2, <2>3, <2>4, InvitationStays
  <1>2. ASSUME NEW q \in Requests, q # r
        PROVE  /\ pc'[q] \in {"lookup", "invite"} =>
                    answer'[q].state = "Open" /\ answer'[q].to \in Users
               /\ pc'[q] \in {"join", "answer"} =>
                    /\ answer'[q].state \in {"Accepted", "Rejected"}
                    /\ invitation'[inv'[q]].state # "none"
                    /\ invitation'[inv'[q]].to = user'[q]
                    /\ invitation'[inv'[q]].org \in {org'[q], None}
    BY <1>1, <1>2 DEF Elsewhere, InHand
  <1>3. pc'[r] \in {"lookup", "invite"} => answer'[r].state = "Open" /\ answer'[r].to \in Users
    <2>1. CASE pc[r] = "idle"
      BY <2>1 DEF Step, CountWebsites, ReadToDelete, CheckInviter, ReadInvitation,
         CheckAdministrator, CreateOrganisation, SetHome, DeleteAgain, DeleteOrganisation,
         LookUpInvitation, CreateInvitation, Join, AnswerInvitation, Appoint,
         RequestFails, Goto, TypeOK
    <2>2. CASE pc[r] # "idle"
      BY <2>2 DEF Elsewhere, Moves, local, InHand
    <2>. QED BY <2>1, <2>2
  <1>4. ASSUME pc'[r] \in {"join", "answer"}
        PROVE  /\ answer'[r].state \in {"Accepted", "Rejected"}
               /\ invitation'[inv'[r]].state # "none"
               /\ invitation'[inv'[r]].to = user'[r]
               /\ invitation'[inv'[r]].org \in {org'[r], None}
    <2>1. CASE pc[r] = "idle"
      <3>1. PICK u \in Users, i \in Requests, trigger \in {"Accepted", "Rejected"} :
              ReadInvitation(r, u, i, trigger)
        BY <1>4, <2>1, ReadsInvitation
      <3>2. invitation[i] \in Invitations
        BY DEF TypeOK
      <3>3. answer'[r] = [invitation[i] EXCEPT !.state = trigger]
        BY <3>1 DEF ReadInvitation, TypeOK
      <3>4. answer'[r].state = trigger
        BY <3>2, <3>3 DEF Invitations
      <3>5. /\ user'[r] = u /\ org'[r] = invitation[i].org /\ inv'[r] = i
            /\ invitation' = invitation /\ invitation[i].to = u
            /\ invitation[i].org # None /\ invitation[i].state # "none"
        BY <3>1 DEF ReadInvitation, Load, TypeOK, db, Created
      <3>. QED BY <3>4, <3>5
    <2>2. CASE Join(r)
      BY <1>1, <2>2 DEF Join, local
    <2>. QED BY <1>4, <2>1, <2>2 DEF Moves
  <1>. QED BY <1>2, <1>3, <1>4 DEF InHand

\* what was answered,
LEMMA AnswerStep ==
  ASSUME IInv, Provider = "Sql", NEW r \in Requests, Step(r), Elsewhere(r), Moves(r),
         Writes(r)
  PROVE  AnswerInv'
  <1>. USE DEF IInv
  <1>. SUFFICES ASSUME NEW q \in Requests, pc'[q] = "answer", answer'[q].state = "Accepted",
                       org'[q] \in orgs'
                PROVE  role'[org'[q]][user'[q]] # "none"
    BY DEF AnswerInv
  <1>1. CASE q # r
    <2>1. /\ pc[q] = "answer" /\ answer[q].state = "Accepted"
          /\ org'[q] = org[q] /\ user'[q] = user[q] /\ user[q] \in Users
      BY <1>1 DEF Elsewhere, Named
    <2>2. org[q] \in orgs
      BY <2>1, RolesStay DEF JoinInv, Born
    <2>. QED BY <2>1, <2>2, RolesStay DEF AnswerInv
  <1>2. CASE q = r /\ Join(r)
    BY <1>2, Joined DEF Join, local
  <1>3. CASE q = r /\ ~Join(r)
    <2>1. pc[r] = "idle"
      BY <1>3 DEF Moves
    <2>2. PICK u \in Users, i \in Requests : ReadInvitation(r, u, i, "Rejected")
      BY <1>3, <2>1, ReadsInvitation
    <2>3. invitation[i] \in Invitations /\ answer'[r] = [invitation[i] EXCEPT !.state = "Rejected"]
      BY <2>2 DEF ReadInvitation, TypeOK
    <2>. QED BY <1>3, <2>3 DEF Invitations
  <1>. QED BY <1>1, <1>2, <1>3

\* and who accepted.
LEMMA AcceptedStep ==
  ASSUME IInv, Provider = "Sql", NEW r \in Requests, Step(r), Elsewhere(r), Moves(r),
         Writes(r)
  PROVE  AcceptedIsMember'
  <1>. USE DEF IInv
  <1>. SUFFICES ASSUME NEW i \in Requests, invitation'[i].state = "Accepted",
                       invitation'[i].org \in orgs'
                PROVE  role'[invitation'[i].org][invitation'[i].to] # "none"
    BY DEF AcceptedIsMember
  <1>1. ~(CreateInvitation(r) /\ i = r)
    <2>1. SUFFICES ASSUME CreateInvitation(r), i = r PROVE FALSE
      OBVIOUS
    <2>2. /\ answer[r] \in Invitations /\ answer[r].state = "Open"
          /\ invitation'[r] = [answer[r] EXCEPT !.org = org[r]]
      BY <2>1 DEF CreateInvitation, InHand, TypeOK
    <2>. QED BY <2>1, <2>2 DEF Invitations
  <1>2. None \notin orgs'
    <2>1. orgs' \subseteq orgs \cup {r}
      BY RolesStay
    <2>. QED BY <2>1, MembershipAssumption DEF TypeOK
  <1>3. /\ invitation'[i].org = invitation[i].org /\ invitation'[i].to = invitation[i].to
        /\ invitation[i].org \in orgs
    BY <1>1, <1>2, InvitationStays DEF ForOrganisation
  <1>4. CASE AnswerInvitation(r) /\ i = inv[r] /\ invitation'[i].state = answer[r].state
    <2>1. /\ pc[r] = "answer" /\ answer[r].state = "Accepted"
          /\ orgs' = orgs /\ role' = role
      BY <1>4 DEF AnswerInvitation
    <2>2. invitation[i].org = org[r] /\ invitation[i].to = user[r]
      BY <1>2, <1>3, <1>4, <2>1 DEF InHand
    <2>. QED BY <1>3, <2>1, <2>2 DEF AnswerInv
  <1>5. CASE invitation'[i].state = invitation[i].state
    <2>1. role[invitation[i].org][invitation[i].to] # "none"
      BY <1>3, <1>5 DEF AcceptedIsMember
    <2>2. invitation[i].to \in Users
      BY <1>5 DEF Created
    <2>. QED BY <1>3, <2>1, <2>2, RolesStay
  <1>. QED BY <1>1, <1>4, <1>5, InvitationStays

------------------------------------------------------------------------------
(* The theorems *)

\* The invariant holds at the start,
LEMMA IInvInit == Init => IInv
  <1>. SUFFICES ASSUME Init PROVE IInv
    OBVIOUS
  <1>1. TypeOK
    BY TypeInit
  <1>2. \A i \in Requests : invitation[i].state = "none" /\ invitation[i].org = None
    BY DEF Init, NoInvitation
  <1>. QED
    BY <1>1, <1>2 DEF Init, IInv, Named, HomeIsMembership, AdoptInv, JoinInv,
       ForOrganisation, Created, InHand, AnswerInv, AcceptedIsMember

\* after each step,
LEMMA IInvStep ==
  ASSUME IInv, Provider = "Sql", NEW r \in Requests, Step(r)
  PROVE  IInv'
  <1>1. TypeOK'
    BY TypeStep DEF IInv
  <1>2. Elsewhere(r) /\ Moves(r) /\ Writes(r)
    BY StepShape DEF IInv
  <1>3. Named'
    BY <1>2, NamedStays DEF IInv
  <1>4. \A o \in orgs' : Born(o)'
    BY <1>2, BornStep
  <1>5. HomeIsMembership'
    BY <1>2, HomeStep
  <1>6. AdoptInv'
    BY <1>2, <1>3, AdoptStep
  <1>7. JoinInv'
    BY <1>2, JoinStep
  <1>8. ForOrganisation' /\ Created'
    BY <1>2, ForOrganisationStep, CreatedStep
  <1>9. InHand'
    BY <1>2, InHandStep
  <1>10. AnswerInv' /\ AcceptedIsMember'
    BY <1>2, AnswerStep, AcceptedStep
  <1>. QED
    BY <1>1, <1>3, <1>4, <1>5, <1>6, <1>7, <1>8, <1>9, <1>10 DEF IInv

\* and while nothing happens.
LEMMA IInvStutter == IInv /\ UNCHANGED vars => IInv'
  <1>. SUFFICES ASSUME IInv, UNCHANGED vars PROVE IInv'
    OBVIOUS
  <1>1. TypeOK'
    BY TypeStutter DEF IInv
  <1>. QED
    BY <1>1 DEF IInv, vars, db, local, Named, Born, HomeIsMembership, AdoptInv, JoinInv,
       ForOrganisation, Created, InHand, AnswerInv, AcceptedIsMember

\* The invariant holds with the Sql provider.
THEOREM Invariance ==
  ASSUME Provider = "Sql"
  PROVE  Spec => []IInv
  <1>1. IInv /\ [Next]_vars => IInv'
    BY IInvStep, IInvStutter DEF Next
  <1>. QED BY IInvInit, <1>1, PTL DEF Spec

\* A user's home organisation exists and the user is one of its members
\* (OrganisationService, InvitationService), through every interleaving of
\* creating, joining, promoting and deleting, and every failed save.
THEOREM HomeIsHome ==
  ASSUME Provider = "Sql"
  PROVE  Spec => []HomeIsMembership
  <1>1. IInv => HomeIsMembership
    BY DEF IInv
  <1>. QED BY Invariance, <1>1, PTL

\* An accepted invitation has made its user a member of the organisation, as
\* long as there is one (InvitationService.HandleInvitationAsync).
THEOREM AcceptedJoins ==
  ASSUME Provider = "Sql"
  PROVE  Spec => []AcceptedIsMember
  <1>1. IInv => AcceptedIsMember
    BY DEF IInv
  <1>. QED BY Invariance, <1>1, PTL
==============================================================================

------------------------------- MODULE Access --------------------------------
(***************************************************************************)
(* Who may do what with an Amphora: its access rules, its terms of use and *)
(* its purchases.                                                          *)
(*                                                                         *)
(*   PermissionService, the decision                                       *)
(*   AccessControlService.CreateAsync and DeleteAsync                      *)
(*   AmphoraeService.CreateAsync and UpdateAsync                           *)
(*   TermsOfUseService.CreateAsync, CreateGlobalAsync, DeleteAsync and     *)
(*   AcceptAsync                                                           *)
(*   PurchaseService, up to the purchase (Billing has the rest)            *)
(*   AmphoraFileService.ReadFileAsync, up to the permission                *)
(*                                                                         *)
(* The module follows one Amphora.  A request reads and is checked in one  *)
(* action and saves in another; a request that is refused changes nothing  *)
(* and is no step.  Memberships stay as they are (Membership has them).    *)
(***************************************************************************)
EXTENDS Integers, FiniteSets

CONSTANTS
  Requests, Users, Orgs,
  NoOrg,          \* no organisation
  OrgOf,          \* ApplicationUserDataModel.OrganisationId
  RoleIn,         \* the role of a user in an organisation
  GlobalAdmins,   \* principals with IsGlobalAdmin
  GlobalTerms,    \* terms that are there from the start and belong to nobody
  NoTerms,        \* no terms of use
  All,            \* the target of an AllRule
  Targets, Priorities,  \* what administrators name in a rule
  Provider        \* "Sql" or "Cosmos"

ASSUME AccessAssumption ==
  /\ NoOrg \notin Orgs /\ NoTerms \notin Requests \cup GlobalTerms
  /\ All \notin Users \cup Orgs /\ Users \cap (Orgs \cup {NoOrg}) = {}
  /\ OrgOf \in [Users -> Orgs \cup {NoOrg}]
  /\ RoleIn \in [Orgs -> [Users -> {"none", "user", "admin"}]]
  /\ GlobalAdmins \subseteq Users
  /\ Targets \subseteq Users \cup Orgs \cup {All} /\ Priorities \subseteq Int
  /\ Provider \in {"Sql", "Cosmos"}

\* Terms of use are named by the request that creates them.
Terms == GlobalTerms \cup Requests

VARIABLES
  \* the database
  amphora,     \* the Amphora: owner, creator, isPublic, terms
  rules,       \* its access rules; at most one of them is for All
  terms,       \* the TermsOfUseModels that exist
  termsOwner,  \* TermsOfUseModel.OrganisationId
  accepted,    \* TermsOfUseAcceptanceModels
  purchases,   \* its purchases, with the terms they were made under
  \* a request
  pc,
  user,        \* whose request it is
  rule,        \* the rule it adds or removes
  tou,         \* the terms it is about
  copy         \* rules and acceptances as its context loaded them (Cosmos)

db == <<amphora, rules, terms, termsOwner, accepted, purchases>>
vars == <<db, pc, user, rule, tou, copy>>

NoAmphora == [owner |-> NoOrg, creator |-> NoOrg, isPublic |-> FALSE, terms |-> NoTerms]
NoRule(r) == [id |-> r, target |-> All, kind |-> "Deny", priority |-> 0]
Exists == amphora # NoAmphora

------------------------------------------------------------------------------
(* PermissionService *)

Level == [Read |-> 16, Purchase |-> 24, ReadContents |-> 32, CreateEntities |-> 48,
          WriteContents |-> 64, Update |-> 128, Administer |-> 256]
Levels == {16, 24, 32, 48, 64, 128, 256}

RoleLevel == [none |-> 0, user |-> Level.CreateEntities, admin |-> Level.Administer]

\* IsAuthorizedAsync for an organisation: everybody may read one.
IsMemberAuthorized(u, o, level) ==
  level <= Level.Read \/ RoleLevel[RoleIn[o][u]] >= level

RulesFor(u) == {x \in rules : x.target \in {All, u, OrgOf[u]}}

\* (mutant) the rules are asked about the contents only.
ModelAppliesToContents(u, level) == level = Level.ReadContents /\ RulesFor(u) # {}
AccessModelApplies(u, level) ==
  /\ Level.Read < level /\ level <= Level.ReadContents
  /\ RulesFor(u) # {}

\* The rule of the highest priority applies, the first of a list that has the
\* rule for all before those of the organisation and these before those of the
\* user.  Which of several of a group comes first is up to the database.
RulesToApply(u) ==
  LET top == {x \in RulesFor(u) : \A y \in RulesFor(u) : y.priority <= x.priority}
      forAll == {x \in top : x.target = All}
      forOrg == {x \in top : x.target = OrgOf[u]}
  IN  IF forAll # {} THEN forAll ELSE IF forOrg # {} THEN forOrg ELSE top

\* (mutant) one rule that allows is enough.
AllowedBySome(u) == \E x \in RulesFor(u) : x.kind = "Allow"
IsAllowed(u) == \E x \in RulesToApply(u) : x.kind = "Allow"

IsAccessDenied(u, level) ==
  /\ level >= Level.Purchase
  /\ \E x \in rules : x.target \in {u, OrgOf[u]} /\ x.kind = "Deny"

HasPurchased(o) == \E p \in purchases : p.org = o

\* A purchase is looked for in the user's organisation, which may be null.
Throws(u) == OrgOf[u] = NoOrg /\ purchases # {}

IsAuthorized(u, level) ==
  \/ OrgOf[u] = amphora.owner /\ level <= Level.CreateEntities
  \/ OrgOf[u] = amphora.owner /\ u = amphora.creator /\ level <= Level.Update
  \/ IsMemberAuthorized(u, amphora.owner, level)
  \/ AccessModelApplies(u, level) /\ IsAllowed(u)
  \/ /\ ~AccessModelApplies(u, level) /\ ~IsAccessDenied(u, level)
     /\ \/ level <= Level.ReadContents /\ HasPurchased(OrgOf[u])
        \/ level <= Level.Purchase /\ amphora.isPublic /\ ~Throws(u)

------------------------------------------------------------------------------
(* Requests *)

Goto(r, label) == pc' = [pc EXCEPT ![r] = label]

\* A request that was not refused: what it keeps until its save.
Begin(r, u, x, t, label) ==
  /\ Goto(r, label)
  /\ user' = [user EXCEPT ![r] = u]
  /\ rule' = [rule EXCEPT ![r] = x]
  /\ tou' = [tou EXCEPT ![r] = t]
  /\ copy' = IF Provider = "Sql" THEN copy
             ELSE [copy EXCEPT ![r] = [rules |-> rules, accepted |-> accepted]]

\* A save that the database refuses ends in an error.
Finish(r, saved) ==
  /\ Goto(r, IF saved THEN "done" ELSE "failed")
  /\ UNCHANGED <<user, rule, tou, copy>>

\* The key of the terms an Amphora refers to is a foreign key in Sql, which
\* also keeps terms that an Amphora refers to.
CanRefer(t) == Provider = "Sql" => t \in terms \cup {NoTerms}
\* (mutant) the reference of the Amphora does not keep the terms.
CanDropAny(t) == TRUE
CanDrop(t) == Provider = "Sql" => amphora.terms # t

------------------------------------------------------------------------------
(* AmphoraeService *)

\* The terms, if there are any, are looked up first.
CheckCreate(r, u, t) ==
  /\ pc[r] = "idle" /\ ~Exists
  /\ OrgOf[u] # NoOrg
  /\ t \in terms \cup {NoTerms}
  /\ IsMemberAuthorized(u, OrgOf[u], Level.CreateEntities)
  /\ Begin(r, u, rule[r], t, "create")
  /\ UNCHANGED db

CreateAmphora(r, isPublic) ==
  /\ pc[r] = "create" /\ ~Exists
  /\ amphora' = IF CanRefer(tou[r])
                THEN [owner |-> OrgOf[user[r]], creator |-> user[r],
                      isPublic |-> isPublic, terms |-> tou[r]]
                ELSE amphora
  /\ Finish(r, CanRefer(tou[r]))
  /\ UNCHANGED <<rules, terms, termsOwner, accepted, purchases>>

\* Nothing looks the new terms up.
CheckUpdate(r, u, t) ==
  /\ pc[r] = "idle" /\ Exists
  /\ IsAuthorized(u, Level.Update)
  /\ Begin(r, u, rule[r], t, "update")
  /\ UNCHANGED db

UpdateAmphora(r) ==
  /\ pc[r] = "update"
  /\ amphora' = IF CanRefer(tou[r]) THEN [amphora EXCEPT !.terms = tou[r]] ELSE amphora
  /\ Finish(r, CanRefer(tou[r]))
  /\ UNCHANGED <<rules, terms, termsOwner, accepted, purchases>>

------------------------------------------------------------------------------
(* AccessControlService *)

CheckCreateRule(r, u, x) ==
  /\ pc[r] = "idle" /\ Exists
  /\ IsAuthorized(u, Level.Administer)
  /\ Begin(r, u, x, tou[r], "add")
  /\ UNCHANGED db

\* The rules are rows of their own in Sql, where the rule for all is a single
\* reference; in Cosmos the access control is one document, which is replaced
\* by the context's copy.
Base(r) == IF Provider = "Sql" THEN rules ELSE copy[r].rules
WithoutAll(S) == {x \in S : x.target # All}

CreateRule(r) ==
  /\ pc[r] = "add"
  /\ rules' = {rule[r]} \cup (IF rule[r].target = All THEN WithoutAll(Base(r)) ELSE Base(r))
  /\ Finish(r, TRUE)
  /\ UNCHANGED <<amphora, terms, termsOwner, accepted, purchases>>

CheckDeleteRule(r, u, x) ==
  /\ pc[r] = "idle" /\ Exists
  /\ IsAuthorized(u, Level.Administer)
  /\ x \in rules
  /\ Begin(r, u, x, tou[r], "remove")
  /\ UNCHANGED db

\* The reference to the rule for all is cleared, whichever rule it is to by now;
\* deleting a row that is gone is refused.
CanRemove(r) == Provider = "Sql" => rule[r].target = All \/ rule[r] \in rules

\* (mutant) every rule with this target is removed.
DeleteRulesOfTarget(r) ==
  /\ pc[r] = "remove"
  /\ rules' = {x \in Base(r) : x.target # rule[r].target}
  /\ Finish(r, CanRemove(r))
  /\ UNCHANGED <<amphora, terms, termsOwner, accepted, purchases>>
DeleteRule(r) ==
  /\ pc[r] = "remove"
  /\ rules' = IF ~CanRemove(r) THEN rules
              ELSE IF rule[r].target = All THEN WithoutAll(Base(r))
              ELSE Base(r) \ {rule[r]}
  /\ Finish(r, CanRemove(r))
  /\ UNCHANGED <<amphora, terms, termsOwner, accepted, purchases>>

------------------------------------------------------------------------------
(* TermsOfUseService *)

\* Global terms belong to no organisation and take a global administrator.
CreateTerms(r, u, global) ==
  /\ pc[r] = "idle"
  /\ global => u \in GlobalAdmins
  /\ Begin(r, u, rule[r], r, "done")
  /\ terms' = terms \cup {r}
  /\ termsOwner' = [termsOwner EXCEPT ![r] = IF global THEN NoOrg ELSE OrgOf[u]]
  /\ UNCHANGED <<amphora, rules, accepted, purchases>>

\* The Amphorae that refer to the terms are counted.
CheckDeleteTerms(r, u, t) ==
  /\ pc[r] = "idle"
  /\ t \in terms /\ termsOwner[t] # NoOrg
  /\ IsMemberAuthorized(u, termsOwner[t], Level.Administer)
  /\ amphora.terms # t
  /\ Begin(r, u, rule[r], t, "drop")
  /\ UNCHANGED db

DeleteTerms(r) ==
  /\ pc[r] = "drop"
  /\ terms' = IF CanDrop(tou[r]) THEN terms \ {tou[r]} ELSE terms
  /\ Finish(r, CanDrop(tou[r]))
  /\ UNCHANGED <<amphora, rules, termsOwner, accepted, purchases>>

HasAccepted(o, t) == \E a \in accepted : a.org = o /\ a.terms = t

CheckAccept(r, u, t) ==
  /\ pc[r] = "idle"
  /\ t \in terms
  /\ OrgOf[u] # NoOrg
  /\ OrgOf[u] # termsOwner[t]
  /\ ~HasAccepted(OrgOf[u], t)
  /\ IsMemberAuthorized(u, OrgOf[u], Level.Update)
  /\ Begin(r, u, rule[r], t, "accept")
  /\ UNCHANGED db

\* An acceptance is part of the organisation's document in Cosmos.
\* (mutant) it is recorded for the user.
AcceptForUser(r) ==
  /\ pc[r] = "accept"
  /\ accepted' = accepted \cup {[by |-> r, org |-> user[r], terms |-> tou[r]]}
  /\ Finish(r, TRUE)
  /\ UNCHANGED <<amphora, rules, terms, termsOwner, purchases>>
Accept(r) ==
  /\ pc[r] = "accept"
  /\ LET o == OrgOf[user[r]]
         kept == IF Provider = "Sql" THEN accepted
                 ELSE {a \in accepted : a.org # o} \cup {a \in copy[r].accepted : a.org = o}
     IN  accepted' = kept \cup {[by |-> r, org |-> o, terms |-> tou[r]]}
  /\ Finish(r, TRUE)
  /\ UNCHANGED <<amphora, rules, terms, termsOwner, purchases>>

------------------------------------------------------------------------------
(* PurchaseService and AmphoraFileService *)

HasAgreedToTerms(u) ==
  \/ amphora.terms = NoTerms
  \/ OrgOf[u] = amphora.owner
  \/ HasAccepted(OrgOf[u], amphora.terms)

CheckPurchase(r, u) ==
  /\ pc[r] = "idle" /\ Exists
  /\ OrgOf[u] # NoOrg /\ OrgOf[u] # amphora.owner
  /\ HasAgreedToTerms(u)
  /\ ~HasPurchased(OrgOf[u])
  /\ IsAuthorized(u, Level.Purchase)
  /\ Begin(r, u, rule[r], amphora.terms, "buy")
  /\ UNCHANGED db

Purchase(r) ==
  /\ pc[r] = "buy"
  /\ purchases' = purchases \cup {[by |-> r, org |-> OrgOf[user[r]], terms |-> tou[r]]}
  /\ Finish(r, TRUE)
  /\ UNCHANGED <<amphora, rules, terms, termsOwner, accepted>>

ReadFile(r, u) ==
  /\ pc[r] = "idle" /\ Exists
  /\ IsAuthorized(u, Level.ReadContents)
  /\ Begin(r, u, rule[r], tou[r], "served")
  /\ UNCHANGED db

------------------------------------------------------------------------------
(* The specification *)

NewRules(r) ==
  [id : {r}, target : Targets, kind : {"Allow", "Deny"}, priority : Priorities]

\* There may be an Amphora with terms, or without, when the story begins.
Init ==
  /\ amphora \in {NoAmphora} \cup
       {[owner |-> OrgOf[u], creator |-> u, isPublic |-> b, terms |-> t] :
          u \in {v \in Users : OrgOf[v] # NoOrg}, b \in BOOLEAN,
          t \in GlobalTerms \cup {NoTerms}}
  /\ rules = {} /\ accepted = {} /\ purchases = {}
  /\ terms = GlobalTerms
  /\ termsOwner = [t \in Terms |-> NoOrg]
  /\ pc = [r \in Requests |-> "idle"]
  /\ user = [r \in Requests |-> NoOrg]
  /\ rule = [r \in Requests |-> NoRule(r)]
  /\ tou = [r \in Requests |-> NoTerms]
  /\ copy = [r \in Requests |-> [rules |-> {}, accepted |-> {}]]

Step(r) ==
  \/ \E u \in Users, t \in Terms \cup {NoTerms} :
       \/ CheckCreate(r, u, t) \/ CheckUpdate(r, u, t)
  \/ \E u \in Users, x \in NewRules(r) : CheckCreateRule(r, u, x)
  \/ \E u \in Users, x \in rules : CheckDeleteRule(r, u, x)
  \/ \E u \in Users, global \in BOOLEAN : CreateTerms(r, u, global)
  \/ \E u \in Users, t \in Terms : CheckDeleteTerms(r, u, t) \/ CheckAccept(r, u, t)
  \/ \E u \in Users : CheckPurchase(r, u) \/ ReadFile(r, u)
  \/ \E isPublic \in BOOLEAN : CreateAmphora(r, isPublic)
  \/ UpdateAmphora(r) \/ CreateRule(r) \/ DeleteRule(r) \/ DeleteTerms(r)
  \/ Accept(r) \/ Purchase(r)

Next == \E r \in Requests : Step(r)

Spec == Init /\ [][Next]_vars

------------------------------------------------------------------------------
(* Properties *)

Rules == [id : Requests, target : Users \cup Orgs \cup {All}, kind : {"Allow", "Deny"},
          priority : Int]
Acceptances == [by : Requests, org : Orgs, terms : Terms]
Labels == {"idle", "create", "update", "add", "remove", "drop", "accept", "buy",
           "served", "done", "failed"}

\* Type correctness; an Amphora that exists has an owner and a creator.
TypeOK ==
  /\ amphora \in [owner : Orgs, creator : Users, isPublic : BOOLEAN,
                  terms : Terms \cup {NoTerms}] \cup {NoAmphora}
  /\ rules \subseteq Rules
  /\ terms \subseteq Terms
  /\ termsOwner \in [Terms -> Orgs \cup {NoOrg}]
  /\ accepted \subseteq Acceptances
  /\ purchases \subseteq [by : Requests, org : Orgs, terms : Terms \cup {NoTerms}]
  /\ pc \in [Requests -> Labels]
  /\ user \in [Requests -> Users \cup {NoOrg}]
  /\ rule \in [Requests -> Rules]
  /\ tou \in [Requests -> Terms \cup {NoTerms}]
  /\ copy \in [Requests -> [rules : SUBSET Rules, accepted : SUBSET Acceptances]]

\* The terms an Amphora refers to exist, so that they can be accepted and the
\* Amphora bought: whoever deletes them, and whoever takes them into use, at
\* the same time (the count in TermsOfUseService.DeleteAsync is taken earlier,
\* UpdateAsync looks nothing up).
TermsAreThere == amphora.terms # NoTerms => amphora.terms \in terms

\* A rule that was saved applies until it is deleted; only the rule for all may
\* also give way to another one, and to the deletion of an earlier one.
RuleStays ==
  [][\A x \in rules \ rules' :
       \E r \in Requests :
         \/ pc[r] = "remove" /\ rule[r] = x
         \/ x.target = All /\ pc[r] \in {"add", "remove"} /\ rule[r].target = All]_vars

\* Contents are served to the members of the owner, to those whom a rule allows
\* that no rule of a higher priority overrides, and to those no rule is about
\* whose organisation has bought the Amphora under terms that it accepted.
Outranked(u, x) == \E y \in RulesFor(u) : y.priority > x.priority
Earned(u) ==
  \/ OrgOf[u] = amphora.owner \/ RoleIn[amphora.owner][u] # "none"
  \/ \E x \in RulesFor(u) : x.kind = "Allow" /\ ~Outranked(u, x)
  \/ /\ RulesFor(u) = {}
     /\ \E p \in purchases : /\ p.org = OrgOf[u]
                             /\ p.terms = NoTerms \/ HasAccepted(p.org, p.terms)
ContentsAreEarned ==
  [][\A r \in Requests : pc[r] # "served" /\ pc'[r] = "served" => Earned(user'[r])]_vars

\* Who has a level has every lower one: the pages take it for granted
\* (AmphoraDetailPageModel asks for the highest first and then for no other).
LevelsAreOrdered ==
  Exists => \A u \in Users :
    LET granted == {level \in Levels : IsAuthorized(u, level)}
    IN  \A high \in granted : {low \in Levels : low < high} \subseteq granted
==============================================================================

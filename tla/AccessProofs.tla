---------------------------- MODULE AccessProofs -----------------------------
(***************************************************************************)
(* What holds of Access for every set of requests, users, organisations,   *)
(* terms, rules and memberships.                                           *)
(***************************************************************************)
EXTENDS Access, TLAPS

\* The levels are what they are.
LEMMA LevelValues ==
  /\ Level.Read = 16 /\ Level.Purchase = 24 /\ Level.ReadContents = 32
  /\ Level.CreateEntities = 48 /\ Level.WriteContents = 64
  /\ Level.Update = 128 /\ Level.Administer = 256
BY DEF Level

------------------------------------------------------------------------------
(* Types *)

\* What a request keeps for its save is of the right type.
Local ==
  /\ pc \in [Requests -> Labels]
  /\ user \in [Requests -> Users \cup {NoOrg}]
  /\ rule \in [Requests -> Rules]
  /\ tou \in [Requests -> Terms \cup {NoTerms}]
  /\ copy \in [Requests -> [rules : SUBSET Rules, accepted : SUBSET Acceptances]]

\* A request that begins keeps the types,
LEMMA BeginTyped ==
  ASSUME TypeOK, NEW r \in Requests, NEW u \in Users, NEW x \in Rules,
         NEW t \in Terms \cup {NoTerms}, NEW label \in Labels,
         Begin(r, u, x, t, label)
  PROVE  Local'
<1>1. [rules |-> rules, accepted |-> accepted]
        \in [rules : SUBSET Rules, accepted : SUBSET Acceptances]
  BY DEF TypeOK
<1> QED BY <1>1 DEF Begin, Goto, Local, TypeOK

\* and so does one that ends.
LEMMA FinishTyped ==
  ASSUME TypeOK, NEW r \in Requests, NEW saved, Finish(r, saved)
  PROVE  Local'
BY DEF Finish, Goto, Local, TypeOK, Labels

\* Only a request that was not refused has anything to save: it has a user, and
\* an organisation, an Amphora and terms where its save needs them.
Named == \A r \in Requests :
  /\ pc[r] \in {"create", "update", "add", "remove", "drop", "accept", "buy"} =>
       user[r] \in Users
  /\ pc[r] \in {"create", "accept", "buy"} => OrgOf[user[r]] \in Orgs
  /\ pc[r] = "update" => Exists
  /\ pc[r] = "accept" => tou[r] \in Terms

TypeInv == TypeOK /\ Named

\* An Amphora that exists has an owner.
LEMMA Owned == TypeOK => (Exists <=> amphora.owner \in Orgs)
BY AccessAssumption DEF TypeOK, Exists, NoAmphora

\* The types hold at the start
LEMMA TypeInit == Init => TypeInv
<1> SUFFICES ASSUME Init PROVE TypeInv
  OBVIOUS
<1> USE DEF Init
<1>1. amphora \in [owner : Orgs, creator : Users, isPublic : BOOLEAN,
                   terms : Terms \cup {NoTerms}] \cup {NoAmphora}
  BY AccessAssumption DEF Terms
<1>2. rule \in [Requests -> Rules]
  BY DEF NoRule, Rules
<1> QED BY <1>1, <1>2 DEF TypeInv, TypeOK, Named, Labels, Terms

\* and after each step.
LEMMA TypeStep == TypeInv /\ [Next]_vars => TypeInv'
<1> SUFFICES ASSUME TypeInv, [Next]_vars PROVE TypeInv'
  OBVIOUS
<1> USE DEF TypeInv
<1>0. CASE UNCHANGED vars
  BY <1>0 DEF vars, db, TypeOK, Named, Exists
<1>u. TypeOK
  OBVIOUS
<1> SUFFICES ASSUME NEW r \in Requests, Step(r) PROVE TypeInv'
  BY <1>0 DEF Next
<1> DEFINE AmphoraTyped ==
      amphora \in [owner : Orgs, creator : Users, isPublic : BOOLEAN,
                   terms : Terms \cup {NoTerms}] \cup {NoAmphora}
<1>begin. ASSUME NEW u \in Users, NEW x \in Rules, NEW t \in Terms \cup {NoTerms},
                 NEW label \in Labels, Begin(r, u, x, t, label),
                 label \in {"create", "accept", "buy"} => OrgOf[u] \in Orgs,
                 label = "update" => Exists, label = "accept" => t \in Terms,
                 amphora' = amphora
          PROVE  Local' /\ Named'
  <2>1. Local'
    BY <1>begin, BeginTyped
  <2>2. Named'
    BY <1>begin DEF Begin, Goto, Named, TypeOK, Exists, NoAmphora
  <2> QED BY <2>1, <2>2
<1>finish. ASSUME NEW saved, Finish(r, saved), Exists => Exists'
           PROVE  Local' /\ Named'
  <2>1. Local'
    BY <1>finish, FinishTyped
  <2>2. Named'
    BY <1>finish DEF Finish, Goto, Named, TypeOK
  <2> QED BY <2>1, <2>2
<1>kept. rule[r] \in Rules /\ tou[r] \in Terms \cup {NoTerms}
  BY DEF TypeOK
<1>labels. {"create", "update", "add", "remove", "drop", "accept", "buy", "served",
            "done", "failed"} \subseteq Labels
  BY DEF Labels
<1>org. \A u \in Users : OrgOf[u] # NoOrg => OrgOf[u] \in Orgs
  BY AccessAssumption
<1>1. ASSUME NEW u \in Users, NEW t \in Terms \cup {NoTerms}, CheckCreate(r, u, t)
      PROVE  TypeInv'
  <2>1. Local' /\ Named'
    BY <1>1, <1>begin, <1>kept, <1>labels, <1>org DEF CheckCreate, db
  <2> QED BY <1>1, <2>1 DEF CheckCreate, db, TypeOK, Local
<1>2. ASSUME NEW u \in Users, NEW t \in Terms \cup {NoTerms}, CheckUpdate(r, u, t)
      PROVE  TypeInv'
  <2>1. Local' /\ Named'
    BY <1>2, <1>begin, <1>kept, <1>labels DEF CheckUpdate, db
  <2> QED BY <1>2, <2>1 DEF CheckUpdate, db, TypeOK, Local
<1>3. ASSUME NEW u \in Users, NEW x \in NewRules(r), CheckCreateRule(r, u, x)
      PROVE  TypeInv'
  <2>1. x \in Rules
    BY AccessAssumption DEF NewRules, Rules
  <2>2. Local' /\ Named'
    BY <1>3, <2>1, <1>begin, <1>kept, <1>labels DEF CheckCreateRule, db
  <2> QED BY <1>3, <2>2 DEF CheckCreateRule, db, TypeOK, Local
<1>4. ASSUME NEW u \in Users, NEW x \in rules, CheckDeleteRule(r, u, x)
      PROVE  TypeInv'
  <2>1. x \in Rules
    BY DEF TypeOK
  <2>2. Local' /\ Named'
    BY <1>4, <2>1, <1>begin, <1>kept, <1>labels DEF CheckDeleteRule, db
  <2> QED BY <1>4, <2>2 DEF CheckDeleteRule, db, TypeOK, Local
<1>5. ASSUME NEW u \in Users, NEW global \in BOOLEAN, CreateTerms(r, u, global)
      PROVE  TypeInv'
  <2>1. r \in Terms /\ OrgOf[u] \in Orgs \cup {NoOrg}
    BY AccessAssumption DEF Terms
  <2>2. Local' /\ Named'
    BY <1>5, <2>1, <1>begin, <1>kept, <1>labels DEF CreateTerms
  <2>3. terms' \subseteq Terms /\ termsOwner' \in [Terms -> Orgs \cup {NoOrg}]
    BY <1>5, <2>1 DEF CreateTerms, TypeOK
  <2> QED BY <1>5, <2>2, <2>3 DEF CreateTerms, TypeOK, Local
<1>6. ASSUME NEW u \in Users, NEW t \in Terms, CheckDeleteTerms(r, u, t)
      PROVE  TypeInv'
  <2>1. Local' /\ Named'
    BY <1>6, <1>begin, <1>kept, <1>labels DEF CheckDeleteTerms, db
  <2> QED BY <1>6, <2>1 DEF CheckDeleteTerms, db, TypeOK, Local
<1>7. ASSUME NEW u \in Users, NEW t \in Terms, CheckAccept(r, u, t)
      PROVE  TypeInv'
  <2>1. Local' /\ Named'
    BY <1>7, <1>begin, <1>kept, <1>labels, <1>org DEF CheckAccept, db
  <2> QED BY <1>7, <2>1 DEF CheckAccept, db, TypeOK, Local
<1>8. ASSUME NEW u \in Users, CheckPurchase(r, u)
      PROVE  TypeInv'
  <2>1. amphora.terms \in Terms \cup {NoTerms}
    BY DEF TypeOK, NoAmphora
  <2>2. Local' /\ Named'
    BY <1>8, <2>1, <1>begin, <1>kept, <1>labels, <1>org DEF CheckPurchase, db
  <2> QED BY <1>8, <2>2 DEF CheckPurchase, db, TypeOK, Local
<1>9. ASSUME NEW u \in Users, ReadFile(r, u)
      PROVE  TypeInv'
  <2>1. Local' /\ Named'
    BY <1>9, <1>begin, <1>kept, <1>labels DEF ReadFile, db
  <2> QED BY <1>9, <2>1 DEF ReadFile, db, TypeOK, Local
<1>10. ASSUME NEW isPublic \in BOOLEAN, CreateAmphora(r, isPublic)
       PROVE  TypeInv'
  <2>1. Local' /\ Named'
    BY <1>10, <1>finish DEF CreateAmphora, Exists, NoAmphora
  <2>2. AmphoraTyped'
    BY <1>10, <1>kept DEF CreateAmphora, Named, TypeOK
  <2> QED BY <1>10, <2>1, <2>2 DEF CreateAmphora, TypeOK, Local
<1>11. CASE UpdateAmphora(r)
  <2>0. amphora # NoAmphora
    BY <1>11 DEF UpdateAmphora, Named, Exists
  <2>2. AmphoraTyped'
    BY <1>11, <1>kept, <2>0 DEF UpdateAmphora, TypeOK
  <2>4. amphora.owner \in Orgs /\ amphora'.owner = amphora.owner
    BY <1>11, <2>0 DEF UpdateAmphora, TypeOK
  <2>3. Exists => Exists'
    BY <2>4, AccessAssumption DEF Exists, NoAmphora
  <2>1. Local' /\ Named'
    BY <1>11, <1>finish, <2>3 DEF UpdateAmphora
  <2> QED BY <1>11, <2>1, <2>2 DEF UpdateAmphora, TypeOK, Local
<1>12. CASE CreateRule(r)
  <2>1. Local' /\ Named'
    BY <1>12, <1>finish DEF CreateRule, Exists, NoAmphora
  <2>2. Base(r) \subseteq Rules
    BY DEF Base, TypeOK
  <2>3. rules' \subseteq Rules
    BY <1>12, <1>kept, <2>2 DEF CreateRule, WithoutAll
  <2> QED BY <1>12, <2>1, <2>3 DEF CreateRule, TypeOK, Local
<1>13. CASE DeleteRule(r)
  <2>1. Local' /\ Named'
    BY <1>13, <1>finish DEF DeleteRule, Exists, NoAmphora
  <2>2. Base(r) \subseteq Rules
    BY DEF Base, TypeOK
  <2>3. rules' \subseteq Rules
    BY <1>13, <2>2 DEF DeleteRule, WithoutAll, TypeOK
  <2> QED BY <1>13, <2>1, <2>3 DEF DeleteRule, TypeOK, Local
<1>14. CASE DeleteTerms(r)
  <2>1. Local' /\ Named'
    BY <1>14, <1>finish DEF DeleteTerms, Exists, NoAmphora
  <2> QED BY <1>14, <2>1 DEF DeleteTerms, TypeOK, Local
<1>15. CASE Accept(r)
  <2>1. Local' /\ Named'
    BY <1>15, <1>finish DEF Accept, Exists, NoAmphora
  <2>2. [by |-> r, org |-> OrgOf[user[r]], terms |-> tou[r]] \in Acceptances
    BY <1>15 DEF Accept, Named, Acceptances
  <2>3. copy[r].accepted \subseteq Acceptances /\ accepted \subseteq Acceptances
    BY DEF TypeOK
  <2>4. accepted' \subseteq Acceptances
    BY <1>15, <2>2, <2>3 DEF Accept
  <2> QED BY <1>15, <2>1, <2>4 DEF Accept, TypeOK, Local
<1>16. CASE Purchase(r)
  <2>1. Local' /\ Named'
    BY <1>16, <1>finish DEF Purchase, Exists, NoAmphora
  <2>2. purchases' \subseteq [by : Requests, org : Orgs, terms : Terms \cup {NoTerms}]
    BY <1>16, <1>kept DEF Purchase, Named, TypeOK
  <2> QED BY <1>16, <2>1, <2>2 DEF Purchase, TypeOK, Local
<1> QED
  BY <1>1, <1>2, <1>3, <1>4, <1>5, <1>6, <1>7, <1>8, <1>9, <1>10, <1>11, <1>12,
     <1>13, <1>14, <1>15, <1>16 DEF Step

\* Every reachable state is of the type TypeOK states.
THEOREM TypeCorrect == Spec => []TypeOK
<1>1. TypeInv => TypeOK
  BY DEF TypeInv
<1> QED BY <1>1, TypeInit, TypeStep, PTL DEF Spec

------------------------------------------------------------------------------
(* Steps *)

\* The steps that change the database.
LEMMA Saves ==
  ASSUME [Next]_vars
  PROVE  \/ UNCHANGED db
         \/ \E r \in Requests, isPublic \in BOOLEAN : CreateAmphora(r, isPublic)
         \/ \E r \in Requests, u \in Users, global \in BOOLEAN : CreateTerms(r, u, global)
         \/ \E r \in Requests : \/ UpdateAmphora(r) \/ CreateRule(r) \/ DeleteRule(r)
                               \/ DeleteTerms(r) \/ Accept(r) \/ Purchase(r)
<1>1. CASE UNCHANGED vars
  BY <1>1 DEF vars
<1>2. \A r \in Requests, u \in Users : \A x, t :
        \/ CheckCreate(r, u, t) \/ CheckUpdate(r, u, t) \/ CheckCreateRule(r, u, x)
        \/ CheckDeleteRule(r, u, x) \/ CheckDeleteTerms(r, u, t) \/ CheckAccept(r, u, t)
        \/ CheckPurchase(r, u) \/ ReadFile(r, u)
        => UNCHANGED db
  BY DEF CheckCreate, CheckUpdate, CheckCreateRule, CheckDeleteRule, CheckDeleteTerms,
         CheckAccept, CheckPurchase, ReadFile
<1>3. ASSUME NEW r \in Requests, Step(r)
      PROVE  \/ \E u \in Users : \E x, t :
                  \/ CheckCreate(r, u, t) \/ CheckUpdate(r, u, t) \/ CheckCreateRule(r, u, x)
                  \/ CheckDeleteRule(r, u, x) \/ CheckDeleteTerms(r, u, t)
                  \/ CheckAccept(r, u, t) \/ CheckPurchase(r, u) \/ ReadFile(r, u)
             \/ \E isPublic \in BOOLEAN : CreateAmphora(r, isPublic)
             \/ \E u \in Users, global \in BOOLEAN : CreateTerms(r, u, global)
             \/ UpdateAmphora(r) \/ CreateRule(r) \/ DeleteRule(r)
             \/ DeleteTerms(r) \/ Accept(r) \/ Purchase(r)
  BY <1>3, ZenonT(30) DEF Step
<1> QED BY <1>1, <1>2, <1>3 DEF Next

------------------------------------------------------------------------------
(* The decision *)

\* What a role is worth is a number.
LEMMA RoleLevels ==
  ASSUME TypeOK, Exists, NEW u \in Users
  PROVE  /\ RoleIn[amphora.owner][u] \in {"none", "user", "admin"}
         /\ RoleLevel[RoleIn[amphora.owner][u]] \in {0, 48, 256}
         /\ RoleLevel[RoleIn[amphora.owner][u]] # 0 => RoleIn[amphora.owner][u] # "none"
<1>1. amphora.owner \in Orgs
  BY Owned
<1>2. RoleIn[amphora.owner][u] \in {"none", "user", "admin"}
  BY <1>1, AccessAssumption
<1> QED BY <1>2, LevelValues DEF RoleLevel

\* Who has a level has every lower one, whatever the rules and purchases are.
LEMMA Ordered == TypeOK => LevelsAreOrdered
<1> SUFFICES ASSUME TypeOK, Exists, NEW u \in Users, NEW high \in Levels, NEW low \in Levels,
                    low < high, IsAuthorized(u, high)
             PROVE  IsAuthorized(u, low)
  BY DEF LevelsAreOrdered
<1> DEFINE role == RoleLevel[RoleIn[amphora.owner][u]]
<1>1. role \in Int /\ low \in Int /\ high \in Int /\ 16 <= low /\ (low = 16 \/ 24 <= low)
  BY RoleLevels DEF Levels
<1> HIDE DEF role
<1>2. CASE OrgOf[u] = amphora.owner /\ high <= Level.CreateEntities
  BY <1>1, <1>2, LevelValues DEF IsAuthorized
<1>3. CASE OrgOf[u] = amphora.owner /\ u = amphora.creator /\ high <= Level.Update
  BY <1>1, <1>3, LevelValues DEF IsAuthorized
<1>4. CASE IsMemberAuthorized(u, amphora.owner, high)
  <2>1. high <= 16 \/ role >= high
    BY <1>4, LevelValues DEF IsMemberAuthorized, role
  <2>2. low <= 16 \/ role >= low
    BY <1>1, <2>1
  <2> QED BY <2>2, LevelValues DEF IsMemberAuthorized, IsAuthorized, role
<1>5. CASE low = 16
  BY <1>5, LevelValues DEF IsMemberAuthorized, IsAuthorized
<1>6. CASE low # 16 /\ AccessModelApplies(u, high) /\ IsAllowed(u)
  <2>1. AccessModelApplies(u, low)
    BY <1>1, <1>6, LevelValues DEF AccessModelApplies
  <2> QED BY <1>6, <2>1 DEF IsAuthorized
<1>7. CASE low # 16 /\ ~AccessModelApplies(u, high) /\ high <= 32
  <2>1. RulesFor(u) = {}
    BY <1>1, <1>7, LevelValues DEF AccessModelApplies
  <2>2. ~AccessModelApplies(u, low) /\ ~IsAccessDenied(u, low)
    BY <2>1 DEF AccessModelApplies, IsAccessDenied, RulesFor
  <2>3. CASE high <= Level.ReadContents /\ HasPurchased(OrgOf[u])
    BY <1>1, <2>2, <2>3, LevelValues DEF IsAuthorized
  <2>4. CASE high <= Level.Purchase /\ amphora.isPublic /\ ~Throws(u)
    BY <1>1, <2>2, <2>4, LevelValues DEF IsAuthorized
  <2>5. \/ OrgOf[u] = amphora.owner /\ high <= Level.CreateEntities
        \/ OrgOf[u] = amphora.owner /\ u = amphora.creator /\ high <= Level.Update
        \/ IsMemberAuthorized(u, amphora.owner, high)
        \/ high <= Level.ReadContents /\ HasPurchased(OrgOf[u])
        \/ high <= Level.Purchase /\ amphora.isPublic /\ ~Throws(u)
    BY <1>7 DEF IsAuthorized
  <2> QED BY <2>3, <2>4, <2>5, <1>2, <1>3, <1>4
<1>8. \/ OrgOf[u] = amphora.owner /\ high <= Level.CreateEntities
      \/ OrgOf[u] = amphora.owner /\ u = amphora.creator /\ high <= Level.Update
      \/ IsMemberAuthorized(u, amphora.owner, high)
      \/ AccessModelApplies(u, high) /\ IsAllowed(u)
      \/ ~AccessModelApplies(u, high) /\ high <= 32
  BY <1>1, LevelValues DEF IsAuthorized
<1> QED BY <1>2, <1>3, <1>4, <1>5, <1>6, <1>7, <1>8

\* In every reachable state, who has a level has every lower one.
THEOREM LevelsOrdered == Spec => []LevelsAreOrdered
<1>1. TypeInv => LevelsAreOrdered
  BY Ordered DEF TypeInv
<1> QED BY <1>1, TypeInit, TypeStep, PTL DEF Spec

------------------------------------------------------------------------------
(* Terms of use *)

\* In Sql the terms an Amphora refers to exist: the database holds on to them.
THEOREM TermsStay ==
  ASSUME Provider = "Sql"
  PROVE  Spec => []TermsAreThere
<1>1. Init => TermsAreThere
  BY DEF Init, TermsAreThere, NoAmphora
<1>2. TypeInv /\ TermsAreThere /\ [Next]_vars => TermsAreThere'
  <2> SUFFICES ASSUME TypeInv, TermsAreThere, [Next]_vars
               PROVE  TermsAreThere'
    OBVIOUS
  <2> USE DEF TermsAreThere
  <2>1. CASE UNCHANGED <<amphora, terms>>
    BY <2>1
  <2>2. ASSUME NEW r \in Requests, NEW isPublic \in BOOLEAN, CreateAmphora(r, isPublic)
        PROVE  TermsAreThere'
    BY <2>2 DEF CreateAmphora, CanRefer
  <2>3. ASSUME NEW r \in Requests, UpdateAmphora(r)
        PROVE  TermsAreThere'
    <3>1. pc[r] = "update" /\ amphora # NoAmphora
      BY <2>3 DEF UpdateAmphora, TypeInv, Named, Exists
    <3>2. CanRefer(tou[r]) => amphora'.terms = tou[r]
      BY <2>3, <3>1 DEF UpdateAmphora, TypeInv, TypeOK
    <3> QED BY <2>3, <3>2 DEF UpdateAmphora, CanRefer
  <2>4. ASSUME NEW r \in Requests, NEW u \in Users, NEW global \in BOOLEAN,
               CreateTerms(r, u, global)
        PROVE  TermsAreThere'
    BY <2>4 DEF CreateTerms
  <2>5. ASSUME NEW r \in Requests, DeleteTerms(r)
        PROVE  TermsAreThere'
    BY <2>5 DEF DeleteTerms, CanDrop
  <2>6. \/ UNCHANGED <<amphora, terms>>
        \/ \E r \in Requests, isPublic \in BOOLEAN : CreateAmphora(r, isPublic)
        \/ \E r \in Requests, u \in Users, global \in BOOLEAN : CreateTerms(r, u, global)
        \/ \E r \in Requests : UpdateAmphora(r) \/ DeleteTerms(r)
    BY Saves DEF db, CreateRule, DeleteRule, Accept, Purchase
  <2> QED BY <2>1, <2>2, <2>3, <2>4, <2>5, <2>6
<1> QED BY <1>1, <1>2, TypeInit, TypeStep, PTL DEF Spec

------------------------------------------------------------------------------
(* Rules *)

\* In Sql a rule that was saved applies until it is deleted.
THEOREM RulesStay ==
  ASSUME Provider = "Sql"
  PROVE  Spec => RuleStays
<1> DEFINE Gone(x) == \E r \in Requests :
         \/ pc[r] = "remove" /\ rule[r] = x
         \/ x.target = All /\ pc[r] \in {"add", "remove"} /\ rule[r].target = All
<1>1. [Next]_vars => [\A x \in rules \ rules' : Gone(x)]_vars
  <2> SUFFICES ASSUME [Next]_vars, NEW x \in rules \ rules'
               PROVE  Gone(x)
    OBVIOUS
  <2>1. ASSUME NEW r \in Requests, CreateRule(r) PROVE Gone(x)
    BY <2>1 DEF CreateRule, Base, WithoutAll
  <2>2. ASSUME NEW r \in Requests, DeleteRule(r) PROVE Gone(x)
    BY <2>2 DEF DeleteRule, Base, WithoutAll
  <2>3. \/ rules' = rules
        \/ \E r \in Requests : CreateRule(r) \/ DeleteRule(r)
    BY Saves DEF db, CreateAmphora, CreateTerms, UpdateAmphora, DeleteTerms, Accept, Purchase
  <2> HIDE DEF Gone
  <2> QED BY <2>1, <2>2, <2>3
<1> QED BY <1>1, PTL DEF Spec, RuleStays

------------------------------------------------------------------------------
(* Contents *)

\* A purchase, made or about to be made, is of terms the organisation accepted.
AgreedInv ==
  /\ \A p \in purchases : p.terms = NoTerms \/ HasAccepted(p.org, p.terms)
  /\ \A r \in Requests : pc[r] = "buy" =>
       tou[r] = NoTerms \/ HasAccepted(OrgOf[user[r]], tou[r])

\* What is purchased was agreed to: at the start,
LEMMA AgreedInit == Init => AgreedInv
BY DEF Init, AgreedInv

\* In Sql an acceptance stays.
LEMMA AcceptedGrows == Provider = "Sql" /\ [Next]_vars => accepted \subseteq accepted'
<1> SUFFICES ASSUME Provider = "Sql", [Next]_vars PROVE accepted \subseteq accepted'
  OBVIOUS
<1>1. ASSUME NEW r \in Requests, Accept(r) PROVE accepted \subseteq accepted'
  BY <1>1 DEF Accept
<1>2. accepted' = accepted \/ \E r \in Requests : Accept(r)
  BY Saves DEF db, CreateAmphora, CreateTerms, UpdateAmphora, DeleteTerms, Purchase,
         CreateRule, DeleteRule
<1> QED BY <1>1, <1>2

\* A request goes on to its purchase in CheckPurchase only, and ends where it
\* began to save; a request that is not at work keeps what it has.
LEMMA Others ==
  ASSUME TypeOK, [Next]_vars, NEW q \in Requests
  PROVE  \/ pc'[q] = pc[q] /\ user'[q] = user[q] /\ tou'[q] = tou[q]
         \/ \E u \in Users : CheckPurchase(q, u)
         \/ \E u \in Users : ReadFile(q, u)
         \/ pc'[q] \notin {"buy", "served"}
<1>0. CASE UNCHANGED vars
  BY <1>0 DEF vars
<1> SUFFICES ASSUME NEW r \in Requests, Step(r)
             PROVE  \/ pc'[q] = pc[q] /\ user'[q] = user[q] /\ tou'[q] = tou[q]
                    \/ \E u \in Users : CheckPurchase(q, u)
                    \/ \E u \in Users : ReadFile(q, u)
                    \/ pc'[q] \notin {"buy", "served"}
  BY <1>0 DEF Next
<1>1. pc \in [Requests -> Labels] /\ user \in [Requests -> Users \cup {NoOrg}]
      /\ tou \in [Requests -> Terms \cup {NoTerms}]
  BY DEF TypeOK
<1>2. \/ \E u \in Users : CheckPurchase(r, u) \/ ReadFile(r, u)
      \/ \E u, x, t : \E label \in {"create", "update", "add", "remove", "drop", "accept", "done"} :
           Begin(r, u, x, t, label)
      \/ \E saved : Finish(r, saved)
  BY DEF Step, CheckCreate, CheckUpdate, CheckCreateRule, CheckDeleteRule, CreateTerms,
         CheckDeleteTerms, CheckAccept, CreateAmphora, UpdateAmphora, CreateRule,
         DeleteRule, DeleteTerms, Accept, Purchase
<1>3. CASE \E u \in Users : CheckPurchase(r, u) \/ ReadFile(r, u)
  BY <1>1, <1>3 DEF CheckPurchase, ReadFile, Begin, Goto
<1>4. CASE \E u, x, t : \E label \in {"create", "update", "add", "remove", "drop", "accept", "done"} :
             Begin(r, u, x, t, label)
  BY <1>1, <1>4 DEF Begin, Goto
<1>5. CASE \E saved : Finish(r, saved)
  BY <1>1, <1>5 DEF Finish, Goto
<1> QED BY <1>2, <1>3, <1>4, <1>5

\* and, in Sql, after each step.
LEMMA AgreedStep ==
  Provider = "Sql" /\ TypeInv /\ AgreedInv /\ [Next]_vars => AgreedInv'
<1> SUFFICES ASSUME Provider = "Sql", TypeInv, AgreedInv, [Next]_vars PROVE AgreedInv'
  OBVIOUS
<1>kept. \A o, t : HasAccepted(o, t) => \E a \in accepted' : a.org = o /\ a.terms = t
  BY AcceptedGrows DEF HasAccepted
<1> DEFINE Agreed(o, t) == t = NoTerms \/ \E a \in accepted' : a.org = o /\ a.terms = t
<1>1. ASSUME NEW p \in purchases' PROVE Agreed(p.org, p.terms)
  <2>1. CASE p \in purchases
    BY <2>1, <1>kept DEF AgreedInv
  <2>2. ASSUME NEW r \in Requests, Purchase(r), p \notin purchases
        PROVE  Agreed(p.org, p.terms)
    <3>1. p.org = OrgOf[user[r]] /\ p.terms = tou[r] /\ pc[r] = "buy"
      BY <1>1, <2>2 DEF Purchase
    <3> QED BY <3>1, <1>kept DEF AgreedInv
  <2>3. purchases' = purchases \/ \E r \in Requests : Purchase(r)
    BY Saves DEF db, CreateAmphora, CreateTerms, UpdateAmphora, DeleteTerms, Accept,
           CreateRule, DeleteRule
  <2> QED BY <1>1, <2>1, <2>2, <2>3
<1>2. ASSUME NEW q \in Requests, pc'[q] = "buy"
      PROVE  Agreed(OrgOf[user'[q]], tou'[q])
  <2>1. CASE pc'[q] = pc[q] /\ user'[q] = user[q] /\ tou'[q] = tou[q]
    BY <1>2, <2>1, <1>kept DEF AgreedInv
  <2>2. ASSUME NEW u \in Users, CheckPurchase(q, u)
        PROVE  Agreed(OrgOf[user'[q]], tou'[q])
    <3>1. user'[q] = u /\ tou'[q] = amphora.terms
      BY <2>2 DEF CheckPurchase, Begin, TypeInv, TypeOK
    <3>2. amphora.terms = NoTerms \/ HasAccepted(OrgOf[u], amphora.terms)
      BY <2>2 DEF CheckPurchase, HasAgreedToTerms
    <3> QED BY <3>1, <3>2, <1>kept
  <2>3. ASSUME NEW u \in Users, ReadFile(q, u) PROVE FALSE
    BY <1>2, <2>3 DEF ReadFile, Begin, Goto, TypeInv, TypeOK
  <2> QED BY <1>2, <2>1, <2>2, <2>3, Others DEF TypeInv
<1> QED BY <1>1, <1>2 DEF AgreedInv, HasAccepted

\* Who is authorized to read the contents has earned them.
LEMMA ReaderHasEarned ==
  ASSUME TypeOK, AgreedInv, Exists, NEW u \in Users, IsAuthorized(u, Level.ReadContents)
  PROVE  Earned(u)
<1>1. CASE OrgOf[u] = amphora.owner
  BY <1>1 DEF Earned
<1>2. CASE IsMemberAuthorized(u, amphora.owner, Level.ReadContents)
  <2>1. RoleLevel[RoleIn[amphora.owner][u]] # 0
    BY <1>2, LevelValues, RoleLevels DEF IsMemberAuthorized
  <2> QED BY <2>1, RoleLevels DEF Earned
<1>3. CASE IsAllowed(u)
  <2>1. PICK x \in RulesToApply(u) : x.kind = "Allow"
    BY <1>3 DEF IsAllowed
  <2>2. x \in RulesFor(u) /\ \A y \in RulesFor(u) : y.priority <= x.priority
    BY <2>1 DEF RulesToApply
  <2>3. \A y \in RulesFor(u) : y.priority \in Int
    BY DEF RulesFor, TypeOK, Rules
  <2>4. ~Outranked(u, x)
    BY <2>2, <2>3 DEF Outranked
  <2> QED BY <2>1, <2>2, <2>4 DEF Earned
<1>4. CASE ~AccessModelApplies(u, Level.ReadContents) /\ HasPurchased(OrgOf[u])
  <2>1. RulesFor(u) = {}
    BY <1>4, LevelValues DEF AccessModelApplies
  <2>2. PICK p \in purchases : p.org = OrgOf[u]
    BY <1>4 DEF HasPurchased
  <2> QED BY <2>1, <2>2 DEF Earned, AgreedInv
<1> QED BY <1>1, <1>2, <1>3, <1>4, LevelValues DEF IsAuthorized

\* In Sql contents are served only to those who have earned them.
THEOREM ContentsEarned ==
  ASSUME Provider = "Sql"
  PROVE  Spec => ContentsAreEarned
<1> DEFINE Served == \A r \in Requests :
      pc[r] # "served" /\ pc'[r] = "served" => Earned(user'[r])
<1>1. TypeInv /\ AgreedInv /\ [Next]_vars => [Served]_vars
  <2> SUFFICES ASSUME TypeInv, AgreedInv, [Next]_vars, NEW r \in Requests,
                      pc[r] # "served", pc'[r] = "served"
               PROVE  Earned(user'[r])
    OBVIOUS
  <2>1. ASSUME NEW u \in Users, CheckPurchase(r, u) PROVE FALSE
    BY <2>1 DEF CheckPurchase, Begin, Goto, TypeInv, TypeOK
  <2>2. PICK u \in Users : ReadFile(r, u)
    BY <2>1, Others DEF TypeInv
  <2>3. user'[r] = u
    BY <2>2 DEF ReadFile, Begin, TypeInv, TypeOK
  <2> QED BY <2>2, <2>3, ReaderHasEarned DEF ReadFile, TypeInv
<1>2. TypeInv /\ AgreedInv /\ [Next]_vars => TypeInv' /\ AgreedInv'
  BY TypeStep, AgreedStep
<1> QED BY <1>1, <1>2, TypeInit, AgreedInit, PTL DEF Spec, ContentsAreEarned
==============================================================================

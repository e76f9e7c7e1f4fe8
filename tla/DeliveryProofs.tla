---------------------------- MODULE DeliveryProofs ---------------------------
(***************************************************************************)
(* Theorems about Delivery, for any plans, agents, images and bounds.      *)
(***************************************************************************)
EXTENDS Delivery, TLAPS

------------------------------------------------------------------------------
(* What is written waits for every access policy *)

\* A resource that does not bypass the agents' policies.
WaitsForPolicies(x) == IsWrite(x.make) => AccessPolicies \subseteq x.needs

\* A secret stored in the vault waits for the policies.
LEMMA StoredWaits ==
  ASSUME NEW name, NEW from
  PROVE  WaitsForPolicies(StoreInVault(name, from))
  BY DEF WaitsForPolicies, StoreInVault, R

\* What is not a secret, a key or a certificate.
LEMMA UnwrittenWaits ==
  ASSUME NEW make, NEW needs, make[1] \notin {"secret", "dataprotectionkey", "identityCert"}
  PROVE  WaitsForPolicies(R(make, needs))
  BY DEF WaitsForPolicies, IsWrite, R

\* What the State component stores waits for the policies.
LEMMA StateWaits == \A x \in StateResources : WaitsForPolicies(x)
  <1>1. \A x \in KeyVaultResources : WaitsForPolicies(x)
    <2>1. WaitsForPolicies(R(Vault, {Group("state")}))
      BY UnwrittenWaits DEF Vault
    <2>2. \A policy \in AccessPolicies : WaitsForPolicies(R(policy, {Vault}))
      BY UnwrittenWaits DEF AccessPolicies
    <2>3. WaitsForPolicies(R(<<"dataprotectionkey">>, {Vault} \cup AccessPolicies))
      BY DEF WaitsForPolicies, R
    <2>4. WaitsForPolicies(R(<<"identityCert">>, {Vault} \cup AccessPolicies))
      BY DEF WaitsForPolicies, R
    <2>. QED BY <2>1, <2>2, <2>3, <2>4 DEF KeyVaultResources
  <1>2. \A x \in StorageAccount : WaitsForPolicies(x)
    BY UnwrittenWaits DEF StorageAccount, Storage
  <1>3. \A x \in EventHubResources : WaitsForPolicies(x)
    BY UnwrittenWaits, StoredWaits DEF EventHubResources, EventHub
  <1>4. \A x \in CosmosResources : WaitsForPolicies(x)
    BY UnwrittenWaits, StoredWaits DEF CosmosResources, Cosmos
  <1>. QED
    BY <1>1, <1>2, <1>3, <1>4, UnwrittenWaits, StoredWaits DEF StateResources, Group

\* So does what every plan stores,
LEMMA PlanWaits ==
  ASSUME NEW p \in Plans
  PROVE  \A x \in CreatePlan(p) : WaitsForPolicies(x)
  <1>1. ASSUME NEW image \in Images, NEW x \in CreateApp(p, image)
        PROVE  WaitsForPolicies(x)
    BY <1>1, UnwrittenWaits DEF CreateApp, AccessPolicyKeyVault, AppSvc, Slot
  <1>. QED BY <1>1, UnwrittenWaits DEF CreatePlan, Plan

\* what the time series component stores,
LEMMA TsiWaits == \A x \in TsiResources : WaitsForPolicies(x)
  <1>1. \A x \in TsiPolicies : WaitsForPolicies(x)
    BY UnwrittenWaits DEF TsiPolicies
  <1>. QED
    BY <1>1, UnwrittenWaits, StoredWaits
    DEF TsiResources, TsiEnvironment, TsiEventSource, Group

\* the application's component,
LEMMA ApplicationWaits == \A x \in ApplicationResources : WaitsForPolicies(x)
  <1>1. \A x \in AcrResources : WaitsForPolicies(x)
    BY UnwrittenWaits DEF AcrResources, Registry
  <1>2. \A x \in AppSvcSecrets : WaitsForPolicies(x)
    BY StoredWaits DEF AppSvcSecrets
  <1>3. \A x \in AzureMapsResources : WaitsForPolicies(x)
    BY UnwrittenWaits, StoredWaits DEF AzureMapsResources, AzureMapsAccount
  <1>4. \A x \in SearchResources : WaitsForPolicies(x)
    BY UnwrittenWaits, StoredWaits DEF SearchResources, AzureSearchService
  <1>. QED
    BY <1>1, <1>2, <1>3, <1>4, PlanWaits, TsiWaits, UnwrittenWaits
    DEF ApplicationResources, Group

\* and the central stack.
LEMMA CentralWaits == \A x \in CentralResources : WaitsForPolicies(x)
  BY UnwrittenWaits DEF CentralResources, DnsBackup, GoogleDns, Group

\* Nothing in the program is written to the vault before its policies are there.
LEMMA WritesWait == \A x \in Program : WaitsForPolicies(x)
  <1>1. \A x \in MonitoringResources : WaitsForPolicies(x)
    BY UnwrittenWaits DEF MonitoringResources, Group, Topic
  <1>2. \A x \in NetworkResources : WaitsForPolicies(x)
    BY UnwrittenWaits DEF NetworkResources, Group
  <1>3. \A x \in BusinessResources : WaitsForPolicies(x)
    BY UnwrittenWaits DEF BusinessResources, Group
  <1>. QED
    BY <1>1, <1>2, <1>3, StateWaits, ApplicationWaits, CentralWaits DEF Program

\* A step of the deployment keeps that no write is refused.
LEMMA WriteStep == NoWriteIsRefused /\ [DeploymentNext]_deploymentVars => NoWriteIsRefused'
  <1> SUFFICES ASSUME NoWriteIsRefused, [DeploymentNext]_deploymentVars
               PROVE  NoWriteIsRefused'
    OBVIOUS
  <1>1. ASSUME NEW x \in Program, Create(x) PROVE NoWriteIsRefused'
    <2>1. ~Denied(x)
      BY <1>1, WritesWait DEF Create, Denied, WaitsForPolicies, AgentsMayWrite
    <2>. QED BY <1>1, <2>1 DEF Create, NoWriteIsRefused
  <1>2. CASE Finish \/ Fail \/ Again \/ Starts
    BY <1>2 DEF Finish, Fail, Again, Starts, Start, NoWriteIsRefused
  <1>3. CASE UNCHANGED deploymentVars
    BY <1>3 DEF deploymentVars, NoWriteIsRefused
  <1>. QED BY <1>1, <1>2, <1>3 DEF DeploymentNext, EngineSteps

------------------------------------------------------------------------------
(* The issuer waits for its webhook, and updates keep serving *)

ClusterInv ==
  /\ part \in Parts
  /\ hangs \in Nat
  /\ IssuerFindsItsWebhook

\* The kinds of objects of a stack in the cluster; the issuer needs the webhook.
LEMMA StackObjects ==
  ASSUME part \in Parts, NEW x \in Stack
  PROVE  /\ x.object \in {"definitions", "webhook", "issuer", "deployment", "service", "ingress"}
         /\ x.object = "issuer" => "webhook" \in x.needs
  <1>1. CASE x \in Certificates
    BY <1>1 DEF Certificates, Made
  <1>2. CASE x \in Followed.objects
    BY <1>2 DEF Followed, FrontEnd, AmphoraApi, Identity, Component, Made, Parts
  <1>. QED BY <1>1, <1>2 DEF Stack

\* A step of the cluster keeps its invariant.
LEMMA ClusterStep == ClusterInv /\ [ClusterNext]_clusterVars => ClusterInv'
  <1> SUFFICES ASSUME ClusterInv, [ClusterNext]_clusterVars
               PROVE  ClusterInv'
    OBVIOUS
  <1>1. ASSUME NEW x \in Stack, Apply(x) PROVE ClusterInv'
    <2>1. x.object = "issuer" => "webhook" \in objects
      BY <1>1, StackObjects DEF Apply, IsFinished, ClusterInv
    <2>2. "webhook" \notin Refusal(x.object)
      BY <2>1 DEF Refusal, Namespace
    <2>. QED
      BY <1>1, <2>2 DEF Apply, ClusterInv, IssuerFindsItsWebhook, program
  <1>2. CASE Begin \/ TimeOut \/ Complete
    BY <1>2 DEF Begin, TimeOut, Complete, ClusterInv, IssuerFindsItsWebhook, program
  <1>3. CASE Kubelet \/ Hang \/ MakeElsewhere
    BY <1>3 DEF Kubelet, ComesUp, Restart, Issue, Hang, MakeElsewhere, ClusterInv,
                IssuerFindsItsWebhook, program
  <1>4. CASE UNCHANGED clusterVars
    BY <1>4 DEF clusterVars, ClusterInv, IssuerFindsItsWebhook, program
  <1>. QED BY <1>1, <1>2, <1>3, <1>4 DEF ClusterNext, Engine

\* What serves goes on serving, unless the update hangs.
LEMMA ServingStep ==
  ASSUME ClusterInv, [ClusterNext]_clusterVars, Served
  PROVE  Served' \/ hangs' # hangs
  <1>1. ASSUME NEW x \in Stack, Apply(x) PROVE Served'
    BY <1>1 DEF Apply, Served, Answers, pods
  <1>2. CASE Begin \/ TimeOut \/ Complete \/ MakeElsewhere
    BY <1>2 DEF Begin, TimeOut, Complete, MakeElsewhere, Served, Answers, pods
  <1>3. CASE Kubelet
    BY <1>3 DEF Kubelet, ComesUp, Restart, Issue, Served, Answers, pods
  <1>4. CASE Hang
    BY <1>4 DEF Hang, ClusterInv
  <1>5. CASE UNCHANGED clusterVars
    BY <1>5 DEF clusterVars, pods, Served, Answers
  <1>. QED BY <1>1, <1>2, <1>3, <1>4, <1>5 DEF ClusterNext, Engine

------------------------------------------------------------------------------
(* The instances of delivery *)

DeliveryInv == NoWriteIsRefused /\ ClusterInv

\* The invariant holds at the start,
LEMMA InitDelivery == Init => DeliveryInv
  <1>1. (DeploymentInit \/ DeploymentOff) => NoWriteIsRefused
    BY DEF DeploymentInit, DeploymentOff, NoWriteIsRefused
  <1>2. (ClusterInit \/ ClusterOff) => ClusterInv
    BY DEF ClusterInit, ClusterOff, ClusterStart, ClusterInv, Parts, IssuerFindsItsWebhook
  <1>. QED BY <1>1, <1>2 DEF Init, DeliveryInv

\* Each step is one of the deployment or one of the cluster.
LEMMA StepsApart ==
  [Next]_vars => [DeploymentNext]_deploymentVars /\ [ClusterNext]_clusterVars
  BY DEF Next, vars

\* and always.
LEMMA DeliveryInvariant == DeliverySpec => []DeliveryInv
  <1>1. DeliveryInv /\ [Next]_vars => DeliveryInv'
    BY StepsApart, WriteStep, ClusterStep DEF DeliveryInv
  <1>. QED BY InitDelivery, <1>1, PTL DEF DeliverySpec

\* The vault and the cluster refuse nothing an update sends, whatever plans and
\* agents there are and wherever earlier updates stopped (state.ts, certificates.ts).
THEOREM WritesAreAccepted == DeliverySpec => []NothingIsRefused
  <1>1. DeliveryInv => NothingIsRefused
    BY DEF DeliveryInv, ClusterInv, NothingIsRefused
  <1>. QED BY <1>1, DeliveryInvariant, PTL

\* A part that is served stays so through every update, whatever its image and
\* wherever it stops; only a pod that hangs takes it away (frontEnd.ts).
THEOREM ServingStays == DeliverySpec => UpdatesKeepServing
  <1>1. DeliveryInv /\ [Next]_vars => [Served => Served' \/ hangs' # hangs]_clusterVars
    BY StepsApart, ServingStep DEF DeliveryInv
  <1>. QED BY <1>1, DeliveryInvariant, PTL DEF DeliverySpec, UpdatesKeepServing
==============================================================================

----------------------------- MODULE Deployment ------------------------------
(***************************************************************************)
(* The deployment of the system (src/infra, src/central): the resources of *)
(* the program Pulumi runs, what each waits for, an update that is         *)
(* interrupted and run again, and the containers that start while it runs. *)
(*                                                                         *)
(* A resource waits for those whose outputs are among its arguments, for   *)
(* its parent and for those in dependsOn.  The engine, which is external,  *)
(* creates in any order what no longer waits, keeps what it has created    *)
(* when an update fails, and goes on from there in the next update.        *)
(*                                                                         *)
(* A resource is a tuple: what it is, and what of.  Those with the same    *)
(* fate are one: the secrets of one account, the databases of another.  An *)
(* instance follows one resource, with all it waits for: the creation of   *)
(* another has no part in that, and its failure is a failure of the update.*)
(***************************************************************************)
EXTENDS Naturals

CONSTANTS
  Identities,       \* auth:ids: the agents that deploy, by name
  AppIdentities,    \* those with an appId
  Plans,            \* apps:plans
  StandardPlans,    \* those of the tier "Standard", which have staging slots
  MaxFailures       \* bound on the updates that fail

\* The name of an app is the first three letters of its plan and of its image.
ASSUME DeploymentAssumption ==
  /\ AppIdentities \subseteq Identities
  /\ StandardPlans \subseteq Plans
  /\ MaxFailures \in Nat

VARIABLES
  asked,      \* the resources followed
  created,    \* those that are there
  update,     \* "running", "failed" or "done"
  failures,   \* the updates that failed, other than by a refused write
  refused,    \* whether the vault refused a write
  running     \* the apps and slots whose container has read the vault

deploymentVars == <<asked, created, update, failures, refused, running>>

R(make, needs) == [make |-> make, needs |-> needs]

Group(of) == <<"resourceGroup", of>>
Vault == <<"vault">>
Topic == <<"appTopic">>
Cosmos == <<"cosmosDb">>
EventHub == <<"eventHub">>
Storage == <<"storage">>
Registry == <<"acr">>
Plan(p) == <<"plan", p>>
AppSvc(p, image) == <<"app", p, image>>
Slot(p, image) == <<"slot", p, image>>

------------------------------------------------------------------------------
(* Monitoring, network and business *)

MonitoringResources ==
  {R(Group("monitor"), {}),
   R(<<"logAnalytics">>, {Group("monitor")}),
   R(<<"appInsights">>, {Group("monitor")}),
   R(Topic, {Group("monitor")})}

NetworkResources ==
  {R(Group("network"), {}), R(<<"dnsZone">>, {Group("network")})}

BusinessResources ==
  {R(Group("business"), {}),
   R(<<"appMonitor">>, {Group("business")}),
   R(<<"workflowTrigger">>, {<<"appMonitor">>})}

------------------------------------------------------------------------------
(* State *)

\* kvAccessPolicies: two for an identity with an appId, one for another.
AccessPolicies ==
  {<<"appPolicy", i>> : i \in AppIdentities} \cup {<<"objectPolicy", i>> : i \in Identities}

\* storeInVault: the vault, the value, and every access policy first.
StoreInVault(name, from) == R(<<"secret", name>>, {Vault} \cup from \cup AccessPolicies)

\* (mutant of KeyVaultResources)
KeyVaultResourcesAtOnce ==
  {R(Vault, {Group("state")})}
  \cup {R(policy, {Vault}) : policy \in AccessPolicies}
  \cup {R(<<"dataprotectionkey">>, {Vault} \cup AccessPolicies),
        R(<<"identityCert">>, {Vault})}
KeyVaultResources ==
  {R(Vault, {Group("state")})}
  \cup {R(policy, {Vault}) : policy \in AccessPolicies}
  \cup {R(<<"dataprotectionkey">>, {Vault} \cup AccessPolicies),
        R(<<"identityCert">>, {Vault} \cup AccessPolicies)}

StorageAccount == {R(Storage, {Group("state")})}

EventHubResources ==
  {R(<<"amphoradhns">>, {Group("state")}),
   R(EventHub, {<<"amphoradhns">>, Group("state")}),
   R(<<"ehAuthRule">>, {EventHub, <<"amphoradhns">>, Group("state")}),
   StoreInVault("TsiEventHubConnectionString", {<<"ehAuthRule">>}),
   StoreInVault("TsiEventHubName", {EventHub})}

CosmosResources ==
  {R(Cosmos, {Group("state")}),
   R(<<"db_name_prefix">>, {Cosmos}),
   R(<<"cosmosSql_A">>, {Cosmos, Group("state")}),
   StoreInVault("cosmosAccount", {Cosmos}),
   StoreInVault("cosmosSqlDb", {<<"cosmosSql_A">>}),
   StoreInVault("SendGridApiKey", {})}

StateResources ==
  {R(Group("state"), {}),
   StoreInVault("StorageAccount", {Storage}),
   StoreInVault("gitHubToken", {}),
   StoreInVault("appTopic", {Topic})}
  \cup KeyVaultResources \cup StorageAccount \cup EventHubResources \cup CosmosResources

------------------------------------------------------------------------------
(* The applications *)

Images == {"webapp", "identity"}

AppSvcSecrets == {StoreInVault("jwtToken", {}), StoreInVault("MvcClientSecret", {})}

\* appSettings: the instrumentation key, the registry's password, the vault's address.
AppSettings == {<<"appInsights">>, Registry, Vault}

\* accessPolicyKeyVault: the policy is for the identity of the app, which the
\* app has once it is there, and its parent is the component AppSvc, which
\* waits for the policies of the agents; nothing waits for this one.
AccessPolicyKeyVault(app) == R(<<"accessPolicy", app>>, {Vault, app} \cup AccessPolicies)

\* (mutant of CreateApp)
CreateAppAccessToApp(p, image) ==
  {R(AppSvc(p, image), {Plan(p), Group("app")} \cup AppSettings),
   AccessPolicyKeyVault(AppSvc(p, image))}
  \cup IF p \in StandardPlans
       THEN {R(Slot(p, image), {AppSvc(p, image), Plan(p), Group("app")} \cup AppSettings)}
       ELSE {}
\* The access policies of the deploying agents are no part of what an app
\* waits for: its parent is the plan, not the component that waits for them.
CreateApp(p, image) ==
  {R(AppSvc(p, image), {Plan(p), Group("app")} \cup AppSettings),
   AccessPolicyKeyVault(AppSvc(p, image))}
  \cup IF p \in StandardPlans
       THEN {R(Slot(p, image), {AppSvc(p, image), Plan(p), Group("app")} \cup AppSettings),
             AccessPolicyKeyVault(Slot(p, image))}
       ELSE {}

CreatePlan(p) ==
  {R(Plan(p), {Group("app")})} \cup (UNION {CreateApp(p, image) : image \in Images})

AcrResources == {R(Registry, {Group("app")})}

AzureMapsAccount == {R(<<"maps">>, {Group("app")})}

AzureMapsResources == AzureMapsAccount \cup {StoreInVault("AzureMaps", {<<"maps">>})}

AzureSearchService == {R(<<"search">>, {Group("search")})}

SearchResources == AzureSearchService \cup {StoreInVault("AzureSearch", {<<"search">>})}

------------------------------------------------------------------------------
(* Time series insights *)

\* The main apps, their slots, and the deploying agents may read.
TsiReaders ==
  {AppSvc(p, "webapp") : p \in Plans} \cup {Slot(p, "webapp") : p \in StandardPlans}

TsiPolicies ==
  {R(<<"tsiAccess", app>>, {app, <<"env_name">>, <<"eventSource">>, Group("tsi")})
     : app \in TsiReaders}
  \cup {R(<<"tsiAgentAccess", i>>, {<<"env_name">>, <<"eventSource">>, Group("tsi")})
          : i \in Identities}

\* The template lists the keys of the storage account.
TsiEnvironment == R(<<"environment">>, {<<"env_name">>, Storage, Group("tsi")})

\* (mutant of TsiEventSource)
TsiEventSourceLast ==
  R(<<"eventSource">>,
    {<<"environment">>, EventHub, Group("tsi")} \cup {<<"tsiAgentAccess", i>> : i \in Identities})
TsiEventSource ==
  R(<<"eventSource">>,
    {<<"environment">>, <<"env_name">>, EventHub, <<"amphoradhns">>, Group("tsi")})

TsiResources ==
  {R(Group("tsi"), {}), R(<<"env_name">>, {}), TsiEnvironment, TsiEventSource,
   StoreInVault("TsiDataAccessFqdn", {<<"environment">>})}
  \cup TsiPolicies

ApplicationResources ==
  {R(Group("app"), {}), R(Group("search"), {})}
  \cup AcrResources \cup AppSvcSecrets \cup (UNION {CreatePlan(p) : p \in Plans})
  \cup AzureMapsResources \cup TsiResources \cup SearchResources

------------------------------------------------------------------------------
(* The zone amphoradata.com, a stack of its own *)

GoogleDns == {R(<<"googleMx">>, {Group("central"), <<"centralDnsZone">>})}

DnsBackup ==
  {R(<<"outlookTxtRecord">>, {Group("central"), <<"centralDnsZone">>}),
   R(<<"githubChallenge">>, {Group("central"), <<"centralDnsZone">>})} \cup GoogleDns

CentralResources ==
  {R(Group("central"), {}), R(<<"centralDnsZone">>, {Group("central")})} \cup DnsBackup

------------------------------------------------------------------------------
(* The engine *)

Program ==
  MonitoringResources \cup NetworkResources \cup StateResources
  \cup ApplicationResources \cup BusinessResources \cup CentralResources

Resources == {x.make : x \in Program}

Containers == {AppSvc(p, i) : p \in Plans, i \in Images}
              \cup {Slot(p, i) : p \in StandardPlans, i \in Images}

\* What x waits for, and what a container needs to run.
Needed(x) == x.needs \cup (IF x.make \in Containers THEN {<<"accessPolicy", x.make>>} ELSE {})

\* One resource with all that is needed, in n steps; no chain is longer than Depth.
Depth == 9
StandsOn(r) ==
  LET Below(S) == S \cup UNION {Needed(x) : x \in {y \in Program : y.make \in S}}
      upTo[n \in 0 .. Depth] == IF n = 0 THEN {r} ELSE Below(upTo[n - 1])
  IN  upTo[Depth] \cap Resources

\* The vault takes writes from those with an access policy: the agent that
\* deploys is one of the identities.
IsWrite(r) == r[1] \in {"secret", "dataprotectionkey", "identityCert"}

AgentsMayWrite == AccessPolicies \subseteq created

\* The vault refuses what an agent without its policy writes, and the update fails.
Denied(x) == IsWrite(x.make) /\ ~AgentsMayWrite

Create(x) ==
  /\ update = "running"
  /\ x.make \in asked \ created
  /\ x.needs \subseteq created
  /\ created' = IF Denied(x) THEN created ELSE created \cup {x.make}
  /\ refused' = (refused \/ Denied(x))
  /\ update' = IF Denied(x) THEN "failed" ELSE update
  /\ UNCHANGED <<asked, failures, running>>

\* A resource fails, followed or not, or the agent is stopped.
Fail ==
  /\ update = "running"
  /\ failures < MaxFailures
  /\ update' = "failed"
  /\ failures' = failures + 1
  /\ UNCHANGED <<asked, created, refused, running>>

Finish ==
  /\ update = "running"
  /\ asked \subseteq created
  /\ update' = "done"
  /\ UNCHANGED <<asked, created, failures, refused, running>>

Again ==
  /\ update = "failed"
  /\ update' = "running"
  /\ UNCHANGED <<asked, created, failures, refused, running>>

\* The platform starts the container of an app or a slot that is there, and
\* starts it again whenever it ends: it ends as long as it may not read the vault.
Start(app) ==
  /\ app \in created \ running
  /\ <<"accessPolicy", app>> \in created
  /\ running' = running \cup {app}
  /\ UNCHANGED <<asked, created, update, failures, refused>>

DeploymentInit ==
  /\ \E r \in Resources : asked = StandsOn(r)
  /\ created = {}
  /\ update = "running"
  /\ failures = 0
  /\ refused = FALSE
  /\ running = {}

\* No infrastructure is followed.
DeploymentOff ==
  /\ asked = {} /\ created = {} /\ running = {}
  /\ update = "done"
  /\ failures = MaxFailures
  /\ refused = FALSE

EngineSteps == (\E x \in Program : Create(x)) \/ Finish

Starts == \E app \in Containers : Start(app)

DeploymentNext == EngineSteps \/ Fail \/ Again \/ Starts

\* An update creates what it can, and the platform starts containers; nobody
\* need run an update again.
DeploymentFairness == WF_deploymentVars(EngineSteps) /\ WF_deploymentVars(Starts)

DeploymentSpec == DeploymentInit /\ [][DeploymentNext]_deploymentVars /\ DeploymentFairness

------------------------------------------------------------------------------
(* What the deployment promises *)

\* No secret, key or certificate is written before every agent that deploys
\* has its access to the vault, wherever an earlier update stopped.
NoWriteIsRefused == ~refused

\* An update fails or creates all: no resource waits, in the end, for one that
\* waits for it.
UpdateEnds == (update = "running") ~> (update = "failed" \/ update = "done")

\* When an update is done, every app and every staging slot comes to run.
AppsRun == (update = "done") ~> (asked \cap Containers \subseteq running)

\* Every update ends, and one that is done has every app come to run.
ComesToRun == UpdateEnds /\ AppsRun
==============================================================================

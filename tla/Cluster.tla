------------------------------- MODULE Cluster -------------------------------
(***************************************************************************)
(* The programs that put the system into a Kubernetes cluster (src/k8s):   *)
(* the certificate manager, and for each part of the system a deployment,  *)
(* a service and an ingress; updates that bring another image, fail, and   *)
(* are run again; pods that become ready, hang and are started again.      *)
(*                                                                         *)
(* Outside src/k8s, and here what the environment may do: the cluster and  *)
(* the output of the infra stack that names it, and the namespace and the  *)
(* config maps that other stacks make.  The pods of one deployment and     *)
(* image are one.  An instance follows one part: the parts share nothing   *)
(* but the certificate manager.                                            *)
(***************************************************************************)
EXTENDS Naturals

CONSTANTS
  Releases,        \* images a part may be told to run
  GoodReleases,    \* those whose container comes to answer at /healthz
  MaxHangs,        \* bound on the pods that hang
  MaxUpdates       \* bound on the updates

ASSUME ClusterAssumption ==
  /\ GoodReleases \subseteq Releases
  /\ MaxHangs \in Nat /\ MaxUpdates \in Nat

VARIABLES
  part,        \* the part followed
  known,       \* the objects of the certificate manager that dependsOn finds
  elsewhere,   \* what other stacks have made
  objects,     \* the objects in the cluster
  release,     \* the image of this update
  runs,        \* the image the deployment is to run
  ready,       \* the images with a pod that came to be ready
  hung,        \* whether that pod hangs
  secret,      \* whether the TLS secret is issued
  upping,      \* "none", "running", "failed" or "done"
  updates,     \* updates begun
  hangs,       \* pods that hung
  refusals     \* why the cluster refused an object

clusterVars == <<part, known, elsewhere, objects, release, runs, ready, hung, secret,
                 upping, updates, hangs, refusals>>
program == <<part, known>>
pods == <<ready, hung>>

------------------------------------------------------------------------------
(* The program *)

Made(object, needs) == [object |-> object, needs |-> needs]

\* (mutant of Certificates)
CertificatesByFile ==
  {Made(object, {}) : object \in {"definitions", "webhook"}} \cup {Made("issuer", known)}
\* The issuer waits for what is known of cert-manager.yaml when the program
\* reads it, and by name for the webhook.
Certificates ==
  {Made(object, {}) : object \in {"definitions", "webhook"}}
  \cup {Made("issuer", known \cup {"webhook"})}

Component(configMap) ==
  [objects |-> {Made(kind, known) : kind \in {"deployment", "service", "ingress"}},
   reads |-> configMap]

\* Each depends on the certificates; the API reads the config map of the front end.
FrontEnd == Component("amphora-frontend-config")
AmphoraApi == Component("amphora-frontend-config")
Identity == Component("amphora-identity-config")

Parts == {"frontend1", "api", "identity1"}

Followed == CASE part = "frontend1" -> FrontEnd
              [] part = "api"       -> AmphoraApi
              [] part = "identity1" -> Identity

Stack == Certificates \cup Followed.objects

Namespace == "amphora"
InfraOutput == "k8s"
MadeElsewhere == {Namespace, InfraOutput, "amphora-frontend-config", "amphora-identity-config"}

------------------------------------------------------------------------------
(* The cluster and the engine *)

Answers == ready # {} /\ ~hung

\* The engine waits until a deployment has a pod of its image that is ready, a
\* service an endpoint, and an ingress its service.
IsFinished(object) ==
  /\ object \in objects
  /\ object = "deployment" => runs \in ready
  /\ object = "service"    => Answers
  /\ object = "ingress"    => "service" \in objects

\* An object that is not there is created, a deployment of another image updated.
Pending(object) == object \notin objects \/ (object = "deployment" /\ runs # release)

\* What the cluster refuses: an issuer before its webhook or its definition is
\* there, and what has no namespace.
Refusal(object) ==
  IF object = "issuer" THEN {"webhook", "definitions"} \ objects
  ELSE IF object \in {"definitions", "webhook"} THEN {}
  ELSE {Namespace} \ elsewhere

\* A pipeline runs an update with an image; without the output of the infra
\* stack that names the cluster the update ends at once.
Begin ==
  /\ upping # "running"
  /\ updates < MaxUpdates
  /\ release' \in Releases
  /\ upping' = IF InfraOutput \in elsewhere THEN "running" ELSE "failed"
  /\ updates' = updates + 1
  /\ UNCHANGED <<program, elsewhere, objects, runs, pods, secret, hangs, refusals>>

Apply(x) ==
  /\ upping = "running"
  /\ Pending(x.object)
  /\ \A need \in x.needs : IsFinished(need)
  /\ refusals' = refusals \cup Refusal(x.object)
  /\ IF Refusal(x.object) # {}
     THEN upping' = "failed" /\ UNCHANGED <<objects, runs>>
     ELSE /\ objects' = objects \cup {x.object}
          /\ runs' = IF x.object = "deployment" THEN release ELSE runs
          /\ UNCHANGED upping
  /\ UNCHANGED <<program, elsewhere, release, pods, secret, updates, hangs>>

\* What is waited for does not come to be ready in time.
TimeOut ==
  /\ upping = "running"
  /\ \E x \in Stack : ~Pending(x.object) /\ ~IsFinished(x.object)
  /\ upping' = "failed"
  /\ UNCHANGED <<program, elsewhere, objects, release, runs, pods, secret, updates, hangs, refusals>>

Complete ==
  /\ upping = "running"
  /\ \A x \in Stack : ~Pending(x.object) /\ IsFinished(x.object)
  /\ upping' = "done"
  /\ UNCHANGED <<program, elsewhere, objects, release, runs, pods, secret, updates, hangs, refusals>>

\* (mutant of ComesUp)
ComesUpUnprobed ==
  /\ "deployment" \in objects
  /\ Followed.reads \in elsewhere
  /\ runs \notin ready
  /\ ready' = {runs}
  /\ hung' = (runs \notin GoodReleases)
  /\ UNCHANGED <<program, elsewhere, objects, release, runs, secret, upping, updates, hangs, refusals>>
\* A pod whose container answers the readiness probe takes the place of the
\* pod of the image before; it needs its config map to start.
ComesUp ==
  /\ "deployment" \in objects
  /\ Followed.reads \in elsewhere
  /\ runs \in GoodReleases \ ready
  /\ ready' = {runs}
  /\ hung' = FALSE
  /\ UNCHANGED <<program, elsewhere, objects, release, runs, secret, upping, updates, hangs, refusals>>

\* A container stops answering: the readiness probe takes its pod out of the service.
Hang ==
  /\ Answers
  /\ hangs < MaxHangs
  /\ hung' = TRUE
  /\ hangs' = hangs + 1
  /\ UNCHANGED <<program, elsewhere, objects, release, runs, ready, secret, upping, updates, refusals>>

\* (mutant of Restart)
RestartOnUpdate ==
  /\ hung
  /\ upping = "running"
  /\ hung' = FALSE
  /\ UNCHANGED <<program, elsewhere, objects, release, runs, ready, secret, upping, updates, hangs, refusals>>
\* The liveness probe has a container that does not answer started again.
Restart ==
  /\ hung
  /\ hung' = FALSE
  /\ UNCHANGED <<program, elsewhere, objects, release, runs, ready, secret, upping, updates, hangs, refusals>>

\* The annotation of the ingress has the issuer issue the certificate of its host.
Issue ==
  /\ {"ingress", "issuer"} \subseteq objects
  /\ ~secret
  /\ secret' = TRUE
  /\ UNCHANGED <<program, elsewhere, objects, release, runs, pods, upping, updates, hangs, refusals>>

\* Another stack makes what it has not made; the infra stack of this commit
\* does not, and takes its output away.
MakeElsewhere ==
  /\ \/ \E thing \in MadeElsewhere \ elsewhere :
          thing # InfraOutput /\ elsewhere' = elsewhere \cup {thing}
     \/ InfraOutput \in elsewhere /\ elsewhere' = elsewhere \ {InfraOutput}
  /\ UNCHANGED <<program, objects, release, runs, pods, secret, upping, updates, hangs, refusals>>

ClusterStart(p, some, made) ==
  /\ part = p
  /\ known = some
  /\ elsewhere = made
  /\ objects = {}
  /\ release = CHOOSE i \in Releases : TRUE
  /\ runs = release
  /\ ready = {} /\ hung = FALSE
  /\ secret = FALSE
  /\ upping = "none"
  /\ hangs = 0
  /\ refusals = {}

\* What dependsOn finds of a file that is still being fetched is not said.
ClusterInit ==
  /\ \E p \in Parts, some \in SUBSET {"definitions", "webhook"}, missing \in MadeElsewhere :
       ClusterStart(p, some, MadeElsewhere \ {missing})
  /\ updates = 0

\* No cluster.
ClusterOff == ClusterStart("api", {}, MadeElsewhere \ {InfraOutput}) /\ updates = MaxUpdates

Engine == (\E x \in Stack : Apply(x)) \/ TimeOut \/ Complete
Kubelet == ComesUp \/ Restart \/ Issue

ClusterNext == Begin \/ Engine \/ Kubelet \/ Hang \/ MakeElsewhere

------------------------------------------------------------------------------
(* What the cluster promises *)

\* The issuer is never sent before the webhook that admits it, whatever
\* dependsOn finds of the manager's file (certificates.ts).
IssuerFindsItsWebhook == "webhook" \notin refusals

\* Whether a request for the host of the part is answered, over TLS.
Served == {"ingress", "service"} \subseteq objects /\ Answers /\ secret

\* Once a part is served no update takes it from its users, one whose image
\* never answers, or that fails half way, included; only a pod that hangs does.
UpdatesKeepServing == [][Served => Served' \/ hangs' # hangs]_clusterVars

\* Every update ends, and when one is done the part comes to be served, though
\* its pod may hang in between.
ClusterComesToServe ==
  /\ (upping = "running") ~> (upping # "running")
  /\ (upping = "done") ~> Served
==============================================================================

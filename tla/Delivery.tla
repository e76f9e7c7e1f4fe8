------------------------------- MODULE Delivery ------------------------------
(***************************************************************************)
(* The programs that bring the system to where it runs: an instance is an  *)
(* update of the infrastructure (Deployment), or updates of the cluster    *)
(* (Cluster).  The two share one thing, the infra stack's output that      *)
(* names a cluster, which Cluster has as what other stacks make.           *)
(***************************************************************************)
EXTENDS Deployment, Cluster

vars == <<deploymentVars, clusterVars>>

Init == (DeploymentInit /\ ClusterOff) \/ (DeploymentOff /\ ClusterInit)

Next == (DeploymentNext /\ UNCHANGED clusterVars) \/ (ClusterNext /\ UNCHANGED deploymentVars)

\* The engine of an update, the platforms that start containers and pods, go
\* on; nobody need run an update, or an update again.
Fairness ==
  /\ DeploymentFairness
  /\ WF_clusterVars(Engine)
  /\ WF_clusterVars(Kubelet)

DeliverySpec == Init /\ [][Next]_vars /\ Fairness

------------------------------------------------------------------------------
(* What delivery promises *)

\* Neither the vault (state.ts) nor the cluster's webhook (certificates.ts)
\* refuses what an update sends, wherever an earlier one stopped.
NothingIsRefused == NoWriteIsRefused /\ IssuerFindsItsWebhook

\* Every update of either ends, and after one that is done all that was asked
\* for comes to run: apps, staging slots, and a part served over TLS.
DeliveryComesToRun == ComesToRun /\ ClusterComesToServe
==============================================================================

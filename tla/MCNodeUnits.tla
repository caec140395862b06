----------------------------- MODULE MCNodeUnits -----------------------------
(* Two units that claim by different policies, and a deployment or a daemon.  *)
EXTENDS NodeUnits, TLC

CONSTANTS u1, u2, d1

MCUnit == {u1, u2}
MCDeployment == {d1}
MCTrusted == MCDeployment
MCPolicy == (u1 :> "deployment_count") @@ (u2 :> "resource_usage")
MCUsage == {0, 1}
=============================================================================

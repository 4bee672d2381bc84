----------------------------- MODULE MCApiProcess -----------------------------
(***************************************************************************)
(* What surrounds the lookups in an API process, on a small instance: the  *)
(* processes that share a database, and the rate limiter of one of them.   *)
(* The two share no variable and no property, so a behaviour of this       *)
(* specification is a behaviour of one of them: their product would only   *)
(* interleave them.                                                        *)
(***************************************************************************)
EXTENDS Deployment, RateLimiter

CONSTANTS s1, m1, c1, c2, x, y, z, i1, i2, r1, r2

VARIABLE part  \* which of the two the behaviour is about

vars == <<deploymentVars, limiterVars, part>>

\* An old build, its successor, and one whose first file has been edited.
TheBinaries == {<<x>>, <<x, y>>, <<z, y>>}

Init ==
    /\ part \in {"deployment", "limiter"}
    /\ DeploymentInit
    /\ LimiterInit

Next ==
    \/ part = "deployment" /\ DeploymentNext /\ UNCHANGED <<limiterVars, part>>
    \/ part = "limiter" /\ LimiterNext /\ UNCHANGED <<deploymentVars, part>>

Spec == Init /\ [][Next]_vars /\ DeploymentFairness
=============================================================================

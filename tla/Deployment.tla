------------------------------ MODULE Deployment ------------------------------
(***************************************************************************)
(* Processes that share one database: API servers and importers.  Each of  *)
(* them migrates the schema when it starts; a server then serves until it  *)
(* is told to stop, fails or is killed, and may be started again with      *)
(* another binary.                                                         *)
(***************************************************************************)
EXTENDS Migrations, Lifecycle

ASSUME ServersAssumption == Servers \subseteq Processes

deploymentVars == <<migrationVars, lifecycleVars>>

DeploymentInit == MigrationsInit /\ LifecycleInit

\* Without a signal handler (before Serve) or by SIGKILL, at any point.
Kill(p) ==
    /\ Die(p)
    /\ IF p \in Servers THEN Vanish(p) ELSE UNCHANGED lifecycleVars

\* NewRouter and the rest of run up to the listener need Migrate to succeed.
GoLive(s) ==
    /\ pc[s] = "migrated"
    /\ Serve(s)
    /\ UNCHANGED migrationVars

Stop(s) == Exit(s) /\ Leave(s)

\* An importer does its work (a transaction of its own) and ends.
Finish(p) ==
    /\ p \notin Servers
    /\ Leave(p)
    /\ UNCHANGED lifecycleVars

Start(p) ==
    /\ \/ \E b \in Binaries : Launch(p, b)
       \/ Lock(p) \/ LockFails(p) \/ MigrateStep(p) \/ Fail(p)
    /\ UNCHANGED lifecycleVars

DeploymentNext ==
    \/ \E p \in Processes : Start(p) \/ Finish(p) \/ Kill(p)
    \/ SessionEnds /\ UNCHANGED lifecycleVars
    \/ \E s \in Servers :
          \/ GoLive(s) \/ Stop(s)
          \/ ServerStep(s) /\ UNCHANGED migrationVars

DeploymentSpec == DeploymentInit /\ [][DeploymentNext]_deploymentVars

(***************************************************************************)
(* Statements return, PostgreSQL ends a session whose client is gone and   *)
(* grants a free lock to somebody who waits (its queue is fair), shutdown  *)
(* goes on and its timer fires.  Nothing obliges processes to start, to    *)
(* fail or to be stopped, or clients to come and handlers to return.       *)
(***************************************************************************)
DeploymentFairness ==
    /\ \A p \in Processes :
          /\ WF_deploymentVars(MigrateStep(p) /\ UNCHANGED lifecycleVars)
          /\ SF_deploymentVars(Lock(p) /\ UNCHANGED lifecycleVars)
    /\ WF_deploymentVars(SessionEnds /\ UNCHANGED lifecycleVars)
    /\ \A s \in Servers :
          WF_deploymentVars(Stop(s) \/ (ShutdownStep(s) /\ UNCHANGED migrationVars))
-----------------------------------------------------------------------------
DeploymentTypeOK == MigrationsTypeOK /\ LifecycleTypeOK

\* A server serves only a schema that begins with the files of its own binary,
\* in their order and exactly as it embeds them, whichever process and build
\* applied them; of a newer schema, what an older build does not know follows.
ServesMigrated ==
    \A s \in Servers : phase[s] # "down" =>
        \A v \in DOMAIN binary[s] :
            v \in DOMAIN schema /\ schema[v] = Migration(v, binary[s][v])
=============================================================================

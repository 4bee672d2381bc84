------------------------------- MODULE Lifecycle -------------------------------
(***************************************************************************)
(* The serving life of an API process (cmd/api, internal/handler/health):  *)
(* it listens, serves connections, and on SIGTERM cancels the context of   *)
(* every request, marks itself not ready, closes the listener and waits a  *)
(* bounded time for its connections before it closes the database.         *)
(* Readiness probes run meanwhile and set the same gauge.                  *)
(***************************************************************************)
CONSTANTS
    Servers,     \* API processes
    Connections  \* connections of one of them

VARIABLES
    phase,    \* phase[s]: where run of server s stands
    gauge,    \* gauge[s]: the readiness gauge
    conn,     \* conn[s][c]: what the goroutine of connection c is about to do
    overlap   \* history: a probe was under way when the signal came

lifecycleVars == <<phase, gauge, conn, overlap>>

Listening == {"serving", "signalled", "marked"}
Phases == {"down", "draining", "closing"} \cup Listening
Pinged == {"up", "unavailable"}
Activities == {"idle", "new", "lookup", "ping"} \cup Pinged

LifecycleInit ==
    /\ phase = [s \in Servers |-> "down"]
    /\ gauge = [s \in Servers |-> FALSE]
    /\ conn = [s \in Servers |-> [c \in Connections |-> "idle"]]
    /\ overlap = [s \in Servers |-> FALSE]

Enter(s, p) == phase' = [phase EXCEPT ![s] = p]
SetReady(s, ready) == gauge' = [gauge EXCEPT ![s] = ready]
Set(s, c, activity) == conn' = [conn EXCEPT ![s][c] = activity]
-----------------------------------------------------------------------------
(***************************************************************************)
(* Connections.  A slot is idle when no connection uses it or the one that *)
(* does is kept alive between requests.                                    *)
(***************************************************************************)
Accept(s, c) ==
    /\ phase[s] \in Listening
    /\ conn[s][c] = "idle"
    /\ Set(s, c, "new")
    /\ UNCHANGED <<phase, gauge, overlap>>

\* The client sends nothing: it goes away, or Shutdown drops a connection that
\* has been new for too long.
Drop(s, c) ==
    /\ conn[s][c] = "new"
    /\ Set(s, c, "idle")
    /\ UNCHANGED <<phase, gauge, overlap>>

ReadLookup(s, c) ==
    /\ conn[s][c] = "new"
    /\ Set(s, c, "lookup")
    /\ UNCHANGED <<phase, gauge, overlap>>

\* A lookup or stats request is answered.
Answer(s, c) ==
    /\ conn[s][c] = "lookup"
    /\ Set(s, c, "idle")
    /\ UNCHANGED <<phase, gauge, overlap>>

\* Ready pings with the request's context, a child of the signal context: a
\* ping that starts after the signal fails at once.
PingInBackground(s, c) ==
    /\ conn[s][c] = "new"
    /\ Set(s, c, "ping")
    /\ UNCHANGED <<phase, gauge, overlap>>

ReadProbe(s, c) ==
    /\ conn[s][c] = "new"
    /\ Set(s, c, IF phase[s] = "serving" THEN "ping" ELSE "unavailable")
    /\ UNCHANGED <<phase, gauge, overlap>>

Ping(s, c) ==
    /\ conn[s][c] = "ping"
    /\ \E result \in Pinged : Set(s, c, result)
    /\ UNCHANGED <<phase, gauge, overlap>>

\* Ready sets the gauge and answers.
Report(s, c) ==
    /\ conn[s][c] \in Pinged
    /\ SetReady(s, conn[s][c] = "up")
    /\ Set(s, c, "idle")
    /\ UNCHANGED <<phase, overlap>>
-----------------------------------------------------------------------------
(***************************************************************************)
(* run, once the database is migrated.                                     *)
(***************************************************************************)
Serve(s) ==
    /\ phase[s] = "down"
    /\ Enter(s, "serving")
    /\ SetReady(s, TRUE)
    /\ UNCHANGED <<conn, overlap>>

\* ListenAndServe fails before run has noticed a signal: no shutdown.
ServeFails(s) ==
    /\ phase[s] \in {"serving", "signalled"}
    /\ Enter(s, "closing")
    /\ UNCHANGED <<gauge, conn, overlap>>

Signal(s) ==
    /\ phase[s] = "serving"
    /\ Enter(s, "signalled")
    /\ overlap' = [overlap EXCEPT ![s] = \E c \in Connections : conn[s][c] \in {"ping", "up"}]
    /\ UNCHANGED <<gauge, conn>>

MarkNotReady(s) ==
    /\ phase[s] = "signalled"
    /\ Enter(s, "marked")
    /\ SetReady(s, FALSE)
    /\ UNCHANGED <<conn, overlap>>

\* server.Shutdown closes the listener, then waits ...
CloseListener(s) ==
    /\ phase[s] = "marked"
    /\ Enter(s, "draining")
    /\ UNCHANGED <<gauge, conn, overlap>>

DrainWithoutDeadline(s) ==
    /\ phase[s] = "draining"
    /\ \A c \in Connections : conn[s][c] = "idle"
    /\ Enter(s, "closing")
    /\ UNCHANGED <<gauge, conn, overlap>>

\* ... until no connection is in use, or HTTP_SHUTDOWN_TIMEOUT is over: then
\* run calls server.Close, and the handlers go on until the process ends.
ShutdownReturns(s) ==
    /\ phase[s] = "draining"
    /\ Enter(s, "closing")
    /\ UNCHANGED <<gauge, conn, overlap>>

\* The process is gone, and its handlers with it: after the deferred closes of
\* service and database, or because it was killed.
Vanish(s) ==
    /\ Enter(s, "down")
    /\ gauge' = [gauge EXCEPT ![s] = FALSE]
    /\ conn' = [conn EXCEPT ![s] = [c \in Connections |-> "idle"]]
    /\ overlap' = [overlap EXCEPT ![s] = FALSE]

Exit(s) ==
    /\ phase[s] = "closing"
    /\ Vanish(s)

ConnectionStep(s, c) ==
    \/ Accept(s, c) \/ Drop(s, c) \/ ReadLookup(s, c) \/ ReadProbe(s, c)
    \/ Answer(s, c) \/ Ping(s, c) \/ Report(s, c)

ShutdownStep(s) ==
    \/ MarkNotReady(s) \/ CloseListener(s) \/ ShutdownReturns(s)

ServerStep(s) ==
    \/ \E c \in Connections : ConnectionStep(s, c)
    \/ ServeFails(s) \/ Signal(s) \/ ShutdownStep(s)
-----------------------------------------------------------------------------
(***************************************************************************)
(* Properties.                                                             *)
(***************************************************************************)
LifecycleTypeOK ==
    /\ phase \in [Servers -> Phases]
    /\ gauge \in [Servers -> BOOLEAN]
    /\ conn \in [Servers -> [Connections -> Activities]]
    /\ overlap \in [Servers -> BOOLEAN]

\* From the moment shutdown marks the server not ready the gauge stays down,
\* unless a probe was already talking to the database when the signal came.
NotReadyInShutdown ==
    \A s \in Servers : phase[s] \in {"marked", "draining"} /\ gauge[s] => overlap[s]

\* A signal ends the process, whatever its connections do.
ShutdownEnds == \A s \in Servers : phase[s] = "signalled" ~> phase[s] = "down"
=============================================================================

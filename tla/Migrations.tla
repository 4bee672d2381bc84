------------------------------ MODULE Migrations ------------------------------
(***************************************************************************)
(* Schema migrations (internal/database): every process, server or         *)
(* importer, starts by applying the SQL files its binary embeds, each in a *)
(* transaction with its row in schema_migrations, under a session-level    *)
(* advisory lock.  Statements fail, processes die between any two of them, *)
(* the acknowledgement of COMMIT or of the unlock can be lost, and a       *)
(* session that nobody answers for keeps the lock until PostgreSQL ends it.*)
(***************************************************************************)
EXTENDS Integers, FiniteSets, Sequences

CONSTANTS
    Processes,  \* the processes that start, die and start again
    Contents,   \* what a migration file may contain (its checksum)
    Binaries    \* the builds in use: the contents of versions 1, 2, ...

ASSUME BinariesAssumption == Binaries \subseteq Seq(Contents)

VARIABLES
    pc,        \* pc[p]: the statement process p sends next
    binary,    \* binary[p]: the files embedded in what p runs
    at,        \* at[p]: the version applyMigration works on
    recorded,  \* the committed rows of schema_migrations
    schema,    \* the migrations in effect, in the order they took effect
    holders,   \* processes whose session holds the advisory lock
    ghost      \* a session without a process holds the advisory lock

migrationVars == <<pc, binary, at, recorded, schema, holders, ghost>>

InTransaction == {"apply", "record", "commit"}
Locked == {"prepare", "check"} \cup InTransaction
Places == {"down", "lock", "unlock", "abort", "migrated"} \cup Locked

Migration(version, content) == [version |-> version, content |-> content]

\* The file p works on.
Item(p) == Migration(at[p], binary[p][at[p]])

IsRecorded(version) == \E row \in recorded : row.version = version

MigrationsInit ==
    /\ pc = [p \in Processes |-> "down"]
    /\ binary = [p \in Processes |-> <<>>]
    /\ at = [p \in Processes |-> 1]
    /\ recorded = {}
    /\ schema = <<>>
    /\ holders = {}
    /\ ghost = FALSE

Goto(p, place) == pc' = [pc EXCEPT ![p] = place]

\* The loop over the ordered files: the next one, or done.
Turn(p, version) ==
    /\ at' = [at EXCEPT ![p] = version]
    /\ Goto(p, IF version <= Len(binary[p]) THEN "check" ELSE "unlock")
-----------------------------------------------------------------------------
(***************************************************************************)
(* The lock.                                                               *)
(***************************************************************************)
LockFree == holders = {} /\ ~ghost

\* A process starts, perhaps after an upgrade or a downgrade.
Launch(p, b) ==
    /\ pc[p] = "down"
    /\ binary' = [binary EXCEPT ![p] = b]
    /\ at' = [at EXCEPT ![p] = 1]
    /\ Goto(p, "lock")
    /\ UNCHANGED <<recorded, schema, holders, ghost>>

LockWithoutWaiting(p) ==
    /\ pc[p] = "lock"
    /\ holders' = holders \cup {p}
    /\ Goto(p, "prepare")
    /\ UNCHANGED <<binary, at, recorded, schema, ghost>>

Lock(p) ==
    /\ pc[p] = "lock"
    /\ LockFree
    /\ holders' = holders \cup {p}
    /\ Goto(p, "prepare")
    /\ UNCHANGED <<binary, at, recorded, schema, ghost>>

(***************************************************************************)
(* The session of p is left to the server.  It keeps the lock it has, and  *)
(* one that was waiting may be granted it before the server notices.       *)
(***************************************************************************)
Abandon(p) ==
    /\ \E granted \in BOOLEAN :
          ghost' = (ghost \/ p \in holders \/ (granted /\ pc[p] = "lock" /\ LockFree))
    /\ holders' = holders \ {p}

\* The wait fails (30 seconds for a server, a signal for an importer) and so
\* does the start; no unlock has been deferred yet.
LockFails(p) ==
    /\ pc[p] = "lock"
    /\ Abandon(p)
    /\ Goto(p, "down")
    /\ UNCHANGED <<binary, at, recorded, schema>>

SessionEnds ==
    /\ ghost
    /\ ghost' = FALSE
    /\ UNCHANGED <<pc, binary, at, recorded, schema, holders>>
-----------------------------------------------------------------------------
(***************************************************************************)
(* Under the lock: one transaction per file.                               *)
(***************************************************************************)
\* CREATE TABLE IF NOT EXISTS schema_migrations, loadMigrations: its versions
\* are positive, and its order is theirs.
PrepareFromZero(p) ==
    /\ pc[p] = "prepare"
    /\ Turn(p, 0)
    /\ UNCHANGED <<binary, recorded, schema, holders, ghost>>

PrepareUnsorted(p) ==
    /\ pc[p] = "prepare"
    /\ Turn(p, Len(binary[p]))
    /\ UNCHANGED <<binary, recorded, schema, holders, ghost>>

Prepare(p) ==
    /\ pc[p] = "prepare"
    /\ Turn(p, 1)
    /\ UNCHANGED <<binary, recorded, schema, holders, ghost>>

\* A recorded version is verified, and a changed file ends the start.
CheckPresenceOnly(p) ==
    /\ pc[p] = "check"
    /\ IF IsRecorded(at[p]) THEN Turn(p, at[p] + 1) ELSE Goto(p, "apply") /\ UNCHANGED at
    /\ UNCHANGED <<binary, recorded, schema, holders, ghost>>

Check(p) ==
    /\ pc[p] = "check"
    /\ \/ Item(p) \in recorded /\ Turn(p, at[p] + 1)
       \/ /\ Item(p) \notin recorded
          /\ Goto(p, IF IsRecorded(at[p]) THEN "abort" ELSE "apply")
          /\ UNCHANGED at
    /\ UNCHANGED <<binary, recorded, schema, holders, ghost>>

\* The statements of the file: nobody else sees what they do before COMMIT.
ApplyOutsideTransaction(p) ==
    /\ pc[p] = "apply"
    /\ schema' = Append(schema, Item(p))
    /\ Goto(p, "record")
    /\ UNCHANGED <<binary, at, recorded, holders, ghost>>

Apply(p) ==
    /\ pc[p] = "apply"
    /\ Goto(p, "record")
    /\ UNCHANGED <<binary, at, recorded, schema, holders, ghost>>

\* INSERT INTO schema_migrations: the version is its primary key.
Record(p) ==
    /\ pc[p] = "record"
    /\ Goto(p, IF IsRecorded(at[p]) THEN "abort" ELSE "commit")
    /\ UNCHANGED <<binary, at, recorded, schema, holders, ghost>>

\* COMMIT: the file's effects and its row become visible together.
TakeEffect(p) ==
    /\ schema' = Append(schema, Item(p))
    /\ recorded' = recorded \cup {Item(p)}

Commit(p) ==
    /\ pc[p] = "commit"
    /\ TakeEffect(p)
    /\ Turn(p, at[p] + 1)
    /\ UNCHANGED <<binary, holders, ghost>>

\* A statement fails or the start-up deadline passes; COMMIT may fail after
\* PostgreSQL has carried it out.
Fail(p) ==
    /\ pc[p] \in Locked
    /\ \/ UNCHANGED <<schema, recorded>>
       \/ pc[p] = "commit" /\ TakeEffect(p)
    /\ Goto(p, "abort")
    /\ UNCHANGED <<binary, at, holders, ghost>>

\* The deferred unlock.  Its error is ignored: the process goes on (or ends)
\* either way, and the driver gives up the connection.
UnlockElsewhere(p) ==
    /\ pc[p] \in {"unlock", "abort"}
    /\ Goto(p, IF pc[p] = "unlock" THEN "migrated" ELSE "down")
    /\ UNCHANGED <<binary, at, recorded, schema, holders, ghost>>

Unlock(p) ==
    /\ pc[p] \in {"unlock", "abort"}
    /\ \/ holders' = holders \ {p} /\ UNCHANGED ghost
       \/ Abandon(p)
    /\ Goto(p, IF pc[p] = "unlock" THEN "migrated" ELSE "down")
    /\ UNCHANGED <<binary, at, recorded, schema>>

\* The process dies; a COMMIT it has sent may still be carried out.
Die(p) ==
    /\ pc[p] # "down"
    /\ \/ UNCHANGED <<schema, recorded>>
       \/ pc[p] = "commit" /\ TakeEffect(p)
    /\ Abandon(p)
    /\ Goto(p, "down")
    /\ UNCHANGED <<binary, at>>

\* The process ends in good order after Migrate returned.
Leave(p) ==
    /\ pc[p] = "migrated"
    /\ Goto(p, "down")
    /\ UNCHANGED <<binary, at, recorded, schema, holders, ghost>>

MigrateStep(p) ==
    \/ Prepare(p) \/ Check(p) \/ Apply(p) \/ Record(p) \/ Commit(p) \/ Unlock(p)
-----------------------------------------------------------------------------
(***************************************************************************)
(* Properties.                                                             *)
(***************************************************************************)
MigrationsTypeOK ==
    /\ pc \in [Processes -> Places]
    /\ binary \in [Processes -> Seq(Contents)]
    /\ at \in [Processes -> Nat \ {0}]
    /\ recorded \subseteq [version : Nat \ {0}, content : Contents]
    /\ schema \in Seq([version : Nat \ {0}, content : Contents])
    /\ holders \subseteq Processes
    /\ ghost \in BOOLEAN

\* schema_migrations tells the truth: a file is recorded exactly when its
\* statements are in effect, although processes die between the two.
LogMatchesSchema == recorded = {schema[k] : k \in DOMAIN schema}

\* Concurrent starts do not fail because of each other: nobody executes the
\* file, or inserts the row, of a version that somebody else has committed.
StartsDoNotCollide ==
    \A p \in Processes : pc[p] \in InTransaction => ~IsRecorded(at[p])

\* Whatever starts, fails and dies, the schema grows by the next version only.
History == INSTANCE SchemaHistory
ImplementsSchemaHistory == History!Spec

\* A start ends, with the schema migrated or with an error: nobody waits for
\* ever for a lock whose holder has gone.
StartsEnd == \A p \in Processes : pc[p] = "lock" ~> pc[p] \in {"migrated", "down"}
=============================================================================

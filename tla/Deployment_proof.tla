--------------------------- MODULE Deployment_proof ---------------------------
(***************************************************************************)
(* Proofs about Deployment, for any processes, servers, connections and    *)
(* builds: migrations that start concurrently, fail and die keep the       *)
(* schema and its record together, and a server that shuts down reports    *)
(* not ready, but for a probe that the signal overtook.                    *)
(***************************************************************************)
EXTENDS Deployment, TLAPS

USE BinariesAssumption, ServersAssumption

(***************************************************************************)
(* The inductive invariant of the migrations: one session has the lock, it *)
(* works on the first version that is not in effect, and a process that    *)
(* has finished has every one of its files in effect.                      *)
(***************************************************************************)
Holding == Locked \cup {"unlock", "abort"}
Working == {"check"} \cup InTransaction
Done == {"unlock", "migrated"}

OneHolder ==
    /\ \A p \in Processes : p \in holders <=> pc[p] \in Holding
    /\ \A p, q \in holders : p = q
    /\ ghost => holders = {}

InOrder == \A k \in DOMAIN schema : schema[k].version = k

InEffect(p, v) == Migration(v, binary[p][v]) \in recorded

WorkInOrder ==
    \A p \in Processes : pc[p] \in Working =>
        /\ at[p] \in 1 .. Len(binary[p])
        /\ \A v \in 1 .. at[p] - 1 : InEffect(p, v)

DoneIsDone ==
    \A p \in Processes : pc[p] \in Done => \A v \in 1 .. Len(binary[p]) : InEffect(p, v)

MigrationsInv ==
    /\ MigrationsTypeOK
    /\ OneHolder
    /\ InOrder
    /\ LogMatchesSchema
    /\ StartsDoNotCollide
    /\ WorkInOrder
    /\ DoneIsDone

\* What a step of a deployment does to the variables of Migrations.
MigrationsStep(p) ==
    \/ \E b \in Binaries : Launch(p, b)
    \/ Lock(p) \/ LockFails(p) \/ MigrateStep(p) \/ Fail(p) \/ Die(p) \/ Leave(p)

MigrationsNext == SessionEnds \/ \E p \in Processes : MigrationsStep(p)

\* The places of a start and the sets of them.
LEMMA PlaceNames ==
    /\ Places = {"down", "lock", "unlock", "abort", "migrated", "prepare", "check",
                 "apply", "record", "commit"}
    /\ Locked = {"prepare", "check", "apply", "record", "commit"}
    /\ InTransaction = {"apply", "record", "commit"}
    /\ Holding = {"prepare", "check", "apply", "record", "commit", "unlock", "abort"}
    /\ Working = {"check", "apply", "record", "commit"}
    /\ Done = {"unlock", "migrated"}
  BY DEF Places, Locked, InTransaction, Holding, Working, Done

LEMMA StepProjection ==
    ASSUME DeploymentNext
    PROVE  MigrationsNext \/ UNCHANGED migrationVars
  BY DEF DeploymentNext, Start, Finish, Kill, GoLive, Stop, MigrationsNext, MigrationsStep

\* The files of a build.
LEMMA FileType ==
    ASSUME MigrationsTypeOK, NEW p \in Processes
    PROVE  /\ Len(binary[p]) \in Nat
           /\ DOMAIN binary[p] = 1 .. Len(binary[p])
           /\ \A v \in 1 .. Len(binary[p]) :
                 Migration(v, binary[p][v]) \in [version : Nat \ {0}, content : Contents]
<1>1. binary[p] \in Seq(Contents)
  BY DEF MigrationsTypeOK
<1> QED
  BY <1>1 DEF Migration

\* The versions in effect are 1, 2, ..., as many as the schema has.
LEMMA RecordedVersions ==
    ASSUME MigrationsInv, NEW v \in Nat \ {0}
    PROVE  IsRecorded(v) <=> v <= Len(schema)
<1> DEFINE Row == [version : Nat \ {0}, content : Contents]
<1>1. schema \in Seq(Row) /\ Len(schema) \in Nat /\ DOMAIN schema = 1 .. Len(schema)
  BY DEF MigrationsInv, MigrationsTypeOK
<1>2. ASSUME IsRecorded(v) PROVE v <= Len(schema)
  <2>1. PICK row \in recorded : row.version = v
    BY <1>2 DEF IsRecorded
  <2>2. PICK k \in DOMAIN schema : row = schema[k]
    BY <2>1 DEF MigrationsInv, LogMatchesSchema
  <2> QED
    BY <1>1, <2>1, <2>2 DEF MigrationsInv, InOrder
<1>3. ASSUME v <= Len(schema) PROVE IsRecorded(v)
  <2>1. v \in DOMAIN schema
    BY <1>1, <1>3
  <2>2. schema[v] \in recorded
    BY <2>1 DEF MigrationsInv, LogMatchesSchema
  <2> QED
    BY <2>1, <2>2 DEF MigrationsInv, InOrder, IsRecorded
<1> QED
  BY <1>2, <1>3

\* A transaction works on the version that follows those in effect.
LEMMA NextVersion ==
    ASSUME MigrationsInv, NEW p \in Processes, pc[p] \in InTransaction
    PROVE  at[p] = Len(schema) + 1
<1>1. at[p] \in Nat \ {0} /\ Len(schema) \in Nat
  BY DEF MigrationsInv, MigrationsTypeOK
<1>2. ~(at[p] <= Len(schema))
  BY <1>1, RecordedVersions DEF MigrationsInv, StartsDoNotCollide
<1>3. ASSUME Len(schema) + 1 < at[p] PROVE FALSE
  <2>1. InEffect(p, Len(schema) + 1)
    <3>1. Len(schema) + 1 \in 1 .. at[p] - 1
      BY <1>1, <1>3
    <3> QED
      BY <3>1, PlaceNames DEF MigrationsInv, WorkInOrder
  <2>2. IsRecorded(Len(schema) + 1)
    BY <2>1 DEF InEffect, IsRecorded, Migration
  <2> QED
    BY <1>1, <2>2, RecordedVersions
<1> QED
  BY <1>1, <1>2, <1>3

\* COMMIT carries out the next upgrade.
LEMMA EffectIsUpgrade ==
    ASSUME MigrationsInv, NEW p \in Processes, pc[p] = "commit", TakeEffect(p)
    PROVE  /\ schema' \in Seq([version : Nat \ {0}, content : Contents])
           /\ recorded' \subseteq [version : Nat \ {0}, content : Contents]
           /\ InOrder'
           /\ LogMatchesSchema'
           /\ recorded \subseteq recorded'
           /\ Item(p) \in recorded'
           /\ History!Next
<1> DEFINE Row == [version : Nat \ {0}, content : Contents]
<1>1. schema \in Seq(Row) /\ Len(schema) \in Nat /\ DOMAIN schema = 1 .. Len(schema)
  BY DEF MigrationsInv, MigrationsTypeOK
<1>2. at[p] = Len(schema) + 1
  BY NextVersion, PlaceNames
<1>3. at[p] \in 1 .. Len(binary[p]) /\ binary[p] \in Seq(Contents)
  BY PlaceNames DEF MigrationsInv, WorkInOrder, MigrationsTypeOK
<1>4. Item(p) \in Row /\ Item(p).version = Len(schema) + 1
  BY <1>1, <1>2, <1>3 DEF Item, Migration
<1>5. schema' = Append(schema, Item(p)) /\ recorded' = recorded \cup {Item(p)}
  BY DEF TakeEffect
<1>6. /\ schema' \in Seq(Row)
      /\ Len(schema') = Len(schema) + 1
      /\ DOMAIN schema' = 1 .. Len(schema) + 1
      /\ \A k \in 1 .. Len(schema) : schema'[k] = schema[k]
      /\ schema'[Len(schema) + 1] = Item(p)
  BY <1>1, <1>4, <1>5
<1>7. InOrder'
  <2> SUFFICES ASSUME NEW k \in DOMAIN schema' PROVE schema'[k].version = k
    BY DEF InOrder
  <2>1. CASE k \in 1 .. Len(schema)
    BY <2>1, <1>1, <1>6 DEF MigrationsInv, InOrder
  <2>2. CASE k = Len(schema) + 1
    BY <2>2, <1>4, <1>6
  <2> QED
    BY <1>1, <1>6, <2>1, <2>2
<1>8. LogMatchesSchema'
  <2>1. {schema'[k] : k \in DOMAIN schema'} = {schema[k] : k \in DOMAIN schema} \cup {Item(p)}
    BY <1>1, <1>6
  <2> QED
    BY <1>5, <2>1 DEF MigrationsInv, LogMatchesSchema
<1>9. History!Next
  <2>1. binary[p][at[p]] \in Contents
    BY <1>3
  <2>2. schema' = Append(schema, History!Migration(Len(schema) + 1, binary[p][at[p]]))
    BY <1>2, <1>5 DEF Item, Migration, History!Migration
  <2> QED
    BY <2>1, <2>2 DEF History!Next, History!Upgrade
<1>10. recorded' \subseteq Row /\ recorded \subseteq recorded' /\ Item(p) \in recorded'
  BY <1>4, <1>5 DEF MigrationsInv, MigrationsTypeOK
<1> QED
  BY <1>6, <1>7, <1>8, <1>9, <1>10

(***************************************************************************)
(* One lemma per part of the invariant.                                    *)
(***************************************************************************)
\* A step either commits the file p works on, or leaves schema and record alone.
LEMMA EffectOrNone ==
    ASSUME NEW p \in Processes, MigrationsStep(p)
    PROVE  \/ pc[p] = "commit" /\ TakeEffect(p)
           \/ UNCHANGED <<schema, recorded>>
  BY DEF MigrationsStep, MigrateStep, Launch, Lock, LockFails, Prepare, Check, Apply, Record,
     Commit, Fail, Unlock, Die, Leave

LEMMA RecordedGrows ==
    ASSUME MigrationsInv, NEW p \in Processes, MigrationsStep(p)
    PROVE  recorded \subseteq recorded'
  BY EffectOrNone, EffectIsUpgrade

\* Only p moves, to one of the places, and keeps its build unless it starts.
LEMMA OnlyOneMoves ==
    ASSUME MigrationsInv, NEW p \in Processes, MigrationsStep(p)
    PROVE  /\ pc' \in [Processes -> Places]
           /\ binary' \in [Processes -> Seq(Contents)]
           /\ at' \in [Processes -> Nat \ {0}]
           /\ \A q \in Processes \ {p} :
                 pc'[q] = pc[q] /\ binary'[q] = binary[q] /\ at'[q] = at[q]
           /\ (pc[p] = "down" /\ pc'[p] = "lock") \/ binary' = binary
<1> USE PlaceNames DEF MigrationsInv, MigrationsTypeOK, Goto
<1>1. CASE \E b \in Binaries : Launch(p, b)
  BY <1>1 DEF Launch
<1>2. CASE Lock(p) \/ LockFails(p) \/ Apply(p) \/ Record(p)
  BY <1>2 DEF Lock, LockFails, Apply, Record
<1>3. CASE Prepare(p) \/ Check(p) \/ Commit(p)
  <2>1. binary' = binary
    BY <1>3 DEF Prepare, Check, Commit
  <2>2. CASE \E v \in Nat \ {0} : Turn(p, v)
    BY <2>1, <2>2 DEF Turn
  <2>3. CASE Check(p) /\ ~\E v \in Nat \ {0} : Turn(p, v)
    <3>1. at[p] + 1 \in Nat \ {0}
      OBVIOUS
    <3>2. at' = at /\ \E place \in {"abort", "apply"} : Goto(p, place)
      BY <2>3, <3>1 DEF Check
    <3> QED
      BY <2>1, <3>2
  <2>4. (Prepare(p) \/ Commit(p)) => \E v \in Nat \ {0} : Turn(p, v)
    <3>1. at[p] + 1 \in Nat \ {0} /\ 1 \in Nat \ {0}
      OBVIOUS
    <3> QED
      BY <3>1 DEF Prepare, Commit
  <2> QED
    BY <1>3, <2>2, <2>3, <2>4
<1>4. CASE Fail(p) \/ Unlock(p) \/ Die(p) \/ Leave(p)
  BY <1>4 DEF Fail, Unlock, Die, Leave
<1> QED
  BY <1>1, <1>2, <1>3, <1>4 DEF MigrationsStep, MigrateStep

\* A session that is left to the server is its only holder, or holds nothing.
LEMMA AbandonedSession ==
    ASSUME MigrationsInv, NEW p \in Processes, Abandon(p)
    PROVE  /\ holders' = holders \ {p}
           /\ ghost' \in BOOLEAN
           /\ ghost' => holders' = {}
<1>1. PICK granted \in BOOLEAN :
         ghost' = (ghost \/ p \in holders \/ (granted /\ pc[p] = "lock" /\ LockFree))
  BY DEF Abandon
<1>2. ghost' => ghost \/ p \in holders \/ LockFree
  BY <1>1
<1>3. holders' = holders \ {p}
  BY DEF Abandon
<1> QED
  BY <1>1, <1>2, <1>3 DEF LockFree, MigrationsInv, OneHolder

LEMMA OneHolderStep ==
    ASSUME MigrationsInv, NEW p \in Processes, MigrationsStep(p)
    PROVE  OneHolder' /\ holders' \subseteq Processes /\ ghost' \in BOOLEAN
<1>0. \A q \in Processes \ {p} : pc'[q] = pc[q]
  BY OnlyOneMoves
<1> USE <1>0, PlaceNames DEF MigrationsInv, MigrationsTypeOK, OneHolder
<1>1. CASE \E b \in Binaries : Launch(p, b)
  BY <1>1 DEF Launch, Goto
<1>2. CASE Lock(p)
  BY <1>2 DEF Lock, LockFree, Goto
<1>3. CASE LockFails(p) \/ Die(p)
  <2>1. Abandon(p) /\ pc'[p] = "down"
    BY <1>3 DEF LockFails, Die, Goto
  <2> QED
    BY <2>1, AbandonedSession
<1>4. CASE Prepare(p) \/ Check(p) \/ Commit(p)
  <2>1. UNCHANGED <<holders, ghost>> /\ pc[p] \in Holding
    BY <1>4 DEF Prepare, Check, Commit
  <2>2. pc'[p] \in {"check", "unlock", "abort", "apply"}
    BY <1>4 DEF Prepare, Check, Commit, Turn, Goto
  <2> QED
    BY <2>1, <2>2
<1>5. CASE Apply(p) \/ Record(p) \/ Fail(p) \/ Leave(p)
  <2>1. UNCHANGED <<holders, ghost>>
    BY <1>5 DEF Apply, Record, Fail, Leave
  <2>2. \/ pc[p] \in Holding /\ pc'[p] \in {"record", "abort", "commit"}
        \/ pc[p] = "migrated" /\ pc'[p] = "down"
    BY <1>5 DEF Apply, Record, Fail, Leave, Goto
  <2> QED
    BY <2>1, <2>2
<1>6. CASE Unlock(p)
  <2>1. pc'[p] \in {"migrated", "down"} /\ pc[p] \in {"unlock", "abort"}
    BY <1>6 DEF Unlock, Goto
  <2>2. /\ holders' = holders \ {p}
        /\ ghost' \in BOOLEAN
        /\ ghost' => holders' = {}
    BY <1>6, AbandonedSession DEF Unlock
  <2> QED
    BY <2>1, <2>2
<1> QED
  BY <1>1, <1>2, <1>3, <1>4, <1>5, <1>6 DEF MigrationsStep, MigrateStep

\* Nobody else is in a transaction while p holds the lock.
LEMMA Alone ==
    ASSUME MigrationsInv, NEW p \in Processes, pc[p] \in Holding
    PROVE  \A q \in Processes \ {p} : pc[q] \notin Holding
  BY DEF MigrationsInv, OneHolder

LEMMA NoCollisionStep ==
    ASSUME MigrationsInv, NEW p \in Processes, MigrationsStep(p)
    PROVE  StartsDoNotCollide'
<1> USE PlaceNames
<1> SUFFICES ASSUME NEW q \in Processes, pc'[q] \in InTransaction
             PROVE  ~IsRecorded(at[q])'
  BY DEF StartsDoNotCollide
<1>1. CASE pc[p] = "commit" /\ TakeEffect(p)
  <2>1. q = p
    BY <1>1, Alone, OnlyOneMoves
  <2>2. pc'[p] \notin InTransaction
    BY <1>1 DEF MigrationsStep, MigrateStep, Launch, Lock, LockFails, Prepare, Check, Apply,
       Record, Commit, Fail, Unlock, Die, Leave, Turn, Goto, MigrationsInv, MigrationsTypeOK
  <2> QED
    BY <2>1, <2>2
<1>2. CASE UNCHANGED <<schema, recorded>>
  <2>1. CASE q # p
    BY <1>2, <2>1, OnlyOneMoves DEF MigrationsInv, StartsDoNotCollide, IsRecorded
  <2>2. CASE q = p
    <3>1. \/ Apply(p) \/ Record(p)
          \/ Check(p) /\ at' = at /\ ~IsRecorded(at[p])
      BY <2>2 DEF MigrationsStep, MigrateStep, Launch, Lock, LockFails, Prepare, Check, Apply,
         Record, Commit, Fail, Unlock, Die, Leave, Turn, Goto, MigrationsInv, MigrationsTypeOK
    <3>2. at' = at /\ ~IsRecorded(at[p])
      BY <3>1 DEF Apply, Record, MigrationsInv, StartsDoNotCollide
    <3> QED
      BY <1>2, <2>2, <3>2 DEF IsRecorded
  <2> QED
    BY <2>1, <2>2
<1> QED
  BY <1>1, <1>2, EffectOrNone

\* What p has behind it stays in effect.
LEMMA EffectsStay ==
    ASSUME MigrationsInv, NEW p \in Processes, MigrationsStep(p),
           NEW q \in Processes, NEW v, InEffect(q, v), binary'[q] = binary[q]
    PROVE  InEffect(q, v)'
  BY RecordedGrows DEF InEffect, Migration

\* The loop: having the files before version in effect, p turns to it.
LEMMA TurnInOrder ==
    ASSUME MigrationsInv, NEW p \in Processes, MigrationsStep(p), NEW version \in Nat \ {0},
           Turn(p, version), binary' = binary, version <= Len(binary[p]) + 1,
           \A v \in 1 .. version - 1 : InEffect(p, v)'
    PROVE  /\ pc'[p] \in {"check", "unlock"}
           /\ pc'[p] = "check" => /\ at'[p] \in 1 .. Len(binary'[p])
                                  /\ \A v \in 1 .. at'[p] - 1 : InEffect(p, v)'
           /\ pc'[p] = "unlock" => \A v \in 1 .. Len(binary'[p]) : InEffect(p, v)'
<1>1. Len(binary[p]) \in Nat
  BY FileType DEF MigrationsInv
<1>2. at'[p] = version /\ pc'[p] = IF version <= Len(binary[p]) THEN "check" ELSE "unlock"
  BY DEF Turn, Goto, MigrationsInv, MigrationsTypeOK
<1>3. CASE version <= Len(binary[p])
  BY <1>1, <1>2, <1>3
<1>4. CASE version = Len(binary[p]) + 1
  <2>1. version - 1 = Len(binary[p])
    BY <1>1, <1>4
  <2> QED
    BY <1>1, <1>2, <1>4, <2>1
<1> QED
  BY <1>1, <1>3, <1>4

LEMMA OrderStep ==
    ASSUME MigrationsInv, NEW p \in Processes, MigrationsStep(p)
    PROVE  WorkInOrder' /\ DoneIsDone'
<1> USE PlaceNames
<1>1. ASSUME NEW q \in Processes \ {p}
      PROVE  /\ pc'[q] \in Working => /\ at'[q] \in 1 .. Len(binary'[q])
                                      /\ \A v \in 1 .. at'[q] - 1 : InEffect(q, v)'
             /\ pc'[q] \in Done => \A v \in 1 .. Len(binary'[q]) : InEffect(q, v)'
  BY OnlyOneMoves, EffectsStay DEF MigrationsInv, WorkInOrder, DoneIsDone
<1>2. /\ pc'[p] \in Working => /\ at'[p] \in 1 .. Len(binary'[p])
                               /\ \A v \in 1 .. at'[p] - 1 : InEffect(p, v)'
      /\ pc'[p] \in Done => \A v \in 1 .. Len(binary'[p]) : InEffect(p, v)'
  <2>0. at[p] \in Nat \ {0} /\ Len(binary[p]) \in Nat
    BY FileType DEF MigrationsInv, MigrationsTypeOK
  <2>1. CASE Prepare(p)
    <3>1. Turn(p, 1) /\ binary' = binary
      BY <2>1 DEF Prepare
    <3> QED
      BY <2>0, <3>1, TurnInOrder
  <2>2. CASE Check(p)
    <3>1. /\ binary' = binary
          /\ at[p] \in 1 .. Len(binary[p])
          /\ \A v \in 1 .. at[p] - 1 : InEffect(p, v)
      BY <2>2 DEF Check, MigrationsInv, WorkInOrder
    <3>2. CASE Item(p) \in recorded /\ Turn(p, at[p] + 1)
      <4>1. InEffect(p, at[p])
        BY <3>2 DEF InEffect, Item
      <4>2. \A v \in 1 .. (at[p] + 1) - 1 : InEffect(p, v)'
        BY <2>0, <3>1, <4>1, EffectsStay
      <4> QED
        BY <2>0, <3>1, <3>2, <4>2, TurnInOrder
    <3>3. CASE at' = at /\ \E place \in {"abort", "apply"} : Goto(p, place)
      <4>1. pc'[p] \in {"abort", "apply"}
        BY <3>3 DEF Goto, MigrationsInv, MigrationsTypeOK
      <4>2. \A v \in 1 .. at[p] - 1 : InEffect(p, v)'
        BY <3>1, EffectsStay
      <4> QED
        BY <3>1, <3>3, <4>1, <4>2
    <3> QED
      BY <2>2, <3>2, <3>3 DEF Check
  <2>3. CASE Apply(p) \/ Record(p)
    <3>1. /\ binary' = binary /\ at' = at
          /\ pc[p] \in Working
          /\ pc'[p] \in {"record", "abort", "commit"}
      BY <2>3 DEF Apply, Record, Goto, MigrationsInv, MigrationsTypeOK
    <3>2. /\ at[p] \in 1 .. Len(binary[p])
          /\ \A v \in 1 .. at[p] - 1 : InEffect(p, v)'
      BY <3>1, EffectsStay DEF MigrationsInv, WorkInOrder
    <3> QED
      BY <3>1, <3>2
  <2>4. CASE Commit(p)
    <3>1. /\ binary' = binary
          /\ at[p] \in 1 .. Len(binary[p])
          /\ \A v \in 1 .. at[p] - 1 : InEffect(p, v)
          /\ Turn(p, at[p] + 1)
          /\ Item(p) \in recorded'
      BY <2>4, EffectIsUpgrade DEF Commit, MigrationsInv, WorkInOrder
    <3>2. ASSUME NEW v \in Nat, v = at[p] PROVE InEffect(p, v)'
      BY <3>1, <3>2 DEF Item, InEffect, Migration
    <3>3. \A v \in 1 .. (at[p] + 1) - 1 : InEffect(p, v)'
      BY <2>0, <3>1, <3>2, EffectsStay
    <3> QED
      BY <2>0, <3>1, <3>3, TurnInOrder
  <2>5. CASE Unlock(p)
    <3>1. /\ binary' = binary
          /\ pc'[p] \in {"migrated", "down"} /\ (pc[p] = "unlock" \/ pc'[p] = "down")
      BY <2>5 DEF Unlock, Goto, MigrationsInv, MigrationsTypeOK
    <3> QED
      BY <3>1, EffectsStay DEF MigrationsInv, DoneIsDone
  <2>6. CASE \/ \E b \in Binaries : Launch(p, b)
             \/ Lock(p) \/ LockFails(p) \/ Fail(p) \/ Die(p) \/ Leave(p)
    <3>1. pc'[p] \in {"lock", "prepare", "down", "abort"}
      BY <2>6 DEF Launch, Lock, LockFails, Fail, Die, Leave, Goto, MigrationsInv, MigrationsTypeOK
    <3> QED
      BY <3>1
  <2> QED
    BY <2>1, <2>2, <2>3, <2>4, <2>5, <2>6 DEF MigrationsStep, MigrateStep
<1> QED
  BY <1>1, <1>2 DEF WorkInOrder, DoneIsDone

\* The whole invariant of the migrations is kept by every step of a process.
LEMMA MigrationsStepKeeps ==
    ASSUME MigrationsInv, NEW p \in Processes, MigrationsStep(p)
    PROVE  MigrationsInv'
<1>1. /\ schema' \in Seq([version : Nat \ {0}, content : Contents])
      /\ recorded' \subseteq [version : Nat \ {0}, content : Contents]
      /\ InOrder' /\ LogMatchesSchema'
  <2>1. CASE pc[p] = "commit" /\ TakeEffect(p)
    BY <2>1, EffectIsUpgrade
  <2>2. CASE UNCHANGED <<schema, recorded>>
    BY <2>2 DEF MigrationsInv, MigrationsTypeOK, InOrder, LogMatchesSchema
  <2> QED
    BY <2>1, <2>2, EffectOrNone
<1>2. MigrationsTypeOK'
  BY <1>1, OnlyOneMoves, OneHolderStep DEF MigrationsTypeOK
<1> QED
  BY <1>1, <1>2, OneHolderStep, NoCollisionStep, OrderStep DEF MigrationsInv

LEMMA SessionEndsKeeps ==
    ASSUME MigrationsInv, SessionEnds
    PROVE  MigrationsInv'
  BY DEF SessionEnds, MigrationsInv, MigrationsTypeOK, OneHolder, InOrder, LogMatchesSchema,
     StartsDoNotCollide, WorkInOrder, DoneIsDone, InEffect, IsRecorded, Migration

LEMMA StutterKeeps ==
    ASSUME MigrationsInv, UNCHANGED migrationVars
    PROVE  MigrationsInv'
  BY DEF migrationVars, MigrationsInv, MigrationsTypeOK, OneHolder, InOrder, LogMatchesSchema,
     StartsDoNotCollide, WorkInOrder, DoneIsDone, InEffect, IsRecorded, Migration

LEMMA MigrationsInitially ==
    ASSUME MigrationsInit
    PROVE  MigrationsInv
<1>1. MigrationsTypeOK
  <2>1. <<>> \in Seq(Contents) /\ <<>> \in Seq([version : Nat \ {0}, content : Contents])
    OBVIOUS
  <2>2. binary \in [Processes -> Seq(Contents)]
    BY <2>1 DEF MigrationsInit
  <2>3. pc \in [Processes -> Places] /\ at \in [Processes -> Nat \ {0}]
    BY PlaceNames DEF MigrationsInit
  <2> QED
    BY <2>1, <2>2, <2>3 DEF MigrationsInit, MigrationsTypeOK
<1>2. OneHolder /\ StartsDoNotCollide /\ WorkInOrder /\ DoneIsDone
  BY PlaceNames DEF MigrationsInit, OneHolder, StartsDoNotCollide, WorkInOrder, DoneIsDone
<1>3. InOrder /\ LogMatchesSchema
  <2>1. DOMAIN schema = {}
    BY DEF MigrationsInit
  <2> QED
    BY <2>1 DEF MigrationsInit, InOrder, LogMatchesSchema
<1> QED
  BY <1>1, <1>2, <1>3 DEF MigrationsInv
-----------------------------------------------------------------------------
(***************************************************************************)
(* The serving life.  A probe that is past its ping when the server is no  *)
(* longer serving was under way when the signal came.                      *)
(***************************************************************************)
ProbesOverlap ==
    \A s \in Servers : \A c \in Connections :
        phase[s] \in {"signalled", "marked", "draining"} /\ conn[s][c] \in {"ping", "up"} =>
            overlap[s]

LifecycleInv ==
    LifecycleTypeOK /\ ProbesOverlap /\ NotReadyInShutdown

\* What a step of a deployment does to the variables of Lifecycle.
LifecycleStep(s) == Serve(s) \/ Vanish(s) \/ ServerStep(s)

\* The phases, the activities and the sets of them.
LEMMA PhaseNames ==
    /\ Phases = {"down", "draining", "closing", "serving", "signalled", "marked"}
    /\ Listening = {"serving", "signalled", "marked"}
    /\ Pinged = {"up", "unavailable"}
    /\ Activities = {"idle", "new", "lookup", "ping", "up", "unavailable"}
  BY DEF Phases, Listening, Pinged, Activities

LEMMA LifecycleProjection ==
    ASSUME DeploymentNext
    PROVE  (\E s \in Servers : LifecycleStep(s)) \/ UNCHANGED lifecycleVars
  BY DEF DeploymentNext, Start, Finish, Kill, GoLive, Stop, Exit, LifecycleStep

LEMMA ConnectionStepKeeps ==
    ASSUME LifecycleInv, NEW s \in Servers, NEW c \in Connections, ConnectionStep(s, c)
    PROVE  LifecycleInv'
<1> USE PhaseNames DEF LifecycleInv, LifecycleTypeOK, ProbesOverlap, NotReadyInShutdown, Set
<1>1. CASE Accept(s, c)
  BY <1>1 DEF Accept
<1>2. CASE Drop(s, c) \/ ReadLookup(s, c) \/ Answer(s, c)
  <2>1. PICK activity \in {"idle", "lookup"} :
           /\ conn[s][c] # "idle"
           /\ conn' = [conn EXCEPT ![s][c] = activity]
           /\ UNCHANGED <<phase, gauge, overlap>>
    BY <1>2 DEF Drop, ReadLookup, Answer
  <2> QED
    BY <2>1
<1>3. CASE ReadProbe(s, c)
  BY <1>3 DEF ReadProbe
<1>4. CASE Ping(s, c)
  BY <1>4 DEF Ping
<1>5. CASE Report(s, c)
  <2>1. /\ conn' = [conn EXCEPT ![s][c] = "idle"]
        /\ UNCHANGED <<phase, overlap>>
        /\ gauge' \in [Servers -> BOOLEAN]
        /\ \A t \in Servers : t # s => gauge'[t] = gauge[t]
    BY <1>5 DEF Report, SetReady
  <2>2. gauge'[s] => conn[s][c] = "up"
    BY <1>5 DEF Report, SetReady
  <2>3. LifecycleTypeOK' /\ ProbesOverlap'
    BY <2>1
  <2>4. NotReadyInShutdown'
    BY <2>1, <2>2
  <2> QED
    BY <2>3, <2>4
<1> QED
  BY <1>1, <1>2, <1>3, <1>4, <1>5 DEF ConnectionStep

LEMMA LifecycleStepKeeps ==
    ASSUME LifecycleInv, NEW s \in Servers, LifecycleStep(s)
    PROVE  LifecycleInv'
<1> USE PhaseNames DEF LifecycleInv, LifecycleTypeOK, ProbesOverlap, NotReadyInShutdown, Enter
<1>1. CASE Serve(s)
  BY <1>1 DEF Serve, SetReady
<1>2. CASE Vanish(s)
  BY <1>2 DEF Vanish
<1>3. CASE \E c \in Connections : ConnectionStep(s, c)
  BY <1>3, ConnectionStepKeeps
<1>4. CASE ServeFails(s)
  BY <1>4 DEF ServeFails
<1>5. CASE Signal(s)
  BY <1>5 DEF Signal
<1>6. CASE MarkNotReady(s)
  BY <1>6 DEF MarkNotReady, SetReady
<1>7. CASE CloseListener(s)
  BY <1>7 DEF CloseListener
<1>8. CASE ShutdownReturns(s)
  BY <1>8 DEF ShutdownReturns
<1> QED
  BY <1>1, <1>2, <1>3, <1>4, <1>5, <1>6, <1>7, <1>8
  DEF LifecycleStep, ServerStep, ShutdownStep
-----------------------------------------------------------------------------
(***************************************************************************)
(* The deployment: a server that serves has migrated.                      *)
(***************************************************************************)
ServingHasMigrated == \A s \in Servers : phase[s] # "down" => pc[s] = "migrated"

DeploymentInv == MigrationsInv /\ LifecycleInv /\ ServingHasMigrated

LEMMA DeploymentInitially ==
    ASSUME DeploymentInit
    PROVE  DeploymentInv
<1>1. LifecycleInv
  BY PhaseNames DEF DeploymentInit, LifecycleInit, LifecycleInv, LifecycleTypeOK,
     ProbesOverlap, NotReadyInShutdown
<1>2. ServingHasMigrated
  BY DEF DeploymentInit, LifecycleInit, ServingHasMigrated
<1> QED
  BY <1>1, <1>2, MigrationsInitially DEF DeploymentInit, DeploymentInv

LEMMA ServingStep ==
    ASSUME DeploymentInv, DeploymentNext
    PROVE  ServingHasMigrated'
<1> USE PlaceNames DEF DeploymentInv, MigrationsInv, MigrationsTypeOK, LifecycleInv,
        LifecycleTypeOK, ServingHasMigrated
<1>1. ASSUME NEW p \in Processes, Start(p) PROVE ServingHasMigrated'
  <2>1. phase' = phase
    BY <1>1 DEF Start, lifecycleVars
  <2>2. pc[p] # "migrated"
    BY <1>1 DEF Start, Launch, Lock, LockFails, MigrateStep, Prepare, Check, Apply, Record,
       Commit, Unlock, Fail
  <2>3. MigrationsStep(p)
    BY <1>1 DEF Start, MigrationsStep
  <2> QED
    BY <2>1, <2>2, <2>3, OnlyOneMoves
<1>2. ASSUME NEW p \in Processes, Finish(p) PROVE ServingHasMigrated'
  BY <1>2 DEF Finish, Leave, Goto, lifecycleVars
<1>3. ASSUME NEW p \in Processes, Kill(p) PROVE ServingHasMigrated'
  <2>1. pc' = [pc EXCEPT ![p] = "down"]
    BY <1>3 DEF Kill, Die, Goto
  <2>2. IF p \in Servers THEN phase' = [phase EXCEPT ![p] = "down"] ELSE phase' = phase
    BY <1>3 DEF Kill, Vanish, Enter, lifecycleVars
  <2> QED
    BY <2>1, <2>2
<1>4. CASE SessionEnds /\ UNCHANGED lifecycleVars
  BY <1>4 DEF SessionEnds, lifecycleVars
<1>5. ASSUME NEW s \in Servers, GoLive(s) PROVE ServingHasMigrated'
  BY <1>5 DEF GoLive, Serve, Enter, migrationVars
<1>6. ASSUME NEW s \in Servers, Stop(s) PROVE ServingHasMigrated'
  BY <1>6 DEF Stop, Exit, Vanish, Enter, Leave, Goto
<1>7. ASSUME NEW s \in Servers, ServerStep(s), UNCHANGED migrationVars
      PROVE  ServingHasMigrated'
  <2>1. pc' = pc
    BY <1>7 DEF migrationVars
  <2>2. \A t \in Servers : phase[t] = "down" => phase'[t] = "down"
    BY <1>7 DEF ServerStep, ConnectionStep, ShutdownStep, Accept, Drop, ReadLookup, ReadProbe,
       Answer, Ping, Report, ServeFails, Signal, MarkNotReady, CloseListener,
       ShutdownReturns, Enter
  <2> QED
    BY <2>1, <2>2
<1> QED
  BY <1>1, <1>2, <1>3, <1>4, <1>5, <1>6, <1>7 DEF DeploymentNext

LEMMA DeploymentStep ==
    ASSUME DeploymentInv, [DeploymentNext]_deploymentVars
    PROVE  DeploymentInv'
<1>1. CASE UNCHANGED deploymentVars
  <2>1. UNCHANGED migrationVars /\ UNCHANGED lifecycleVars
    BY <1>1 DEF deploymentVars
  <2>2. LifecycleInv'
    BY <2>1 DEF lifecycleVars, DeploymentInv, LifecycleInv, LifecycleTypeOK, ProbesOverlap, NotReadyInShutdown
  <2>3. ServingHasMigrated'
    BY <2>1 DEF lifecycleVars, migrationVars, DeploymentInv, ServingHasMigrated
  <2> QED
    BY <2>1, <2>2, <2>3, StutterKeeps DEF DeploymentInv
<1>2. CASE DeploymentNext
  <2>1. MigrationsInv'
    BY <1>2, StepProjection, MigrationsStepKeeps, SessionEndsKeeps, StutterKeeps
    DEF DeploymentInv, MigrationsNext
  <2>2. LifecycleInv'
    <3>1. CASE UNCHANGED lifecycleVars
      BY <3>1 DEF lifecycleVars, DeploymentInv, LifecycleInv, LifecycleTypeOK,
         ProbesOverlap, NotReadyInShutdown
    <3> QED
      BY <1>2, <3>1, LifecycleProjection, LifecycleStepKeeps DEF DeploymentInv
  <2> QED
    BY <1>2, <2>1, <2>2, ServingStep DEF DeploymentInv
<1> QED
  BY <1>1, <1>2
-----------------------------------------------------------------------------
(***************************************************************************)
(* The theorems.                                                           *)
(***************************************************************************)
THEOREM DeploymentInvariant == DeploymentSpec => []DeploymentInv
  BY DeploymentInitially, DeploymentStep, PTL DEF DeploymentSpec

\* The variables of the migrations and of the serving life keep their types.
THEOREM DeploymentTypes == DeploymentSpec => []DeploymentTypeOK
<1>1. DeploymentInv => DeploymentTypeOK
  BY DEF DeploymentInv, MigrationsInv, LifecycleInv, DeploymentTypeOK
<1> QED
  BY <1>1, DeploymentInvariant, PTL

\* schema_migrations records exactly the files that are in effect, wherever a
\* process fails or dies.
THEOREM RecordIsTrue == DeploymentSpec => []LogMatchesSchema
<1>1. DeploymentInv => LogMatchesSchema
  BY DEF DeploymentInv, MigrationsInv
<1> QED
  BY <1>1, DeploymentInvariant, PTL

\* Of any number of concurrent starts, none runs into what another committed.
THEOREM NoCollision == DeploymentSpec => []StartsDoNotCollide
<1>1. DeploymentInv => StartsDoNotCollide
  BY DEF DeploymentInv, MigrationsInv
<1> QED
  BY <1>1, DeploymentInvariant, PTL

\* The schema that a server serves begins with its own files, as it embeds them.
LEMMA ServedSchema == DeploymentInv => ServesMigrated
<1> SUFFICES ASSUME DeploymentInv, NEW s \in Servers, phase[s] # "down",
                    NEW v \in DOMAIN binary[s]
             PROVE  v \in DOMAIN schema /\ schema[v] = Migration(v, binary[s][v])
  BY DEF ServesMigrated
<1>1. s \in Processes /\ pc[s] \in Done
  BY PlaceNames DEF DeploymentInv, ServingHasMigrated
<1>2. v \in 1 .. Len(binary[s])
  BY <1>1, FileType DEF DeploymentInv, MigrationsInv
<1>3. Migration(v, binary[s][v]) \in recorded
  BY <1>1, <1>2 DEF DeploymentInv, MigrationsInv, DoneIsDone, InEffect
<1>4. PICK k \in DOMAIN schema : Migration(v, binary[s][v]) = schema[k]
  BY <1>3 DEF DeploymentInv, MigrationsInv, LogMatchesSchema
<1>5. k = v
  BY <1>4 DEF DeploymentInv, MigrationsInv, InOrder, Migration
<1> QED
  BY <1>4, <1>5

THEOREM ServingIsMigrated == DeploymentSpec => []ServesMigrated
  BY ServedSchema, DeploymentInvariant, PTL

\* Servers of different builds that serve at the same time, as during a rolling
\* update or after a downgrade, agree on every version that both of them embed.
ServersAgree ==
    \A s, t \in Servers : phase[s] # "down" /\ phase[t] # "down" =>
        \A v \in DOMAIN binary[s] \cap DOMAIN binary[t] : binary[s][v] = binary[t][v]

THEOREM RollingUpdatesAgree == DeploymentSpec => []ServersAgree
<1>1. ServesMigrated => ServersAgree
  <2> SUFFICES ASSUME ServesMigrated, NEW s \in Servers, NEW t \in Servers,
                      phase[s] # "down", phase[t] # "down",
                      NEW v \in DOMAIN binary[s] \cap DOMAIN binary[t]
               PROVE  binary[s][v] = binary[t][v]
    BY DEF ServersAgree
  <2>1. Migration(v, binary[s][v]) = Migration(v, binary[t][v])
    BY DEF ServesMigrated
  <2> QED
    BY <2>1 DEF Migration
<1> QED
  BY <1>1, ServingIsMigrated, PTL

\* The migration lock is held by one session at a time, and if by that of a
\* process, then by one between its Lock and its Unlock: whoever waits waits
\* for statements that return, or for a session that PostgreSQL will end.
THEOREM LockHoldersEnd == DeploymentSpec => []OneHolder
<1>1. DeploymentInv => OneHolder
  BY DEF DeploymentInv, MigrationsInv
<1> QED
  BY <1>1, DeploymentInvariant, PTL

(***************************************************************************)
(* A holder of the lock does not run in circles either.                    *)
(***************************************************************************)
\* How many statements p can still send before it is rid of the lock: four for
\* every file, and those around them.
Left(p) ==
    LET rest == 4 * (Len(binary[p]) - at[p])
    IN  CASE pc[p] = "prepare" -> 4 * Len(binary[p]) + 7
          [] pc[p] = "check" -> rest + 6
          [] pc[p] = "apply" -> rest + 5
          [] pc[p] = "record" -> rest + 4
          [] pc[p] = "commit" -> rest + 3
          [] pc[p] \in {"unlock", "abort"} -> 1
          [] OTHER -> 0

\* Exactly the holders have statements left.
HoldersHaveWork ==
    \A p \in Processes : Left(p) \in Nat /\ (Left(p) > 0 <=> p \in holders)

Advances(p) ==
    p \in holders /\ (pc'[p] # pc[p] \/ at'[p] # at[p]) => Left(p)' < Left(p)

\* Whatever moves a process that holds the lock brings it nearer to giving the
\* lock up: no error path leads back into the loop over the files.
StartsAdvance == [][\A p \in Processes : Advances(p)]_deploymentVars

\* The arithmetic of the count.
LEMMA FourPerFile ==
    ASSUME NEW len \in Nat
    PROVE  /\ 4 * len \in Nat
           /\ 4 * (len - 1) = 4 * len - 4
           /\ \A k \in 1 .. len : /\ 4 * (len - k) \in Nat
                                  /\ 4 * (len - (k + 1)) = 4 * (len - k) - 4
  OBVIOUS

LEMMA HolderHasWork == MigrationsInv => HoldersHaveWork
<1> SUFFICES ASSUME MigrationsInv, NEW p \in Processes
             PROVE  Left(p) \in Nat /\ (Left(p) > 0 <=> p \in holders)
  BY DEF HoldersHaveWork
<1>1. Len(binary[p]) \in Nat /\ at[p] \in Nat
  BY FileType DEF MigrationsInv, MigrationsTypeOK
<1>2. pc[p] \in Places /\ (p \in holders <=> pc[p] \in Holding)
  BY DEF MigrationsInv, MigrationsTypeOK, OneHolder
<1>3. pc[p] \in Working => at[p] \in 1 .. Len(binary[p])
  BY DEF MigrationsInv, WorkInOrder
<1>4. CASE pc[p] \in {"prepare", "check"}
  BY <1>1, <1>2, <1>3, <1>4, PlaceNames, FourPerFile DEF Left
<1>5. CASE pc[p] \in {"apply", "record", "commit"}
  BY <1>1, <1>2, <1>3, <1>5, PlaceNames, FourPerFile DEF Left
<1>6. CASE pc[p] \in {"unlock", "abort"}
  BY <1>2, <1>6, PlaceNames DEF Left
<1>7. CASE pc[p] \notin Holding
  BY <1>2, <1>7, PlaceNames DEF Left
<1> QED
  BY <1>4, <1>5, <1>6, <1>7, PlaceNames

\* A turn of the loop goes to a later file, or to the unlock.
LEMMA TurnEffect ==
    ASSUME MigrationsTypeOK, NEW p \in Processes, NEW version \in Nat, Turn(p, version)
    PROVE  /\ at'[p] = version
           /\ \/ version <= Len(binary[p]) /\ pc'[p] = "check"
              \/ pc'[p] = "unlock"
  BY DEF Turn, Goto, MigrationsTypeOK

\* Where a step leads a holder of the lock.
Moved(p) ==
    \/ pc[p] \in Locked /\ pc'[p] = "abort"
    \/ pc'[p] \in {"down", "migrated"}
    \/ pc[p] \in {"prepare", "check", "commit"} /\ pc'[p] = "unlock"
    \/ pc[p] = "prepare" /\ pc'[p] = "check" /\ at'[p] = 1 /\ 1 <= Len(binary[p])
    \/ /\ pc[p] \in {"check", "commit"} /\ pc'[p] = "check"
       /\ at'[p] = at[p] + 1 /\ at[p] + 1 <= Len(binary[p])
    \/ pc[p] = "check" /\ pc'[p] = "apply" /\ at'[p] = at[p]
    \/ pc[p] = "apply" /\ pc'[p] = "record" /\ at'[p] = at[p]
    \/ pc[p] = "record" /\ pc'[p] = "commit" /\ at'[p] = at[p]

LEMMA HolderMoves ==
    ASSUME MigrationsInv, NEW p \in Processes, MigrationsStep(p), p \in holders
    PROVE  Moved(p)
<1>0. MigrationsTypeOK /\ pc[p] \in Holding /\ at[p] + 1 \in Nat
  BY DEF MigrationsInv, MigrationsTypeOK, OneHolder
<1> USE <1>0, PlaceNames DEF Moved
<1>1. CASE Prepare(p) \/ Commit(p)
  BY <1>1, TurnEffect DEF Prepare, Commit
<1>2. CASE Check(p)
  <2>1. CASE Turn(p, at[p] + 1)
    BY <1>2, <2>1, TurnEffect DEF Check
  <2>2. CASE ~Turn(p, at[p] + 1)
    BY <1>2, <2>2 DEF Check, Goto, MigrationsTypeOK
  <2> QED
    BY <2>1, <2>2
<1>3. CASE Apply(p) \/ Record(p) \/ Fail(p)
  BY <1>3 DEF Apply, Record, Fail, Goto, MigrationsTypeOK
<1>4. CASE Unlock(p) \/ Die(p)
  BY <1>4 DEF Unlock, Die, Goto, MigrationsTypeOK
<1>5. CASE (\E b \in Binaries : Launch(p, b)) \/ Lock(p) \/ LockFails(p) \/ Leave(p)
  BY <1>5 DEF Launch, Lock, LockFails, Leave
<1> QED
  BY <1>1, <1>2, <1>3, <1>4, <1>5 DEF MigrationsStep, MigrateStep

LEMMA MoveAdvances ==
    ASSUME MigrationsInv, NEW p \in Processes, MigrationsStep(p), p \in holders
    PROVE  Left(p)' < Left(p)
<1>1. Len(binary[p]) \in Nat /\ at[p] \in Nat
  BY FileType DEF MigrationsInv, MigrationsTypeOK
<1>2. pc[p] \in Holding /\ (pc[p] \in Working => at[p] \in 1 .. Len(binary[p]))
  BY DEF MigrationsInv, OneHolder, WorkInOrder
<1>3. binary' = binary
  BY <1>2, OnlyOneMoves, PlaceNames
<1>4. Moved(p)
  BY HolderMoves
<1>5. CASE pc[p] \in {"unlock", "abort"}
  BY <1>4, <1>5, PlaceNames DEF Left, Moved
<1>6. CASE pc[p] \in {"prepare", "check"}
  BY <1>1, <1>2, <1>3, <1>4, <1>6, PlaceNames, FourPerFile DEF Left, Moved
<1>7. CASE pc[p] \in {"apply", "record"}
  <2>1. \/ pc'[p] \in {"abort", "down", "migrated"}
        \/ at'[p] = at[p] /\ pc[p] = "apply" /\ pc'[p] = "record"
        \/ at'[p] = at[p] /\ pc[p] = "record" /\ pc'[p] = "commit"
    BY <1>4, <1>7 DEF Moved
  <2>2. 4 * (Len(binary[p]) - at[p]) \in Nat
    BY <1>1, <1>2, <1>7, PlaceNames, FourPerFile
  <2> QED
    BY <1>1, <1>3, <1>7, <2>1, <2>2 DEF Left
<1>8. CASE pc[p] = "commit"
  BY <1>1, <1>2, <1>3, <1>4, <1>8, PlaceNames, FourPerFile DEF Left, Moved
<1> QED
  BY <1>2, <1>5, <1>6, <1>7, <1>8, PlaceNames

\* So a start that holds the lock ends, or is stuck in one statement.
THEOREM StartsGoForward == DeploymentSpec => StartsAdvance /\ []HoldersHaveWork
<1>1. DeploymentInv => HoldersHaveWork
  BY HolderHasWork DEF DeploymentInv
<1>2. DeploymentInv /\ [DeploymentNext]_deploymentVars
          => [\A p \in Processes : Advances(p)]_deploymentVars
  <2> SUFFICES ASSUME DeploymentInv, DeploymentNext, NEW p \in Processes PROVE Advances(p)
    OBVIOUS
  <2>1. MigrationsNext \/ UNCHANGED migrationVars
    BY StepProjection
  <2>2. CASE MigrationsStep(p)
    BY <2>2, MoveAdvances DEF DeploymentInv, Advances
  <2>3. ASSUME NEW q \in Processes \ {p}, MigrationsStep(q) PROVE Advances(p)
    BY <2>3, OnlyOneMoves DEF DeploymentInv, Advances
  <2>4. CASE SessionEnds \/ UNCHANGED migrationVars
    BY <2>4 DEF SessionEnds, migrationVars, Advances
  <2> QED
    BY <2>1, <2>2, <2>3, <2>4 DEF MigrationsNext
<1> QED
  BY <1>1, <1>2, DeploymentInvariant, PTL DEF DeploymentSpec, StartsAdvance

\* The schema grows by the next version only.
THEOREM MigrationsImplementHistory == DeploymentSpec => ImplementsSchemaHistory
<1>1. DeploymentInit => History!Init
  BY DEF DeploymentInit, MigrationsInit, History!Init
<1>2. DeploymentInv /\ [DeploymentNext]_deploymentVars => [History!Next]_schema
  <2> SUFFICES ASSUME DeploymentInv, [DeploymentNext]_deploymentVars, schema' # schema
               PROVE  History!Next
    OBVIOUS
  <2>1. DeploymentNext
    BY DEF deploymentVars, migrationVars
  <2>2. PICK p \in Processes : MigrationsStep(p)
    BY <2>1, StepProjection DEF MigrationsNext, SessionEnds, migrationVars
  <2> QED
    BY <2>2, EffectOrNone, EffectIsUpgrade DEF DeploymentInv
<1> QED
  BY <1>1, <1>2, DeploymentInvariant, PTL
  DEF DeploymentSpec, ImplementsSchemaHistory, History!Spec

\* Only a probe that the signal overtook can turn the gauge up again.
THEOREM ShutdownStaysNotReady == DeploymentSpec => []NotReadyInShutdown
<1>1. DeploymentInv => NotReadyInShutdown
  BY DEF DeploymentInv, LifecycleInv
<1> QED
  BY <1>1, DeploymentInvariant, PTL
=============================================================================

--------------------------- MODULE RegistryProofs ---------------------------
(***************************************************************************)
(* Proofs about Registry, for any number of actors, links and monitors and *)
(* any interleaving of spawns, links and exits at the unlocks of           *)
(* base_mutex_.                                                            *)
(***************************************************************************)
EXTENDS Registry, FiniteSetTheorems, TLAPS

Exited(a) == pc[a] \in Exiting \cup {"gone"}

(* The signal a has looked up and not yet delivered. *)
ExitInFlight(a, b) == IF pc[a] = "deliverExit" /\ target[a] = b THEN 1 ELSE 0
DownInFlight(a, b) == IF pc[a] = "deliverDown" /\ target[a] = b THEN 1 ELSE 0

(* actors_ holds what was spawned and has not exited; what was never       *)
(* spawned appears nowhere.                                                *)
Lifecycle ==
    /\ \A a \in Refs : a \in actors <=> a < nextId /\ ~Exited(a)
    /\ \A a \in Refs : a >= nextId =>
          /\ pc[a] = "none"
          /\ \A b \in Refs : /\ links[a][b] = 0 /\ links[b][a] = 0
                             /\ linked[a][b] = 0 /\ linked[b][a] = 0
                             /\ monitors[a][b] = 0 /\ monitors[b][a] = 0
                             /\ watched[a][b] = 0 /\ watched[b][a] = 0
                             /\ exitOut[b][a] = 0 /\ downOut[b][a] = 0

(* A child being spawned has not started, and has one spawner. *)
Spawning ==
    \A a \in Refs : pc[a] \in {"count", "start"} =>
        /\ child[a] \in Refs /\ child[a] < nextId /\ pc[child[a]] = "none"
        /\ \A b \in Refs : b # a /\ pc[b] \in {"count", "start"} => child[b] # child[a]

(* Only an exit has signals. *)
Senders ==
    \A a, b \in Refs :
        /\ ~Exited(a) => /\ exitOut[a][b] = 0 /\ exitsIn[b][a] = 0
                         /\ downOut[a][b] = 0 /\ downsIn[b][a] = 0
        /\ pc[a] = "gone" => exitOut[a][b] = 0 /\ downOut[a][b] = 0
        /\ pc[a] \in {"deliverExit", "deliverDown"} => target[a] \in Refs

(* Where the links between a and b are, seen from a registered b. *)
LinkLedger ==
    \A a, b \in Refs : a # b =>
        /\ linked[a][b] = linked[b][a]
        /\ a \in actors /\ b \in actors => links[a][b] = linked[a][b]
        /\ Exited(a) /\ b \in actors =>
              linked[a][b] = exitOut[a][b] + ExitInFlight(a, b) + exitsIn[b][a]
        /\ exitsIn[b][a] + ExitInFlight(a, b) + exitsIn[a][b] + ExitInFlight(b, a)
              <= linked[a][b]

(* Where b's monitors of a are. *)
MonitorLedger ==
    \A a, b \in Refs :
        /\ a \in actors /\ b \in actors => monitors[a][b] = watched[a][b]
        /\ Exited(a) /\ b \in actors =>
              watched[a][b] = downOut[a][b] + DownInFlight(a, b) + downsIn[b][a]
        /\ downsIn[b][a] + DownInFlight(a, b) <= watched[a][b]

RegistryInv ==
    /\ Lifecycle /\ Spawning /\ Senders /\ LinksSymmetric /\ LinkLedger /\ MonitorLedger

(* push_back on one list of a table gives a table, one entry longer. *)
LEMMA BumpType ==
    ASSUME NEW f \in Table, NEW a \in Refs, NEW b \in Refs
    PROVE  /\ Bump(f, a, b) \in Table
           /\ \A c, d \in Refs :
                 Bump(f, a, b)[c][d] = IF c = a /\ d = b THEN f[c][d] + 1 ELSE f[c][d]
BY DEF Bump, Table

(* Adding a link in both directions gives a table. *)
LEMMA BothType ==
    ASSUME NEW f \in Table, NEW a \in Refs, NEW b \in Refs, a # b
    PROVE  /\ Both(f, a, b) \in Table
           /\ \A c, d \in Refs :
                 Both(f, a, b)[c][d] =
                    IF (c = a /\ d = b) \/ (c = b /\ d = a) THEN f[c][d] + 1 ELSE f[c][d]
BY DEF Both, Table

(* The history of links stays a table. *)
LEMMA HistoryType ==
    ASSUME NEW f \in Table, NEW a \in Refs, NEW b \in Refs, a # b, NEW live
    PROVE  /\ LinkHistory(f, a, b, live) \in Table
           /\ \A c, d \in Refs :
                 LinkHistory(f, a, b, live)[c][d] =
                    IF /\ a \in live /\ b \in live
                       /\ (c = a /\ d = b) \/ (c = b /\ d = a)
                    THEN f[c][d] + 1 ELSE f[c][d]
BY DEF LinkHistory, Table

(* The history of monitors stays a table. *)
LEMMA MonitorHistoryType ==
    ASSUME NEW f \in Table, NEW a \in Refs, NEW b \in Refs, NEW live
    PROVE  /\ MonitorHistory(f, a, b, live) \in Table
           /\ \A c, d \in Refs :
                 MonitorHistory(f, a, b, live)[c][d] =
                    IF a \in live /\ b \in live /\ c = a /\ d = b
                    THEN f[c][d] + 1 ELSE f[c][d]
<1>1. CASE a \in live /\ b \in live
  BY <1>1, BumpType DEF MonitorHistory
<1>2. CASE ~(a \in live /\ b \in live)
  BY <1>2 DEF MonitorHistory
<1> QED
  BY <1>1, <1>2

(* The erasures of notify_exit give a table. *)
LEMMA UnlinkedType ==
    ASSUME NEW f \in Table, NEW a \in Refs
    PROVE  /\ Unlinked(f, a) \in Table
           /\ \A c, d \in Refs :
                 Unlinked(f, a)[c][d] =
                    IF c = a \/ (d = a /\ f[a][c] > 0) THEN 0 ELSE f[c][d]
BY DEF Unlinked, Table, Zero

(* The empty list and the empty table have their types. *)
LEMMA ZeroType == Zero \in [Refs -> Nat] /\ Zeros \in Table /\ (\A b \in Refs : Zero[b] = 0)
BY DEF Zero, Zeros, Table

(* Every step keeps the types. *)
LEMMA TypeStep == TypeOK /\ [Next]_vars => TypeOK'
<1> SUFFICES ASSUME TypeOK, [Next]_vars PROVE TypeOK'
  OBVIOUS
<1> USE ActorsAssumption DEF topology, signals
<1>1. ASSUME NEW a \in Refs, Spawn(a),
             links' \in Table, monitors' \in Table, linked' \in Table, watched' \in Table,
             ops' \in Nat
      PROVE  TypeOK'
  BY <1>1 DEF Spawn, TypeOK, Refs, Stages
<1>2. ASSUME NEW a \in Refs, SpawnPlain(a) PROVE TypeOK'
  BY <1>1, <1>2 DEF SpawnPlain, TypeOK
<1>3. ASSUME NEW a \in Refs, NEW b \in Refs, SpawnLink(a, b) PROVE TypeOK'
  <2>1. nextId \in Refs /\ b # nextId
    BY <1>3 DEF SpawnLink, Spawn, Issued, TypeOK, Refs
  <2>2. links' \in Table /\ linked' \in Table
    BY <1>3, <2>1, BothType, HistoryType DEF SpawnLink, TypeOK
  <2> QED
    BY <1>1, <1>3, <2>2 DEF SpawnLink, TypeOK
<1>4. ASSUME NEW a \in Refs, NEW b \in Refs, SpawnMonitor(a, b) PROVE TypeOK'
  <2>1. nextId \in Refs
    BY <1>4 DEF SpawnMonitor, Spawn, TypeOK, Refs
  <2>2. monitors' \in Table /\ watched' \in Table
    BY <1>4, <2>1, BumpType, MonitorHistoryType DEF SpawnMonitor, TypeOK
  <2> QED
    BY <1>1, <1>4, <2>2 DEF SpawnMonitor, TypeOK
<1>5. ASSUME NEW a \in Refs, SpawnCount(a) \/ SpawnStart(a) \/ ExitDecrement(a) \/ ExitDone(a)
      PROVE  TypeOK'
  <2>1. CASE SpawnCount(a)
    BY <2>1 DEF SpawnCount, TypeOK, Stages
  <2>2. CASE SpawnStart(a)
    <3>1. pc' \in [Refs -> Stages]
      BY <2>2 DEF SpawnStart, TypeOK, Stages
    <3> QED
      BY <2>2, <3>1 DEF SpawnStart, TypeOK
  <2>3. CASE ExitDecrement(a)
    BY <2>3 DEF ExitDecrement, TypeOK, Stages
  <2>4. CASE ExitDone(a)
    <3>1. shutdown' \in BOOLEAN
      BY <2>4 DEF ExitDone
    <3> QED
      BY <2>4, <3>1 DEF ExitDone, TypeOK, Stages
  <2> QED
    BY <1>5, <2>1, <2>2, <2>3, <2>4
<1>6. ASSUME NEW a \in Refs, NEW b \in Refs, NEW c \in Refs, Link(a, b, c) PROVE TypeOK'
  <2>1. links' \in Table /\ linked' \in Table
    BY <1>6, BothType, HistoryType DEF Link, TypeOK
  <2> QED
    BY <1>6, <2>1 DEF Link, TypeOK
<1>7. ASSUME NEW a \in Refs, NEW b \in Refs, NEW c \in Refs, Monitor(a, b, c) PROVE TypeOK'
  <2>1. monitors' \in Table /\ watched' \in Table
    BY <1>7, BumpType, MonitorHistoryType DEF Monitor, TypeOK
  <2> QED
    BY <1>7, <2>1 DEF Monitor, TypeOK
<1>8. ASSUME NEW a \in Refs, ExitCollect(a) PROVE TypeOK'
  <2>1. links' \in Table
    BY <1>8, UnlinkedType DEF ExitCollect, TypeOK
  <2>2. exitOut' \in Table /\ downOut' \in Table /\ monitors' \in Table
    BY <1>8, ZeroType DEF ExitCollect, TypeOK, Table
  <2> QED
    BY <1>8, <2>1, <2>2 DEF ExitCollect, TypeOK, Stages
<1>9. ASSUME NEW a \in Refs, NEW b \in Refs, ExitLookup(a, b) PROVE TypeOK'
  <2>1. exitOut' \in Table
    BY <1>9 DEF ExitLookup, TypeOK, Table
  <2> QED
    BY <1>9, <2>1 DEF ExitLookup, TypeOK, Stages
<1>10. ASSUME NEW a \in Refs, NEW b \in Refs, DownLookup(a, b) PROVE TypeOK'
  <2>1. downOut' \in Table
    BY <1>10 DEF DownLookup, TypeOK, Table
  <2> QED
    BY <1>10, <2>1 DEF DownLookup, TypeOK, Stages
<1>11. ASSUME NEW a \in Refs, Deliver(a) PROVE TypeOK'
  <2>1. exitsIn' \in Table /\ downsIn' \in Table
    <3>1. CASE target[a] \in Refs
      BY <1>11, <3>1, BumpType DEF Deliver, TypeOK
    <3>2. CASE target[a] = NoRef
      <4>1. \A f \in Table : Bump(f, NoRef, a) = f
        BY DEF Bump, Table, NoRef, Refs
      <4> QED
        BY <1>11, <3>2, <4>1 DEF Deliver, TypeOK
    <3> QED
      BY <3>1, <3>2 DEF TypeOK
  <2> QED
    BY <1>11, <2>1 DEF Deliver, TypeOK, Stages
<1>12. CASE UNCHANGED vars
  BY <1>12 DEF vars, TypeOK
<1> QED
  BY <1>2, <1>3, <1>4, <1>5, <1>6, <1>7, <1>8, <1>9, <1>10, <1>11, <1>12
  DEF Next, Step, ExitStep, Done

(* The registry's variables keep their types. *)
THEOREM TypeCorrect == Spec => []TypeOK
<1>1. ASSUME Init PROVE TypeOK
  <2>1. /\ actors \subseteq Refs /\ nextId \in 1..(MaxActors + 1)
        /\ count \in Int /\ ops \in Nat
    BY <1>1, ActorsAssumption DEF Init, Refs
  <2>2. shutdown \in BOOLEAN
    BY <1>1 DEF Init
  <2>3. /\ child \in [Refs -> Refs \cup {NoRef}] /\ target \in [Refs -> Refs \cup {NoRef}]
        /\ pc \in [Refs -> Stages]
    BY <1>1 DEF Init, Zero, NoRef, Stages
  <2> QED
    BY <1>1, <2>1, <2>2, <2>3, ZeroType DEF Init, TypeOK
<1> QED
  BY <1>1, TypeStep, PTL DEF Spec

-----------------------------------------------------------------------------
(* Steps of a spawn. *)

(* The end of a spawn, the count and the detach, keeps the invariant. *)
LEMMA InvSpawnRest ==
    ASSUME TypeOK, RegistryInv, NEW a \in Refs, SpawnCount(a) \/ SpawnStart(a)
    PROVE  RegistryInv'
<1> USE DEF topology, signals, RegistryInv, Exited, Exiting
<1>1. CASE SpawnCount(a)
  <2>1. Lifecycle' /\ Spawning'
    BY <1>1 DEF SpawnCount, TypeOK, Lifecycle, Spawning
  <2>2. Senders' /\ LinksSymmetric'
    BY <1>1 DEF SpawnCount, TypeOK, Senders, LinksSymmetric
  <2>3. LinkLedger' /\ MonitorLedger'
    BY <1>1 DEF SpawnCount, TypeOK, LinkLedger, MonitorLedger, ExitInFlight, DownInFlight
  <2> QED
    BY <2>1, <2>2, <2>3
<1>2. CASE SpawnStart(a)
  <2>1. /\ child[a] \in Refs /\ child[a] < nextId /\ pc[child[a]] = "none"
        /\ pc[a] = "start" /\ nextId \in Int
    BY <1>2 DEF SpawnStart, Spawning, TypeOK
  <2>2. /\ \A b \in Refs : pc'[b] = IF b = a \/ b = child[a] THEN "run" ELSE pc[b]
        /\ UNCHANGED <<actors, nextId, links, linked, monitors, watched, child, exitOut,
                       downOut, target, exitsIn, downsIn>>
    BY <1>2, <2>1 DEF SpawnStart, TypeOK
  <2>3. \A b \in Refs :
           /\ Exited(b)' <=> Exited(b)
           /\ (pc'[b] = "deliverExit") <=> (pc[b] = "deliverExit")
           /\ (pc'[b] = "deliverDown") <=> (pc[b] = "deliverDown")
           /\ (pc'[b] = "gone") <=> (pc[b] = "gone")
    BY <2>1, <2>2
  <2>4. Lifecycle'
    <3>1. \A b \in Refs : b >= nextId => b # a /\ b # child[a]
      BY <2>1 DEF Lifecycle, Refs
    <3> QED
      BY <2>2, <2>3, <3>1 DEF Lifecycle
  <2>5. Spawning'
    BY <2>1, <2>2 DEF Spawning
  <2>6. Senders' /\ LinksSymmetric'
    BY <2>2, <2>3 DEF Senders, LinksSymmetric
  <2>7. LinkLedger'
    BY <2>2, <2>3 DEF LinkLedger, ExitInFlight
  <2>8. MonitorLedger'
    BY <2>2, <2>3 DEF MonitorLedger, DownInFlight
  <2> QED
    BY <2>4, <2>5, <2>6, <2>7, <2>8
<1> QED
  BY <1>1, <1>2

(* link() and monitor() between registered actors keep the invariant. *)
LEMMA InvLink ==
    ASSUME TypeOK, RegistryInv, NEW a \in Refs, NEW b \in Refs, NEW c \in Refs,
           Link(a, b, c) \/ Monitor(a, b, c)
    PROVE  RegistryInv'
<1> USE DEF signals, RegistryInv, Exited
<1>1. CASE Link(a, b, c)
  <2>1. /\ b \in actors /\ c \in actors /\ b # c
        /\ UNCHANGED <<actors, nextId, monitors, watched, pc, child, exitOut, downOut,
                       target, exitsIn, downsIn>>
    BY <1>1 DEF Link
  <2>2. \A x, y \in Refs :
           /\ links'[x][y] = IF (x = b /\ y = c) \/ (x = c /\ y = b)
                             THEN links[x][y] + 1 ELSE links[x][y]
           /\ linked'[x][y] = IF (x = b /\ y = c) \/ (x = c /\ y = b)
                              THEN linked[x][y] + 1 ELSE linked[x][y]
    <3>1. /\ links' = Both(links, b, c) /\ links \in Table
          /\ linked' = LinkHistory(linked, b, c, actors) /\ linked \in Table
      BY <1>1 DEF Link, TypeOK
    <3>2. \A x, y \in Refs :
             Both(links, b, c)[x][y] = IF (x = b /\ y = c) \/ (x = c /\ y = b)
                                       THEN links[x][y] + 1 ELSE links[x][y]
      BY <2>1, <3>1, BothType
    <3>3. \A x, y \in Refs :
             LinkHistory(linked, b, c, actors)[x][y] =
                IF (x = b /\ y = c) \/ (x = c /\ y = b)
                THEN linked[x][y] + 1 ELSE linked[x][y]
      BY <2>1, <3>1 DEF LinkHistory
    <3> QED
      BY <3>1, <3>2, <3>3
  <2>3. Lifecycle' /\ Spawning' /\ Senders' /\ LinksSymmetric'
    <3>1. Lifecycle'
      <4>1. ~(b >= nextId) /\ ~(c >= nextId)
        BY <2>1 DEF Lifecycle, TypeOK, Refs
      <4> QED
        BY <2>1, <2>2, <4>1 DEF Lifecycle
    <3>2. Spawning' /\ Senders'
      BY <2>1 DEF Spawning, Senders
    <3>3. LinksSymmetric'
      BY <2>2 DEF LinksSymmetric
    <3> QED
      BY <3>1, <3>2, <3>3
  <2>4. LinkLedger'
    <3> SUFFICES ASSUME NEW x \in Refs, NEW y \in Refs, x # y
                 PROVE  /\ linked'[x][y] = linked'[y][x]
                        /\ x \in actors /\ y \in actors => links'[x][y] = linked'[x][y]
                        /\ Exited(x) /\ y \in actors =>
                             linked'[x][y] = exitOut[x][y] + ExitInFlight(x, y) + exitsIn[y][x]
                        /\ exitsIn[y][x] + ExitInFlight(x, y) + exitsIn[x][y] + ExitInFlight(y, x)
                             <= linked'[x][y]
      BY <2>1 DEF LinkLedger, ExitInFlight
    <3>1. /\ links[x][y] \in Nat /\ linked[x][y] \in Nat /\ exitsIn[x][y] \in Nat
          /\ exitsIn[y][x] \in Nat /\ ExitInFlight(x, y) \in Nat /\ ExitInFlight(y, x) \in Nat
      BY DEF TypeOK, Table, ExitInFlight
    <3>2. Exited(x) => x \notin actors
      BY DEF Lifecycle
    <3> QED
      BY <2>1, <2>2, <3>1, <3>2 DEF LinkLedger
  <2>5. MonitorLedger'
    BY <2>1 DEF MonitorLedger, DownInFlight
  <2> QED
    BY <2>3, <2>4, <2>5
<1>2. CASE Monitor(a, b, c)
  <2>1. /\ b \in actors /\ c \in actors
        /\ UNCHANGED <<actors, nextId, links, linked, pc, child, exitOut, downOut,
                       target, exitsIn, downsIn>>
    BY <1>2 DEF Monitor
  <2>2. \A x, y \in Refs :
           /\ monitors'[x][y] = IF x = c /\ y = b THEN monitors[x][y] + 1 ELSE monitors[x][y]
           /\ watched'[x][y] = IF x = c /\ y = b THEN watched[x][y] + 1 ELSE watched[x][y]
    <3>1. /\ monitors' = Bump(monitors, c, b) /\ monitors \in Table
          /\ watched' = MonitorHistory(watched, c, b, actors) /\ watched \in Table
      BY <1>2 DEF Monitor, TypeOK
    <3>2. \A x, y \in Refs :
             Bump(monitors, c, b)[x][y] =
                IF x = c /\ y = b THEN monitors[x][y] + 1 ELSE monitors[x][y]
      BY <3>1 DEF Bump, Table
    <3>3. \A x, y \in Refs :
             MonitorHistory(watched, c, b, actors)[x][y] =
                IF x = c /\ y = b THEN watched[x][y] + 1 ELSE watched[x][y]
      BY <2>1, <3>1 DEF MonitorHistory, Bump, Table
    <3> QED
      BY <3>1, <3>2, <3>3
  <2>3. Lifecycle' /\ Spawning' /\ Senders' /\ LinksSymmetric'
    <3>1. Lifecycle'
      <4>1. ~(b >= nextId) /\ ~(c >= nextId)
        BY <2>1 DEF Lifecycle, TypeOK, Refs
      <4> QED
        BY <2>1, <2>2, <4>1 DEF Lifecycle
    <3>2. Spawning' /\ Senders'
      BY <2>1 DEF Spawning, Senders
    <3>3. LinksSymmetric'
      BY <2>1 DEF LinksSymmetric
    <3> QED
      BY <3>1, <3>2, <3>3
  <2>4. LinkLedger'
    BY <2>1 DEF LinkLedger, ExitInFlight
  <2>5. MonitorLedger'
    <3> SUFFICES ASSUME NEW x \in Refs, NEW y \in Refs
                 PROVE  /\ x \in actors /\ y \in actors => monitors'[x][y] = watched'[x][y]
                        /\ Exited(x) /\ y \in actors =>
                             watched'[x][y] = downOut[x][y] + DownInFlight(x, y) + downsIn[y][x]
                        /\ downsIn[y][x] + DownInFlight(x, y) <= watched'[x][y]
      BY <2>1 DEF MonitorLedger, DownInFlight
    <3>1. /\ monitors[x][y] \in Nat /\ watched[x][y] \in Nat
          /\ downsIn[y][x] \in Nat /\ DownInFlight(x, y) \in Nat
      BY DEF TypeOK, Table, DownInFlight
    <3>2. Exited(x) => x \notin actors
      BY DEF Lifecycle
    <3> QED
      BY <2>1, <2>2, <3>1, <3>2 DEF MonitorLedger
  <2> QED
    BY <2>3, <2>4, <2>5
<1> QED
  BY <1>1, <1>2

(* The locked registration, whatever entries it adds for the new actor. *)
LEMMA InvRegister ==
    ASSUME TypeOK, RegistryInv, NEW a \in Refs, Spawn(a), NEW l \in Refs, NEW w \in Refs,
           l < nextId, w < nextId, NEW k \in {0, 1}, NEW m \in {0, 1},
           \A x, y \in Refs :
              LET isLink == (x = l /\ y = nextId) \/ (x = nextId /\ y = l)
                  isMonitor == x = nextId /\ y = w
              IN  /\ links'[x][y] = IF isLink THEN links[x][y] + k ELSE links[x][y]
                  /\ linked'[x][y] = IF isLink /\ l \in actors
                                     THEN linked[x][y] + k ELSE linked[x][y]
                  /\ monitors'[x][y] = IF isMonitor THEN monitors[x][y] + m ELSE monitors[x][y]
                  /\ watched'[x][y] = IF isMonitor /\ w \in actors
                                      THEN watched[x][y] + m ELSE watched[x][y]
    PROVE  RegistryInv'
<1> USE DEF RegistryInv
<1> DEFINE new == nextId
<1>1. /\ new \in Refs /\ nextId \in Int /\ pc[a] = "run" /\ pc[new] = "none"
      /\ a # new /\ a < nextId /\ l # new /\ w # new
  BY ActorsAssumption DEF Spawn, TypeOK, Refs, Lifecycle
<1>2. /\ actors' = actors \cup {new} /\ nextId' = new + 1
      /\ \A b \in Refs : pc'[b] = IF b = a THEN "count" ELSE pc[b]
      /\ \A b \in Refs : child'[b] = IF b = a THEN new ELSE child[b]
      /\ UNCHANGED <<exitOut, downOut, target, exitsIn, downsIn>>
  BY DEF Spawn, signals, TypeOK
<1>3. /\ \A b \in Refs : Exited(b)' <=> Exited(b)
      /\ \A b \in Refs : (pc'[b] = "deliverExit") <=> (pc[b] = "deliverExit")
      /\ \A b \in Refs : (pc'[b] = "deliverDown") <=> (pc[b] = "deliverDown")
      /\ \A b \in Refs : (pc'[b] = "gone") <=> (pc[b] = "gone")
      /\ ~Exited(new) /\ new \notin actors
  BY <1>1, <1>2 DEF Exited, Exiting, Lifecycle
<1>4. /\ \A b, c \in Refs : ExitInFlight(b, c)' = ExitInFlight(b, c)
      /\ \A b, c \in Refs : DownInFlight(b, c)' = DownInFlight(b, c)
  BY <1>2, <1>3 DEF ExitInFlight, DownInFlight
<1> HIDE DEF new
<1>5. \A b \in Refs :
         /\ links[b][new] = 0 /\ links[new][b] = 0
         /\ linked[b][new] = 0 /\ linked[new][b] = 0
         /\ monitors[b][new] = 0 /\ monitors[new][b] = 0
         /\ watched[b][new] = 0 /\ watched[new][b] = 0
         /\ exitOut[b][new] = 0 /\ downOut[b][new] = 0
  BY <1>1 DEF Lifecycle, new
<1>6. \A b, c \in Refs : /\ links[b][c] \in Nat /\ linked[b][c] \in Nat
                          /\ exitsIn[b][c] \in Nat /\ exitOut[b][c] \in Nat
                          /\ monitors[b][c] \in Nat /\ watched[b][c] \in Nat
                          /\ downsIn[b][c] \in Nat /\ downOut[b][c] \in Nat
  BY DEF TypeOK, Table
<1>7. \A b, c \in Refs : ExitInFlight(b, c) \in {0, 1} /\ DownInFlight(b, c) \in {0, 1}
  BY DEF ExitInFlight, DownInFlight
<1>8. \A x, y \in Refs :
         x < new /\ y < new => /\ links'[x][y] = links[x][y] /\ linked'[x][y] = linked[x][y]
                              /\ monitors'[x][y] = monitors[x][y]
                              /\ watched'[x][y] = watched[x][y]
  BY <1>1 DEF new, Refs
<1>9. Lifecycle'
  <2>1. \A b \in Refs : b \in actors' <=> b < nextId' /\ ~Exited(b)'
    BY <1>1, <1>2, <1>3 DEF Lifecycle, Refs, new
  <2>2. ASSUME NEW b \in Refs, b >= nextId'
        PROVE  b > nextId /\ b # a /\ b # new /\ b # l /\ b # w
    BY <1>1, <1>2, <2>2 DEF Refs, new
  <2>3. ASSUME NEW b \in Refs, b >= nextId' PROVE pc'[b] = "none"
    BY <1>1, <1>2, <2>2, <2>3 DEF Lifecycle, Refs
  <2>4. ASSUME NEW b \in Refs, b >= nextId', NEW c \in Refs
        PROVE  /\ links'[b][c] = 0 /\ links'[c][b] = 0
               /\ linked'[b][c] = 0 /\ linked'[c][b] = 0
               /\ monitors'[b][c] = 0 /\ monitors'[c][b] = 0
               /\ watched'[b][c] = 0 /\ watched'[c][b] = 0
               /\ exitOut'[c][b] = 0 /\ downOut'[c][b] = 0
    BY <1>1, <1>2, <2>2, <2>4 DEF Lifecycle, Refs, new
  <2> QED
    BY <2>1, <2>3, <2>4 DEF Lifecycle
<1>10. Spawning'
  <2>1. \A b \in Refs : pc[b] \in {"count", "start"} => child[b] # new /\ child[b] # a
    BY <1>1 DEF Spawning, new
  <2> QED
    <3> SUFFICES ASSUME NEW b \in Refs, pc'[b] \in {"count", "start"}
                 PROVE  /\ child'[b] \in Refs /\ child'[b] < nextId'
                        /\ pc'[child'[b]] = "none"
                        /\ \A c \in Refs : c # b /\ pc'[c] \in {"count", "start"} =>
                              child'[c] # child'[b]
      BY DEF Spawning
    <3>1. CASE b = a
      BY <1>1, <1>2, <2>1, <3>1 DEF new
    <3>2. CASE b # a
      <4>1. /\ child'[b] = child[b] /\ pc[b] \in {"count", "start"} /\ child[b] # a
            /\ child[b] \in Refs /\ child[b] < nextId /\ pc[child[b]] = "none"
            /\ child[b] # new
        BY <1>2, <2>1, <3>2 DEF Spawning
      <4>2. child[b] < nextId' /\ pc'[child[b]] = "none"
        BY <1>1, <1>2, <4>1 DEF new, Refs
      <4>3. ASSUME NEW c \in Refs, c # b, pc'[c] \in {"count", "start"}
            PROVE  child'[c] # child[b]
        <5>1. CASE c = a
          BY <1>2, <4>1, <5>1
        <5>2. CASE c # a
          BY <1>2, <3>2, <4>1, <4>3, <5>2 DEF Spawning
        <5> QED
          BY <5>1, <5>2
      <4> QED
        BY <4>1, <4>2, <4>3
    <3> QED
      BY <3>1, <3>2
<1>11. Senders'
  BY <1>2, <1>3 DEF Senders
<1>12. LinksSymmetric'
  <2> SUFFICES ASSUME NEW x \in Refs, NEW y \in Refs
               PROVE  links'[x][y] = links'[y][x]
    BY DEF LinksSymmetric
  <2> DEFINE isLink(p, q) == (p = l /\ q = nextId) \/ (p = nextId /\ q = l)
  <2>1. links[x][y] = links[y][x]
    BY DEF LinksSymmetric
  <2>2. /\ links'[x][y] = IF isLink(x, y) THEN links[x][y] + k ELSE links[x][y]
        /\ links'[y][x] = IF isLink(y, x) THEN links[y][x] + k ELSE links[y][x]
    OBVIOUS
  <2>3. isLink(x, y) <=> isLink(y, x)
    OBVIOUS
  <2> HIDE DEF isLink
  <2> QED
    BY <2>1, <2>2, <2>3
<1>13. LinkLedger'
  <2> SUFFICES ASSUME NEW x \in Refs, NEW y \in Refs, x # y
               PROVE  /\ linked'[x][y] = linked'[y][x]
                      /\ x \in actors' /\ y \in actors' => links'[x][y] = linked'[x][y]
                      /\ Exited(x) /\ y \in actors' =>
                           linked'[x][y] = exitOut[x][y] + ExitInFlight(x, y) + exitsIn[y][x]
                      /\ exitsIn[y][x] + ExitInFlight(x, y) + exitsIn[x][y] + ExitInFlight(y, x)
                           <= linked'[x][y]
    BY <1>2, <1>3, <1>4 DEF LinkLedger
  <2>1. CASE x # new /\ y # new
    <3>1. links'[x][y] = links[x][y] /\ linked'[x][y] = linked[x][y] /\ linked'[y][x] = linked[y][x]
      BY <2>1 DEF new
    <3> QED
      BY <1>2, <2>1, <3>1 DEF LinkLedger
  <2>2. CASE x = new
    <3>1. exitsIn[y][x] + ExitInFlight(x, y) + exitsIn[x][y] + ExitInFlight(y, x) <= linked[x][y]
      BY DEF LinkLedger
    <3>2. exitsIn[y][x] = 0 /\ ExitInFlight(x, y) = 0 /\ exitsIn[x][y] = 0 /\ ExitInFlight(y, x) = 0
      <4>1. linked[x][y] = 0
        BY <1>5, <2>2
      <4>2. /\ exitsIn[y][x] \in Nat /\ exitsIn[x][y] \in Nat
            /\ ExitInFlight(x, y) \in Nat /\ ExitInFlight(y, x) \in Nat
        BY <1>6, <1>7
      <4>3. exitsIn[y][x] + ExitInFlight(x, y) + exitsIn[x][y] + ExitInFlight(y, x) <= 0
        BY <3>1, <4>1, Zenon
      <4> DEFINE p == exitsIn[y][x]
                 q == ExitInFlight(x, y)
                 r == exitsIn[x][y]
                 s == ExitInFlight(y, x)
      <4>4. p \in Nat /\ q \in Nat /\ r \in Nat /\ s \in Nat /\ p + q + r + s <= 0
        BY <4>2, <4>3
      <4> HIDE DEF p, q, r, s
      <4>5. p = 0 /\ q = 0 /\ r = 0 /\ s = 0
        BY <4>4
      <4> QED
        BY <4>5 DEF p, q, r, s
    <3>3. /\ links'[x][y] = (IF y = l THEN k ELSE 0)
          /\ linked'[x][y] = (IF y = l /\ l \in actors THEN k ELSE 0)
          /\ linked'[y][x] = (IF y = l /\ l \in actors THEN k ELSE 0)
      BY <1>1, <1>5, <2>2 DEF new
    <3> QED
      BY <1>2, <1>3, <2>2, <3>2, <3>3
  <2>3. CASE y = new
    <3>1. exitsIn[y][x] + ExitInFlight(x, y) + exitsIn[x][y] + ExitInFlight(y, x) <= linked[x][y]
      BY DEF LinkLedger
    <3>2. exitsIn[y][x] = 0 /\ ExitInFlight(x, y) = 0 /\ exitsIn[x][y] = 0 /\ ExitInFlight(y, x) = 0
      <4>1. linked[x][y] = 0
        BY <1>5, <2>3
      <4>2. /\ exitsIn[y][x] \in Nat /\ exitsIn[x][y] \in Nat
            /\ ExitInFlight(x, y) \in Nat /\ ExitInFlight(y, x) \in Nat
        BY <1>6, <1>7
      <4>3. exitsIn[y][x] + ExitInFlight(x, y) + exitsIn[x][y] + ExitInFlight(y, x) <= 0
        BY <3>1, <4>1, Zenon
      <4> DEFINE p == exitsIn[y][x]
                 q == ExitInFlight(x, y)
                 r == exitsIn[x][y]
                 s == ExitInFlight(y, x)
      <4>4. p \in Nat /\ q \in Nat /\ r \in Nat /\ s \in Nat /\ p + q + r + s <= 0
        BY <4>2, <4>3
      <4> HIDE DEF p, q, r, s
      <4>5. p = 0 /\ q = 0 /\ r = 0 /\ s = 0
        BY <4>4
      <4> QED
        BY <4>5 DEF p, q, r, s
    <3>3. /\ links'[x][y] = (IF x = l THEN k ELSE 0)
          /\ linked'[x][y] = (IF x = l /\ l \in actors THEN k ELSE 0)
          /\ linked'[y][x] = (IF x = l /\ l \in actors THEN k ELSE 0)
      BY <1>1, <1>5, <2>3 DEF new
    <3>4. exitOut[x][y] = 0 /\ (Exited(x) => x \notin actors)
      BY <1>5, <2>3 DEF Lifecycle
    <3> QED
      BY <1>2, <1>3, <2>3, <3>2, <3>3, <3>4
  <2> QED
    BY <2>1, <2>2, <2>3
<1>14. MonitorLedger'
  <2> SUFFICES ASSUME NEW x \in Refs, NEW y \in Refs
               PROVE  /\ x \in actors' /\ y \in actors' => monitors'[x][y] = watched'[x][y]
                      /\ Exited(x) /\ y \in actors' =>
                           watched'[x][y] = downOut[x][y] + DownInFlight(x, y) + downsIn[y][x]
                      /\ downsIn[y][x] + DownInFlight(x, y) <= watched'[x][y]
    BY <1>2, <1>3, <1>4 DEF MonitorLedger
  <2>1. downsIn[y][x] + DownInFlight(x, y) <= watched[x][y]
    BY DEF MonitorLedger
  <2>2. CASE x # new /\ y # new
    <3>1. monitors'[x][y] = monitors[x][y] /\ watched'[x][y] = watched[x][y]
      BY <2>2 DEF new
    <3> QED
      BY <1>2, <2>2, <3>1 DEF MonitorLedger
  <2>3. CASE x = new \/ y = new
    <3>1. downsIn[y][x] = 0 /\ DownInFlight(x, y) = 0
      BY <1>5, <1>6, <1>7, <2>1, <2>3
    <3>2. /\ monitors'[x][y] = (IF x = new /\ y = w THEN m ELSE 0)
          /\ watched'[x][y] = (IF x = new /\ y = w /\ w \in actors THEN m ELSE 0)
      BY <1>1, <1>5, <2>3 DEF new
    <3>3. Exited(x) => y = new /\ x # new /\ downOut[x][y] = 0
      BY <1>3, <1>5, <2>3
    <3>4. x \in actors' /\ y \in actors' => monitors'[x][y] = watched'[x][y]
      BY <1>1, <1>2, <1>3, <2>3, <3>2
    <3>5. Exited(x) /\ y \in actors' =>
             watched'[x][y] = downOut[x][y] + DownInFlight(x, y) + downsIn[y][x]
      BY <1>1, <3>1, <3>2, <3>3
    <3>6. downsIn[y][x] + DownInFlight(x, y) <= watched'[x][y]
      BY <3>1, <3>2
    <3> QED
      BY <3>4, <3>5, <3>6
  <2> QED
    BY <2>2, <2>3
<1> QED
  BY <1>9, <1>10, <1>11, <1>12, <1>13, <1>14

(* The three ways of spawning are such registrations. *)
LEMMA InvSpawn ==
    ASSUME TypeOK, RegistryInv, NEW a \in Refs,
           SpawnPlain(a) \/ \E b \in Refs : SpawnLink(a, b) \/ SpawnMonitor(a, b)
    PROVE  RegistryInv'
<1>1. /\ links \in Table /\ monitors \in Table /\ linked \in Table /\ watched \in Table
      /\ nextId \in Int
  BY DEF TypeOK
<1>2. \A x, y \in Refs : /\ links[x][y] \in Nat /\ linked[x][y] \in Nat
                         /\ monitors[x][y] \in Nat /\ watched[x][y] \in Nat
  BY <1>1 DEF Table
<1>3. CASE SpawnPlain(a)
  <2>1. Spawn(a) /\ UNCHANGED <<links, linked, monitors, watched>> /\ a < nextId
    BY <1>3 DEF SpawnPlain, topology, Spawn, RegistryInv, Lifecycle, TypeOK, Refs
  <2>2. \A x, y \in Refs :
           LET isLink == (x = a /\ y = nextId) \/ (x = nextId /\ y = a)
               isMonitor == x = nextId /\ y = a
           IN  /\ links'[x][y] = IF isLink THEN links[x][y] + 0 ELSE links[x][y]
               /\ linked'[x][y] = IF isLink /\ a \in actors
                                  THEN linked[x][y] + 0 ELSE linked[x][y]
               /\ monitors'[x][y] = IF isMonitor THEN monitors[x][y] + 0 ELSE monitors[x][y]
               /\ watched'[x][y] = IF isMonitor /\ a \in actors
                                   THEN watched[x][y] + 0 ELSE watched[x][y]
    BY <1>2, <2>1
  <2> QED
    BY <2>1, <2>2, InvRegister
<1>4. ASSUME NEW b \in Refs, SpawnLink(a, b) PROVE RegistryInv'
  <2>1. /\ Spawn(a) /\ b < nextId /\ nextId \in Refs /\ UNCHANGED <<monitors, watched>>
        /\ links' = Both(links, b, nextId)
        /\ linked' = LinkHistory(linked, b, nextId, actors')
        /\ b \in actors' <=> b \in actors
        /\ nextId \in actors'
    BY <1>1, <1>4 DEF SpawnLink, Spawn, Issued, Refs, TypeOK
  <2>2. \A x, y \in Refs :
           LET isLink == (x = b /\ y = nextId) \/ (x = nextId /\ y = b)
               isMonitor == x = nextId /\ y = b
           IN  /\ links'[x][y] = IF isLink THEN links[x][y] + 1 ELSE links[x][y]
               /\ linked'[x][y] = IF isLink /\ b \in actors
                                  THEN linked[x][y] + 1 ELSE linked[x][y]
               /\ monitors'[x][y] = IF isMonitor THEN monitors[x][y] + 0 ELSE monitors[x][y]
               /\ watched'[x][y] = IF isMonitor /\ b \in actors
                                   THEN watched[x][y] + 0 ELSE watched[x][y]
    BY <1>2, <2>1 DEF Both, LinkHistory
  <2> QED
    BY <2>1, <2>2, InvRegister
<1>5. ASSUME NEW b \in Refs, SpawnMonitor(a, b) PROVE RegistryInv'
  <2>1. /\ Spawn(a) /\ b < nextId /\ nextId \in Refs /\ UNCHANGED <<links, linked>>
        /\ monitors' = Bump(monitors, nextId, b)
        /\ watched' = IF b \in actors THEN Bump(watched, nextId, b) ELSE watched
    BY <1>1, <1>5 DEF SpawnMonitor, Spawn, Issued, MonitorHistory, Refs, TypeOK
  <2>2. \A x, y \in Refs :
           LET isLink == (x = b /\ y = nextId) \/ (x = nextId /\ y = b)
               isMonitor == x = nextId /\ y = b
           IN  /\ links'[x][y] = IF isLink THEN links[x][y] + 0 ELSE links[x][y]
               /\ linked'[x][y] = IF isLink /\ b \in actors
                                  THEN linked[x][y] + 0 ELSE linked[x][y]
               /\ monitors'[x][y] = IF isMonitor THEN monitors[x][y] + 1 ELSE monitors[x][y]
               /\ watched'[x][y] = IF isMonitor /\ b \in actors
                                   THEN watched[x][y] + 1 ELSE watched[x][y]
    <3>1. \A f \in Table : \A x, y \in Refs :
             Bump(f, nextId, b)[x][y] = IF x = nextId /\ y = b THEN f[x][y] + 1 ELSE f[x][y]
      BY <2>1, BumpType
    <3>2. \A x, y \in Refs : monitors'[x][y] = IF x = nextId /\ y = b
                                              THEN monitors[x][y] + 1 ELSE monitors[x][y]
      BY <1>1, <2>1, <3>1
    <3>3. \A x, y \in Refs : watched'[x][y] = IF x = nextId /\ y = b /\ b \in actors
                                             THEN watched[x][y] + 1 ELSE watched[x][y]
      <4>1. CASE b \in actors
        BY <1>1, <2>1, <3>1, <4>1
      <4>2. CASE b \notin actors
        BY <2>1, <4>2
      <4> QED
        BY <4>1, <4>2
    <3> QED
      BY <1>2, <2>1, <3>2, <3>3
  <2> QED
    BY <2>1, <2>2, InvRegister
<1> QED
  BY <1>3, <1>4, <1>5

-----------------------------------------------------------------------------
(* Steps of an exit. *)

(* The locked collection moves a's entries of links_ and monitors_ into    *)
(* the signals a is to send.                                               *)
LEMMA InvExitCollect ==
    ASSUME TypeOK, RegistryInv, NEW a \in Refs, ExitCollect(a)
    PROVE  RegistryInv'
<1> USE DEF RegistryInv
<1>1. /\ pc[a] = "run" /\ a < nextId /\ a \in actors /\ ~Exited(a)
  BY DEF ExitCollect, Lifecycle, Exited, Exiting, TypeOK, Refs
<1>2. /\ actors' = actors \ {a}
      /\ \A b \in Refs : pc'[b] = IF b = a THEN "decrement" ELSE pc[b]
      /\ UNCHANGED <<nextId, linked, watched, child, target, exitsIn, downsIn>>
  BY DEF ExitCollect, TypeOK
<1>3. \A x, y \in Refs :
         /\ exitOut'[x][y] = IF x = a THEN links[x][y] ELSE exitOut[x][y]
         /\ downOut'[x][y] = IF x = a THEN monitors[x][y] ELSE downOut[x][y]
         /\ monitors'[x][y] = IF x = a THEN 0 ELSE monitors[x][y]
  BY ZeroType DEF ExitCollect, TypeOK, Table
<1>4. \A x, y \in Refs : links'[x][y] = IF x = a \/ y = a THEN 0 ELSE links[x][y]
  <2>1. links \in Table /\ links' = Unlinked(links, a)
    BY DEF ExitCollect, TypeOK
  <2>2. \A x, y \in Refs :
           links'[x][y] = IF x = a \/ (y = a /\ links[a][x] > 0) THEN 0 ELSE links[x][y]
    BY <2>1, UnlinkedType
  <2>3. \A x \in Refs : links[a][x] \in Nat /\ links[x][a] = links[a][x]
    BY <2>1 DEF LinksSymmetric, Table
  <2> QED
    BY <2>2, <2>3
<1>5. \A b \in Refs :
         /\ Exited(b)' <=> Exited(b) \/ b = a
         /\ (pc'[b] = "deliverExit") <=> (pc[b] = "deliverExit")
         /\ (pc'[b] = "deliverDown") <=> (pc[b] = "deliverDown")
         /\ (pc'[b] = "gone") <=> (pc[b] = "gone")
         /\ (pc'[b] \in {"count", "start"}) <=> (pc[b] \in {"count", "start"})
         /\ (pc'[b] = "none") <=> (pc[b] = "none")
  BY <1>1, <1>2 DEF Exited, Exiting
<1>6. /\ \A b, c \in Refs : ExitInFlight(b, c)' = ExitInFlight(b, c)
      /\ \A b, c \in Refs : DownInFlight(b, c)' = DownInFlight(b, c)
      /\ \A c \in Refs : ExitInFlight(a, c) = 0 /\ DownInFlight(a, c) = 0
  BY <1>1, <1>2, <1>5 DEF ExitInFlight, DownInFlight
<1>7. \A b \in Refs : /\ exitsIn[b][a] = 0 /\ downsIn[b][a] = 0
                      /\ links[a][b] \in Nat /\ monitors[a][b] \in Nat
  BY <1>1 DEF Senders, TypeOK, Table
<1>8. Lifecycle'
  <2>1. \A b \in Refs : b \in actors' <=> b < nextId' /\ ~Exited(b)'
    BY <1>1, <1>2, <1>5 DEF Lifecycle
  <2>2. \A b \in Refs : b >= nextId => b # a
    BY <1>1 DEF Refs, TypeOK
  <2> QED
    BY <1>2, <1>3, <1>4, <1>5, <2>1, <2>2 DEF Lifecycle
<1>9. Spawning'
  BY <1>2, <1>5 DEF Spawning
<1>10. Senders'
  BY <1>1, <1>2, <1>3, <1>5 DEF Senders
<1>11. LinksSymmetric'
  BY <1>4 DEF LinksSymmetric
<1>12. LinkLedger'
  <2> SUFFICES ASSUME NEW x \in Refs, NEW y \in Refs, x # y
               PROVE  /\ linked[x][y] = linked[y][x]
                      /\ x \in actors' /\ y \in actors' => links'[x][y] = linked[x][y]
                      /\ Exited(x)' /\ y \in actors' =>
                           linked[x][y] = exitOut'[x][y] + ExitInFlight(x, y) + exitsIn[y][x]
                      /\ exitsIn[y][x] + ExitInFlight(x, y) + exitsIn[x][y] + ExitInFlight(y, x)
                           <= linked[x][y]
    BY <1>2, <1>6 DEF LinkLedger
  <2>1. x \in actors' /\ y \in actors' => links'[x][y] = linked[x][y]
    BY <1>2, <1>4 DEF LinkLedger
  <2>2. ASSUME x = a, y \in actors'
        PROVE  linked[x][y] = exitOut'[x][y] + ExitInFlight(x, y) + exitsIn[y][x]
    <3>1. linked[x][y] = links[x][y]
      BY <1>1, <1>2, <2>2 DEF LinkLedger
    <3>2. /\ exitOut'[x][y] = links[x][y] /\ ExitInFlight(x, y) = 0 /\ exitsIn[y][x] = 0
          /\ links[x][y] \in Nat
      BY <1>3, <1>6, <1>7, <2>2
    <3> QED
      BY <3>1, <3>2
  <2>3. ASSUME x # a, Exited(x)', y \in actors'
        PROVE  linked[x][y] = exitOut'[x][y] + ExitInFlight(x, y) + exitsIn[y][x]
    BY <1>2, <1>3, <1>5, <2>3 DEF LinkLedger
  <2> QED
    BY <2>1, <2>2, <2>3 DEF LinkLedger
<1>13. MonitorLedger'
  <2> SUFFICES ASSUME NEW x \in Refs, NEW y \in Refs
               PROVE  /\ x \in actors' /\ y \in actors' => monitors'[x][y] = watched[x][y]
                      /\ Exited(x)' /\ y \in actors' =>
                           watched[x][y] = downOut'[x][y] + DownInFlight(x, y) + downsIn[y][x]
                      /\ downsIn[y][x] + DownInFlight(x, y) <= watched[x][y]
    BY <1>2, <1>6 DEF MonitorLedger
  <2>1. x \in actors' /\ y \in actors' => monitors'[x][y] = watched[x][y]
    BY <1>2, <1>3 DEF MonitorLedger
  <2>2. ASSUME x = a, y \in actors'
        PROVE  watched[x][y] = downOut'[x][y] + DownInFlight(x, y) + downsIn[y][x]
    <3>1. watched[x][y] = monitors[x][y]
      BY <1>1, <1>2, <2>2 DEF MonitorLedger
    <3>2. /\ downOut'[x][y] = monitors[x][y] /\ DownInFlight(x, y) = 0 /\ downsIn[y][x] = 0
          /\ monitors[x][y] \in Nat
      BY <1>3, <1>6, <1>7, <2>2
    <3> QED
      BY <3>1, <3>2
  <2>3. ASSUME x # a, Exited(x)', y \in actors'
        PROVE  watched[x][y] = downOut'[x][y] + DownInFlight(x, y) + downsIn[y][x]
    BY <1>2, <1>3, <1>5, <2>3 DEF MonitorLedger
  <2> QED
    BY <2>1, <2>2, <2>3 DEF MonitorLedger
<1> QED
  BY <1>8, <1>9, <1>10, <1>11, <1>12, <1>13

(* What every later step of an exit leaves alone. *)
LEMMA InvExitFrame ==
    ASSUME TypeOK, RegistryInv, NEW a \in Refs, pc[a] \in Exiting,
           UNCHANGED <<actors, nextId, links, linked, monitors, watched, child>>,
           \A b \in Refs \ {a} : pc'[b] = pc[b],
           pc'[a] \in Exiting \cup {"gone"},
           \A x, y \in Refs : /\ exitOut[x][y] = 0 => exitOut'[x][y] = 0
                              /\ downOut[x][y] = 0 => downOut'[x][y] = 0
    PROVE  /\ Lifecycle' /\ Spawning' /\ LinksSymmetric'
           /\ Exited(a) /\ a \notin actors
           /\ \A b \in Refs : Exited(b)' <=> Exited(b)
<1> USE DEF RegistryInv
<1>1. Exited(a) /\ a \notin actors /\ \A b \in Refs : Exited(b)' <=> Exited(b)
  BY DEF Exited, Lifecycle
<1>2. Lifecycle'
  <2>1. \A b \in Refs : b >= nextId => b # a
    BY DEF Lifecycle, Exiting
  <2> QED
    BY <1>1, <2>1 DEF Lifecycle
<1>3. Spawning'
  BY DEF Spawning, Exiting
<1>4. LinksSymmetric'
  BY DEF LinksSymmetric
<1> QED
  BY <1>1, <1>2, <1>3, <1>4

(* The decrement and the end of an exit. *)
LEMMA InvExitMove ==
    ASSUME TypeOK, RegistryInv, NEW a \in Refs, ExitDecrement(a) \/ ExitDone(a)
    PROVE  RegistryInv'
<1>1. /\ pc[a] \in {"decrement", "signal"} /\ pc'[a] \in {"signal", "gone"}
      /\ \A b \in Refs \ {a} : pc'[b] = pc[b]
      /\ UNCHANGED <<actors, nextId, links, linked, monitors, watched, child, exitOut,
                     downOut, target, exitsIn, downsIn>>
  BY DEF ExitDecrement, ExitDone, topology, signals, TypeOK
<1>2. pc'[a] = "gone" => \A b \in Refs : exitOut[a][b] = 0 /\ downOut[a][b] = 0
  BY ZeroType DEF ExitDecrement, ExitDone, TypeOK
<1>3. /\ Lifecycle' /\ Spawning' /\ LinksSymmetric'
      /\ Exited(a) /\ a \notin actors
      /\ \A b \in Refs : Exited(b)' <=> Exited(b)
  <2>1. pc[a] \in Exiting /\ pc'[a] \in Exiting \cup {"gone"}
    BY <1>1 DEF Exiting
  <2> QED
    BY <1>1, <2>1, InvExitFrame
<1>4. \A b \in Refs : /\ (pc'[b] = "deliverExit") <=> (pc[b] = "deliverExit")
                      /\ (pc'[b] = "deliverDown") <=> (pc[b] = "deliverDown")
                      /\ (b # a => pc'[b] = pc[b])
  BY <1>1
<1>5. Senders'
  BY <1>1, <1>2, <1>3, <1>4 DEF RegistryInv, Senders
<1>6. LinkLedger'
  BY <1>1, <1>3, <1>4 DEF RegistryInv, LinkLedger, ExitInFlight
<1>7. MonitorLedger'
  BY <1>1, <1>3, <1>4 DEF RegistryInv, MonitorLedger, DownInFlight
<1> QED
  BY <1>3, <1>5, <1>6, <1>7 DEF RegistryInv

(* An ExitSignal is looked up: for a registered receiver it is in flight. *)
LEMMA InvExitLookup ==
    ASSUME TypeOK, RegistryInv, NEW a \in Refs, NEW b \in Refs, ExitLookup(a, b)
    PROVE  RegistryInv'
<1>1. /\ pc[a] = "signal" /\ exitOut[a][b] > 0
      /\ UNCHANGED <<actors, nextId, links, linked, monitors, watched, child,
                     downOut, exitsIn, downsIn>>
      /\ \A x \in Refs \ {a} : pc'[x] = pc[x] /\ target'[x] = target[x]
      /\ b \in actors => pc'[a] = "deliverExit" /\ target'[a] = b
      /\ b \notin actors => pc'[a] = "signal"
  BY DEF ExitLookup, topology, TypeOK
<1>2. \A x, y \in Refs : /\ exitOut'[x][y] = IF x = a /\ y = b THEN exitOut[x][y] - 1
                                             ELSE exitOut[x][y]
                         /\ exitOut[x][y] \in Nat /\ exitsIn[x][y] \in Nat
                         /\ linked[x][y] \in Nat
  BY DEF ExitLookup, TypeOK, Table
<1>3. /\ Lifecycle' /\ Spawning' /\ LinksSymmetric'
      /\ Exited(a) /\ a \notin actors
      /\ \A x \in Refs : Exited(x)' <=> Exited(x)
  <2>1. pc[a] \in Exiting /\ pc'[a] \in Exiting \cup {"gone"}
    BY <1>1 DEF Exiting
  <2>2. \A x, y \in Refs : /\ exitOut[x][y] = 0 => exitOut'[x][y] = 0
                           /\ downOut[x][y] = 0 => downOut'[x][y] = 0
    BY <1>1, <1>2
  <2> QED
    BY <1>1, <2>1, <2>2, InvExitFrame
<1>4. /\ \A x, y \in Refs : x # a => ExitInFlight(x, y)' = ExitInFlight(x, y)
      /\ \A y \in Refs : ExitInFlight(a, y) = 0
      /\ \A y \in Refs : ExitInFlight(a, y)' = IF b \in actors /\ y = b THEN 1 ELSE 0
      /\ \A x, y \in Refs : DownInFlight(x, y)' = DownInFlight(x, y)
      /\ \A x, y \in Refs : ExitInFlight(x, y) \in {0, 1}
  BY <1>1 DEF ExitInFlight, DownInFlight
<1>5. Senders'
  <2>1. \A x \in Refs : /\ pc'[x] = "gone" => x # a /\ pc[x] = "gone"
                        /\ ~Exited(x)' => x # a /\ ~Exited(x)
                        /\ pc'[x] \in {"deliverExit", "deliverDown"} => target'[x] \in Refs
    BY <1>1, <1>3 DEF RegistryInv, Senders
  <2> QED
    BY <1>1, <1>2, <2>1 DEF RegistryInv, Senders
<1>6. LinkLedger'
  <2> SUFFICES ASSUME NEW x \in Refs, NEW y \in Refs, x # y
               PROVE  /\ linked[x][y] = linked[y][x]
                      /\ x \in actors /\ y \in actors => links[x][y] = linked[x][y]
                      /\ Exited(x) /\ y \in actors =>
                           linked[x][y] = exitOut'[x][y] + ExitInFlight(x, y)' + exitsIn[y][x]
                      /\ exitsIn[y][x] + ExitInFlight(x, y)' + exitsIn[x][y] + ExitInFlight(y, x)'
                           <= linked[x][y]
    BY <1>1, <1>3 DEF LinkLedger
  <2>1. /\ linked[x][y] = linked[y][x]
        /\ x \in actors /\ y \in actors => links[x][y] = linked[x][y]
        /\ Exited(x) /\ y \in actors =>
             linked[x][y] = exitOut[x][y] + ExitInFlight(x, y) + exitsIn[y][x]
        /\ Exited(y) /\ x \in actors =>
             linked[y][x] = exitOut[y][x] + ExitInFlight(y, x) + exitsIn[x][y]
        /\ exitsIn[y][x] + ExitInFlight(x, y) + exitsIn[x][y] + ExitInFlight(y, x)
             <= linked[x][y]
    BY DEF RegistryInv, LinkLedger
  <2>2. CASE x = a /\ y = b /\ b \in actors
    <3>1. exitsIn[x][y] = 0 /\ ExitInFlight(y, x) = 0 /\ ExitInFlight(y, x)' = 0
      <4>1. ~Exited(y) /\ y # a
        BY <1>3, <2>2 DEF RegistryInv, Lifecycle
      <4>2. exitsIn[x][y] = 0
        BY <4>1 DEF RegistryInv, Senders
      <4>3. ExitInFlight(y, x) = 0
        BY <4>1 DEF ExitInFlight, Exited, Exiting
      <4> QED
        BY <1>4, <4>1, <4>2, <4>3
    <3> QED
      BY <1>1, <1>2, <1>3, <1>4, <2>1, <2>2, <3>1
  <2>3. CASE y = a /\ x = b /\ b \in actors
    <3>1. exitsIn[y][x] = 0 /\ ExitInFlight(x, y) = 0 /\ ExitInFlight(x, y)' = 0 /\ ~Exited(x)
      <4>1. ~Exited(x) /\ x # a
        BY <1>3, <2>3 DEF RegistryInv, Lifecycle
      <4>2. exitsIn[y][x] = 0
        BY <4>1 DEF RegistryInv, Senders
      <4>3. ExitInFlight(x, y) = 0
        BY <4>1 DEF ExitInFlight, Exited, Exiting
      <4> QED
        BY <1>4, <4>1, <4>2, <4>3
    <3> QED
      BY <1>1, <1>2, <1>3, <1>4, <2>1, <2>3, <3>1
  <2>4. CASE /\ ~(x = a /\ y = b /\ b \in actors)
             /\ ~(y = a /\ x = b /\ b \in actors)
    <3>1. /\ ExitInFlight(x, y)' = ExitInFlight(x, y)
          /\ ExitInFlight(y, x)' = ExitInFlight(y, x)
          /\ y \in actors => exitOut'[x][y] = exitOut[x][y]
      BY <1>2, <1>4, <2>4
    <3> QED
      BY <2>1, <3>1
  <2> QED
    BY <2>2, <2>3, <2>4
<1>7. MonitorLedger'
  BY <1>1, <1>3, <1>4 DEF RegistryInv, MonitorLedger
<1> QED
  BY <1>3, <1>5, <1>6, <1>7 DEF RegistryInv

(* A DownSignal is looked up. *)
LEMMA InvDownLookup ==
    ASSUME TypeOK, RegistryInv, NEW a \in Refs, NEW b \in Refs, DownLookup(a, b)
    PROVE  RegistryInv'
<1>1. /\ pc[a] = "signal" /\ downOut[a][b] > 0
      /\ UNCHANGED <<actors, nextId, links, linked, monitors, watched, child,
                     exitOut, exitsIn, downsIn>>
      /\ \A x \in Refs \ {a} : pc'[x] = pc[x] /\ target'[x] = target[x]
      /\ b \in actors => pc'[a] = "deliverDown" /\ target'[a] = b
      /\ b \notin actors => pc'[a] = "signal"
  BY DEF DownLookup, topology, TypeOK
<1>2. \A x, y \in Refs : /\ downOut'[x][y] = IF x = a /\ y = b THEN downOut[x][y] - 1
                                             ELSE downOut[x][y]
                         /\ downOut[x][y] \in Nat /\ downsIn[x][y] \in Nat
                         /\ watched[x][y] \in Nat
  BY DEF DownLookup, TypeOK, Table
<1>3. /\ Lifecycle' /\ Spawning' /\ LinksSymmetric'
      /\ Exited(a) /\ a \notin actors
      /\ \A x \in Refs : Exited(x)' <=> Exited(x)
  <2>1. pc[a] \in Exiting /\ pc'[a] \in Exiting \cup {"gone"}
    BY <1>1 DEF Exiting
  <2>2. \A x, y \in Refs : /\ exitOut[x][y] = 0 => exitOut'[x][y] = 0
                           /\ downOut[x][y] = 0 => downOut'[x][y] = 0
    BY <1>1, <1>2
  <2> QED
    BY <1>1, <2>1, <2>2, InvExitFrame
<1>4. /\ \A x, y \in Refs : x # a => DownInFlight(x, y)' = DownInFlight(x, y)
      /\ \A y \in Refs : DownInFlight(a, y) = 0
      /\ \A y \in Refs : DownInFlight(a, y)' = IF b \in actors /\ y = b THEN 1 ELSE 0
      /\ \A x, y \in Refs : ExitInFlight(x, y)' = ExitInFlight(x, y)
  BY <1>1 DEF ExitInFlight, DownInFlight
<1>5. Senders'
  <2>1. \A x \in Refs : /\ pc'[x] = "gone" => x # a /\ pc[x] = "gone"
                        /\ ~Exited(x)' => x # a /\ ~Exited(x)
                        /\ pc'[x] \in {"deliverExit", "deliverDown"} => target'[x] \in Refs
    BY <1>1, <1>3 DEF RegistryInv, Senders
  <2> QED
    BY <1>1, <1>2, <2>1 DEF RegistryInv, Senders
<1>6. LinkLedger'
  BY <1>1, <1>3, <1>4 DEF RegistryInv, LinkLedger
<1>7. MonitorLedger'
  <2> SUFFICES ASSUME NEW x \in Refs, NEW y \in Refs
               PROVE  /\ x \in actors /\ y \in actors => monitors[x][y] = watched[x][y]
                      /\ Exited(x) /\ y \in actors =>
                           watched[x][y] = downOut'[x][y] + DownInFlight(x, y)' + downsIn[y][x]
                      /\ downsIn[y][x] + DownInFlight(x, y)' <= watched[x][y]
    BY <1>1, <1>3 DEF MonitorLedger
  <2>1. /\ x \in actors /\ y \in actors => monitors[x][y] = watched[x][y]
        /\ Exited(x) /\ y \in actors =>
             watched[x][y] = downOut[x][y] + DownInFlight(x, y) + downsIn[y][x]
        /\ downsIn[y][x] + DownInFlight(x, y) <= watched[x][y]
    BY DEF RegistryInv, MonitorLedger
  <2>2. CASE x = a /\ y = b /\ b \in actors
    BY <1>1, <1>2, <1>3, <1>4, <2>1, <2>2
  <2>3. CASE ~(x = a /\ y = b /\ b \in actors)
    <3>1. /\ DownInFlight(x, y)' = DownInFlight(x, y)
          /\ y \in actors => downOut'[x][y] = downOut[x][y]
      BY <1>2, <1>4, <2>3
    <3> QED
      BY <2>1, <3>1
  <2> QED
    BY <2>2, <2>3
<1> QED
  BY <1>3, <1>5, <1>6, <1>7 DEF RegistryInv

(* A signal in flight arrives in the mailbox of its target. *)
LEMMA InvDeliver ==
    ASSUME TypeOK, RegistryInv, NEW a \in Refs, Deliver(a)
    PROVE  RegistryInv'
<1> DEFINE t == target[a]
<1>1. /\ pc[a] \in {"deliverExit", "deliverDown"} /\ pc'[a] = "signal"
      /\ UNCHANGED <<actors, nextId, links, linked, monitors, watched, child,
                     exitOut, downOut>>
      /\ \A x \in Refs \ {a} : pc'[x] = pc[x] /\ target'[x] = target[x]
      /\ t \in Refs
  BY DEF Deliver, topology, TypeOK, RegistryInv, Senders
<1>2. /\ \A x, y \in Refs :
            exitsIn'[x][y] = IF pc[a] = "deliverExit" /\ x = t /\ y = a
                             THEN exitsIn[x][y] + 1 ELSE exitsIn[x][y]
      /\ \A x, y \in Refs :
            downsIn'[x][y] = IF pc[a] = "deliverDown" /\ x = t /\ y = a
                             THEN downsIn[x][y] + 1 ELSE downsIn[x][y]
  <2>1. exitsIn \in Table /\ downsIn \in Table
    BY DEF TypeOK
  <2>2. \A f \in Table : \A x, y \in Refs :
           Bump(f, t, a)[x][y] = IF x = t /\ y = a THEN f[x][y] + 1 ELSE f[x][y]
    <3> HIDE DEF t
    <3> QED
      BY <1>1, BumpType
  <2>3. CASE pc[a] = "deliverExit"
    <3>1. exitsIn' = Bump(exitsIn, t, a) /\ downsIn' = downsIn
      BY <2>3 DEF Deliver
    <3> QED
      BY <2>1, <2>2, <2>3, <3>1
  <2>4. CASE pc[a] = "deliverDown"
    <3>1. downsIn' = Bump(downsIn, t, a) /\ exitsIn' = exitsIn
      BY <2>4 DEF Deliver
    <3> QED
      BY <2>1, <2>2, <2>4, <3>1
  <2> QED
    BY <1>1, <2>3, <2>4
<1>3. /\ Lifecycle' /\ Spawning' /\ LinksSymmetric'
      /\ Exited(a) /\ a \notin actors
      /\ \A x \in Refs : Exited(x)' <=> Exited(x)
  <2>1. pc[a] \in Exiting /\ pc'[a] \in Exiting \cup {"gone"}
    BY <1>1 DEF Exiting
  <2> QED
    BY <1>1, <2>1, InvExitFrame
<1>4. /\ \A x, y \in Refs :
            /\ x # a => ExitInFlight(x, y)' = ExitInFlight(x, y)
            /\ x # a => DownInFlight(x, y)' = DownInFlight(x, y)
      /\ \A y \in Refs :
            /\ ExitInFlight(a, y)' = 0 /\ DownInFlight(a, y)' = 0
            /\ ExitInFlight(a, y) = IF pc[a] = "deliverExit" /\ y = t THEN 1 ELSE 0
            /\ DownInFlight(a, y) = IF pc[a] = "deliverDown" /\ y = t THEN 1 ELSE 0
  BY <1>1 DEF ExitInFlight, DownInFlight
<1>5. \A x, y \in Refs : exitsIn[x][y] \in Nat /\ downsIn[x][y] \in Nat
  BY DEF TypeOK, Table
<1> HIDE DEF t
<1>6. \A x, y \in Refs :
         /\ exitsIn'[y][x] + ExitInFlight(x, y)' = exitsIn[y][x] + ExitInFlight(x, y)
         /\ downsIn'[y][x] + DownInFlight(x, y)' = downsIn[y][x] + DownInFlight(x, y)
  BY <1>1, <1>2, <1>4, <1>5
<1>7. \A x, y \in Refs : /\ exitsIn'[x][y] \in Nat /\ downsIn'[x][y] \in Nat
                         /\ ExitInFlight(x, y) \in Nat /\ DownInFlight(x, y) \in Nat
                         /\ ExitInFlight(x, y)' \in Nat /\ DownInFlight(x, y)' \in Nat
                         /\ exitOut[x][y] \in Nat /\ downOut[x][y] \in Nat
  <2>1. \A x, y \in Refs : exitsIn'[x][y] \in Nat /\ downsIn'[x][y] \in Nat
    BY <1>2, <1>5
  <2>2. \A x, y \in Refs : exitOut[x][y] \in Nat /\ downOut[x][y] \in Nat
    BY DEF TypeOK, Table
  <2>3. \A x, y \in Refs : /\ ExitInFlight(x, y) \in Nat /\ DownInFlight(x, y) \in Nat
                           /\ ExitInFlight(x, y)' \in Nat /\ DownInFlight(x, y)' \in Nat
    BY DEF ExitInFlight, DownInFlight
  <2> QED
    BY <2>1, <2>2, <2>3
<1>8. Senders'
  <2>1. \A x \in Refs : /\ pc'[x] = "gone" => x # a /\ pc[x] = "gone"
                        /\ ~Exited(x)' => x # a /\ ~Exited(x)
                        /\ pc'[x] \in {"deliverExit", "deliverDown"} => target'[x] \in Refs
    BY <1>1, <1>3 DEF RegistryInv, Senders
  <2> QED
    BY <1>1, <1>2, <2>1 DEF RegistryInv, Senders
<1>9. LinkLedger'
  <2> SUFFICES ASSUME NEW x \in Refs, NEW y \in Refs, x # y
               PROVE  /\ linked[x][y] = linked[y][x]
                      /\ x \in actors /\ y \in actors => links[x][y] = linked[x][y]
                      /\ Exited(x) /\ y \in actors =>
                           linked[x][y] = exitOut[x][y] + ExitInFlight(x, y)' + exitsIn'[y][x]
                      /\ exitsIn'[y][x] + ExitInFlight(x, y)' + exitsIn'[x][y] + ExitInFlight(y, x)'
                           <= linked[x][y]
    BY <1>1, <1>3 DEF LinkLedger
  <2>1. /\ linked[x][y] = linked[y][x]
        /\ x \in actors /\ y \in actors => links[x][y] = linked[x][y]
        /\ Exited(x) /\ y \in actors =>
             linked[x][y] = exitOut[x][y] + ExitInFlight(x, y) + exitsIn[y][x]
        /\ exitsIn[y][x] + ExitInFlight(x, y) + exitsIn[x][y] + ExitInFlight(y, x)
             <= linked[x][y]
    BY DEF RegistryInv, LinkLedger
  <2> QED
    BY <1>5, <1>6, <1>7, <2>1, SMTT(40)
<1>10. MonitorLedger'
  <2> SUFFICES ASSUME NEW x \in Refs, NEW y \in Refs
               PROVE  /\ x \in actors /\ y \in actors => monitors[x][y] = watched[x][y]
                      /\ Exited(x) /\ y \in actors =>
                           watched[x][y] = downOut[x][y] + DownInFlight(x, y)' + downsIn'[y][x]
                      /\ downsIn'[y][x] + DownInFlight(x, y)' <= watched[x][y]
    BY <1>1, <1>3 DEF MonitorLedger
  <2>1. /\ x \in actors /\ y \in actors => monitors[x][y] = watched[x][y]
        /\ Exited(x) /\ y \in actors =>
             watched[x][y] = downOut[x][y] + DownInFlight(x, y) + downsIn[y][x]
        /\ downsIn[y][x] + DownInFlight(x, y) <= watched[x][y]
    BY DEF RegistryInv, MonitorLedger
  <2> QED
    BY <1>5, <1>6, <1>7, <2>1
<1> QED
  BY <1>3, <1>8, <1>9, <1>10 DEF RegistryInv

(* The invariant holds in the initial states. *)
LEMMA InvInit == Init => RegistryInv
<1> SUFFICES ASSUME Init PROVE RegistryInv
  OBVIOUS
<1>1. \A a, b \in Refs :
         /\ links[a][b] = 0 /\ linked[a][b] = 0 /\ monitors[a][b] = 0 /\ watched[a][b] = 0
         /\ exitOut[a][b] = 0 /\ downOut[a][b] = 0 /\ exitsIn[a][b] = 0 /\ downsIn[a][b] = 0
  BY DEF Init, Zeros, Zero
<1>2. \A a \in Refs : /\ pc[a] = IF a <= InitialActors THEN "run" ELSE "none"
                      /\ ~Exited(a) /\ pc[a] \notin {"count", "start", "deliverExit", "deliverDown"}
  BY DEF Init, Exited, Exiting
<1>3. \A a, b \in Refs : ExitInFlight(a, b) = 0 /\ DownInFlight(a, b) = 0
  BY <1>2 DEF ExitInFlight, DownInFlight
<1>4. Lifecycle
  BY <1>1, <1>2, ActorsAssumption DEF Init, Lifecycle, Refs
<1>5. Spawning /\ Senders /\ LinksSymmetric
  BY <1>1, <1>2 DEF Spawning, Senders, LinksSymmetric, Exiting, Exited
<1>6. LinkLedger /\ MonitorLedger
  BY <1>1, <1>2, <1>3 DEF LinkLedger, MonitorLedger
<1> QED
  BY <1>4, <1>5, <1>6 DEF RegistryInv

(* Every step keeps the invariant. *)
LEMMA InvStep == TypeOK /\ RegistryInv /\ [Next]_vars => RegistryInv'
<1> SUFFICES ASSUME TypeOK, RegistryInv, [Next]_vars PROVE RegistryInv'
  OBVIOUS
<1>1. CASE UNCHANGED vars
  BY <1>1 DEF vars, RegistryInv, Lifecycle, Spawning, Senders, LinksSymmetric, LinkLedger,
              MonitorLedger, Exited, ExitInFlight, DownInFlight
<1>2. ASSUME NEW a \in Refs, Step(a) PROVE RegistryInv'
  <2>1. CASE SpawnPlain(a) \/ \E b \in Refs : SpawnLink(a, b) \/ SpawnMonitor(a, b)
    BY <2>1, InvSpawn
  <2>2. CASE SpawnCount(a) \/ SpawnStart(a)
    BY <2>2, InvSpawnRest
  <2>3. ASSUME NEW b \in Refs, NEW c \in Refs, Link(a, b, c) \/ Monitor(a, b, c)
        PROVE  RegistryInv'
    BY <2>3, InvLink
  <2>4. CASE ExitCollect(a)
    BY <2>4, InvExitCollect
  <2>5. CASE ExitDecrement(a) \/ ExitDone(a)
    BY <2>5, InvExitMove
  <2>6. ASSUME NEW b \in Refs, ExitLookup(a, b) PROVE RegistryInv'
    BY <2>6, InvExitLookup
  <2>7. ASSUME NEW b \in Refs, DownLookup(a, b) PROVE RegistryInv'
    BY <2>7, InvDownLookup
  <2>8. CASE Deliver(a)
    BY <2>8, InvDeliver
  <2> QED
    BY <1>2, <2>1, <2>2, <2>3, <2>4, <2>5, <2>6, <2>7, <2>8 DEF Step, ExitStep
<1> QED
  BY <1>1, <1>2 DEF Next, Done

(* Whatever spawns, links, monitors and exits interleave, and for any      *)
(* number of actors: links_ stays symmetric, every actor that survives a   *)
(* completed exit has exactly one ExitSignal per link and one DownSignal   *)
(* per monitor, and no signal is sent that no link or monitor stands for.  *)
THEOREM SignalsExact ==
    Spec => [](LinksSymmetric /\ SignalsReachSurvivors /\ NoSpuriousSignals)
<1>1. ASSUME TypeOK, RegistryInv
      PROVE  LinksSymmetric /\ SignalsReachSurvivors /\ NoSpuriousSignals
  <2>1. \A a, b \in Refs : /\ exitsIn[a][b] \in Nat /\ downsIn[a][b] \in Nat
                           /\ ExitInFlight(a, b) \in Nat /\ DownInFlight(a, b) \in Nat
                           /\ linked[a][b] \in Nat /\ watched[a][b] \in Nat
    BY <1>1 DEF TypeOK, Table, ExitInFlight, DownInFlight
  <2>2. ASSUME NEW a \in Refs, pc[a] = "gone"
        PROVE  /\ Exited(a)
               /\ \A b \in Refs : /\ exitOut[a][b] = 0 /\ downOut[a][b] = 0
                                  /\ ExitInFlight(a, b) = 0 /\ DownInFlight(a, b) = 0
    BY <1>1, <2>2 DEF Exited, ExitInFlight, DownInFlight, RegistryInv, Senders
  <2>3. ExitSignalsReachSurvivors
    BY <1>1, <2>1, <2>2 DEF ExitSignalsReachSurvivors, RegistryInv, LinkLedger
  <2>4. DownSignalsReachWatchers
    BY <1>1, <2>1, <2>2 DEF DownSignalsReachWatchers, RegistryInv, MonitorLedger
  <2>5. NoSpuriousSignals
    <3> SUFFICES ASSUME NEW a \in Refs, NEW b \in Refs
                 PROVE  /\ a # b => exitsIn[b][a] + exitsIn[a][b] <= linked[a][b]
                        /\ downsIn[b][a] <= watched[a][b]
      BY DEF NoSpuriousSignals
    <3>1. /\ a # b => exitsIn[b][a] + ExitInFlight(a, b) + exitsIn[a][b] + ExitInFlight(b, a)
                        <= linked[a][b]
          /\ downsIn[b][a] + DownInFlight(a, b) <= watched[a][b]
      BY <1>1 DEF RegistryInv, LinkLedger, MonitorLedger
    <3> QED
      BY <2>1, <3>1
  <2> QED
    BY <1>1, <2>3, <2>4, <2>5 DEF RegistryInv, SignalsReachSurvivors
<1> QED
  BY <1>1, TypeCorrect, InvInit, InvStep, PTL DEF Spec

(* No ExitSignal or DownSignal is delivered that no link or monitor stands *)
(* for, and none twice, whatever exits interleave.                         *)
THEOREM NoSignalInvented == Spec => []NoSpuriousSignals
BY SignalsExact, PTL
-----------------------------------------------------------------------------
(* The count of active actors. *)

LEMMA CountedFinite ==
    ASSUME TypeOK
    PROVE  IsFiniteSet(Counted) /\ Cardinality(Counted) \in Nat
<1>1. IsFiniteSet(Refs)
  BY ActorsAssumption, FS_Interval DEF Refs
<1>2. Counted \in SUBSET Refs
  BY DEF Counted, TypeOK
<1>3. IsFiniteSet(Counted)
  BY <1>1, <1>2, FS_Subset
<1> QED
  BY <1>3, FS_CardinalityType

(* A spawner is counted, so a registry without counted actors is empty. *)
LEMMA NoneCounted ==
    ASSUME TypeOK, RegistryInv, Counted = {}
    PROVE  actors = {}
<1> USE DEF RegistryInv
<1> SUFFICES ASSUME NEW a \in actors PROVE FALSE
  OBVIOUS
<1>1. PICK s \in Refs : pc[s] = "count" /\ child[s] = a
  BY DEF Counted
<1>2. s \in actors
  <2>1. nextId \in Int /\ s \in Int
    BY DEF TypeOK, Refs
  <2>2. s < nextId
    BY <1>1, <2>1 DEF Lifecycle
  <2> QED
    BY <1>1, <2>2 DEF Lifecycle, Exited, Exiting
<1>3. PICK r \in Refs : pc[r] = "count" /\ child[r] = s
  BY <1>2 DEF Counted
<1>4. pc[s] = "none"
  BY <1>3 DEF Spawning
<1> QED
  BY <1>1, <1>4

(* active_actor_count_ is exact at every step between the registration of  *)
(* an actor and its erasure.                                               *)
LEMMA CountStep ==
    ASSUME TypeOK, RegistryInv, ShutdownMeansEmpty, [Next]_vars
    PROVE  ShutdownMeansEmpty'
<1> USE DEF RegistryInv, topology, signals
<1>1. /\ IsFiniteSet(Counted) /\ Cardinality(Counted) \in Nat /\ count = Cardinality(Counted)
      /\ shutdown => actors = {}
  BY CountedFinite DEF ShutdownMeansEmpty
<1>2. ASSUME NEW a \in Refs, pc[a] \notin {"none"} \cup Exiting \cup {"gone"} PROVE a \in actors
  <2>1. nextId \in Int /\ a \in Int
    BY DEF TypeOK, Refs
  <2>2. a < nextId
    BY <1>2, <2>1 DEF Lifecycle
  <2> QED
    BY <1>2, <2>2 DEF Lifecycle, Exited
<1>3. ASSUME UNCHANGED <<actors, child>>,
             \A b \in Refs : /\ (pc'[b] = "count") <=> (pc[b] = "count")
                             /\ (pc'[b] = "decrement") <=> (pc[b] = "decrement")
      PROVE  Counted' = Counted
  BY <1>3 DEF Counted
<1>4. ASSUME Counted' = Counted, UNCHANGED <<count, shutdown>>, actors' = actors \/ actors # {}
      PROVE  ShutdownMeansEmpty'
  BY <1>1, <1>4 DEF ShutdownMeansEmpty
<1>5. ASSUME NEW a \in Refs, Spawn(a) PROVE ShutdownMeansEmpty'
  <2>1. /\ pc[a] = "run" /\ actors' = actors \cup {nextId} /\ nextId \in Refs
        /\ \A s \in Refs : /\ pc'[s] = IF s = a THEN "count" ELSE pc[s]
                           /\ child'[s] = IF s = a THEN nextId ELSE child[s]
        /\ UNCHANGED <<count, shutdown>>
    BY <1>5 DEF Spawn, TypeOK, Refs
  <2>2. a \in actors
    BY <1>2, <2>1 DEF Exiting
  <2>3. nextId \notin actors /\ pc[nextId] = "none"
    BY <2>1 DEF Lifecycle, Refs
  <2>4. Counted' = Counted
    BY <2>1, <2>2, <2>3 DEF Counted
  <2> QED
    BY <1>4, <2>1, <2>2, <2>4
<1>6. ASSUME NEW a \in Refs, SpawnCount(a) PROVE ShutdownMeansEmpty'
  <2> DEFINE c == child[a]
  <2>1. /\ pc[a] = "count" /\ count' = count + 1 /\ UNCHANGED <<actors, child, shutdown>>
        /\ \A s \in Refs : pc'[s] = IF s = a THEN "start" ELSE pc[s]
    BY <1>6 DEF SpawnCount, TypeOK
  <2>2. c \in Refs /\ c < nextId /\ pc[c] = "none"
    BY <2>1 DEF Spawning
  <2>3. c \in actors
    BY <2>2 DEF Lifecycle, Exited, Exiting
  <2>4. \A s \in Refs : s # a /\ pc[s] = "count" => child[s] # c
    BY <2>1 DEF Spawning
  <2>5. c \notin Counted
    BY <2>1, <2>2 DEF Counted
  <2>6. Counted' = Counted \cup {c}
    <3>1. ASSUME NEW x \in Counted' PROVE x \in Counted \cup {c}
      BY <2>1, <3>1 DEF Counted
    <3>2. ASSUME NEW x \in Counted \cup {c} PROVE x \in Counted'
      BY <2>1, <2>3, <2>4, <3>2 DEF Counted
    <3> QED
      BY <3>1, <3>2
  <2>7. Cardinality(Counted') = Cardinality(Counted) + 1
    BY <1>1, <2>5, <2>6, FS_AddElement
  <2> QED
    BY <1>1, <2>1, <2>7 DEF ShutdownMeansEmpty
<1>7. ASSUME NEW a \in Refs, SpawnStart(a) PROVE ShutdownMeansEmpty'
  <2>1. child[a] \in Refs /\ pc[child[a]] = "none" /\ pc[a] = "start"
    BY <1>7 DEF SpawnStart, Spawning
  <2>2. /\ \A b \in Refs : pc'[b] = IF b = a \/ b = child[a] THEN "run" ELSE pc[b]
        /\ UNCHANGED <<actors, child, count, shutdown>>
    BY <1>7, <2>1 DEF SpawnStart, TypeOK
  <2>3. Counted' = Counted
    BY <1>3, <2>1, <2>2
  <2> QED
    BY <1>4, <2>2, <2>3
<1>8. ASSUME NEW a \in Refs, NEW b \in Refs, NEW c \in Refs, Link(a, b, c) \/ Monitor(a, b, c)
      PROVE  ShutdownMeansEmpty'
  <2>1. UNCHANGED <<actors, child, pc, count, shutdown>>
    BY <1>8 DEF Link, Monitor
  <2> QED
    BY <1>3, <1>4, <2>1
<1>9. ASSUME NEW a \in Refs, ExitCollect(a) PROVE ShutdownMeansEmpty'
  <2>1. /\ pc[a] = "run" /\ actors' = actors \ {a} /\ UNCHANGED <<child, count, shutdown>>
        /\ \A s \in Refs : pc'[s] = IF s = a THEN "decrement" ELSE pc[s]
    BY <1>9 DEF ExitCollect, TypeOK
  <2>2. a \in actors
    BY <1>2, <2>1 DEF Exiting
  <2>3. \A s \in Refs : pc[s] = "count" => child[s] # a
    BY <2>1 DEF Spawning
  <2>4. Counted' = Counted
    BY <2>1, <2>2, <2>3 DEF Counted
  <2> QED
    BY <1>4, <2>1, <2>2, <2>4
<1>10. ASSUME NEW a \in Refs, ExitDecrement(a) PROVE ShutdownMeansEmpty'
  <2>1. /\ pc[a] = "decrement" /\ count' = count - 1 /\ UNCHANGED <<actors, child, shutdown>>
        /\ \A s \in Refs : pc'[s] = IF s = a THEN "signal" ELSE pc[s]
    BY <1>10 DEF ExitDecrement, TypeOK
  <2>2. a \notin actors /\ a \in Counted
    BY <2>1 DEF Lifecycle, Exited, Exiting, Counted
  <2>3. Counted' = Counted \ {a}
    BY <2>1, <2>2 DEF Counted
  <2>4. Cardinality(Counted') = Cardinality(Counted) - 1
    BY <1>1, <2>2, <2>3, FS_RemoveElement
  <2> QED
    BY <1>1, <2>1, <2>4 DEF ShutdownMeansEmpty
<1>11. ASSUME NEW a \in Refs, NEW b \in Refs, ExitLookup(a, b) \/ DownLookup(a, b)
       PROVE  ShutdownMeansEmpty'
  <2>1. /\ UNCHANGED <<actors, child, count, shutdown>> /\ pc[a] = "signal"
        /\ \A s \in Refs : pc'[s] = pc[s] \/ (s = a /\ pc'[s] \in {"deliverExit", "deliverDown"})
    BY <1>11 DEF ExitLookup, DownLookup, TypeOK
  <2>2. Counted' = Counted
    BY <1>3, <2>1
  <2> QED
    BY <1>4, <2>1, <2>2
<1>12. ASSUME NEW a \in Refs, Deliver(a) PROVE ShutdownMeansEmpty'
  <2>1. /\ UNCHANGED <<actors, child, count, shutdown>> /\ pc[a] \in {"deliverExit", "deliverDown"}
        /\ \A s \in Refs : pc'[s] = IF s = a THEN "signal" ELSE pc[s]
    BY <1>12 DEF Deliver, TypeOK
  <2>2. Counted' = Counted
    BY <1>3, <2>1
  <2> QED
    BY <1>4, <2>1, <2>2
<1>13. ASSUME NEW a \in Refs, ExitDone(a) PROVE ShutdownMeansEmpty'
  <2>1. /\ UNCHANGED <<actors, child, count>> /\ pc[a] = "signal"
        /\ shutdown' = (shutdown \/ count = 0)
        /\ \A s \in Refs : pc'[s] = IF s = a THEN "gone" ELSE pc[s]
    BY <1>13 DEF ExitDone, TypeOK
  <2>2. Counted' = Counted
    BY <1>3, <2>1
  <2>3. ASSUME count = 0 PROVE actors = {}
    <3>1. Counted = {}
      BY <1>1, <2>3, FS_EmptySet
    <3> QED
      BY <3>1, NoneCounted
  <2>4. shutdown' => actors' = {}
    BY <1>1, <2>1, <2>3, Zenon
  <2> QED
    BY <1>1, <2>1, <2>2, <2>4 DEF ShutdownMeansEmpty
<1>14. CASE UNCHANGED vars
  BY <1>1, <1>14 DEF ShutdownMeansEmpty, Counted, vars
<1> QED
  BY <1>5, <1>6, <1>7, <1>8, <1>9, <1>10, <1>11, <1>12, <1>13, <1>14
  DEF Next, Step, ExitStep, Done, SpawnPlain, SpawnLink, SpawnMonitor

(* active_actor_count_ is exact and the scheduler shuts down only when no  *)
(* actor is registered, for any number of actors: the count that is behind *)
(* the registry in a spawn never lets the last other exit end run().       *)
THEOREM ShutdownWhenEmpty == Spec => []ShutdownMeansEmpty
<1>1. ASSUME Init PROVE ShutdownMeansEmpty
  <2>1. \A a \in Refs : pc[a] \in {"run", "none"}
    BY <1>1 DEF Init
  <2>2. actors = 1..InitialActors /\ actors \subseteq Refs /\ count = InitialActors /\ ~shutdown
    BY <1>1, ActorsAssumption DEF Init, Refs
  <2>3. Counted = 1..InitialActors
    BY <2>1, <2>2 DEF Counted
  <2>4. Cardinality(1..InitialActors) = InitialActors
    <3>1. InitialActors \in Nat
      BY ActorsAssumption
    <3> QED
      BY <3>1, FS_Interval
  <2> QED
    BY <2>2, <2>3, <2>4 DEF ShutdownMeansEmpty
<1> QED
  BY <1>1, TypeCorrect, InvInit, InvStep, CountStep, PTL DEF Spec

=============================================================================

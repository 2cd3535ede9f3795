------------------------------ MODULE Registry ------------------------------
(***************************************************************************)
(* The actor registry of include/agner/scheduler_base.hpp: spawning,       *)
(* links, monitors, and the signals of an actor's exit, with the shutdown  *)
(* test that include/agner/mt_scheduler.hpp adds to an exit.               *)
(*                                                                         *)
(* Every actor is a thread of control here: MtScheduler runs different     *)
(* actors on different workers, and a worker holds base_mutex_ only for    *)
(* one registry access.  A spawn is the locked registration, the increment *)
(* of active_actor_count_ and the scheduling of the child; an exit is the  *)
(* locked collection of its signals, the decrement, then for every signal  *)
(* a locked look-up and an unlocked delivery.                              *)
(*                                                                         *)
(* links_ and monitors_ are maps to vectors; links[a][b] is how often b    *)
(* occurs in links_[a] (the order of a vector is the order in which        *)
(* signals to different actors leave, and is left open).  Actors never     *)
(* link to themselves: notify_exit would erase from the vector it is       *)
(* iterating over.                                                         *)
(***************************************************************************)
EXTENDS Integers, FiniteSets

CONSTANTS
    MaxActors,     \* bound: actors spawned in a behaviour
    InitialActors, \* actors spawned before run()
    MaxTopology    \* bound: links and monitors established in a behaviour

ASSUME ActorsAssumption ==
    MaxActors \in Nat /\ InitialActors \in 1..MaxActors /\ MaxTopology \in Nat

Refs == 1..MaxActors
NoRef == 0          \* ActorRef{}

VARIABLES
    actors,     \* keys of actors_
    nextId,     \* next_actor_id_
    links,      \* links_
    monitors,   \* monitors_[target][watcher]
    count,      \* active_actor_count_
    pc,         \* pc[a]: where actor a's thread is
    child,      \* child[a]: the actor that a is spawning
    exitOut,    \* exitOut[a][b]: ExitSignals to b that a has collected
    downOut,    \* downOut[a][b]: DownSignals to b that a has collected
    target,     \* target[a]: where a's looked-up signal goes
    exitsIn,    \* exitsIn[b][a]: ExitSignals of a put in b's mailbox
    downsIn,    \* downsIn[b][a]: DownSignals of a put in b's mailbox
    linked,     \* linked[a][b]: links ever made between a and b, both registered
    watched,    \* watched[a][b]: monitors of a ever made for b, both registered
    ops,        \* links and monitors made so far, for MaxTopology
    shutdown    \* shutdown_

topology == <<links, monitors, linked, watched, ops>>
signals == <<exitOut, downOut, target, exitsIn, downsIn>>
vars == <<actors, nextId, links, monitors, count, pc, child, exitOut, downOut,
          target, exitsIn, downsIn, linked, watched, ops, shutdown>>

Stages == {"none", "run", "count", "start", "decrement", "signal",
           "deliverExit", "deliverDown", "gone"}
Exiting == {"decrement", "signal", "deliverExit", "deliverDown"}

Zero == [b \in Refs |-> 0]
Zeros == [a \in Refs |-> Zero]

Init ==
    /\ actors = 1..InitialActors
    /\ nextId = InitialActors + 1
    /\ links = Zeros
    /\ monitors = Zeros
    /\ count = InitialActors
    /\ pc = [a \in Refs |-> IF a <= InitialActors THEN "run" ELSE "none"]
    /\ child = Zero
    /\ exitOut = Zeros
    /\ downOut = Zeros
    /\ target = Zero
    /\ exitsIn = Zeros
    /\ downsIn = Zeros
    /\ linked = Zeros
    /\ watched = Zeros
    /\ ops = 0
    /\ shutdown = FALSE

-----------------------------------------------------------------------------
Issued == 1..(nextId - 1)

(* One more entry in row a for b; in both directions. *)
Bump(f, a, b) == [f EXCEPT ![a][b] = @ + 1]

Both(f, a, b) ==
    [c \in Refs |-> [d \in Refs |->
        IF (c = a /\ d = b) \/ (c = b /\ d = a) THEN f[c][d] + 1 ELSE f[c][d]]]

(* The history the signals are compared with: links and monitors made      *)
(* between actors that were both registered.                               *)
LinkHistory(f, a, b, live) ==
    [c \in Refs |-> [d \in Refs |->
        IF a \in live /\ b \in live /\ ((c = a /\ d = b) \/ (c = b /\ d = a))
        THEN f[c][d] + 1 ELSE f[c][d]]]

MonitorHistory(f, t, watcher, live) ==
    IF t \in live /\ watcher \in live THEN Bump(f, t, watcher) ELSE f

(* spawn_impl, the locked part, for the caller a.  A linker or a watcher   *)
(* is any reference handed out so far: nothing checks that it still lives. *)
Spawn(a) ==
    /\ pc[a] = "run"
    /\ nextId <= MaxActors
    /\ actors' = actors \cup {nextId}
    /\ nextId' = nextId + 1
    /\ child' = [child EXCEPT ![a] = nextId]
    /\ pc' = [pc EXCEPT ![a] = "count"]
    /\ UNCHANGED <<count, signals, shutdown>>

SpawnPlain(a) == Spawn(a) /\ UNCHANGED topology

SpawnLink(a, linker) ==
    /\ Spawn(a)
    /\ linker \in Issued
    /\ ops < MaxTopology
    /\ links' = Both(links, linker, nextId)
    /\ linked' = LinkHistory(linked, linker, nextId, actors')
    /\ ops' = ops + 1
    /\ UNCHANGED <<monitors, watched>>

SpawnMonitor(a, watcher) ==
    /\ Spawn(a)
    /\ watcher \in Issued
    /\ ops < MaxTopology
    /\ monitors' = Bump(monitors, nextId, watcher)
    /\ watched' = MonitorHistory(watched, nextId, watcher, actors')
    /\ ops' = ops + 1
    /\ UNCHANGED <<links, linked>>

WrongSpawnCount(a) ==
    /\ pc[a] = "count"
    /\ pc' = [pc EXCEPT ![a] = "start"]
    /\ UNCHANGED <<actors, nextId, topology, count, child, signals, shutdown>>

(* spawn_impl: active_actor_count_.fetch_add. *)
SpawnCount(a) ==
    /\ pc[a] = "count"
    /\ count' = count + 1
    /\ pc' = [pc EXCEPT ![a] = "start"]
    /\ UNCHANGED <<actors, nextId, topology, child, signals, shutdown>>

(* spawn_impl: run_actor(...).detach, after which the child may run. *)
SpawnStart(a) ==
    /\ pc[a] = "start"
    /\ pc' = [pc EXCEPT ![a] = "run", ![child[a]] = "run"]
    /\ UNCHANGED <<actors, nextId, topology, count, child, signals, shutdown>>

(* link: at() throws, and nothing happens, unless both are registered. *)
Link(a, left, right) ==
    /\ pc[a] = "run"
    /\ left # right
    /\ left \in actors /\ right \in actors
    /\ ops < MaxTopology
    /\ links' = Both(links, left, right)
    /\ linked' = LinkHistory(linked, left, right, actors)
    /\ ops' = ops + 1
    /\ UNCHANGED <<actors, nextId, monitors, watched, count, pc, child, signals, shutdown>>

(* monitor, likewise. *)
Monitor(a, watcher, t) ==
    /\ pc[a] = "run"
    /\ watcher \in actors /\ t \in actors
    /\ ops < MaxTopology
    /\ monitors' = Bump(monitors, t, watcher)
    /\ watched' = MonitorHistory(watched, t, watcher, actors)
    /\ ops' = ops + 1
    /\ UNCHANGED <<actors, nextId, links, linked, count, pc, child, signals, shutdown>>

-----------------------------------------------------------------------------
(* The exit of an actor: run_actor calls on_actor_exit. *)

(* links_ without a: its own entry, and a in the entries of its links. *)
Unlinked(f, a) ==
    [b \in Refs |-> IF b = a THEN Zero
                    ELSE IF f[a][b] > 0 THEN [f[b] EXCEPT ![a] = 0] ELSE f[b]]

(* notify_exit, the locked part. *)
ExitCollect(a) ==
    /\ pc[a] = "run"
    /\ exitOut' = [exitOut EXCEPT ![a] = links[a]]
    /\ links' = Unlinked(links, a)
    /\ downOut' = [downOut EXCEPT ![a] = monitors[a]]
    /\ monitors' = [monitors EXCEPT ![a] = Zero]
    /\ actors' = actors \ {a}
    /\ pc' = [pc EXCEPT ![a] = "decrement"]
    /\ UNCHANGED <<nextId, linked, watched, ops, count, child, target, exitsIn,
                   downsIn, shutdown>>

(* notify_exit: active_actor_count_.fetch_sub. *)
ExitDecrement(a) ==
    /\ pc[a] = "decrement"
    /\ count' = count - 1
    /\ pc' = [pc EXCEPT ![a] = "signal"]
    /\ UNCHANGED <<actors, nextId, topology, child, signals, shutdown>>

WrongExitLookup(a, b) ==
    /\ pc[a] = "signal"
    /\ exitOut' = [exitOut EXCEPT ![a][b] = @ - 1]
    /\ pc' = IF b \in actors THEN [pc EXCEPT ![a] = "deliverExit"] ELSE pc
    /\ target' = IF b \in actors THEN [target EXCEPT ![a] = b] ELSE target
    /\ UNCHANGED <<actors, nextId, topology, count, child, downOut, exitsIn,
                   downsIn, shutdown>>

(* send of an ExitSignal, the locked look-up of b. *)
ExitLookup(a, b) ==
    /\ pc[a] = "signal"
    /\ exitOut[a][b] > 0
    /\ exitOut' = [exitOut EXCEPT ![a][b] = @ - 1]
    /\ \/ /\ b \in actors
          /\ target' = [target EXCEPT ![a] = b]
          /\ pc' = [pc EXCEPT ![a] = "deliverExit"]
       \/ /\ b \notin actors
          /\ UNCHANGED <<target, pc>>
    /\ UNCHANGED <<actors, nextId, topology, count, child, downOut, exitsIn,
                   downsIn, shutdown>>

(* ... and of a DownSignal, once all ExitSignals have left. *)
DownLookup(a, b) ==
    /\ pc[a] = "signal"
    /\ exitOut[a] = Zero
    /\ downOut[a][b] > 0
    /\ downOut' = [downOut EXCEPT ![a][b] = @ - 1]
    /\ \/ /\ b \in actors
          /\ target' = [target EXCEPT ![a] = b]
          /\ pc' = [pc EXCEPT ![a] = "deliverDown"]
       \/ /\ b \notin actors
          /\ UNCHANGED <<target, pc>>
    /\ UNCHANGED <<actors, nextId, topology, count, child, exitOut, exitsIn,
                   downsIn, shutdown>>

WrongDeliver(a) ==
    /\ pc[a] \in {"deliverExit", "deliverDown"}
    /\ exitsIn' = Bump(exitsIn, target[a], a)
    /\ pc' = [pc EXCEPT ![a] = "signal"]
    /\ target' = [target EXCEPT ![a] = NoRef]
    /\ UNCHANGED <<actors, nextId, topology, count, child, exitOut, downOut, downsIn, shutdown>>

(* send, after the unlock: the copied function pushes to the mailbox. *)
Deliver(a) ==
    /\ \/ /\ pc[a] = "deliverExit"
          /\ exitsIn' = Bump(exitsIn, target[a], a)
          /\ UNCHANGED downsIn
       \/ /\ pc[a] = "deliverDown"
          /\ downsIn' = Bump(downsIn, target[a], a)
          /\ UNCHANGED exitsIn
    /\ pc' = [pc EXCEPT ![a] = "signal"]
    /\ target' = [target EXCEPT ![a] = NoRef]
    /\ UNCHANGED <<actors, nextId, topology, count, child, exitOut, downOut, shutdown>>

WrongExitDone(a) ==
    /\ pc[a] = "signal"
    /\ exitOut[a] = Zero
    /\ pc' = [pc EXCEPT ![a] = "gone"]
    /\ shutdown' = (shutdown \/ count = 0)
    /\ UNCHANGED <<actors, nextId, topology, count, child, signals>>

(* MtScheduler::on_actor_exit, after notify_exit: the last one shuts down. *)
ExitDone(a) ==
    /\ pc[a] = "signal"
    /\ exitOut[a] = Zero /\ downOut[a] = Zero
    /\ pc' = [pc EXCEPT ![a] = "gone"]
    /\ shutdown' = (shutdown \/ count = 0)
    /\ UNCHANGED <<actors, nextId, topology, count, child, signals>>

-----------------------------------------------------------------------------
ExitStep(a) ==
    \/ ExitDecrement(a)
    \/ \E b \in Refs : ExitLookup(a, b) \/ DownLookup(a, b)
    \/ Deliver(a)
    \/ ExitDone(a)

Step(a) ==
    \/ SpawnPlain(a)
    \/ \E b \in Refs : SpawnLink(a, b) \/ SpawnMonitor(a, b)
    \/ SpawnCount(a) \/ SpawnStart(a)
    \/ \E b, c \in Refs : Link(a, b, c) \/ Monitor(a, b, c)
    \/ ExitCollect(a)
    \/ ExitStep(a)

(* All actors have exited and run() has returned. *)
Done == (\A a \in Refs : pc[a] \in {"none", "gone"}) /\ UNCHANGED vars

Next == (\E a \in Refs : Step(a)) \/ Done

Spec == Init /\ [][Next]_vars

-----------------------------------------------------------------------------
(* Properties. *)

Table == [Refs -> [Refs -> Nat]]

(* Every variable keeps its type. *)
TypeOK ==
    /\ actors \subseteq Refs
    /\ nextId \in 1..(MaxActors + 1)
    /\ links \in Table /\ monitors \in Table
    /\ count \in Int
    /\ pc \in [Refs -> Stages]
    /\ child \in [Refs -> Refs \cup {NoRef}]
    /\ exitOut \in Table /\ downOut \in Table
    /\ target \in [Refs -> Refs \cup {NoRef}]
    /\ exitsIn \in Table /\ downsIn \in Table
    /\ linked \in Table /\ watched \in Table
    /\ ops \in Nat
    /\ shutdown \in BOOLEAN

(* links_ is symmetric, entry by entry, whatever exits interleave. *)
LinksSymmetric == \A a, b \in Refs : links[a][b] = links[b][a]

(* Once an actor's exit is complete, every actor still registered has got  *)
(* one ExitSignal for every link the two ever had ...                      *)
ExitSignalsReachSurvivors ==
    \A a, b \in Refs : a # b /\ pc[a] = "gone" /\ b \in actors => exitsIn[b][a] = linked[a][b]

(* ... and one DownSignal for every monitor it had on it. *)
DownSignalsReachWatchers ==
    \A a, b \in Refs : pc[a] = "gone" /\ b \in actors => downsIn[b][a] = watched[a][b]

(* Nobody who outlives an actor misses its exit, however spawns, links,    *)
(* monitors and other exits interleave with the collection and delivery of *)
(* its signals in notify_exit.                                             *)
SignalsReachSurvivors == ExitSignalsReachSurvivors /\ DownSignalsReachWatchers

(* A link is signalled at one end only and once, a monitor once. *)
NoSpuriousSignals ==
    \A a, b \in Refs :
        /\ a # b => exitsIn[b][a] + exitsIn[a][b] <= linked[a][b]
        /\ downsIn[b][a] <= watched[a][b]

(* The actors that active_actor_count_ counts: the registered ones whose   *)
(* spawner has added them, and the erased ones not yet subtracted.         *)
Counted ==
    {a \in actors : \A s \in Refs : pc[s] = "count" => child[s] # a}
        \cup {a \in Refs : pc[a] = "decrement"}

(* active_actor_count_ is exact, so it never wraps below zero, and the     *)
(* scheduler shuts down only when no actor is registered, though an actor  *)
(* is registered before it is counted and uncounted after it is erased.    *)
ShutdownMeansEmpty ==
    /\ count = Cardinality(Counted)
    /\ shutdown => actors = {}

=============================================================================

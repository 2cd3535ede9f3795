---------------------------- MODULE MtScheduler ----------------------------
(***************************************************************************)
(* The work-stealing scheduler of include/agner/mt_scheduler.hpp: worker   *)
(* threads that take coroutine handles from their own deque, from the      *)
(* injection queue or from each other, and the thread inside run(), which  *)
(* serves the timers and waits for the last actor.                         *)
(*                                                                         *)
(* A handle stands for its actor.  What an actor does between two          *)
(* suspensions is a choice: spawn, wake a waiting actor by a message, wait *)
(* with or without a timeout, exit.  Mailboxes are abstract (Receive.tla   *)
(* has them), but the threads meet at every step of actor.hpp that touches *)
(* a handle: pending_ is published before the timer is armed, a sender     *)
(* schedules after it has released actor_mutex_, and the callback of a     *)
(* timer reads its flag, clears it, resets pending_ and schedules in steps *)
(* of its own.  The operations of the deques are atomic (ChaseLev.tla      *)
(* takes them apart), and the deadlines of timers are abstract: any        *)
(* pending timer may be the next one to fall due.                          *)
(*                                                                         *)
(* These steps leave a window in which a message and the timer complete    *)
(* the same receive (raced).  If the coroutine goes on while another       *)
(* thread can still touch the receive that it has left, the behaviour of   *)
(* the program is undefined: the model records that (broken) and stops.    *)
(***************************************************************************)
EXTENDS Integers, Sequences, FiniteSets, SequencesExt

CONSTANTS
    Workers,     \* 0 .. thread_count_ - 1
    Actors,      \* bound: the actors ever spawned
    NoActor,     \* no actor
    MaxWaits     \* bound: suspensions of all the actors together

ASSUME SchedulerAssumption ==
    /\ IsFiniteSet(Workers) /\ Workers = 0..(Cardinality(Workers) - 1) /\ Workers # {}
    /\ IsFiniteSet(Actors) /\ NoActor \notin Actors /\ MaxWaits \in Nat

VARIABLES
    state,     \* of each actor: unborn, ready, running, waiting (pending_ is
               \* set), woken (pending_ is empty and the handle not yet
               \* scheduled), exited
    local,     \* the deque of each worker, bottom last
    inject,    \* inject_queue_
    worker,    \* where each worker is: [at, scan, cur]
    count,     \* active_actor_count_
    shutdown,  \* shutdown_
    hand,      \* to_schedule of the enqueue_message that each worker is in
    active,    \* actors with a receive whose active_ points to a flag that is set
    timers,    \* actors with a timer in timers_ whose flag is set
    stale,     \* timers in timers_ whose flag is cleared
    main,      \* where the thread that calls run() is
    due,       \* the actor whose callback main is in, NoActor if the flag was
               \* cleared before the callback has read it
    waits,     \* counter for the bound
    raced,     \* history: actors whose receive a message has completed while
               \* the timer was being armed or its callback was under way
    broken     \* history: an actor went on while a thread could still touch
               \* its last receive or resume it again

queues == <<local, inject>>
clock == <<active, timers, stale, due>>
ghosts == <<raced, broken>>
vars == <<state, local, inject, worker, count, shutdown, hand, active, timers, stale, main,
          due, waits, raced, broken>>

Loop == [at |-> "loop", scan |-> 1, cur |-> NoActor]
Off == [at |-> "off", scan |-> 1, cur |-> NoActor]
NumWorkers == Cardinality(Workers)
In(a, q) == {i \in DOMAIN q : q[i] = a}

Init ==
    /\ state = [a \in Actors |-> "unborn"]
    /\ local = [w \in Workers |-> <<>>] /\ inject = <<>>
    /\ worker = [w \in Workers |-> Off]
    /\ count = 0 /\ shutdown = FALSE
    /\ hand = [w \in Workers |-> NoActor]
    /\ active = {} /\ timers = {} /\ stale = 0 /\ due = NoActor
    /\ main = "outside" /\ waits = 0
    /\ raced = {} /\ broken = FALSE

-----------------------------------------------------------------------------
(* Queues and timers.  A definition whose name starts with Wrong is a      *)
(* faulty variant of the one after it, kept to show that a property        *)
(* notices the fault.                                                      *)

(* schedule, on worker w and on any other thread.  The notification of     *)
(* work_cv_ is left out: the predicate of a waiting worker looks at its    *)
(* own deque, which only itself fills.                                     *)
ScheduleLocal(w, a) ==
    /\ local' = [local EXCEPT ![w] = Append(@, a)]
    /\ UNCHANGED inject
ScheduleInject(a) ==
    /\ inject' = Append(inject, a)
    /\ UNCHANGED local

(* Threads that are inside await_suspend of a timed receive of a, after    *)
(* pending_ has been published, or inside the callback of its timer, past  *)
(* the test of the flag.                                                   *)
Arming(a) == {w \in Workers : worker[w].at \in {"flag", "arm"} /\ worker[w].cur = a}
Firing(a) == due = a /\ main \in {"store", "visit", "reset"}

WrongDisarm(a) ==
    /\ UNCHANGED clock
    /\ raced' = IF Arming(a) # {} \/ Firing(a) THEN raced \cup {a} ELSE raced
(* try_match, for the message that completes the receive of a, clears the  *)
(* flag that active_ points to, if there is one yet.  A callback that has  *)
(* not read it will do nothing; one that has goes on.                      *)
Disarm(a) ==
    /\ active' = active \ {a}
    /\ timers' = timers \ {a}
    /\ stale' = stale + (IF a \in timers THEN 1 ELSE 0)
    /\ due' = IF due = a /\ main = "fire" THEN NoActor ELSE due
    /\ raced' = IF Arming(a) # {} \/ Firing(a) THEN raced \cup {a} ELSE raced

WrongNotifyTimer == UNCHANGED main
(* timer_cv_.notify_one() reaches main if it is asleep in one of its two   *)
(* waits; in the timed one it matters if the new deadline is earlier.      *)
NotifyTimer ==
    \/ main = "asleep" /\ main' = "check"
    \/ main = "timed" /\ main' \in {"timed", "top"}
    \/ main \notin {"asleep", "timed"} /\ UNCHANGED main

(* timer_mutex_ is held by main between its test of the predicate and      *)
(* the wait that releases it.                                              *)
TimerMutexFree == main # "block"

-----------------------------------------------------------------------------
(* The thread that calls run(). *)

(* spawn from outside the workers. *)
SpawnOutside(a) ==
    /\ main = "outside"
    /\ state[a] = "unborn"
    /\ state' = [state EXCEPT ![a] = "ready"]
    /\ count' = count + 1
    /\ ScheduleInject(a)
    /\ UNCHANGED <<worker, shutdown, hand, clock, main, waits, ghosts>>

WrongRun ==
    /\ main = "outside"
    /\ count # 0
    /\ worker' = [w \in Workers |-> Loop]
    /\ main' = "top"
    /\ UNCHANGED <<state, queues, count, shutdown, hand, clock, waits, ghosts>>

(* run: a fresh start, unless there is nothing to do. *)
Run ==
    /\ main = "outside"
    /\ shutdown' = FALSE
    /\ \/ count = 0 /\ UNCHANGED <<worker, main>>
       \/ count # 0 /\ worker' = [w \in Workers |-> Loop] /\ main' = "top"
    /\ UNCHANGED <<state, queues, count, hand, clock, waits, ghosts>>

(* timer_loop: the condition of the loop ... *)
TimerTop ==
    /\ main = "top"
    /\ main' = IF shutdown THEN "stop" ELSE "check"
    /\ UNCHANGED <<state, queues, worker, count, shutdown, hand, clock, waits, ghosts>>

(* ... the predicate of the first wait, under timer_mutex_, and the test   *)
(* that follows it ...                                                     *)
TimerCheck ==
    /\ main = "check"
    /\ main' = IF timers # {} \/ stale > 0 THEN "timed"
               ELSE IF shutdown THEN "stop" ELSE "block"
    /\ UNCHANGED <<state, queues, worker, count, shutdown, hand, clock, waits, ghosts>>

(* ... false: the thread blocks and releases the mutex ... *)
TimerBlock ==
    /\ main = "block"
    /\ main' = "asleep"
    /\ UNCHANGED <<state, queues, worker, count, shutdown, hand, clock, waits, ghosts>>

(* ... the earliest deadline passes: its callback leaves timers_ ... *)
TimerDue ==
    /\ main = "timed"
    /\ ~shutdown
    /\ \/ \E a \in timers : due' = a /\ timers' = timers \ {a} /\ UNCHANGED stale
       \/ stale > 0 /\ stale' = stale - 1 /\ UNCHANGED <<timers, due>>
    /\ main' = "fire"
    /\ UNCHANGED <<state, queues, worker, count, shutdown, hand, active, waits, ghosts>>

(* ... or shutdown_ ends the wait and nothing is called ... *)
TimerGiveUp ==
    /\ main = "timed"
    /\ shutdown
    /\ main' = "top"
    /\ UNCHANGED <<state, queues, worker, count, shutdown, hand, clock, waits, ghosts>>

(* ... and the callback is called, outside the mutex: it reads its flag    *)
(* and returns if it is cleared ...                                        *)
TimerLoad ==
    /\ main = "fire"
    /\ main' = IF due = NoActor THEN "top" ELSE "store"
    /\ UNCHANGED <<state, queues, worker, count, shutdown, hand, clock, waits, ghosts>>

(* ... clears it, calls the visitor of the timeout ... *)
TimerStore ==
    /\ main = "store"
    /\ main' = "visit"
    /\ active' = active \ {due}
    /\ UNCHANGED <<state, queues, worker, count, shutdown, hand, timers, stale, due, waits, ghosts>>
TimerVisit ==
    /\ main = "visit"
    /\ main' = "reset"
    /\ UNCHANGED <<state, queues, worker, count, shutdown, hand, clock, waits, ghosts>>

(* ... resets pending_ under actor_mutex_ ... *)
TimerReset ==
    /\ main = "reset"
    /\ main' = "schedule"
    /\ state' = [state EXCEPT ![due] = IF @ = "waiting" THEN "woken" ELSE @]
    /\ UNCHANGED <<queues, worker, count, shutdown, hand, clock, waits, ghosts>>

(* ... and schedules the actor. *)
TimerSchedule ==
    /\ main = "schedule"
    /\ main' = "top"
    /\ due' = NoActor
    /\ state' = [state EXCEPT ![due] = "ready"]
    /\ ScheduleInject(due)
    /\ UNCHANGED <<worker, count, shutdown, hand, active, timers, stale, waits, ghosts>>

(* The end of run: stop is requested (main = "join"), and the workers are  *)
(* joined and dropped with their deques.                                   *)
RequestStop ==
    /\ main = "stop"
    /\ main' = "join"
    /\ UNCHANGED <<state, queues, worker, count, shutdown, hand, clock, waits, ghosts>>
Join ==
    /\ main = "join"
    /\ \A w \in Workers : worker[w].at = "off"
    /\ local' = [w \in Workers |-> <<>>]
    /\ main' = "outside"
    /\ UNCHANGED <<state, inject, worker, count, shutdown, hand, clock, waits, ghosts>>

-----------------------------------------------------------------------------
(* worker_loop. *)

(* h->resume(), for a coroutine that is not done.  The receive that a was  *)
(* suspended in ends here: is there another handle of a, or a thread that  *)
(* has still to touch the receive?                                         *)
Queued(a, lc, ij) == In(a, ij) # {} \/ \E w \in Workers : In(a, lc[w]) # {}
Referred(a) == a \in timers \/ due = a \/ Arming(a) # {} \/ \E w \in Workers : hand[w] = a
Resume(w, a) ==
    /\ worker' = [worker EXCEPT ![w] = [at |-> "run", scan |-> 1, cur |-> a]]
    /\ state' = [state EXCEPT ![a] = "running"]
    /\ broken' = (Queued(a, local', inject') \/ Referred(a))
    /\ raced' = IF broken' THEN raced ELSE raced \ {a}
GoTo(w, at) ==
    /\ worker' = [worker EXCEPT ![w] = [Loop EXCEPT !.at = at]]
    /\ UNCHANGED <<state, ghosts>>

(* while (!token.stop_requested()), and the worker's own deque. *)
WorkerStop(w) ==
    /\ worker[w].at = "loop"
    /\ main = "join"
    /\ GoTo(w, "off")
    /\ UNCHANGED <<queues, count, shutdown, hand, clock, main, waits>>
PopOwn(w) ==
    /\ worker[w].at = "loop"
    /\ main # "join"
    /\ \/ /\ local[w] = <<>>
          /\ UNCHANGED queues
          /\ GoTo(w, "inject")
       \/ /\ local[w] # <<>>
          /\ local' = [local EXCEPT ![w] = Front(@)] /\ UNCHANGED inject
          /\ Resume(w, Last(local[w]))
    /\ UNCHANGED <<count, shutdown, hand, clock, main, waits>>

(* try_inject. *)
TryInject(w) ==
    /\ worker[w].at = "inject"
    /\ \/ /\ inject = <<>>
          /\ UNCHANGED queues
          /\ GoTo(w, "steal")
       \/ /\ inject # <<>>
          /\ inject' = Tail(inject) /\ UNCHANGED local
          /\ Resume(w, Head(inject))
    /\ UNCHANGED <<count, shutdown, hand, clock, main, waits>>

(* try_steal asks the other workers in turn, starting after itself ... *)
Victim(w) == (w + worker[w].scan) % NumWorkers
StealTake(w) ==
    /\ worker[w].at = "steal"
    /\ worker[w].scan < NumWorkers
    /\ local[Victim(w)] # <<>>
    /\ local' = [local EXCEPT ![Victim(w)] = Tail(@)] /\ UNCHANGED inject
    /\ Resume(w, Head(local[Victim(w)]))
    /\ UNCHANGED <<count, shutdown, hand, clock, main, waits>>

WrongStealMiss(w) ==
    /\ worker[w].at = "steal"
    /\ \/ /\ worker[w].scan <= NumWorkers
          /\ worker' = [worker EXCEPT ![w].scan = @ + 1]
          /\ UNCHANGED <<state, ghosts>>
       \/ /\ worker[w].scan > NumWorkers
          /\ GoTo(w, "wait")
    /\ UNCHANGED <<queues, count, shutdown, hand, clock, main, waits>>
(* ... and leaves one that is empty or whose item another thread is        *)
(* taking; after the last it waits.                                        *)
StealMiss(w) ==
    /\ worker[w].at = "steal"
    /\ \/ /\ worker[w].scan < NumWorkers
          /\ worker' = [worker EXCEPT ![w].scan = @ + 1]
          /\ UNCHANGED <<state, ghosts>>
       \/ /\ worker[w].scan = NumWorkers
          /\ GoTo(w, "wait")
    /\ UNCHANGED <<queues, count, shutdown, hand, clock, main, waits>>

WrongWake(w) ==
    /\ worker[w].at = "wait"
    /\ main = "join" \/ local[w] # <<>>
    /\ GoTo(w, "loop")
    /\ UNCHANGED <<queues, count, shutdown, hand, clock, main, waits>>
(* wait_for ends by its predicate or after a millisecond. *)
Wake(w) ==
    /\ worker[w].at = "wait"
    /\ GoTo(w, "loop")
    /\ UNCHANGED <<queues, count, shutdown, hand, clock, main, waits>>

-----------------------------------------------------------------------------
(* The actor that worker w runs. *)

Runs(w) == worker[w].at = "run" /\ hand[w] = NoActor

Spawn(w, a) ==
    /\ Runs(w)
    /\ state[a] = "unborn"
    /\ state' = [state EXCEPT ![a] = "ready"]
    /\ count' = count + 1
    /\ ScheduleLocal(w, a)
    /\ UNCHANGED <<worker, shutdown, hand, clock, main, waits, ghosts>>

(* send, or a signal of notify_exit, with a message that completes the     *)
(* receive of a: under actor_mutex_, pending_ is reset and the handle is   *)
(* returned ...                                                            *)
Send(w, a) ==
    /\ worker[w].at \in {"run", "signal"} /\ hand[w] = NoActor
    /\ state[a] = "waiting"
    /\ state' = [state EXCEPT ![a] = "woken"]
    /\ hand' = [hand EXCEPT ![w] = a]
    /\ Disarm(a)
    /\ UNCHANGED <<queues, worker, count, shutdown, main, waits, broken>>

(* ... and scheduled after the unlock. *)
ScheduleHeld(w) ==
    /\ hand[w] # NoActor
    /\ state' = [state EXCEPT ![hand[w]] = "ready"]
    /\ ScheduleLocal(w, hand[w])
    /\ hand' = [hand EXCEPT ![w] = NoActor]
    /\ UNCHANGED <<worker, count, shutdown, clock, main, waits, ghosts>>

(* The actor suspends: await_suspend publishes pending_, which is all of   *)
(* it in receive ...                                                       *)
Await(w) ==
    /\ Runs(w)
    /\ waits < MaxWaits
    /\ waits' = waits + 1
    /\ state' = [state EXCEPT ![worker[w].cur] = "waiting"]
    /\ worker' = [worker EXCEPT ![w] = Loop]
    /\ UNCHANGED <<queues, count, shutdown, hand, clock, main, ghosts>>

(* ... while in try_receive the worker goes on, in the receive of an actor *)
(* that others may wake: it makes the flag and stores it in active_ ...    *)
AwaitTimed(w) ==
    /\ Runs(w)
    /\ waits < MaxWaits
    /\ waits' = waits + 1
    /\ state' = [state EXCEPT ![worker[w].cur] = "waiting"]
    /\ worker' = [worker EXCEPT ![w].at = "flag"]
    /\ UNCHANGED <<queues, count, shutdown, hand, clock, main, ghosts>>
SetActive(w) ==
    /\ worker[w].at = "flag"
    /\ active' = active \cup {worker[w].cur}
    /\ worker' = [worker EXCEPT ![w].at = "arm"]
    /\ UNCHANGED <<state, queues, count, shutdown, hand, timers, stale, main, due, waits, ghosts>>

(* ... and calls schedule_after. *)
ArmTimer(w) ==
    /\ worker[w].at = "arm"
    /\ TimerMutexFree
    /\ \/ worker[w].cur \in active /\ timers' = timers \cup {worker[w].cur} /\ UNCHANGED stale
       \/ worker[w].cur \notin active /\ stale' = stale + 1 /\ UNCHANGED timers
    /\ NotifyTimer
    /\ GoTo(w, "loop")
    /\ UNCHANGED <<queues, count, shutdown, hand, active, due, waits>>

(* The actor ends: on_actor_exit leaves the registry ... *)
Exit(w) ==
    /\ Runs(w)
    /\ state' = [state EXCEPT ![worker[w].cur] = "exited"]
    /\ count' = count - 1
    /\ worker' = [worker EXCEPT ![w] = [Loop EXCEPT !.at = "signal"]]
    /\ UNCHANGED <<queues, shutdown, hand, clock, main, waits, ghosts>>

(* ... after the last signal, the last actor stores shutdown_, without     *)
(* timer_mutex_ ...                                                        *)
ExitCheck(w) ==
    /\ worker[w].at = "signal" /\ hand[w] = NoActor
    /\ shutdown' = (shutdown \/ count = 0)
    /\ GoTo(w, IF count = 0 THEN "notify" ELSE "loop")
    /\ UNCHANGED <<queues, count, hand, clock, main, waits>>

(* ... and notifies the timer loop. *)
ExitNotify(w) ==
    /\ worker[w].at = "notify"
    /\ main' = CASE main = "asleep" -> "check" [] main = "timed" -> "top" [] OTHER -> main
    /\ GoTo(w, "loop")
    /\ UNCHANGED <<queues, count, shutdown, hand, clock, waits>>

-----------------------------------------------------------------------------
(* Each thread takes its steps until the behaviour is undefined. *)
TimerLoop ==
    /\ ~broken
    /\ \/ TimerTop \/ TimerCheck \/ TimerBlock \/ TimerDue \/ TimerGiveUp
       \/ TimerLoad \/ TimerStore \/ TimerVisit \/ TimerReset \/ TimerSchedule
       \/ RequestStop \/ Join
Steal(w) == ~broken /\ StealTake(w)
WorkerLoop(w) ==
    \/ Steal(w)
    \/ ~broken /\ (WorkerStop(w) \/ PopOwn(w) \/ TryInject(w) \/ StealMiss(w) \/ Wake(w))
ActorStep(w) ==
    /\ ~broken
    /\ \/ \E a \in Actors : Spawn(w, a) \/ Send(w, a)
       \/ ScheduleHeld(w) \/ Await(w) \/ AwaitTimed(w) \/ SetActive(w) \/ ArmTimer(w)
       \/ Exit(w)
ExitStep(w) == ~broken /\ (ExitCheck(w) \/ ExitNotify(w))

Thread(w) == WorkerLoop(w) \/ ActorStep(w) \/ ExitStep(w)

Next ==
    \/ TimerLoop
    \/ ~broken /\ (Run \/ \E a \in Actors : SpawnOutside(a))
    \/ \E w \in Workers : Thread(w)

Spec == Init /\ [][Next]_vars

(* Threads that can take a step do, and a thief that keeps finding the     *)
(* same items is not beaten to them for ever.  That an actor does not      *)
(* compute forever follows from the bounds: it spawns, wakes and waits     *)
(* finitely often.                                                         *)
FairSpec ==
    /\ Spec
    /\ WF_vars(TimerLoop)
    /\ \A w \in Workers : WF_vars(Thread(w)) /\ SF_vars(Steal(w))

-----------------------------------------------------------------------------
(* Properties. *)

(* Every variable keeps its type. *)
TypeOK ==
    /\ state \in [Actors -> {"unborn", "ready", "running", "waiting", "woken", "exited"}]
    /\ inject \in Seq(Actors) /\ local \in [Workers -> Seq(Actors)]
    /\ worker \in [Workers -> [at : {"off", "loop", "inject", "steal", "wait", "run", "flag",
                                     "arm", "signal", "notify"},
                               scan : 1..NumWorkers, cur : Actors \cup {NoActor}]]
    /\ count \in 0..Cardinality(Actors) /\ shutdown \in BOOLEAN
    /\ hand \in [Workers -> Actors \cup {NoActor}]
    /\ active \subseteq Actors /\ timers \subseteq Actors
    /\ stale \in Nat /\ waits \in 0..MaxWaits
    /\ main \in {"outside", "top", "check", "block", "asleep", "timed", "fire", "store",
                 "visit", "reset", "schedule", "stop", "join"}
    /\ due \in Actors \cup {NoActor}
    /\ raced \subseteq Actors /\ broken \in BOOLEAN

(* Unless a message has met the timer of the same receive in the window    *)
(* that actor.hpp leaves, the handle of an actor is in one place: a ready  *)
(* actor has exactly one place in all the queues, a woken one is in the    *)
(* hand of one thread, a sender or the timer, a running one is run by one  *)
(* worker, and a timer that may still wake an actor is left only to one    *)
(* that waits.  Only an actor in that window is ever resumed while another *)
(* thread can resume it again or touch the receive it has left.            *)
Places(a) ==
    Cardinality(In(a, inject)) + Cardinality(UNION {{w} \X In(a, local[w]) : w \in Workers})
Hands(a) ==
    Cardinality({w \in Workers : hand[w] = a}) + (IF due = a /\ main = "schedule" THEN 1 ELSE 0)
HandleHeldOnce ==
    /\ \A a \in Actors \ raced :
          /\ Places(a) = IF state[a] = "ready" THEN 1 ELSE 0
          /\ Hands(a) = IF state[a] = "woken" THEN 1 ELSE 0
          /\ Cardinality({w \in Workers : worker[w].at = "run" /\ worker[w].cur = a})
                = IF state[a] = "running" THEN 1 ELSE 0
          /\ a \in timers \/ Arming(a) # {} \/ (due = a /\ main # "schedule")
                => state[a] = "waiting"
    /\ broken => raced # {}

(* When run() returns, every actor spawned has exited and no handle is     *)
(* dropped with the deques.                                                *)
ReturnsWhenDone ==
    [][main = "join" /\ main' = "outside" =>
          /\ \A a \in Actors : state[a] \in {"unborn", "exited"}
          /\ inject = <<>> /\ \A w \in Workers : local[w] = <<>>]_vars

(* While run() is active, a scheduled coroutine is resumed, whichever      *)
(* queue it is in and whichever worker is idle.                            *)
ReadyRuns ==
    \A a \in Actors :
        (state[a] = "ready" /\ main # "outside") ~> (state[a] = "running" \/ broken)

(* While run() is active, a timed wait ends and its actor runs: by a       *)
(* message or by its timer.                                                *)
TimedWaitEnds ==
    \A a \in Actors :
        (a \in timers /\ main # "outside") ~> (state[a] = "running" \/ broken)

(* run() returns once all the actors have exited ("Run until all actors    *)
(* have exited."). *)
RunReturns ==
    (main # "outside" /\ count = 0) ~> (main = "outside")

=============================================================================

---------------------------- MODULE AsioScheduler ----------------------------
(***************************************************************************)
(* The scheduler on a boost::asio::io_context and its awaiters of futures  *)
(* and awaitables (include/agner/asio_scheduler.hpp).                      *)
(*                                                                         *)
(* Coroutines run on the thread that is inside run().  A coroutine that    *)
(* awaits a future leaves a shared asio_await_state to a waiter thread (a  *)
(* std::thread, or the thread that runs the boost::future's continuation), *)
(* which stores the result, posts the coroutine and gives up the work      *)
(* guard that kept run() from returning; these steps interleave with the   *)
(* loop, with stop() and with the destruction of the scheduler.  An        *)
(* asio::awaitable completes on the loop's own thread.                     *)
(*                                                                         *)
(* Awaits are numbered in the order in which they begin.  A timer falls    *)
(* due at any moment after it was armed.                                   *)
(***************************************************************************)
EXTENDS Naturals, Sequences

CONSTANTS
    Coroutines,
    MaxAwaits,   \* bound: awaits of futures and awaitables
    MaxTimers,   \* bound: timers armed
    MaxStops     \* bound: calls of stop()

ASSUME AsioBounds == MaxAwaits \in Nat /\ MaxTimers \in Nat /\ MaxStops \in Nat
ASSUME NoneAssumption == 0 \notin Coroutines

Awaits == 1..MaxAwaits
None == 0

VARIABLES
    co,       \* co[c]: where coroutine c is
    inside,   \* inside[c]: the await whose awaiter is in the frame of c, until
              \* c suspends somewhere else
    source,   \* source[a]: what await a waits for
    handle,   \* handle[a]: the coroutine of await a, state->handle
    step,     \* step[a]: how far the completion of await a is
    result,   \* result[a]: result or exception in the state
    resumed,  \* resumed[a]: times its coroutine was resumed
    refs,     \* refs[a]: who has a shared_ptr to the state
    guards,   \* awaits whose work guard is held
    queue,    \* the handlers posted to the io_context
    timers,   \* coroutines that a timer's callback will schedule
    armed,    \* number of timers armed
    loop,     \* is a thread inside run()?
    stopped,  \* has the io_context been stopped?
    stops,    \* number of stop() calls
    alive,    \* does the AsioScheduler object exist?
    broken    \* awaits whose freed state, or freed io_context, was used

awaitVars == <<inside, source, handle, step, result, resumed, refs, guards, broken>>
loopVars == <<loop, stopped, stops, alive>>
vars == <<co, awaitVars, queue, timers, armed, loopVars>>

CoStates == {"new", "posted", "running", "awaiting", "done"}

Init ==
    /\ co = [c \in Coroutines |-> "new"]
    /\ inside = [c \in Coroutines |-> None]
    /\ source = [a \in Awaits |-> "none"]
    /\ handle = [a \in Awaits |-> None]
    /\ step = [a \in Awaits |-> 0]
    /\ result = [a \in Awaits |-> "none"]
    /\ resumed = [a \in Awaits |-> 0]
    /\ refs = [a \in Awaits |-> {}]
    /\ guards = {}
    /\ queue = <<>>
    /\ timers = {}
    /\ armed = 0
    /\ loop = "idle"
    /\ stopped = FALSE
    /\ stops = 0
    /\ alive = TRUE
    /\ broken = {}

-----------------------------------------------------------------------------
(* Who keeps the asio_scheduler_state alive: the scheduler, the awaiters in *)
(* suspended frames, the await states, the handlers of pending timers.      *)
(* A definition whose name starts with Wrong is a faulty variant of the one *)
(* after it, kept to show that a property notices the fault.                *)

ImplAlive ==
    \/ alive
    \/ \E a \in Awaits : refs[a] # {}
    \/ timers # {}

(* The thread that completes await a uses its state and, through it, the   *)
(* io_context.                                                             *)
Use(a) == broken' = IF refs[a] # {} /\ ImplAlive THEN broken ELSE broken \cup {a}

WrongPostable(h) == TRUE

Postable(h) == h # None

(* asio_scheduler_state::schedule *)
Scheduled(h) ==
    /\ queue' = IF Postable(h) THEN Append(queue, h) ELSE queue
    /\ co' = [c \in Coroutines |-> IF c = h THEN "posted" ELSE co[c]]

(* The loop's thread is free for a handler. *)
LoopFree == loop = "running" /\ ~stopped /\ \A c \in Coroutines : co[c] # "running"

(* A new coroutine, or a null handle, is scheduled. *)
Schedule(h) ==
    /\ alive
    /\ h # None => co[h] = "new"
    /\ Scheduled(h)
    /\ UNCHANGED <<awaitVars, timers, armed, loopVars>>

-----------------------------------------------------------------------------
(* run() and stop() *)

Run ==
    /\ alive
    /\ loop = "idle"
    /\ loop' = "running"
    /\ stopped' = FALSE
    /\ UNCHANGED <<co, awaitVars, queue, timers, armed, stops, alive>>

Stop ==
    /\ alive
    /\ stops < MaxStops
    /\ stops' = stops + 1
    /\ stopped' = TRUE
    /\ UNCHANGED <<co, awaitVars, queue, timers, armed, loop, alive>>

(* io_context::run returns by itself when nothing is posted or pending and *)
(* nobody holds a work guard.                                              *)
OutOfWork == queue = <<>> /\ timers = {} /\ guards = {}

Return ==
    /\ loop = "running"
    /\ \A c \in Coroutines : co[c] # "running"
    /\ stopped \/ OutOfWork
    /\ loop' = "idle"
    /\ UNCHANGED <<co, awaitVars, queue, timers, armed, stopped, stops, alive>>

(* ~AsioScheduler, not while it runs. *)
Destroy ==
    /\ alive
    /\ loop = "idle"
    /\ alive' = FALSE
    /\ UNCHANGED <<co, awaitVars, queue, timers, armed, loop, stopped, stops>>

(* A posted handler resumes its coroutine wherever it is suspended, once   *)
(* for each time it was posted: await_resume takes the result, and the     *)
(* awaiter goes with its reference to the state.                           *)
Resume ==
    LET c == Head(queue) IN
    /\ LoopFree
    /\ queue # <<>>
    /\ queue' = Tail(queue)
    /\ co' = [co EXCEPT ![c] = "running"]
    /\ resumed' = [a \in Awaits |-> resumed[a] + IF a = inside[c] THEN 1 ELSE 0]
    /\ refs' = [a \in Awaits |-> refs[a] \ IF a = inside[c] THEN {"awaiter"} ELSE {}]
    /\ UNCHANGED <<inside, source, handle, step, result, guards, broken,
                   timers, armed, loopVars>>

Finish(c) ==
    /\ co[c] = "running"
    /\ co' = [co EXCEPT ![c] = "done"]
    /\ UNCHANGED <<awaitVars, queue, timers, armed, loopVars>>

-----------------------------------------------------------------------------
(* schedule_after, awaited by a coroutine. *)

ArmTimer(c) ==
    /\ co[c] = "running"
    /\ armed < MaxTimers
    /\ armed' = armed + 1
    /\ timers' = timers \cup {c}
    /\ co' = [co EXCEPT ![c] = "awaiting"]
    /\ inside' = [inside EXCEPT ![c] = None]
    /\ UNCHANGED <<source, handle, step, result, resumed, refs, guards, broken,
                   queue, loopVars>>

FireTimer(c) ==
    /\ LoopFree
    /\ c \in timers
    /\ timers' = timers \ {c}
    /\ Scheduled(c)
    /\ UNCHANGED <<awaitVars, armed, loopVars>>

-----------------------------------------------------------------------------
(* The awaiters. *)

WrongHolders == {"awaiter"}

(* state_ of the awaiter, and the copy that the completion captures. *)
Holders == {"awaiter", "completion"}

(* await_suspend of the three awaiters: s is "future" or "awaitable". *)
Suspend(c, s) ==
    /\ co[c] = "running"
    /\ \E a \in Awaits :
          /\ source[a] = "none" /\ \A b \in 1..(a - 1) : source[b] # "none"
          /\ source' = [source EXCEPT ![a] = s]
          /\ handle' = [handle EXCEPT ![a] = c]
          /\ inside' = [inside EXCEPT ![c] = a]
          /\ refs' = [refs EXCEPT ![a] = Holders]
          /\ guards' = guards \cup {a}
    /\ co' = [co EXCEPT ![c] = "awaiting"]
    /\ UNCHANGED <<step, result, resumed, broken, queue, timers, armed, loopVars>>

WrongStored(r) == IF r = "exception" THEN "none" ELSE r

(* set_result_from_future, or the handler of its exception. *)
Stored(r) == r

(* The waiter thread: the future is ready and its result r is stored. *)
Complete(a, r) ==
    /\ source[a] = "future" /\ step[a] = 0
    /\ step' = [step EXCEPT ![a] = 1]
    /\ result' = [result EXCEPT ![a] = Stored(r)]
    /\ Use(a)
    /\ UNCHANGED <<co, inside, source, handle, resumed, refs, guards,
                   queue, timers, armed, loopVars>>

WrongResumeSteps == <<"reset", "schedule">>

WrongNoResume == <<>>

(* asio_await_state::resume *)
ResumeSteps == <<"schedule", "reset">>

(* The waiter thread inside resume(), one statement after the other. *)
ResumeStep(a) ==
    /\ step[a] \in DOMAIN ResumeSteps
    /\ \/ /\ ResumeSteps[step[a]] = "schedule"
          /\ Scheduled(handle[a])
          /\ UNCHANGED guards
       \/ /\ ResumeSteps[step[a]] = "reset"
          /\ guards' = guards \ {a}
          /\ UNCHANGED <<co, queue>>
    /\ step' = [step EXCEPT ![a] = @ + 1]
    /\ Use(a)
    /\ UNCHANGED <<inside, source, handle, result, resumed, refs, timers, armed, loopVars>>

(* The waiter thread ends and its reference goes. *)
Release(a) ==
    /\ step[a] = 3
    /\ "completion" \in refs[a]
    /\ refs' = [refs EXCEPT ![a] = @ \ {"completion"}]
    /\ UNCHANGED <<co, inside, source, handle, step, result, resumed, guards, broken,
                   queue, timers, armed, loopVars>>

(* The completion of an awaitable is a handler of the loop, and runs to its *)
(* end before another does.                                                 *)
CompleteAwaitable(a, r) ==
    /\ LoopFree
    /\ source[a] = "awaitable" /\ step[a] = 0
    /\ step' = [step EXCEPT ![a] = 3]
    /\ result' = [result EXCEPT ![a] = Stored(r)]
    /\ Scheduled(handle[a])
    /\ guards' = guards \ {a}
    /\ refs' = [refs EXCEPT ![a] = @ \ {"completion"}]
    /\ Use(a)
    /\ UNCHANGED <<inside, source, handle, resumed, timers, armed, loopVars>>

-----------------------------------------------------------------------------
Results == {"value", "exception"}

Handler ==
    \/ Resume \/ Return
    \/ \E c \in Coroutines : FireTimer(c)
    \/ \E a \in Awaits, r \in Results : CompleteAwaitable(a, r)

Body(c) == Finish(c) \/ ArmTimer(c) \/ \E s \in {"future", "awaitable"} : Suspend(c, s)

Waiter(a) == ResumeStep(a) \/ Release(a)

Next ==
    \/ \E h \in Coroutines \cup {None} : Schedule(h)
    \/ Run \/ Stop \/ Destroy \/ Handler
    \/ \E c \in Coroutines : Body(c)
    \/ \E a \in Awaits : Waiter(a) \/ \E r \in Results : Complete(a, r)

Spec == Init /\ [][Next]_vars

(* The loop runs what is posted, a coroutine that has control gives it     *)
(* back, and a waiter thread goes on once its future is ready.  A future   *)
(* need not become ready, and nobody has to call run().                    *)
Fairness ==
    /\ WF_vars(Resume)
    /\ WF_vars(Return)
    /\ \A c \in Coroutines : WF_vars(Body(c))
    /\ \A a \in Awaits : WF_vars(Waiter(a))

FairSpec == Spec /\ Fairness

-----------------------------------------------------------------------------
(* Properties. *)

(* Every variable keeps its type. *)
TypeOK ==
    /\ co \in [Coroutines -> CoStates]
    /\ inside \in [Coroutines -> Awaits \cup {None}]
    /\ source \in [Awaits -> {"none", "future", "awaitable"}]
    /\ handle \in [Awaits -> Coroutines \cup {None}]
    /\ step \in [Awaits -> 0..3]
    /\ result \in [Awaits -> Results \cup {"none"}]
    /\ resumed \in [Awaits -> Nat]
    /\ refs \in [Awaits -> SUBSET {"awaiter", "completion"}]
    /\ guards \subseteq Awaits
    /\ queue \in Seq(Coroutines)
    /\ timers \subseteq Coroutines
    /\ armed \in 0..MaxTimers
    /\ loop \in {"idle", "running"}
    /\ stopped \in BOOLEAN
    /\ stops \in 0..MaxStops
    /\ alive \in BOOLEAN
    /\ broken \subseteq Awaits

(* A coroutine goes on after an await once, and only when the result or    *)
(* the exception it takes is there.                                        *)
ResumedOnceWithResult ==
    \A a \in Awaits : resumed[a] <= 1 /\ (resumed[a] = 1 => result[a] # "none")

(* A completion never uses an await state or an io_context that has been   *)
(* freed, also when the coroutine has gone on or the scheduler has been    *)
(* destroyed meanwhile.                                                    *)
NoUseAfterFree == broken = {}

(* run() does not return, unless it is stopped, while a coroutine awaits a *)
(* future, an awaitable or a timer, or is posted.                          *)
RunKeepsWaiting ==
    [][(loop = "running" /\ loop' = "idle" /\ ~stopped)
           => \A c \in Coroutines : co[c] \notin {"posted", "awaiting"}]_vars

(* A coroutine whose await has completed goes on, unless the loop is       *)
(* stopped.                                                                *)
CompletedResumes ==
    \A a \in Awaits :
        (step[a] > 0 /\ loop = "running" /\ ~stopped) ~> (resumed[a] > 0 \/ stopped)

=============================================================================

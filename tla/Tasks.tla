-------------------------------- MODULE Tasks --------------------------------
(***************************************************************************)
(* Coroutine frames, the task objects that own them (include/agner/        *)
(* task.hpp) and the event loop of the single-threaded scheduler that      *)
(* resumes them (include/agner/scheduler.hpp).                             *)
(*                                                                         *)
(* A frame is created suspended.  It starts when its task is awaited, by   *)
(* transfer of control, or detached, by way of the ready queue.  When its  *)
(* body ends, the final awaiter resumes the awaiting frame or, if the task *)
(* is detached, destroys the frame.  Otherwise the task object destroys    *)
(* it.                                                                     *)
(*                                                                         *)
(* The code that runs is main() outside of run(), or one coroutine.  It    *)
(* has two local task variables in its frame, and may create, move, drop,  *)
(* detach and await tasks, wait for a timer or for an event, raise the     *)
(* event of another frame, and end, with a result or an exception.  It     *)
(* awaits or detaches a task at most once, as the lazy task requires.      *)
(* Frames are numbered in the order of their creation.                     *)
(***************************************************************************)
EXTENDS Naturals, Sequences, FiniteSets, SequencesExt

CONSTANTS
    MaxFrames,  \* bound: frames created
    Delays,     \* what schedule_after is given
    MaxTimers,  \* bound: timers armed
    MaxTime     \* bound: the clock

ASSUME TasksBounds == MaxFrames \in Nat /\ MaxTimers \in Nat /\ MaxTime \in Nat
ASSUME DelaysAssumption == Delays \subseteq Nat

Frames == 1..MaxFrames
None == 0        \* a null handle
Main == 0        \* the home of main()'s local variables
Homes == Frames \cup {Main}
Locals == {1, 2}

VARIABLES
    state,     \* state[f]: where frame f is
    cont,      \* cont[f]: promise.continuation
    detached,  \* detached[f]: promise.detached
    handle,    \* handle[h][x]: handle_ of local task variable x of home h
    current,   \* the frame that runs, None if main() or the loop does
    ready,     \* ready_
    timers,    \* timers_, in its order: records of due time and frame
    armed,     \* number of timers armed
    loop,      \* where run() is
    clock,
    broken     \* frames resumed or destroyed when they must not be

promise == <<cont, detached>>
timerVars == <<timers, armed>>
vars == <<state, promise, handle, current, ready, timerVars, loop, clock, broken>>

(* "created"  at initial_suspend                                           *)
(* "running"  its code runs                                                *)
(* "awaiting" suspended in co_await of another task                        *)
(* "timed"    suspended until a timer's callback schedules it              *)
(* "event"    suspended until somebody schedules it                        *)
(* "queued"   suspended, and its handle is in ready_                       *)
(* "final"    at final_suspend                                             *)
(* "freed"    destroyed                                                    *)
States == {"none", "created", "running", "awaiting", "timed", "event",
           "queued", "final", "freed"}

Init ==
    /\ state = [f \in Frames |-> "none"]
    /\ cont = [f \in Frames |-> None]
    /\ detached = [f \in Frames |-> FALSE]
    /\ handle = [h \in Homes |-> [x \in Locals |-> None]]
    /\ current = None
    /\ ready = <<>>
    /\ timers = <<>>
    /\ armed = 0
    /\ loop = "idle"
    /\ clock = 0
    /\ broken = {}

(* h is the home of the code that runs: main(), or a coroutine. *)
Runs(h) ==
    \/ h = Main /\ loop = "idle"
    \/ h \in Frames /\ h = current

-----------------------------------------------------------------------------
(* Destruction of the frames in F, in the states st.  Only a frame that    *)
(* has not started or has ended may be destroyed.  A definition whose name *)
(* starts with Wrong is a faulty variant of the one after it, kept to show *)
(* that a property notices the fault.                                      *)

Destroyed(st, F) == [f \in Frames |-> IF f \in F THEN "freed" ELSE st[f]]
Misused(st, F) == {f \in F : st[f] \notin {"created", "final"}}

(* The frame that local x of home h owns, as a set of none or one. *)
Owned(h, x) == {handle[h][x]} \ {None}

(* A coroutine function is called: the frame is allocated, and the task    *)
(* that get_return_object makes goes into x.                               *)
Create(h, x) ==
    /\ Runs(h)
    /\ handle[h][x] = None
    /\ \E f \in Frames :
          /\ state[f] = "none" /\ \A g \in 1..(f - 1) : state[g] # "none"
          /\ state' = [state EXCEPT ![f] = "created"]
          /\ handle' = [handle EXCEPT ![h][x] = f]
    /\ UNCHANGED <<promise, current, ready, timerVars, loop, clock, broken>>

(* x = std::move(y), and task x(std::move(y)) when x holds nothing. *)
Move(h, x, y) ==
    /\ Runs(h)
    /\ x # y
    /\ handle[h][y] # None
    /\ state' = Destroyed(state, Owned(h, x))
    /\ broken' = broken \cup Misused(state, Owned(h, x))
    /\ handle' = [handle EXCEPT ![h] =
                     [z \in Locals |-> IF z = x THEN handle[h][y] ELSE None]]
    /\ UNCHANGED <<promise, current, ready, timerVars, loop, clock>>

(* ~task *)
Drop(h, x) ==
    /\ Runs(h)
    /\ handle[h][x] # None
    /\ state' = Destroyed(state, Owned(h, x))
    /\ broken' = broken \cup Misused(state, Owned(h, x))
    /\ handle' = [handle EXCEPT ![h][x] = None]
    /\ UNCHANGED <<promise, current, ready, timerVars, loop, clock>>

(* detach: the frame owns itself from now on. *)
Detach(h, x) ==
    LET f == handle[h][x] IN
    /\ Runs(h)
    /\ f # None
    /\ state[f] = "created"
    /\ detached' = [detached EXCEPT ![f] = TRUE]
    /\ ready' = Append(ready, f)
    /\ state' = [state EXCEPT ![f] = "queued"]
    /\ handle' = [handle EXCEPT ![h][x] = None]
    /\ UNCHANGED <<cont, current, timerVars, loop, clock, broken>>

(* co_await x: await_suspend stores the continuation and transfers control. *)
Await(f, x) ==
    LET g == handle[f][x] IN
    /\ current = f
    /\ g # None
    /\ state[g] = "created"
    /\ cont' = [cont EXCEPT ![g] = f]
    /\ state' = [state EXCEPT ![f] = "awaiting", ![g] = "running"]
    /\ current' = g
    /\ UNCHANGED <<detached, handle, ready, timerVars, loop, clock, broken>>

-----------------------------------------------------------------------------
(* Suspension.  Control goes back through the nested resume() calls, none  *)
(* of which does anything more, to the loop.                               *)

(* timers_.emplace: in front of the first timer that is due later. *)
Insert(t) ==
    \E i \in 1..(Len(timers) + 1) :
        /\ \A j \in 1..(i - 1) : timers[j].due <= t.due
        /\ i <= Len(timers) => timers[i].due > t.due
        /\ timers' = InsertAt(timers, i, t)

(* An awaiter that arms a timer whose callback schedules the frame. *)
AwaitTimer(f, d) ==
    /\ current = f
    /\ armed < MaxTimers
    /\ clock + d <= MaxTime
    /\ armed' = armed + 1
    /\ Insert([due |-> clock + d, frame |-> f])
    /\ state' = [state EXCEPT ![f] = "timed"]
    /\ current' = None
    /\ UNCHANGED <<promise, handle, ready, loop, clock, broken>>

(* An awaiter that leaves the handle for somebody else to schedule. *)
AwaitEvent(f) ==
    /\ current = f
    /\ state' = [state EXCEPT ![f] = "event"]
    /\ current' = None
    /\ UNCHANGED <<promise, handle, ready, timerVars, loop, clock, broken>>

(* schedule, called by running code for a frame that waits for its event. *)
Schedule(f) ==
    /\ current # None \/ loop = "idle"
    /\ state[f] = "event"
    /\ ready' = Append(ready, f)
    /\ state' = [state EXCEPT ![f] = "queued"]
    /\ UNCHANGED <<promise, handle, current, timerVars, loop, clock, broken>>

-----------------------------------------------------------------------------
(* The body of frame f has ended, with a result or an exception, which the *)
(* promise keeps: its locals are destroyed, and the final awaiter resumes  *)
(* the continuation, if any.                                               *)

WrongFinal(f, st) ==
    /\ current' = cont[f]
    /\ state' = IF cont[f] # None
                THEN [st EXCEPT ![f] = "final", ![cont[f]] = "running"]
                ELSE [st EXCEPT ![f] = "final"]

WrongContinuation(f, st) ==
    /\ current' = None
    /\ state' = [st EXCEPT ![f] = IF detached[f] THEN "freed" ELSE "final"]

Final(f, st) ==
    /\ current' = cont[f]
    /\ state' = IF cont[f] # None
                THEN [st EXCEPT ![f] = "final", ![cont[f]] = "running"]
                ELSE [st EXCEPT ![f] = IF detached[f] THEN "freed" ELSE "final"]

Finish(f) ==
    LET locals == UNION {Owned(f, x) : x \in Locals} IN
    /\ current = f
    /\ handle' = [handle EXCEPT ![f] = [x \in Locals |-> None]]
    /\ Final(f, Destroyed(state, locals))
    /\ broken' = broken \cup Misused(state, locals)
    /\ UNCHANGED <<promise, ready, timerVars, loop, clock>>

-----------------------------------------------------------------------------
(* Scheduler::run *)

Run ==
    /\ loop = "idle"
    /\ loop' = "loop"
    /\ UNCHANGED <<state, promise, handle, current, ready, timerVars, clock, broken>>

WrongPopped(q) == q

(* ready_.pop_front() *)
Popped(q) == Tail(q)

(* The front handle is taken out and resumed if it is not done. *)
PopReady ==
    LET f == Head(ready) IN
    /\ loop = "loop" /\ current = None
    /\ ready # <<>>
    /\ ready' = Popped(ready)
    /\ broken' = IF state[f] \in {"queued", "final"} THEN broken ELSE broken \cup {f}
    /\ state' = [state EXCEPT ![f] = IF @ = "final" THEN @ ELSE "running"]
    /\ current' = IF state[f] = "final" THEN None ELSE f
    /\ UNCHANGED <<promise, handle, timerVars, loop, clock>>

(* Nothing is ready: the inner loop begins. *)
EnterTimers ==
    /\ loop = "loop" /\ current = None
    /\ ready = <<>> /\ timers # <<>>
    /\ loop' = "timers"
    /\ UNCHANGED <<state, promise, handle, current, ready, timerVars, clock, broken>>

WrongCallback(t) == None

(* The handle that the callback of timer t schedules. *)
Callback(t) == t.frame

(* The inner loop calls the callback of a timer that is due. *)
FireTimer ==
    LET t == Head(timers) IN
    /\ loop = "timers"
    /\ timers # <<>>
    /\ t.due <= clock
    /\ timers' = Tail(timers)
    /\ ready' = Append(ready, Callback(t))
    /\ state' = [state EXCEPT ![t.frame] = "queued"]
    /\ UNCHANGED <<promise, handle, current, armed, loop, clock, broken>>

WrongAfterTimers == "idle"

(* Where run() is after the inner loop. *)
AfterTimers == "loop"

(* The inner loop ends only when no timer is left. *)
LeaveTimers ==
    /\ loop = "timers"
    /\ timers = <<>>
    /\ loop' = AfterTimers
    /\ UNCHANGED <<state, promise, handle, current, ready, timerVars, clock, broken>>

Return ==
    /\ loop = "loop" /\ current = None
    /\ ready = <<>> /\ timers = <<>>
    /\ loop' = "idle"
    /\ UNCHANGED <<state, promise, handle, current, ready, timerVars, clock, broken>>

(* Time passes; sleep_until waits for it. *)
Tick ==
    /\ clock < MaxTime
    /\ clock' = clock + 1
    /\ UNCHANGED <<state, promise, handle, current, ready, timerVars, loop, broken>>

Loop == PopReady \/ EnterTimers \/ FireTimer \/ LeaveTimers \/ Return

(* What running code does before it suspends or ends. *)
Code(h) ==
    \E x \in Locals :
        \/ Create(h, x) \/ Drop(h, x) \/ Detach(h, x)
        \/ \E y \in Locals : Move(h, x, y)

Yield(f) ==
    \/ AwaitEvent(f)
    \/ \E d \in Delays : AwaitTimer(f, d)
    \/ Finish(f)

Next ==
    \/ \E h \in Homes : Code(h)
    \/ \E f \in Frames : Yield(f) \/ Schedule(f) \/ \E x \in Locals : Await(f, x)
    \/ Run \/ Loop \/ Tick

Spec == Init /\ [][Next]_vars

(* run() goes on, time passes, and a coroutine that has control suspends or *)
(* ends at some time, as cooperative scheduling requires.                   *)
Fairness ==
    /\ WF_vars(Loop)
    /\ WF_vars(Tick)
    /\ WF_vars(\E f \in Frames : Yield(f))

FairSpec == Spec /\ Fairness

-----------------------------------------------------------------------------
(* Properties. *)

(* Every variable keeps its type. *)
TypeOK ==
    /\ state \in [Frames -> States]
    /\ cont \in [Frames -> Frames \cup {None}]
    /\ detached \in [Frames -> BOOLEAN]
    /\ handle \in [Homes -> [Locals -> Frames \cup {None}]]
    /\ current \in Frames \cup {None}
    /\ ready \in Seq(Frames)
    /\ timers \in Seq([due : 0..MaxTime, frame : Frames])
    /\ armed \in 0..MaxTimers
    /\ loop \in {"idle", "loop", "timers"}
    /\ clock \in 0..MaxTime
    /\ broken \subseteq Frames

(* No frame is resumed after it was destroyed or while it does not wait in *)
(* the ready queue, and none is destroyed twice or while its code is       *)
(* suspended half way.                                                     *)
NoFrameMisused == broken = {}

Ended == {"none", "created", "final", "freed"}
Owners(f) == {o \in Homes \X Locals : handle[o[1]][o[2]] = f}

(* A frame that exists has exactly one owner, a task variable of code that *)
(* has begun and not ended or, once detached, itself: it can be neither    *)
(* leaked nor destroyed twice.                                             *)
OwnedOnce ==
    \A f \in Frames :
        /\ state[f] \in {"none", "freed"} => Owners(f) = {}
        /\ state[f] \notin {"none", "freed"} =>
              /\ Cardinality(Owners(f)) = IF detached[f] THEN 0 ELSE 1
              /\ detached[f] => state[f] # "final"
              /\ \A o \in Owners(f) : o[1] = Main \/ state[o[1]] \notin Ended

(* A frame that awaits a task is the continuation of exactly one frame,    *)
(* whose body has not ended: no awaiting frame is forgotten, and none is   *)
(* resumed before the task it awaits has its result.                       *)
AwaitedRuns ==
    \A f \in Frames : state[f] = "awaiting" =>
        Cardinality({g \in Frames : cont[g] = f /\ state[g] \notin Ended}) = 1

(* A handle in the ready queue is resumed while run() runs, though the     *)
(* loop may first wait for every timer there is.                           *)
ReadyResumed ==
    \A f \in Frames : (state[f] = "queued" /\ loop # "idle") ~> (state[f] = "running")

=============================================================================

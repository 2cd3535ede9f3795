# Verification of agner

TLA+ models of the actor framework in `include/agner` (C++20 coroutines,
Erlang-style actors, OTP-style supervisors), the TLC runs that check them on
small instances, and TLAPS proofs of the central invariants for every instance.
`PROJECT.json` lists the components, runs, findings, hazards and theorems, and
maps every definition to the source lines it models.

## The system

| component | state | operations | interacts with |
|---|---|---|---|
| Mailbox, receive (`actor.hpp`) | `mailbox_`, `pending_`, `exit_reason_`; per awaiter `storage_`, `active_` | `send`, `stop`, `receive`, `try_receive`, the timer callback | senders run the receiver's visitors in their own thread, under its mutex; handles go to the scheduler |
| Registry (`scheduler_base.hpp`) | `actors_`, `links_`, `monitors_`, `active_actor_count_` | `spawn*`, `link`, `monitor`, `send`, `notify_exit` | signals become messages in other mailboxes; the count ends `run()` |
| Supervisor (`supervisor.hpp`) | `children_`, `restart_group_`, `restart_times_`, `stopping_` | the signal loop; `start_child`, `stop_child`, `restart_child`, `delete_child`, `stop` | an actor: monitors its children, spawns and stops them through the scheduler |
| Multi-threaded scheduler (`mt_scheduler.hpp`) | worker deques, `inject_queue_`, `timers_`, `shutdown_` | `schedule`, `schedule_after`, `run`, worker and timer loops, `on_actor_exit` | resumes coroutines, calls timer callbacks |
| Chase-Lev deque (`detail/chase_lev_deque.hpp`) | `top_`, `bottom_`, buffers | `push`, `pop` (owner), `steal` (others) | one per worker |
| Single-threaded scheduler (`scheduler.hpp`) | `ready_`, `timers_` | `schedule`, `schedule_after`, `run`, `stop` | as above, without threads |
| Tasks (`task.hpp`, `detail/task_detail.hpp`) | promise, continuation, `detached`, `handle_` | creation, move, destruction, `co_await`, `detach`, final suspend | every coroutine; handles go to the scheduler |
| GenServer (`genserver.hpp`) | `next_request_id_`, the locals of a call | `call`, `cast`, `serve`, the dispatcher | messages and timed receives of actors that may be callers and servers in turn |
| Asio scheduler (`asio_scheduler.hpp`) | `io_context`, await states, work guards | `schedule`, `schedule_after`, `run`, `stop`, three awaiters | waiter threads complete futures and post to the loop |
| Deterministic scheduler (`test/include`) | virtual time | `run_until_idle`, `run_for` | tests |

What is hard here: a receive is taken apart by the coroutine protocol
(`await_ready`, `await_suspend`, `await_resume`) and by a mutex that is released
in between; a timer callback refers to a frame that may be gone; visitors run in
the sender; exits collect their signals under a lock and deliver them after it;
a supervisor works on a table that is behind the registry by the signals still
queued; a server answers inside the call that sends it the request, so that a
reply may be there before its caller waits, or after it has given up; a frame is
owned by a variable, by itself or by nobody for a moment; the threads of the
schedulers meet only in atomics, deques, condition variables and shared
pointers. `PROJECT.json` lists these hazards line by line, with the properties
that watch over them.

## Modules

| module | models | proofs |
|---|---|---|
| `Mailbox` | what `receive()` and `try_receive()` promise: the abstract specification | |
| `Receive` | mailbox, selective and timed receive, stop | `ReceiveProofs` |
| `ReceiveImplements` | the refinement mapping from `Receive` to `Mailbox` | `ReceiveProofs` |
| `Registry` | spawn, links, monitors, exit signals, active count | `RegistryProofs` |
| `Supervisor` | strategies, restart groups, intensity, administrative calls | `SupervisorProofs` |
| `MtScheduler` | workers, injection queue, stealing, timers, run and shutdown | `MtSchedulerProofs` |
| `ChaseLev` | the deque on a machine with store buffers | `ChaseLevProofs` |
| `GenServer` | call, cast, serve, deadlines, late replies, throwing handlers | `GenServerProofs` |
| `Tasks` | coroutine frames, task objects, the loop of `Scheduler` | `TasksProofs` |
| `AsioScheduler` | the loop on `io_context`, awaiters, waiter threads | `AsioProofs` |

A definition whose name starts with `Wrong` is a faulty variant of the one after
it. The specification does not use it; exchanging the two shows that a property
notices the fault (`PROJECT.json`, "mutants").

### Receive

One actor, its senders, its timers. A step is a critical section of
`actor_mutex_` or one access to the atomic flag: `EnqueueMessage` and `Stop` run
up to the unlock, `ScheduleWaiter` is the `schedule()` after it;
`AwaitReady`, `AwaitSuspend`, `SetActive` and `ArmTimer` are the parts of a
`co_await`; `TimerLoad`, `TimerStore`, `TimerVisit`, `TimerReset` and
`TimerSchedule` are the statements of the callback. Messages are numbered in
the order of `emplace_back`, so the mailbox is a set of numbers, and carry a
type; a receive accepts a set of types. `dangling` records accesses to the frame
of a receive that has ended. `Concurrent` says whether the scheduler has
threads: if not, a call begins only when no other is in progress, which is the
discipline of `Scheduler`, where everything runs to its end or suspension.

### Mailbox and ReceiveImplements

`Mailbox` says what an actor may rely on: a message goes to the receive that waits
for its type or is queued; a receive takes the oldest message it accepts or
waits; one with a timeout gives up in the end; a receive with a result returns.
Each of these is one step. `ReceiveImplements` maps `mailbox_` to the queue, the
results of the visitors to the result of the receive and the frames that have
ended to the receives that have returned; locks, flag, timer and `pending_` are
hidden. `GenServer` and `Supervisor` rely on this abstraction: there a receive and
a send are one step each.

### Registry

`links_` and `monitors_` hold a count per pair of actors, since the vectors may
hold an actor several times. The locked section of `spawn_impl`, the increment
and the `detach` are three steps; an exit collects under the lock
(`ExitCollect`), decrements, then looks up each receiver (`ExitLookup`,
`DownLookup`) and delivers outside the lock (`Deliver`). `linked` and `watched`
record which links and monitors were made between registered actors, for the
properties.

### Supervisor

The supervisor on a single-threaded scheduler. A DownSignal that finds it
suspended is handled within the exit of the child; then its coroutine is
scheduled, and until it runs further signals queue. `HandleTermination` has one
disjunct per outcome of `handle_termination` and `handle_restart_group_stop`.
The exception that `actors_.at` throws when `request_stop` meets a child that has
left the registry is modelled: `Reached` is how far the loop gets, and the
coroutine is then "crashed" or the caller of the administrative call gets the
exception. `restart_group_` is the failed child, the refs of the others in its plan
and those still awaited; refs grow with every spawn, so the order of `children_` is
that of the refs. The loops that start children and prune `restart_times_` are
functions on the index of the loop. `halted` records the specifications all of whose
children a call has stopped and that no call has started since.

### MtScheduler

Handles move between an actor, the deques, the injection queue and the workers.
What actors do between suspensions is a choice, and mailboxes are abstract: a
message that completes a receive comes when a sender likes. The threads meet where
they do in `actor.hpp`. `Await` and `AwaitTimed` publish `pending_`; after the latter
the worker is still inside `await_suspend` and stores the flag (`SetActive`) and arms
the timer (`ArmTimer`), while others may already wake the actor. `Send` is the locked
part of `enqueue_message`, which clears the flag (`Disarm`) and takes the handle;
`ScheduleHeld` is the `schedule()` after the unlock. The callback of a timer is
`TimerLoad`, `TimerStore`, `TimerVisit`, `TimerReset` and `TimerSchedule`. The timer
loop is taken apart where it matters: the test of the predicate, the wait that
releases the mutex, the callback outside the mutex.

The code leaves a window: a message can complete a receive while its timer is being
armed, or while its callback is past the test of the flag. `raced` holds the actors to
which that has happened. It may end well, if the timer's thread or the arming worker
is through before the actor goes on. If the actor goes on while another thread can
still touch the receive that it has left, or resume it a second time, the behaviour
of the program is undefined; the model sets `broken` and stops there, so that no
property depends on what follows.

The operations of the deque are atomic here, because `ChaseLev` takes them apart. A
thief may miss an item although the deque is not empty (a lost compare-exchange).
Notifications of `work_cv_` are left out: a waiting worker's predicate looks only at
its own deque, which nobody else fills, so it is the timeout of one millisecond that
ends the wait.

### ChaseLev

The owner's stores sit in a buffer and reach memory in order (`Drain`, total
store order); only the `seq_cst` fence of `pop` and the compare-exchange wait for
it. A buffer grows from capacity 1, so that every push may wrap or grow, and a
thief may hold a retired buffer. Retired buffers are kept, as the code keeps them
until the deque is destroyed; that destruction is not modelled, nor are machines
weaker than TSO.

### GenServer

Every actor is a GenServer whose `run()` calls, casts and serves in any order, on a
single-threaded scheduler. A request to an actor suspended in `serve()` is handled
within the sender's `send()`, and the reply is delivered within that, so
`Call` goes through the dispatcher of the server; a server that is not suspended
finds the request in its mailbox (`ServeLoop`). `CallLoop` is a round of the loop in
`call()`: the deadline, then the first reply of the mailbox, then suspension, which
`CallTimer` or a reply ends. Time passes between any two steps. A handler may throw:
in the server's own `await_ready` that ends the server, in a sender's call it ends
that call and leaves the server suspended with `pending_` empty, which the model
calls "deaf"; it stays so for ever. The clock is bounded, so a call is made only if
its deadline falls before the end of time.

### Tasks

Frames, the task variables that own them and `Scheduler::run`. Running code, a
coroutine or `main()`, has two task variables and creates, moves, drops, detaches
and awaits tasks as it likes; a frame suspends on a timer, on an event that other
code raises, or on a task. `Final` is `final_awaitable::await_suspend`, `PopReady`,
`EnterTimers`, `FireTimer`, `LeaveTimers` and `Return` are the branches of the loop.
`broken` records a frame that was resumed or destroyed when it must not be. A task
is awaited or detached at most once, as the lazy task requires of its user.

### AsioScheduler

The `io_context` is a queue of posted handlers with a stop flag, which runs until
nothing is posted or pending and no work guard is held; futures become ready when
they like. A waiter thread stores the result, posts the coroutine and resets the
guard in three steps that interleave with the loop, with `stop()` and with the
destruction of the scheduler; an awaitable completes in a handler of the loop.
`refs` counts the shared pointers to an await state, which in turn keeps the
`io_context` alive; `broken` records a use after the last one is gone. `inside` is
the await whose awaiter is in the frame of a coroutine, until it suspends somewhere
else: a handler that was posted twice resumes it there twice, and `resumed` counts
both.

## Runs

Passing runs:

| run | what it shows |
|---|---|
| `receive_coop` | without threads: `ImplementsMailbox`, safety and liveness, and `NoAccessAfterDestroy` |
| `receive_mt` | with threads: `EveryMessageOnce`, `SameTypeInOrder`, types |
| `registry` | `SignalsReachSurvivors`, `NoSpuriousSignals`, `ShutdownMeansEmpty`, types |
| `supervisor` | all strategies: `EntriesAccounted`, `GroupCanFinish`, `IntensityRespected`, `StartOrderKept`, `HaltedLeftAlone`, types, and `PermanentComesBack` under fairness |
| `mt_scheduler` | `HandleHeldOnce`: outside the window described above a handle is in one place, and undefined behaviour comes from that window only; `ReturnsWhenDone`, types, and `ReadyRuns`, `TimedWaitEnds` under fairness, up to undefined behaviour |
| `chase_lev` | `TakenOnce`, `NothingLost`, types |
| `genserver` | `CallCorrelated`, `HandledInOrder`, `SleepersHaveNothing`, types, and `CallEnds`, `RequestHandled` under fairness |
| `tasks` | `NoFrameMisused`, `OwnedOnce`, `AwaitedRuns`, types, and `ReadyResumed` under fairness |
| `asio` | `ResumedOnceWithResult`, `NoUseAfterFree`, `RunKeepsWaiting`, types, and `CompletedResumes` under fairness |

`ImplementsMailbox` takes the place of single properties of a receive (one outcome,
no sleep on an acceptable message, every timed receive completes), which it implies.

Runs that end in a violation: the code does not do what a comment or the
repository's own specification says (`PROJECT.json`, "findings", quotes it).

| run | property | what happens |
|---|---|---|
| `receive_mt_delivery` | `MatchingDeliveryResumes` | a message queued between `await_ready` and `await_suspend` wakes nobody (threads only) |
| `supervisor_group_stuck` | `GroupFinishes` | two children end at once: `request_stop` throws and the supervisor crashes |
| `mt_scheduler_return` | `RunReturns` | `shutdown_` is stored between the timer loop's test and its wait: `run()` sleeps forever |

### Observations

The models show further behaviours that a reader may not expect. No run is kept
for them; each can be reproduced by checking the formula that is named.

* With threads, a timeout and a message can both be delivered to one receive: the
  callback tests and clears the flag without the mutex (`actor.hpp:238-241`).
  `SingleOutcome` fails in `Receive` with `Concurrent = TRUE`, while
  spec/PROOF_LEDGER.md:23 says "`try_receive()` observes exactly one of message or
  timeout."
* For the same reason one handle can be scheduled twice with threads, once by the
  sender and once by the timer, and two workers can resume one coroutine; and since
  `pending_` is published before the timer is armed (`actor.hpp:229-236`), a sender can
  resume a coroutine whose `await_suspend` is still running. `~broken` fails in
  `MtScheduler`; `HandleHeldOnce` shows that there is no other way to such a state.
* `spec/core/timing/timers/timer_lifecycle/README.md:5-16` reports a use-after-free
  "in the current C++ implementation", of a lambda `[this, handle] { if (!active_) return; ...`
  that is no longer there: `actor.hpp:234-240` captures the shared flag by value and
  returns before it touches `this`. `NoAccessAfterDestroy` shows that this is safe
  without threads, and its faulty variant `WrongTimerLoad` is the old lambda.
* A restart group forgets a permanent child that ends while the group is open and
  is not in its plan: an earlier one under rest_for_one, or one started by a call
  meanwhile (`supervisor.hpp:482`). `NoneLeftOut` is the condition under which
  `PermanentComesBack` holds; without it the property fails.
* A restart group puts back `suppress_restart` for every child of its plan, also for
  one that `stop_child` has just stopped, and starts it again
  (`supervisor.hpp:535`). `HaltedLeftAlone` is restricted to the strategies without
  groups for this reason.
* `stop()` of a supervisor throws half way when a child's DownSignal is queued, and
  the supervisor goes on; a supervisor ends before its children; `restart_child`
  called twice under simple_one_for_one leaves one child too many.
* `stop_child` and `delete_child` under simple_one_for_one stop in the middle when one
  of the children has left the registry and its DownSignal is still queued
  (`supervisor.hpp:595`): `request_stop` throws, and the children behind that one go on
  and may be restarted. The proof of `HaltedLeftAlone` does not go through for a
  specification that counts as halted then, although the run's bounds did not show it;
  `Halt` therefore asks that the call reached every child.
* `spawn_link` accepts a linker that has exited; monitors stay in the table after
  their watcher has exited.
* A handler that throws in a sender's call leaves the server suspended for ever,
  with its requests in the mailbox (`actor.hpp:315`).
* A handle that a timer callback has scheduled waits until every pending timer has
  fired, however far away the last one is (`scheduler.hpp:58`): `ReadyResumed`
  promises no more than "in the end".
* A `stop()` of the Asio scheduler that comes before `run()` is forgotten, because
  `run()` restarts the `io_context` (`asio_scheduler.hpp:103`).

### Bounds

The bounds are counters in the guards, named in the CONSTANTS of each module.
`Receive`: two senders (a third adds no new pair of threads), three messages (four
without threads) of two types, two or three receives in a row, so that a late timer
of one receive meets the next. `Registry`: three actors, two present at the start,
four link or monitor operations, which is enough for parallel links and for an exit during
another. `Supervisor`: two or three specifications, so that rest_for_one has an
earlier, a failing and a later child, one of each restart type; two faults, so
that a child fails while another's signal is queued or a group is open; two
administrative calls; one restart allowed within one tick in a clock of two, so
that restarts fall inside and outside the window. `MtScheduler`: two workers,
three actors, two suspensions: one is enough for a message to meet the timer, the
second lets the stale timer of the first receive, or a second actor's timer, meet the
next; two calls of `run()` in a row happen within that. The inductive invariant and
the safety properties were also checked with three.
`ChaseLev`: two thieves, four items, capacities 1, 2 and 4.
`GenServer`: two actors that are each other's servers, two requests each, so that the
reply to a call that has timed out meets the next call; timeouts of 0 and 1 in a
clock of two, one signal. `Tasks`: four frames, so that an awaiting frame, the awaited
one, a detached one and one in a variable exist together; two timers with two delays.
`AsioScheduler`: two coroutines, three awaits, so that one coroutine awaits again
while the waiter thread of its first await is still inside `resume()`; one timer, one
`stop()`.

### Fairness

`Receive`: every call in progress finishes, a timer that is armed fires, a queued
handle is resumed; senders need not send. `Mailbox` asks for no more than that a
timed receive ends and a receive with a result returns. `Supervisor`: the scheduler resumes what is ready, and a
child that was asked to stop does; faults and calls need not happen.
`MtScheduler`: each thread that can take a step does (weak fairness per worker
and for the timer thread), an actor does not compute forever, and a thief does
not lose the compare-exchange for ever (strong fairness of `Steal`: it loses
only when another thread has taken an item). The repository promises no
starvation freedom, and a worker's LIFO deque cannot give it: `ReadyRuns` holds
because `MaxWaits` makes the actors' work finite. `GenServer`: time passes, due timers fire and scheduled coroutines go on; no actor
has to call, serve or end. `Tasks`: the loop goes on, time passes, and a coroutine
that has control suspends or ends, as cooperative scheduling requires.
`AsioScheduler`: the loop runs what is posted, and a waiter thread goes on once its
future is ready; a future need not become ready. Nothing forces the application to
call `run()` or to send.

## Proofs

`ReceiveProofs`, for any set of senders and types and any bounds:

* `TypeCorrect`: the type invariant.
* `MessagesOnceInOrder`: `EveryMessageOnce` and `SameTypeInOrder`, whatever the
  scheduler. The invariant is inductive given the types, because every taking of
  a message is one critical section: `PushKeeps` and `TakeKeeps` state what
  `emplace_back` and the selective erase preserve, and every action is one of
  them or leaves the mailbox alone.
* `SingleThreadedReceive`, assuming `Concurrent = FALSE`: `SingleOutcome`,
  `BlockedHasNoMatch`, `NoAccessAfterDestroy`, `SuspendedHasWaker`. None is
  inductive by itself. `CoopInv` adds that at most one call is in progress, that a
  set flag and a callback past the flag belong to the registered awaiter, that a
  suspended receive that is not registered is about to be resumed exactly once,
  and that a finished receive has left nothing behind but a timer with a cleared
  flag. The same invariant fails with threads, at `await_suspend`
  (`receive_mt_delivery`) and at the callback's flag (Observations).
* `ReceiveRefinesMailbox`, assuming `Concurrent = FALSE`: `Spec => Abstract!Spec`,
  the safety half of `ImplementsMailbox`. `Answered` strengthens `CoopInv` with what
  the mapping needs: a receive that is over, or suspended and unregistered, has its
  result, and only a try_receive has a timer. Then a push is `Send`, because the
  registered receive can only match the new message (`PushImplements`); `await_ready`
  is `Begin` (`ReadyImplements`); the timeout visitor is `Expire`, the resumption is
  `Complete`, and every other step is invisible (`StepImplements`).
* `SameTypeKeepsOrder` is the order half of `MessagesOnceInOrder`.

`RegistryProofs`, for any number of actors:

* `TypeCorrect`: the type invariant.
* `SignalsExact`: `LinksSymmetric`, `SignalsReachSurvivors`, `NoSpuriousSignals`
  (the last one also as `NoSignalInvented`). `RegistryInv` is a ledger: for
  a registered actor, the links it had to an actor that has exited are the
  signals that are collected, in flight or delivered (`LinkLedger`, and
  `MonitorLedger` for monitors). It needs that refs not yet issued occur in no
  table (`Lifecycle`), that a child under construction has one spawner
  (`Spawning`), and that only exits have signals (`Senders`).

* `ShutdownWhenEmpty`: `ShutdownMeansEmpty`. The invariant needed is that
  `active_actor_count_` is the number of actors between the increment and the
  decrement (`CountStep` follows it through every step). An actor may be registered
  and not yet counted, but then its spawner is counted, so an empty count means an
  empty registry.

`MtSchedulerProofs`, for any finite sets of workers and actors:

* `TypeCorrect`, `HandlesHeldOnce` (`HandleHeldOnce`), `RunReturnsDone`
  (`ReturnsWhenDone`). `MtInv` says that the queues hold ready actors only, and each of
  those outside the window in one place (`Placed`), that the workers run exactly the
  running ones (`Held`), that of the threads that can touch a receive (the one arming
  its timer, the timer, the callback, a sender) there is one at most and only while its
  actor is suspended, the window apart (`Window`), that the count is the number of live
  actors (`Counted`) and `shutdown_` is believed only after the last one exited
  (`Ending`). `HandleHeldOnce` is not inductive alone, and that is the point: `Spawn`,
  a sender and the timer put a handle into a queue without looking whether it is
  somewhere else, and only the state of the actor says that it is not. An actor in the
  window is woken or ready until it is resumed, which either ends the window or is the
  undefined behaviour that the theorem confines to it.

`ChaseLevProofs`, under total store order, for any thieves and any initial capacity
above zero:

* `TypeCorrect`, `ItemsTakenOnce` (`TakenOnce`), `ItemsNotLost` (`NothingLost`).
  `DequeInv` says that there is a function `item`, the item pushed at each index,
  such that: the live range fits the buffer and no value of `bottom_` that can be read
  exceeds it (`Bounded`); the newest stores are what the owner remembers (`Newest`);
  a store of a slot is on its way together with the store of `bottom_` that
  publishes it (`Pending`); every buffer that can still be loaded has every
  live item, or its store is on its way (`Valid`); a thief whose compare-exchange
  would succeed has read the item at the top (`Robber`); and every item is in the
  range or has been returned, once (`Accounted`). `TypeOK` needs `Low`, the lower bound
  of `bottom_`, besides.

`GenServerProofs`, for any actors and any bounds:

* `TypeCorrect`, `CallsAnswered` (`CallCorrelated`), `HandlingOrdered`
  (`HandledInOrder`), `SleepersClear` (`SleepersHaveNothing`). `GenServerInv` says
  that the id of a call is the number of outcomes before it (`Numbered`), that a reply
  answers a request of the actor whose mailbox, locals or outcomes it is in
  (`Correlated`), that requests wait in a mailbox in the order in which they were
  sent and after those handled (`Ordered`), and that nothing a suspended actor waits
  for is in its mailbox (`Asleep`). Its parts take the state as arguments, because a
  send that runs the receiver's visitor is two of these changes in one step.

`SupervisorProofs`, for any strategy, specifications, intensity, faults and calls:

* `TypeCorrect`, `EntriesRegistered` (`EntriesAccounted`), `GroupsCanFinish`
  (`GroupCanFinish`). `SupInv` says that a signal comes once and from a child that has
  left the registry, that an entry marked as stopping was asked to stop, and that no
  specification has two entries (`Account`), and that a group waits for children that
  were asked to stop (`Waits`). The types of the counters and of the times of restarts,
  none of which lies in the future, are an invariant of their own (`Counted`). The parts
  of `SupInv` take the children, as a record, and the
  mailbox as arguments: `handle_termination` erases the child first and goes on from a
  state that no step ends in. After a crash nothing is claimed but types.
* `IntensityKept` (`IntensityRespected`). `Rated`: seen from any moment that a later
  pruning keeps, `restart_times_` has at least as many entries as restarts were granted.
  `PrunedSince` is what the pruning leaves.
* `HaltedStayHalted` (`HaltedLeftAlone`). `HaltInv` adds that the entries of a halted
  specification have `suppress_restart` set, so that the signal of a child that is
  still on its way restarts nothing.
* `RestForOneInOrder` (`StartOrderKept`). `OrderInv` adds what holds while a group is
  open: the children it does not wait for come before the failed one, those to be
  restarted after it, in the order of their refs. `RespawnOrdered` follows
  `finalize_restart_group` through the plan.

  The loops are followed without an induction theorem: a set of indices that has 0 and,
  with an index, the next one has them all (`UpTo`, from the well-foundedness of the
  naturals), and a loop whose steps stay in a set has a state after each step
  (`LoopExists`). `Grown` sums up what any of the starting loops does: new children,
  fresh entries, nothing else.

`TasksProofs`, for any set of frames and variables:

* `TypeCorrect`, `FramesNotMisused` (`NoFrameMisused`), `FramesOwned` (`OwnedOnce`),
  `AwaitsResumed` (`AwaitedRuns`). `TasksInv` ties the four places of a handle
  together: `ready_` and the timers hold suspended frames once (`Waiting`), one frame
  runs (`Control`), a task variable owns a frame alone and refers to one that has not
  begun, has ended, or is awaited there (`Owning`), and a promise has a continuation or
  is detached, never both (`Promised`).

`AsioProofs`, for any coroutines and awaits:

* `TypeCorrect`, `AwaitsResumedOnce` (`ResumedOnceWithResult`), `CompletionsSafe`
  (`NoUseAfterFree`), `RunWaits` (the action property `RunKeepsWaiting`). `AsioInv`
  says that the posted handlers are those of the coroutines scheduled (`Posted`), that a
  coroutine waits for one timer or one await that has not scheduled it (`Awaited`) and
  is suspended in just that one (`Entered`), so that its one handler resumes it from
  there, and how far each await is: its completion has its reference to the state and its
  work guard until its last steps (`Stages`).

The assumptions are the named ASSUMEs of the modules, which every run evaluates.
Only model-checked: the liveness properties (`PermanentComesBack`, `ReadyRuns`,
`TimedWaitEnds`, `CallEnds`, `RequestHandled`, `ReadyResumed`, `CompletedResumes`) and the
liveness half of `ImplementsMailbox`. They rest on fairness, which is outside the
prover's reach. Every invariant that a run checks is a theorem.

## Not modelled

Message contents, results and constructor arguments; visitors that call back into
their own actor or send from a handler; the lock orders of visitors under
`MtScheduler`; the compile-time machinery (concepts, selectors, type lists);
self-links; memory orders weaker than TSO; the depth of nested `resume()` calls;
overflow of the 64-bit counters, which no run of the program reaches; Boost.Asio,
Boost.Thread and the standard futures beyond what the code asks of them; the
deterministic scheduler, which is test support and differs from `Scheduler` in the
source of its clock; benchmarks and scripts. `Supervisor` and `GenServer` are not
combined with threads, although `register_restart` would then lock `actor_mutex_`
twice and two servers could take each other's mutex in opposite orders.

## Plan

Every component of the library has a module, and every invariant a proof. Left for
later: visitors under the receiver's mutex that send or stop, that is lock order and
re-entrance under `MtScheduler`; a composition of `Registry` and `Supervisor` with spawn
and monitor as two steps.

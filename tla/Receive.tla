------------------------------- MODULE Receive -------------------------------
(***************************************************************************)
(* One actor's mailbox and its receive() / try_receive() awaiters          *)
(* (include/agner/actor.hpp).                                              *)
(*                                                                         *)
(* The actor's coroutine performs receives 1, 2, ...  Every receive is a   *)
(* ReceiveAwaiter in a coroutine frame of its own: await_ready() looks for *)
(* a match under actor_mutex_, await_suspend() publishes the awaiter in    *)
(* pending_ under a second acquisition of the mutex and then, with the     *)
(* mutex released, creates the active_ flag and arms the timer.  A sender  *)
(* pushes and matches under the mutex and calls schedule() after it; the   *)
(* timer callback tests and clears the flag with two separate atomic       *)
(* operations and takes the mutex only to reset pending_.                  *)
(*                                                                         *)
(* Concurrent = TRUE is MtScheduler: every one of these steps interleaves  *)
(* with the steps of other threads.  Concurrent = FALSE is Scheduler,      *)
(* AsioScheduler and DeterministicScheduler, whose actor_mutex_ is         *)
(* null_mutex: a call runs to its end before another one begins.           *)
(*                                                                         *)
(* A message is its number in the order of the pushes, so that the deque   *)
(* mailbox_ is the set of the numbers still queued, front = smallest.      *)
(* When a timer is due is left open: it may fire at any moment after it    *)
(* was armed.                                                              *)
(***************************************************************************)
EXTENDS Naturals

CONSTANTS
    Senders,      \* threads that send to this actor or stop it
    MsgTypes,     \* the alternatives of message_variant
    ExitSignal,   \* the alternative that stop() pushes
    MaxMessages,  \* bound: messages pushed in a behaviour
    MaxReceives,  \* bound: receives performed in a behaviour
    Concurrent    \* is the scheduler multi-threaded?

ASSUME BoundsAssumption == MaxMessages \in Nat /\ MaxReceives \in Nat
ASSUME ExitSignalAssumption == ExitSignal \in MsgTypes
ASSUME ConcurrentAssumption == Concurrent \in BOOLEAN

Receives == 1..MaxReceives
Messages == 1..MaxMessages
Timeout == 0        \* the outcome of a receive whose timeout visitor ran
None == 0           \* an empty optional, a null handle

VARIABLES
    pushed,     \* number of messages pushed so far
    typeOf,     \* typeOf[i]: the type of the i-th message pushed
    mailbox,    \* mailbox_
    pending,    \* pending_: the receive whose awaiter is registered
    exitReason, \* exit_reason_: the stop() that assigned it last
    exited,     \* has run() returned?
    begun,      \* number of receives begun
    state,      \* state[n]: where the coroutine frame of receive n is
    wants,      \* wants[n]: message types its visitors accept
    timed,      \* timed[n]: is it a try_receive?
    timer,      \* timer[n]: progress of its flag, timer and callback
    active,     \* active[n]: active_, a null pointer until it is assigned
    outcome,    \* outcome[n]: every result its visitors have produced
    hold,       \* hold[s]: to_schedule of sender s, between unlock and schedule()
    ready,      \* ready[n]: times its handle is queued in the scheduler
    dangling    \* receives whose destroyed frame was accessed

coroutine == <<begun, state, wants, timed>>
queue == <<pushed, typeOf, mailbox, exitReason>>
vars == <<pushed, typeOf, mailbox, pending, exitReason, exited, begun, state,
          wants, timed, timer, active, outcome, hold, ready, dangling>>

States == {"none", "checked", "suspended", "done"}
Timers == {"none", "flag", "arm", "armed", "store", "visit", "reset",
           "schedule", "over"}
Firing == {"store", "visit", "reset", "schedule"}   \* inside the callback
Arming == {"flag", "arm"}                           \* inside await_suspend

Init ==
    /\ pushed = 0
    /\ typeOf = [i \in Messages |-> None]
    /\ mailbox = {}
    /\ pending = None
    /\ exitReason = None
    /\ exited = FALSE
    /\ begun = 0
    /\ state = [n \in Receives |-> "none"]
    /\ wants = [n \in Receives |-> {}]
    /\ timed = [n \in Receives |-> FALSE]
    /\ timer = [n \in Receives |-> "none"]
    /\ active = [n \in Receives |-> "null"]
    /\ outcome = [n \in Receives |-> {}]
    /\ hold = [s \in Senders |-> None]
    /\ ready = [n \in Receives |-> 0]
    /\ dangling = {}

-----------------------------------------------------------------------------
(* Which calls are in progress, between their first and their last step. *)

Running == ~exited /\ \A n \in 1..begun : state[n] = "done"

InProgress ==
    \/ \E s \in Senders : hold[s] # None
    \/ \E n \in Receives : state[n] = "checked" \/ timer[n] \in Arming \cup Firing

(* A call may begin: without threads, only once no other is in progress. *)
MayBegin == Concurrent \/ ~InProgress

(* The frame of receive n was accessed by somebody else. *)
Touch(n) ==
    dangling' = IF state[n] = "done" THEN dangling \cup {n} ELSE dangling

-----------------------------------------------------------------------------
(* try_match_mailbox: find_if over mailbox_ with the visitors of a receive  *)
(* that accepts the types w.  q is the mailbox, l is typeOf.  A definition    *)
(* whose name starts with Wrong is a faulty variant of the one after it,    *)
(* kept to show that a property notices the fault.                          *)

WrongMatches(q, w, l) == {i \in q : l[i] \in w /\ \E j \in q : i < j}

Matches(q, w, l) == {i \in q : l[i] \in w}

WrongFirstMatch(q, w, l) ==
    {i \in Matches(q, w, l) : \A j \in Matches(q, w, l) : i >= j}

FirstMatch(q, w, l) ==
    {i \in Matches(q, w, l) : \A j \in Matches(q, w, l) : i <= j}

WrongErase(n, q, i) ==
    /\ mailbox' = q
    /\ outcome' = [outcome EXCEPT ![n] = @ \cup {i}]
    /\ active' = [active EXCEPT ![n] = IF @ = "null" THEN "null" ELSE "false"]

(* try_match: the visitor stores its result, the message is erased, and the *)
(* flag is cleared if active_ is assigned.                                  *)
TryMatch(n, q, i) ==
    /\ mailbox' = q \ {i}
    /\ outcome' = [outcome EXCEPT ![n] = @ \cup {i}]
    /\ active' = [active EXCEPT ![n] = IF @ = "null" THEN "null" ELSE "false"]

(* notify_waiter_locked, in thread s, with the mailbox q: the registered   *)
(* awaiter matches and is unregistered, ...                                *)
WakeWaiter(s, q) ==
    /\ pending # None
    /\ \E i \in FirstMatch(q, wants[pending], typeOf') : TryMatch(pending, q, i)
    /\ hold' = [hold EXCEPT ![s] = pending]
    /\ pending' = None
    /\ Touch(pending)

(* ... or there is none, ... *)
NoWaiter(q) ==
    /\ pending = None
    /\ mailbox' = q
    /\ UNCHANGED <<pending, hold, outcome, active, dangling>>

(* ... or it does not match and is put back. *)
KeepWaiter(q) ==
    /\ pending # None
    /\ Matches(q, wants[pending], typeOf') = {}
    /\ mailbox' = q
    /\ Touch(pending)
    /\ UNCHANGED <<pending, hold, outcome, active>>

NotifyWaiter(s, q) == WakeWaiter(s, q) \/ NoWaiter(q) \/ KeepWaiter(q)

(* enqueue_message, up to the unlock. *)
EnqueueMessage(s, type) ==
    /\ MayBegin
    /\ hold[s] = None
    /\ pushed < MaxMessages
    /\ pushed' = pushed + 1
    /\ typeOf' = [typeOf EXCEPT ![pushed + 1] = type]
    /\ NotifyWaiter(s, mailbox \cup {pushed + 1})
    /\ UNCHANGED <<exitReason, exited, coroutine, timer, ready>>

(* stop, up to the unlock. *)
Stop(s) ==
    /\ MayBegin
    /\ hold[s] = None
    /\ pushed < MaxMessages
    /\ pushed' = pushed + 1
    /\ typeOf' = [typeOf EXCEPT ![pushed + 1] = ExitSignal]
    /\ exitReason' = pushed + 1
    /\ NotifyWaiter(s, mailbox \cup {pushed + 1})
    /\ UNCHANGED <<exited, coroutine, timer, ready>>

(* The schedule() call that ends enqueue_message and stop. *)
ScheduleWaiter(s) ==
    /\ hold[s] # None
    /\ ready' = [ready EXCEPT ![hold[s]] = @ + 1]
    /\ hold' = [hold EXCEPT ![s] = None]
    /\ UNCHANGED <<queue, pending, exited, coroutine, timer, active, outcome, dangling>>

-----------------------------------------------------------------------------
(* The awaiter. *)

(* co_await of the next receive: await_ready, which either finds a message, *)
(* and the coroutine goes on, or does not.                                  *)
AwaitReady(w, t) ==
    LET n == begun + 1 IN
    /\ MayBegin
    /\ Running
    /\ begun < MaxReceives
    /\ begun' = n
    /\ wants' = [wants EXCEPT ![n] = w]
    /\ timed' = [timed EXCEPT ![n] = t]
    /\ \/ /\ \E i \in FirstMatch(mailbox, w, typeOf) : TryMatch(n, mailbox, i)
          /\ state' = [state EXCEPT ![n] = "done"]
       \/ /\ Matches(mailbox, w, typeOf) = {}
          /\ state' = [state EXCEPT ![n] = "checked"]
          /\ UNCHANGED <<mailbox, outcome, active>>
    /\ UNCHANGED <<pushed, typeOf, exitReason, pending, exited, timer, hold, ready,
                   dangling>>

(* await_suspend, the locked part: the awaiter becomes visible to senders. *)
AwaitSuspend(n) ==
    /\ state[n] = "checked"
    /\ state' = [state EXCEPT ![n] = "suspended"]
    /\ pending' = n
    /\ timer' = [timer EXCEPT ![n] = IF timed[n] THEN "flag" ELSE "none"]
    /\ UNCHANGED <<queue, exited, begun, wants, timed, active, outcome, hold,
                   ready, dangling>>

(* await_suspend: active_ = active_flag. *)
SetActive(n) ==
    /\ timer[n] = "flag"
    /\ timer' = [timer EXCEPT ![n] = "arm"]
    /\ active' = [active EXCEPT ![n] = "true"]
    /\ Touch(n)
    /\ UNCHANGED <<queue, pending, exited, coroutine, outcome, hold, ready>>

(* await_suspend: schedule_after. *)
ArmTimer(n) ==
    /\ timer[n] = "arm"
    /\ timer' = [timer EXCEPT ![n] = "armed"]
    /\ Touch(n)
    /\ UNCHANGED <<queue, pending, exited, coroutine, active, outcome, hold, ready>>

WrongTimerLoad(n) ==
    /\ MayBegin
    /\ timer[n] = "armed"
    /\ \A m \in Receives : timer[m] \notin Firing
    /\ timer' = [timer EXCEPT ![n] = "store"]
    /\ UNCHANGED <<queue, pending, exited, coroutine, active, outcome, hold,
                   ready, dangling>>

(* The timer callback: the load of the flag, and the early return.  One    *)
(* thread runs the callbacks, one after the other.                         *)
TimerLoad(n) ==
    /\ MayBegin
    /\ timer[n] = "armed"
    /\ \A m \in Receives : timer[m] \notin Firing
    /\ timer' = [timer EXCEPT ![n] = IF active[n] = "true" THEN "store" ELSE "over"]
    /\ UNCHANGED <<queue, pending, exited, coroutine, active, outcome, hold,
                   ready, dangling>>

(* The store that clears the flag. *)
TimerStore(n) ==
    /\ timer[n] = "store"
    /\ timer' = [timer EXCEPT ![n] = "visit"]
    /\ active' = [active EXCEPT ![n] = "false"]
    /\ UNCHANGED <<queue, pending, exited, coroutine, outcome, hold, ready, dangling>>

(* timeout(): the timeout visitor's result goes into storage_. *)
TimerVisit(n) ==
    /\ timer[n] = "visit"
    /\ timer' = [timer EXCEPT ![n] = "reset"]
    /\ outcome' = [outcome EXCEPT ![n] = @ \cup {Timeout}]
    /\ Touch(n)
    /\ UNCHANGED <<queue, pending, exited, coroutine, active, hold, ready>>

(* actor_.pending_.reset() under the mutex. *)
TimerReset(n) ==
    /\ timer[n] = "reset"
    /\ timer' = [timer EXCEPT ![n] = "schedule"]
    /\ pending' = None
    /\ Touch(n)
    /\ UNCHANGED <<queue, exited, coroutine, active, outcome, hold, ready>>

(* schedule(handle), the callback's last statement. *)
TimerSchedule(n) ==
    /\ timer[n] = "schedule"
    /\ timer' = [timer EXCEPT ![n] = "over"]
    /\ ready' = [ready EXCEPT ![n] = @ + 1]
    /\ Touch(n)
    /\ UNCHANGED <<queue, pending, exited, coroutine, active, outcome, hold>>

WrongResume(n) ==
    /\ MayBegin
    /\ state[n] = "suspended"
    /\ ready' = [ready EXCEPT ![n] = @ - 1]
    /\ state' = [state EXCEPT ![n] = "done"]
    /\ Touch(n)
    /\ UNCHANGED <<queue, pending, exited, begun, wants, timed, timer, active,
                   outcome, hold>>

(* The scheduler resumes a queued handle.  await_resume takes the result,  *)
(* the receive's frame ends and is destroyed, and the actor's coroutine    *)
(* goes on.  A handle whose frame is gone is an access to that frame.      *)
Resume(n) ==
    /\ MayBegin
    /\ ready[n] > 0
    /\ ready' = [ready EXCEPT ![n] = @ - 1]
    /\ state' = [state EXCEPT ![n] = "done"]
    /\ Touch(n)
    /\ UNCHANGED <<queue, pending, exited, begun, wants, timed, timer, active,
                   outcome, hold>>

(* run() returns and start() reads exit_reason(). *)
Return ==
    /\ MayBegin
    /\ Running
    /\ exited' = TRUE
    /\ UNCHANGED <<queue, pending, coroutine, timer, active, outcome, hold,
                   ready, dangling>>

-----------------------------------------------------------------------------
Call == \E s \in Senders : Stop(s) \/ \E type \in MsgTypes : EnqueueMessage(s, type)

Receiving ==
    \/ \E w \in (SUBSET MsgTypes) \ {{}}, t \in BOOLEAN : AwaitReady(w, t)
    \/ Return

(* What await_suspend's thread and the timer thread do for receive n. *)
TimerStep(n) ==
    \/ SetActive(n)
    \/ ArmTimer(n)
    \/ TimerLoad(n)
    \/ TimerStore(n)
    \/ TimerVisit(n)
    \/ TimerReset(n)
    \/ TimerSchedule(n)

Next ==
    \/ Call
    \/ Receiving
    \/ \E s \in Senders : ScheduleWaiter(s)
    \/ \E n \in Receives : AwaitSuspend(n) \/ TimerStep(n) \/ Resume(n)

Spec == Init /\ [][Next]_vars

(* A thread inside a call goes on, the scheduler's thread resumes queued   *)
(* handles and the timer thread runs armed timers; nobody has to send, and *)
(* the actor need not receive.                                             *)
Fairness ==
    /\ \A s \in Senders : WF_vars(ScheduleWaiter(s))
    /\ \A n \in Receives :
          /\ WF_vars(AwaitSuspend(n))
          /\ WF_vars(TimerStep(n))
          /\ WF_vars(Resume(n))

FairSpec == Spec /\ Fairness

-----------------------------------------------------------------------------
(* Properties. *)

(* Every variable keeps its type. *)
TypeOK ==
    /\ pushed \in 0..MaxMessages
    /\ typeOf \in [Messages -> MsgTypes \cup {None}]
    /\ mailbox \subseteq 1..pushed
    /\ pending \in Receives \cup {None}
    /\ exitReason \in 0..pushed
    /\ exited \in BOOLEAN
    /\ begun \in 0..MaxReceives
    /\ state \in [Receives -> States]
    /\ wants \in [Receives -> SUBSET MsgTypes]
    /\ timed \in [Receives -> BOOLEAN]
    /\ timer \in [Receives -> Timers]
    /\ active \in [Receives -> {"null", "true", "false"}]
    /\ outcome \in [Receives -> SUBSET Nat]
    /\ \A n \in Receives : outcome[n] \subseteq 0..pushed
    /\ hold \in [Senders -> Receives \cup {None}]
    /\ ready \in [Receives -> Nat]
    /\ dangling \subseteq Receives

Consumed == {i \in 1..pushed : \E n \in Receives : i \in outcome[n]}

(* No message is lost or handed out twice: a pushed message is queued until *)
(* one receive takes it.                                                    *)
EveryMessageOnce ==
    /\ mailbox = (1..pushed) \ Consumed
    /\ \A m, n \in Receives : m # n => outcome[m] \cap outcome[n] \subseteq {Timeout}

(* Messages of one type are taken in the order they were pushed. *)
SameTypeInOrder ==
    \A j \in Consumed : \A i \in 1..j : typeOf[i] = typeOf[j] => i \in Consumed

(* A receive produces one result: one message or the timeout, never both. *)
SingleOutcome ==
    \A n \in Receives : \A a, b \in outcome[n] : a = b

(* A registered receive has no acceptable message waiting in the mailbox. *)
BlockedHasNoMatch ==
    pending # None => \A i \in mailbox : typeOf[i] \notin wants[pending]

(* No thread, timer or queued handle ever reaches a receive's coroutine    *)
(* frame after the frame was destroyed; in particular a receive is resumed *)
(* once.                                                                   *)
NoAccessAfterDestroy == dangling = {}

(* A suspended receive can still be woken: its awaiter is registered, or   *)
(* some thread has its handle in hand or has queued it.                    *)
SuspendedHasWaker ==
    \A n \in Receives : state[n] = "suspended" =>
        \/ pending = n
        \/ \E s \in Senders : hold[s] = n
        \/ timer[n] \in {"visit", "reset", "schedule"}
        \/ ready[n] > 0

(* A receive whose visitors accept a message that is queued, or was handed *)
(* to it, completes.                                                       *)
MatchingDeliveryResumes ==
    \A n \in Receives :
        (/\ state[n] = "suspended"
         /\ outcome[n] # {} \/ \E i \in mailbox : typeOf[i] \in wants[n])
            ~> (state[n] = "done")

=============================================================================

---------------------------- MODULE ReceiveProofs ----------------------------
(***************************************************************************)
(* Proofs about Receive.  The first part holds for every scheduler, the    *)
(* multi-threaded one included: types, the conservation and the order of   *)
(* messages.  The second part, from NoHold on, is about the                *)
(* single-threaded schedulers only (its conclusions fail when calls        *)
(* interleave) and ends in the refinement of Mailbox.                      *)
(***************************************************************************)
EXTENDS ReceiveImplements, TLAPS

(* What the locked section of a push, enqueue_message's or stop's, leaves  *)
(* in the variables it shares with the awaiters.                           *)
LEMMA PushTypes ==
    ASSUME TypeOK, NEW s \in Senders, pushed' = pushed + 1,
           NotifyWaiter(s, mailbox \cup {pushed + 1})
    PROVE  /\ mailbox' \subseteq 1..pushed'
           /\ pending' \in Receives \cup {None}
           /\ active' \in [Receives -> {"null", "true", "false"}]
           /\ outcome' \in [Receives -> SUBSET Nat]
           /\ \A n \in Receives : outcome'[n] \subseteq 0..pushed'
           /\ hold' \in [Senders -> Receives \cup {None}]
           /\ dangling' \subseteq Receives
<1> DEFINE q == mailbox \cup {pushed + 1}
<1>1. pushed \in Nat /\ mailbox \subseteq 1..pushed
  BY BoundsAssumption DEF TypeOK
<1>2. q \subseteq 1..pushed'
  BY <1>1
<1>3. \A n \in Receives : outcome[n] \subseteq 0..pushed
  BY DEF TypeOK
<1>4. \A n \in Receives : outcome[n] \subseteq 0..pushed'
  BY <1>1, <1>3
<1>5. /\ pending \in Receives \cup {None}
      /\ active \in [Receives -> {"null", "true", "false"}]
      /\ outcome \in [Receives -> SUBSET Nat]
      /\ hold \in [Senders -> Receives \cup {None}]
      /\ dangling \subseteq Receives
  BY DEF TypeOK
<1> HIDE DEF q
<1>6. CASE WakeWaiter(s, q)
  <2>1. PICK i \in FirstMatch(q, wants[pending], typeOf') : TryMatch(pending, q, i)
    BY <1>6 DEF WakeWaiter
  <2>2. i \in q /\ i \in 0..pushed' /\ i \in Nat
    BY <1>1, <1>2, <2>1 DEF FirstMatch, Matches
  <2>3. /\ mailbox' = q \ {i} /\ pending' = None
        /\ outcome' = [outcome EXCEPT ![pending] = @ \cup {i}]
        /\ active' = [active EXCEPT ![pending] = IF @ = "null" THEN "null" ELSE "false"]
        /\ hold' = [hold EXCEPT ![s] = pending]
        /\ dangling' = dangling \/ dangling' = dangling \cup {pending}
        /\ pending \in Receives
    BY <1>5, <1>6, <2>1 DEF WakeWaiter, TryMatch, Touch
  <2>4. outcome' \in [Receives -> SUBSET Nat]
    BY <1>5, <2>2, <2>3
  <2>5. \A n \in Receives : outcome'[n] \subseteq 0..pushed'
    BY <1>4, <1>5, <2>2, <2>3
  <2>6. hold' \in [Senders -> Receives \cup {None}]
    BY <1>5, <2>3
  <2>7. active' \in [Receives -> {"null", "true", "false"}]
    BY <1>5, <2>3
  <2> QED
    BY <1>2, <1>5, <2>3, <2>4, <2>5, <2>6, <2>7
<1>7. CASE NoWaiter(q)
  BY <1>2, <1>4, <1>5, <1>7 DEF NoWaiter
<1>8. CASE KeepWaiter(q)
  BY <1>2, <1>4, <1>5, <1>8 DEF KeepWaiter, Touch
<1> QED
  BY <1>6, <1>7, <1>8 DEF NotifyWaiter, q

(* Every step keeps the types: the step of the theorem below. *)
LEMMA TypeStep == TypeOK /\ [Next]_vars => TypeOK'
<1> USE BoundsAssumption, ExitSignalAssumption
<1> SUFFICES ASSUME TypeOK, [Next]_vars PROVE TypeOK'
  OBVIOUS
<1>1. ASSUME NEW s \in Senders, NEW t \in MsgTypes, EnqueueMessage(s, t)
      PROVE  TypeOK'
  <2>1. /\ pushed' = pushed + 1 /\ pushed' \in 0..MaxMessages
        /\ typeOf' \in [Messages -> MsgTypes \cup {None}]
        /\ exitReason' \in 0..pushed'
    BY <1>1 DEF EnqueueMessage, TypeOK, Messages
  <2> QED
    BY <1>1, <2>1, PushTypes DEF EnqueueMessage, TypeOK, coroutine
<1>2. ASSUME NEW s \in Senders, Stop(s) PROVE TypeOK'
  <2>1. /\ pushed' = pushed + 1 /\ pushed' \in 0..MaxMessages
        /\ typeOf' \in [Messages -> MsgTypes \cup {None}]
        /\ exitReason' \in 0..pushed'
    BY <1>2 DEF Stop, TypeOK, Messages
  <2> QED
    BY <1>2, <2>1, PushTypes DEF Stop, TypeOK, coroutine
<1>3. ASSUME NEW s \in Senders, ScheduleWaiter(s) PROVE TypeOK'
  BY <1>3 DEF ScheduleWaiter, TypeOK, coroutine, queue, None, Receives
<1>4. ASSUME NEW w \in SUBSET MsgTypes, NEW t \in BOOLEAN, AwaitReady(w, t)
      PROVE  TypeOK'
  <2> DEFINE n == begun + 1
  <2>1. n \in Receives /\ begun' = n /\ begun' \in 0..MaxReceives
    BY <1>4 DEF AwaitReady, Receives, TypeOK
  <2>2. /\ wants' \in [Receives -> SUBSET MsgTypes]
        /\ timed' \in [Receives -> BOOLEAN]
        /\ state' \in [Receives -> States]
    BY <1>4, <2>1 DEF AwaitReady, TypeOK, States
  <2>3. /\ mailbox' \subseteq 1..pushed
        /\ active' \in [Receives -> {"null", "true", "false"}]
        /\ outcome' \in [Receives -> SUBSET Nat]
        /\ \A m \in Receives : outcome'[m] \subseteq 0..pushed
    <3>1. CASE \E i \in FirstMatch(mailbox, w, typeOf) : TryMatch(n, mailbox, i)
      BY <2>1, <3>1 DEF TryMatch, FirstMatch, Matches, TypeOK
    <3>2. CASE UNCHANGED <<mailbox, outcome, active>>
      BY <3>2 DEF TypeOK
    <3> QED
      BY <1>4, <3>1, <3>2 DEF AwaitReady
  <2> QED
    BY <1>4, <2>1, <2>2, <2>3 DEF AwaitReady, TypeOK
<1>5. CASE Return
  BY <1>5 DEF Return, TypeOK, coroutine, queue
<1>6. ASSUME NEW n \in Receives, AwaitSuspend(n) PROVE TypeOK'
  BY <1>6 DEF AwaitSuspend, TypeOK, queue, States, Timers
<1>7. ASSUME NEW n \in Receives, TimerStep(n) PROVE TypeOK'
  <2>1. CASE SetActive(n)
    BY <2>1 DEF SetActive, Touch, TypeOK, coroutine, queue, Timers
  <2>2. CASE ArmTimer(n)
    BY <2>2 DEF ArmTimer, Touch, TypeOK, coroutine, queue, Timers
  <2>3. CASE TimerLoad(n)
    BY <2>3 DEF TimerLoad, TypeOK, coroutine, queue, Timers
  <2>4. CASE TimerStore(n)
    BY <2>4 DEF TimerStore, TypeOK, coroutine, queue, Timers
  <2>5. CASE TimerVisit(n)
    <3>1. /\ outcome' \in [Receives -> SUBSET Nat]
          /\ \A m \in Receives : outcome'[m] \subseteq 0..pushed
      BY <2>5 DEF TimerVisit, TypeOK, Timeout
    <3> QED
      BY <2>5, <3>1 DEF TimerVisit, Touch, TypeOK, coroutine, queue, Timers
  <2>6. CASE TimerReset(n)
    BY <2>6 DEF TimerReset, Touch, TypeOK, coroutine, queue, Timers
  <2>7. CASE TimerSchedule(n)
    BY <2>7 DEF TimerSchedule, Touch, TypeOK, coroutine, queue, Timers
  <2> QED
    BY <1>7, <2>1, <2>2, <2>3, <2>4, <2>5, <2>6, <2>7 DEF TimerStep
<1>8. ASSUME NEW n \in Receives, Resume(n) PROVE TypeOK'
  BY <1>8 DEF Resume, Touch, TypeOK, queue, States
<1>9. CASE UNCHANGED vars
  BY <1>9 DEF vars, TypeOK
<1> QED
  BY <1>1, <1>2, <1>3, <1>4, <1>5, <1>6, <1>7, <1>8, <1>9 DEF Next, Call, Receiving

(* The variables of an actor's mailbox keep their types under every        *)
(* scheduler.                                                              *)
THEOREM TypeCorrect == Spec => []TypeOK
<1>1. ASSUME Init PROVE TypeOK
  <2>1. pushed = 0 /\ typeOf \in [Messages -> MsgTypes \cup {None}]
    BY <1>1 DEF Init
  <2>2. mailbox = {} /\ pending = 0 /\ exitReason = 0 /\ begun = 0
    BY <1>1 DEF Init, None
  <2>3. /\ state \in [Receives -> States]
        /\ timer \in [Receives -> Timers]
        /\ active \in [Receives -> {"null", "true", "false"}]
    BY <1>1 DEF Init, States, Timers
  <2>4. /\ exited \in BOOLEAN
        /\ wants \in [Receives -> SUBSET MsgTypes]
        /\ timed \in [Receives -> BOOLEAN]
        /\ outcome \in [Receives -> SUBSET Nat]
        /\ \A n \in Receives : outcome[n] = {}
    BY <1>1 DEF Init
  <2>5. /\ hold \in [Senders -> Receives \cup {None}]
        /\ ready \in [Receives -> Nat]
        /\ dangling = {}
    BY <1>1, <2>2 DEF Init, None
  <2> QED
    BY <2>1, <2>2, <2>3, <2>4, <2>5, BoundsAssumption DEF TypeOK, None
<1> QED
  BY <1>1, TypeStep, PTL DEF Spec

-----------------------------------------------------------------------------
(* Conservation and order of messages, under every scheduler. *)

(* EveryMessageOnce and SameTypeInOrder of a log with p messages of types  *)
(* t, a mailbox q and outcomes o.                                          *)
ConsumedIn(p, o) == {i \in 1..p : \E n \in Receives : i \in o[n]}

Once(p, q, o) ==
    /\ q = (1..p) \ ConsumedIn(p, o)
    /\ \A m, n \in Receives : m # n => o[m] \cap o[n] \subseteq {Timeout}

InOrder(p, t, o) ==
    \A j \in ConsumedIn(p, o) : \A i \in 1..j : t[i] = t[j] => i \in ConsumedIn(p, o)

MessageInv == EveryMessageOnce /\ SameTypeInOrder

(* The message invariant, over the variables that the steps below change. *)
LEMMA MessageInvParts ==
    MessageInv <=> Once(pushed, mailbox, outcome) /\ InOrder(pushed, typeOf, outcome)
BY DEF MessageInv, EveryMessageOnce, SameTypeInOrder, Consumed, Once, InOrder, ConsumedIn

(* emplace_back keeps both. *)
LEMMA PushKeeps ==
    ASSUME NEW p \in Nat, NEW q, NEW o \in [Receives -> SUBSET Nat],
           NEW t, NEW u, \A n \in Receives : o[n] \subseteq 0..p,
           \A i \in 1..p : u[i] = t[i],
           Once(p, q, o), InOrder(p, t, o)
    PROVE  Once(p + 1, q \cup {p + 1}, o) /\ InOrder(p + 1, u, o)
<1>1. ConsumedIn(p + 1, o) = ConsumedIn(p, o)
  BY DEF ConsumedIn
<1>2. p + 1 \notin ConsumedIn(p, o)
  BY DEF ConsumedIn
<1>3. Once(p + 1, q \cup {p + 1}, o)
  <2>1. 1..(p + 1) = (1..p) \cup {p + 1}
    OBVIOUS
  <2> QED
    BY <1>1, <1>2, <2>1 DEF Once
<1>4. InOrder(p + 1, u, o)
  <2> SUFFICES ASSUME NEW j \in ConsumedIn(p, o), NEW i \in 1..j, u[i] = u[j]
               PROVE  i \in ConsumedIn(p, o)
    BY <1>1 DEF InOrder
  <2>1. j \in 1..p /\ i \in 1..p
    BY DEF ConsumedIn
  <2> QED
    BY <2>1 DEF InOrder
<1> QED
  BY <1>3, <1>4

(* Taking the first acceptable message keeps both. *)
LEMMA TakeKeeps ==
    ASSUME NEW p \in Nat, NEW q, NEW o \in [Receives -> SUBSET Nat], NEW t, NEW w,
           NEW n \in Receives, NEW i \in FirstMatch(q, w, t),
           Once(p, q, o), InOrder(p, t, o)
    PROVE  LET o2 == [o EXCEPT ![n] = @ \cup {i}]
           IN  Once(p, q \ {i}, o2) /\ InOrder(p, t, o2)
<1> DEFINE o2 == [o EXCEPT ![n] = @ \cup {i}]
<1>1. i \in q /\ i \in 1..p /\ i \notin ConsumedIn(p, o)
  BY DEF FirstMatch, Matches, Once
<1>2. \A m \in Receives : o2[m] = IF m = n THEN o[m] \cup {i} ELSE o[m]
  OBVIOUS
<1> HIDE DEF o2
<1>3. ConsumedIn(p, o2) = ConsumedIn(p, o) \cup {i}
  BY <1>1, <1>2 DEF ConsumedIn
<1>4. \A m \in Receives : i \notin o[m]
  BY <1>1 DEF ConsumedIn
<1>5. Once(p, q \ {i}, o2)
  <2>1. q \ {i} = (1..p) \ ConsumedIn(p, o2)
    BY <1>3 DEF Once
  <2>2. ASSUME NEW a \in Receives, NEW b \in Receives, a # b
        PROVE  o2[a] \cap o2[b] \subseteq {Timeout}
    BY <1>2, <1>4, <2>2 DEF Once
  <2> QED
    BY <2>1, <2>2 DEF Once
<1>6. InOrder(p, t, o2)
  <2> SUFFICES ASSUME NEW k \in ConsumedIn(p, o2), NEW j \in 1..k, t[j] = t[k]
               PROVE  j \in ConsumedIn(p, o2)
    BY DEF InOrder
  <2>1. CASE k \in ConsumedIn(p, o)
    BY <1>3, <2>1 DEF InOrder
  <2>2. CASE k = i
    <3>1. t[k] \in w /\ \A m \in q : t[m] \in w => k <= m
      BY <2>2 DEF FirstMatch, Matches
    <3>2. j \in 1..p
      BY <1>1, <2>2
    <3>3. j \in q => j = k
      BY <1>1, <2>2, <3>1
    <3> QED
      BY <1>3, <2>2, <3>2, <3>3 DEF Once
  <2> QED
    BY <1>3, <2>1, <2>2
<1> QED
  BY <1>5, <1>6 DEF o2

(* The locked section of enqueue_message and of stop. *)
LEMMA PushMessages ==
    ASSUME TypeOK, MessageInv, NEW s \in Senders, NEW t, pushed < MaxMessages,
           pushed' = pushed + 1, typeOf' = [typeOf EXCEPT ![pushed + 1] = t],
           NotifyWaiter(s, mailbox \cup {pushed + 1})
    PROVE  MessageInv'
<1> DEFINE q == mailbox \cup {pushed + 1}
<1>1. /\ pushed \in Nat
      /\ outcome \in [Receives -> SUBSET Nat]
      /\ \A n \in Receives : outcome[n] \subseteq 0..pushed
      /\ \A i \in 1..pushed : typeOf'[i] = typeOf[i]
      /\ pending # None => pending \in Receives
  BY BoundsAssumption DEF TypeOK, Messages
<1>2. Once(pushed, mailbox, outcome) /\ InOrder(pushed, typeOf, outcome)
  BY MessageInvParts
<1>3. Once(pushed', q, outcome) /\ InOrder(pushed', typeOf', outcome)
  BY <1>1, <1>2, PushKeeps
<1> HIDE DEF q
<1>4. Once(pushed', mailbox', outcome') /\ InOrder(pushed', typeOf', outcome')
  <2>1. CASE WakeWaiter(s, q)
    <3>1. PICK i \in FirstMatch(q, wants[pending], typeOf') : TryMatch(pending, q, i)
      BY <2>1 DEF WakeWaiter
    <3>2. pending \in Receives /\ pushed' \in Nat
      BY <1>1, <2>1 DEF WakeWaiter
    <3>3. /\ mailbox' = q \ {i}
          /\ outcome' = [outcome EXCEPT ![pending] = @ \cup {i}]
      BY <3>1 DEF TryMatch
    <3> QED
      BY <1>1, <1>3, <3>1, <3>2, <3>3, TakeKeeps
  <2>2. CASE NoWaiter(q) \/ KeepWaiter(q)
    BY <1>3, <2>2 DEF NoWaiter, KeepWaiter
  <2> QED
    BY <2>1, <2>2 DEF NotifyWaiter, q
<1> QED
  BY <1>4 DEF MessageInv, EveryMessageOnce, SameTypeInOrder, Consumed, Once, InOrder,
     ConsumedIn

(* Every step of every thread keeps the message invariant. *)
LEMMA MessageStep == TypeOK /\ MessageInv /\ [Next]_vars => MessageInv'
<1> SUFFICES ASSUME TypeOK, MessageInv, [Next]_vars PROVE MessageInv'
  OBVIOUS
<1>1. ASSUME NEW s \in Senders, NEW t \in MsgTypes, EnqueueMessage(s, t)
      PROVE  MessageInv'
  BY <1>1, PushMessages DEF EnqueueMessage
<1>2. ASSUME NEW s \in Senders, Stop(s) PROVE MessageInv'
  BY <1>2, PushMessages DEF Stop
<1>3. ASSUME NEW w \in SUBSET MsgTypes, NEW t \in BOOLEAN, AwaitReady(w, t)
      PROVE  MessageInv'
  <2> DEFINE n == begun + 1
  <2>1. n \in Receives /\ pushed' = pushed /\ typeOf' = typeOf /\ pushed \in Nat
    BY <1>3, BoundsAssumption DEF AwaitReady, Receives, TypeOK
  <2>2. CASE \E i \in FirstMatch(mailbox, w, typeOf) : TryMatch(n, mailbox, i)
    <3>1. PICK i \in FirstMatch(mailbox, w, typeOf) : TryMatch(n, mailbox, i)
      BY <2>2
    <3>2. Once(pushed, mailbox, outcome) /\ InOrder(pushed, typeOf, outcome)
      BY MessageInvParts
    <3>3. outcome \in [Receives -> SUBSET Nat]
      BY DEF TypeOK
    <3>4. Once(pushed, mailbox', outcome') /\ InOrder(pushed, typeOf, outcome')
      BY <2>1, <3>1, <3>2, <3>3, TakeKeeps DEF TryMatch
    <3> QED
      BY <2>1, <3>4 DEF MessageInv, EveryMessageOnce, SameTypeInOrder, Consumed, Once,
         InOrder, ConsumedIn
  <2>3. CASE UNCHANGED <<mailbox, outcome, active>>
    BY <2>1, <2>3 DEF MessageInv, EveryMessageOnce, SameTypeInOrder, Consumed
  <2> QED
    BY <1>3, <2>2, <2>3 DEF AwaitReady
<1>4. ASSUME NEW n \in Receives, TimerVisit(n) PROVE MessageInv'
  <2>1. /\ pushed' = pushed /\ typeOf' = typeOf /\ mailbox' = mailbox
        /\ \A m \in Receives : outcome'[m] = outcome[m] \/ outcome'[m] = outcome[m] \cup {0}
    BY <1>4 DEF TimerVisit, queue, TypeOK, Timeout
  <2>2. Consumed' = Consumed
    BY <2>1 DEF Consumed
  <2> QED
    BY <2>1, <2>2 DEF MessageInv, EveryMessageOnce, SameTypeInOrder, Timeout
<1>5. CASE UNCHANGED <<pushed, typeOf, mailbox, outcome>>
  BY <1>5 DEF MessageInv, EveryMessageOnce, SameTypeInOrder, Consumed
<1>6. ASSUME NEW s \in Senders, ScheduleWaiter(s)
      PROVE  UNCHANGED <<pushed, typeOf, mailbox, outcome>>
  BY <1>6 DEF ScheduleWaiter, queue
<1>7. ASSUME NEW n \in Receives, AwaitSuspend(n) \/ (TimerStep(n) /\ ~TimerVisit(n)) \/ Resume(n)
      PROVE  UNCHANGED <<pushed, typeOf, mailbox, outcome>>
  BY <1>7 DEF AwaitSuspend, TimerStep, SetActive, ArmTimer, TimerLoad, TimerStore,
     TimerReset, TimerSchedule, Resume, queue
<1>8. Return \/ UNCHANGED vars => UNCHANGED <<pushed, typeOf, mailbox, outcome>>
  BY DEF Return, queue, vars
<1> QED
  BY <1>1, <1>2, <1>3, <1>4, <1>5, <1>6, <1>7, <1>8 DEF Next, Call, Receiving

(* No message is lost, duplicated or handed to two receives, and messages  *)
(* of one type are taken in push order, even when senders, stop(), the     *)
(* timer thread and the actor's coroutine interleave at every unlock.      *)
THEOREM MessagesOnceInOrder == Spec => [](EveryMessageOnce /\ SameTypeInOrder)
<1>1. Init => MessageInv
  BY DEF Init, MessageInv, EveryMessageOnce, SameTypeInOrder, Consumed
<1>2. MessageInv => EveryMessageOnce /\ SameTypeInOrder
  BY DEF MessageInv
<1> QED
  BY <1>1, <1>2, TypeCorrect, MessageStep, PTL DEF Spec

(* Messages of one type are handled in the order they were sent in, also   *)
(* when sender threads, the timer thread and the actor interleave.         *)
THEOREM SameTypeKeepsOrder == Spec => []SameTypeInOrder
BY MessagesOnceInOrder, PTL

-----------------------------------------------------------------------------
(* Single-threaded schedulers. *)

NoHold(n) == \A s \in Senders : hold[s] # n

Busy(n) == state[n] = "checked" \/ timer[n] \in Arming \cup Firing

(* One call at a time. *)
OneCall ==
    /\ \A r, s \in Senders : hold[r] # None /\ hold[s] # None => r = s
    /\ \A s \in Senders, n \in Receives : hold[s] # None => ~Busy(n)
    /\ \A m, n \in Receives : Busy(m) /\ Busy(n) => m = n

(* Receives are performed one after the other. *)
OneReceive ==
    \A n \in Receives :
        /\ state[n] = "none" <=> n > begun
        /\ state[n] \in {"checked", "suspended"} => n = begun

(* Before await_suspend nobody else knows the awaiter. *)
Untouched ==
    \A n \in Receives : state[n] \in {"none", "checked"} =>
        /\ timer[n] = "none" /\ active[n] = "null" /\ outcome[n] = {}
        /\ ready[n] = 0 /\ NoHold(n) /\ pending # n

(* A registered awaiter is suspended, not about to be resumed, and has no  *)
(* result until the timer callback is between timeout() and its reset.     *)
Registered ==
    \A n \in Receives : pending = n =>
        /\ state[n] = "suspended" /\ ready[n] = 0 /\ NoHold(n)
        /\ timer[n] \in Timers \ {"schedule", "over"}
        /\ timer[n] # "reset" => outcome[n] = {}

(* A set flag belongs to the registered awaiter, and so does a callback    *)
(* that got past the flag, until it resets pending_.                       *)
Flags ==
    \A n \in Receives :
        /\ active[n] = "true" => pending = n
        /\ timer[n] \in {"flag", "arm", "store", "visit", "reset"} => pending = n
        /\ timer[n] = "store" => active[n] = "true"
        /\ timer[n] \in {"arm", "armed"} /\ pending = n => active[n] = "true"
        /\ timer[n] \in {"visit", "reset", "schedule"} => active[n] # "true"
        /\ timer[n] \in {"none", "flag"} => active[n] = "null"
        /\ timer[n] = "schedule" => state[n] = "suspended"

(* A suspended receive that is not registered is about to be resumed once. *)
Woken ==
    \A n \in Receives : state[n] = "suspended" /\ pending # n =>
        \/ ready[n] = 0 /\ (\E s \in Senders : hold[s] = n)
        \/ ready[n] = 0 /\ NoHold(n) /\ timer[n] = "schedule"
        \/ ready[n] = 1 /\ NoHold(n) /\ timer[n] \notin Arming \cup Firing

(* A receive that is over has left nothing behind but, perhaps, a timer    *)
(* whose flag is cleared.                                                  *)
Finished ==
    \A n \in Receives : state[n] = "done" =>
        ready[n] = 0 /\ NoHold(n) /\ pending # n /\ timer[n] \notin Arming \cup Firing

CheckedHasNoMatch ==
    \A n \in Receives : state[n] = "checked" =>
        \A i \in mailbox : typeOf[i] \notin wants[n]

CoopInv ==
    /\ OneCall /\ OneReceive /\ Untouched /\ Registered /\ Flags /\ Woken /\ Finished
    /\ SingleOutcome /\ BlockedHasNoMatch /\ CheckedHasNoMatch
    /\ NoAccessAfterDestroy

(* Nothing is in progress when a call begins. *)
Quiet ==
    /\ \A s \in Senders : hold[s] = None
    /\ \A n \in Receives : ~Busy(n)

(* On a single-threaded scheduler a call begins only when no other is in progress. *)
LEMMA BeginQuiet == ASSUME Concurrent = FALSE, MayBegin PROVE Quiet
BY DEF MayBegin, InProgress, Quiet, Busy

(* The steps of a timer callback keep the single-threaded invariant. *)
LEMMA CoopTimer ==
    ASSUME TypeOK, CoopInv, Concurrent = FALSE, NEW n \in Receives, TimerStep(n)
    PROVE  CoopInv'
<1> USE DEF CoopInv, OneCall, OneReceive, Untouched, Registered, Flags, Woken, Finished,
        SingleOutcome, BlockedHasNoMatch, CheckedHasNoMatch, NoAccessAfterDestroy,
        NoHold, Busy, Arming, Firing, queue, coroutine
<1>1. CASE SetActive(n)
  BY <1>1 DEF SetActive, Touch, TypeOK, Timers
<1>2. CASE ArmTimer(n)
  BY <1>2 DEF ArmTimer, Touch, TypeOK, Timers
<1>3. CASE TimerLoad(n)
  <2>1. Quiet
    BY <1>3, BeginQuiet DEF TimerLoad
  <2>2. CASE active[n] = "true"
    <3>1. timer' = [timer EXCEPT ![n] = "store"] /\ pending = n /\ state[n] = "suspended"
      BY <1>3, <2>2 DEF TimerLoad
    <3> QED
      BY <1>3, <2>1, <2>2, <3>1 DEF TimerLoad, Quiet, TypeOK, Timers
  <2>3. CASE active[n] # "true"
    <3>1. timer' = [timer EXCEPT ![n] = "over"] /\ timer[n] = "armed"
      BY <1>3, <2>3 DEF TimerLoad
    <3>2. pending # n
      BY <2>3, <3>1
    <3> QED
      BY <1>3, <2>1, <2>3, <3>1, <3>2 DEF TimerLoad, Quiet, TypeOK, Timers
  <2> QED
    BY <2>2, <2>3
<1>4. CASE TimerStore(n)
  BY <1>4 DEF TimerStore, TypeOK, Timers
<1>5. CASE TimerVisit(n)
  BY <1>5 DEF TimerVisit, Touch, TypeOK, Timers
<1>6. CASE TimerReset(n)
  BY <1>6 DEF TimerReset, Touch, TypeOK, Timers, None, Receives
<1>7. CASE TimerSchedule(n)
  BY <1>7 DEF TimerSchedule, Touch, TypeOK, Timers
<1> QED
  BY <1>1, <1>2, <1>3, <1>4, <1>5, <1>6, <1>7 DEF TimerStep

(* The steps of the actor's coroutine keep the single-threaded invariant. *)
LEMMA CoopCoroutine ==
    ASSUME TypeOK, CoopInv, Concurrent = FALSE,
           \/ Return
           \/ \E s \in Senders : ScheduleWaiter(s)
           \/ \E n \in Receives : AwaitSuspend(n) \/ Resume(n)
           \/ \E w \in SUBSET MsgTypes, t \in BOOLEAN : AwaitReady(w, t)
    PROVE  CoopInv'
<1> USE BoundsAssumption
    DEF CoopInv, OneCall, OneReceive, Untouched, Registered, Flags, Woken, Finished,
        SingleOutcome, BlockedHasNoMatch, CheckedHasNoMatch, NoAccessAfterDestroy,
        NoHold, Busy, Arming, Firing, queue, coroutine
<1>1. CASE Return
  BY <1>1 DEF Return
<1>2. ASSUME NEW s \in Senders, ScheduleWaiter(s) PROVE CoopInv'
  BY <1>2 DEF ScheduleWaiter, TypeOK, None, Receives
<1>3. ASSUME NEW n \in Receives, AwaitSuspend(n) PROVE CoopInv'
  BY <1>3 DEF AwaitSuspend, TypeOK, Timers, None, Receives
<1>4. ASSUME NEW n \in Receives, Resume(n) PROVE CoopInv'
  <2>1. Quiet
    BY <1>4, BeginQuiet DEF Resume
  <2>2. state[n] = "suspended" /\ pending # n /\ ready[n] = 1 /\ n = begun
    BY <1>4, <2>1 DEF Resume, Quiet, TypeOK, States
  <2> QED
    BY <1>4, <2>1, <2>2 DEF Resume, Quiet, Touch, TypeOK, None, Receives
<1>5. ASSUME NEW w \in SUBSET MsgTypes, NEW t \in BOOLEAN, AwaitReady(w, t) PROVE CoopInv'
  <2> DEFINE n == begun + 1
  <2>1. Quiet
    BY <1>5, BeginQuiet DEF AwaitReady
  <2>2. n \in Receives /\ state[n] = "none" /\ \A m \in Receives : m <= begun => state[m] = "done"
    BY <1>5 DEF AwaitReady, Running, TypeOK, Receives
  <2>3. \A m \in Receives : pending # m /\ timer[m] \notin {"flag", "arm", "store", "visit", "reset", "schedule"}
    BY <2>1, <2>2 DEF Quiet, TypeOK, Receives, States
  <2>4. /\ begun' = n /\ wants' = [wants EXCEPT ![n] = w]
        /\ UNCHANGED <<typeOf, pending, timer, hold, ready, dangling>>
    BY <1>5 DEF AwaitReady
  <2> HIDE DEF n
  <2>5. ASSUME NEW i, TryMatch(n, mailbox, i), state' = [state EXCEPT ![n] = "done"]
        PROVE  CoopInv'
    <3>1. active[n] = "null" /\ outcome[n] = {}
      BY <2>2
    <3>2. \A m \in Receives : outcome'[m] = IF m = n THEN {i} ELSE outcome[m]
      BY <2>2, <2>5, <3>1 DEF TryMatch, TypeOK
    <3>3. \A m \in Receives : active'[m] = active[m]
      BY <2>2, <2>5, <3>1 DEF TryMatch, TypeOK
    <3> QED
      BY <2>1, <2>2, <2>3, <2>4, <2>5, <3>2, <3>3 DEF TryMatch, Quiet, TypeOK, None, Receives, n
  <2>6. ASSUME Matches(mailbox, w, typeOf) = {}, state' = [state EXCEPT ![n] = "checked"],
               UNCHANGED <<mailbox, outcome, active>>
        PROVE  CoopInv'
    <3>1. \A i \in mailbox : typeOf[i] \notin w
      BY <2>6 DEF Matches
    <3> QED
      BY <2>1, <2>2, <2>3, <2>4, <2>6, <3>1 DEF Quiet, TypeOK, None, Receives, n
  <2> QED
    BY <1>5, <2>5, <2>6 DEF AwaitReady, n
<1> QED
  BY <1>1, <1>2, <1>3, <1>4, <1>5

(* enqueue_message and stop keep the single-threaded invariant. *)
LEMMA CoopPush ==
    ASSUME TypeOK, CoopInv, Quiet, NEW s \in Senders, NEW t, pushed < MaxMessages,
           pushed' = pushed + 1, typeOf' = [typeOf EXCEPT ![pushed + 1] = t],
           NotifyWaiter(s, mailbox \cup {pushed + 1}), UNCHANGED <<coroutine, timer, ready>>
    PROVE  CoopInv'
<1> USE BoundsAssumption
    DEF CoopInv, OneCall, OneReceive, Untouched, Registered, Flags, Woken, Finished,
        SingleOutcome, BlockedHasNoMatch, CheckedHasNoMatch, NoAccessAfterDestroy,
        NoHold, Busy, Arming, Firing, coroutine
<1> DEFINE q == mailbox \cup {pushed + 1}
<1>1. \A n \in Receives : state[n] # "checked"
  BY DEF Quiet
<1>2. pending \in Receives => state[pending] = "suspended" /\ outcome[pending] = {}
  BY DEF Quiet
<1> HIDE DEF q
<1>3. CASE WakeWaiter(s, q)
  <2>1. PICK i : TryMatch(pending, q, i)
    BY <1>3 DEF WakeWaiter
  <2>2. /\ pending \in Receives /\ pending' = None /\ dangling' = dangling
        /\ hold' = [hold EXCEPT ![s] = pending]
    BY <1>2, <1>3 DEF WakeWaiter, Touch, TypeOK
  <2>3. \A n \in Receives : outcome'[n] = IF n = pending THEN {i} ELSE outcome[n]
    BY <1>2, <2>1, <2>2, ZenonT(60) DEF TryMatch, TypeOK
  <2>4. \A n \in Receives :
           IF n = pending THEN active'[n] # "true" /\ (active[n] = "null" => active'[n] = "null")
                          ELSE active'[n] = active[n]
    BY <2>1, <2>2 DEF TryMatch, TypeOK
  <2>5. \A r \in Senders : hold'[r] = IF r = s THEN pending ELSE None
    BY <2>2 DEF Quiet, TypeOK
  <2>6. None \notin Receives
    BY DEF None, Receives
  <2>7. OneCall' /\ OneReceive' /\ Untouched'
    BY <1>1, <1>2, <2>2, <2>3, <2>4, <2>5, <2>6 DEF Quiet
  <2>8. Registered' /\ Flags'
    BY <1>1, <1>2, <2>2, <2>3, <2>4, <2>5, <2>6 DEF Quiet
  <2>9. Woken' /\ Finished'
    BY <1>1, <1>2, <2>2, <2>3, <2>4, <2>5, <2>6 DEF Quiet
  <2>10. /\ SingleOutcome' /\ BlockedHasNoMatch' /\ CheckedHasNoMatch'
         /\ NoAccessAfterDestroy'
    BY <1>1, <2>2, <2>3, <2>6
  <2> QED
    BY <2>7, <2>8, <2>9, <2>10
<1>4. CASE NoWaiter(q)
  BY <1>1, <1>4 DEF NoWaiter, TypeOK, None, Receives
<1>5. CASE KeepWaiter(q)
  <2>1. pending \in Receives /\ dangling' = dangling
    BY <1>2, <1>5 DEF KeepWaiter, Touch, TypeOK
  <2>2. \A i \in mailbox' : typeOf'[i] \notin wants[pending]
    BY <1>5 DEF KeepWaiter, Matches
  <2> QED
    BY <1>1, <1>5, <2>1, <2>2 DEF KeepWaiter
<1> QED
  BY <1>3, <1>4, <1>5 DEF NotifyWaiter, q

(* Every step keeps the single-threaded invariant. *)
LEMMA CoopStep ==
    ASSUME TypeOK, CoopInv, Concurrent = FALSE, [Next]_vars
    PROVE  CoopInv'
<1>1. ASSUME NEW s \in Senders, NEW t \in MsgTypes, EnqueueMessage(s, t) PROVE CoopInv'
  BY <1>1, BeginQuiet, CoopPush DEF EnqueueMessage
<1>2. ASSUME NEW s \in Senders, Stop(s) PROVE CoopInv'
  BY <1>2, BeginQuiet, CoopPush DEF Stop
<1>3. CASE UNCHANGED vars
  BY <1>3 DEF vars, CoopInv, OneCall, OneReceive, Untouched, Registered, Flags, Woken,
     Finished, SingleOutcome, BlockedHasNoMatch, CheckedHasNoMatch, NoAccessAfterDestroy,
     NoHold, Busy
<1> QED
  BY <1>1, <1>2, <1>3, CoopTimer, CoopCoroutine DEF Next, Call, Receiving

(* The single-threaded invariant holds at the start. *)
LEMMA CoopInit == Init => CoopInv
BY BoundsAssumption DEF Init, CoopInv, OneCall, OneReceive, Untouched, Registered,
   Flags, Woken, Finished, SingleOutcome, BlockedHasNoMatch, CheckedHasNoMatch,
   NoAccessAfterDestroy, NoHold, Busy, Arming, Firing, Receives, None

(* Under the single-threaded schedulers a receive has one result, a        *)
(* registered awaiter has no acceptable message waiting, no destroyed      *)
(* frame is reached by a sender, a timer or a queued handle, and a         *)
(* suspended receive can always be woken.                                  *)
THEOREM SingleThreadedReceive ==
    ASSUME Concurrent = FALSE
    PROVE  Spec => []( /\ SingleOutcome /\ BlockedHasNoMatch
                       /\ NoAccessAfterDestroy /\ SuspendedHasWaker )
<1>1. Init => CoopInv
  BY CoopInit
<1>2. TypeOK /\ CoopInv /\ [Next]_vars => CoopInv'
  BY CoopStep
<1>3. CoopInv => /\ SingleOutcome /\ BlockedHasNoMatch
                 /\ NoAccessAfterDestroy /\ SuspendedHasWaker
  BY DEF CoopInv, Woken, SuspendedHasWaker
<1> QED
  BY <1>1, <1>2, <1>3, TypeCorrect, PTL DEF Spec

-----------------------------------------------------------------------------
(* The refinement of Mailbox by the single-threaded schedulers. *)

(* A receive that is over, or suspended and no longer registered, has its  *)
(* result, and only a try_receive has a timer.                             *)
Answered ==
    \A n \in Receives :
        /\ state[n] = "done" => outcome[n] # {}
        /\ state[n] = "suspended" /\ pending # n => outcome[n] # {}
        /\ timer[n] = "reset" => outcome[n] # {}
        /\ timer[n] # "none" => timed[n]

(* The locked section of a push answers the receive that it unregisters. *)
LEMMA AnsweredPush ==
    ASSUME TypeOK, CoopInv, Answered, NEW s, NEW q, NotifyWaiter(s, q),
           UNCHANGED <<coroutine, timer>>
    PROVE  Answered'
<1> USE DEF Answered, coroutine
<1>1. CASE WakeWaiter(s, q)
  <2>1. PICK i : TryMatch(pending, q, i)
    BY <1>1 DEF WakeWaiter
  <2>2. pending \in Receives /\ pending' = None
    BY <1>1 DEF WakeWaiter, TypeOK
  <2>3. \A n \in Receives : outcome'[n] = IF n = pending THEN outcome[n] \cup {i} ELSE outcome[n]
    BY <2>1, <2>2 DEF TryMatch, TypeOK
  <2> QED
    BY <2>2, <2>3
<1>2. CASE NoWaiter(q)
  BY <1>2 DEF NoWaiter
<1>3. CASE KeepWaiter(q)
  BY <1>3 DEF KeepWaiter
<1> QED
  BY <1>1, <1>2, <1>3 DEF NotifyWaiter

(* Every step keeps Answered. *)
LEMMA AnsweredStep ==
    ASSUME TypeOK, CoopInv, Answered, Concurrent = FALSE, [Next]_vars
    PROVE  Answered'
<1> USE DEF Answered, queue, coroutine
<1>1. ASSUME NEW s \in Senders, NEW t \in MsgTypes, EnqueueMessage(s, t) PROVE Answered'
  BY <1>1, AnsweredPush DEF EnqueueMessage
<1>2. ASSUME NEW s \in Senders, Stop(s) PROVE Answered'
  BY <1>2, AnsweredPush DEF Stop
<1>3. ASSUME NEW s \in Senders, ScheduleWaiter(s) PROVE Answered'
  BY <1>3 DEF ScheduleWaiter
<1>4. ASSUME NEW w, NEW t, AwaitReady(w, t) PROVE Answered'
  <2> DEFINE n == begun + 1
  <2>1. n \in Receives /\ timer[n] = "none" /\ state[n] = "none"
    BY <1>4, BoundsAssumption DEF AwaitReady, TypeOK, Receives, CoopInv, OneReceive, Untouched
  <2>2. /\ timed' = [timed EXCEPT ![n] = t]
        /\ UNCHANGED <<timer, pending>>
    BY <1>4 DEF AwaitReady
  <2>3. ASSUME NEW i, TryMatch(n, mailbox, i), state' = [state EXCEPT ![n] = "done"]
        PROVE  Answered'
    <3>1. \A m \in Receives : outcome'[m] = IF m = n THEN outcome[m] \cup {i} ELSE outcome[m]
      BY <2>1, <2>3 DEF TryMatch, TypeOK
    <3> QED
      BY <2>1, <2>2, <2>3, <3>1 DEF TypeOK
  <2>4. ASSUME state' = [state EXCEPT ![n] = "checked"], UNCHANGED outcome
        PROVE  Answered'
    BY <2>1, <2>2, <2>4 DEF TypeOK
  <2> QED
    BY <1>4, <2>3, <2>4 DEF AwaitReady
<1>5. ASSUME NEW n \in Receives, AwaitSuspend(n) PROVE Answered'
  BY <1>5 DEF AwaitSuspend, TypeOK, CoopInv, OneReceive
<1>6. ASSUME NEW n \in Receives, Resume(n) PROVE Answered'
  BY <1>6 DEF Resume, TypeOK, CoopInv, Registered, Untouched, States
<1>7. ASSUME NEW n \in Receives, TimerStep(n) PROVE Answered'
  <2>1. CASE SetActive(n) \/ ArmTimer(n) \/ TimerLoad(n) \/ TimerStore(n) \/ TimerSchedule(n)
    BY <2>1 DEF SetActive, ArmTimer, TimerLoad, TimerStore, TimerSchedule, TypeOK
  <2>2. CASE TimerVisit(n)
    BY <2>2 DEF TimerVisit, TypeOK
  <2>3. CASE TimerReset(n)
    BY <2>3 DEF TimerReset, TypeOK, CoopInv, Flags
  <2> QED
    BY <1>7, <2>1, <2>2, <2>3 DEF TimerStep
<1>8. CASE Return \/ UNCHANGED vars
  BY <1>8 DEF Return, vars
<1> QED
  BY <1>1, <1>2, <1>3, <1>4, <1>5, <1>6, <1>7, <1>8 DEF Next, Call, Receiving

(* A push is Mailbox's Send: the registered receive takes the new message  *)
(* or no receive that waits accepts it.                                    *)
LEMMA PushImplements ==
    ASSUME TypeOK, CoopInv, Answered, Quiet, NEW s, NEW t \in MsgTypes,
           pushed < MaxMessages, pushed' = pushed + 1,
           typeOf' = [typeOf EXCEPT ![pushed + 1] = t],
           NotifyWaiter(s, mailbox \cup {pushed + 1}), UNCHANGED <<exited, coroutine>>
    PROVE  Abstract!Send(t)
<1> DEFINE i == pushed + 1
           q == mailbox \cup {i}
<1>1. /\ i \in Messages /\ i \notin mailbox /\ typeOf'[i] = t
      /\ \A j \in mailbox : typeOf'[j] = typeOf[j]
  BY BoundsAssumption DEF TypeOK, Messages
<1>2. ASSUME NEW n \in Receives, Abstract!Waits(n) PROVE n = pending
  <2>1. state[n] # "none" /\ state[n] # "checked"
    BY <1>2 DEF Abstract!Waits, Quiet, Busy, CoopInv, OneReceive, TypeOK, Receives
  <2> QED
    BY <1>2, <2>1 DEF Abstract!Waits, Answered, TypeOK, States
<1>3. pending \in Receives => outcome[pending] = {} /\ pending \in 1..begun
  BY DEF Quiet, Busy, Firing, CoopInv, Registered, OneReceive, TypeOK, Receives
<1>4. UNCHANGED <<begun, wants, timed, exited, {n \in Receives : state[n] = "done"}>>
  BY DEF coroutine
<1>5. CASE WakeWaiter(s, q)
  <2>1. pending \in Receives
    BY <1>5 DEF WakeWaiter, TypeOK
  <2>2. PICK j \in FirstMatch(q, wants[pending], typeOf') : TryMatch(pending, q, j)
    BY <1>5 DEF WakeWaiter
  <2>3. j = i /\ t \in wants[pending]
    BY <1>1, <2>1, <2>2 DEF FirstMatch, Matches, CoopInv, BlockedHasNoMatch, None, Receives
  <2>4. mailbox' = mailbox /\ outcome' = [outcome EXCEPT ![pending] = {i}]
    BY <1>1, <1>3, <2>1, <2>2, <2>3 DEF TryMatch, TypeOK
  <2>5. Abstract!Waits(pending)
    BY <1>3, <2>1 DEF Abstract!Waits
  <2> QED
    BY <1>4, <2>1, <2>3, <2>4, <2>5 DEF Abstract!Send, Abstract!Receives, Receives
<1>6. CASE NoWaiter(q)
  BY <1>2, <1>4, <1>6 DEF NoWaiter, Abstract!Send, Abstract!Receives, Receives, None
<1>7. CASE KeepWaiter(q)
  <2>1. t \notin wants[pending] /\ mailbox' = q /\ outcome' = outcome
    BY <1>1, <1>7 DEF KeepWaiter, Matches
  <2> QED
    BY <1>2, <1>4, <2>1 DEF Abstract!Send, Abstract!Receives, Receives
<1> QED
  BY <1>5, <1>6, <1>7 DEF NotifyWaiter

(* await_ready is Mailbox's Begin. *)
LEMMA ReadyImplements ==
    ASSUME TypeOK, CoopInv, NEW w, NEW t, AwaitReady(w, t)
    PROVE  Abstract!Begin(w, t)
<1> DEFINE n == begun + 1
           D == {m \in Receives : state[m] = "done"}
<1>1. n \in Receives /\ outcome[n] = {} /\ ~exited /\ 1..begun \subseteq D
  BY BoundsAssumption
  DEF AwaitReady, Running, TypeOK, Receives, CoopInv, OneReceive, Untouched
<1>2. /\ begun < MaxReceives /\ begun' = n
      /\ wants' = [wants EXCEPT ![n] = w] /\ timed' = [timed EXCEPT ![n] = t]
      /\ UNCHANGED <<pushed, typeOf, exited>>
  BY <1>1 DEF AwaitReady
<1>3. CASE \E i \in FirstMatch(mailbox, w, typeOf) :
              TryMatch(n, mailbox, i) /\ state' = [state EXCEPT ![n] = "done"]
  <2>1. PICK i \in FirstMatch(mailbox, w, typeOf) :
              TryMatch(n, mailbox, i) /\ state' = [state EXCEPT ![n] = "done"]
    BY <1>3
  <2>2. outcome' = [outcome EXCEPT ![n] = {i}] /\ mailbox' = mailbox \ {i}
    BY <1>1, <2>1 DEF TryMatch, TypeOK
  <2>3. D' = D \cup {n}
    BY <1>1, <2>1 DEF TypeOK
  <2>4. /\ i \in {k \in mailbox : typeOf[k] \in w}
        /\ \A j \in {k \in mailbox : typeOf[k] \in w} : i <= j
    BY <2>1 DEF FirstMatch, Matches
  <2> QED
    BY <1>1, <1>2, <2>2, <2>3, <2>4 DEF Abstract!Begin
<1>4. CASE /\ Matches(mailbox, w, typeOf) = {} /\ state' = [state EXCEPT ![n] = "checked"]
           /\ UNCHANGED <<mailbox, outcome>>
  <2>1. D' = D
    BY <1>1, <1>4 DEF TypeOK, CoopInv, OneReceive, Receives
  <2> QED
    BY <1>1, <1>2, <1>4, <2>1 DEF Abstract!Begin, Matches
<1> QED
  BY <1>3, <1>4 DEF AwaitReady

(* Every step of a single-threaded scheduler is a step of Mailbox or none. *)
LEMMA StepImplements ==
    ASSUME TypeOK, CoopInv, Answered, Concurrent = FALSE, [Next]_vars
    PROVE  [Abstract!Next]_(Abstract!vars)
<1> DEFINE D == {m \in Receives : state[m] = "done"}
           Same == UNCHANGED <<pushed, typeOf, mailbox, begun, wants, timed, outcome, D, exited>>
<1>0. Same => UNCHANGED Abstract!vars
  BY DEF Abstract!vars, Abstract!mailVars
<1>1. ASSUME NEW s \in Senders, NEW t \in MsgTypes, EnqueueMessage(s, t) PROVE Abstract!Next
  BY <1>1, BeginQuiet, PushImplements DEF EnqueueMessage, Abstract!Next
<1>2. ASSUME NEW s \in Senders, Stop(s) PROVE Abstract!Next
  BY <1>2, BeginQuiet, PushImplements, ExitSignalAssumption DEF Stop, Abstract!Next
<1>3. ASSUME NEW w \in (SUBSET MsgTypes) \ {{}}, NEW t \in BOOLEAN, AwaitReady(w, t)
      PROVE  Abstract!Next
  BY <1>3, ReadyImplements DEF Abstract!Next
<1>4. CASE Return
  <2>1. ~exited /\ 1..begun \subseteq D /\ exited' = TRUE
    BY <1>4, BoundsAssumption DEF Return, Running, TypeOK, Receives
  <2>2. Abstract!Exit
    BY <1>4, <2>1 DEF Return, queue, coroutine, Abstract!Exit, Abstract!mailVars
  <2> QED
    BY <2>2 DEF Abstract!Next
<1>5. ASSUME NEW s \in Senders, ScheduleWaiter(s) PROVE Same
  BY <1>5 DEF ScheduleWaiter, queue, coroutine
<1>6. ASSUME NEW n \in Receives, AwaitSuspend(n) PROVE Same
  <2>1. D' = D
    BY <1>6 DEF AwaitSuspend, TypeOK
  <2> QED
    BY <1>6, <2>1 DEF AwaitSuspend, queue
<1>7. ASSUME NEW n \in Receives, Resume(n) PROVE Abstract!Next
  <2>1. state[n] # "done" /\ outcome[n] # {}
    BY <1>7 DEF Resume, TypeOK, States, CoopInv, Finished, Untouched, Registered, Answered
  <2>2. D' = D \cup {n}
    BY <1>7 DEF Resume, TypeOK
  <2>3. Abstract!Complete(n)
    BY <1>7, <2>1, <2>2 DEF Resume, queue, Abstract!Complete, Abstract!mailVars
  <2> QED
    BY <2>3 DEF Abstract!Next, Abstract!Receives, Receives
<1>8. ASSUME NEW n \in Receives, TimerVisit(n) PROVE Abstract!Next
  <2>1. outcome[n] = {} /\ timed[n] /\ n \in 1..begun
    BY <1>8 DEF TimerVisit, CoopInv, Flags, Registered, OneReceive, Answered, TypeOK, Receives
  <2>2. outcome' = [outcome EXCEPT ![n] = {Timeout}]
    BY <1>8, <2>1 DEF TimerVisit, TypeOK
  <2>3. Abstract!Expire(n)
    BY <1>8, <2>1, <2>2
    DEF TimerVisit, queue, coroutine, Abstract!Expire, Abstract!Waits, Abstract!mailVars,
        Abstract!Timeout, Timeout
  <2> QED
    BY <2>3 DEF Abstract!Next, Abstract!Receives, Receives
<1>9. ASSUME NEW n \in Receives, TimerStep(n), ~TimerVisit(n) PROVE Same
  BY <1>9
  DEF TimerStep, SetActive, ArmTimer, TimerLoad, TimerStore, TimerReset, TimerSchedule, queue,
      coroutine
<1>10. ASSUME UNCHANGED vars PROVE Same
  BY <1>10 DEF vars
<1> QED
  BY <1>0, <1>1, <1>2, <1>3, <1>4, <1>5, <1>6, <1>7, <1>8, <1>9, <1>10 DEF Next, Call, Receiving

(* On the single-threaded schedulers receive() and try_receive() implement *)
(* Mailbox, for any senders, message types and number of receives: the     *)
(* safety half of ImplementsMailbox.                                       *)
THEOREM ReceiveRefinesMailbox ==
    ASSUME Concurrent = FALSE
    PROVE  Spec => Abstract!Spec
<1>1. ASSUME Init PROVE CoopInv /\ Answered /\ Abstract!Init
  <2>1. CoopInv
    BY <1>1, CoopInit
  <2>2. Answered
    BY <1>1 DEF Init, Answered
  <2>3. {n \in Receives : state[n] = "done"} = {}
    BY <1>1 DEF Init
  <2>4. Abstract!Init
    BY <1>1, <2>3
    DEF Init, Abstract!Init, Abstract!Messages, Abstract!Receives, Abstract!None, Messages,
        Receives, None
  <2> QED
    BY <2>1, <2>2, <2>4
<1>2. TypeOK /\ CoopInv /\ Answered /\ [Next]_vars => CoopInv' /\ Answered'
  BY CoopStep, AnsweredStep
<1>3. TypeOK /\ CoopInv /\ Answered /\ [Next]_vars => [Abstract!Next]_(Abstract!vars)
  BY StepImplements
<1> QED
  BY <1>1, <1>2, <1>3, TypeCorrect, PTL DEF Spec, Abstract!Spec

=============================================================================

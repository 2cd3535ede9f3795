----------------------------- MODULE AsioProofs -----------------------------
(***************************************************************************)
(* Proofs about AsioScheduler: completions, resumptions and the return of  *)
(* run(), for any number of coroutines, awaits and timers.                 *)
(***************************************************************************)
EXTENDS AsioScheduler, SequenceTheorems, TLAPS

-----------------------------------------------------------------------------
(* The inductive invariant. *)

Begun(a) == source[a] # "none"

(* The awaits that coroutine c has begun and has not gone on from. *)
AwaitOf(c) == {a \in Awaits : handle[a] = c /\ resumed[a] = 0}

(* The handlers posted to the io_context are those of the coroutines that  *)
(* were scheduled and have not gone on, each of them once.                 *)
Posted ==
    /\ \A i \in DOMAIN queue : co[queue[i]] = "posted"
    /\ \A i, j \in DOMAIN queue : queue[i] = queue[j] => i = j
    /\ \A c \in Coroutines : co[c] = "posted" => \E i \in DOMAIN queue : queue[i] = c

(* A coroutine that awaits does so for one timer or for one await that has *)
(* not scheduled it yet.                                                   *)
Awaited ==
    /\ \A c \in timers : co[c] = "awaiting" /\ AwaitOf(c) = {}
    /\ \A c \in Coroutines : co[c] = "awaiting" /\ c \notin timers =>
          \E a \in Awaits : a \in AwaitOf(c) /\ step[a] < 2
    /\ \A a, b \in Awaits : /\ handle[a] = handle[b] /\ handle[a] # None
                            /\ resumed[a] = 0 /\ resumed[b] = 0
                            => a = b

(* A coroutine that waits or is posted is suspended in the await it has    *)
(* not gone on from, and in none when that is a timer: a handler that runs *)
(* finds no other.                                                         *)
Entered ==
    \A c \in Coroutines : co[c] \in {"new", "awaiting", "posted"} =>
        \A a \in Awaits : a = inside[c] <=> handle[a] = c /\ resumed[a] = 0

(* How far an await is: its completion has a reference to the state until  *)
(* its last step and a work guard until the one before it, its coroutine   *)
(* is posted by the second step and goes on after that.                    *)
Stages ==
    \A a \in Awaits :
        /\ ~Begun(a) => step[a] = 0 /\ handle[a] = None /\ resumed[a] = 0
        /\ Begun(a) => handle[a] # None
        /\ Begun(a) /\ step[a] < 3 => "completion" \in refs[a] /\ a \in guards
        /\ Begun(a) /\ step[a] < 2 => resumed[a] = 0 /\ co[handle[a]] = "awaiting"
        /\ step[a] >= 2 /\ resumed[a] = 0 => co[handle[a]] = "posted"
        /\ step[a] > 0 => result[a] # "none"
        /\ source[a] = "awaitable" => step[a] \in {0, 3}
        /\ resumed[a] <= 1

AsioInv == Posted /\ Awaited /\ Entered /\ Stages /\ broken = {}

-----------------------------------------------------------------------------
(* Typing. *)

(* A coroutine is not the null handle. *)
LEMMA HandleType == None = 0 /\ None \notin Coroutines
BY NoneAssumption DEF None

(* schedule() posts a coroutine, and ignores a null handle. *)
LEMMA ScheduledType ==
    ASSUME TypeOK, NEW h \in Coroutines \cup {None}, Scheduled(h)
    PROVE  /\ co' \in [Coroutines -> CoStates] /\ queue' \in Seq(Coroutines)
           /\ \A c \in Coroutines : co'[c] = IF c = h THEN "posted" ELSE co[c]
           /\ h = None => queue' = queue
           /\ h # None => queue' = Append(queue, h)
<1>1. co' \in [Coroutines -> CoStates]
      /\ \A c \in Coroutines : co'[c] = IF c = h THEN "posted" ELSE co[c]
  BY DEF TypeOK, Scheduled, CoStates
<1>2. (h = None => queue' = queue) /\ (h # None => queue' = Append(queue, h))
  BY DEF Scheduled, Postable
<1>3. queue' \in Seq(Coroutines)
  <2>1. CASE h = None
    BY <1>2, <2>1 DEF TypeOK
  <2>2. CASE h # None
    <3>1. h \in Coroutines /\ queue \in Seq(Coroutines) /\ queue' = Append(queue, h)
      BY <1>2, <2>2 DEF TypeOK
    <3> QED
      BY <3>1, AppendProperties
  <2> QED
    BY <2>1, <2>2
<1> QED
  BY <1>1, <1>2, <1>3

(* Every step keeps the types. *)
LEMMA TypeStep == TypeOK /\ [Next]_vars => TypeOK'
<1> SUFFICES ASSUME TypeOK, [Next]_vars PROVE TypeOK'
  OBVIOUS
<1> USE HandleType DEF TypeOK, awaitVars, loopVars
<1>1. CASE UNCHANGED vars
  BY <1>1 DEF vars
<1>2. ASSUME NEW h \in Coroutines \cup {None}, Schedule(h) PROVE TypeOK'
  BY <1>2, ScheduledType DEF Schedule
<1>3. CASE Run \/ Stop \/ Destroy \/ Return
  <2>1. loop' \in {"idle", "running"} /\ stops' \in 0..MaxStops
    BY <1>3, AsioBounds DEF Run, Stop, Destroy, Return
  <2>2. stopped' \in BOOLEAN /\ alive' \in BOOLEAN
    BY <1>3, Zenon DEF Run, Stop, Destroy, Return
  <2>3. UNCHANGED <<co, inside, source, handle, step, result, resumed, refs, guards, broken, queue,
                  timers, armed>>
    BY <1>3, Zenon DEF Run, Stop, Destroy, Return
  <2> QED
    BY <2>1, <2>2, <2>3
<1>4. CASE Resume
  <2>1. Head(queue) \in Coroutines /\ Tail(queue) \in Seq(Coroutines)
    BY <1>4, HeadTailProperties DEF Resume
  <2>2. resumed' \in [Awaits -> Nat] /\ refs' \in [Awaits -> SUBSET {"awaiter", "completion"}]
    BY <1>4 DEF Resume
  <2> QED
    BY <1>4, <2>1, <2>2 DEF Resume, CoStates
<1>5. ASSUME NEW c \in Coroutines, Finish(c) PROVE TypeOK'
  BY <1>5 DEF Finish, CoStates
<1>6. ASSUME NEW c \in Coroutines, ArmTimer(c) PROVE TypeOK'
  BY <1>6, AsioBounds DEF ArmTimer, CoStates
<1>7. ASSUME NEW c \in Coroutines, FireTimer(c) PROVE TypeOK'
  BY <1>7, ScheduledType DEF FireTimer
<1>8. ASSUME NEW c \in Coroutines, NEW s \in {"future", "awaitable"}, Suspend(c, s) PROVE TypeOK'
  BY <1>8 DEF Suspend, Holders, CoStates
<1>9. ASSUME NEW a \in Awaits, NEW r \in Results, Complete(a, r) PROVE TypeOK'
  BY <1>9 DEF Complete, Stored, Use, Results
<1>10. ASSUME NEW a \in Awaits, ResumeStep(a) PROVE TypeOK'
  <2>1. step[a] \in {1, 2}
    BY <1>10 DEF ResumeStep, ResumeSteps
  <2>2. handle[a] \in Coroutines \cup {None}
    OBVIOUS
  <2>3. co' \in [Coroutines -> CoStates] /\ queue' \in Seq(Coroutines) /\ guards' \subseteq Awaits
    BY <1>10, <2>2, ScheduledType DEF ResumeStep
  <2>4. step' \in [Awaits -> 0..3]
    BY <1>10, <2>1 DEF ResumeStep
  <2> QED
    BY <1>10, <2>3, <2>4 DEF ResumeStep, Use
<1>11. ASSUME NEW a \in Awaits, Release(a) PROVE TypeOK'
  BY <1>11 DEF Release
<1>12. ASSUME NEW a \in Awaits, NEW r \in Results, CompleteAwaitable(a, r) PROVE TypeOK'
  <2>1. co' \in [Coroutines -> CoStates] /\ queue' \in Seq(Coroutines)
    BY <1>12, ScheduledType DEF CompleteAwaitable
  <2> QED
    BY <1>12, <2>1 DEF CompleteAwaitable, Stored, Use, Results
<1> QED
  BY <1>1, <1>2, <1>3, <1>4, <1>5, <1>6, <1>7, <1>8, <1>9, <1>10, <1>11, <1>12
     DEF Next, Handler, Body, Waiter

(* Every variable keeps its type, for any number of coroutines and awaits. *)
THEOREM TypeCorrect == Spec => []TypeOK
<1>1. Init => TypeOK
  <2> SUFFICES ASSUME Init PROVE TypeOK
    OBVIOUS
  <2>1. stopped \in BOOLEAN /\ alive \in BOOLEAN
    BY Zenon DEF Init
  <2>2. armed \in 0..MaxTimers /\ stops \in 0..MaxStops /\ step \in [Awaits -> 0..3]
        /\ resumed \in [Awaits -> Nat]
    BY AsioBounds DEF Init
  <2> QED
    BY <2>1, <2>2, HandleType DEF Init, TypeOK, CoStates, Results
<1> QED
  BY <1>1, TypeStep, PTL DEF Spec

-----------------------------------------------------------------------------
(* The steps that keep the invariant. *)

(* The queue holds coroutines. *)
LEMMA QueueType ==
    ASSUME TypeOK
    PROVE  /\ queue \in Seq(Coroutines) /\ Len(queue) \in Nat /\ DOMAIN queue = 1..Len(queue)
           /\ \A i \in 1..Len(queue) : queue[i] \in Coroutines
BY LenProperties, ElementOfSeq DEF TypeOK

(* A coroutine that was not posted is posted once. *)
LEMMA PostStep ==
    ASSUME TypeOK, Posted, NEW c \in Coroutines, co[c] # "posted", Scheduled(c)
    PROVE  /\ Posted'
           /\ \A d \in Coroutines : co'[d] = IF d = c THEN "posted" ELSE co[d]
<1>1. /\ \A d \in Coroutines : co'[d] = IF d = c THEN "posted" ELSE co[d]
      /\ queue' = Append(queue, c)
  BY ScheduledType, HandleType
<1>2. /\ queue \in Seq(Coroutines) /\ Len(queue) \in Nat /\ DOMAIN queue = 1..Len(queue)
      /\ \A i \in 1..Len(queue) : queue[i] \in Coroutines /\ queue[i] # c
  BY QueueType DEF Posted
<1>3. /\ DOMAIN queue' = 1..(Len(queue) + 1)
      /\ \A i \in 1..(Len(queue) + 1) : queue'[i] = IF i <= Len(queue) THEN queue[i] ELSE c
  BY <1>1, <1>2
<1>4. \A i \in DOMAIN queue' : co'[queue'[i]] = "posted"
  BY <1>1, <1>2, <1>3 DEF Posted
<1>5. \A i, j \in DOMAIN queue' : queue'[i] = queue'[j] => i = j
  BY <1>2, <1>3 DEF Posted
<1>6. ASSUME NEW d \in Coroutines, co'[d] = "posted" PROVE \E i \in DOMAIN queue' : queue'[i] = d
  <2>1. CASE d = c
    BY <1>2, <1>3, <2>1
  <2>2. CASE d # c
    <3>1. PICK i \in 1..Len(queue) : queue[i] = d
      BY <1>1, <1>2, <1>6, <2>2 DEF Posted
    <3> QED
      BY <1>2, <1>3, <3>1
  <2> QED
    BY <2>1, <2>2
<1> QED
  BY <1>1, <1>4, <1>5, <1>6 DEF Posted

(* The coroutine of an await that has not gone on waits or is posted. *)
LEMMA AwaitOfCoroutine ==
    ASSUME TypeOK, Stages, NEW c \in Coroutines, NEW a \in AwaitOf(c)
    PROVE  a \in Awaits /\ Begun(a) /\ handle[a] = c /\ resumed[a] = 0
           /\ co[c] \in {"awaiting", "posted"}
<1>1. a \in Awaits /\ handle[a] = c /\ resumed[a] = 0 /\ step[a] \in 0..3
  BY DEF AwaitOf, TypeOK
<1>2. Begun(a)
  BY <1>1, HandleType DEF Stages
<1>3. co[c] \in {"awaiting", "posted"}
  BY <1>1, <1>2 DEF Stages
<1> QED
  BY <1>1, <1>2, <1>3

(* A coroutine that no await is about changes its state: the stages of the *)
(* awaits stay.                                                            *)
LEMMA StagesFrame ==
    ASSUME TypeOK, Stages, NEW c \in Coroutines, AwaitOf(c) = {},
           \A d \in Coroutines \ {c} : co'[d] = co[d],
           UNCHANGED <<source, handle, step, result, resumed, refs, guards>>
    PROVE  Stages'
<1>1. \A a \in Awaits : /\ handle[a] \in Coroutines \cup {None} /\ resumed[a] \in Nat
                        /\ step[a] \in 0..3
                        /\ handle[a] = c => resumed[a] # 0
  BY DEF TypeOK, AwaitOf
<1> SUFFICES ASSUME NEW a \in Awaits
             PROVE  /\ ~Begun(a) => step[a] = 0 /\ handle[a] = None /\ resumed[a] = 0
                    /\ Begun(a) => handle[a] # None
                    /\ Begun(a) /\ step[a] < 3 => "completion" \in refs[a] /\ a \in guards
                    /\ Begun(a) /\ step[a] < 2 => resumed[a] = 0 /\ co'[handle[a]] = "awaiting"
                    /\ step[a] >= 2 /\ resumed[a] = 0 => co'[handle[a]] = "posted"
                    /\ step[a] > 0 => result[a] # "none"
                    /\ source[a] = "awaitable" => step[a] \in {0, 3}
                    /\ resumed[a] <= 1
  BY DEF Stages, Begun
<1>2. step[a] >= 2 => Begun(a)
  BY <1>1 DEF Stages
<1> QED
  BY <1>1, <1>2 DEF Stages

(* A new coroutine, or a null handle, is scheduled. *)
LEMMA ScheduleStep ==
    ASSUME TypeOK, AsioInv, NEW h \in Coroutines \cup {None}, Schedule(h)
    PROVE  AsioInv'
<1> USE DEF AsioInv
<1>1. /\ Scheduled(h) /\ (h # None => co[h] = "new")
      /\ UNCHANGED <<inside, source, handle, step, result, resumed, refs, guards, broken, timers>>
  BY DEF Schedule, awaitVars
<1>2. /\ \A c \in Coroutines : co'[c] = IF c = h THEN "posted" ELSE co[c]
      /\ h = None => queue' = queue
  BY <1>1, ScheduledType
<1>3. CASE h = None
  <2>1. \A c \in Coroutines : co'[c] = co[c]
    BY <1>2, <1>3, HandleType
  <2>2. co' = co /\ queue' = queue
    BY <1>1, <1>2, <1>3, <2>1, ScheduledType DEF TypeOK
  <2> QED
    BY <1>1, <2>2 DEF Posted, Awaited, Entered, Stages, AwaitOf, Begun
<1>4. CASE h # None
  <2>1. h \in Coroutines /\ co[h] = "new"
    BY <1>1, <1>4
  <2>2. AwaitOf(h) = {}
    BY <2>1, AwaitOfCoroutine
  <2>3. Posted'
    BY <1>1, <2>1, PostStep
  <2>4. Stages'
    BY <1>1, <1>2, <2>1, <2>2, StagesFrame
  <2>5. Awaited'
    BY <1>1, <1>2, <2>1 DEF Awaited, AwaitOf, TypeOK
  <2>6. Entered'
    BY <1>1, <1>2, <2>1 DEF Entered
  <2> QED
    BY <1>1, <2>3, <2>4, <2>5, <2>6
<1> QED
  BY <1>3, <1>4

(* A posted handler resumes its coroutine. *)
LEMMA ResumeCoroutineStep ==
    ASSUME TypeOK, AsioInv, Resume
    PROVE  AsioInv'
<1> USE DEF AsioInv
<1> DEFINE c == Head(queue)
<1>1. /\ queue # <<>> /\ Len(queue) \in Nat \ {0} /\ DOMAIN queue = 1..Len(queue)
      /\ queue \in Seq(Coroutines)
      /\ c = queue[1] /\ c \in Coroutines /\ queue' = Tail(queue)
      /\ \A i \in 1..Len(queue) : queue[i] \in Coroutines
  BY QueueType DEF Resume
<1>2. /\ DOMAIN queue' = 1..(Len(queue) - 1)
      /\ \A i \in 1..(Len(queue) - 1) : queue'[i] = queue[i + 1]
  BY <1>1
<1>3. /\ \A d \in Coroutines : co'[d] = IF d = c THEN "running" ELSE co[d]
      /\ \A a \in Awaits : resumed'[a] = resumed[a] + IF a = inside[c] THEN 1 ELSE 0
      /\ \A a \in Awaits : refs'[a] = refs[a] \ IF a = inside[c] THEN {"awaiter"} ELSE {}
      /\ UNCHANGED <<inside, source, handle, step, result, guards, broken, timers>>
  BY <1>1 DEF Resume, TypeOK
<1> HIDE DEF c
<1>4. co[c] = "posted"
  BY <1>1 DEF Posted
<1>5. \A i \in 1..(Len(queue) - 1) : queue[i + 1] # c /\ i + 1 \in 1..Len(queue)
  BY <1>1 DEF Posted
<1>6. Posted'
  <2>1. \A i \in DOMAIN queue' : co'[queue'[i]] = "posted"
    BY <1>1, <1>2, <1>3, <1>5 DEF Posted
  <2>2. \A i, j \in DOMAIN queue' : queue'[i] = queue'[j] => i = j
    BY <1>1, <1>2, <1>5 DEF Posted
  <2>3. ASSUME NEW d \in Coroutines, co'[d] = "posted" PROVE \E i \in DOMAIN queue' : queue'[i] = d
    <3>1. d # c /\ co[d] = "posted"
      BY <1>3, <2>3
    <3>2. PICK i \in 1..Len(queue) : queue[i] = d
      BY <1>1, <3>1 DEF Posted
    <3>3. i # 1 /\ i - 1 \in 1..(Len(queue) - 1)
      BY <1>1, <3>1, <3>2
    <3> QED
      <4>1. queue'[i - 1] = queue[(i - 1) + 1] /\ (i - 1) + 1 = i
        BY <1>2, <3>3
      <4> QED
        BY <1>2, <3>2, <3>3, <4>1
  <2> QED
    BY <2>1, <2>2, <2>3 DEF Posted
<1>7. \A a \in Awaits : /\ resumed[a] \in Nat /\ step[a] \in 0..3
                        /\ handle[a] \in Coroutines \cup {None}
                        /\ a = inside[c] <=> handle[a] = c /\ resumed[a] = 0
                        /\ resumed'[a] = 0 => resumed[a] = 0 /\ handle[a] # c
                        /\ resumed'[a] = IF handle[a] = c /\ resumed[a] = 0 THEN 1 ELSE resumed[a]
  <2>1. \A a \in Awaits : /\ resumed[a] \in Nat /\ step[a] \in 0..3
                          /\ handle[a] \in Coroutines \cup {None}
                          /\ a = inside[c] <=> handle[a] = c /\ resumed[a] = 0
    BY <1>1, <1>4 DEF TypeOK, Entered
  <2> QED
    BY <1>3, <2>1
<1>8. Awaited'
  <2>1. ASSUME NEW d \in timers PROVE co'[d] = "awaiting" /\ AwaitOf(d)' = {}
    <3>1. d \in Coroutines /\ d # c /\ co[d] = "awaiting" /\ AwaitOf(d) = {}
      BY <1>4 DEF Awaited, TypeOK
    <3> QED
      BY <1>3, <1>7, <3>1 DEF AwaitOf
  <2>2. ASSUME NEW d \in Coroutines, co'[d] = "awaiting", d \notin timers
        PROVE  \E a \in Awaits : a \in AwaitOf(d)' /\ step[a] < 2
    <3>1. d # c /\ co[d] = "awaiting"
      BY <1>3, <2>2
    <3>2. PICK a \in Awaits : a \in AwaitOf(d) /\ step[a] < 2
      BY <2>2, <3>1 DEF Awaited
    <3> QED
      BY <1>3, <1>7, <3>1, <3>2 DEF AwaitOf
  <2>3. \A a, b \in Awaits : /\ handle[a] = handle[b] /\ handle[a] # None
                             /\ resumed'[a] = 0 /\ resumed'[b] = 0
                             => a = b
    BY <1>7 DEF Awaited
  <2> QED
    BY <1>3, <2>1, <2>2, <2>3 DEF Awaited
<1>9. Stages'
  <2> SUFFICES ASSUME NEW a \in Awaits
               PROVE  /\ ~Begun(a) => step[a] = 0 /\ handle[a] = None /\ resumed'[a] = 0
                      /\ Begun(a) => handle[a] # None
                      /\ Begun(a) /\ step[a] < 3 => "completion" \in refs'[a] /\ a \in guards
                      /\ Begun(a) /\ step[a] < 2 => resumed'[a] = 0 /\ co'[handle[a]] = "awaiting"
                      /\ step[a] >= 2 /\ resumed'[a] = 0 => co'[handle[a]] = "posted"
                      /\ step[a] > 0 => result[a] # "none"
                      /\ source[a] = "awaitable" => step[a] \in {0, 3}
                      /\ resumed'[a] <= 1
    BY <1>3 DEF Stages, Begun
  <2>1. step[a] >= 2 => Begun(a)
    BY <1>7 DEF Stages
  <2>2. "completion" \in refs[a] => "completion" \in refs'[a]
    BY <1>3
  <2>3. CASE handle[a] = c /\ resumed[a] = 0
    <3>1. Begun(a) /\ step[a] >= 2
      BY <1>1, <1>4, <1>7, <2>3, HandleType DEF Stages
    <3> QED
      BY <1>7, <2>2, <2>3, <3>1 DEF Stages
  <2>4. CASE ~(handle[a] = c /\ resumed[a] = 0)
    <3>1. resumed'[a] = resumed[a]
      BY <1>7, <2>4
    <3>2. resumed[a] = 0 /\ Begun(a) => handle[a] \in Coroutines /\ handle[a] # c
      BY <1>7, <2>4 DEF Stages
    <3> QED
      BY <1>3, <1>7, <2>1, <2>2, <3>1, <3>2 DEF Stages
  <2> QED
    BY <2>3, <2>4
<1>10. Entered'
  <2> SUFFICES ASSUME NEW d \in Coroutines, co'[d] \in {"new", "awaiting", "posted"}, NEW a \in Awaits
               PROVE  a = inside[d] <=> handle[a] = d /\ resumed'[a] = 0
    BY <1>3 DEF Entered
  <2>1. d # c /\ co[d] \in {"new", "awaiting", "posted"}
    BY <1>3
  <2> QED
    BY <1>7, <2>1 DEF Entered
<1> QED
  BY <1>3, <1>6, <1>8, <1>9, <1>10

(* A coroutine ends, or awaits a timer. *)
LEMMA LeaveStep ==
    ASSUME TypeOK, AsioInv, NEW c \in Coroutines, Finish(c) \/ ArmTimer(c)
    PROVE  AsioInv'
<1> USE DEF AsioInv
<1>1. /\ co[c] = "running" /\ AwaitOf(c) = {}
      /\ UNCHANGED <<source, handle, step, result, resumed, refs, guards, broken, queue>>
  <2>1. co[c] = "running"
    BY DEF Finish, ArmTimer
  <2> QED
    BY <2>1, AwaitOfCoroutine DEF Finish, ArmTimer, awaitVars
<1>2. /\ co'[c] \in {"done", "awaiting"} /\ \A d \in Coroutines \ {c} : co'[d] = co[d]
      /\ co'[c] = "awaiting" => timers' = timers \cup {c}
      /\ co'[c] = "done" => timers' = timers
  BY DEF Finish, ArmTimer, TypeOK
<1>3. Stages'
  BY <1>1, <1>2, StagesFrame
<1>4. Posted'
  BY <1>1, <1>2, QueueType DEF Posted
<1>5. \A d \in Coroutines : AwaitOf(d)' = AwaitOf(d)
  BY <1>1 DEF AwaitOf
<1>6. c \notin timers /\ timers \subseteq Coroutines
  BY <1>1 DEF Awaited, TypeOK
<1>7. Awaited'
  BY <1>1, <1>2, <1>5, <1>6 DEF Awaited
<1>8. Entered'
  <2> SUFFICES ASSUME NEW d \in Coroutines, co'[d] \in {"new", "awaiting", "posted"}, NEW a \in Awaits
               PROVE  a = inside'[d] <=> handle[a] = d /\ resumed[a] = 0
    BY <1>1 DEF Entered
  <2>1. CASE d # c
    <3>1. co[d] = co'[d] /\ inside'[d] = inside[d]
      BY <1>2, <2>1 DEF Finish, ArmTimer, awaitVars, TypeOK
    <3> QED
      BY <3>1 DEF Entered
  <2>2. CASE d = c
    <3>1. ArmTimer(c)
      BY <2>2 DEF Finish, TypeOK
    <3>2. inside'[d] = None /\ None \notin Awaits
      BY <2>2, <3>1, HandleType DEF ArmTimer, TypeOK, Awaits
    <3> QED
      BY <1>1, <2>2, <3>2 DEF AwaitOf
  <2> QED
    BY <2>1, <2>2
<1> QED
  BY <1>1, <1>3, <1>4, <1>7, <1>8

(* A timer schedules its coroutine. *)
LEMMA FireStep ==
    ASSUME TypeOK, AsioInv, NEW c \in Coroutines, FireTimer(c)
    PROVE  AsioInv'
<1> USE DEF AsioInv
<1>1. /\ c \in timers /\ timers' = timers \ {c} /\ Scheduled(c)
      /\ UNCHANGED <<inside, source, handle, step, result, resumed, refs, guards, broken>>
  BY DEF FireTimer, awaitVars
<1>2. co[c] = "awaiting" /\ AwaitOf(c) = {} /\ timers \subseteq Coroutines
  BY <1>1 DEF Awaited, TypeOK
<1>3. Posted' /\ \A d \in Coroutines : co'[d] = IF d = c THEN "posted" ELSE co[d]
  BY <1>1, <1>2, PostStep
<1>4. Stages'
  BY <1>1, <1>2, <1>3, StagesFrame
<1>5. \A d \in Coroutines : AwaitOf(d)' = AwaitOf(d)
  BY <1>1 DEF AwaitOf
<1>6. Awaited'
  BY <1>1, <1>2, <1>3, <1>5 DEF Awaited
<1>7. Entered'
  BY <1>1, <1>2, <1>3 DEF Entered
<1> QED
  BY <1>1, <1>3, <1>4, <1>6, <1>7

(* A coroutine suspends in an await, which takes a guard and two           *)
(* references.                                                             *)
LEMMA SuspendStep ==
    ASSUME TypeOK, AsioInv, NEW c \in Coroutines, NEW s \in {"future", "awaitable"}, Suspend(c, s)
    PROVE  AsioInv'
<1> USE DEF AsioInv
<1>1. co[c] = "running" /\ AwaitOf(c) = {}
  BY AwaitOfCoroutine DEF Suspend
<1>2. PICK a \in Awaits : /\ source[a] = "none" /\ source' = [source EXCEPT ![a] = s]
                          /\ handle' = [handle EXCEPT ![a] = c]
                          /\ refs' = [refs EXCEPT ![a] = Holders]
                          /\ guards' = guards \cup {a}
                          /\ inside' = [inside EXCEPT ![c] = a]
  BY DEF Suspend
<1>3. /\ \A b \in Awaits : /\ source'[b] = IF b = a THEN s ELSE source[b]
                           /\ handle'[b] = IF b = a THEN c ELSE handle[b]
                           /\ refs'[b] = IF b = a THEN Holders ELSE refs[b]
                           /\ handle[b] \in Coroutines \cup {None}
                           /\ resumed[b] \in Nat /\ step[b] \in 0..3
      /\ \A d \in Coroutines : co'[d] = IF d = c THEN "awaiting" ELSE co[d]
      /\ UNCHANGED <<step, result, resumed, broken, queue, timers>>
  BY <1>2 DEF Suspend, TypeOK
<1>4. step[a] = 0 /\ handle[a] = None /\ resumed[a] = 0
  BY <1>2 DEF Stages, Begun
<1>5. Posted'
  BY <1>1, <1>3, QueueType DEF Posted
<1>6. \A d \in Coroutines \ {c} : AwaitOf(d)' = AwaitOf(d)
  BY <1>3, <1>4, HandleType DEF AwaitOf
<1>7. AwaitOf(c)' = {a}
  BY <1>1, <1>3, <1>4 DEF AwaitOf
<1>8. Awaited'
  <2>1. ASSUME NEW d \in timers PROVE co'[d] = "awaiting" /\ AwaitOf(d)' = {}
    <3>1. d \in Coroutines \ {c}
      BY <1>1 DEF Awaited, TypeOK
    <3> QED
      BY <1>3, <1>6, <3>1 DEF Awaited
  <2>2. ASSUME NEW d \in Coroutines, co'[d] = "awaiting", d \notin timers
        PROVE  \E b \in Awaits : b \in AwaitOf(d)' /\ step[b] < 2
    <3>1. CASE d = c
      BY <1>4, <1>7, <3>1
    <3>2. CASE d # c
      BY <1>3, <1>6, <2>2, <3>2 DEF Awaited
    <3> QED
      BY <3>1, <3>2
  <2>3. ASSUME NEW b \in Awaits, NEW e \in Awaits, handle'[b] = handle'[e], handle'[b] # None,
               resumed[b] = 0, resumed[e] = 0
        PROVE  b = e
    <3>1. \A x \in Awaits \ {a} : resumed[x] = 0 => handle[x] # c
      BY <1>1 DEF AwaitOf
    <3> QED
      BY <1>3, <2>3, <3>1 DEF Awaited
  <2> QED
    BY <1>3, <2>1, <2>2, <2>3 DEF Awaited
<1>9. Stages'
  <2> SUFFICES ASSUME NEW b \in Awaits
               PROVE  /\ source'[b] = "none" => step[b] = 0 /\ handle'[b] = None /\ resumed[b] = 0
                      /\ source'[b] # "none" => handle'[b] # None
                      /\ source'[b] # "none" /\ step[b] < 3 => "completion" \in refs'[b] /\ b \in guards'
                      /\ source'[b] # "none" /\ step[b] < 2 =>
                            resumed[b] = 0 /\ co'[handle'[b]] = "awaiting"
                      /\ step[b] >= 2 /\ resumed[b] = 0 => co'[handle'[b]] = "posted"
                      /\ step[b] > 0 => result[b] # "none"
                      /\ source'[b] = "awaitable" => step[b] \in {0, 3}
                      /\ resumed[b] <= 1
    BY <1>3 DEF Stages, Begun
  <2>1. CASE b = a
    BY <1>2, <1>3, <1>4, <2>1, HandleType DEF Holders, Stages
  <2>2. CASE b # a
    <3>1. source'[b] = source[b] /\ handle'[b] = handle[b] /\ refs'[b] = refs[b] /\ (b \in guards => b \in guards')
      BY <1>2, <1>3, <2>2
    <3>2. resumed[b] = 0 => handle[b] # c
      BY <1>1, <1>3 DEF AwaitOf
    <3>3. step[b] >= 2 => Begun(b)
      BY <1>3 DEF Stages
    <3> QED
      BY <1>3, <3>1, <3>2, <3>3 DEF Stages, Begun
  <2> QED
    BY <2>1, <2>2
<1>10. Entered'
  <2> SUFFICES ASSUME NEW d \in Coroutines, co'[d] \in {"new", "awaiting", "posted"}, NEW b \in Awaits
               PROVE  b = inside'[d] <=> b \in AwaitOf(d)'
    BY DEF Entered, AwaitOf
  <2>1. inside'[d] = IF d = c THEN a ELSE inside[d]
    BY <1>2 DEF TypeOK
  <2>2. CASE d = c
    BY <1>7, <2>1, <2>2
  <2>3. CASE d # c
    <3>1. co[d] = co'[d] /\ AwaitOf(d)' = AwaitOf(d)
      BY <1>3, <1>6, <2>3
    <3> QED
      BY <2>1, <2>3, <3>1 DEF Entered, AwaitOf
  <2> QED
    BY <2>2, <2>3
<1> QED
  BY <1>3, <1>5, <1>8, <1>9, <1>10

(* The completion of an await that is under way has its reference. *)
LEMMA UseSafe ==
    ASSUME TypeOK, AsioInv, NEW a \in Awaits, Begun(a), step[a] < 3, Use(a)
    PROVE  broken' = {}
<1>1. refs[a] # {}
  BY DEF AsioInv, Stages
<1> QED
  BY <1>1 DEF Use, ImplAlive, AsioInv

(* The waiter thread stores the result, gives up the guard, or ends. *)
LEMMA WaiterStep ==
    ASSUME TypeOK, AsioInv, NEW a \in Awaits,
           \/ \E r \in Results : Complete(a, r)
           \/ ResumeStep(a) /\ ResumeSteps[step[a]] = "reset"
           \/ Release(a)
    PROVE  AsioInv'
<1> USE DEF AsioInv
<1>1. /\ UNCHANGED <<co, inside, source, handle, resumed, queue, timers>>
      /\ \A b \in Awaits : /\ handle[b] \in Coroutines \cup {None} /\ resumed[b] \in Nat
                           /\ step[b] \in 0..3
  BY DEF Complete, ResumeStep, ResumeSteps, Release, TypeOK
<1>2. \/ /\ step[a] = 0 /\ Begun(a) /\ source[a] # "awaitable"
         /\ step' = [step EXCEPT ![a] = 1] /\ result'[a] # "none"
         /\ \A b \in Awaits \ {a} : result'[b] = result[b]
         /\ UNCHANGED <<refs, guards>> /\ broken' = {}
      \/ /\ step[a] = 2 /\ Begun(a)
         /\ step' = [step EXCEPT ![a] = 3] /\ guards' = guards \ {a}
         /\ UNCHANGED <<result, refs>> /\ broken' = {}
      \/ /\ step[a] = 3 /\ Begun(a) /\ step' = step
         /\ refs' = [refs EXCEPT ![a] = @ \ {"completion"}]
         /\ UNCHANGED <<result, guards>> /\ broken' = {}
  <2>1. ASSUME NEW r \in Results, Complete(a, r)
        PROVE  /\ step[a] = 0 /\ Begun(a) /\ source[a] # "awaitable"
               /\ step' = [step EXCEPT ![a] = 1] /\ result'[a] # "none"
               /\ \A b \in Awaits \ {a} : result'[b] = result[b]
               /\ UNCHANGED <<refs, guards>> /\ broken' = {}
    <3>1. step[a] = 0 /\ Begun(a) /\ source[a] # "awaitable"
      BY <2>1 DEF Complete, Begun
    <3>2. step[a] < 3
      BY <3>1
    <3>3. broken' = {}
      BY <2>1, <3>1, <3>2, UseSafe DEF Complete
    <3>4. result' = [result EXCEPT ![a] = r] /\ r # "none" /\ DOMAIN result = Awaits
      BY <2>1 DEF Complete, Stored, Results, TypeOK
    <3>5. step' = [step EXCEPT ![a] = 1] /\ UNCHANGED <<refs, guards>>
      BY <2>1 DEF Complete
    <3> QED
      BY <3>1, <3>3, <3>4, <3>5
  <2>2. CASE ResumeStep(a) /\ ResumeSteps[step[a]] = "reset"
    <3>1. step[a] = 2
      BY <2>2 DEF ResumeStep, ResumeSteps
    <3>2. Begun(a)
      BY <3>1 DEF Stages
    <3> QED
      BY <2>2, <3>1, <3>2, UseSafe DEF ResumeStep, ResumeSteps
  <2>3. CASE Release(a)
    <3>1. step[a] = 3 /\ Begun(a)
      BY <2>3 DEF Release, Stages
    <3> QED
      BY <2>3, <3>1 DEF Release
  <2> QED
    BY <2>1, <2>2, <2>3
<1>3. Posted'
  BY <1>1 DEF Posted
<1>4. \A b \in Awaits : /\ step'[b] < 2 <=> step[b] < 2
                        /\ b # a => step'[b] = step[b] /\ result'[b] = result[b] /\ refs'[b] = refs[b]
                                    /\ (b \in guards => b \in guards')
  BY <1>1, <1>2 DEF TypeOK
<1>5. Awaited'
  BY <1>1, <1>4 DEF Awaited, AwaitOf
<1>6. Entered'
  BY <1>1 DEF Entered
<1>7. Stages'
  <2> SUFFICES ASSUME NEW b \in Awaits
               PROVE  /\ ~Begun(b) => step'[b] = 0 /\ handle[b] = None /\ resumed[b] = 0
                      /\ Begun(b) => handle[b] # None
                      /\ Begun(b) /\ step'[b] < 3 => "completion" \in refs'[b] /\ b \in guards'
                      /\ Begun(b) /\ step'[b] < 2 => resumed[b] = 0 /\ co[handle[b]] = "awaiting"
                      /\ step'[b] >= 2 /\ resumed[b] = 0 => co[handle[b]] = "posted"
                      /\ step'[b] > 0 => result'[b] # "none"
                      /\ source[b] = "awaitable" => step'[b] \in {0, 3}
                      /\ resumed[b] <= 1
    BY <1>1 DEF Stages, Begun
  <2>1. CASE b # a
    BY <1>1, <1>4, <2>1 DEF Stages
  <2>2. CASE b = a
    BY <1>1, <1>2, <2>2 DEF Stages, TypeOK
  <2> QED
    BY <2>1, <2>2
<1> QED
  BY <1>2, <1>3, <1>5, <1>6, <1>7

(* The completion of an await posts its coroutine. *)
LEMMA PostAwaitStep ==
    ASSUME TypeOK, AsioInv, NEW a \in Awaits,
           \/ ResumeStep(a) /\ ResumeSteps[step[a]] = "schedule"
           \/ \E r \in Results : CompleteAwaitable(a, r)
    PROVE  AsioInv'
<1> USE DEF AsioInv
<1> DEFINE c == handle[a]
<1>1. /\ Scheduled(c) /\ Use(a) /\ UNCHANGED <<inside, source, handle, resumed, timers>>
      /\ \A b \in Awaits : /\ handle[b] \in Coroutines \cup {None} /\ resumed[b] \in Nat
                           /\ step[b] \in 0..3
  BY DEF ResumeStep, ResumeSteps, CompleteAwaitable, TypeOK
<1>2. /\ step[a] < 2 /\ Begun(a)
      /\ \/ /\ step[a] = 1 /\ step' = [step EXCEPT ![a] = 2] /\ source[a] # "awaitable"
            /\ UNCHANGED <<result, refs, guards>>
         \/ /\ step[a] = 0 /\ step' = [step EXCEPT ![a] = 3] /\ result'[a] # "none"
            /\ \A b \in Awaits \ {a} : result'[b] = result[b] /\ refs'[b] = refs[b]
            /\ guards' = guards \ {a}
  <2>1. CASE ResumeStep(a) /\ ResumeSteps[step[a]] = "schedule"
    <3>1. step[a] = 1
      BY <2>1 DEF ResumeStep, ResumeSteps
    <3>2. Begun(a) /\ source[a] # "awaitable"
      BY <3>1 DEF Stages
    <3> QED
      BY <2>1, <3>1, <3>2 DEF ResumeStep, ResumeSteps
  <2>2. ASSUME NEW r \in Results, CompleteAwaitable(a, r)
        PROVE  /\ step[a] = 0 /\ Begun(a) /\ step' = [step EXCEPT ![a] = 3] /\ result'[a] # "none"
               /\ \A b \in Awaits \ {a} : result'[b] = result[b] /\ refs'[b] = refs[b]
               /\ guards' = guards \ {a}
    BY <2>2 DEF CompleteAwaitable, Begun, Stored, Results, TypeOK
  <2> QED
    BY <2>1, <2>2
<1>3. c \in Coroutines /\ co[c] = "awaiting" /\ resumed[a] = 0 /\ broken' = {}
  BY <1>1, <1>2, UseSafe, HandleType DEF Stages
<1>4. a \in AwaitOf(c) /\ c \notin timers
  BY <1>3 DEF AwaitOf, Awaited
<1>5. handle[a] = c
  OBVIOUS
<1> HIDE DEF c
<1>6. Posted' /\ \A d \in Coroutines : co'[d] = IF d = c THEN "posted" ELSE co[d]
  BY <1>1, <1>3, PostStep DEF c
<1>7. \A b \in Awaits : b # a /\ resumed[b] = 0 => handle[b] # c
  BY <1>3, <1>5, HandleType DEF Awaited
<1>8. \A b \in Awaits : /\ b # a => step'[b] = step[b] /\ result'[b] = result[b] /\ refs'[b] = refs[b]
                                    /\ (b \in guards => b \in guards')
                        /\ step'[a] \in {2, 3} /\ (source[a] = "awaitable" => step'[a] = 3)
  BY <1>1, <1>2 DEF TypeOK
<1>9. Awaited'
  <2>1. ASSUME NEW d \in timers PROVE co'[d] = "awaiting" /\ AwaitOf(d)' = {}
    <3>1. d \in Coroutines /\ d # c
      BY <1>4 DEF TypeOK
    <3> QED
      BY <1>1, <1>6, <3>1 DEF Awaited, AwaitOf
  <2>2. ASSUME NEW d \in Coroutines, co'[d] = "awaiting", d \notin timers
        PROVE  \E b \in Awaits : b \in AwaitOf(d)' /\ step'[b] < 2
    <3>1. d # c /\ co[d] = "awaiting"
      BY <1>6, <2>2
    <3>2. PICK b \in Awaits : b \in AwaitOf(d) /\ step[b] < 2
      BY <2>2, <3>1 DEF Awaited
    <3>3. b # a /\ b \in AwaitOf(d)'
      BY <1>1, <1>5, <3>1, <3>2 DEF AwaitOf
    <3> QED
      BY <1>8, <3>2, <3>3
  <2> QED
    BY <1>1, <2>1, <2>2 DEF Awaited
<1>10. Stages'
  <2> SUFFICES ASSUME NEW b \in Awaits
               PROVE  /\ ~Begun(b) => step'[b] = 0 /\ handle[b] = None /\ resumed[b] = 0
                      /\ Begun(b) => handle[b] # None
                      /\ Begun(b) /\ step'[b] < 3 => "completion" \in refs'[b] /\ b \in guards'
                      /\ Begun(b) /\ step'[b] < 2 => resumed[b] = 0 /\ co'[handle[b]] = "awaiting"
                      /\ step'[b] >= 2 /\ resumed[b] = 0 => co'[handle[b]] = "posted"
                      /\ step'[b] > 0 => result'[b] # "none"
                      /\ source[b] = "awaitable" => step'[b] \in {0, 3}
                      /\ resumed[b] <= 1
    BY <1>1 DEF Stages, Begun
  <2>1. CASE b # a
    <3>1. step[b] >= 2 => Begun(b)
      BY <1>1 DEF Stages
    <3> QED
      BY <1>1, <1>6, <1>7, <1>8, <2>1, <3>1 DEF Stages
  <2>2. CASE b = a
    BY <1>1, <1>2, <1>3, <1>5, <1>6, <1>8, <2>2 DEF Stages, TypeOK
  <2> QED
    BY <2>1, <2>2
<1>11. Entered'
  BY <1>1, <1>3, <1>6 DEF Entered
<1> QED
  BY <1>3, <1>6, <1>9, <1>10, <1>11

-----------------------------------------------------------------------------
(* The results. *)

(* The scheduler starts with nothing posted and nothing awaited. *)
LEMMA InvInit == Init => AsioInv
<1> SUFFICES ASSUME Init PROVE AsioInv
  OBVIOUS
<1>1. Posted /\ Awaited /\ Stages /\ broken = {}
  BY DEF Init, Posted, Awaited, Stages, AwaitOf, Begun
<1>2. Entered
  BY HandleType DEF Init, Entered, Awaits
<1> QED
  BY <1>1, <1>2 DEF AsioInv

(* Every step keeps the invariant. *)
LEMMA InvStep == TypeOK /\ AsioInv /\ [Next]_vars => AsioInv'
<1> SUFFICES ASSUME TypeOK, AsioInv, [Next]_vars PROVE AsioInv'
  OBVIOUS
<1>1. CASE UNCHANGED <<co, awaitVars, queue, timers>>
  BY <1>1 DEF awaitVars, AsioInv, Posted, Awaited, Entered, Stages, AwaitOf, Begun
<1>2. CASE UNCHANGED vars
  BY <1>1, <1>2 DEF vars
<1>3. ASSUME NEW h \in Coroutines \cup {None}, Schedule(h) PROVE AsioInv'
  BY <1>3, ScheduleStep
<1>4. CASE Run \/ Stop \/ Destroy \/ Return
  BY <1>1, <1>4 DEF Run, Stop, Destroy, Return
<1>5. CASE Resume \/ \E c \in Coroutines : FireTimer(c)
  BY <1>5, ResumeCoroutineStep, FireStep
<1>6. ASSUME NEW c \in Coroutines, Body(c) PROVE AsioInv'
  BY <1>6, LeaveStep, SuspendStep DEF Body
<1>7. ASSUME NEW a \in Awaits, NEW r \in Results, CompleteAwaitable(a, r) \/ Complete(a, r) PROVE AsioInv'
  BY <1>7, PostAwaitStep, WaiterStep
<1>8. ASSUME NEW a \in Awaits, Waiter(a) PROVE AsioInv'
  <2>1. ResumeStep(a) => ResumeSteps[step[a]] = "schedule" \/ ResumeSteps[step[a]] = "reset"
    BY DEF ResumeStep
  <2> QED
    BY <1>8, <2>1, PostAwaitStep, WaiterStep DEF Waiter
<1> QED
  BY <1>2, <1>3, <1>4, <1>5, <1>6, <1>7, <1>8 DEF Next, Handler

(* For any number of coroutines and awaits, and whatever stop() and the    *)
(* destructor do meanwhile: a coroutine goes on once after an await, with  *)
(* the result there.                                                       *)
THEOREM AwaitsResumedOnce == Spec => []ResumedOnceWithResult
<1>1. TypeOK /\ AsioInv => ResumedOnceWithResult
  <2> SUFFICES ASSUME TypeOK, AsioInv, NEW a \in Awaits
               PROVE  resumed[a] <= 1 /\ (resumed[a] = 1 => result[a] # "none")
    BY DEF ResumedOnceWithResult
  <2>1. step[a] \in 0..3 /\ resumed[a] \in Nat
    BY DEF TypeOK
  <2>2. step[a] = 0 => resumed[a] = 0
    BY DEF AsioInv, Stages
  <2>3. resumed[a] <= 1 /\ (step[a] > 0 => result[a] # "none")
    BY DEF AsioInv, Stages
  <2> QED
    BY <2>1, <2>2, <2>3
<1> QED
  BY <1>1, TypeCorrect, InvInit, InvStep, PTL DEF Spec

(* No completion uses a freed await state, or an io_context that went with *)
(* the scheduler: the completion's own reference keeps both.               *)
THEOREM CompletionsSafe == Spec => []NoUseAfterFree
<1>1. AsioInv => NoUseAfterFree
  BY DEF AsioInv, NoUseAfterFree
<1> QED
  BY <1>1, TypeCorrect, InvInit, InvStep, PTL DEF Spec

(* run() returns by itself only when no coroutine waits or is posted: the  *)
(* work guards, the timers and the queue between them account for each.    *)
THEOREM RunWaits == Spec => RunKeepsWaiting
<1>1. ASSUME TypeOK, AsioInv, [Next]_vars, loop = "running", loop' = "idle", ~stopped
      PROVE  \A c \in Coroutines : co[c] \notin {"posted", "awaiting"}
  <2>1. Return
    BY <1>1 DEF Next, vars, Handler, Body, Waiter, Schedule, Run, Stop, Destroy, Resume, FireTimer,
                CompleteAwaitable, Finish, ArmTimer, Suspend, ResumeStep, Release, Complete, loopVars
  <2>2. queue = <<>> /\ timers = {} /\ guards = {}
    BY <1>1, <2>1 DEF Return, OutOfWork
  <2>3. \A c \in Coroutines : co[c] # "posted"
    BY <1>1, <2>2 DEF AsioInv, Posted
  <2>4. ASSUME NEW c \in Coroutines, co[c] = "awaiting" PROVE FALSE
    <3>1. PICK a \in AwaitOf(c) : step[a] < 2
      BY <1>1, <2>2, <2>4 DEF AsioInv, Awaited
    <3>2. a \in Awaits /\ Begun(a)
      BY <1>1, <3>1, AwaitOfCoroutine DEF AsioInv
    <3>3. step[a] \in 0..3
      BY <1>1, <3>2 DEF TypeOK
    <3>4. step[a] < 3
      BY <3>1, <3>3
    <3> QED
      BY <1>1, <2>2, <3>2, <3>4 DEF AsioInv, Stages
  <2> QED
    BY <2>3, <2>4
<1>2. TypeOK /\ AsioInv /\ [Next]_vars =>
         [(loop = "running" /\ loop' = "idle" /\ ~stopped)
              => \A c \in Coroutines : co[c] \notin {"posted", "awaiting"}]_vars
  BY <1>1
<1> QED
  BY <1>2, TypeCorrect, InvInit, InvStep, PTL DEF Spec, RunKeepsWaiting

=============================================================================

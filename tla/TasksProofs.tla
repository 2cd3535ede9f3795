---------------------------- MODULE TasksProofs ----------------------------
(***************************************************************************)
(* Proofs about Tasks: frames are neither misused nor leaked, whatever the *)
(* coroutines do and however many there are.                               *)
(***************************************************************************)
EXTENDS Tasks, FiniteSetTheorems, SequenceTheorems, TLAPS

-----------------------------------------------------------------------------
(* The inductive invariant. *)

Exists(f) == state[f] \notin {"none", "freed"}

(* A handle in ready_ or in a timer is the handle of a frame that waits    *)
(* there, and is there once.                                               *)
Waiting ==
    /\ \A i \in DOMAIN ready : state[ready[i]] = "queued"
    /\ \A i, j \in DOMAIN ready : ready[i] = ready[j] => i = j
    /\ \A i \in DOMAIN timers : state[timers[i].frame] = "timed"
    /\ \A i, j \in DOMAIN timers : timers[i].frame = timers[j].frame => i = j

(* One frame runs at a time, and only inside run(). *)
Control ==
    /\ \A f \in Frames : state[f] = "running" <=> f = current
    /\ current # None => loop = "loop"

(* A task variable of live code refers to a frame that exists, that has    *)
(* not begun or has ended unless it is awaited by that code, and that no   *)
(* other variable refers to.                                               *)
Owning ==
    /\ \A h \in Homes, x \in Locals : handle[h][x] # None =>
          /\ Exists(handle[h][x]) /\ ~detached[handle[h][x]]
          /\ h # Main => state[h] \notin Ended
          /\ \/ state[handle[h][x]] \in {"created", "final"}
             \/ h # Main /\ cont[handle[h][x]] = h
    /\ \A h, k \in Homes : \A x, y \in Locals :
          handle[h][x] = handle[k][y] /\ handle[h][x] # None => h = k /\ x = y
    /\ \A f \in Frames : Exists(f) /\ ~detached[f] =>
          \E h \in Homes, x \in Locals : handle[h][x] = f

(* A promise has a continuation or is detached, never both, and the frames *)
(* that await are the continuations of frames whose body has not ended.    *)
Promised ==
    /\ \A f \in Frames : state[f] \in {"none", "created"} => cont[f] = None /\ ~detached[f]
    /\ \A f \in Frames : detached[f] => cont[f] = None /\ state[f] # "final"
    /\ \A f \in Frames : cont[f] # None /\ state[f] \notin Ended => state[cont[f]] = "awaiting"
    /\ \A f, g \in Frames : /\ cont[f] = cont[g] /\ cont[f] # None
                            /\ state[f] \notin Ended /\ state[g] \notin Ended
                            => f = g
    /\ \A f \in Frames : state[f] = "awaiting" =>
          \E g \in Frames : cont[g] = f /\ state[g] \notin Ended

TasksInv == Waiting /\ Control /\ Owning /\ Promised /\ broken = {}

-----------------------------------------------------------------------------
(* Typing. *)

Timer == [due : 0..MaxTime, frame : Frames]

(* The homes of variables, and the null handle, are not frames. *)
LEMMA FramesType ==
    /\ Frames \subseteq Nat /\ None \notin Frames /\ Main \notin Frames
    /\ None = 0 /\ Main = 0 /\ Homes = Frames \cup {0}
BY TasksBounds DEF Frames, None, Main, Homes

(* timers_.emplace adds the new timer and keeps the others, in order. *)
LEMMA InsertType ==
    ASSUME TypeOK, NEW t \in Timer, Insert(t)
    PROVE  \E i \in 1..(Len(timers) + 1) :
              /\ timers' \in Seq(Timer) /\ Len(timers') = Len(timers) + 1
              /\ \A j \in 1..(Len(timers) + 1) :
                    timers'[j] = IF j < i THEN timers[j]
                                 ELSE IF j = i THEN t ELSE timers[j - 1]
<1>1. timers \in Seq(Timer) /\ Len(timers) \in Nat
  BY DEF TypeOK, Timer
<1>2. PICK i \in 1..(Len(timers) + 1) : timers' = InsertAt(timers, i, t)
  BY DEF Insert
<1>3. \A j \in 1..Len(timers) : timers[j] \in Timer
  BY <1>1, ElementOfSeq
<1> DEFINE A == SubSeq(timers, 1, i - 1)
           B == SubSeq(timers, i, Len(timers))
<1>4. /\ A \in Seq(Timer) /\ Len(A) = i - 1
      /\ \A j \in 1..(i - 1) : A[j] = timers[j]
  <2>1. i - 1 \in Int /\ 1 \in Int /\ \A j \in 1..(i - 1) : timers[j] \in Timer
    BY <1>1, <1>3
  <2>2. /\ A \in Seq(Timer) /\ Len(A) = IF 1 <= i - 1 THEN i - 1 - 1 + 1 ELSE 0
        /\ \A j \in 1..(i - 1 - 1 + 1) : A[j] = timers[1 + j - 1]
    BY <2>1, SubSeqProperties
  <2> QED
    BY <1>1, <2>2
<1>5. /\ B \in Seq(Timer) /\ Len(B) = Len(timers) - i + 1
      /\ \A j \in 1..(Len(timers) - i + 1) : B[j] = timers[i + j - 1]
  <2>1. i \in Int /\ Len(timers) \in Int /\ \A j \in i..Len(timers) : timers[j] \in Timer
    BY <1>1, <1>3
  <2>2. /\ B \in Seq(Timer) /\ Len(B) = IF i <= Len(timers) THEN Len(timers) - i + 1 ELSE 0
        /\ \A j \in 1..(Len(timers) - i + 1) : B[j] = timers[i + j - 1]
    BY <2>1, SubSeqProperties
  <2> QED
    BY <1>1, <2>2
<1>6. <<t>> \in Seq(Timer) /\ Len(<<t>>) = 1 /\ <<t>>[1] = t
  OBVIOUS
<1> DEFINE C == A \o <<t>>
<1>7. timers' = C \o B
  BY <1>2 DEF InsertAt
<1>8. /\ C \in Seq(Timer) /\ Len(C) = i
      /\ C[i] = t /\ \A j \in 1..(i - 1) : C[j] = A[j]
  <2>1. /\ C \in Seq(Timer) /\ Len(C) = Len(A) + Len(<<t>>)
        /\ \A j \in 1..(Len(A) + Len(<<t>>)) :
              C[j] = IF j <= Len(A) THEN A[j] ELSE <<t>>[j - Len(A)]
    BY <1>4, <1>6, ConcatProperties
  <2> QED
    BY <1>1, <1>4, <1>6, <2>1
<1> HIDE DEF A, B, C
<1>9. /\ C \o B \in Seq(Timer)
      /\ Len(C \o B) = i + (Len(timers) - i + 1)
      /\ \A j \in 1..(i + (Len(timers) - i + 1)) :
            (C \o B)[j] = IF j <= i THEN C[j] ELSE B[j - i]
  <2>1. /\ C \o B \in Seq(Timer) /\ Len(C \o B) = Len(C) + Len(B)
        /\ \A j \in 1..(Len(C) + Len(B)) :
              (C \o B)[j] = IF j <= Len(C) THEN C[j] ELSE B[j - Len(C)]
    BY <1>5, <1>8, ConcatProperties
  <2> QED
    BY <1>1, <1>5, <1>8, <2>1
<1>10. timers' \in Seq(Timer) /\ Len(timers') = Len(timers) + 1
  BY <1>1, <1>9, <1>7
<1>11. ASSUME NEW j \in 1..(Len(timers) + 1)
       PROVE  timers'[j] = IF j < i THEN timers[j] ELSE IF j = i THEN t ELSE timers[j - 1]
  <2>1. CASE j < i
    <3>1. j \in 1..(i - 1) /\ j <= i /\ j \in 1..(i + (Len(timers) - i + 1))
      BY <1>1, <2>1
    <3>2. C[j] = timers[j] /\ (C \o B)[j] = C[j]
      BY <1>4, <1>8, <1>9, <3>1
    <3> QED
      BY <1>7, <2>1, <3>2
  <2>2. CASE j = i
    BY <1>1, <1>6, <1>8, <1>9, <1>7, <2>2
  <2>3. CASE j > i
    BY <1>1, <1>5, <1>9, <1>7, <2>3
  <2> QED
    BY <2>1, <2>2, <2>3, <1>1
<1> QED
  BY <1>10, <1>11

(* The states of frames after some were destroyed. *)
LEMMA DestroyedType ==
    ASSUME NEW st \in [Frames -> States], NEW F
    PROVE  Destroyed(st, F) \in [Frames -> States]
BY DEF Destroyed, States

(* What a task variable owns is a frame, or nothing. *)
LEMMA OwnedType ==
    ASSUME TypeOK, NEW h \in Homes, NEW x \in Locals
    PROVE  /\ handle[h] \in [Locals -> Frames \cup {None}]
           /\ handle[h][x] \in Frames \cup {None}
           /\ Owned(h, x) \subseteq Frames /\ Misused(state, Owned(h, x)) \subseteq Frames
BY FramesType DEF TypeOK, Owned, Misused

(* Every step keeps the types. *)
LEMMA TypeStep == TypeOK /\ [Next]_vars => TypeOK'
<1> SUFFICES ASSUME TypeOK, [Next]_vars PROVE TypeOK'
  OBVIOUS
<1> USE FramesType DEF TypeOK, promise, timerVars
<1>1. CASE UNCHANGED vars
  BY <1>1 DEF vars
<1>2. ASSUME NEW h \in Homes, NEW x \in Locals, Create(h, x) PROVE TypeOK'
  BY <1>2 DEF Create, States
<1>3. ASSUME NEW h \in Homes, NEW x \in Locals, Drop(h, x) PROVE TypeOK'
  BY <1>3, DestroyedType, OwnedType DEF Drop
<1>4. ASSUME NEW h \in Homes, NEW x \in Locals, Detach(h, x) PROVE TypeOK'
  <2>1. handle[h][x] \in Frames
    BY <1>4, OwnedType DEF Detach
  <2>2. Append(ready, handle[h][x]) \in Seq(Frames)
    BY <2>1
  <2> QED
    BY <1>4, <2>1, <2>2 DEF Detach, States
<1>5. ASSUME NEW h \in Homes, NEW x \in Locals, NEW y \in Locals, Move(h, x, y) PROVE TypeOK'
  <2>1. handle' \in [Homes -> [Locals -> Frames \cup {None}]]
    BY <1>5, OwnedType DEF Move
  <2> QED
    BY <1>5, <2>1, DestroyedType, OwnedType DEF Move
<1>6. ASSUME NEW f \in Frames, AwaitEvent(f) PROVE TypeOK'
  BY <1>6 DEF AwaitEvent, States
<1>7. ASSUME NEW f \in Frames, NEW d \in Delays, AwaitTimer(f, d) PROVE TypeOK'
  <2>1. [due |-> clock + d, frame |-> f] \in Timer
    BY <1>7, TasksBounds, DelaysAssumption DEF AwaitTimer, Timer
  <2>2. timers' \in Seq(Timer)
    BY <1>7, <2>1, InsertType DEF AwaitTimer
  <2> QED
    BY <1>7, <2>2, TasksBounds DEF AwaitTimer, States, Timer
<1>8. ASSUME NEW f \in Frames, Finish(f) PROVE TypeOK'
  <2> DEFINE L == UNION {Owned(f, x) : x \in Locals}
             st == Destroyed(state, L)
  <2>1. st \in [Frames -> States] /\ Misused(state, L) \subseteq Frames
    <3>1. L \subseteq Frames
      BY OwnedType DEF Homes
    <3> HIDE DEF L
    <3>2. st \in [Frames -> States]
      BY <3>1, DestroyedType
    <3> HIDE DEF st
    <3> QED
      BY <3>1, <3>2 DEF Misused
  <2>2. /\ Final(f, st) /\ broken' = broken \cup Misused(state, L)
        /\ handle' = [handle EXCEPT ![f] = [x \in Locals |-> None]]
        /\ UNCHANGED <<promise, ready, timerVars, loop, clock>>
    BY <1>8 DEF Finish
  <2> HIDE DEF L, st
  <2>3. state' \in [Frames -> States] /\ current' \in Frames \cup {None}
    BY <2>1, <2>2 DEF Final, States
  <2> QED
    BY <2>1, <2>2, <2>3
<1>9. ASSUME NEW f \in Frames, Schedule(f) PROVE TypeOK'
  BY <1>9, AppendProperties DEF Schedule, States
<1>10. ASSUME NEW f \in Frames, NEW x \in Locals, Await(f, x) PROVE TypeOK'
  BY <1>10 DEF Await, States
<1>11. CASE Run \/ EnterTimers \/ LeaveTimers \/ Return
  BY <1>11 DEF Run, EnterTimers, LeaveTimers, Return, AfterTimers
<1>12. CASE PopReady
  BY <1>12, HeadTailProperties DEF PopReady, Popped, States
<1>13. CASE FireTimer
  <2>1. Head(timers) \in Timer /\ Tail(timers) \in Seq(Timer)
    BY <1>13, HeadTailProperties DEF FireTimer, Timer
  <2> QED
    BY <1>13, <2>1, AppendProperties DEF FireTimer, Callback, States, Timer
<1>14. CASE Tick
  BY <1>14, TasksBounds DEF Tick
<1> QED
  BY <1>1, <1>2, <1>3, <1>4, <1>5, <1>6, <1>7, <1>8, <1>9, <1>10, <1>11, <1>12, <1>13, <1>14
     DEF Next, Code, Yield, Loop

(* Every variable keeps its type, for any number of frames and timers. *)
THEOREM TypeCorrect == Spec => []TypeOK
<1>1. Init => TypeOK
  BY FramesType, TasksBounds DEF Init, TypeOK, States
<1> QED
  BY <1>1, TypeStep, PTL DEF Spec

-----------------------------------------------------------------------------
(* The steps that keep the invariant. *)

Suspended == {"timed", "event", "queued"}

(* A frame that suspends, is scheduled or goes on changes no owner and no  *)
(* promise.                                                                *)
LEMMA MoveKeepsOwners ==
    ASSUME TypeOK, Owning, Promised,
           NEW f \in Frames, NEW s \in Suspended \cup {"running"},
           state[f] \in Suspended \cup {"running"},
           state' = [state EXCEPT ![f] = s],
           UNCHANGED <<cont, detached, handle>>
    PROVE  Owning' /\ Promised'
<1>1. /\ \A g \in Frames : state'[g] = IF g = f THEN s ELSE state[g]
      /\ state[f] \notin Ended /\ s \notin Ended /\ state[f] # "awaiting" /\ s # "awaiting"
      /\ state[f] \notin {"none", "freed", "created", "final"}
      /\ s \notin {"none", "freed", "created", "final"}
  BY DEF TypeOK, Ended, Suspended
<1>2. \A g \in Frames : /\ Exists(g)' <=> Exists(g)
                        /\ (state'[g] \in Ended) <=> (state[g] \in Ended)
                        /\ (state'[g] = "awaiting") <=> (state[g] = "awaiting")
                        /\ (state'[g] \in {"created", "final"}) <=> (state[g] \in {"created", "final"})
                        /\ (state'[g] \in {"none", "created"}) <=> (state[g] \in {"none", "created"})
                        /\ (state'[g] = "final") <=> (state[g] = "final")
  BY <1>1 DEF Exists
<1>3. \A h \in Homes, x \in Locals : handle[h][x] \in Frames \cup {None}
  BY DEF TypeOK
<1>4. \A g \in Frames : cont[g] \in Frames \cup {None}
  BY DEF TypeOK
<1>5. Owning'
  <2>1. \A h \in Frames : h \in Homes /\ (state'[h] \in Ended <=> state[h] \in Ended)
    BY <1>2, FramesType
  <2>2. ASSUME NEW h \in Homes, NEW x \in Locals, handle[h][x] # None
        PROVE  /\ Exists(handle[h][x])' /\ ~detached'[handle[h][x]]
               /\ h # Main => state'[h] \notin Ended
               /\ \/ state'[handle[h][x]] \in {"created", "final"}
                  \/ h # Main /\ cont'[handle[h][x]] = h
    <3>1. handle[h][x] \in Frames /\ (h # Main => h \in Frames)
      BY <1>3, <2>2, FramesType
    <3> QED
      BY <1>2, <2>1, <2>2, <3>1 DEF Owning, Exists
  <2>3. ASSUME NEW g \in Frames, Exists(g)', ~detached'[g]
        PROVE  \E h \in Homes, x \in Locals : handle'[h][x] = g
    BY <1>2, <2>3 DEF Owning
  <2> QED
    BY <2>2, <2>3 DEF Owning, Exists
<1>6. Promised'
  BY <1>2, <1>4 DEF Promised
<1> QED
  BY <1>5, <1>6

(* Code that runs owns only frames that have not begun or have ended. *)
LEMMA RunningOwns ==
    ASSUME TypeOK, TasksInv, NEW h \in Homes, NEW x \in Locals, Runs(h), handle[h][x] # None
    PROVE  handle[h][x] \in Frames /\ state[handle[h][x]] \in {"created", "final"}
<1>1. handle[h][x] \in Frames
  BY OwnedType
<1>2. Exists(handle[h][x]) /\ (state[handle[h][x]] \in {"created", "final"}
                               \/ (h # Main /\ cont[handle[h][x]] = h))
  BY DEF TasksInv, Owning, Exists
<1>3. ASSUME h # Main, cont[handle[h][x]] = h, state[handle[h][x]] \notin Ended PROVE FALSE
  <2>1. h \in Frames /\ state[h] = "running"
    BY <1>3, FramesType DEF Runs, TasksInv, Control
  <2>2. state[h] = "awaiting"
    BY <1>1, <1>3, <2>1, FramesType DEF TasksInv, Promised
  <2> QED
    BY <2>1, <2>2
<1> QED
  BY <1>1, <1>2, <1>3 DEF Exists, Ended, TypeOK, States

(* The timers are those of frames that wait for them. *)
LEMMA TimerFrames ==
    ASSUME TypeOK
    PROVE  /\ timers \in Seq(Timer) /\ Len(timers) \in Nat /\ DOMAIN timers = 1..Len(timers)
           /\ \A i \in 1..Len(timers) : timers[i] \in Timer /\ timers[i].frame \in Frames
<1>1. timers \in Seq(Timer)
  BY DEF TypeOK, Timer
<1>2. /\ Len(timers) \in Nat /\ DOMAIN timers = 1..Len(timers)
      /\ \A i \in 1..Len(timers) : timers[i] \in Timer
  BY <1>1, LenProperties, ElementOfSeq
<1> QED
  BY <1>1, <1>2 DEF Timer

(* ready_ holds handles of frames. *)
LEMMA ReadyFrames ==
    ASSUME TypeOK
    PROVE  /\ ready \in Seq(Frames) /\ Len(ready) \in Nat /\ DOMAIN ready = 1..Len(ready)
           /\ \A i \in 1..Len(ready) : ready[i] \in Frames
BY LenProperties, ElementOfSeq DEF TypeOK

(* Two task variables never own the same frame. *)
LEMMA OneOwner ==
    ASSUME Owning, NEW h \in Homes, NEW k \in Homes, NEW x \in Locals, NEW y \in Locals,
           handle[h][x] = handle[k][y], handle[h][x] # None
    PROVE  h = k /\ x = y
BY DEF Owning

(* A frame suspends and leaves its handle to a timer or to an event. *)
LEMMA SuspendStep ==
    ASSUME TypeOK, TasksInv, NEW f \in Frames,
           AwaitEvent(f) \/ \E d \in Delays : AwaitTimer(f, d)
    PROVE  TasksInv'
<1> USE DEF TasksInv
<1>1. state[f] = "running" /\ current = f /\ current' = None /\ f # None
  BY FramesType DEF Control, AwaitEvent, AwaitTimer
<1>2. UNCHANGED <<cont, detached, handle, ready, loop, broken>>
  BY DEF AwaitEvent, AwaitTimer, promise
<1>3. CASE AwaitEvent(f)
  <2>1. /\ state' = [state EXCEPT ![f] = "event"] /\ timers' = timers
        /\ \A g \in Frames : state'[g] = IF g = f THEN "event" ELSE state[g]
    BY <1>3 DEF AwaitEvent, timerVars, TypeOK
  <2>2. Owning' /\ Promised'
    BY <1>1, <1>2, <2>1, MoveKeepsOwners DEF Suspended
  <2>3. Waiting'
    BY <1>1, <1>2, <2>1 DEF Waiting, TypeOK
  <2>4. Control'
    BY <1>1, <1>2, <2>1, FramesType DEF Control
  <2> QED
    BY <1>2, <2>2, <2>3, <2>4
<1>4. ASSUME NEW d \in Delays, AwaitTimer(f, d) PROVE TasksInv'
  <2> DEFINE t == [due |-> clock + d, frame |-> f]
  <2>1. /\ state' = [state EXCEPT ![f] = "timed"]
        /\ \A g \in Frames : state'[g] = IF g = f THEN "timed" ELSE state[g]
    BY <1>4 DEF AwaitTimer, TypeOK
  <2>2. Owning' /\ Promised'
    BY <1>1, <1>2, <2>1, MoveKeepsOwners DEF Suspended
  <2>3. t \in Timer /\ t.frame = f
    BY <1>4, TasksBounds, DelaysAssumption DEF AwaitTimer, Timer, TypeOK
  <2> HIDE DEF t
  <2>4. PICK i \in 1..(Len(timers) + 1) :
              /\ timers' \in Seq(Timer) /\ Len(timers') = Len(timers) + 1
              /\ \A j \in 1..(Len(timers) + 1) :
                    timers'[j] = IF j < i THEN timers[j]
                                 ELSE IF j = i THEN t ELSE timers[j - 1]
    BY <1>4, <2>3, InsertType DEF AwaitTimer, t
  <2>5. /\ timers \in Seq(Timer) /\ Len(timers) \in Nat
        /\ DOMAIN timers = 1..Len(timers) /\ DOMAIN timers' = 1..(Len(timers) + 1)
        /\ \A j \in 1..Len(timers) : /\ timers[j].frame \in Frames
                                     /\ state[timers[j].frame] = "timed"
                                     /\ timers[j].frame # f
    <3>1. /\ timers \in Seq(Timer) /\ Len(timers) \in Nat /\ DOMAIN timers = 1..Len(timers)
          /\ \A j \in 1..Len(timers) : timers[j].frame \in Frames
      BY TimerFrames
    <3>2. \A j \in 1..Len(timers) : state[timers[j].frame] = "timed"
      BY <3>1 DEF Waiting
    <3>3. DOMAIN timers' = 1..(Len(timers) + 1)
      BY <2>4, LenProperties
    <3> QED
      BY <1>1, <3>1, <3>2, <3>3
  <2>6. \A j \in 1..(Len(timers) + 1) :
           \/ j = i /\ timers'[j].frame = f
           \/ j < i /\ j \in 1..Len(timers) /\ timers'[j].frame = timers[j].frame
           \/ j > i /\ j - 1 \in 1..Len(timers) /\ timers'[j].frame = timers[j - 1].frame
    BY <2>3, <2>4, <2>5
  <2>7. \A j \in 1..(Len(timers) + 1) : state'[timers'[j].frame] = "timed"
    BY <2>1, <2>5, <2>6
  <2>8. \A j, k \in 1..(Len(timers) + 1) : timers'[j].frame = timers'[k].frame => j = k
    <3>1. \A j, k \in 1..Len(timers) : timers[j].frame = timers[k].frame => j = k
      BY <2>5 DEF Waiting
    <3> SUFFICES ASSUME NEW j \in 1..(Len(timers) + 1), NEW k \in 1..(Len(timers) + 1),
                        timers'[j].frame = timers'[k].frame
                 PROVE  j = k
      OBVIOUS
    <3> QED
      BY <2>5, <2>6, <3>1
  <2>9. \A j \in DOMAIN ready : state'[ready[j]] = "queued"
    BY <1>1, <2>1 DEF Waiting, TypeOK
  <2>10. Waiting'
    BY <1>2, <2>5, <2>7, <2>8, <2>9 DEF Waiting
  <2>11. Control'
    BY <1>1, <1>2, <2>1, FramesType DEF Control
  <2> QED
    BY <1>2, <2>2, <2>10, <2>11
<1> QED
  BY <1>3, <1>4

(* A handle that is not in ready_ is appended to it. *)
LEMMA QueueStep ==
    ASSUME TypeOK, Waiting, NEW f \in Frames, \A i \in DOMAIN ready : ready[i] # f,
           ready' = Append(ready, f), state'[f] = "queued",
           \A g \in Frames \ {f} : state[g] = "queued" => state'[g] = "queued"
    PROVE  /\ \A i \in DOMAIN ready' : state'[ready'[i]] = "queued"
           /\ \A i, j \in DOMAIN ready' : ready'[i] = ready'[j] => i = j
<1>1. ready \in Seq(Frames) /\ Len(ready) \in Nat /\ DOMAIN ready = 1..Len(ready)
  BY DEF TypeOK
<1>2. /\ DOMAIN ready' = 1..(Len(ready) + 1)
      /\ \A i \in 1..(Len(ready) + 1) : ready'[i] = IF i <= Len(ready) THEN ready[i] ELSE f
  BY <1>1
<1>3. \A i \in 1..Len(ready) : ready[i] \in Frames \ {f} /\ state'[ready[i]] = "queued"
  BY <1>1 DEF Waiting
<1> QED
  BY <1>1, <1>2, <1>3 DEF Waiting

(* A frame whose event was raised goes to the ready queue. *)
LEMMA ScheduleStep ==
    ASSUME TypeOK, TasksInv, NEW f \in Frames, Schedule(f)
    PROVE  TasksInv'
<1> USE DEF TasksInv
<1>1. /\ state[f] = "event" /\ state' = [state EXCEPT ![f] = "queued"]
      /\ \A g \in Frames : state'[g] = IF g = f THEN "queued" ELSE state[g]
      /\ ready' = Append(ready, f)
      /\ UNCHANGED <<cont, detached, handle, current, timers, loop, broken>>
  BY DEF Schedule, promise, timerVars, TypeOK
<1>2. Owning' /\ Promised'
  BY <1>1, MoveKeepsOwners DEF Suspended
<1>3. \A i \in DOMAIN ready : ready[i] # f
  BY <1>1 DEF Waiting
<1>4. /\ \A i \in DOMAIN ready' : state'[ready'[i]] = "queued"
      /\ \A i, j \in DOMAIN ready' : ready'[i] = ready'[j] => i = j
  BY <1>1, <1>3, QueueStep
<1>5. \A i \in DOMAIN timers : timers[i].frame \in Frames /\ timers[i].frame # f
  BY <1>1, TimerFrames DEF Waiting
<1>6. Waiting'
  BY <1>1, <1>4, <1>5 DEF Waiting
<1>7. Control'
  BY <1>1 DEF Control
<1> QED
  BY <1>1, <1>2, <1>6, <1>7

(* run() takes a handle from the queue and resumes it. *)
LEMMA PopStep ==
    ASSUME TypeOK, TasksInv, PopReady
    PROVE  TasksInv'
<1> USE DEF TasksInv
<1> DEFINE f == Head(ready)
<1>1. ready # <<>> /\ ready \in Seq(Frames) /\ loop = "loop" /\ current = None
  BY DEF PopReady, TypeOK
<1>2. /\ Len(ready) \in Nat \ {0} /\ DOMAIN ready = 1..Len(ready) /\ f = ready[1] /\ f \in Frames
      /\ ready' = Tail(ready)
  BY <1>1 DEF PopReady, Popped
<1>3. /\ DOMAIN ready' = 1..(Len(ready) - 1)
      /\ \A i \in 1..(Len(ready) - 1) : ready'[i] = ready[i + 1]
  BY <1>1, <1>2
<1>4. state[f] = "queued"
  BY <1>2 DEF Waiting
<1>5. /\ state' = [state EXCEPT ![f] = "running"] /\ current' = f
      /\ \A g \in Frames : state'[g] = IF g = f THEN "running" ELSE state[g]
      /\ UNCHANGED <<cont, detached, handle, timers, loop, broken>>
  BY <1>2, <1>4 DEF PopReady, promise, timerVars, TypeOK
<1> HIDE DEF f
<1>6. Owning' /\ Promised'
  BY <1>2, <1>4, <1>5, MoveKeepsOwners DEF Suspended
<1>7. \A i \in 1..(Len(ready) - 1) : ready[i + 1] # f /\ ready[i + 1] \in Frames
  BY <1>1, <1>2 DEF Waiting
<1>8. \A i \in DOMAIN timers : timers[i].frame \in Frames /\ timers[i].frame # f
  BY <1>4, TimerFrames DEF Waiting
<1>9. Waiting'
  BY <1>2, <1>3, <1>5, <1>7, <1>8 DEF Waiting
<1>10. Control'
  BY <1>1, <1>2, <1>5, FramesType DEF Control
<1> QED
  BY <1>5, <1>6, <1>9, <1>10

(* The callback of a timer schedules its frame. *)
LEMMA FireStep ==
    ASSUME TypeOK, TasksInv, FireTimer
    PROVE  TasksInv'
<1> USE DEF TasksInv
<1> DEFINE f == Head(timers).frame
<1>1. timers # <<>> /\ timers \in Seq(Timer)
  BY DEF FireTimer, TypeOK, Timer
<1>2. /\ Len(timers) \in Nat \ {0} /\ DOMAIN timers = 1..Len(timers)
      /\ f = timers[1].frame /\ f \in Frames /\ timers' = Tail(timers)
      /\ \A i \in 1..Len(timers) : timers[i].frame \in Frames
  BY <1>1, TimerFrames DEF FireTimer
<1>3. /\ DOMAIN timers' = 1..(Len(timers) - 1)
      /\ \A i \in 1..(Len(timers) - 1) : timers'[i] = timers[i + 1]
  BY <1>1, <1>2
<1>4. state[f] = "timed"
  BY <1>2 DEF Waiting
<1>5. /\ state' = [state EXCEPT ![f] = "queued"] /\ ready' = Append(ready, f)
      /\ \A g \in Frames : state'[g] = IF g = f THEN "queued" ELSE state[g]
      /\ UNCHANGED <<cont, detached, handle, current, loop, broken>>
  BY <1>2 DEF FireTimer, Callback, promise, TypeOK
<1> HIDE DEF f
<1>6. Owning' /\ Promised'
  BY <1>2, <1>4, <1>5, MoveKeepsOwners DEF Suspended
<1>7. \A i \in 1..(Len(timers) - 1) : timers[i + 1].frame # f
  BY <1>1, <1>2 DEF Waiting
<1>8. \A i \in DOMAIN ready : ready[i] # f
  BY <1>4 DEF Waiting
<1>9. /\ \A i \in DOMAIN ready' : state'[ready'[i]] = "queued"
      /\ \A i, j \in DOMAIN ready' : ready'[i] = ready'[j] => i = j
  BY <1>2, <1>5, <1>8, QueueStep
<1>10. Waiting'
  BY <1>2, <1>3, <1>5, <1>7, <1>9 DEF Waiting
<1>11. Control'
  BY <1>4, <1>5 DEF Control
<1> QED
  BY <1>5, <1>6, <1>10, <1>11

(* A coroutine function is called. *)
LEMMA CreateStep ==
    ASSUME TypeOK, TasksInv, NEW h \in Homes, NEW x \in Locals, Create(h, x)
    PROVE  TasksInv'
<1> USE DEF TasksInv
<1>1. PICK f \in Frames : /\ state[f] = "none" /\ state' = [state EXCEPT ![f] = "created"]
                          /\ handle' = [handle EXCEPT ![h][x] = f]
  BY DEF Create
<1>2. /\ \A g \in Frames : state'[g] = IF g = f THEN "created" ELSE state[g]
      /\ \A k \in Homes, y \in Locals :
            /\ handle[k][y] \in Frames \cup {None}
            /\ handle'[k][y] = IF k = h /\ y = x THEN f ELSE handle[k][y]
      /\ handle[h][x] = None
      /\ UNCHANGED <<cont, detached, current, ready, timers, loop, broken>>
  BY <1>1, OwnedType DEF Create, promise, timerVars, TypeOK
<1>3. Waiting'
  BY <1>1, <1>2, TimerFrames DEF Waiting, TypeOK
<1>4. Control'
  BY <1>1, <1>2 DEF Control
<1>5. h # Main => h \in Frames /\ state[h] = "running" /\ h # f
  BY <1>1, FramesType DEF Create, Runs, Control
<1>6. Promised'
  BY <1>1, <1>2, FramesType DEF Promised, Ended, TypeOK
<1>7. Owning'
  <2>1. /\ f # None /\ \A k \in Homes : k # Main => k \in Frames
    BY FramesType
  <2>2. \A k \in Homes, y \in Locals : handle[k][y] # f
    BY <1>1, <2>1 DEF Owning, Exists
  <2>3. ASSUME NEW k \in Homes, NEW y \in Locals, handle'[k][y] # None
        PROVE  /\ state'[handle'[k][y]] \notin {"none", "freed"} /\ ~detached'[handle'[k][y]]
               /\ k # Main => state'[k] \notin Ended
               /\ \/ state'[handle'[k][y]] \in {"created", "final"}
                  \/ k # Main /\ cont'[handle'[k][y]] = k
    <3>1. CASE k = h /\ y = x
      BY <1>1, <1>2, <1>5, <3>1 DEF Exists, Promised, Ended
    <3>2. CASE ~(k = h /\ y = x)
      <4>1. handle'[k][y] = handle[k][y] /\ handle[k][y] \in Frames /\ handle[k][y] # f
        BY <1>2, <2>2, <2>3, <3>2
      <4>2. k # Main => k # f
        BY <1>1, <2>1, <4>1, <2>3 DEF Owning, Ended
      <4> QED
        BY <1>2, <2>1, <2>3, <4>1, <4>2 DEF Owning, Exists
    <3> QED
      BY <3>1, <3>2
  <2>4. ASSUME NEW k \in Homes, NEW l \in Homes, NEW y \in Locals, NEW z \in Locals,
               handle'[k][y] = handle'[l][z], handle'[k][y] # None
        PROVE  k = l /\ y = z
    BY <1>2, <2>2, <2>4 DEF Owning
  <2>5. ASSUME NEW g \in Frames, Exists(g)', ~detached'[g]
        PROVE  \E k \in Homes, y \in Locals : handle'[k][y] = g
    <3>1. CASE g = f
      BY <1>2, <3>1
    <3>2. CASE g # f
      <4>1. PICK k \in Homes, y \in Locals : handle[k][y] = g
        BY <1>2, <2>5, <3>2 DEF Owning, Exists
      <4> QED
        BY <1>2, <4>1, FramesType
    <3> QED
      BY <3>1, <3>2
  <2> QED
    BY <2>3, <2>4, <2>5 DEF Owning, Exists
<1> QED
  BY <1>2, <1>3, <1>4, <1>6, <1>7

(* Frames that have not begun or have ended are destroyed: nobody waits    *)
(* for them.                                                               *)
LEMMA DestroyKeeps ==
    ASSUME TypeOK, TasksInv, NEW F \in SUBSET Frames,
           \A f \in F : state[f] \in {"created", "final"},
           state' = Destroyed(state, F),
           UNCHANGED <<cont, detached, current, ready, timers, loop>>
    PROVE  /\ Waiting' /\ Control' /\ Promised'
           /\ Misused(state, F) = {}
           /\ \A g \in Frames : /\ state'[g] = IF g \in F THEN "freed" ELSE state[g]
                                /\ state'[g] \in Ended <=> state[g] \in Ended
<1> USE DEF TasksInv
<1>1. \A g \in Frames : state'[g] = IF g \in F THEN "freed" ELSE state[g]
  BY DEF Destroyed
<1>2. \A g \in Frames : state'[g] \in Ended <=> state[g] \in Ended
  BY <1>1 DEF Ended
<1>3. Misused(state, F) = {}
  BY DEF Misused
<1>4. Waiting'
  <2>1. \A i \in DOMAIN ready : ready[i] \in Frames /\ ready[i] \notin F
    BY ReadyFrames DEF Waiting
  <2>2. \A i \in DOMAIN timers : timers[i].frame \in Frames /\ timers[i].frame \notin F
    BY TimerFrames DEF Waiting
  <2> QED
    BY <1>1, <2>1, <2>2 DEF Waiting
<1>5. Control'
  BY <1>1 DEF Control
<1>6. Promised'
  <2>1. \A g \in Frames : cont[g] \in Frames \cup {None}
    BY DEF TypeOK
  <2>2. \A g \in Frames : /\ state'[g] = "awaiting" <=> state[g] = "awaiting"
                          /\ state'[g] \in {"none", "created"} => state[g] \in {"none", "created"}
                          /\ state'[g] = "final" => state[g] = "final"
    BY <1>1
  <2> QED
    BY <1>2, <2>1, <2>2, FramesType DEF Promised
<1> QED
  BY <1>1, <1>2, <1>3, <1>4, <1>5, <1>6

(* A task variable is destroyed, or assigned from another. *)
LEMMA DropStep ==
    ASSUME TypeOK, TasksInv, NEW h \in Homes, NEW x \in Locals,
           Drop(h, x) \/ \E y \in Locals : Move(h, x, y)
    PROVE  TasksInv'
<1> USE DEF TasksInv
<1> DEFINE F == Owned(h, x)
<1>1. /\ Runs(h) /\ state' = Destroyed(state, F) /\ broken' = broken \cup Misused(state, F)
      /\ UNCHANGED <<cont, detached, current, ready, timers, loop>>
  BY DEF Drop, Move, promise, timerVars
<1>2. F \in SUBSET Frames /\ \A f \in F : state[f] \in {"created", "final"} /\ f = handle[h][x]
  BY <1>1, RunningOwns, FramesType DEF Owned
<1>3. \A k \in Homes, y \in Locals : handle[k][y] \in Frames \cup {None}
  BY OwnedType
(* Every variable that still refers to a frame did so, or another variable *)
(* of the same home did; and only the frames in F lose their owner.        *)
<1>4. PICK from \in [Locals -> Locals] :
         /\ \A k \in Homes, y \in Locals : handle'[k][y] # None =>
               /\ k # h => handle'[k][y] = handle[k][y]
               /\ k = h => handle'[k][y] = handle[k][from[y]] /\ from[y] # x
         /\ \A y, z \in Locals : handle'[h][y] # None /\ handle'[h][z] # None /\ from[y] = from[z]
                                  => y = z
         /\ \A k \in Homes, y \in Locals : handle[k][y] \in Frames \ F
                                            => \E z \in Locals : handle'[k][z] = handle[k][y]
  <2>1. CASE Drop(h, x)
    <3>1. \A k \in Homes, y \in Locals :
             handle'[k][y] = IF k = h /\ y = x THEN None ELSE handle[k][y]
      BY <2>1, OwnedType DEF Drop, TypeOK
    <3>2. \A y \in Locals : handle[h][y] \in Frames \ F => y # x
      BY FramesType DEF Owned
    <3> WITNESS [y \in Locals |-> y] \in [Locals -> Locals]
    <3> QED
      BY <3>1, <3>2
  <2>2. ASSUME NEW v \in Locals, Move(h, x, v)
        PROVE  \E from \in [Locals -> Locals] :
         /\ \A k \in Homes, y \in Locals : handle'[k][y] # None =>
               /\ k # h => handle'[k][y] = handle[k][y]
               /\ k = h => handle'[k][y] = handle[k][from[y]] /\ from[y] # x
         /\ \A y, z \in Locals : handle'[h][y] # None /\ handle'[h][z] # None /\ from[y] = from[z]
                                  => y = z
         /\ \A k \in Homes, y \in Locals : handle[k][y] \in Frames \ F
                                            => \E z \in Locals : handle'[k][z] = handle[k][y]
    <3>1. \A k \in Homes, y \in Locals :
             handle'[k][y] = IF k = h THEN (IF y = x THEN handle[h][v] ELSE None)
                             ELSE handle[k][y]
      BY <2>2, OwnedType DEF Move, TypeOK
    <3>2. x # v /\ \A y \in Locals : y = x \/ y = v
      BY <2>2 DEF Move, Locals
    <3>3. \A y \in Locals : handle[h][y] \in Frames \ F => y # x
      BY FramesType DEF Owned
    <3> WITNESS [y \in Locals |-> v] \in [Locals -> Locals]
    <3> QED
      BY <3>1, <3>2, <3>3
  <2> QED
    BY <2>1, <2>2
<1> HIDE DEF F
<1>5. /\ Waiting' /\ Control' /\ Promised' /\ Misused(state, F) = {}
      /\ \A g \in Frames : /\ state'[g] = IF g \in F THEN "freed" ELSE state[g]
                           /\ state'[g] \in Ended <=> state[g] \in Ended
  BY <1>1, <1>2, DestroyKeeps
<1>6. \A k \in Homes, y \in Locals : handle[k][y] \in F => k = h /\ y = x
  <2> SUFFICES ASSUME NEW k \in Homes, NEW y \in Locals, handle[k][y] \in F
               PROVE  k = h /\ y = x
    OBVIOUS
  <2>1. handle[k][y] = handle[h][x] /\ handle[k][y] # None
    BY <1>2, FramesType
  <2> QED
    BY <2>1, OneOwner
<1>7. ASSUME NEW k \in Homes, NEW y \in Locals, handle'[k][y] # None
      PROVE  \E z \in Locals : /\ handle'[k][y] = handle[k][z] /\ handle[k][z] \in Frames \ F
                               /\ k # h => z = y
                               /\ k = h => z = from[y]
  BY <1>3, <1>4, <1>6, <1>7, FramesType
<1>8. Owning'
  <2>1. ASSUME NEW k \in Homes, NEW y \in Locals, handle'[k][y] # None
        PROVE  /\ state'[handle'[k][y]] \notin {"none", "freed"} /\ ~detached'[handle'[k][y]]
               /\ k # Main => state'[k] \notin Ended
               /\ \/ state'[handle'[k][y]] \in {"created", "final"}
                  \/ k # Main /\ cont'[handle'[k][y]] = k
    <3>1. PICK z \in Locals : handle'[k][y] = handle[k][z] /\ handle[k][z] \in Frames \ F
      BY <1>7, <2>1
    <3>2. k # Main => k \in Frames
      BY FramesType
    <3>3. handle[k][z] # None
      BY <3>1, FramesType
    <3> QED
      BY <1>1, <1>5, <3>1, <3>2, <3>3 DEF Owning, Exists
  <2>2. ASSUME NEW k \in Homes, NEW l \in Homes, NEW y \in Locals, NEW z \in Locals,
               handle'[k][y] = handle'[l][z], handle'[k][y] # None
        PROVE  k = l /\ y = z
    <3>1. PICK u \in Locals : /\ handle'[k][y] = handle[k][u] /\ handle[k][u] \in Frames \ F
                              /\ k # h => u = y
                              /\ k = h => u = from[y]
      BY <1>7, <2>2
    <3>2. PICK v \in Locals : /\ handle'[l][z] = handle[l][v] /\ handle[l][v] \in Frames \ F
                              /\ l # h => v = z
                              /\ l = h => v = from[z]
      BY <1>7, <2>2
    <3>3. k = l /\ u = v
      <4>1. handle[k][u] = handle[l][v] /\ handle[k][u] # None /\ Owning
        BY <2>2, <3>1, <3>2
      <4> QED
        BY <4>1, OneOwner
    <3> QED
      BY <1>4, <2>2, <3>1, <3>2, <3>3
  <2>3. ASSUME NEW g \in Frames, Exists(g)', ~detached'[g]
        PROVE  \E k \in Homes, y \in Locals : handle'[k][y] = g
    <3>1. g \notin F /\ Exists(g) /\ ~detached[g]
      BY <1>1, <1>5, <2>3 DEF Exists
    <3>2. PICK k \in Homes, y \in Locals : handle[k][y] = g
      BY <3>1 DEF Owning
    <3> QED
      BY <1>4, <3>1, <3>2
  <2> QED
    BY <2>1, <2>2, <2>3 DEF Owning, Exists
<1> QED
  BY <1>1, <1>5, <1>8

(* A task is detached: its frame owns itself. *)
LEMMA DetachStep ==
    ASSUME TypeOK, TasksInv, NEW h \in Homes, NEW x \in Locals, Detach(h, x)
    PROVE  TasksInv'
<1> USE DEF TasksInv
<1> DEFINE f == handle[h][x]
<1>1. f \in Frames /\ f # None /\ state[f] = "created" /\ cont[f] = None
  BY OwnedType, FramesType DEF Detach, Promised
<1>2. /\ \A g \in Frames : state'[g] = IF g = f THEN "queued" ELSE state[g]
      /\ \A g \in Frames : detached'[g] = IF g = f THEN TRUE ELSE detached[g]
      /\ \A k \in Homes, y \in Locals :
            /\ handle[k][y] \in Frames \cup {None}
            /\ handle'[k][y] = IF k = h /\ y = x THEN None ELSE handle[k][y]
      /\ ready' = Append(ready, f)
      /\ UNCHANGED <<cont, current, timers, loop, broken>>
  BY <1>1, OwnedType DEF Detach, timerVars, TypeOK
<1>3. \A k \in Homes, y \in Locals : handle[k][y] = f => k = h /\ y = x
  BY <1>1, OneOwner
<1> HIDE DEF f
<1>4. Waiting'
  <2>1. \A i \in DOMAIN ready : ready[i] # f
    BY <1>1 DEF Waiting
  <2>2. /\ \A i \in DOMAIN ready' : state'[ready'[i]] = "queued"
        /\ \A i, j \in DOMAIN ready' : ready'[i] = ready'[j] => i = j
    BY <1>1, <1>2, <2>1, QueueStep
  <2>3. \A i \in DOMAIN timers : timers[i].frame \in Frames /\ timers[i].frame # f
    BY <1>1, TimerFrames DEF Waiting
  <2> QED
    BY <1>2, <2>2, <2>3 DEF Waiting
<1>5. Control'
  BY <1>1, <1>2 DEF Control
<1>6. \A g \in Frames : cont[g] \in Frames \cup {None}
  BY DEF TypeOK
<1>7. Promised'
  <2>1. \A g \in Frames : /\ g # f => (state'[g] = state[g] /\ detached'[g] = detached[g])
                          /\ state'[f] = "queued" /\ cont[f] = None /\ state[f] = "created"
    BY <1>1, <1>2
  <2>2. /\ \A g \in Frames : state'[g] \in {"none", "created"} => cont[g] = None /\ ~detached'[g]
        /\ \A g \in Frames : detached'[g] => cont[g] = None /\ state'[g] # "final"
    BY <1>1, <2>1 DEF Promised
  <2>3. \A g \in Frames : cont[g] # None /\ state'[g] \notin Ended => state'[cont[g]] = "awaiting"
    BY <1>6, <2>1 DEF Promised
  <2>4. \A g, e \in Frames : /\ cont[g] = cont[e] /\ cont[g] # None
                             /\ state'[g] \notin Ended /\ state'[e] \notin Ended
                             => g = e
    BY <2>1 DEF Promised
  <2>5. ASSUME NEW g \in Frames, state'[g] = "awaiting"
        PROVE  \E e \in Frames : cont[e] = g /\ state'[e] \notin Ended
    <3>1. PICK e \in Frames : cont[e] = g /\ state[e] \notin Ended
      BY <1>1, <2>1, <2>5 DEF Promised
    <3> QED
      BY <1>1, <2>1, <3>1 DEF Ended
  <2> QED
    BY <1>2, <2>2, <2>3, <2>4, <2>5 DEF Promised
<1>8. Owning'
  <2>1. ASSUME NEW k \in Homes, NEW y \in Locals, handle'[k][y] # None
        PROVE  /\ state'[handle'[k][y]] \notin {"none", "freed"} /\ ~detached'[handle'[k][y]]
               /\ k # Main => state'[k] \notin Ended
               /\ \/ state'[handle'[k][y]] \in {"created", "final"}
                  \/ k # Main /\ cont'[handle'[k][y]] = k
    <3>1. handle'[k][y] = handle[k][y] /\ handle[k][y] \in Frames /\ handle[k][y] # f
      BY <1>2, <1>3, <2>1
    <3>2. k # Main => k \in Frames
      BY FramesType
    <3> QED
      <4>1. k # Main => state[k] \notin Ended /\ state'[k] \notin Ended
        BY <1>2, <2>1, <3>1, <3>2 DEF Owning, Ended
      <4>2. /\ state'[handle[k][y]] = state[handle[k][y]]
            /\ detached'[handle[k][y]] = detached[handle[k][y]]
        BY <1>2, <3>1
      <4> QED
        BY <1>2, <2>1, <3>1, <4>1, <4>2 DEF Owning, Exists
  <2>2. ASSUME NEW k \in Homes, NEW l \in Homes, NEW y \in Locals, NEW z \in Locals,
               handle'[k][y] = handle'[l][z], handle'[k][y] # None
        PROVE  k = l /\ y = z
    <3>1. handle[k][y] = handle[l][z] /\ handle[k][y] # None /\ Owning
      BY <1>2, <2>2
    <3> QED
      BY <3>1, OneOwner
  <2>3. ASSUME NEW g \in Frames, Exists(g)', ~detached'[g]
        PROVE  \E k \in Homes, y \in Locals : handle'[k][y] = g
    <3>1. g # f /\ Exists(g) /\ ~detached[g]
      BY <1>2, <2>3 DEF Exists
    <3>2. PICK k \in Homes, y \in Locals : handle[k][y] = g
      BY <3>1 DEF Owning
    <3>3. handle'[k][y] = g
      BY <1>2, <3>1, <3>2 DEF f
    <3> QED
      BY <3>3
  <2> QED
    BY <2>1, <2>2, <2>3 DEF Owning, Exists
<1> QED
  BY <1>2, <1>4, <1>5, <1>7, <1>8

(* A task is awaited: control passes to its frame. *)
LEMMA AwaitStep ==
    ASSUME TypeOK, TasksInv, NEW f \in Frames, NEW x \in Locals, Await(f, x)
    PROVE  TasksInv'
<1> USE DEF TasksInv
<1> DEFINE g == handle[f][x]
<1>1. f \in Homes /\ state[f] = "running" /\ current = f /\ f # None
  BY FramesType DEF Await, Control
<1>2. g \in Frames /\ g # None /\ g # f /\ state[g] = "created" /\ cont[g] = None /\ ~detached[g]
  BY <1>1, OwnedType, FramesType, ZenonT(60) DEF Await, Promised
<1>3. /\ \A e \in Frames : state'[e] = IF e = g THEN "running" ELSE IF e = f THEN "awaiting" ELSE state[e]
      /\ \A e \in Frames : cont'[e] = IF e = g THEN f ELSE cont[e]
      /\ current' = g
      /\ UNCHANGED <<detached, handle, ready, timers, loop, broken>>
  BY <1>2 DEF Await, timerVars, TypeOK
<1>4. \A k \in Homes, y \in Locals : handle[k][y] = g => k = f /\ y = x
  BY <1>1, <1>2, OneOwner
<1>5. handle[f][x] = g
  OBVIOUS
<1> HIDE DEF g
<1>6. Waiting'
  <2>1. \A i \in DOMAIN ready : ready[i] \in Frames /\ ready[i] # f /\ ready[i] # g
    BY <1>1, <1>2, ReadyFrames DEF Waiting
  <2>2. \A i \in DOMAIN timers : /\ timers[i].frame \in Frames
                                 /\ timers[i].frame # f /\ timers[i].frame # g
    BY <1>1, <1>2, TimerFrames DEF Waiting
  <2> QED
    BY <1>3, <2>1, <2>2 DEF Waiting
<1>7. Control'
  BY <1>1, <1>2, <1>3 DEF Control
<1>8. \A e \in Frames : cont[e] \in Frames \cup {None}
  BY DEF TypeOK
<1>9. \A e \in Frames : cont[e] = f => state[e] \in Ended
  BY <1>1 DEF Promised
<1>10. Promised'
  <2>1. /\ \A e \in Frames : state'[e] \in {"none", "created"} => cont'[e] = None /\ ~detached[e]
        /\ \A e \in Frames : detached[e] => cont'[e] = None /\ state'[e] # "final"
    BY <1>1, <1>2, <1>3 DEF Promised
  <2>2. \A e \in Frames : cont'[e] # None /\ state'[e] \notin Ended => state'[cont'[e]] = "awaiting"
    <3> SUFFICES ASSUME NEW e \in Frames, cont'[e] # None, state'[e] \notin Ended
                 PROVE  state'[cont'[e]] = "awaiting"
      OBVIOUS
    <3>1. CASE e = g
      BY <1>1, <1>2, <1>3, <3>1
    <3>2. CASE e # g
      <4>1. cont'[e] = cont[e] /\ cont[e] \in Frames /\ state[e] \notin Ended
        BY <1>1, <1>3, <1>8, <3>2 DEF Ended
      <4>2. state[cont[e]] = "awaiting" /\ cont[e] # g /\ cont[e] # f
        BY <1>1, <1>2, <4>1 DEF Promised
      <4> QED
        BY <1>3, <4>1, <4>2
    <3> QED
      BY <3>1, <3>2
  <2>3. ASSUME NEW d \in Frames, NEW e \in Frames, cont'[d] = cont'[e], cont'[d] # None,
               state'[d] \notin Ended, state'[e] \notin Ended
        PROVE  d = e
    <3>1. \A c \in Frames : c # g /\ state'[c] \notin Ended => cont'[c] = cont[c] /\ state[c] \notin Ended /\ cont[c] # f
      BY <1>1, <1>3, <1>9 DEF Ended
    <3>2. cont'[g] = f
      BY <1>2, <1>3
    <3> QED
      BY <2>3, <3>1, <3>2 DEF Promised
  <2>4. ASSUME NEW d \in Frames, state'[d] = "awaiting"
        PROVE  \E e \in Frames : cont'[e] = d /\ state'[e] \notin Ended
    <3>1. CASE d = f
      BY <1>2, <1>3, <3>1 DEF Ended
    <3>2. CASE d # f
      <4>1. state[d] = "awaiting"
        BY <1>3, <2>4, <3>2
      <4>2. PICK e \in Frames : cont[e] = d /\ state[e] \notin Ended
        BY <4>1 DEF Promised
      <4>3. e # g
        BY <1>2, <4>2 DEF Ended
      <4> QED
        BY <1>3, <4>2, <4>3 DEF Ended
    <3> QED
      BY <3>1, <3>2
  <2> QED
    BY <1>3, <2>1, <2>2, <2>3, <2>4 DEF Promised
<1>11. Owning'
  <2>1. ASSUME NEW k \in Homes, NEW y \in Locals, handle[k][y] # None
        PROVE  /\ state'[handle[k][y]] \notin {"none", "freed"} /\ ~detached[handle[k][y]]
               /\ k # Main => state'[k] \notin Ended
               /\ \/ state'[handle[k][y]] \in {"created", "final"}
                  \/ k # Main /\ cont'[handle[k][y]] = k
    <3>1. handle[k][y] \in Frames /\ (k # Main => k \in Frames) /\ f # Main
      BY <2>1, OwnedType, FramesType
    <3>2. k # Main => state'[k] \notin Ended
      BY <1>1, <1>2, <1>3, <2>1, <3>1 DEF Owning, Ended
    <3>3. CASE handle[k][y] = g
      BY <1>2, <1>3, <1>4, <3>1, <3>2, <3>3
    <3>4. CASE handle[k][y] # g
      BY <1>1, <1>3, <2>1, <3>1, <3>2, <3>4 DEF Owning, Exists
    <3> QED
      BY <3>3, <3>4
  <2>2. ASSUME NEW e \in Frames, state'[e] \notin {"none", "freed"}, ~detached[e]
        PROVE  \E k \in Homes, y \in Locals : handle[k][y] = e
    <3>1. Exists(e)
      BY <1>1, <1>2, <1>3, <2>2 DEF Exists
    <3> QED
      BY <2>2, <3>1 DEF Owning
  <2>3. \A h, k \in Homes : \A y, z \in Locals :
          handle[h][y] = handle[k][z] /\ handle[h][y] # None => h = k /\ y = z
    BY DEF Owning
  <2> QED
    BY <1>3, <2>1, <2>2, <2>3 DEF Owning, Exists
<1> QED
  BY <1>3, <1>6, <1>7, <1>10, <1>11

(* The body of a frame ends: its locals are destroyed and the frame that   *)
(* awaits it, if any, goes on.                                             *)
LEMMA FinishStep ==
    ASSUME TypeOK, TasksInv, NEW f \in Frames, Finish(f)
    PROVE  TasksInv'
<1> USE DEF TasksInv
<1> DEFINE L == UNION {Owned(f, x) : x \in Locals}
           c == cont[f]
<1>1. f \in Homes /\ state[f] = "running" /\ current = f /\ f # None
  BY FramesType DEF Finish, Control
<1>2. /\ L \subseteq Frames /\ \A g \in L : state[g] \in {"created", "final"}
      /\ \A x \in Locals : handle[f][x] \in L \cup {None}
      /\ \A g \in L : \E x \in Locals : handle[f][x] = g
  BY <1>1, RunningOwns, OwnedType DEF Owned, Runs
<1>3. c \in Frames \cup {None} /\ (c # None => c \in Frames /\ state[c] = "awaiting" /\ c # f)
  BY <1>1, FramesType DEF TypeOK, Promised, Ended
<1>4. /\ Final(f, Destroyed(state, L)) /\ broken' = broken \cup Misused(state, L)
      /\ \A k \in Homes, y \in Locals :
            handle'[k][y] = IF k = f THEN None ELSE handle[k][y]
      /\ UNCHANGED <<cont, detached, ready, timers, loop>>
  BY <1>1, OwnedType DEF Finish, promise, timerVars, TypeOK
<1> HIDE DEF L
<1>5. f \notin L /\ c \notin L /\ Misused(state, L) = {}
  BY <1>1, <1>2, <1>3, FramesType DEF Misused
<1>6. /\ current' = c
      /\ \A g \in Frames :
            state'[g] = IF g \in L THEN "freed"
                        ELSE IF g = f THEN (IF c = None /\ detached[f] THEN "freed" ELSE "final")
                        ELSE IF g = c THEN "running" ELSE state[g]
  BY <1>1, <1>3, <1>4, <1>5, FramesType DEF Final, Destroyed
<1> HIDE DEF c
<1>7. c = cont[f] /\ cont[f] \in Frames \cup {None}
  BY DEF c, TypeOK
<1>8. \A g \in Frames : /\ cont[g] \in Frames \cup {None}
                        /\ state'[g] \notin Ended => g # f /\ g \notin L /\ state[g] \notin Ended
                        /\ state[g] \notin Ended /\ g # f => state'[g] \notin Ended
                        /\ state'[g] = "awaiting" => state[g] = "awaiting" /\ g # c /\ g # f
  <2> SUFFICES ASSUME NEW g \in Frames
               PROVE  /\ state'[g] \notin Ended => g # f /\ g \notin L /\ state[g] \notin Ended
                      /\ state[g] \notin Ended /\ g # f => state'[g] \notin Ended
                      /\ state'[g] = "awaiting" => state[g] = "awaiting" /\ g # c /\ g # f
    BY DEF TypeOK
  <2>1. CASE g \in L
    BY <1>2, <1>6, <2>1 DEF Ended
  <2>2. CASE g = f
    BY <1>5, <1>6, <2>2 DEF Ended
  <2>3. CASE g = c /\ g # f
    BY <1>3, <1>5, <1>6, <2>3, FramesType DEF Ended
  <2>4. CASE g \notin L /\ g # f /\ g # c
    BY <1>6, <2>4
  <2> QED
    BY <2>1, <2>2, <2>3, <2>4
<1>9. Waiting'
  <2>1. \A i \in DOMAIN ready : ready[i] \in Frames \ L /\ ready[i] # f /\ ready[i] # c
    BY <1>1, <1>2, <1>3, ReadyFrames, FramesType, SMTT(30) DEF Waiting
  <2>2. \A i \in DOMAIN timers : /\ timers[i].frame \in Frames \ L
                                 /\ timers[i].frame # f /\ timers[i].frame # c
    <3> SUFFICES ASSUME NEW i \in DOMAIN timers
                 PROVE  /\ timers[i].frame \in Frames \ L
                        /\ timers[i].frame # f /\ timers[i].frame # c
      OBVIOUS
    <3>1. timers[i].frame \in Frames /\ state[timers[i].frame] = "timed"
      BY TimerFrames DEF Waiting
    <3> QED
      BY <1>1, <1>2, <1>3, <3>1, FramesType
  <2> QED
    BY <1>4, <1>6, <2>1, <2>2 DEF Waiting
<1>10. Control'
  BY <1>1, <1>2, <1>3, <1>4, <1>5, <1>6, FramesType DEF Control
<1>11. Promised'
  <2>1. \A g \in Frames : /\ state'[g] \in {"none", "created"} => cont[g] = None /\ ~detached[g]
                          /\ detached[g] => cont[g] = None /\ state'[g] # "final"
    BY <1>3, <1>6, <1>7 DEF Promised
  <2>2. ASSUME NEW g \in Frames, cont[g] # None, state'[g] \notin Ended
        PROVE  state'[cont[g]] = "awaiting"
    <3>1. g # f /\ state[g] \notin Ended /\ cont[g] \in Frames
      BY <1>8, <2>2
    <3>2. state[cont[g]] = "awaiting"
      BY <2>2, <3>1 DEF Promised
    <3>3. cont[g] # c
      BY <1>1, <1>7, <2>2, <3>1 DEF Promised, Ended
    <3>4. cont[g] # f /\ cont[g] \notin L
      BY <1>1, <1>2, <3>2
    <3> QED
      BY <1>6, <3>1, <3>2, <3>3, <3>4
  <2>3. ASSUME NEW g \in Frames, NEW e \in Frames, cont[g] = cont[e], cont[g] # None,
               state'[g] \notin Ended, state'[e] \notin Ended
        PROVE  g = e
    BY <1>8, <2>3 DEF Promised
  <2>4. ASSUME NEW g \in Frames, state'[g] = "awaiting"
        PROVE  \E e \in Frames : cont[e] = g /\ state'[e] \notin Ended
    <3>1. state[g] = "awaiting" /\ g # c
      BY <1>8, <2>4
    <3>2. PICK e \in Frames : cont[e] = g /\ state[e] \notin Ended
      BY <3>1 DEF Promised
    <3>3. e # f
      BY <1>7, <3>1, <3>2
    <3> QED
      BY <1>8, <3>2, <3>3
  <2> QED
    BY <1>4, <2>1, <2>2, <2>3, <2>4 DEF Promised
<1>12. Owning'
  <2>1. ASSUME NEW k \in Homes, NEW y \in Locals, handle'[k][y] # None
        PROVE  /\ state'[handle'[k][y]] \notin {"none", "freed"} /\ ~detached[handle'[k][y]]
               /\ k # Main => state'[k] \notin Ended
               /\ \/ state'[handle'[k][y]] \in {"created", "final"}
                  \/ k # Main /\ cont[handle'[k][y]] = k
    <3> DEFINE g == handle[k][y]
    <3>1. k # f /\ handle'[k][y] = g /\ g \in Frames /\ g # None
      BY <1>4, <2>1, OwnedType
    <3>2. /\ state[g] \notin {"none", "freed"} /\ ~detached[g]
          /\ k # Main => state[k] \notin Ended
          /\ \/ state[g] \in {"created", "final"}
             \/ k # Main /\ cont[g] = k
      BY <3>1 DEF Owning, Exists
    <3>3. ASSUME g \in L PROVE FALSE
      <4>1. PICK x \in Locals : handle[f][x] = g
        BY <1>2, <3>3
      <4> QED
        BY <1>1, <3>1, <4>1, OneOwner
    <3> HIDE DEF g
    <3>4. k # Main => state'[k] \notin Ended
      BY <1>8, <3>1, <3>2, FramesType
    <3>5. CASE g = f
      BY <1>5, <1>6, <3>1, <3>2, <3>4, <3>5
    <3>6. CASE g # f
      <4>1. g = c => state[g] = "awaiting"
        BY <1>3, <3>1
      <4>2. state'[g] = IF g = c THEN "running" ELSE state[g]
        BY <1>6, <3>1, <3>3, <3>6
      <4> QED
        BY <3>1, <3>2, <3>4, <4>1, <4>2
    <3> QED
      BY <3>5, <3>6
  <2>2. ASSUME NEW k \in Homes, NEW l \in Homes, NEW y \in Locals, NEW z \in Locals,
               handle'[k][y] = handle'[l][z], handle'[k][y] # None
        PROVE  k = l /\ y = z
    <3>1. handle[k][y] = handle[l][z] /\ handle[k][y] # None /\ Owning
      BY <1>4, <2>2
    <3> QED
      BY <3>1, OneOwner
  <2>3. ASSUME NEW g \in Frames, state'[g] \notin {"none", "freed"}, ~detached[g]
        PROVE  \E k \in Homes, y \in Locals : handle'[k][y] = g
    <3>1. g \notin L /\ Exists(g)
      BY <1>1, <1>3, <1>6, <2>3, FramesType DEF Exists
    <3>2. PICK k \in Homes, y \in Locals : handle[k][y] = g
      BY <2>3, <3>1 DEF Owning
    <3>3. k # f
      BY <1>2, <3>1, <3>2, FramesType
    <3> QED
      BY <1>4, <3>2, <3>3
  <2> QED
    BY <1>4, <2>1, <2>2, <2>3 DEF Owning, Exists
<1> QED
  BY <1>4, <1>5, <1>9, <1>10, <1>11, <1>12

-----------------------------------------------------------------------------
(* The results. *)

(* The invariant holds before anything was created. *)
LEMMA InvInit == Init => TasksInv
<1> SUFFICES ASSUME Init PROVE TasksInv
  OBVIOUS
<1>1. Waiting /\ Control /\ broken = {}
  BY FramesType DEF Init, Waiting, Control
<1>2. Owning
  BY FramesType DEF Init, Owning, Exists
<1>3. Promised
  BY DEF Init, Promised
<1> QED
  BY <1>1, <1>2, <1>3 DEF TasksInv

(* Every step keeps the invariant. *)
LEMMA InvStep == TypeOK /\ TasksInv /\ [Next]_vars => TasksInv'
<1> SUFFICES ASSUME TypeOK, TasksInv, [Next]_vars PROVE TasksInv'
  OBVIOUS
<1>1. CASE UNCHANGED vars
  BY <1>1 DEF vars, promise, timerVars, TasksInv, Waiting, Control, Owning, Promised, Exists
<1>2. ASSUME NEW h \in Homes, Code(h) PROVE TasksInv'
  BY <1>2, CreateStep, DropStep, DetachStep DEF Code
<1>3. ASSUME NEW f \in Frames, Yield(f) \/ Schedule(f) \/ \E x \in Locals : Await(f, x)
      PROVE  TasksInv'
  BY <1>3, SuspendStep, FinishStep, ScheduleStep, AwaitStep DEF Yield
<1>4. CASE Run \/ EnterTimers \/ LeaveTimers \/ Return \/ Tick
  <2>1. UNCHANGED <<state, cont, detached, handle, current, ready, timers, broken>>
    BY <1>4 DEF Run, EnterTimers, LeaveTimers, Return, Tick, promise, timerVars
  <2>2. current # None => loop' = "loop"
    BY <1>4 DEF Run, EnterTimers, LeaveTimers, Return, Tick, AfterTimers, TasksInv, Control
  <2> QED
    BY <2>1, <2>2 DEF TasksInv, Waiting, Control, Owning, Promised, Exists
<1>5. CASE PopReady \/ FireTimer
  BY <1>5, PopStep, FireStep
<1> QED
  BY <1>1, <1>2, <1>3, <1>4, <1>5 DEF Next, Loop

(* The invariant says that a frame which exists has one owner ... *)
LEMMA InvOwned == TypeOK /\ TasksInv => OwnedOnce
<1> SUFFICES ASSUME TypeOK, TasksInv, NEW f \in Frames
             PROVE  /\ state[f] \in {"none", "freed"} => Owners(f) = {}
                    /\ state[f] \notin {"none", "freed"} =>
                          /\ Cardinality(Owners(f)) = IF detached[f] THEN 0 ELSE 1
                          /\ detached[f] => state[f] # "final"
                          /\ \A o \in Owners(f) : o[1] = Main \/ state[o[1]] \notin Ended
  BY DEF OwnedOnce
<1> USE DEF TasksInv
<1>1. \A o \in Owners(f) : /\ o[1] \in Homes /\ o[2] \in Locals /\ o = <<o[1], o[2]>>
                           /\ handle[o[1]][o[2]] = f
  BY DEF Owners
<1>2. \A h \in Homes, x \in Locals : handle[h][x] = f => <<h, x>> \in Owners(f)
  BY DEF Owners
<1>3. f # None
  BY FramesType
<1>4. \A o \in Owners(f) : /\ Exists(f) /\ ~detached[f]
                           /\ o[1] = Main \/ state[o[1]] \notin Ended
  BY <1>1, <1>3 DEF Owning
<1>5. \A o, p \in Owners(f) : o = p
  <2> SUFFICES ASSUME NEW o \in Owners(f), NEW p \in Owners(f) PROVE o = p
    OBVIOUS
  <2>1. o[1] = p[1] /\ o[2] = p[2]
    BY <1>1, <1>3, OneOwner
  <2> QED
    BY <1>1, <2>1
<1>6. ASSUME Exists(f), ~detached[f] PROVE Cardinality(Owners(f)) = 1
  <2>1. PICK h \in Homes, x \in Locals : handle[h][x] = f
    BY <1>6 DEF Owning
  <2>2. Owners(f) = {<<h, x>>}
    BY <1>2, <1>5, <2>1
  <2> QED
    BY <2>2, FS_Singleton
<1>7. ASSUME detached[f] PROVE Cardinality(Owners(f)) = 0 /\ state[f] # "final"
  <2>1. Owners(f) = {}
    BY <1>4, <1>7
  <2> QED
    BY <1>7, <2>1, FS_EmptySet DEF Promised
<1> QED
  BY <1>4, <1>6, <1>7 DEF Exists, TypeOK

(* ... and that a frame which awaits has one frame to wait for. *)
LEMMA InvAwaited == TypeOK /\ TasksInv => AwaitedRuns
<1> SUFFICES ASSUME TypeOK, TasksInv, NEW f \in Frames, state[f] = "awaiting"
             PROVE  Cardinality({g \in Frames : cont[g] = f /\ state[g] \notin Ended}) = 1
  BY DEF AwaitedRuns
<1>1. PICK g \in Frames : cont[g] = f /\ state[g] \notin Ended
  BY DEF TasksInv, Promised
<1>2. {e \in Frames : cont[e] = f /\ state[e] \notin Ended} = {g}
  <2>1. \A e \in Frames : cont[e] = f /\ state[e] \notin Ended => e = g
    BY <1>1, FramesType DEF TasksInv, Promised
  <2> QED
    BY <1>1, <2>1
<1> QED
  BY <1>2, FS_Singleton

(* The invariant holds in every state. *)
LEMMA Invariant == Spec => [](TypeOK /\ TasksInv)
BY TypeCorrect, InvInit, InvStep, PTL DEF Spec

(* Whatever coroutines create, move, drop, detach and await, for any       *)
(* number of them: no frame is resumed or destroyed when it must not be.   *)
THEOREM FramesNotMisused == Spec => []NoFrameMisused
<1>1. TypeOK /\ TasksInv => NoFrameMisused
  BY DEF TasksInv, NoFrameMisused
<1> QED
  BY <1>1, Invariant, PTL

(* Every frame that exists has exactly one owner, a task variable or, once *)
(* detached, itself: none leaks and none is freed twice.                   *)
THEOREM FramesOwned == Spec => []OwnedOnce
BY InvOwned, Invariant, PTL

(* A frame that awaits has exactly one frame that will resume it. *)
THEOREM AwaitsResumed == Spec => []AwaitedRuns
BY InvAwaited, Invariant, PTL

=============================================================================

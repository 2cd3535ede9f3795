------------------------- MODULE MtSchedulerProofs -------------------------
(***************************************************************************)
(* Proofs about MtScheduler: outside the window in which a message meets   *)
(* the timer of the same receive, a coroutine handle is in one place, and  *)
(* run() returns when every actor has exited, for any number of workers,   *)
(* actors and waits.                                                       *)
(***************************************************************************)
EXTENDS MtScheduler, FiniteSetTheorems, SequenceTheorems, TLAPS

-----------------------------------------------------------------------------
(* The inductive invariant. *)

(* Actor a has a place in queue q, and has it once. *)
Has(a, q) == In(a, q) # {}
Once(a, q) == \A i, j \in In(a, q) : i = j

(* The queues hold ready actors only, and hold each of those that are not  *)
(* in the window in one place.  Of an actor in the window nothing is said  *)
(* once the behaviour is undefined.                                        *)
InQueue(a, lc, ij) == Has(a, ij) \/ \E w \in Workers : Has(a, lc[w])
Alone(a, lc, ij) ==
    /\ Once(a, ij) /\ \A w \in Workers : Once(a, lc[w])
    /\ \A w \in Workers : ~(Has(a, ij) /\ Has(a, lc[w]))
    /\ \A w, v \in Workers : Has(a, lc[w]) /\ Has(a, lc[v]) => w = v
Placed(st, lc, ij, rc, br) ==
    \A a \in Actors :
        /\ InQueue(a, lc, ij) /\ (a \in rc => ~br) => st[a] = "ready"
        /\ a \notin rc => Alone(a, lc, ij) /\ (st[a] = "ready" => InQueue(a, lc, ij))

(* The workers run the running actors, each by one worker. *)
Busy == {"run", "flag", "arm"}
Held(st, wk) ==
    /\ \A w \in Workers :
          /\ wk[w].at \in Busy <=> wk[w].cur # NoActor
          /\ wk[w].at = "run" => st[wk[w].cur] = "running"
          /\ \A v \in Workers : wk[w].at = "run" /\ wk[v].at = "run" /\ wk[w].cur = wk[v].cur
                                   => w = v
    /\ \A a \in Actors :
          st[a] = "running" => \E w \in Workers : wk[w].at = "run" /\ wk[w].cur = a

(* Who can still touch the receive of actor a: an await_suspend that arms  *)
(* its timer, the timer, its callback, a sender.  At most one of them, and *)
(* only while a is suspended.                                              *)
Arms(w, a) == worker[w].at \in {"flag", "arm"} /\ worker[w].cur = a
Clean(a) ==
    /\ a \in timers => state[a] = "waiting" /\ due # a
    /\ due = a => state[a] = IF main = "schedule" THEN "woken" ELSE "waiting"
    /\ \A w \in Workers : Arms(w, a) => state[a] = "waiting" /\ a \notin timers /\ due # a
    /\ \A w, v \in Workers : Arms(w, a) /\ Arms(v, a) => w = v
    /\ \A w \in Workers : hand[w] = a => state[a] = "woken" /\ due # a
    /\ \A w, v \in Workers : hand[w] = a /\ hand[v] = a => w = v
    /\ state[a] = "woken" => (due = a /\ main = "schedule") \/ \E w \in Workers : hand[w] = a

Called == {"store", "visit", "reset", "schedule"}
Window ==
    /\ \A a \in Actors : a \notin raced => Clean(a)
    /\ \A a \in raced : ~broken => state[a] \in {"woken", "ready"}
    /\ broken => raced # {}
    /\ due # NoActor => main \in Called \cup {"fire"}
    /\ main \in Called => due # NoActor

(* active_actor_count_ counts the actors that have been spawned and have   *)
(* not exited.                                                             *)
Live(st) == {a \in Actors : st[a] \notin {"unborn", "exited"}}
Counted == count = Cardinality(Live(state))

(* shutdown_ is stored when the last actor has exited and is believed only *)
(* while run() is active; outside of it no worker exists.                  *)
Ending ==
    /\ main = "outside" => \A w \in Workers : worker[w].at = "off"
    /\ main \in {"stop", "join"} => shutdown
    /\ shutdown /\ main # "outside" => Live(state) = {}

MtInv ==
    /\ Placed(state, local, inject, raced, broken) /\ Held(state, worker) /\ Window
    /\ Counted /\ Ending

-----------------------------------------------------------------------------
(* Queues. *)

(* Queue r is queue q with x added, or with one place of x taken.          *)
Same(b, q, r) == (Has(b, r) <=> Has(b, q)) /\ (Once(b, q) => Once(b, r))
Added(x, q, r) ==
    /\ Has(x, r) /\ (~Has(x, q) => Once(x, r))
    /\ \A b : b # x => Same(b, q, r)
Taken(x, q, r) ==
    /\ Has(x, q) /\ (Once(x, q) => ~Has(x, r)) /\ (~Has(x, r) => Once(x, r))
    /\ \A b : b # x => Same(b, q, r)

(* A coroutine is appended ... *)
LEMMA AppendAdds ==
    ASSUME NEW S, NEW q \in Seq(S), NEW x \in S
    PROVE  Append(q, x) \in Seq(S) /\ Added(x, q, Append(q, x))
<1> DEFINE r == Append(q, x)
           n == Len(q) + 1
<1>1. /\ r \in Seq(S) /\ Len(r) = n
      /\ \A i \in 1..Len(q) : r[i] = q[i]
      /\ r[n] = x
  BY AppendProperties
<1>2. Len(q) \in Nat /\ DOMAIN q = 1..Len(q) /\ DOMAIN r = 1..Len(r)
  BY <1>1, LenProperties
<1> HIDE DEF r
<1>3. \A i \in DOMAIN r : (i = n /\ r[i] = x) \/ (i \in DOMAIN q /\ r[i] = q[i])
  BY <1>1, <1>2
<1>4. n \in DOMAIN r /\ \A i \in DOMAIN q : i \in DOMAIN r /\ r[i] = q[i]
  BY <1>1, <1>2
<1>5. ASSUME NEW b, b # x PROVE In(b, r) = In(b, q)
  BY <1>1, <1>3, <1>4, <1>5 DEF In
<1>6. \A b : b # x => Same(b, q, r)
  BY <1>5 DEF Same, Has, Once
<1>7. Has(x, r)
  BY <1>1, <1>4 DEF Has, In
<1>8. ASSUME ~Has(x, q) PROVE Once(x, r)
  <2>1. \A i \in In(x, r) : i = n
    BY <1>3, <1>8 DEF Has, In
  <2> QED
    BY <2>1 DEF Once
<1>9. Added(x, q, r)
  BY <1>6, <1>7, <1>8 DEF Added
<1> QED
  BY <1>1, <1>9 DEF r

(* ... the oldest one is taken ... *)
LEMMA TailTakes ==
    ASSUME NEW S, NEW q \in Seq(S), q # <<>>
    PROVE  Head(q) \in S /\ Tail(q) \in Seq(S) /\ Taken(Head(q), q, Tail(q))
<1> DEFINE r == Tail(q)
           x == Head(q)
<1>1. /\ x \in S /\ r \in Seq(S) /\ Len(r) = Len(q) - 1
      /\ \A i \in 1..Len(r) : r[i] = q[i + 1]
  BY HeadTailProperties
<1>2. Len(q) \in Nat /\ DOMAIN q = 1..Len(q) /\ DOMAIN r = 1..Len(r)
  BY <1>1, LenProperties
<1>3. Len(q) > 0 /\ x = q[1] /\ 1 \in DOMAIN q
  <2>1. Len(q) # 0
    BY EmptySeq
  <2> QED
    BY <1>2, <2>1
<1> HIDE DEF r, x
<1>4. \A i \in DOMAIN r : i + 1 \in DOMAIN q /\ i + 1 # 1 /\ r[i] = q[i + 1] /\ i \in Int
  BY <1>1, <1>2
<1>5. \A i \in DOMAIN q : i # 1 => i - 1 \in DOMAIN r /\ r[i - 1] = q[i]
  <2> SUFFICES ASSUME NEW i \in DOMAIN q, i # 1 PROVE i - 1 \in DOMAIN r /\ r[i - 1] = q[i]
    OBVIOUS
  <2>1. i - 1 \in 1..Len(r) /\ (i - 1) + 1 = i
    BY <1>1, <1>2
  <2> QED
    BY <2>1, <1>1, <1>2
<1>6. ASSUME NEW b, b # x PROVE Same(b, q, r)
  <2>1. Has(b, r) => Has(b, q)
    BY <1>4 DEF Has, In
  <2>2. ASSUME Has(b, q) PROVE Has(b, r)
    <3>1. PICK i \in DOMAIN q : q[i] = b
      BY <2>2 DEF Has, In
    <3>2. i # 1
      BY <3>1, <1>3, <1>6
    <3> QED
      BY <3>1, <3>2, <1>5 DEF Has, In
  <2>3. ASSUME Once(b, q), NEW i \in In(b, r), NEW j \in In(b, r) PROVE i = j
    <3>1. i + 1 \in In(b, q) /\ j + 1 \in In(b, q) /\ i \in Int /\ j \in Int
      BY <1>4 DEF In
    <3>2. i + 1 = j + 1
      BY <2>3, <3>1 DEF Once
    <3> QED
      BY <3>1, <3>2
  <2> QED
    BY <2>1, <2>2, <2>3 DEF Same, Once
<1>7. Has(x, q)
  BY <1>3 DEF Has, In
<1>8. ASSUME Once(x, q), NEW i \in In(x, r) PROVE FALSE
  <2>1. i + 1 \in In(x, q) /\ 1 \in In(x, q) /\ i + 1 # 1
    BY <1>3, <1>4 DEF In
  <2> QED
    BY <1>8, <2>1 DEF Once
<1>9. Taken(x, q, r)
  BY <1>6, <1>7, <1>8 DEF Taken, Has, Once
<1> QED
  BY <1>1, <1>9 DEF r, x

(* ... or the newest one. *)
LEMMA FrontTakes ==
    ASSUME NEW S, NEW q \in Seq(S), q # <<>>
    PROVE  Last(q) \in S /\ Front(q) \in Seq(S) /\ Taken(Last(q), q, Front(q))
<1> DEFINE r == Front(q)
           x == Last(q)
           n == Len(q)
<1>1. n \in Nat /\ DOMAIN q = 1..n /\ \A i \in 1..n : q[i] \in S
  BY LenProperties, ElementOfSeq
<1>2. n > 0
  <2>1. n # 0
    BY EmptySeq
  <2> QED
    BY <1>1, <2>1
<1>3. /\ r \in Seq(S) /\ Len(r) = n - 1
      /\ \A i \in 1..(n - 1) : r[i] = q[i]
  <2>1. n - 1 \in Int /\ 1 \in Int /\ \A i \in 1..(n - 1) : q[i] \in S
    BY <1>1
  <2>2. /\ SubSeq(q, 1, n - 1) \in Seq(S)
        /\ Len(SubSeq(q, 1, n - 1)) = IF 1 <= n - 1 THEN n - 1 - 1 + 1 ELSE 0
        /\ \A i \in 1..(n - 1 - 1 + 1) : SubSeq(q, 1, n - 1)[i] = q[1 + i - 1]
    BY <2>1, SubSeqProperties
  <2>3. r = SubSeq(q, 1, n - 1)
    BY DEF Front
  <2> HIDE DEF r
  <2> QED
    BY <1>1, <1>2, <2>2, <2>3
<1>4. DOMAIN r = 1..(n - 1)
  BY <1>3, LenProperties
<1>5. x = q[n] /\ n \in DOMAIN q
  BY <1>1, <1>2 DEF Last
<1> HIDE DEF r, x, n
<1>6. \A i \in DOMAIN r : i \in DOMAIN q /\ i # n /\ r[i] = q[i]
  BY <1>1, <1>3, <1>4
<1>7. \A i \in DOMAIN q : i # n => i \in DOMAIN r
  BY <1>1, <1>4
<1>8. ASSUME NEW b, b # x PROVE Same(b, q, r)
  <2>1. In(b, r) = In(b, q)
    BY <1>5, <1>6, <1>7, <1>8 DEF In
  <2> QED
    BY <2>1 DEF Same, Has, Once
<1>9. Has(x, q)
  BY <1>5 DEF Has, In
<1>10. ASSUME Once(x, q), NEW i \in In(x, r) PROVE FALSE
  <2>1. i \in In(x, q) /\ n \in In(x, q) /\ i # n
    BY <1>5, <1>6 DEF In
  <2> QED
    BY <1>10, <2>1 DEF Once
<1>11. Taken(x, q, r)
  BY <1>8, <1>9, <1>10 DEF Taken, Has, Once
<1> QED
  BY <1>1, <1>2, <1>3, <1>5, <1>11 DEF r, x

(* An empty queue has no actor, a queue that has no actor is empty, and    *)
(* the actors that it has are actors.                                      *)
LEMMA EmptyHas ==
    ASSUME NEW S, NEW q \in Seq(S)
    PROVE  /\ (\A b \in S : ~Has(b, q)) => q = <<>>
           /\ \A b : Has(b, q) => b \in S
<1>1. Len(q) \in Nat /\ DOMAIN q = 1..Len(q) /\ \A i \in 1..Len(q) : q[i] \in S
  BY LenProperties, ElementOfSeq
<1>2. ASSUME \A b \in S : ~Has(b, q) PROVE q = <<>>
  <2>1. ~(1 \in DOMAIN q)
    BY <1>1, <1>2 DEF Has, In
  <2>2. Len(q) = 0
    BY <2>1, <1>1
  <2> QED
    BY <2>2, EmptySeq
<1> QED
  BY <1>1, <1>2 DEF Has, In

-----------------------------------------------------------------------------
(* What the steps do to the queues and to the workers. *)

States == {"unborn", "ready", "running", "waiting", "woken", "exited"}
Sites == {"off", "loop", "inject", "steal", "wait", "run", "flag", "arm", "signal", "notify"}
WorkerStates == [at : Sites, scan : 1..NumWorkers, cur : Actors \cup {NoActor}]

(* The workers are numbered from 0, and try_steal asks workers. *)
LEMMA WorkersType ==
    /\ NumWorkers \in Nat /\ NumWorkers > 0 /\ Workers = 0..(NumWorkers - 1)
    /\ \A w \in Workers, k \in Nat : (w + k) % NumWorkers \in Workers
<1>1. NumWorkers \in Nat /\ Workers = 0..(NumWorkers - 1) /\ Workers # {}
  BY SchedulerAssumption, FS_CardinalityType DEF NumWorkers
<1>2. NumWorkers > 0
  BY <1>1
<1> QED
  BY <1>1, <1>2

(* The state of a worker between two coroutines. *)
LEMMA LoopType ==
    ASSUME NEW p \in Sites
    PROVE  /\ [Loop EXCEPT !.at = p] = [at |-> p, scan |-> 1, cur |-> NoActor]
           /\ [Loop EXCEPT !.at = p] \in WorkerStates
           /\ Loop \in WorkerStates /\ Off \in WorkerStates
BY WorkersType DEF Loop, Off, WorkerStates, Sites

(* The type of the workers. *)
LEMMA WorkerTyped ==
    ASSUME TypeOK
    PROVE  worker \in [Workers -> WorkerStates]
BY DEF TypeOK, WorkerStates, Sites

(* A coroutine is appended to a deque or to the injection queue: that of   *)
(* an actor that was not ready, or of one in the window.                   *)
LEMMA EnqueueKeeps ==
    ASSUME TypeOK, ~broken, Placed(state, local, inject, raced, broken), UNCHANGED <<raced, broken>>,
           NEW a \in Actors, a \notin raced => state[a] # "ready",
           state' = [state EXCEPT ![a] = "ready"],
           (\E w \in Workers : ScheduleLocal(w, a)) \/ ScheduleInject(a)
    PROVE  /\ local' \in [Workers -> Seq(Actors)] /\ inject' \in Seq(Actors)
           /\ Placed(state', local', inject', raced', broken')
<1>1. /\ \A b \in Actors : state'[b] = IF b = a THEN "ready" ELSE state[b]
      /\ inject \in Seq(Actors) /\ local \in [Workers -> Seq(Actors)]
  BY DEF TypeOK
<1>2. a \notin raced => ~Has(a, inject) /\ \A w \in Workers : ~Has(a, local[w])
  BY DEF Placed, InQueue
<1>3. ASSUME NEW w \in Workers, ScheduleLocal(w, a)
      PROVE  /\ local' \in [Workers -> Seq(Actors)] /\ inject' \in Seq(Actors)
             /\ Placed(state', local', inject', raced', broken')
  <2>1. inject' = inject /\ local' = [local EXCEPT ![w] = Append(@, a)]
    BY <1>3 DEF ScheduleLocal
  <2>2. Append(local[w], a) \in Seq(Actors) /\ Added(a, local[w], Append(local[w], a))
    BY <1>1, AppendAdds
  <2>3. /\ local' \in [Workers -> Seq(Actors)] /\ Added(a, local[w], local'[w])
        /\ \A v \in Workers : v # w => local'[v] = local[v]
    BY <1>1, <2>1, <2>2
  <2>4. ASSUME NEW b \in Actors, b # a
        PROVE  \A v \in Workers : Same(b, local[v], local'[v])
    BY <2>3, <2>4 DEF Added, Same
  <2>5. ASSUME NEW b \in Actors
        PROVE  /\ InQueue(b, local', inject') /\ (b \in raced => ~broken) => state'[b] = "ready"
               /\ b \notin raced => /\ Alone(b, local', inject')
                                    /\ state'[b] = "ready" => InQueue(b, local', inject')
    <3>1. CASE b = a
      BY <1>1, <1>2, <2>1, <2>3, <3>1 DEF Placed, InQueue, Alone, Added
    <3>2. CASE b # a
      BY <1>1, <2>1, <2>4, <3>2 DEF Placed, InQueue, Alone, Same
    <3> QED
      BY <3>1, <3>2
  <2> QED
    BY <1>1, <2>1, <2>3, <2>5 DEF Placed
<1>4. ASSUME ScheduleInject(a)
      PROVE  /\ local' \in [Workers -> Seq(Actors)] /\ inject' \in Seq(Actors)
             /\ Placed(state', local', inject', raced', broken')
  <2>1. local' = local /\ inject' = Append(inject, a)
    BY <1>4 DEF ScheduleInject
  <2>2. inject' \in Seq(Actors) /\ Added(a, inject, inject')
    BY <1>1, <2>1, AppendAdds
  <2>3. ASSUME NEW b \in Actors
        PROVE  /\ InQueue(b, local', inject') /\ (b \in raced => ~broken) => state'[b] = "ready"
               /\ b \notin raced => /\ Alone(b, local', inject')
                                    /\ state'[b] = "ready" => InQueue(b, local', inject')
    <3>1. CASE b = a
      BY <1>1, <1>2, <2>1, <2>2, <3>1 DEF Placed, InQueue, Alone, Added
    <3>2. CASE b # a
      BY <1>1, <2>1, <2>2, <3>2 DEF Placed, InQueue, Alone, Added, Same
    <3> QED
      BY <3>1, <3>2
  <2> QED
    BY <1>1, <2>1, <2>2, <2>3 DEF Placed
<1> QED
  BY <1>3, <1>4

(* A coroutine is taken from a queue. *)
Dequeues(a) ==
    \/ /\ \E v \in Workers : \E q \in Seq(Actors) :
             local' = [local EXCEPT ![v] = q] /\ Taken(a, local[v], q)
       /\ inject' = inject
    \/ /\ inject' \in Seq(Actors) /\ Taken(a, inject, inject')
       /\ local' = local

(* The places of every other coroutine stay.  One that is not in the       *)
(* window has no place left.                                               *)
LEMMA DequeueTakes ==
    ASSUME TypeOK, ~broken, Placed(state, local, inject, raced, broken), NEW a, Dequeues(a)
    PROVE  /\ a \in Actors /\ state[a] = "ready"
           /\ local' \in [Workers -> Seq(Actors)] /\ inject' \in Seq(Actors)
           /\ a \notin raced => ~InQueue(a, local', inject')
           /\ ~InQueue(a, local', inject') => Alone(a, local', inject')
           /\ \A b \in Actors : b # a =>
                 /\ InQueue(b, local', inject') <=> InQueue(b, local, inject)
                 /\ Alone(b, local, inject) => Alone(b, local', inject')
<1>1. inject \in Seq(Actors) /\ local \in [Workers -> Seq(Actors)]
  BY DEF TypeOK
<1>2. CASE /\ \E v \in Workers : \E q \in Seq(Actors) :
                 local' = [local EXCEPT ![v] = q] /\ Taken(a, local[v], q)
           /\ inject' = inject
  <2>1. PICK v \in Workers : \E q \in Seq(Actors) :
                 local' = [local EXCEPT ![v] = q] /\ Taken(a, local[v], q)
    BY <1>2
  <2>2. PICK q \in Seq(Actors) : local' = [local EXCEPT ![v] = q] /\ Taken(a, local[v], q)
    BY <2>1
  <2>3. /\ local' \in [Workers -> Seq(Actors)] /\ local'[v] = q
        /\ \A u \in Workers : u # v => local'[u] = local[u]
    BY <1>1, <2>2
  <2>4. Has(a, local[v]) /\ (Once(a, local[v]) => ~Has(a, q)) /\ (~Has(a, q) => Once(a, q))
    BY <2>2 DEF Taken
  <2>5. a \in Actors
    BY <1>1, <2>4, EmptyHas
  <2>6. state[a] = "ready"
    BY <2>4, <2>5 DEF Placed, InQueue
  <2>7. a \notin raced => ~InQueue(a, local', inject')
    BY <1>2, <2>3, <2>4, <2>5 DEF Placed, InQueue, Alone
  <2>8. ASSUME ~Has(a, inject), \A u \in Workers : ~Has(a, local'[u])
        PROVE  Alone(a, local', inject')
    BY <1>2, <2>8 DEF Alone, Has, Once
  <2>9. ASSUME NEW b \in Actors, b # a
        PROVE  /\ InQueue(b, local', inject') <=> InQueue(b, local, inject)
               /\ Alone(b, local, inject) => Alone(b, local', inject')
    <3>1. \A u \in Workers : Same(b, local[u], local'[u])
      BY <2>2, <2>3, <2>9 DEF Taken, Same
    <3> QED
      BY <1>2, <3>1 DEF InQueue, Alone, Same
  <2> QED
    BY <1>1, <1>2, <2>3, <2>5, <2>6, <2>7, <2>8, <2>9 DEF InQueue
<1>3. CASE inject' \in Seq(Actors) /\ Taken(a, inject, inject') /\ local' = local
  <2>1. /\ Has(a, inject) /\ (Once(a, inject) => ~Has(a, inject'))
        /\ (~Has(a, inject') => Once(a, inject'))
    BY <1>3 DEF Taken
  <2>2. a \in Actors
    BY <1>1, <2>1, EmptyHas
  <2>3. state[a] = "ready"
    BY <2>1, <2>2 DEF Placed, InQueue
  <2>4. a \notin raced => ~InQueue(a, local', inject')
    BY <1>3, <2>1, <2>2 DEF Placed, InQueue, Alone
  <2>5. ASSUME ~Has(a, inject'), \A u \in Workers : ~Has(a, local'[u])
        PROVE  Alone(a, local', inject')
    BY <2>5 DEF Alone, Has, Once
  <2>6. ASSUME NEW b \in Actors, b # a
        PROVE  /\ InQueue(b, local', inject') <=> InQueue(b, local, inject)
               /\ Alone(b, local, inject) => Alone(b, local', inject')
    BY <1>3, <2>6 DEF Taken, InQueue, Alone, Same
  <2> QED
    BY <1>1, <1>3, <2>2, <2>3, <2>4, <2>5, <2>6 DEF InQueue
<1> QED
  BY <1>2, <1>3 DEF Dequeues

(* A step that leaves the queues, and that makes no actor ready. *)
LEMMA ReadyKeeps ==
    ASSUME Placed(state, local, inject, raced, broken), UNCHANGED <<local, inject, broken>>,
           \A a \in Actors : state'[a] = "ready" <=> state[a] = "ready",
           raced \subseteq raced', ~broken
    PROVE  Placed(state', local', inject', raced', broken')
BY DEF Placed

(* A worker that runs nothing resumes a. *)
LEMMA ResumeKeeps ==
    ASSUME TypeOK, Held(state, worker), NEW w \in Workers, worker[w].at \notin Busy,
           NEW a \in Actors, state[a] = "ready", Resume(w, a)
    PROVE  /\ worker' \in [Workers -> WorkerStates] /\ Held(state', worker')
           /\ \A v \in Workers, b \in Actors : Arms(v, b)' <=> Arms(v, b)
           /\ \A b \in Actors : state'[b] = IF b = a THEN "running" ELSE state[b]
<1>1. \A b \in Actors : state'[b] = IF b = a THEN "running" ELSE state[b]
  BY DEF TypeOK, Resume
<1>2. [at |-> "run", scan |-> 1, cur |-> a] \in WorkerStates
  BY WorkersType DEF WorkerStates, Sites
<1>3. /\ worker' \in [Workers -> WorkerStates]
      /\ worker'[w].at = "run" /\ worker'[w].cur = a
      /\ \A v \in Workers : v # w => worker'[v] = worker[v]
  BY <1>2, WorkerTyped DEF Resume
<1>4. \A v \in Workers : /\ worker[v].at = "run" => worker[v].cur # a
                         /\ worker[v].cur \in Actors \cup {NoActor}
  BY DEF Held, TypeOK
<1>5. a # NoActor /\ worker[w].cur = NoActor
  BY SchedulerAssumption DEF Held
<1>6. ASSUME NEW v \in Workers
      PROVE  /\ worker'[v].at \in Busy <=> worker'[v].cur # NoActor
             /\ worker'[v].at = "run" => state'[worker'[v].cur] = "running"
             /\ \A u \in Workers :
                   worker'[v].at = "run" /\ worker'[u].at = "run" /\ worker'[v].cur = worker'[u].cur
                      => v = u
  BY <1>1, <1>3, <1>4, <1>5 DEF Held, Busy
<1>7. ASSUME NEW b \in Actors, state'[b] = "running"
      PROVE  \E v \in Workers : worker'[v].at = "run" /\ worker'[v].cur = b
  <2>1. CASE b = a
    BY <2>1, <1>3
  <2>2. CASE b # a
    <3>1. PICK v \in Workers : worker[v].at = "run" /\ worker[v].cur = b
      BY <2>2, <1>1, <1>7 DEF Held
    <3>2. v # w
      BY <3>1, <1>5, SchedulerAssumption
    <3> QED
      BY <3>1, <3>2, <1>3
  <2> QED
    BY <2>1, <2>2
<1>8. \A v \in Workers, b \in Actors : Arms(v, b)' <=> Arms(v, b)
  BY <1>3 DEF Arms, Busy
<1> QED
  BY <1>1, <1>3, <1>6, <1>7, <1>8 DEF Held

(* A worker that does not run an actor goes somewhere else. *)
LEMMA GoToKeeps ==
    ASSUME TypeOK, Held(state, worker), NEW w \in Workers, worker[w].at # "run",
           NEW p \in Sites \ Busy, GoTo(w, p)
    PROVE  /\ worker' \in [Workers -> WorkerStates] /\ Held(state', worker')
           /\ \A v \in Workers, b \in Actors :
                 Arms(v, b)' <=> Arms(v, b) /\ (v = w => worker[w].at \notin {"flag", "arm"})
<1>1. /\ worker' \in [Workers -> WorkerStates]
      /\ worker'[w].at = p /\ worker'[w].cur = NoActor
      /\ \A v \in Workers : v # w => worker'[v] = worker[v]
  BY LoopType, WorkerTyped DEF GoTo
<1>2. state' = state /\ worker[w].at # "run" /\ p \notin Busy
  BY DEF GoTo
<1>3. Held(state', worker')
  BY <1>1, <1>2 DEF Held, Busy
<1>4. \A v \in Workers, b \in Actors :
         Arms(v, b)' <=> Arms(v, b) /\ (v = w => worker[w].at \notin {"flag", "arm"})
  BY <1>1, <1>2 DEF Arms, Busy
<1> QED
  BY <1>1, <1>3, <1>4

(* A worker leaves the coroutine that it runs, which suspends or ends. *)
Leaves(w, a, s) ==
    /\ worker[w].at = "run" /\ worker[w].cur = a
    /\ \/ \E p \in Sites \ Busy : worker' = [worker EXCEPT ![w] = [Loop EXCEPT !.at = p]]
       \/ worker' = [worker EXCEPT ![w].at = "flag"]
    /\ s \in States \ {"running"} /\ state' = [state EXCEPT ![a] = s]
(* The worker then runs nothing, and the actor is no longer running. *)
LEMMA LeaveKeeps ==
    ASSUME TypeOK, Held(state, worker), NEW w \in Workers, NEW a, NEW s, Leaves(w, a, s)
    PROVE  /\ worker' \in [Workers -> WorkerStates] /\ Held(state', worker')
           /\ a \in Actors /\ state[a] = "running"
           /\ \A b \in Actors : state'[b] = IF b = a THEN s ELSE state[b]
           /\ worker'[w].at # "run" /\ \A v \in Workers : v # w => worker'[v] = worker[v]
           /\ worker'[w].cur \in {a, NoActor}
<1> USE DEF Leaves
<1>1. /\ worker' \in [Workers -> WorkerStates]
      /\ \/ worker'[w].at \notin Busy /\ worker'[w].cur = NoActor
         \/ worker'[w].at = "flag" /\ worker'[w].cur = a
      /\ \A v \in Workers : v # w => worker'[v] = worker[v]
  <2>1. CASE worker' = [worker EXCEPT ![w].at = "flag"]
    BY <2>1, WorkerTyped DEF WorkerStates, Sites
  <2>2. ASSUME NEW p \in Sites \ Busy, worker' = [worker EXCEPT ![w] = [Loop EXCEPT !.at = p]]
        PROVE  /\ worker' \in [Workers -> WorkerStates]
               /\ worker'[w].at \notin Busy /\ worker'[w].cur = NoActor
               /\ \A v \in Workers : v # w => worker'[v] = worker[v]
    BY <2>2, LoopType, WorkerTyped
  <2> QED
    BY <2>1, <2>2
<1>2. a \in Actors /\ state[a] = "running" /\ a # NoActor
  BY SchedulerAssumption DEF TypeOK, Held, Busy
<1>3. \A b \in Actors : state'[b] = IF b = a THEN s ELSE state[b]
  BY <1>2 DEF TypeOK
<1>4. \A v \in Workers : worker[v].cur \in Actors \cup {NoActor}
  BY DEF TypeOK
<1>5. worker'[w].at # "run"
  BY <1>1 DEF Busy
<1>6. ASSUME NEW v \in Workers
      PROVE  /\ worker'[v].at \in Busy <=> worker'[v].cur # NoActor
             /\ worker'[v].at = "run" => state'[worker'[v].cur] = "running"
             /\ \A u \in Workers :
                   worker'[v].at = "run" /\ worker'[u].at = "run" /\ worker'[v].cur = worker'[u].cur
                      => v = u
  BY <1>1, <1>2, <1>3, <1>4, <1>5 DEF Held, Busy
<1>7. ASSUME NEW b \in Actors, state'[b] = "running"
      PROVE  \E v \in Workers : worker'[v].at = "run" /\ worker'[v].cur = b
  <2>1. b # a /\ state[b] = "running"
    BY <1>3, <1>7
  <2>2. PICK v \in Workers : worker[v].at = "run" /\ worker[v].cur = b
    BY <2>1 DEF Held
  <2>3. v # w
    BY <2>1, <2>2
  <2> QED
    BY <2>2, <2>3, <1>1
<1> QED
  BY <1>1, <1>2, <1>3, <1>5, <1>6, <1>7 DEF Held

(* A change of state of an actor that is not running, to one that is not. *)
LEMMA StateKeeps ==
    ASSUME TypeOK, Held(state, worker), UNCHANGED worker,
           NEW a \in Actors, NEW s \in States \ {"running"}, state[a] # "running",
           state' = [state EXCEPT ![a] = s]
    PROVE  Held(state', worker') /\ \A b \in Actors : state'[b] = IF b = a THEN s ELSE state[b]
<1>1. \A b \in Actors : state'[b] = IF b = a THEN s ELSE state[b]
  BY DEF TypeOK
<1>2. \A v \in Workers : worker[v].cur \in Actors \cup {NoActor}
  BY DEF TypeOK
<1> QED
  BY <1>1, <1>2, SchedulerAssumption DEF Held, Busy

-----------------------------------------------------------------------------
(* Counting. *)

(* There are finitely many actors that live. *)
LEMMA Finite ==
    /\ Cardinality(Actors) \in Nat
    /\ \A S \in SUBSET Actors :
          IsFiniteSet(S) /\ Cardinality(S) \in Nat /\ Cardinality(S) <= Cardinality(Actors)
<1>1. IsFiniteSet(Actors) /\ Cardinality(Actors) \in Nat
  BY SchedulerAssumption, FS_CardinalityType
<1>2. ASSUME NEW S \in SUBSET Actors
      PROVE  IsFiniteSet(S) /\ Cardinality(S) \in Nat /\ Cardinality(S) <= Cardinality(Actors)
  BY <1>1, FS_Subset, FS_CardinalityType
<1> QED
  BY <1>1, <1>2

(* A step that neither spawns nor ends an actor. *)
LEMMA LiveKeeps ==
    ASSUME \A a \in Actors : state'[a] \in {"unborn", "exited"} <=> state[a] \in {"unborn", "exited"}
    PROVE  Live(state') = Live(state)
BY DEF Live

(* The counter of the live actors is in its range. *)
LEMMA CountType == Counted => count \in 0..Cardinality(Actors)
<1>1. Live(state) \in SUBSET Actors
  BY DEF Live
<1> QED
  BY <1>1, Finite DEF Counted

(* An actor is spawned. *)
LEMMA SpawnCounts ==
    ASSUME TypeOK, Counted, NEW a \in Actors, state[a] = "unborn",
           state' = [state EXCEPT ![a] = "ready"], count' = count + 1
    PROVE  Counted' /\ count' \in 0..Cardinality(Actors)
<1>1. Live(state') = Live(state) \cup {a} /\ a \notin Live(state)
  BY DEF TypeOK, Live
<1>2. Live(state) \in SUBSET Actors /\ Live(state') \in SUBSET Actors
  BY DEF Live
<1>3. Cardinality(Live(state')) = Cardinality(Live(state)) + 1
  <2>1. IsFiniteSet(Live(state))
    BY <1>2, Finite
  <2>2. Cardinality(Live(state) \cup {a}) = Cardinality(Live(state)) + 1
    BY <1>1, <2>1, FS_AddElement
  <2> QED
    BY <1>1, <2>2
<1>4. count' = Cardinality(Live(state'))
  BY <1>3 DEF Counted
<1>5. count' \in 0..Cardinality(Actors)
  BY <1>2, <1>4, Finite
<1>6. Counted'
  BY <1>4 DEF Counted
<1> QED
  BY <1>5, <1>6

(* An actor ends. *)
LEMMA ExitCounts ==
    ASSUME TypeOK, Counted, NEW a \in Actors, state[a] = "running",
           state' = [state EXCEPT ![a] = "exited"], count' = count - 1
    PROVE  Counted' /\ count' \in 0..Cardinality(Actors)
<1>1. Live(state') = Live(state) \ {a} /\ a \in Live(state)
  BY DEF TypeOK, Live
<1>2. Live(state) \in SUBSET Actors /\ Live(state') \in SUBSET Actors
  BY DEF Live
<1>3. Cardinality(Live(state')) = Cardinality(Live(state)) - 1
  <2>1. IsFiniteSet(Live(state))
    BY <1>2, Finite
  <2>2. Cardinality(Live(state) \ {a}) = Cardinality(Live(state)) - 1
    BY <1>1, <2>1, FS_RemoveElement
  <2> QED
    BY <1>1, <2>2
<1>4. count' = Cardinality(Live(state'))
  BY <1>3 DEF Counted
<1>5. count' \in 0..Cardinality(Actors)
  BY <1>2, <1>4, Finite
<1>6. Counted'
  BY <1>4 DEF Counted
<1> QED
  BY <1>5, <1>6

(* active_actor_count_ is 0 when no actor lives. *)
LEMMA ZeroLive == Counted => (count = 0 <=> Live(state) = {})
<1>1. IsFiniteSet(Live(state))
  <2>1. Live(state) \in SUBSET Actors
    BY DEF Live
  <2> QED
    BY <2>1, Finite
<1> QED
  BY <1>1, FS_EmptySet DEF Counted

-----------------------------------------------------------------------------
(* The steps of the thread inside run(). *)

Inv == TypeOK /\ MtInv

(* A step that does not touch the receive of b. *)
LEMMA CleanKeeps ==
    ASSUME NEW b \in Actors, Clean(b), state'[b] = state[b], b \in timers' <=> b \in timers,
           due' = b <=> due = b, due = b => (main' = "schedule" <=> main = "schedule"),
           \A w \in Workers : Arms(w, b)' <=> Arms(w, b),
           \A w \in Workers : hand'[w] = b <=> hand[w] = b
    PROVE  Clean(b)'
<1>1. b \in timers' => state'[b] = "waiting" /\ due' # b
  BY DEF Clean
<1>2. due' = b => state'[b] = IF main' = "schedule" THEN "woken" ELSE "waiting"
  BY DEF Clean
<1>3. \A w \in Workers : Arms(w, b)' => state'[b] = "waiting" /\ b \notin timers' /\ due' # b
  BY DEF Clean
<1>4. \A w, v \in Workers : Arms(w, b)' /\ Arms(v, b)' => w = v
  BY DEF Clean
<1>5. /\ \A w \in Workers : hand'[w] = b => state'[b] = "woken" /\ due' # b
      /\ \A w, v \in Workers : hand'[w] = b /\ hand'[v] = b => w = v
  BY DEF Clean
<1>6. state'[b] = "woken" => (due' = b /\ main' = "schedule") \/ \E w \in Workers : hand'[w] = b
  BY DEF Clean
<1> QED
  BY <1>1, <1>2, <1>3, <1>4, <1>5, <1>6 DEF Clean

(* timer_loop moves on, run() asks the workers to stop, or the callback of *)
(* a timer takes a step that changes no handle.                            *)
LEMMA MainStep ==
    ASSUME Inv, ~broken,
           \/ TimerTop \/ TimerCheck \/ TimerBlock \/ TimerGiveUp \/ RequestStop
           \/ TimerLoad \/ TimerStore \/ TimerVisit
    PROVE  Inv'
<1> USE DEF Inv, MtInv
<1>1. UNCHANGED <<state, local, inject, worker, count, shutdown, hand, timers, stale, due, waits,
                  raced, broken>>
  BY DEF TimerTop, TimerCheck, TimerBlock, TimerGiveUp, RequestStop, TimerLoad, TimerStore,
         TimerVisit, queues, clock, ghosts
<1>2. active' \subseteq Actors
  BY DEF TimerTop, TimerCheck, TimerBlock, TimerGiveUp, RequestStop, TimerLoad, TimerStore,
         TimerVisit, clock, TypeOK
<1>3. /\ main \notin {"outside", "schedule"}
      /\ main' \in {"top", "check", "block", "asleep", "timed", "store", "visit", "reset",
                    "stop", "join"}
      /\ main' \in {"stop", "join"} => shutdown
  BY DEF TimerTop, TimerCheck, TimerBlock, TimerGiveUp, RequestStop, TimerLoad, TimerStore,
         TimerVisit, Ending
<1>4. /\ due # NoActor => main' \in Called \cup {"fire"}
      /\ main' \in Called => due # NoActor
  BY DEF TimerTop, TimerCheck, TimerBlock, TimerGiveUp, RequestStop, TimerLoad, TimerStore,
         TimerVisit, Window, Called
<1>5. TypeOK'
  BY <1>1, <1>2, <1>3 DEF TypeOK
<1>6. Placed(state, local, inject, raced, broken)' /\ Held(state, worker)' /\ Counted'
  BY <1>1 DEF Counted
<1>7. Window'
  <2>1. ASSUME NEW b \in Actors, b \notin raced PROVE Clean(b)'
    BY <1>1, <1>3, <2>1, CleanKeeps DEF Window, Arms
  <2> QED
    BY <1>1, <1>4, <2>1 DEF Window
<1>8. Ending'
  BY <1>1, <1>3 DEF Ending
<1> QED
  BY <1>5, <1>6, <1>7, <1>8

(* run() begins. *)
LEMMA RunStep ==
    ASSUME Inv, ~broken, Run
    PROVE  Inv'
<1> USE DEF Inv, MtInv
<1>1. /\ UNCHANGED <<state, local, inject, count, hand, active, timers, stale, due, waits, raced, broken>>
      /\ main = "outside"
  BY DEF Run, queues, clock, ghosts
<1>2. /\ shutdown' = FALSE
      /\ \/ worker' = worker /\ main' = main
         \/ worker' = [w \in Workers |-> Loop] /\ main' = "top"
  BY DEF Run
<1>3. \A w \in Workers : worker[w].at = "off" /\ worker[w].cur = NoActor
  BY <1>1 DEF Ending, Held, Busy
<1>4. /\ worker' \in [Workers -> WorkerStates]
      /\ \A w \in Workers : worker'[w].at \notin Busy /\ worker'[w].cur = NoActor
  BY <1>2, <1>3, LoopType, WorkerTyped DEF Loop, Sites, Busy
<1>5. shutdown' \in BOOLEAN
  BY <1>2, Zenon
<1>6. TypeOK'
  BY <1>1, <1>2, <1>4, <1>5 DEF TypeOK, WorkerStates, Sites
<1>7. Placed(state, local, inject, raced, broken)' /\ Counted'
  BY <1>1 DEF Counted
<1>8. Held(state, worker)'
  BY <1>1, <1>3, <1>4, SchedulerAssumption DEF Held, Busy
<1>9. Window'
  <2>1. ASSUME NEW b \in Actors, b \notin raced PROVE Clean(b)'
    <3>1. \A w \in Workers : ~Arms(w, b) /\ ~Arms(w, b)'
      BY <1>3, <1>4 DEF Arms, Busy
    <3> QED
      BY <1>1, <1>2, <2>1, <3>1, CleanKeeps DEF Window
  <2> QED
    BY <1>1, <1>2, <2>1 DEF Window, Called
<1>10. Ending'
  BY <1>1, <1>2, <1>3 DEF Ending
<1> QED
  BY <1>6, <1>7, <1>8, <1>9, <1>10

(* An actor is spawned, from outside or by a running one. *)
LEMMA SpawnKeeps ==
    ASSUME Inv, ~broken, NEW a \in Actors, state[a] = "unborn",
           state' = [state EXCEPT ![a] = "ready"], count' = count + 1,
           (\E w \in Workers : ScheduleLocal(w, a)) \/ ScheduleInject(a),
           UNCHANGED <<worker, shutdown, hand, active, timers, stale, due, main, waits, raced, broken>>,
           main # "outside" => ~shutdown
    PROVE  Inv'
<1> USE DEF Inv, MtInv
<1>1. a \notin raced
  BY DEF Window
<1>2. /\ Placed(state', local', inject', raced', broken')
      /\ local' \in [Workers -> Seq(Actors)] /\ inject' \in Seq(Actors)
  <2>1. UNCHANGED <<raced, broken>> /\ (a \notin raced => state[a] # "ready")
    OBVIOUS
  <2> QED
    BY <2>1, EnqueueKeeps
<1>3. Held(state', worker') /\ \A b \in Actors : state'[b] = IF b = a THEN "ready" ELSE state[b]
  BY StateKeeps DEF States
<1>4. Counted' /\ count' \in 0..Cardinality(Actors)
  BY SpawnCounts
<1>5. TypeOK'
  BY <1>2, <1>4 DEF TypeOK
<1>6. Window'
  <2>1. ASSUME NEW b \in Actors, b \notin raced PROVE Clean(b)'
    <3>1. CASE b = a
      <4>1. state'[b] = "ready" /\ \A w \in Workers : Arms(w, b)' <=> Arms(w, b)
        BY <1>3, <3>1 DEF Arms
      <4>2. /\ b \notin timers /\ due # b /\ \A w \in Workers : ~Arms(w, b) /\ hand[w] # b
        BY <2>1, <3>1 DEF Window, Clean
      <4> QED
        BY <4>1, <4>2 DEF Clean
    <3>2. CASE b # a
      BY <1>3, <2>1, <3>2, CleanKeeps DEF Window, Arms
    <3> QED
      BY <3>1, <3>2
  <2> QED
    BY <1>1, <1>3, <2>1 DEF Window, TypeOK
<1>7. Ending'
  BY DEF Ending
<1> QED
  BY <1>2, <1>3, <1>4, <1>5, <1>6, <1>7

(* An actor is spawned from outside. *)
LEMMA SpawnOutsideStep ==
    ASSUME Inv, ~broken, NEW a \in Actors, SpawnOutside(a)
    PROVE  Inv'
<1>1. /\ main = "outside" /\ state[a] = "unborn" /\ state' = [state EXCEPT ![a] = "ready"]
      /\ count' = count + 1 /\ ScheduleInject(a)
      /\ UNCHANGED <<worker, shutdown, hand, active, timers, stale, due, main, waits, raced, broken>>
  BY DEF SpawnOutside, clock, ghosts
<1> QED
  BY <1>1, SpawnKeeps

(* A deadline passes. *)
LEMMA TimerDueStep ==
    ASSUME Inv, ~broken, TimerDue
    PROVE  Inv'
<1> USE DEF Inv, MtInv
<1>1. /\ main = "timed" /\ main' = "fire" /\ due = NoActor
      /\ UNCHANGED <<state, local, inject, worker, count, shutdown, hand, active, waits, raced, broken>>
  BY DEF TimerDue, queues, ghosts, Window, Called
<1>2. timers \subseteq Actors /\ stale \in Nat
  BY DEF TypeOK
<1>3. \/ due' \in timers /\ timers' = timers \ {due'} /\ stale' = stale
      \/ stale > 0 /\ stale' = stale - 1 /\ timers' = timers /\ due' = NoActor
  BY <1>1 DEF TimerDue
<1>4. stale' \in Nat /\ timers' \subseteq Actors /\ due' \in Actors \cup {NoActor}
  BY <1>2, <1>3
<1>5. TypeOK'
  BY <1>1, <1>4 DEF TypeOK
<1>6. Placed(state, local, inject, raced, broken)' /\ Held(state, worker)' /\ Counted'
  BY <1>1 DEF Counted
<1>7. Window'
  <2>1. ASSUME NEW b \in Actors, b \notin raced PROVE Clean(b)'
    <3>1. \A w \in Workers : Arms(w, b)' <=> Arms(w, b)
      BY <1>1 DEF Arms
    <3>2. Clean(b) /\ b # NoActor
      BY <2>1, SchedulerAssumption DEF Window
    <3>3. CASE due' = b
      <4>1. b \in timers /\ b \notin timers'
        BY <1>3, <3>2, <3>3
      <4>2. /\ state[b] = "waiting" /\ \A w \in Workers : ~Arms(w, b) /\ hand[w] # b
        BY <3>2, <4>1 DEF Clean
      <4> QED
        BY <1>1, <3>1, <3>3, <4>1, <4>2 DEF Clean
    <3>4. CASE due' # b
      <4>1. b \in timers' <=> b \in timers
        BY <1>3, <3>4
      <4> QED
        BY <1>1, <3>1, <3>2, <3>4, <4>1, CleanKeeps
    <3> QED
      BY <3>3, <3>4
  <2> QED
    BY <1>1, <2>1 DEF Window, Called
<1>8. Ending'
  BY <1>1 DEF Ending
<1> QED
  BY <1>5, <1>6, <1>7, <1>8

(* The callback of a timer resets pending_: the actor, if it still waits,  *)
(* is now in the hand of the timer.                                        *)
LEMMA TimerResetStep ==
    ASSUME Inv, ~broken, TimerReset
    PROVE  Inv'
<1> USE DEF Inv, MtInv
<1>1. /\ main = "reset" /\ main' = "schedule"
      /\ state' = [state EXCEPT ![due] = IF @ = "waiting" THEN "woken" ELSE @]
      /\ UNCHANGED <<local, inject, worker, count, shutdown, hand, active, timers, stale, due,
                     waits, raced, broken>>
  BY DEF TimerReset, queues, clock, ghosts
<1>2. PICK a \in Actors : due = a
  BY <1>1 DEF Window, Called, TypeOK
<1>3. \/ a \notin raced /\ state[a] = "waiting" /\ Clean(a)
      \/ a \in raced /\ state[a] \in {"woken", "ready"}
  BY <1>1, <1>2 DEF Window, Clean
<1>4. /\ state' \in [Actors -> States] /\ \A b \in Actors : b # a => state'[b] = state[b]
      /\ state'[a] = IF state[a] = "waiting" THEN "woken" ELSE state[a]
  BY <1>1, <1>2 DEF TypeOK, States
<1>5. \A b \in Actors : /\ state'[b] = "ready" <=> state[b] = "ready"
                        /\ state'[b] = "running" <=> state[b] = "running"
                        /\ state'[b] \in {"unborn", "exited"} <=> state[b] \in {"unborn", "exited"}
  BY <1>3, <1>4
<1>6. Placed(state', local', inject', raced', broken')
  BY <1>1, <1>5, ReadyKeeps
<1>7. Held(state', worker')
  <2>1. \A v \in Workers : worker[v].at = "run" => worker[v].cur \in Actors
    BY DEF TypeOK, Held, Busy
  <2> QED
    BY <1>1, <1>5, <2>1 DEF Held
<1>8. Live(state') = Live(state)
  BY <1>5, LiveKeeps
<1>9. TypeOK'
  BY <1>1, <1>4 DEF TypeOK, States
<1>10. Window'
  <2>1. ASSUME NEW b \in Actors, b \notin raced PROVE Clean(b)'
    <3>1. \A w \in Workers : Arms(w, b)' <=> Arms(w, b)
      BY <1>1 DEF Arms
    <3>2. CASE b = a
      <4>1. /\ b \notin timers /\ \A w \in Workers : ~Arms(w, b) /\ hand[w] # b
        BY <1>2, <1>3, <2>1, <3>2 DEF Clean
      <4>2. state'[b] = "woken" /\ due' = b
        BY <1>1, <1>2, <1>3, <1>4, <2>1, <3>2
      <4> QED
        BY <1>1, <3>1, <4>1, <4>2 DEF Clean
    <3>3. CASE b # a
      BY <1>1, <1>2, <1>4, <2>1, <3>1, <3>3, CleanKeeps DEF Window
    <3> QED
      BY <3>2, <3>3
  <2>2. \A b \in raced : state'[b] \in {"woken", "ready"}
    BY <1>3, <1>4 DEF Window, TypeOK
  <2> QED
    BY <1>1, <2>1, <2>2 DEF Window, Called
<1>11. Counted' /\ Ending'
  BY <1>1, <1>8 DEF Counted, Ending
<1> QED
  BY <1>6, <1>7, <1>9, <1>10, <1>11

(* A thread schedules the handle that it holds: the callback of a timer,   *)
(* or a sender.                                                            *)
LEMMA ScheduleKeeps ==
    ASSUME Inv, ~broken, NEW a \in Actors,
           \/ /\ main = "schedule" /\ due = a /\ main' = "top" /\ due' = NoActor /\ hand' = hand
              /\ ScheduleInject(a)
           \/ /\ \E w \in Workers : /\ hand[w] = a /\ hand' = [hand EXCEPT ![w] = NoActor]
                                    /\ ScheduleLocal(w, a)
              /\ UNCHANGED <<main, due>>,
           state' = [state EXCEPT ![a] = "ready"],
           UNCHANGED <<worker, count, shutdown, active, timers, stale, waits, raced, broken>>
    PROVE  Inv'
<1> USE DEF Inv, MtInv
<1>1. a # NoActor /\ (due = a \/ \E w \in Workers : hand[w] = a)
  BY SchedulerAssumption
<1>2. /\ a \notin raced => Clean(a) /\ state[a] = "woken"
      /\ a \in raced => state[a] \in {"woken", "ready"}
  BY DEF Window, Clean
<1>3. /\ Placed(state', local', inject', raced', broken')
      /\ local' \in [Workers -> Seq(Actors)] /\ inject' \in Seq(Actors)
  <2>1. UNCHANGED <<raced, broken>> /\ (a \notin raced => state[a] # "ready")
    BY <1>2
  <2>2. (\E w \in Workers : ScheduleLocal(w, a)) \/ ScheduleInject(a)
    OBVIOUS
  <2> QED
    BY <2>1, <2>2, EnqueueKeeps
<1>4. Held(state', worker') /\ \A b \in Actors : state'[b] = IF b = a THEN "ready" ELSE state[b]
  <2>1. "ready" \in States \ {"running"} /\ state[a] # "running"
    BY <1>2 DEF States
  <2> QED
    BY <2>1, StateKeeps
<1>5. Live(state') = Live(state)
  BY <1>2, <1>4, LiveKeeps
<1>6. hand' \in [Workers -> Actors \cup {NoActor}] /\ due' \in Actors \cup {NoActor}
  BY DEF TypeOK
<1>7. main' = main \/ (main = "schedule" /\ main' = "top")
  OBVIOUS
<1>8. TypeOK'
  BY <1>3, <1>6, <1>7 DEF TypeOK
<1>9. Window'
  <2>1. ASSUME NEW b \in Actors, b \notin raced PROVE Clean(b)'
    <3>1. b # NoActor /\ \A w \in Workers : Arms(w, b)' <=> Arms(w, b)
      BY SchedulerAssumption DEF Arms
    <3>2. CASE b = a
      <4>1. b \notin timers /\ \A w \in Workers : ~Arms(w, b)
        BY <1>2, <2>1, <3>2 DEF Clean
      <4>2. due' # b /\ \A w \in Workers : hand'[w] # b
        <5>1. CASE main = "schedule" /\ due = a /\ due' = NoActor /\ hand' = hand
          BY <1>2, <2>1, <3>1, <3>2, <5>1 DEF Clean
        <5>2. CASE /\ \E w \in Workers : hand[w] = a /\ hand' = [hand EXCEPT ![w] = NoActor]
                   /\ UNCHANGED <<main, due>>
          <6>1. PICK w \in Workers : hand[w] = a /\ hand' = [hand EXCEPT ![w] = NoActor]
            BY <5>2
          <6>2. \A v \in Workers : hand'[v] = IF v = w THEN NoActor ELSE hand[v]
            BY <6>1 DEF TypeOK
          <6> QED
            BY <1>2, <2>1, <3>1, <3>2, <5>2, <6>1, <6>2 DEF Clean
        <5> QED
          BY <5>1, <5>2
      <4>3. state'[b] = "ready" /\ timers' = timers
        BY <1>4, <3>2
      <4> QED
        BY <3>1, <4>1, <4>2, <4>3 DEF Clean
    <3>3. CASE b # a
      <4>1. state'[b] = state[b] /\ timers' = timers /\ Clean(b)
        BY <1>4, <2>1, <3>3 DEF Window
      <4>2. due' = b <=> due = b
        BY <3>1, <3>3
      <4>3. due = b => main' = main
        BY <3>3
      <4>4. \A w \in Workers : hand'[w] = b <=> hand[w] = b
        BY <3>1, <3>3 DEF TypeOK
      <4> QED
        BY <3>1, <4>1, <4>2, <4>3, <4>4, CleanKeeps
    <3> QED
      BY <3>2, <3>3
  <2>2. \A b \in raced : state'[b] \in {"woken", "ready"}
    BY <1>4 DEF Window, TypeOK
  <2>3. /\ due' # NoActor => main' \in Called \cup {"fire"}
        /\ main' \in Called => due' # NoActor
    BY DEF Window, Called
  <2> QED
    BY <2>1, <2>2, <2>3 DEF Window
<1>10. Counted' /\ Ending'
  BY <1>5, <1>7 DEF Counted, Ending
<1> QED
  BY <1>3, <1>4, <1>8, <1>9, <1>10

(* The callback of a timer schedules its actor. *)
LEMMA TimerScheduleStep ==
    ASSUME Inv, ~broken, TimerSchedule
    PROVE  Inv'
<1>1. PICK a \in Actors : due = a
  BY DEF TimerSchedule, Inv, MtInv, Window, Called, TypeOK
<1>2. /\ main = "schedule" /\ main' = "top" /\ due' = NoActor /\ hand' = hand
      /\ state' = [state EXCEPT ![a] = "ready"] /\ ScheduleInject(a)
      /\ UNCHANGED <<worker, count, shutdown, active, timers, stale, waits, raced, broken>>
  BY <1>1 DEF TimerSchedule, ghosts
<1> QED
  BY <1>1, <1>2, ScheduleKeeps

(* While shutdown_ holds inside run(), nothing is left in any queue. *)
LEMMA NothingLeft ==
    ASSUME Inv, ~broken, Live(state) = {}
    PROVE  /\ \A a \in Actors : state[a] \in {"unborn", "exited"}
           /\ inject = <<>> /\ \A w \in Workers : local[w] = <<>>
           /\ \A w \in Workers : worker[w].at # "run"
<1> USE DEF Inv, MtInv
<1>1. \A a \in Actors : state[a] \in {"unborn", "exited"}
  BY DEF Live
<1>2. inject \in Seq(Actors) /\ \A w \in Workers : local[w] \in Seq(Actors)
  BY DEF TypeOK
<1>3. \A a \in Actors : ~Has(a, inject) /\ \A w \in Workers : ~Has(a, local[w])
  BY <1>1 DEF Placed, InQueue
<1>4. inject = <<>> /\ \A w \in Workers : local[w] = <<>>
  BY <1>2, <1>3, EmptyHas
<1>5. \A w \in Workers : worker[w].at # "run"
  BY <1>1 DEF Held, TypeOK, Busy
<1> QED
  BY <1>1, <1>4, <1>5

(* The workers are joined, and run() returns. *)
LEMMA JoinStep ==
    ASSUME Inv, ~broken, Join
    PROVE  Inv'
<1> USE DEF Inv, MtInv
<1>1. /\ main = "join" /\ main' = "outside" /\ local' = [w \in Workers |-> <<>>]
      /\ \A w \in Workers : worker[w].at = "off"
      /\ UNCHANGED <<state, inject, worker, count, shutdown, hand, active, timers, stale, due,
                     waits, raced, broken>>
  BY DEF Join, clock, ghosts
<1>2. Live(state) = {}
  BY <1>1 DEF Ending
<1>3. \A w \in Workers : local[w] = <<>>
  BY <1>2, NothingLeft
<1>4. local' = local
  BY <1>1, <1>3 DEF TypeOK
<1>5. TypeOK'
  BY <1>1, <1>4 DEF TypeOK
<1>6. Placed(state, local, inject, raced, broken)' /\ Held(state, worker)' /\ Counted'
  BY <1>1, <1>4 DEF Counted
<1>7. Window'
  <2>1. ASSUME NEW b \in Actors, b \notin raced PROVE Clean(b)'
    BY <1>1, <2>1, CleanKeeps DEF Window, Arms
  <2> QED
    BY <1>1, <2>1 DEF Window, Called
<1>8. Ending'
  BY <1>1 DEF Ending
<1> QED
  BY <1>5, <1>6, <1>7, <1>8

-----------------------------------------------------------------------------
(* The steps of the workers. *)

(* A worker that has started is a worker of an active run(), and one that  *)
(* runs an actor has not seen shutdown_.                                   *)
LEMMA Inside ==
    ASSUME Inv, ~broken, NEW w \in Workers, worker[w].at # "off"
    PROVE  main # "outside" /\ (worker[w].at = "run" => ~shutdown)
<1> USE DEF Inv, MtInv
<1>1. main # "outside"
  BY DEF Ending
<1>2. ASSUME worker[w].at = "run", shutdown PROVE FALSE
  BY <1>1, <1>2, NothingLeft DEF Ending
<1> QED
  BY <1>1, <1>2

(* A worker that runs nothing moves on: it may have stored shutdown_, the  *)
(* last actor having exited, or have notified the timer loop.              *)
LEMMA IdleStep ==
    ASSUME Inv, ~broken, NEW w \in Workers, worker[w].at \notin Busy \cup {"off"},
           NEW p \in Sites \ Busy, GoTo(w, p),
           UNCHANGED <<local, inject, count, hand, active, timers, stale, due, waits>>,
           shutdown' = shutdown \/ (shutdown' = TRUE /\ count = 0),
           main' = main \/ (main \in {"asleep", "timed"} /\ main' \in {"check", "top"})
    PROVE  Inv'
<1> USE DEF Inv, MtInv
<1>1. UNCHANGED <<state, raced, broken>> /\ worker[w].at # "run" /\ worker[w].at # "off"
  BY DEF GoTo, ghosts, Busy
<1>2. main # "outside" /\ main' # "outside"
  BY <1>1, Inside
<1>3. /\ worker' \in [Workers -> WorkerStates] /\ Held(state', worker')
      /\ \A v \in Workers, b \in Actors :
            Arms(v, b)' <=> Arms(v, b) /\ (v = w => worker[w].at \notin {"flag", "arm"})
  BY <1>1, GoToKeeps
<1>4. shutdown' \in BOOLEAN
  <2>1. CASE shutdown' = shutdown
    BY <2>1 DEF TypeOK
  <2>2. CASE shutdown' = TRUE
    BY <2>2, Zenon
  <2> QED
    BY <2>1, <2>2
<1>5. TypeOK'
  BY <1>1, <1>3, <1>4 DEF TypeOK, WorkerStates, Sites
<1>6. Placed(state, local, inject, raced, broken)' /\ Counted'
  BY <1>1 DEF Counted
<1>7. Window'
  <2>1. ASSUME NEW b \in Actors, b \notin raced PROVE Clean(b)'
    <3>1. \A v \in Workers : Arms(v, b)' <=> Arms(v, b)
      BY <1>3 DEF Busy
    <3>2. main' = "schedule" <=> main = "schedule"
      OBVIOUS
    <3> QED
      BY <1>1, <2>1, <3>1, <3>2, CleanKeeps DEF Window
  <2> QED
    BY <1>1, <2>1 DEF Window, Called
<1>8. Ending'
  BY <1>1, <1>2, <1>3, ZeroLive DEF Ending
<1> QED
  BY <1>3, <1>5, <1>6, <1>7, <1>8

(* A worker takes a coroutine from a queue and resumes it.  If nothing     *)
(* refers to its last receive it has left the window; if something does,   *)
(* it was in the window.                                                   *)
LEMMA TakeStep ==
    ASSUME Inv, ~broken, NEW w \in Workers, worker[w].at \notin Busy \cup {"off"},
           NEW a, Resume(w, a), Dequeues(a),
           UNCHANGED <<count, shutdown, hand, active, timers, stale, due, main, waits>>
    PROVE  Inv'
<1> USE DEF Inv, MtInv
<1>1. /\ worker[w].at \notin Busy /\ worker[w].at # "off"
      /\ main # "outside"
  BY Inside
<1>2. /\ a \in Actors /\ state[a] = "ready"
      /\ local' \in [Workers -> Seq(Actors)] /\ inject' \in Seq(Actors)
      /\ a \notin raced => ~InQueue(a, local', inject')
      /\ ~InQueue(a, local', inject') => Alone(a, local', inject')
      /\ \A b \in Actors : b # a =>
            /\ InQueue(b, local', inject') <=> InQueue(b, local, inject)
            /\ Alone(b, local, inject) => Alone(b, local', inject')
  BY DequeueTakes
<1>3. /\ worker' \in [Workers -> WorkerStates] /\ Held(state', worker')
      /\ \A v \in Workers, b \in Actors : Arms(v, b)' <=> Arms(v, b)
      /\ \A b \in Actors : state'[b] = IF b = a THEN "running" ELSE state[b]
  BY <1>1, <1>2, ResumeKeeps
<1>4. broken' \in BOOLEAN
  BY Zenon DEF Resume
<1>5. /\ broken' <=> InQueue(a, local', inject') \/ Referred(a)
      /\ raced' = IF broken' THEN raced ELSE raced \ {a}
  BY DEF Resume, Queued, InQueue, Has
<1>6. Referred(a) <=> \/ a \in timers \/ due = a
                      \/ \E v \in Workers : Arms(v, a) \/ hand[v] = a
  BY DEF Referred, Arming, Arms
<1>7. broken' => a \in raced
  <2> SUFFICES ASSUME a \notin raced PROVE ~broken'
    OBVIOUS
  <2>1. Clean(a)
    BY <1>2 DEF Window
  <2>2. ~Referred(a)
    BY <1>2, <1>6, <2>1 DEF Clean
  <2> QED
    BY <1>2, <1>5, <2>2
<1>8. raced' \subseteq raced /\ \A b \in Actors : b # a => (b \in raced' <=> b \in raced)
  BY <1>5
<1>9. a \notin raced' => ~broken' /\ ~Referred(a) /\ ~InQueue(a, local', inject')
  BY <1>5, <1>7
<1>10. Placed(state', local', inject', raced', broken')
  <2>1. ASSUME NEW b \in Actors
        PROVE  /\ InQueue(b, local', inject') /\ (b \in raced' => ~broken') => state'[b] = "ready"
               /\ b \notin raced' => /\ Alone(b, local', inject')
                                     /\ state'[b] = "ready" => InQueue(b, local', inject')
    <3>1. CASE b = a
      BY <1>2, <1>3, <1>5, <1>9, <3>1
    <3>2. CASE b # a
      BY <1>2, <1>3, <1>8, <3>2 DEF Placed
    <3> QED
      BY <3>1, <3>2
  <2> QED
    BY <2>1 DEF Placed
<1>11. Live(state') = Live(state)
  BY <1>2, <1>3, LiveKeeps
<1>12. TypeOK'
  <2>1. state' \in [Actors -> States]
    BY <1>2 DEF Resume, TypeOK, States
  <2>2. raced' \subseteq Actors
    BY <1>8 DEF TypeOK
  <2> QED
    BY <1>2, <1>3, <1>4, <2>1, <2>2 DEF TypeOK, WorkerStates, Sites, States
<1>13. Window'
  <2>1. ASSUME NEW b \in Actors, b \notin raced' PROVE Clean(b)'
    <3>1. CASE b = a
      <4>1. b \notin timers /\ due # b /\ \A v \in Workers : ~Arms(v, b) /\ hand[v] # b
        BY <1>6, <1>9, <2>1, <3>1
      <4>2. state'[b] = "running" /\ \A v \in Workers : ~Arms(v, b)'
        BY <1>2, <1>3, <3>1, <4>1
      <4> QED
        BY <4>1, <4>2 DEF Clean
    <3>2. CASE b # a
      BY <1>3, <1>8, <2>1, <3>2, CleanKeeps DEF Window
    <3> QED
      BY <3>1, <3>2
  <2>2. \A b \in raced' : ~broken' => state'[b] \in {"woken", "ready"}
    <3> SUFFICES ASSUME NEW b \in raced', ~broken' PROVE state'[b] \in {"woken", "ready"}
      OBVIOUS
    <3>1. b \in raced /\ b # a /\ b \in Actors
      BY <1>5 DEF TypeOK
    <3> QED
      BY <1>3, <3>1 DEF Window
  <2>3. broken' => raced' # {}
    BY <1>5, <1>7
  <2> QED
    BY <2>1, <2>2, <2>3 DEF Window
<1>14. Counted' /\ Ending'
  BY <1>1, <1>11 DEF Counted, Ending
<1> QED
  BY <1>3, <1>10, <1>12, <1>13, <1>14

(* worker_loop. *)
LEMMA WorkerStep ==
    ASSUME Inv, NEW w \in Workers, WorkerLoop(w)
    PROVE  Inv'
<1>1. inject \in Seq(Actors) /\ local \in [Workers -> Seq(Actors)] /\ worker \in [Workers -> WorkerStates]
  BY WorkerTyped DEF Inv, TypeOK
<1>2. ~broken
  BY DEF WorkerLoop, Steal
<1>3. CASE WorkerStop(w)
  BY <1>2, <1>3, IdleStep DEF WorkerStop, queues, clock, Sites, Busy
<1>4. CASE PopOwn(w)
  <2>1. /\ worker[w].at \notin Busy \cup {"off"}
        /\ UNCHANGED <<count, shutdown, hand, active, timers, stale, due, main, waits>>
    BY <1>4 DEF PopOwn, clock, Busy
  <2>2. CASE UNCHANGED queues /\ GoTo(w, "inject")
    BY <1>2, <2>1, <2>2, IdleStep DEF queues, Sites, Busy
  <2>3. CASE /\ local[w] # <<>> /\ local' = [local EXCEPT ![w] = Front(@)] /\ UNCHANGED inject
             /\ Resume(w, Last(local[w]))
    <3>1. Front(local[w]) \in Seq(Actors) /\ Taken(Last(local[w]), local[w], Front(local[w]))
      BY <1>1, <2>3, FrontTakes
    <3>2. local' = [local EXCEPT ![w] = Front(local[w])]
      BY <2>3
    <3>3. Dequeues(Last(local[w]))
      BY <2>3, <3>1, <3>2 DEF Dequeues
    <3> QED
      BY <1>2, <2>1, <2>3, <3>3, TakeStep
  <2> QED
    BY <1>4, <2>2, <2>3 DEF PopOwn
<1>5. CASE TryInject(w)
  <2>1. /\ worker[w].at \notin Busy \cup {"off"}
        /\ UNCHANGED <<count, shutdown, hand, active, timers, stale, due, main, waits>>
    BY <1>5 DEF TryInject, clock, Busy
  <2>2. CASE UNCHANGED queues /\ GoTo(w, "steal")
    BY <1>2, <2>1, <2>2, IdleStep DEF queues, Sites, Busy
  <2>3. CASE /\ inject # <<>> /\ inject' = Tail(inject) /\ UNCHANGED local
             /\ Resume(w, Head(inject))
    <3>1. inject' \in Seq(Actors) /\ Taken(Head(inject), inject, inject')
      BY <1>1, <2>3, TailTakes
    <3>2. Dequeues(Head(inject))
      BY <2>3, <3>1 DEF Dequeues
    <3> QED
      BY <1>2, <2>1, <2>3, <3>2, TakeStep
  <2> QED
    BY <1>5, <2>2, <2>3 DEF TryInject
<1>6. CASE StealTake(w)
  <2> DEFINE v == Victim(w)
  <2>1. /\ worker[w].at \notin Busy \cup {"off"} /\ local[v] # <<>> /\ Resume(w, Head(local[v]))
        /\ local' = [local EXCEPT ![v] = Tail(local[v])] /\ inject' = inject
        /\ UNCHANGED <<count, shutdown, hand, active, timers, stale, due, main, waits>>
    BY <1>6 DEF StealTake, clock, Busy
  <2>2. v \in Workers
    <3>1. worker[w].scan \in Nat
      BY <1>1, WorkersType DEF WorkerStates
    <3> QED
      BY <3>1, WorkersType DEF Victim
  <2> HIDE DEF v
  <2>3. Tail(local[v]) \in Seq(Actors) /\ Taken(Head(local[v]), local[v], Tail(local[v]))
    BY <1>1, <2>1, <2>2, TailTakes
  <2>4. Dequeues(Head(local[v]))
    BY <2>1, <2>2, <2>3 DEF Dequeues
  <2> QED
    BY <1>2, <2>1, <2>4, TakeStep
<1>7. CASE StealMiss(w)
  <2>1. /\ worker[w].at = "steal"
        /\ UNCHANGED <<local, inject, count, shutdown, hand, active, timers, stale, due, main, waits>>
    BY <1>7 DEF StealMiss, queues, clock
  <2>2. CASE GoTo(w, "wait")
    BY <1>2, <2>1, <2>2, IdleStep DEF Sites, Busy
  <2>3. CASE /\ worker[w].scan < NumWorkers /\ UNCHANGED <<state, ghosts>>
             /\ worker' = [worker EXCEPT ![w].scan = @ + 1]
    <3> USE DEF Inv, MtInv
    <3>1. /\ worker' \in [Workers -> WorkerStates]
          /\ \A v \in Workers : worker'[v].at = worker[v].at /\ worker'[v].cur = worker[v].cur
      <4> DEFINE r == [worker[w] EXCEPT !.scan = @ + 1]
      <4>1. worker[w] \in WorkerStates /\ worker[w].scan + 1 \in 1..NumWorkers
        BY <1>1, <2>3, WorkersType DEF WorkerStates
      <4>2. r \in WorkerStates /\ r.at = worker[w].at /\ r.cur = worker[w].cur
        BY <4>1 DEF WorkerStates
      <4>3. worker' = [worker EXCEPT ![w] = r]
        BY <2>3
      <4> HIDE DEF r
      <4> QED
        BY <1>1, <4>2, <4>3
    <3>2. UNCHANGED <<state, raced, broken>>
      BY <2>3 DEF ghosts
    <3>3. TypeOK'
      BY <2>1, <3>1, <3>2 DEF TypeOK, WorkerStates, Sites
    <3>4. Placed(state, local, inject, raced, broken)' /\ Counted'
      BY <2>1, <3>2 DEF Counted
    <3>5. Held(state, worker)'
      BY <2>1, <3>1, <3>2 DEF Held
    <3>6. Window'
      <4>1. ASSUME NEW b \in Actors, b \notin raced PROVE Clean(b)'
        BY <2>1, <3>1, <3>2, <4>1, CleanKeeps DEF Window, Arms
      <4> QED
        BY <2>1, <3>2, <4>1 DEF Window
    <3>7. Ending'
      BY <2>1, <3>1, <3>2 DEF Ending
    <3> QED
      BY <3>3, <3>4, <3>5, <3>6, <3>7
  <2> QED
    BY <1>7, <2>2, <2>3 DEF StealMiss
<1>8. CASE Wake(w)
  BY <1>2, <1>8, IdleStep DEF Wake, queues, clock, Sites, Busy
<1> QED
  BY <1>3, <1>4, <1>5, <1>6, <1>7, <1>8 DEF WorkerLoop, Steal

-----------------------------------------------------------------------------
(* The steps of the actor that a worker runs, and of its exit. *)

(* A running actor spawns another. *)
LEMMA SpawnStep ==
    ASSUME Inv, ~broken, NEW w \in Workers, NEW a \in Actors, Spawn(w, a)
    PROVE  Inv'
<1>1. /\ worker[w].at = "run" /\ state[a] = "unborn" /\ state' = [state EXCEPT ![a] = "ready"]
      /\ count' = count + 1 /\ ScheduleLocal(w, a)
      /\ UNCHANGED <<worker, shutdown, hand, active, timers, stale, due, main, waits, raced, broken>>
  BY DEF Spawn, Runs, clock, ghosts
<1>2. ~shutdown
  BY <1>1, Inside
<1> QED
  BY <1>1, <1>2, SpawnKeeps

(* A message or a signal completes the receive of a: its handle is in the  *)
(* hand of the sender, and of nobody else unless the timer was being armed *)
(* or its callback was under way.                                          *)
LEMMA SendStep ==
    ASSUME Inv, ~broken, NEW w \in Workers, NEW a \in Actors, Send(w, a)
    PROVE  Inv'
<1> USE DEF Inv, MtInv
<1>1. /\ state[a] = "waiting" /\ state' = [state EXCEPT ![a] = "woken"]
      /\ hand[w] = NoActor /\ hand' = [hand EXCEPT ![w] = a]
      /\ UNCHANGED <<local, inject, worker, count, shutdown, main, waits, broken>>
  BY DEF Send, queues
<1>2. /\ active' = active \ {a} /\ timers' = timers \ {a}
      /\ stale' = stale + (IF a \in timers THEN 1 ELSE 0)
      /\ due' = IF due = a /\ main = "fire" THEN NoActor ELSE due
      /\ raced' = IF Arming(a) # {} \/ Firing(a) THEN raced \cup {a} ELSE raced
  BY DEF Send, Disarm
<1>3. a \notin raced /\ Clean(a) /\ a # NoActor
  BY <1>1, SchedulerAssumption DEF Window
<1>4. /\ Held(state', worker')
      /\ \A b \in Actors : state'[b] = IF b = a THEN "woken" ELSE state[b]
  <2>1. "woken" \in States \ {"running"} /\ state[a] # "running"
    BY <1>1 DEF States
  <2> QED
    BY <1>1, <2>1, StateKeeps
<1>5. \A v \in Workers : hand'[v] = IF v = w THEN a ELSE hand[v]
  BY <1>1 DEF TypeOK
<1>6. raced \subseteq raced' /\ raced' \subseteq raced \cup {a}
  BY <1>2
<1>7. Placed(state', local', inject', raced', broken')
  <2>1. \A b \in Actors : state'[b] = "ready" <=> state[b] = "ready"
    BY <1>1, <1>4
  <2> QED
    BY <1>1, <1>6, <2>1, ReadyKeeps
<1>8. Live(state') = Live(state)
  BY <1>1, <1>4, LiveKeeps
<1>9. TypeOK'
  <2>1. state' \in [Actors -> States] /\ hand' \in [Workers -> Actors \cup {NoActor}]
    BY <1>1 DEF TypeOK, States
  <2>2. active' \subseteq Actors /\ timers' \subseteq Actors /\ raced' \subseteq Actors
    BY <1>2, <1>6 DEF TypeOK
  <2>3. stale' \in Nat /\ due' \in Actors \cup {NoActor}
    BY <1>2 DEF TypeOK
  <2> QED
    BY <1>1, <2>1, <2>2, <2>3 DEF TypeOK, States
<1>10. Window'
  <2>1. ASSUME NEW b \in Actors, b \notin raced' PROVE Clean(b)'
    <3>1. \A v \in Workers : Arms(v, b)' <=> Arms(v, b)
      BY <1>1 DEF Arms
    <3>2. CASE b = a
      <4>1. Arming(a) = {} /\ ~Firing(a)
        BY <1>2, <2>1, <3>2
      <4>2. \A v \in Workers : ~Arms(v, b)
        BY <3>2, <4>1 DEF Arming, Arms
      <4>3. due' # b
        BY <1>1, <1>2, <1>3, <3>2, <4>1 DEF Firing, Window, Called, Clean
      <4>4. \A v \in Workers : hand'[v] = b <=> v = w
        BY <1>1, <1>3, <1>5, <3>2 DEF Clean
      <4>5. b \notin timers' /\ state'[b] = "woken"
        BY <1>2, <1>4, <3>2
      <4> QED
        BY <3>1, <4>2, <4>3, <4>4, <4>5 DEF Clean
    <3>3. CASE b # a
      <4>1. Clean(b) /\ b # NoActor /\ state'[b] = state[b]
        BY <1>4, <1>6, <2>1, <3>3, SchedulerAssumption DEF Window
      <4>2. (b \in timers' <=> b \in timers) /\ (due' = b <=> due = b)
        BY <1>2, <3>3, <4>1
      <4>3. \A v \in Workers : hand'[v] = b <=> hand[v] = b
        BY <1>1, <1>5, <3>3, <4>1
      <4> QED
        BY <1>1, <3>1, <4>1, <4>2, <4>3, CleanKeeps
    <3> QED
      BY <3>2, <3>3
  <2>2. \A b \in raced' : state'[b] \in {"woken", "ready"}
    BY <1>4, <1>6 DEF Window, TypeOK
  <2>3. /\ due' # NoActor => main' \in Called \cup {"fire"}
        /\ main' \in Called => due' # NoActor
    BY <1>1, <1>2 DEF Window, Called
  <2> QED
    BY <1>1, <2>1, <2>2, <2>3 DEF Window
<1>11. Counted' /\ Ending'
  BY <1>1, <1>8 DEF Counted, Ending
<1> QED
  BY <1>4, <1>7, <1>9, <1>10, <1>11

(* The sender schedules the handle. *)
LEMMA ScheduleHeldStep ==
    ASSUME Inv, ~broken, NEW w \in Workers, ScheduleHeld(w)
    PROVE  Inv'
<1>1. PICK a \in Actors : hand[w] = a
  BY DEF ScheduleHeld, Inv, TypeOK
<1>2. /\ hand' = [hand EXCEPT ![w] = NoActor] /\ ScheduleLocal(w, a)
      /\ state' = [state EXCEPT ![a] = "ready"] /\ UNCHANGED <<main, due>>
      /\ UNCHANGED <<worker, count, shutdown, active, timers, stale, waits, raced, broken>>
  BY <1>1 DEF ScheduleHeld, clock, ghosts
<1> QED
  BY <1>1, <1>2, ScheduleKeeps

(* The running actor suspends: nothing refers yet to the receive that it   *)
(* begins, but the worker itself if it has a timer to arm.                 *)
LEMMA AwaitStep ==
    ASSUME Inv, ~broken, NEW w \in Workers, Await(w) \/ AwaitTimed(w)
    PROVE  Inv'
<1> USE DEF Inv, MtInv
<1>1. PICK a : a = worker[w].cur
  OBVIOUS
<1>2. /\ worker[w].at = "run" /\ waits < MaxWaits /\ waits' = waits + 1
      /\ state' = [state EXCEPT ![a] = "waiting"]
      /\ UNCHANGED <<local, inject, count, shutdown, hand, active, timers, stale, due, main,
                     raced, broken>>
  BY <1>1 DEF Await, AwaitTimed, Runs, queues, clock, ghosts
<1>3. \/ \E p \in Sites \ Busy : worker' = [worker EXCEPT ![w] = [Loop EXCEPT !.at = p]]
      \/ worker' = [worker EXCEPT ![w].at = "flag"]
  <2>1. Loop = [Loop EXCEPT !.at = "loop"] /\ "loop" \in Sites \ Busy
    BY DEF Loop, Sites, Busy
  <2> QED
    BY <2>1 DEF Await, AwaitTimed
<1>4. /\ worker' \in [Workers -> WorkerStates] /\ Held(state', worker')
      /\ a \in Actors /\ state[a] = "running"
      /\ \A b \in Actors : state'[b] = IF b = a THEN "waiting" ELSE state[b]
      /\ worker'[w].at # "run" /\ \A v \in Workers : v # w => worker'[v] = worker[v]
      /\ worker'[w].cur \in {a, NoActor}
  <2>1. "waiting" \in States \ {"running"}
    BY DEF States
  <2>2. Leaves(w, a, "waiting")
    BY <1>1, <1>2, <1>3, <2>1 DEF Leaves
  <2> QED
    BY <2>2, LeaveKeeps
<1>5. a \notin raced /\ Clean(a)
  BY <1>4 DEF Window
<1>6. Placed(state', local', inject', raced', broken')
  BY <1>2, <1>4, ReadyKeeps
<1>7. Live(state') = Live(state)
  BY <1>4, LiveKeeps
<1>8. waits' \in 0..MaxWaits
  BY <1>2, SchedulerAssumption DEF TypeOK
<1>9. TypeOK'
  <2>1. state' \in [Actors -> States]
    BY <1>2 DEF TypeOK, States
  <2> QED
    BY <1>2, <1>4, <1>8, <2>1 DEF TypeOK, WorkerStates, Sites, States
<1>10. Window'
  <2>1. ASSUME NEW b \in Actors, b \notin raced PROVE Clean(b)'
    <3>1. CASE b = a
      <4>1. b \notin timers /\ due # b /\ \A v \in Workers : ~Arms(v, b) /\ hand[v] # b
        BY <1>4, <1>5, <3>1 DEF Clean
      <4>2. state'[b] = "waiting" /\ \A v \in Workers : Arms(v, b)' => v = w
        BY <1>4, <3>1, <4>1 DEF Arms
      <4> QED
        BY <1>2, <4>1, <4>2 DEF Clean
    <3>2. CASE b # a
      <4>1. \A v \in Workers : Arms(v, b)' <=> Arms(v, b)
        BY <1>1, <1>2, <1>4, <3>2, SchedulerAssumption DEF Arms
      <4> QED
        BY <1>2, <1>4, <2>1, <3>2, <4>1, CleanKeeps DEF Window
    <3> QED
      BY <3>1, <3>2
  <2>2. \A b \in raced : state'[b] \in {"woken", "ready"}
    BY <1>4, <1>5 DEF Window, TypeOK
  <2> QED
    BY <1>2, <2>1, <2>2 DEF Window
<1>11. main # "outside"
  BY <1>2, Inside
<1>12. Counted' /\ Ending'
  BY <1>2, <1>7, <1>11 DEF Counted, Ending
<1> QED
  BY <1>4, <1>6, <1>9, <1>10, <1>12

(* await_suspend stores the flag in active_. *)
LEMMA SetActiveStep ==
    ASSUME Inv, ~broken, NEW w \in Workers, SetActive(w)
    PROVE  Inv'
<1> USE DEF Inv, MtInv
<1>1. /\ worker[w].at = "flag" /\ worker' = [worker EXCEPT ![w].at = "arm"]
      /\ active' = active \cup {worker[w].cur}
      /\ UNCHANGED <<state, local, inject, count, shutdown, hand, timers, stale, main, due, waits,
                     raced, broken>>
  BY DEF SetActive, queues, ghosts
<1>2. worker[w].cur \in Actors
  BY <1>1 DEF Held, Busy, TypeOK
<1>3. /\ worker' \in [Workers -> WorkerStates] /\ worker'[w].at = "arm"
      /\ \A v \in Workers : worker'[v].cur = worker[v].cur /\ (v # w => worker'[v] = worker[v])
  BY <1>1, WorkerTyped DEF WorkerStates, Sites
<1>4. TypeOK'
  BY <1>1, <1>2, <1>3 DEF TypeOK, WorkerStates, Sites
<1>5. Placed(state, local, inject, raced, broken)' /\ Counted'
  BY <1>1 DEF Counted
<1>6. Held(state, worker)'
  <2>1. \A v \in Workers : /\ worker'[v].at \in Busy <=> worker[v].at \in Busy
                           /\ worker'[v].at = "run" <=> worker[v].at = "run"
    BY <1>1, <1>3 DEF Busy
  <2> QED
    BY <1>1, <1>3, <2>1 DEF Held
<1>7. Window'
  <2>1. ASSUME NEW b \in Actors, b \notin raced PROVE Clean(b)'
    <3>1. \A v \in Workers : Arms(v, b)' <=> Arms(v, b)
      BY <1>1, <1>3 DEF Arms
    <3> QED
      BY <1>1, <2>1, <3>1, CleanKeeps DEF Window
  <2> QED
    BY <1>1, <2>1 DEF Window
<1>8. Ending'
  BY <1>1, <1>3 DEF Ending
<1> QED
  BY <1>4, <1>5, <1>6, <1>7, <1>8

(* await_suspend arms the timer and returns. *)
LEMMA ArmTimerStep ==
    ASSUME Inv, ~broken, NEW w \in Workers, ArmTimer(w)
    PROVE  Inv'
<1> USE DEF Inv, MtInv
<1>1. PICK a : a = worker[w].cur
  OBVIOUS
<1>2. /\ worker[w].at = "arm" /\ GoTo(w, "loop")
      /\ UNCHANGED <<state, local, inject, count, shutdown, hand, active, due, waits, raced, broken>>
      /\ \/ timers' = timers \cup {a} /\ stale' = stale
         \/ timers' = timers /\ stale' = stale + 1
  BY <1>1 DEF ArmTimer, GoTo, queues, ghosts
<1>3. \/ main' = main
      \/ main \in {"asleep", "timed"} /\ main' \in {"check", "timed", "top"}
  BY DEF ArmTimer, NotifyTimer
<1>4. main # "outside" /\ a \in Actors
  BY <1>1, <1>2, Inside DEF Held, Busy, TypeOK
<1>5. /\ worker' \in [Workers -> WorkerStates] /\ Held(state', worker')
      /\ \A v \in Workers, b \in Actors :
            Arms(v, b)' <=> Arms(v, b) /\ (v = w => worker[w].at \notin {"flag", "arm"})
  <2>1. "loop" \in Sites \ Busy /\ worker[w].at # "run"
    BY <1>2 DEF Sites, Busy
  <2> QED
    BY <1>2, <2>1, GoToKeeps
<1>6. TypeOK'
  <2>1. timers' \subseteq Actors /\ stale' \in Nat
    BY <1>2, <1>4 DEF TypeOK
  <2> QED
    BY <1>2, <1>3, <1>5, <2>1 DEF TypeOK, WorkerStates, Sites
<1>7. Placed(state, local, inject, raced, broken)' /\ Counted'
  BY <1>2 DEF Counted
<1>8. Window'
  <2>1. ASSUME NEW b \in Actors, b \notin raced PROVE Clean(b)'
    <3>1. Clean(b) /\ state'[b] = state[b] /\ (main' = "schedule" <=> main = "schedule")
      BY <1>2, <1>3, <2>1 DEF Window
    <3>2. CASE b = a
      <4>1. Arms(w, b) /\ state[b] = "waiting" /\ due # b /\ \A v \in Workers : hand[v] # b
        BY <1>1, <1>2, <3>1, <3>2 DEF Clean, Arms
      <4>2. \A v \in Workers : ~Arms(v, b)'
        BY <1>2, <1>5, <3>1, <4>1 DEF Clean
      <4> QED
        BY <1>2, <3>1, <4>1, <4>2 DEF Clean
    <3>3. CASE b # a
      <4>1. \A v \in Workers : Arms(v, b)' <=> Arms(v, b)
        BY <1>1, <1>2, <1>5, <3>3 DEF Arms
      <4>2. b \in timers' <=> b \in timers
        BY <1>2, <3>3
      <4> QED
        BY <1>2, <3>1, <4>1, <4>2, CleanKeeps
    <3> QED
      BY <3>2, <3>3
  <2> QED
    BY <1>2, <1>3, <2>1 DEF Window, Called
<1>9. Ending'
  BY <1>2, <1>3, <1>4 DEF Ending
<1> QED
  BY <1>5, <1>6, <1>7, <1>8, <1>9

(* The running actor ends. *)
LEMMA ExitStepKeeps ==
    ASSUME Inv, ~broken, NEW w \in Workers, Exit(w)
    PROVE  Inv'
<1> USE DEF Inv, MtInv
<1>1. PICK a : a = worker[w].cur
  OBVIOUS
<1>2. /\ worker[w].at = "run" /\ state' = [state EXCEPT ![a] = "exited"] /\ count' = count - 1
      /\ worker' = [worker EXCEPT ![w] = [Loop EXCEPT !.at = "signal"]]
      /\ UNCHANGED <<local, inject, shutdown, hand, active, timers, stale, due, main, waits,
                     raced, broken>>
  BY <1>1 DEF Exit, Runs, queues, clock, ghosts
<1>3. /\ worker' \in [Workers -> WorkerStates] /\ Held(state', worker')
      /\ a \in Actors /\ state[a] = "running"
      /\ \A b \in Actors : state'[b] = IF b = a THEN "exited" ELSE state[b]
      /\ \A v \in Workers : v # w => worker'[v] = worker[v]
  <2>1. "exited" \in States \ {"running"} /\ "signal" \in Sites \ Busy
    BY DEF States, Sites, Busy
  <2>2. \E p \in Sites \ Busy : worker' = [worker EXCEPT ![w] = [Loop EXCEPT !.at = p]]
    BY <1>2, <2>1
  <2>3. Leaves(w, a, "exited")
    BY <1>1, <1>2, <2>1, <2>2 DEF Leaves
  <2> QED
    BY <2>3, LeaveKeeps
<1>4. a \notin raced /\ Clean(a)
  BY <1>3 DEF Window
<1>5. Placed(state', local', inject', raced', broken')
  BY <1>2, <1>3, ReadyKeeps
<1>6. Counted' /\ count' \in 0..Cardinality(Actors)
  BY <1>2, <1>3, ExitCounts
<1>7. TypeOK'
  BY <1>2, <1>3, <1>6 DEF TypeOK, WorkerStates, Sites
<1>8. Window'
  <2>1. worker'[w].at = "signal"
    BY <1>2, LoopType, WorkerTyped DEF Sites
  <2>2. ASSUME NEW b \in Actors, b \notin raced PROVE Clean(b)'
    <3>1. \A v \in Workers : Arms(v, b)' <=> Arms(v, b)
      BY <1>2, <1>3, <2>1 DEF Arms
    <3>2. CASE b = a
      <4>1. b \notin timers /\ due # b /\ \A v \in Workers : ~Arms(v, b) /\ hand[v] # b
        BY <1>3, <1>4, <3>2 DEF Clean
      <4>2. state'[b] = "exited"
        BY <1>3, <3>2
      <4> QED
        BY <1>2, <3>1, <4>1, <4>2 DEF Clean
    <3>3. CASE b # a
      BY <1>2, <1>3, <2>2, <3>1, <3>3, CleanKeeps DEF Window
    <3> QED
      BY <3>2, <3>3
  <2>3. \A b \in raced : state'[b] \in {"woken", "ready"}
    BY <1>3, <1>4 DEF Window, TypeOK
  <2> QED
    BY <1>2, <2>2, <2>3 DEF Window
<1>9. Ending'
  BY <1>2, Inside DEF Ending
<1> QED
  BY <1>3, <1>5, <1>6, <1>7, <1>8, <1>9

(* The end of on_actor_exit. *)
LEMMA ExitEndStep ==
    ASSUME Inv, ~broken, NEW w \in Workers, ExitCheck(w) \/ ExitNotify(w)
    PROVE  Inv'
<1>1. CASE ExitCheck(w)
  <2>1. /\ worker[w].at = "signal" /\ GoTo(w, IF count = 0 THEN "notify" ELSE "loop")
        /\ UNCHANGED <<local, inject, count, hand, active, timers, stale, due, main, waits>>
    BY <1>1 DEF ExitCheck, queues, clock
  <2>2. shutdown \in BOOLEAN /\ shutdown' = (shutdown \/ count = 0)
    BY <1>1 DEF ExitCheck, Inv, TypeOK
  <2>3. shutdown' = shutdown \/ (shutdown' = TRUE /\ count = 0)
    BY <2>2, Zenon
  <2>4. CASE count = 0
    BY <2>1, <2>3, <2>4, IdleStep DEF Sites, Busy
  <2>5. CASE count # 0
    BY <2>1, <2>3, <2>5, IdleStep DEF Sites, Busy
  <2> QED
    BY <2>4, <2>5
<1>2. CASE ExitNotify(w)
  <2>1. /\ worker[w].at = "notify" /\ GoTo(w, "loop")
        /\ UNCHANGED <<local, inject, count, shutdown, hand, active, timers, stale, due, waits>>
        /\ main' = main \/ (main \in {"asleep", "timed"} /\ main' \in {"check", "top"})
    BY <1>2 DEF ExitNotify, queues, clock
  <2> QED
    BY <2>1, IdleStep DEF Sites, Busy
<1> QED
  BY <1>1, <1>2

-----------------------------------------------------------------------------
(* The inductive invariant. *)

(* It holds of a new scheduler. *)
LEMMA InvInit == Init => Inv
<1> SUFFICES ASSUME Init PROVE Inv
  OBVIOUS
<1> USE DEF Init
<1>1. inject \in Seq(Actors) /\ local \in [Workers -> Seq(Actors)]
  OBVIOUS
<1>2. \A a \in Actors : ~InQueue(a, local, inject) /\ Alone(a, local, inject)
  BY DEF InQueue, Alone, Has, Once, In
<1>3. /\ worker \in [Workers -> WorkerStates]
      /\ \A w \in Workers : worker[w].at = "off" /\ worker[w].cur = NoActor
  BY LoopType DEF Off, Sites
<1>4. Live(state) = {} /\ Cardinality(Live(state)) = 0
  BY FS_EmptySet DEF Live
<1>5. shutdown \in BOOLEAN /\ broken \in BOOLEAN /\ ~broken
  BY Zenon
<1>6. TypeOK
  BY <1>1, <1>3, <1>5, Finite, SchedulerAssumption DEF TypeOK, WorkerStates, Sites
<1>7. Placed(state, local, inject, raced, broken)
  BY <1>2 DEF Placed
<1>8. Held(state, worker)
  BY <1>3 DEF Held, Busy
<1>9. Window
  <2>1. ASSUME NEW b \in Actors PROVE Clean(b)
    BY <1>3, <2>1, SchedulerAssumption DEF Clean, Arms
  <2> QED
    BY <1>5, <2>1 DEF Window, Called
<1>10. Counted /\ Ending
  BY <1>3, <1>4 DEF Counted, Ending
<1> QED
  BY <1>6, <1>7, <1>8, <1>9, <1>10 DEF Inv, MtInv

(* Every step keeps it. *)
LEMMA InvStep == Inv /\ [Next]_vars => Inv'
<1> SUFFICES ASSUME Inv, [Next]_vars PROVE Inv'
  OBVIOUS
<1>1. CASE TimerLoop
  BY <1>1, MainStep, TimerDueStep, TimerResetStep, TimerScheduleStep, JoinStep DEF TimerLoop
<1>2. CASE ~broken /\ (Run \/ \E a \in Actors : SpawnOutside(a))
  BY <1>2, RunStep, SpawnOutsideStep
<1>3. ASSUME NEW w \in Workers, Thread(w) PROVE Inv'
  <2>1. CASE WorkerLoop(w)
    BY <2>1, WorkerStep
  <2>2. CASE ActorStep(w)
    BY <2>2, SpawnStep, SendStep, ScheduleHeldStep, AwaitStep, SetActiveStep, ArmTimerStep,
       ExitStepKeeps DEF ActorStep
  <2>3. CASE ExitStep(w)
    BY <2>3, ExitEndStep DEF ExitStep
  <2> QED
    BY <1>3, <2>1, <2>2, <2>3 DEF Thread
<1>4. CASE UNCHANGED vars
  <2>1. UNCHANGED <<state, local, inject, worker, count, shutdown, hand, active, timers, stale, main,
                    due, waits, raced, broken>>
    BY <1>4 DEF vars
  <2> QED
    BY <2>1 DEF Inv, TypeOK, MtInv, Placed, Held, Window, Clean, Arms, Counted, Live, Ending
<1> QED
  BY <1>1, <1>2, <1>3, <1>4 DEF Next

(* The inductive invariant holds always. *)
LEMMA InvAlways == Spec => []Inv
BY InvInit, InvStep, PTL DEF Spec

(* Every variable keeps its type. *)
THEOREM TypeCorrect == Spec => []TypeOK
<1>1. Inv => TypeOK
  BY DEF Inv
<1> QED
  BY <1>1, InvAlways, PTL

-----------------------------------------------------------------------------
(* A handle is in one place. *)

(* The positions of a handle that a queue has at most once. *)
LEMMA Positions ==
    ASSUME NEW q, NEW a, Once(a, q)
    PROVE  Cardinality(In(a, q)) = IF Has(a, q) THEN 1 ELSE 0
<1>1. ASSUME Has(a, q) PROVE Cardinality(In(a, q)) = 1
  <2>1. PICK i : i \in In(a, q)
    BY <1>1 DEF Has
  <2>2. In(a, q) = {i}
    BY <2>1 DEF Once
  <2> QED
    BY <2>2, FS_Singleton
<1>2. ASSUME ~Has(a, q) PROVE Cardinality(In(a, q)) = 0
  BY <1>2, FS_EmptySet DEF Has
<1> QED
  BY <1>1, <1>2

(* The places of an actor in the deques. *)
LEMMA InDeques ==
    ASSUME NEW a, Alone(a, local, inject)
    PROVE  LET D == UNION {{w} \X In(a, local[w]) : w \in Workers}
           IN  /\ (\A w \in Workers : ~Has(a, local[w])) => Cardinality(D) = 0
               /\ (\E w \in Workers : Has(a, local[w])) => Cardinality(D) = 1
<1> DEFINE D == UNION {{w} \X In(a, local[w]) : w \in Workers}
<1>1. ASSUME \A w \in Workers : ~Has(a, local[w]) PROVE Cardinality(D) = 0
  <2>1. \A w \in Workers : In(a, local[w]) = {}
    BY <1>1 DEF Has
  <2>2. D = {}
    BY <2>1
  <2> QED
    BY <2>2, FS_EmptySet
<1>2. ASSUME NEW w \in Workers, Has(a, local[w]) PROVE Cardinality(D) = 1
  <2>1. \A v \in Workers : v # w => In(a, local[v]) = {}
    BY <1>2 DEF Alone, Has
  <2>2. PICK i : i \in In(a, local[w])
    BY <1>2 DEF Has
  <2>3. In(a, local[w]) = {i}
    BY <2>2 DEF Alone, Once
  <2>4. D = {<<w, i>>}
    <3>1. ASSUME NEW x \in D PROVE x = <<w, i>>
      <4>1. PICK v \in Workers : x \in {v} \X In(a, local[v])
        BY <3>1
      <4>2. v = w
        BY <4>1, <2>1
      <4> QED
        BY <4>1, <4>2, <2>3
    <3>2. <<w, i>> \in {w} \X In(a, local[w])
      BY <2>3
    <3>3. <<w, i>> \in D
      BY <3>2
    <3> QED
      BY <3>1, <3>3
  <2> QED
    BY <2>4, FS_Singleton
<1> QED
  BY <1>1, <1>2

(* A set of workers with at most one element. *)
LEMMA OneWorker ==
    ASSUME NEW S, S \subseteq Workers, \A w, v \in S : w = v
    PROVE  Cardinality(S) = IF S = {} THEN 0 ELSE 1
<1>1. ASSUME NEW w \in S PROVE Cardinality(S) = 1
  <2>1. S = {w}
    OBVIOUS
  <2> QED
    BY <2>1, FS_Singleton
<1> QED
  BY <1>1, FS_EmptySet

(* The invariant says where the handles are. *)
LEMMA InvHolds == Inv => HandleHeldOnce
<1> SUFFICES ASSUME Inv PROVE HandleHeldOnce
  OBVIOUS
<1> USE DEF Inv, MtInv
<1>1. ASSUME NEW a \in Actors \ raced PROVE Places(a) = IF state[a] = "ready" THEN 1 ELSE 0
  <2> DEFINE D == UNION {{w} \X In(a, local[w]) : w \in Workers}
  <2>1. Places(a) = Cardinality(In(a, inject)) + Cardinality(D)
    BY DEF Places
  <2>2. Alone(a, local, inject) /\ (InQueue(a, local, inject) <=> state[a] = "ready")
    BY <1>1 DEF Placed
  <2>3. /\ (\A w \in Workers : ~Has(a, local[w])) => Cardinality(D) = 0
        /\ (\E w \in Workers : Has(a, local[w])) => Cardinality(D) = 1
    BY <2>2, InDeques
  <2>4. Cardinality(In(a, inject)) = IF Has(a, inject) THEN 1 ELSE 0
    BY <2>2, Positions DEF Alone
  <2> HIDE DEF D
  <2> QED
    BY <2>1, <2>2, <2>3, <2>4 DEF Alone, InQueue
<1>2. ASSUME NEW a \in Actors \ raced PROVE Hands(a) = IF state[a] = "woken" THEN 1 ELSE 0
  <2> DEFINE S == {w \in Workers : hand[w] = a}
  <2>1. Clean(a)
    BY <1>2 DEF Window
  <2>2. Cardinality(S) = IF S = {} THEN 0 ELSE 1
    BY <2>1, OneWorker DEF Clean
  <2>3. S # {} <=> \E w \in Workers : hand[w] = a
    OBVIOUS
  <2>4. Hands(a) = Cardinality(S) + (IF due = a /\ main = "schedule" THEN 1 ELSE 0)
    BY DEF Hands
  <2> HIDE DEF S
  <2> QED
    BY <2>1, <2>2, <2>3, <2>4 DEF Clean
<1>3. ASSUME NEW a \in Actors \ raced
      PROVE  Cardinality({w \in Workers : worker[w].at = "run" /\ worker[w].cur = a})
                = IF state[a] = "running" THEN 1 ELSE 0
  <2> DEFINE S == {w \in Workers : worker[w].at = "run" /\ worker[w].cur = a}
  <2>1. Cardinality(S) = IF S = {} THEN 0 ELSE 1
    BY OneWorker DEF Held
  <2>2. S # {} <=> state[a] = "running"
    BY DEF Held
  <2> HIDE DEF S
  <2>3. Cardinality(S) = IF state[a] = "running" THEN 1 ELSE 0
    BY <2>1, <2>2
  <2> QED
    BY <2>3 DEF S
<1>4. ASSUME NEW a \in Actors \ raced,
             a \in timers \/ Arming(a) # {} \/ (due = a /\ main # "schedule")
      PROVE  state[a] = "waiting"
  BY <1>4 DEF Window, Clean, Arming, Arms
<1>5. broken => raced # {}
  BY DEF Window
<1> QED
  BY <1>1, <1>2, <1>3, <1>4, <1>5 DEF HandleHeldOnce

(* Outside the window of actor.hpp in which a message meets the timer of   *)
(* the same receive, a handle is in one place: one place in all the queues *)
(* of mt_scheduler.hpp, the hand of one sender or of the timer, or one     *)
(* worker.  Undefined behaviour comes from that window only.               *)
THEOREM HandlesHeldOnce == Spec => []HandleHeldOnce
BY InvAlways, InvHolds, PTL

(* When run() returns, every actor spawned has exited and no handle is     *)
(* dropped with the deques.                                                *)
THEOREM RunReturnsDone == Spec => ReturnsWhenDone
<1> DEFINE Done == /\ \A a \in Actors : state[a] \in {"unborn", "exited"}
                   /\ inject = <<>> /\ \A w \in Workers : local[w] = <<>>
<1>1. Next => ~broken
  BY DEF Next, TimerLoop, Thread, WorkerLoop, Steal, ActorStep, ExitStep
<1>2. Inv /\ [Next]_vars => [main = "join" /\ main' = "outside" => Done]_vars
  <2> SUFFICES ASSUME Inv, [Next]_vars, main = "join", main' = "outside" PROVE Done
    OBVIOUS
  <2>1. ~broken
    BY <1>1 DEF vars
  <2>2. Live(state) = {}
    BY DEF Inv, MtInv, Ending
  <2> QED
    BY <2>1, <2>2, NothingLeft
<1> QED
  BY <1>2, InvAlways, PTL DEF Spec, ReturnsWhenDone

=============================================================================

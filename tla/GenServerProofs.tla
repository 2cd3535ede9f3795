--------------------------- MODULE GenServerProofs ---------------------------
(***************************************************************************)
(* Proofs about GenServer: which reply a call returns, the order in which  *)
(* requests are handled, and what a suspended actor leaves in its mailbox, *)
(* for any number of actors and requests.                                  *)
(*                                                                         *)
(* The parts of the inductive invariant take the state as arguments: a     *)
(* send that runs the receiver's visitor goes through a state that no      *)
(* other step sees, and the invariant holds there too.                     *)
(***************************************************************************)
EXTENDS GenServer, SequenceTheorems, WellFoundedInduction, NaturalsInduction, TLAPS

-----------------------------------------------------------------------------
(* The inductive invariant. *)

Messages == Requests \cup Replies \cup Signals
CallLocals == [request : Requests \cup {None}, deadline : Int,
               result : Replies \cup {None, TimedOut}]

Outcomes == Replies \cup {TimedOut, Failed}

Typed(ph, mb, cl, nid, snt, out, hd) ==
    /\ ph \in [Actors -> Phases] /\ mb \in [Actors -> Seq(Messages)]
    /\ cl \in [Actors -> CallLocals] /\ hd \in [Actors -> Seq(Requests)]
    /\ nid \in [Actors -> 0..MaxRequests] /\ snt \in [Actors -> 0..MaxRequests]
    /\ out \in [Actors -> Seq(Outcomes)]

Calling == {"loop", "waiting", "woken"}

(* Calls are numbered by request ids: one outcome for each call that has   *)
(* ended, and the last id belongs to the call that has not.                *)
Numbered(ph, cl, nid, snt, out) ==
    \A a \in Actors :
        /\ nid[a] <= snt[a]
        /\ Len(out[a]) = IF ph[a] \in Calling THEN nid[a] - 1 ELSE nid[a]
        /\ ph[a] \in Calling => cl[a].request.id = nid[a] - 1
        /\ ph[a] = "woken" => cl[a].result # None

(* m is a Reply to a, by the server that a called, which has handled it. *)
Answers(m, a, hd) ==
    /\ m.answers.from = a
    /\ m.answers.id = m.id
    /\ m.by = m.answers.to
    /\ \E j \in DOMAIN hd[m.by] : hd[m.by][j] = m.answers

(* Wherever a Reply is, it answers a request of the actor that has it. *)
Correlated(mb, cl, out, hd) ==
    \A a \in Actors :
        /\ \A i \in DOMAIN mb[a] : IsReply(mb[a][i]) => Answers(mb[a][i], a, hd)
        /\ IsReply(cl[a].result) => Answers(cl[a].result, a, hd)
        /\ \A i \in DOMAIN out[a] :
              IsReply(out[a][i]) => Answers(out[a][i], a, hd) /\ out[a][i].id = i - 1

(* r was sent, and before q if they have the same sender. *)
Known(r, snt) == r.n <= snt[r.from]
Before(r, q) == r.from = q.from => r.n < q.n

(* Requests are handled and queued in the order in which they were sent,   *)
(* except that a deaf server has left what it handled last in its mailbox. *)
Ordered(ph, mb, hd, snt) ==
    \A s \in Actors :
        /\ \A i \in DOMAIN hd[s] : Known(hd[s][i], snt)
        /\ \A i, j \in DOMAIN hd[s] : i < j => Before(hd[s][i], hd[s][j])
        /\ \A i \in DOMAIN mb[s] :
              mb[s][i] \in Requests => Known(mb[s][i], snt) /\ mb[s][i].to = s
        /\ ph[s] # "deaf" =>
              /\ \A i \in DOMAIN hd[s], j \in DOMAIN mb[s] :
                    mb[s][j] \in Requests => Before(hd[s][i], mb[s][j])
              /\ \A i, j \in DOMAIN mb[s] :
                    i < j /\ mb[s][i] \in Requests /\ mb[s][j] \in Requests
                        => Before(mb[s][i], mb[s][j])

(* A suspended actor has nothing in its mailbox that it waits for. *)
Asleep(ph, mb) ==
    \A a \in Actors :
        /\ ph[a] = "serving" => mb[a] = <<>>
        /\ ph[a] = "waiting" => \A i \in DOMAIN mb[a] : ~IsReply(mb[a][i])

Good(ph, mb, cl, nid, snt, out, hd) ==
    /\ Typed(ph, mb, cl, nid, snt, out, hd)
    /\ Numbered(ph, cl, nid, snt, out)
    /\ Correlated(mb, cl, out, hd)
    /\ Ordered(ph, mb, hd, snt)
    /\ Asleep(ph, mb)

GenServerInv == Good(phase, mailbox, call, nextId, sent, outcome, handled)

-----------------------------------------------------------------------------
(* Messages and sequences. *)

(* The kind of a message tells what it is. *)
LEMMA Kinds ==
    ASSUME NEW m \in Messages
    PROVE  /\ IsReply(m) <=> m \in Replies
           /\ m \in Requests <=> m.kind \in {"call", "cast"}
           /\ m \in Requests => ~IsReply(m)
BY DEF Messages, Requests, Replies, Signals, IsReply

(* The results of a try_receive other than a Reply. *)
LEMMA NoReplies ==
    /\ ~IsReply(None) /\ ~IsReply(TimedOut) /\ ~IsReply(Failed)
    /\ None # TimedOut /\ None \notin Replies
BY DEF IsReply, None, TimedOut, Failed, Replies

(* A nonempty set of numbers has a least element. *)
LEMMA LeastExists ==
    ASSUME NEW T, T \subseteq Nat, T # {}
    PROVE  \E i \in T : \A j \in T : i <= j
<1> DEFINE R == OpToRel(<, Nat)
<1>1. IsWellFoundedOn(R, Nat)
  BY NatLessThanWellFounded
<1>2. PICK i \in T : \A j \in T : ~(<<j, i>> \in R)
  <2> HIDE DEF R
  <2> QED
    BY <1>1, WFMin
<1>3. \A j \in T : ~(j < i)
  BY <1>2 DEF OpToRel
<1> QED
  BY <1>3

(* Appending to a sequence. *)
LEMMA AppendElements ==
    ASSUME NEW S, NEW q \in Seq(S), NEW m \in S
    PROVE  /\ Append(q, m) \in Seq(S) /\ Len(Append(q, m)) = Len(q) + 1
           /\ Len(q) \in Nat /\ DOMAIN q = 1..Len(q) /\ DOMAIN Append(q, m) = 1..(Len(q) + 1)
           /\ Append(q, m)[Len(q) + 1] = m
           /\ \A i \in 1..Len(q) : Append(q, m)[i] = q[i] /\ q[i] \in S
<1>1. /\ Append(q, m) \in Seq(S) /\ Len(Append(q, m)) = Len(q) + 1
      /\ \A i \in 1..Len(q) : Append(q, m)[i] = q[i]
      /\ Append(q, m)[Len(q) + 1] = m
  BY AppendProperties
<1>2. Len(q) \in Nat /\ DOMAIN q = 1..Len(q) /\ \A i \in 1..Len(q) : q[i] \in S
  BY LenProperties, ElementOfSeq
<1>3. DOMAIN Append(q, m) = 1..Len(Append(q, m))
  BY <1>1, LenProperties
<1> QED
  BY <1>1, <1>2, <1>3

(* q is left after messages were taken out of p. *)
Shrunk(q, p) ==
    \E f \in [DOMAIN q -> DOMAIN p] :
        /\ \A i \in DOMAIN q : q[i] = p[f[i]]
        /\ \A i, j \in DOMAIN q : i < j => f[i] < f[j]

(* The mailbox of an actor that is gone. *)
LEMMA EmptyShrunk ==
    ASSUME NEW S, NEW p \in Seq(S)
    PROVE  Shrunk(<<>>, p) /\ <<>> \in Seq(S)
<1>1. DOMAIN <<>> = {} /\ <<>> \in Seq(S)
  OBVIOUS
<1>2. [i \in {} |-> i] \in [{} -> DOMAIN p]
  OBVIOUS
<1> QED
  BY <1>1, <1>2 DEF Shrunk

(* The first message is taken. *)
LEMMA TailShrunk ==
    ASSUME NEW S, NEW p \in Seq(S), p # <<>>
    PROVE  Shrunk(Tail(p), p) /\ Tail(p) \in Seq(S) /\ Head(p) = p[1]
<1>1. /\ Tail(p) \in Seq(S) /\ Len(Tail(p)) = Len(p) - 1
      /\ \A i \in 1..Len(Tail(p)) : Tail(p)[i] = p[i + 1]
  BY HeadTailProperties
<1>2. Len(p) \in Nat /\ DOMAIN p = 1..Len(p) /\ DOMAIN Tail(p) = 1..Len(Tail(p))
  BY <1>1, LenProperties
<1> DEFINE f == [i \in DOMAIN Tail(p) |-> i + 1]
<1>3. f \in [DOMAIN Tail(p) -> DOMAIN p]
  BY <1>1, <1>2
<1>4. \A i \in DOMAIN Tail(p) : Tail(p)[i] = p[f[i]]
  BY <1>1, <1>2
<1>5. \A i, j \in DOMAIN Tail(p) : i < j => f[i] < f[j]
  BY <1>1, <1>2
<1> HIDE DEF f
<1> QED
  BY <1>1, <1>3, <1>4, <1>5 DEF Shrunk

(* The k-th message is taken. *)
LEMMA RemoveShrunk ==
    ASSUME NEW S, NEW p \in Seq(S), NEW k \in 1..Len(p)
    PROVE  Shrunk(RemoveAt(p, k), p) /\ RemoveAt(p, k) \in Seq(S)
<1>1. Len(p) \in Nat /\ DOMAIN p = 1..Len(p) /\ \A i \in 1..Len(p) : p[i] \in S
  BY LenProperties, ElementOfSeq
<1> DEFINE A == SubSeq(p, 1, k - 1)
           B == SubSeq(p, k + 1, Len(p))
<1>2. /\ A \in Seq(S) /\ Len(A) = k - 1
      /\ \A i \in 1..(k - 1) : A[i] = p[i]
  <2>1. k - 1 \in Int /\ 1 \in Int /\ \A i \in 1..(k - 1) : p[i] \in S
    BY <1>1
  <2>2. /\ A \in Seq(S) /\ Len(A) = IF 1 <= k - 1 THEN k - 1 - 1 + 1 ELSE 0
        /\ \A i \in 1..(k - 1 - 1 + 1) : A[i] = p[1 + i - 1]
    BY <2>1, SubSeqProperties
  <2> QED
    BY <1>1, <2>2
<1>3. /\ B \in Seq(S) /\ Len(B) = Len(p) - k
      /\ \A i \in 1..(Len(p) - k) : B[i] = p[i + k]
  <2>1. k + 1 \in Int /\ Len(p) \in Int /\ \A i \in (k + 1)..Len(p) : p[i] \in S
    BY <1>1
  <2>2. /\ B \in Seq(S) /\ Len(B) = IF k + 1 <= Len(p) THEN Len(p) - (k + 1) + 1 ELSE 0
        /\ \A i \in 1..(Len(p) - (k + 1) + 1) : B[i] = p[k + 1 + i - 1]
    BY <2>1, SubSeqProperties
  <2> HIDE DEF B
  <2>3. Len(B) = Len(p) - k
    <3>1. \A l \in Nat : \A m \in 1..l :
             (IF m + 1 <= l THEN l - (m + 1) + 1 ELSE 0) = l - m
      OBVIOUS
    <3>2. Len(p) \in Nat /\ k \in 1..Len(p)
      BY <1>1
    <3> QED
      BY <2>2, <3>1, <3>2
  <2>4. ASSUME NEW i \in 1..(Len(p) - k) PROVE B[i] = p[i + k]
    <3>1. i \in 1..(Len(p) - (k + 1) + 1) /\ k + 1 + i - 1 = i + k
      BY <1>1
    <3> QED
      BY <2>2, <3>1
  <2> QED
    BY <2>2, <2>3, <2>4
<1>4. RemoveAt(p, k) = A \o B
  BY DEF RemoveAt
<1> HIDE DEF A, B
<1>5. /\ A \o B \in Seq(S) /\ Len(A \o B) = Len(A) + Len(B)
      /\ \A i \in 1..(Len(A) + Len(B)) :
            (A \o B)[i] = IF i <= Len(A) THEN A[i] ELSE B[i - Len(A)]
  BY <1>2, <1>3, ConcatProperties
<1> DEFINE q == A \o B
           f == [i \in 1..(Len(p) - 1) |-> IF i < k THEN i ELSE i + 1]
<1>6. DOMAIN q = 1..(Len(p) - 1) /\ q \in Seq(S)
  <2>1. DOMAIN q = 1..Len(q)
    BY <1>5, LenProperties
  <2> QED
    BY <2>1, <1>1, <1>2, <1>3, <1>5
<1>7. f \in [1..(Len(p) - 1) -> DOMAIN p]
  BY <1>1
<1>8. ASSUME NEW i \in 1..(Len(p) - 1) PROVE q[i] = p[f[i]]
  <2>1. i \in 1..(Len(A) + Len(B)) /\ Len(A) = k - 1
    BY <1>1, <1>2, <1>3
  <2>2. q[i] = IF i <= k - 1 THEN A[i] ELSE B[i - (k - 1)]
    BY <2>1, <1>5
  <2>3. CASE i < k
    <3>1. i \in 1..(k - 1) /\ i <= k - 1
      BY <2>3, <1>1
    <3> QED
      BY <2>2, <2>3, <3>1, <1>2
  <2>4. CASE ~(i < k)
    <3>1. i - (k - 1) \in 1..(Len(p) - k) /\ ~(i <= k - 1) /\ i - (k - 1) + k = i + 1
      BY <2>4, <1>1
    <3>2. B[i - (k - 1)] = p[i + 1]
      BY <3>1, <1>3
    <3> QED
      BY <2>2, <2>4, <3>1, <3>2
  <2> QED
    BY <2>3, <2>4
<1>9. \A i, j \in 1..(Len(p) - 1) : i < j => f[i] < f[j]
  BY <1>1
<1> HIDE DEF q, f
<1> QED
  BY <1>4, <1>6, <1>7, <1>8, <1>9 DEF Shrunk, q

-----------------------------------------------------------------------------
(* What the elementary changes of a step keep. *)

(* A message is queued at an actor that does not wait for it. *)
LEMMA QueueKeeps ==
    ASSUME NEW ph, NEW mb, NEW cl, NEW nid, NEW snt, NEW out, NEW hd,
           Good(ph, mb, cl, nid, snt, out, hd),
           NEW a \in Actors, NEW m \in Messages,
           ph[a] # "serving",
           IsReply(m) => ph[a] # "waiting" /\ Answers(m, a, hd),
           m \in Requests =>
               /\ Known(m, snt) /\ m.to = a
               /\ ph[a] # "deaf" =>
                     /\ \A i \in DOMAIN hd[a] : Before(hd[a][i], m)
                     /\ \A i \in DOMAIN mb[a] : mb[a][i] \in Requests => Before(mb[a][i], m)
    PROVE  Good(ph, Queue(mb, a, m), cl, nid, snt, out, hd)
<1> DEFINE q == Queue(mb, a, m)
           n == Len(mb[a]) + 1
<1>1. mb \in [Actors -> Seq(Messages)] /\ mb[a] \in Seq(Messages)
  BY DEF Good, Typed
<1>2. /\ q \in [Actors -> Seq(Messages)] /\ \A b \in Actors : b # a => q[b] = mb[b]
      /\ DOMAIN mb[a] = 1..Len(mb[a]) /\ Len(mb[a]) \in Nat
      /\ DOMAIN q[a] = 1..n /\ q[a][n] = m /\ \A i \in 1..Len(mb[a]) : q[a][i] = mb[a][i]
  BY <1>1, AppendElements DEF Queue
<1> HIDE DEF q, n
<1>3. \A i \in DOMAIN q[a] : i = n \/ (i \in DOMAIN mb[a] /\ q[a][i] = mb[a][i])
  BY <1>2 DEF n
<1>4. \A i, j \in DOMAIN q[a] : i < j => i \in DOMAIN mb[a] /\ q[a][i] = mb[a][i]
  BY <1>2 DEF n
<1>5. Typed(ph, q, cl, nid, snt, out, hd)
  BY <1>2 DEF Good, Typed
<1>6. Numbered(ph, cl, nid, snt, out)
  BY DEF Good
<1>7. Correlated(q, cl, out, hd)
  <2> SUFFICES ASSUME NEW b \in Actors, NEW i \in DOMAIN q[b], IsReply(q[b][i])
               PROVE  Answers(q[b][i], b, hd)
    BY DEF Good, Correlated
  <2>1. CASE b # a
    BY <2>1, <1>2 DEF Good, Correlated
  <2>2. CASE b = a
    BY <2>2, <1>2, <1>3 DEF Good, Correlated
  <2> QED
    BY <2>1, <2>2
<1>8. Ordered(ph, q, hd, snt)
  <2> SUFFICES ASSUME NEW s \in Actors
               PROVE  /\ \A i \in DOMAIN q[s] :
                            q[s][i] \in Requests => Known(q[s][i], snt) /\ q[s][i].to = s
                      /\ ph[s] # "deaf" =>
                            /\ \A i \in DOMAIN hd[s], j \in DOMAIN q[s] :
                                  q[s][j] \in Requests => Before(hd[s][i], q[s][j])
                            /\ \A i, j \in DOMAIN q[s] :
                                  i < j /\ q[s][i] \in Requests /\ q[s][j] \in Requests
                                      => Before(q[s][i], q[s][j])
    BY DEF Good, Ordered
  <2>1. CASE s # a
    BY <2>1, <1>2 DEF Good, Ordered
  <2>2. CASE s = a
    <3>1. \A i \in DOMAIN q[s] :
             q[s][i] \in Requests => Known(q[s][i], snt) /\ q[s][i].to = s
      BY <2>2, <1>2, <1>3 DEF Good, Ordered
    <3>2. ASSUME ph[s] # "deaf", NEW i \in DOMAIN hd[s], NEW j \in DOMAIN q[s],
                 q[s][j] \in Requests
          PROVE  Before(hd[s][i], q[s][j])
      BY <2>2, <3>2, <1>2, <1>3 DEF Good, Ordered
    <3>3. ASSUME ph[s] # "deaf", NEW i \in DOMAIN q[s], NEW j \in DOMAIN q[s],
                 i < j, q[s][i] \in Requests, q[s][j] \in Requests
          PROVE  Before(q[s][i], q[s][j])
      <4>1. i \in DOMAIN mb[a] /\ q[s][i] = mb[a][i]
        BY <2>2, <3>3, <1>4
      <4>2. CASE j = n
        BY <2>2, <3>3, <4>1, <4>2, <1>2
      <4>3. CASE j # n
        BY <2>2, <3>3, <4>1, <4>3, <1>2, <1>3 DEF Good, Ordered
      <4> QED
        BY <4>2, <4>3
    <3> QED
      BY <3>1, <3>2, <3>3
  <2> QED
    BY <2>1, <2>2
<1>9. Asleep(ph, q)
  <2> SUFFICES ASSUME NEW b \in Actors
               PROVE  /\ ph[b] = "serving" => q[b] = <<>>
                      /\ ph[b] = "waiting" => \A i \in DOMAIN q[b] : ~IsReply(q[b][i])
    BY DEF Asleep
  <2>1. CASE b # a
    BY <2>1, <1>2 DEF Good, Asleep
  <2>2. CASE b = a
    BY <2>2, <1>2, <1>3 DEF Good, Asleep
  <2> QED
    BY <2>1, <2>2
<1> QED
  BY <1>5, <1>6, <1>7, <1>8, <1>9 DEF Good, q

(* Messages are taken out of a mailbox. *)
LEMMA ShrinkKeeps ==
    ASSUME NEW ph, NEW mb, NEW cl, NEW nid, NEW snt, NEW out, NEW hd,
           Good(ph, mb, cl, nid, snt, out, hd),
           NEW a \in Actors, NEW p \in Seq(Messages), Shrunk(p, mb[a]),
           ph[a] # "serving"
    PROVE  Good(ph, [mb EXCEPT ![a] = p], cl, nid, snt, out, hd)
<1> DEFINE q == [mb EXCEPT ![a] = p]
<1>1. /\ q \in [Actors -> Seq(Messages)] /\ q[a] = p
      /\ \A b \in Actors : b # a => q[b] = mb[b]
  BY DEF Good, Typed
<1>2. PICK f \in [DOMAIN p -> DOMAIN mb[a]] :
         /\ \A i \in DOMAIN p : p[i] = mb[a][f[i]]
         /\ \A i, j \in DOMAIN p : i < j => f[i] < f[j]
  BY DEF Shrunk
<1> HIDE DEF q
<1>3. \A i \in DOMAIN q[a] : f[i] \in DOMAIN mb[a] /\ q[a][i] = mb[a][f[i]]
  BY <1>1, <1>2
<1>4. Typed(ph, q, cl, nid, snt, out, hd)
  BY <1>1 DEF Good, Typed
<1>5. Numbered(ph, cl, nid, snt, out)
  BY DEF Good
<1>6. Correlated(q, cl, out, hd)
  <2> SUFFICES ASSUME NEW b \in Actors, NEW i \in DOMAIN q[b], IsReply(q[b][i])
               PROVE  Answers(q[b][i], b, hd)
    BY DEF Good, Correlated
  <2>1. CASE b # a
    BY <2>1, <1>1 DEF Good, Correlated
  <2>2. CASE b = a
    BY <2>2, <1>3 DEF Good, Correlated
  <2> QED
    BY <2>1, <2>2
<1>7. Ordered(ph, q, hd, snt)
  <2> SUFFICES ASSUME NEW s \in Actors
               PROVE  /\ \A i \in DOMAIN q[s] :
                            q[s][i] \in Requests => Known(q[s][i], snt) /\ q[s][i].to = s
                      /\ ph[s] # "deaf" =>
                            /\ \A i \in DOMAIN hd[s], j \in DOMAIN q[s] :
                                  q[s][j] \in Requests => Before(hd[s][i], q[s][j])
                            /\ \A i, j \in DOMAIN q[s] :
                                  i < j /\ q[s][i] \in Requests /\ q[s][j] \in Requests
                                      => Before(q[s][i], q[s][j])
    BY DEF Good, Ordered
  <2>1. CASE s # a
    BY <2>1, <1>1 DEF Good, Ordered
  <2>2. CASE s = a
    <3>1. \A i \in DOMAIN q[s] :
             q[s][i] \in Requests => Known(q[s][i], snt) /\ q[s][i].to = s
      BY <2>2, <1>3 DEF Good, Ordered
    <3>2. ASSUME ph[s] # "deaf", NEW i \in DOMAIN hd[s], NEW j \in DOMAIN q[s],
                 q[s][j] \in Requests
          PROVE  Before(hd[s][i], q[s][j])
      BY <2>2, <3>2, <1>3 DEF Good, Ordered
    <3>3. ASSUME ph[s] # "deaf", NEW i \in DOMAIN q[s], NEW j \in DOMAIN q[s],
                 i < j, q[s][i] \in Requests, q[s][j] \in Requests
          PROVE  Before(q[s][i], q[s][j])
      <4>1. f[i] < f[j]
        BY <2>2, <3>3, <1>1, <1>2
      <4> QED
        BY <2>2, <3>3, <4>1, <1>3 DEF Good, Ordered
    <3> QED
      BY <3>1, <3>2, <3>3
  <2> QED
    BY <2>1, <2>2
<1>8. Asleep(ph, q)
  <2> SUFFICES ASSUME NEW b \in Actors
               PROVE  /\ ph[b] = "serving" => q[b] = <<>>
                      /\ ph[b] = "waiting" => \A i \in DOMAIN q[b] : ~IsReply(q[b][i])
    BY DEF Asleep
  <2>1. CASE b # a
    BY <2>1, <1>1 DEF Good, Asleep
  <2>2. CASE b = a
    BY <2>2, <1>3 DEF Good, Asleep
  <2> QED
    BY <2>1, <2>2
<1> QED
  BY <1>4, <1>5, <1>6, <1>7, <1>8 DEF Good, q

(* An actor changes its phase. *)
LEMMA PhaseKeeps ==
    ASSUME NEW ph, NEW mb, NEW cl, NEW nid, NEW snt, NEW out, NEW hd,
           Good(ph, mb, cl, nid, snt, out, hd),
           NEW a \in Actors, NEW p \in Phases,
           ph[a] \in Calling <=> p \in Calling,
           ph[a] = "deaf" => p = "deaf",
           p = "woken" => cl[a].result # None,
           p = "serving" => mb[a] = <<>>,
           p = "waiting" => \A i \in DOMAIN mb[a] : ~IsReply(mb[a][i])
    PROVE  Good([ph EXCEPT ![a] = p], mb, cl, nid, snt, out, hd)
<1> DEFINE q == [ph EXCEPT ![a] = p]
<1>1. /\ q \in [Actors -> Phases] /\ q[a] = p
      /\ \A b \in Actors : b # a => q[b] = ph[b]
  BY DEF Good, Typed
<1> HIDE DEF q
<1>2. Typed(q, mb, cl, nid, snt, out, hd)
  BY <1>1 DEF Good, Typed
<1>3. Numbered(q, cl, nid, snt, out)
  BY <1>1 DEF Good, Numbered
<1>4. Ordered(q, mb, hd, snt)
  BY <1>1 DEF Good, Ordered
<1>5. Asleep(q, mb)
  BY <1>1 DEF Good, Asleep
<1> QED
  BY <1>2, <1>3, <1>4, <1>5 DEF Good, q

(* The handler of server s runs, for the request r. *)
LEMMA HandleKeeps ==
    ASSUME NEW ph, NEW mb, NEW cl, NEW nid, NEW snt, NEW out, NEW hd,
           Good(ph, mb, cl, nid, snt, out, hd),
           NEW s \in Actors, NEW r \in Requests, Known(r, snt),
           \A i \in DOMAIN hd[s] : Before(hd[s][i], r),
           \A i \in DOMAIN mb[s] : mb[s][i] \in Requests => Before(r, mb[s][i]),
           NEW q, q = [hd EXCEPT ![s] = Append(@, r)]
    PROVE  Good(ph, mb, cl, nid, snt, out, q)
<1> DEFINE n == Len(hd[s]) + 1
<1>1. hd \in [Actors -> Seq(Requests)] /\ hd[s] \in Seq(Requests)
  BY DEF Good, Typed
<1>2. /\ q \in [Actors -> Seq(Requests)] /\ \A b \in Actors : b # s => q[b] = hd[b]
      /\ DOMAIN hd[s] = 1..Len(hd[s]) /\ Len(hd[s]) \in Nat
      /\ DOMAIN q[s] = 1..n /\ q[s][n] = r /\ \A i \in 1..Len(hd[s]) : q[s][i] = hd[s][i]
  BY <1>1, AppendElements
<1> HIDE DEF n
<1>3. \A i \in DOMAIN q[s] : i = n \/ (i \in DOMAIN hd[s] /\ q[s][i] = hd[s][i])
  BY <1>2 DEF n
<1>4. \A i, j \in DOMAIN q[s] : i < j => i \in DOMAIN hd[s] /\ q[s][i] = hd[s][i]
  BY <1>2 DEF n
<1>5. n \in DOMAIN q[s] /\ \A i \in DOMAIN hd[s] : i \in DOMAIN q[s]
  BY <1>2 DEF n
<1>6. ASSUME NEW m, NEW b, m.by \in Actors, Answers(m, b, hd) PROVE Answers(m, b, q)
  <2>1. PICK j \in DOMAIN hd[m.by] : hd[m.by][j] = m.answers
    BY <1>6 DEF Answers
  <2>2. j \in DOMAIN q[m.by] /\ q[m.by][j] = hd[m.by][j]
    BY <1>6, <1>2, <1>5
  <2> QED
    BY <1>6, <2>1, <2>2 DEF Answers
<1>7. Typed(ph, mb, cl, nid, snt, out, q)
  BY <1>2 DEF Good, Typed
<1>8. Correlated(mb, cl, out, q)
  <2> SUFFICES ASSUME NEW a \in Actors
               PROVE  /\ \A i \in DOMAIN mb[a] : IsReply(mb[a][i]) => Answers(mb[a][i], a, q)
                      /\ IsReply(cl[a].result) => Answers(cl[a].result, a, q)
                      /\ \A i \in DOMAIN out[a] :
                            IsReply(out[a][i]) => Answers(out[a][i], a, q) /\ out[a][i].id = i - 1
    BY DEF Correlated
  <2>1. ASSUME NEW i \in DOMAIN mb[a], IsReply(mb[a][i]) PROVE Answers(mb[a][i], a, q)
    <3>1. mb[a] \in Seq(Messages)
      BY DEF Good, Typed
    <3>2. mb[a][i] \in Messages
      BY <2>1, <3>1, LenProperties, ElementOfSeq
    <3>3. mb[a][i].by \in Actors
      BY <2>1, <3>2, Kinds DEF Replies
    <3>4. Answers(mb[a][i], a, hd)
      BY <2>1 DEF Good, Correlated
    <3> QED
      BY <3>3, <3>4, <1>6
  <2>2. ASSUME IsReply(cl[a].result) PROVE Answers(cl[a].result, a, q)
    <3>1. cl[a].result \in Replies \cup {None, TimedOut}
      BY DEF Good, Typed, CallLocals
    <3>2. cl[a].result.by \in Actors
      BY <2>2, <3>1, NoReplies DEF Replies
    <3>3. Answers(cl[a].result, a, hd)
      BY <2>2 DEF Good, Correlated
    <3> QED
      BY <3>2, <3>3, <1>6
  <2>3. ASSUME NEW i \in DOMAIN out[a], IsReply(out[a][i])
        PROVE  Answers(out[a][i], a, q) /\ out[a][i].id = i - 1
    <3>1. out[a] \in Seq(Outcomes)
      BY DEF Good, Typed
    <3>2. out[a][i] \in Outcomes
      BY <2>3, <3>1, LenProperties, ElementOfSeq
    <3>3. out[a][i].by \in Actors
      BY <2>3, <3>2, NoReplies DEF Outcomes, Replies
    <3>4. Answers(out[a][i], a, hd) /\ out[a][i].id = i - 1
      BY <2>3 DEF Good, Correlated
    <3> QED
      BY <3>3, <3>4, <1>6
  <2> QED
    BY <2>1, <2>2, <2>3
<1>9. Ordered(ph, mb, q, snt)
  <2> SUFFICES ASSUME NEW b \in Actors
               PROVE  /\ \A i \in DOMAIN q[b] : Known(q[b][i], snt)
                      /\ \A i, j \in DOMAIN q[b] : i < j => Before(q[b][i], q[b][j])
                      /\ ph[b] # "deaf" => \A i \in DOMAIN q[b], j \in DOMAIN mb[b] :
                            mb[b][j] \in Requests => Before(q[b][i], mb[b][j])
    BY DEF Good, Ordered
  <2>1. CASE b # s
    BY <2>1, <1>2 DEF Good, Ordered
  <2>2. CASE b = s
    <3>1. \A i \in DOMAIN q[b] : Known(q[b][i], snt)
      BY <2>2, <1>2, <1>3 DEF Good, Ordered
    <3>2. ASSUME NEW i \in DOMAIN q[b], NEW j \in DOMAIN q[b], i < j
          PROVE  Before(q[b][i], q[b][j])
      <4>1. i \in DOMAIN hd[s] /\ q[b][i] = hd[s][i]
        BY <2>2, <3>2, <1>4
      <4>2. CASE j = n
        BY <2>2, <4>1, <4>2, <1>2
      <4>3. CASE j # n
        BY <2>2, <3>2, <4>1, <4>3, <1>3 DEF Good, Ordered
      <4> QED
        BY <4>2, <4>3
    <3>3. ASSUME ph[b] # "deaf", NEW i \in DOMAIN q[b], NEW j \in DOMAIN mb[b],
                 mb[b][j] \in Requests
          PROVE  Before(q[b][i], mb[b][j])
      BY <2>2, <3>3, <1>2, <1>3, SMTT(30) DEF Good, Ordered
    <3> QED
      BY <3>1, <3>2, <3>3
  <2> QED
    BY <2>1, <2>2
<1> QED
  BY <1>7, <1>8, <1>9 DEF Good

(* The result of a try_receive is stored, or taken. *)
LEMMA ResultKeeps ==
    ASSUME NEW ph, NEW mb, NEW cl, NEW nid, NEW snt, NEW out, NEW hd,
           Good(ph, mb, cl, nid, snt, out, hd),
           NEW a \in Actors, NEW x \in Replies \cup {None, TimedOut},
           IsReply(x) => Answers(x, a, hd),
           ph[a] = "woken" => x # None
    PROVE  Good(ph, mb, [cl EXCEPT ![a].result = x], nid, snt, out, hd)
<1> DEFINE q == [cl EXCEPT ![a].result = x]
<1>1. /\ q \in [Actors -> CallLocals] /\ q[a].result = x /\ q[a].request = cl[a].request
      /\ \A b \in Actors : b # a => q[b] = cl[b]
  BY DEF Good, Typed, CallLocals
<1> HIDE DEF q
<1>2. Typed(ph, mb, q, nid, snt, out, hd)
  BY <1>1 DEF Good, Typed
<1>3. Numbered(ph, q, nid, snt, out)
  BY <1>1 DEF Good, Numbered
<1>4. Correlated(mb, q, out, hd)
  BY <1>1 DEF Good, Correlated
<1> QED
  BY <1>2, <1>3, <1>4 DEF Good, q

(* A request is numbered: it comes after all those of its sender. *)
LEMMA SentKeeps ==
    ASSUME NEW ph, NEW mb, NEW cl, NEW nid, NEW snt, NEW out, NEW hd,
           Good(ph, mb, cl, nid, snt, out, hd),
           NEW a \in Actors, snt[a] < MaxRequests,
           NEW q, q = [snt EXCEPT ![a] = @ + 1],
           NEW r \in Requests, r.from = a, r.n = snt[a] + 1
    PROVE  /\ Good(ph, mb, cl, nid, q, out, hd)
           /\ nid[a] < q[a]
           /\ \A i \in DOMAIN hd[r.to] : Before(hd[r.to][i], r)
           /\ \A i \in DOMAIN mb[r.to] : mb[r.to][i] \in Requests => Before(mb[r.to][i], r)
<1>1. /\ snt \in [Actors -> 0..MaxRequests] /\ nid \in [Actors -> 0..MaxRequests]
      /\ q \in [Actors -> 0..MaxRequests] /\ q[a] = snt[a] + 1
      /\ \A b \in Actors : b # a => q[b] = snt[b]
  BY GenServerBounds DEF Good, Typed
<1>2. \A b \in Actors : snt[b] <= q[b] /\ snt[b] \in Int /\ q[b] \in Int /\ nid[b] \in Int
  BY <1>1
<1>3. ASSUME NEW p \in Requests, Known(p, snt) PROVE Known(p, q)
  <2>1. p.from \in Actors /\ p.n \in Int
    BY DEF Requests
  <2> QED
    BY <1>3, <2>1, <1>2 DEF Known
<1>4. \A s \in Actors : hd[s] \in Seq(Requests) /\ \A i \in DOMAIN hd[s] : hd[s][i] \in Requests
  <2>1. \A s \in Actors : hd[s] \in Seq(Requests)
    BY DEF Good, Typed
  <2> QED
    BY <2>1, LenProperties, ElementOfSeq
<1>5. Typed(ph, mb, cl, nid, q, out, hd)
  BY <1>1 DEF Good, Typed
<1>6. Numbered(ph, cl, nid, q, out)
  BY <1>2 DEF Good, Numbered
<1>7. Ordered(ph, mb, hd, q)
  BY <1>3, <1>4 DEF Good, Ordered
<1>8. Good(ph, mb, cl, nid, q, out, hd)
  BY <1>5, <1>6, <1>7 DEF Good
<1>9. nid[a] < q[a]
  BY <1>1, <1>2 DEF Good, Numbered
<1>10. ASSUME NEW p \in Requests, Known(p, snt) PROVE Before(p, r)
  <2>1. p.from \in Actors /\ p.n \in Int
    BY DEF Requests
  <2> QED
    BY <1>10, <2>1, <1>2 DEF Known, Before
<1>11. /\ \A i \in DOMAIN hd[r.to] : Before(hd[r.to][i], r)
       /\ \A i \in DOMAIN mb[r.to] : mb[r.to][i] \in Requests => Before(mb[r.to][i], r)
  <2>1. r.to \in Actors
    BY DEF Requests
  <2> QED
    BY <2>1, <1>10, <1>4 DEF Good, Ordered
<1> QED
  BY <1>8, <1>9, <1>11

(* call() takes a request id and begins to wait. *)
LEMMA CallOpens ==
    ASSUME NEW ph, NEW mb, NEW cl, NEW nid, NEW snt, NEW out, NEW hd,
           Good(ph, mb, cl, nid, snt, out, hd),
           NEW a \in Actors, ph[a] = "user", nid[a] < snt[a],
           NEW l \in CallLocals, l.request.id = nid[a], l.result = None
    PROVE  Good([ph EXCEPT ![a] = "loop"], mb, [cl EXCEPT ![a] = l],
                [nid EXCEPT ![a] = @ + 1], snt, out, hd)
<1> DEFINE q == [ph EXCEPT ![a] = "loop"]
           c == [cl EXCEPT ![a] = l]
           n == [nid EXCEPT ![a] = @ + 1]
<1>1. /\ q \in [Actors -> Phases] /\ q[a] = "loop" /\ c \in [Actors -> CallLocals] /\ c[a] = l
      /\ \A b \in Actors : b # a => q[b] = ph[b] /\ c[b] = cl[b]
  BY DEF Good, Typed, Phases
<1>2. /\ n \in [Actors -> 0..MaxRequests] /\ n[a] = nid[a] + 1
      /\ \A b \in Actors : b # a => n[b] = nid[b]
      /\ nid[a] \in Int /\ snt[a] \in Int
  BY GenServerBounds DEF Good, Typed
<1> HIDE DEF q, c, n
<1>3. Typed(q, mb, c, n, snt, out, hd)
  BY <1>1, <1>2 DEF Good, Typed
<1>4. Numbered(q, c, n, snt, out)
  <2> SUFFICES ASSUME NEW b \in Actors
               PROVE  /\ n[b] <= snt[b]
                      /\ Len(out[b]) = IF q[b] \in Calling THEN n[b] - 1 ELSE n[b]
                      /\ q[b] \in Calling => c[b].request.id = n[b] - 1
                      /\ q[b] = "woken" => c[b].result # None
    BY DEF Numbered
  <2>1. CASE b # a
    BY <2>1, <1>1, <1>2 DEF Good, Numbered
  <2>2. CASE b = a
    <3>1. Len(out[a]) = nid[a]
      BY DEF Good, Numbered, Calling
    <3> QED
      BY <2>2, <3>1, <1>1, <1>2 DEF Calling
  <2> QED
    BY <2>1, <2>2
<1>5. Correlated(mb, c, out, hd)
  BY <1>1, NoReplies DEF Good, Correlated
<1>6. Ordered(q, mb, hd, snt)
  BY <1>1 DEF Good, Ordered
<1>7. Asleep(q, mb)
  BY <1>1 DEF Good, Asleep
<1> QED
  BY <1>3, <1>4, <1>5, <1>6, <1>7 DEF Good, q, c, n

(* A call ends with x: its Reply, or a timeout. *)
LEMMA CallCloses ==
    ASSUME NEW ph, NEW mb, NEW cl, NEW nid, NEW snt, NEW out, NEW hd,
           Good(ph, mb, cl, nid, snt, out, hd),
           NEW a \in Actors, ph[a] \in Calling, NEW x \in Outcomes,
           IsReply(x) => Answers(x, a, hd) /\ x.id = cl[a].request.id
    PROVE  Good([ph EXCEPT ![a] = "user"], mb, [cl EXCEPT ![a] = NoCall],
                nid, snt, [out EXCEPT ![a] = Append(@, x)], hd)
<1> DEFINE q == [ph EXCEPT ![a] = "user"]
           c == [cl EXCEPT ![a] = NoCall]
           o == [out EXCEPT ![a] = Append(@, x)]
           n == Len(out[a]) + 1
<1>1. /\ q \in [Actors -> Phases] /\ q[a] = "user"
      /\ c \in [Actors -> CallLocals] /\ c[a] = NoCall
      /\ \A b \in Actors : b # a => q[b] = ph[b] /\ c[b] = cl[b]
  BY DEF Good, Typed, Phases, CallLocals, NoCall
<1>2. out \in [Actors -> Seq(Outcomes)] /\ out[a] \in Seq(Outcomes) /\ nid[a] \in Int
  BY DEF Good, Typed
<1>3. /\ o \in [Actors -> Seq(Outcomes)] /\ \A b \in Actors : b # a => o[b] = out[b]
      /\ DOMAIN out[a] = 1..Len(out[a]) /\ Len(out[a]) \in Nat /\ Len(o[a]) = n
      /\ DOMAIN o[a] = 1..n /\ o[a][n] = x /\ \A i \in 1..Len(out[a]) : o[a][i] = out[a][i]
  BY <1>2, AppendElements
<1> HIDE DEF q, c, o, n
<1>4. \A i \in DOMAIN o[a] : i = n \/ (i \in DOMAIN out[a] /\ o[a][i] = out[a][i])
  BY <1>3 DEF n
<1>5. n = nid[a] /\ cl[a].request.id = n - 1
  BY <1>2 DEF Good, Numbered, n
<1>6. Typed(q, mb, c, nid, snt, o, hd)
  BY <1>1, <1>3 DEF Good, Typed
<1>7. Numbered(q, c, nid, snt, o)
  <2> SUFFICES ASSUME NEW b \in Actors
               PROVE  /\ nid[b] <= snt[b]
                      /\ Len(o[b]) = IF q[b] \in Calling THEN nid[b] - 1 ELSE nid[b]
                      /\ q[b] \in Calling => c[b].request.id = nid[b] - 1
                      /\ q[b] = "woken" => c[b].result # None
    BY DEF Numbered
  <2>1. CASE b # a
    BY <2>1, <1>1, <1>3 DEF Good, Numbered
  <2>2. CASE b = a
    BY <2>2, <1>1, <1>3, <1>5 DEF Good, Numbered, Calling
  <2> QED
    BY <2>1, <2>2
<1>8. Correlated(mb, c, o, hd)
  <2> SUFFICES ASSUME NEW b \in Actors
               PROVE  /\ IsReply(c[b].result) => Answers(c[b].result, b, hd)
                      /\ \A i \in DOMAIN o[b] :
                            IsReply(o[b][i]) => Answers(o[b][i], b, hd) /\ o[b][i].id = i - 1
    BY DEF Good, Correlated
  <2>1. CASE b # a
    BY <2>1, <1>1, <1>3, ZenonT(60) DEF Good, Correlated
  <2>2. CASE b = a
    <3>1. c[b].result = None
      BY <2>2, <1>1 DEF NoCall
    <3>2. ASSUME NEW i \in DOMAIN o[a], IsReply(o[a][i])
          PROVE  Answers(o[a][i], a, hd) /\ o[a][i].id = i - 1
      BY <3>2, <1>3, <1>4, <1>5 DEF Good, Correlated
    <3> QED
      BY <2>2, <3>1, <3>2, NoReplies
  <2> QED
    BY <2>1, <2>2
<1>9. Ordered(q, mb, hd, snt)
  BY <1>1 DEF Good, Ordered, Calling
<1>10. Asleep(q, mb)
  BY <1>1 DEF Good, Asleep
<1> QED
  BY <1>6, <1>7, <1>8, <1>9, <1>10 DEF Good, q, c, o

(* A call ends before it waits, because the handler of the server throws. *)
LEMMA CallFails ==
    ASSUME NEW ph, NEW mb, NEW cl, NEW nid, NEW snt, NEW out, NEW hd,
           Good(ph, mb, cl, nid, snt, out, hd),
           NEW a \in Actors, ph[a] = "user", nid[a] < snt[a]
    PROVE  Good(ph, mb, cl, [nid EXCEPT ![a] = @ + 1], snt,
                [out EXCEPT ![a] = Append(@, Failed)], hd)
<1> DEFINE o == [out EXCEPT ![a] = Append(@, Failed)]
           n == [nid EXCEPT ![a] = @ + 1]
           k == Len(out[a]) + 1
<1>1. /\ n \in [Actors -> 0..MaxRequests] /\ n[a] = nid[a] + 1
      /\ \A b \in Actors : b # a => n[b] = nid[b]
      /\ nid[a] \in Int /\ snt[a] \in Int
  BY GenServerBounds DEF Good, Typed
<1>2. out \in [Actors -> Seq(Outcomes)] /\ out[a] \in Seq(Outcomes) /\ Failed \in Outcomes
  BY DEF Good, Typed, Outcomes
<1>3. /\ o \in [Actors -> Seq(Outcomes)] /\ \A b \in Actors : b # a => o[b] = out[b]
      /\ DOMAIN out[a] = 1..Len(out[a]) /\ Len(out[a]) \in Nat /\ Len(o[a]) = k
      /\ DOMAIN o[a] = 1..k /\ o[a][k] = Failed
      /\ \A i \in 1..Len(out[a]) : o[a][i] = out[a][i]
  BY <1>2, AppendElements
<1> HIDE DEF o, n, k
<1>4. \A i \in DOMAIN o[a] : i = k \/ (i \in DOMAIN out[a] /\ o[a][i] = out[a][i])
  BY <1>3 DEF k
<1>5. Typed(ph, mb, cl, n, snt, o, hd)
  BY <1>1, <1>3 DEF Good, Typed
<1>6. Numbered(ph, cl, n, snt, o)
  <2> SUFFICES ASSUME NEW b \in Actors
               PROVE  /\ n[b] <= snt[b]
                      /\ Len(o[b]) = IF ph[b] \in Calling THEN n[b] - 1 ELSE n[b]
                      /\ ph[b] \in Calling => cl[b].request.id = n[b] - 1
                      /\ ph[b] = "woken" => cl[b].result # None
    BY DEF Numbered
  <2>1. CASE b # a
    BY <2>1, <1>1, <1>3 DEF Good, Numbered
  <2>2. CASE b = a
    <3>1. Len(out[a]) = nid[a]
      BY DEF Good, Numbered, Calling
    <3> QED
      BY <2>2, <3>1, <1>1, <1>3 DEF Calling, k
  <2> QED
    BY <2>1, <2>2
<1>7. Correlated(mb, cl, o, hd)
  <2> SUFFICES ASSUME NEW b \in Actors, NEW i \in DOMAIN o[b], IsReply(o[b][i])
               PROVE  Answers(o[b][i], b, hd) /\ o[b][i].id = i - 1
    BY DEF Good, Correlated
  <2>1. CASE b # a
    BY <2>1, <1>3 DEF Good, Correlated
  <2>2. CASE b = a
    BY <2>2, <1>3, <1>4, NoReplies DEF Good, Correlated
  <2> QED
    BY <2>1, <2>2
<1> QED
  BY <1>5, <1>6, <1>7 DEF Good, o, n

-----------------------------------------------------------------------------
(* A message on its way. *)

(* The Reply to r arrives, at a caller that waits or anywhere else. *)
LEMMA ReplyKeeps ==
    ASSUME NEW ph, NEW mb, NEW cl, NEW nid, NEW snt, NEW out, NEW hd,
           Good(ph, mb, cl, nid, snt, out, hd),
           NEW r \in Requests, NEW s \in Actors, r.to = s,
           \E j \in DOMAIN hd[s] : hd[s][j] = r,
           ReplyArrives(r, s, ph, mb, cl)
    PROVE  Good(phase', mailbox', call', nid, snt, out, hd)
<1> DEFINE c == r.from
           reply == [kind |-> "reply", id |-> r.id, answers |-> r, by |-> s]
<1>1. c \in Actors /\ reply \in Replies /\ reply \in Messages /\ IsReply(reply)
  BY DEF Requests, Replies, Messages, IsReply
<1>2. Answers(reply, c, hd)
  BY DEF Answers
<1>3. /\ phase' = [ph EXCEPT ![c] = CASE ph[c] = "waiting" -> "woken"
                                      [] ph[c] = "serving" -> "next"
                                      [] OTHER -> ph[c]]
      /\ call' = IF ph[c] = "waiting" THEN [cl EXCEPT ![c].result = reply] ELSE cl
      /\ mailbox' = IF ph[c] \in {"waiting", "serving", "gone"} THEN mb ELSE Queue(mb, c, reply)
  BY DEF ReplyArrives
<1>4. ph \in [Actors -> Phases] /\ cl \in [Actors -> CallLocals]
  BY DEF Good, Typed
<1>5. reply \notin Requests /\ reply # None
  BY <1>1, Kinds, NoReplies
<1> HIDE DEF reply, c
<1>6. CASE ph[c] = "waiting"
  <2>1. Good(ph, mb, [cl EXCEPT ![c].result = reply], nid, snt, out, hd)
    BY <1>1, <1>2, <1>6, ResultKeeps
  <2>2. [cl EXCEPT ![c].result = reply][c].result # None
    BY <1>1, <1>4, <1>5 DEF CallLocals
  <2>3. "woken" \in Phases /\ "woken" \in Calling /\ ph[c] \in Calling
    BY <1>6 DEF Phases, Calling
  <2>4. Good([ph EXCEPT ![c] = "woken"], mb, [cl EXCEPT ![c].result = reply], nid, snt, out, hd)
    BY <1>1, <1>6, <2>1, <2>2, <2>3, PhaseKeeps
  <2> QED
    BY <1>3, <1>6, <2>4
<1>7. CASE ph[c] = "serving"
  <2>1. "next" \in Phases /\ "next" \notin Calling /\ ph[c] \notin Calling
    BY <1>7 DEF Phases, Calling
  <2>2. Good([ph EXCEPT ![c] = "next"], mb, cl, nid, snt, out, hd)
    BY <1>1, <1>7, <2>1, PhaseKeeps
  <2> QED
    BY <1>3, <1>7, <2>2
<1>8. CASE ph[c] \notin {"waiting", "serving"}
  <2>1. phase' = ph /\ call' = cl
    BY <1>3, <1>4, <1>8
  <2>2. CASE ph[c] = "gone"
    BY <1>3, <2>1, <2>2
  <2>3. CASE ph[c] # "gone"
    <3>1. Good(ph, Queue(mb, c, reply), cl, nid, snt, out, hd)
      BY <1>1, <1>2, <1>5, <1>8, QueueKeeps
    <3> QED
      BY <1>3, <1>8, <2>1, <2>3, <3>1
  <2> QED
    BY <2>2, <2>3
<1> QED
  BY <1>6, <1>7, <1>8

(* A server dispatches the request r that it has taken. *)
LEMMA DispatchKeeps ==
    ASSUME NEW ph, NEW mb, NEW cl, NEW nid, NEW snt, NEW out,
           Good(ph, mb, cl, nid, snt, out, handled),
           NEW r \in Requests, NEW s \in Actors, r.to = s, Known(r, snt),
           \A i \in DOMAIN handled[s] : Before(handled[s][i], r),
           \A i \in DOMAIN mb[s] : mb[s][i] \in Requests => Before(r, mb[s][i]),
           Dispatch(r, s, ph, mb, cl)
    PROVE  Good(phase', mailbox', call', nid, snt, out, handled')
<1>1. handled' = [handled EXCEPT ![s] = Append(@, r)]
  BY DEF Dispatch
<1>2. /\ Good(ph, mb, cl, nid, snt, out, handled')
      /\ \E j \in DOMAIN handled'[s] : handled'[s][j] = r
  <2>1. Good(ph, mb, cl, nid, snt, out, handled')
    BY <1>1, HandleKeeps
  <2>2. handled[s] \in Seq(Requests) /\ handled'[s] = Append(handled[s], r)
    BY <1>1 DEF Good, Typed
  <2>3. Len(handled[s]) + 1 \in DOMAIN handled'[s] /\ handled'[s][Len(handled[s]) + 1] = r
    BY <2>2, AppendElements
  <2> QED
    BY <2>1, <2>3
<1>3. CASE r.kind = "call" /\ ReplyArrives(r, s, ph, mb, cl)
  BY <1>2, <1>3, ReplyKeeps
<1>4. CASE phase' = ph /\ mailbox' = mb /\ call' = cl
  BY <1>2, <1>4
<1> QED
  BY <1>3, <1>4 DEF Dispatch

(* A numbered request is sent, from a state in which it has its number. *)
LEMMA SendKeeps ==
    ASSUME NEW ph, NEW cl, NEW nid, NEW snt, NEW out,
           Good(ph, mailbox, cl, nid, snt, out, handled),
           NEW r \in Requests, Known(r, snt), ph[r.to] = phase[r.to],
           \A i \in DOMAIN handled[r.to] : Before(handled[r.to][i], r),
           \A i \in DOMAIN mailbox[r.to] :
               mailbox[r.to][i] \in Requests => Before(mailbox[r.to][i], r),
           Send(r, ph, cl)
    PROVE  Good(phase', mailbox', call', nid, snt, out, handled')
<1> DEFINE s == r.to
<1>1. s \in Actors /\ r \in Messages
  BY DEF Requests, Messages
<1>2. ~IsReply(r)
  BY <1>1, Kinds
<1>3. CASE phase[s] # "serving"
  <2>1. /\ phase' = ph /\ call' = cl /\ handled' = handled
        /\ mailbox' = IF phase[s] = "gone" THEN mailbox ELSE Queue(mailbox, s, r)
    BY <1>3 DEF Send
  <2>2. CASE phase[s] = "gone"
    BY <2>1, <2>2
  <2>3. CASE phase[s] # "gone"
    <3>1. Good(ph, Queue(mailbox, s, r), cl, nid, snt, out, handled)
      BY <1>1, <1>2, <1>3, QueueKeeps
    <3> QED
      BY <2>1, <2>3, <3>1
  <2> QED
    BY <2>2, <2>3
<1>4. CASE phase[s] = "serving"
  <2> DEFINE p == [ph EXCEPT ![s] = "next"]
  <2>1. Dispatch(r, s, p, mailbox, cl)
    BY <1>4 DEF Send
  <2>2. ph[s] = "serving"
    BY <1>4
  <2>3. "next" \in Phases /\ "next" \notin Calling /\ ph[s] \notin Calling
    BY <2>2 DEF Phases, Calling
  <2>4. Good(p, mailbox, cl, nid, snt, out, handled)
    BY <1>1, <2>2, <2>3, PhaseKeeps
  <2>5. mailbox[s] = <<>>
    BY <1>1, <2>2 DEF Good, Asleep
  <2>6. \A i \in DOMAIN mailbox[s] : mailbox[s][i] \in Requests => Before(r, mailbox[s][i])
    BY <2>5
  <2> HIDE DEF p
  <2> QED
    BY <1>1, <2>1, <2>4, <2>6, DispatchKeeps
<1> QED
  BY <1>3, <1>4

(* A numbered request is sent, and the handler of its server throws. *)
LEMMA SendThrowsKeeps ==
    ASSUME NEW nid, NEW snt, NEW out,
           Good(phase, mailbox, call, nid, snt, out, handled),
           NEW r \in Requests, Known(r, snt),
           \A i \in DOMAIN handled[r.to] : Before(handled[r.to][i], r),
           SendThrows(r)
    PROVE  Good(phase', mailbox', call', nid, snt, out, handled')
<1> DEFINE s == r.to
<1>1. s \in Actors /\ r \in Messages
  BY DEF Requests, Messages
<1>2. ~IsReply(r)
  BY <1>1, Kinds
<1>3. /\ phase[s] = "serving" /\ phase' = [phase EXCEPT ![s] = "deaf"] /\ call' = call
      /\ mailbox' = Queue(mailbox, s, r)
      /\ handled' = [handled EXCEPT ![s] = Append(@, r)]
  BY DEF SendThrows, Goto
<1>4. mailbox[s] = <<>>
  BY <1>1, <1>3 DEF Good, Asleep
<1>5. \A i \in DOMAIN mailbox[s] : mailbox[s][i] \in Requests => Before(r, mailbox[s][i])
  BY <1>4
<1>6. Good(phase, mailbox, call, nid, snt, out, handled')
  BY <1>1, <1>3, <1>5, HandleKeeps
<1>7. "deaf" \in Phases /\ "deaf" \notin Calling /\ phase[s] \notin Calling
  BY <1>3 DEF Phases, Calling
<1>8. Good(phase', mailbox, call, nid, snt, out, handled')
  BY <1>1, <1>3, <1>6, <1>7, PhaseKeeps
<1>9. phase'[s] = "deaf"
  BY <1>1, <1>3 DEF Good, Typed
<1>10. Good(phase', Queue(mailbox, s, r), call, nid, snt, out, handled')
  BY <1>1, <1>2, <1>8, <1>9, QueueKeeps
<1> QED
  BY <1>3, <1>10

-----------------------------------------------------------------------------
(* The steps. *)

(* call() sends its request. *)
LEMMA CallStep ==
    ASSUME GenServerInv, clock \in 0..MaxTime,
           NEW a \in Actors, NEW s \in Actors, NEW t \in Timeouts, Call(a, s, t)
    PROVE  GenServerInv'
<1> DEFINE r == [kind |-> "call", from |-> a, to |-> s, id |-> nextId[a], n |-> sent[a] + 1]
           l == [request |-> r, deadline |-> clock + t, result |-> None]
<1>1. /\ phase[a] = "user" /\ a # s /\ sent[a] < MaxRequests
      /\ nextId' = [nextId EXCEPT ![a] = @ + 1] /\ sent' = [sent EXCEPT ![a] = @ + 1]
      /\ \/ Send(r, [phase EXCEPT ![a] = "loop"], [call EXCEPT ![a] = l]) /\ outcome' = outcome
         \/ SendThrows(r) /\ outcome' = [outcome EXCEPT ![a] = Append(@, Failed)]
  BY DEF Call, MaySend
<1>2. sent[a] \in 0..MaxRequests /\ nextId[a] \in 0..MaxRequests /\ phase \in [Actors -> Phases]
  BY DEF GenServerInv, Good, Typed
<1>3. r \in Requests /\ l \in CallLocals /\ l.request.id = nextId[a] /\ l.result = None
  <2>1. sent[a] + 1 \in 1..MaxRequests /\ clock + t \in Int
    BY <1>1, <1>2, GenServerBounds, TimeoutsAssumption
  <2> QED
    BY <1>2, <2>1 DEF Requests, CallLocals
<1>4. r.from = a /\ r.to = s /\ r.n = sent[a] + 1
  OBVIOUS
<1> HIDE DEF r, l
<1>5. /\ Good(phase, mailbox, call, nextId, sent', outcome, handled) /\ nextId[a] < sent'[a]
      /\ Known(r, sent')
      /\ \A i \in DOMAIN handled[r.to] : Before(handled[r.to][i], r)
      /\ \A i \in DOMAIN mailbox[r.to] :
            mailbox[r.to][i] \in Requests => Before(mailbox[r.to][i], r)
  <2>1. Good(phase, mailbox, call, nextId, sent, outcome, handled)
    BY DEF GenServerInv
  <2>2. sent[a] < MaxRequests /\ sent' = [sent EXCEPT ![a] = @ + 1]
    BY <1>1
  <2>3. Good(phase, mailbox, call, nextId, sent', outcome, handled)
    BY <1>3, <1>4, <2>1, <2>2, SentKeeps
  <2>4. nextId[a] < sent'[a]
    BY <1>3, <1>4, <2>1, <2>2, SentKeeps
  <2>5. Known(r, sent')
    BY <1>1, <1>2, <1>4, <2>1 DEF Known, Good, Typed
  <2>6. \A i \in DOMAIN handled[r.to] : Before(handled[r.to][i], r)
    BY <1>3, <1>4, <2>1, <2>2, SentKeeps
  <2>7. \A i \in DOMAIN mailbox[r.to] : mailbox[r.to][i] \in Requests => Before(mailbox[r.to][i], r)
    BY <1>3, <1>4, <2>1, <2>2, SentKeeps
  <2> QED
    BY <2>3, <2>4, <2>5, <2>6, <2>7
<1>6. CASE Send(r, [phase EXCEPT ![a] = "loop"], [call EXCEPT ![a] = l]) /\ outcome' = outcome
  <2>1. Good([phase EXCEPT ![a] = "loop"], mailbox, [call EXCEPT ![a] = l],
             nextId', sent', outcome', handled)
    BY <1>1, <1>3, <1>5, <1>6, CallOpens
  <2>2. [phase EXCEPT ![a] = "loop"][r.to] = phase[r.to]
    BY <1>1, <1>2, <1>4
  <2> QED
    BY <1>3, <1>4, <1>5, <1>6, <2>1, <2>2, SendKeeps DEF GenServerInv
<1>7. CASE SendThrows(r) /\ outcome' = [outcome EXCEPT ![a] = Append(@, Failed)]
  <2>1. Good(phase, mailbox, call, nextId', sent', outcome', handled)
    BY <1>1, <1>5, <1>7, CallFails
  <2> QED
    BY <1>3, <1>4, <1>5, <1>7, <2>1, SendThrowsKeeps DEF GenServerInv
<1> QED
  BY <1>1, <1>6, <1>7

(* cast() sends its request. *)
LEMMA CastStep ==
    ASSUME GenServerInv, NEW a \in Actors, NEW s \in Actors, Cast(a, s)
    PROVE  GenServerInv'
<1> DEFINE r == [kind |-> "cast", from |-> a, to |-> s, id |-> 0, n |-> sent[a] + 1]
<1>1. /\ sent[a] < MaxRequests /\ sent' = [sent EXCEPT ![a] = @ + 1]
      /\ Send(r, phase, call) \/ SendThrows(r)
      /\ nextId' = nextId /\ outcome' = outcome
  BY DEF Cast, MaySend
<1>2. sent[a] \in 0..MaxRequests
  BY DEF GenServerInv, Good, Typed
<1>3. r \in Requests
  <2>1. sent[a] + 1 \in 1..MaxRequests /\ 0 \in 0..MaxRequests
    BY <1>1, <1>2, GenServerBounds
  <2> QED
    BY <2>1 DEF Requests
<1>4. r.from = a /\ r.to = s /\ r.n = sent[a] + 1
  OBVIOUS
<1> HIDE DEF r
<1>5. /\ Good(phase, mailbox, call, nextId', sent', outcome', handled)
      /\ Known(r, sent')
      /\ \A i \in DOMAIN handled[r.to] : Before(handled[r.to][i], r)
      /\ \A i \in DOMAIN mailbox[r.to] :
            mailbox[r.to][i] \in Requests => Before(mailbox[r.to][i], r)
  <2>1. Good(phase, mailbox, call, nextId, sent, outcome, handled)
    BY DEF GenServerInv
  <2>2. sent[a] < MaxRequests /\ sent' = [sent EXCEPT ![a] = @ + 1]
    BY <1>1
  <2>3. Good(phase, mailbox, call, nextId, sent', outcome, handled)
    BY <1>3, <1>4, <2>1, <2>2, SentKeeps
  <2>4. Known(r, sent')
    BY <1>1, <1>2, <1>4, <2>1 DEF Known, Good, Typed
  <2>5. \A i \in DOMAIN handled[r.to] : Before(handled[r.to][i], r)
    BY <1>3, <1>4, <2>1, <2>2, SentKeeps
  <2>6. \A i \in DOMAIN mailbox[r.to] : mailbox[r.to][i] \in Requests => Before(mailbox[r.to][i], r)
    BY <1>3, <1>4, <2>1, <2>2, SentKeeps
  <2> QED
    BY <2>3, <2>4, <2>5, <2>6, <1>1
<1> QED
  BY <1>1, <1>3, <1>4, <1>5, SendKeeps, SendThrowsKeeps DEF GenServerInv

(* A try_receive of call() returns x: the call ends, or goes on. *)
LEMMA ReceivedKeeps ==
    ASSUME NEW mb, Good(phase, mb, call, nextId, sent, outcome, handled),
           NEW a \in Actors, phase[a] \in Calling, NEW x \in Replies \cup {TimedOut},
           IsReply(x) => Answers(x, a, handled),
           CallReceived(a, x)
    PROVE  Good(phase', mb, call', nextId, sent, outcome', handled)
<1>1. CASE Ends(a, x)
  <2>1. /\ phase' = [phase EXCEPT ![a] = "user"] /\ call' = [call EXCEPT ![a] = NoCall]
        /\ outcome' = [outcome EXCEPT ![a] = Append(@, x)]
    BY <1>1 DEF CallReceived, Goto
  <2>2. IsReply(x) => Answers(x, a, handled) /\ x.id = call[a].request.id
    BY <1>1 DEF Ends
  <2>3. x \in Outcomes
    BY DEF Outcomes
  <2> QED
    BY <2>1, <2>2, <2>3, CallCloses
<1>2. CASE ~Ends(a, x)
  <2>1. outcome \in [Actors -> Seq(Outcomes)] /\ call \in [Actors -> CallLocals]
    BY DEF Good, Typed
  <2>2. /\ phase' = [phase EXCEPT ![a] = "loop"] /\ call' = [call EXCEPT ![a].result = None]
        /\ outcome' = outcome
    BY <1>2, <2>1 DEF CallReceived, Goto
  <2>3. "loop" \in Phases /\ "loop" \in Calling /\ phase[a] # "deaf"
    BY DEF Phases, Calling
  <2>4. Good(phase', mb, call, nextId, sent, outcome, handled)
    BY <2>2, <2>3, PhaseKeeps
  <2>5. phase'[a] = "loop"
    BY <2>2 DEF Good, Typed
  <2>6. Good(phase', mb, [call EXCEPT ![a].result = None], nextId, sent, outcome, handled)
    BY <2>4, <2>5, NoReplies, ResultKeeps
  <2> QED
    BY <2>2, <2>6
<1> QED
  BY <1>1, <1>2

(* One round of call()'s loop. *)
LEMMA CallLoopStep ==
    ASSUME GenServerInv, NEW a \in Actors, CallLoop(a)
    PROVE  GenServerInv'
<1>1. /\ phase[a] = "loop" /\ phase[a] \in Calling
      /\ nextId' = nextId /\ sent' = sent /\ handled' = handled
  BY DEF CallLoop, Calling, requests
<1>2. Good(phase, mailbox, call, nextId, sent, outcome, handled)
  BY DEF GenServerInv
<1>3. CASE CallReceived(a, TimedOut) /\ UNCHANGED mailbox
  <2>1. Good(phase', mailbox, call', nextId, sent, outcome', handled)
    BY <1>1, <1>2, <1>3, NoReplies, ReceivedKeeps
  <2> QED
    BY <1>1, <1>3, <2>1 DEF GenServerInv
<1>4. ASSUME NEW i \in FirstReply(a), CallReceived(a, mailbox[a][i]),
             mailbox' = [mailbox EXCEPT ![a] = RemoveAt(@, i)]
      PROVE  GenServerInv'
  <2>1. mailbox[a] \in Seq(Messages)
    BY <1>2 DEF Good, Typed
  <2>2. i \in DOMAIN mailbox[a] /\ IsReply(mailbox[a][i])
    BY <1>4 DEF FirstReply, RepliesAt
  <2>3. i \in 1..Len(mailbox[a]) /\ mailbox[a][i] \in Messages
    BY <2>1, <2>2, LenProperties, ElementOfSeq
  <2>4. mailbox[a][i] \in Replies /\ Answers(mailbox[a][i], a, handled)
    BY <1>2, <2>2, <2>3, Kinds DEF Good, Correlated
  <2>5. Shrunk(RemoveAt(mailbox[a], i), mailbox[a]) /\ RemoveAt(mailbox[a], i) \in Seq(Messages)
    BY <2>1, <2>3, RemoveShrunk
  <2>6. Good(phase, mailbox', call, nextId, sent, outcome, handled)
    BY <1>1, <1>2, <1>4, <2>5, ShrinkKeeps
  <2>7. Good(phase', mailbox', call', nextId, sent, outcome', handled)
    BY <1>1, <1>4, <2>4, <2>6, ReceivedKeeps
  <2> QED
    BY <1>1, <2>7 DEF GenServerInv
<1>5. CASE FirstReply(a) = {} /\ Goto(a, "waiting") /\ UNCHANGED <<mailbox, results>>
  <2>1. RepliesAt(a) \subseteq Nat
    <3>1. mailbox[a] \in Seq(Messages)
      BY <1>2 DEF Good, Typed
    <3>2. DOMAIN mailbox[a] \subseteq Nat
      BY <3>1, LenProperties
    <3> QED
      BY <3>2 DEF RepliesAt
  <2>2. RepliesAt(a) = {}
    <3>1. ASSUME RepliesAt(a) # {} PROVE FALSE
      <4>1. PICK i \in RepliesAt(a) : \A j \in RepliesAt(a) : i <= j
        BY <2>1, <3>1, LeastExists
      <4> QED
        BY <1>5, <4>1 DEF FirstReply
    <3> QED
      BY <3>1
  <2>3. \A i \in DOMAIN mailbox[a] : ~IsReply(mailbox[a][i])
    BY <2>2 DEF RepliesAt
  <2>4. "waiting" \in Phases /\ "waiting" \in Calling
    BY DEF Phases, Calling
  <2>5. Good([phase EXCEPT ![a] = "waiting"], mailbox, call, nextId, sent, outcome, handled)
    BY <1>1, <1>2, <2>3, <2>4, PhaseKeeps
  <2> QED
    BY <1>1, <1>5, <2>5 DEF GenServerInv, Goto, results
<1> QED
  BY <1>3, <1>4, <1>5 DEF CallLoop

(* The timer of a call falls due, or the scheduler resumes the caller. *)
LEMMA CallWakes ==
    ASSUME GenServerInv, NEW a \in Actors, CallTimer(a) \/ CallResume(a)
    PROVE  GenServerInv'
<1>1. Good(phase, mailbox, call, nextId, sent, outcome, handled)
  BY DEF GenServerInv
<1>2. CASE CallTimer(a)
  <2>1. /\ phase[a] = "waiting" /\ phase' = [phase EXCEPT ![a] = "woken"]
        /\ call' = [call EXCEPT ![a].result = TimedOut]
        /\ UNCHANGED <<mailbox, nextId, sent, outcome, handled>>
    BY <1>2 DEF CallTimer, Goto, TimeoutVisitor, requests
  <2>2. "woken" \in Phases /\ "woken" \in Calling /\ phase[a] \in Calling
    BY <2>1 DEF Phases, Calling
  <2>3. Good(phase, mailbox, call', nextId, sent, outcome, handled)
    BY <1>1, <2>1, NoReplies, ResultKeeps
  <2>4. call'[a].result # None
    BY <1>1, <2>1, NoReplies DEF Good, Typed, CallLocals
  <2>5. Good(phase', mailbox, call', nextId, sent, outcome, handled)
    BY <2>1, <2>2, <2>3, <2>4, PhaseKeeps
  <2> QED
    BY <2>1, <2>5 DEF GenServerInv
<1>3. CASE CallResume(a)
  <2>1. /\ phase[a] = "woken" /\ phase[a] \in Calling /\ CallReceived(a, call[a].result)
        /\ UNCHANGED <<mailbox, nextId, sent, handled>>
    BY <1>3 DEF CallResume, Calling, requests
  <2>2. call[a].result \in Replies \cup {TimedOut}
    BY <1>1, <2>1 DEF Good, Typed, Numbered, CallLocals
  <2>3. IsReply(call[a].result) => Answers(call[a].result, a, handled)
    BY <1>1 DEF Good, Correlated
  <2>4. Good(phase', mailbox, call', nextId, sent, outcome', handled)
    BY <1>1, <2>1, <2>2, <2>3, ReceivedKeeps
  <2> QED
    BY <2>1, <2>4 DEF GenServerInv
<1> QED
  BY <1>2, <1>3

(* serve() is called, or goes on after a dispatch_one. *)
LEMMA ServeStep ==
    ASSUME GenServerInv, NEW a \in Actors, Serve(a)
    PROVE  GenServerInv'
<1>1. Good(phase, mailbox, call, nextId, sent, outcome, handled)
  BY DEF GenServerInv
<1>2. UNCHANGED <<mailbox, call, nextId, sent, outcome, handled>>
  BY DEF Serve, results, requests
<1>3. PICK p \in {"serve", "user"} : phase' = [phase EXCEPT ![a] = p]
  BY DEF Serve, Goto, Dispatched
<1>4. phase[a] \in {"user", "next", "stop"}
  BY DEF Serve
<1>5. p \in Phases /\ p \notin Calling /\ phase[a] \notin Calling /\ phase[a] # "deaf"
      /\ p \notin {"woken", "serving", "waiting"}
  BY <1>4 DEF Phases, Calling
<1>6. Good(phase', mailbox, call, nextId, sent, outcome, handled)
  BY <1>1, <1>3, <1>5, PhaseKeeps
<1> QED
  BY <1>2, <1>6 DEF GenServerInv

(* An actor leaves, and its mailbox goes with it. *)
LEMMA GoneKeeps ==
    ASSUME NEW mb, NEW hd, Good(phase, mb, call, nextId, sent, outcome, hd),
           NEW a \in Actors, phase[a] \in {"user", "serve"}
    PROVE  Good([phase EXCEPT ![a] = "gone"], [mb EXCEPT ![a] = <<>>], call,
                nextId, sent, outcome, hd)
<1>1. mb[a] \in Seq(Messages)
  BY DEF Good, Typed
<1>2. Shrunk(<<>>, mb[a]) /\ <<>> \in Seq(Messages)
  BY <1>1, EmptyShrunk
<1>3. Good(phase, [mb EXCEPT ![a] = <<>>], call, nextId, sent, outcome, hd)
  BY <1>2, ShrinkKeeps
<1>4. "gone" \in Phases /\ "gone" \notin Calling /\ phase[a] \notin Calling /\ phase[a] # "deaf"
  BY DEF Phases, Calling
<1> QED
  BY <1>3, <1>4, PhaseKeeps

(* dispatch_one: the request in front of the mailbox is handled next. *)
LEMMA NextRequest ==
    ASSUME GenServerInv, NEW s \in Actors, phase[s] = "serve",
           mailbox[s] # <<>>, Head(mailbox[s]) \in Requests
    PROVE  LET r == Head(mailbox[s]) IN
           /\ Good(phase, Erased(s), call, nextId, sent, outcome, handled)
           /\ r.to = s /\ Known(r, sent)
           /\ \A i \in DOMAIN handled[s] : Before(handled[s][i], r)
           /\ \A i \in DOMAIN Erased(s)[s] :
                 Erased(s)[s][i] \in Requests => Before(r, Erased(s)[s][i])
<1>1. Good(phase, mailbox, call, nextId, sent, outcome, handled)
  BY DEF GenServerInv
<1>2. mailbox \in [Actors -> Seq(Messages)] /\ mailbox[s] \in Seq(Messages)
  BY <1>1 DEF Good, Typed
<1>3. /\ Shrunk(Tail(mailbox[s]), mailbox[s]) /\ Tail(mailbox[s]) \in Seq(Messages)
      /\ Head(mailbox[s]) = mailbox[s][1]
  BY <1>2, TailShrunk
<1>4. /\ DOMAIN mailbox[s] = 1..Len(mailbox[s]) /\ Len(mailbox[s]) \in Nat /\ Len(mailbox[s]) > 0
      /\ DOMAIN Tail(mailbox[s]) = 1..(Len(mailbox[s]) - 1)
      /\ \A i \in 1..(Len(mailbox[s]) - 1) : Tail(mailbox[s])[i] = mailbox[s][i + 1]
  <2>1. /\ Len(Tail(mailbox[s])) = Len(mailbox[s]) - 1
        /\ \A i \in 1..Len(Tail(mailbox[s])) : Tail(mailbox[s])[i] = mailbox[s][i + 1]
    BY <1>2, HeadTailProperties
  <2>2. /\ DOMAIN mailbox[s] = 1..Len(mailbox[s]) /\ Len(mailbox[s]) \in Nat
        /\ DOMAIN Tail(mailbox[s]) = 1..Len(Tail(mailbox[s]))
    BY <1>2, <1>3, LenProperties
  <2>3. Len(mailbox[s]) > 0
    BY <1>2, <2>2, EmptySeq
  <2> QED
    BY <2>1, <2>2, <2>3
<1>5. Erased(s) = [mailbox EXCEPT ![s] = Tail(mailbox[s])] /\ Erased(s)[s] = Tail(mailbox[s])
  BY <1>2 DEF Erased
<1>6. Good(phase, Erased(s), call, nextId, sent, outcome, handled)
  <2>1. Good(phase, [mailbox EXCEPT ![s] = Tail(mailbox[s])], call, nextId, sent, outcome, handled)
    BY <1>1, <1>3, ShrinkKeeps
  <2> QED
    BY <1>5, <2>1
<1> DEFINE r == mailbox[s][1]
<1>7. 1 \in DOMAIN mailbox[s] /\ r \in Requests
  BY <1>3, <1>4
<1>8. /\ r.to = s /\ Known(r, sent)
      /\ \A i \in DOMAIN handled[s] : Before(handled[s][i], r)
  BY <1>1, <1>7 DEF Good, Ordered
<1>9. \A i \in DOMAIN mailbox[s] : i # 1 /\ mailbox[s][i] \in Requests => Before(r, mailbox[s][i])
  <2> SUFFICES ASSUME NEW i \in DOMAIN mailbox[s], i # 1, mailbox[s][i] \in Requests
               PROVE  Before(r, mailbox[s][i])
    OBVIOUS
  <2>1. 1 < i
    BY <1>4
  <2> QED
    BY <2>1, <1>1, <1>7 DEF Good, Ordered
<1>10. \A i \in DOMAIN Erased(s)[s] :
          Erased(s)[s][i] \in Requests => Before(r, Erased(s)[s][i])
  <2> SUFFICES ASSUME NEW i \in DOMAIN Tail(mailbox[s]), Tail(mailbox[s])[i] \in Requests
               PROVE  Before(r, Tail(mailbox[s])[i])
    BY <1>5
  <2>1. i + 1 \in DOMAIN mailbox[s] /\ i + 1 # 1 /\ Tail(mailbox[s])[i] = mailbox[s][i + 1]
    BY <1>4
  <2> QED
    BY <2>1, <1>9
<1> HIDE DEF r
<1> QED
  BY <1>3, <1>6, <1>8, <1>10 DEF r

(* dispatch_one, and serve() around it. *)
LEMMA ServeLoopStep ==
    ASSUME GenServerInv, NEW a \in Actors, ServeLoop(a)
    PROVE  GenServerInv'
<1> DEFINE m == Head(mailbox[a])
<1>1. Good(phase, mailbox, call, nextId, sent, outcome, handled)
  BY DEF GenServerInv
<1>2. phase[a] = "serve" /\ UNCHANGED <<outcome, nextId, sent>>
  BY DEF ServeLoop, requests
<1>3. phase \in [Actors -> Phases] /\ mailbox \in [Actors -> Seq(Messages)]
  BY <1>1 DEF Good, Typed
<1>4. phase[a] \notin Calling /\ phase[a] # "deaf" /\ phase[a] # "serving"
  BY <1>2 DEF Calling
<1>5. CASE mailbox[a] # <<>> /\ m \in Requests /\ Dispatch(m, a, phase, Erased(a), call)
  <2>1. /\ Good(phase, Erased(a), call, nextId, sent, outcome, handled)
        /\ m.to = a /\ Known(m, sent)
        /\ \A i \in DOMAIN handled[a] : Before(handled[a][i], m)
        /\ \A i \in DOMAIN Erased(a)[a] :
              Erased(a)[a][i] \in Requests => Before(m, Erased(a)[a][i])
    BY <1>2, <1>5, NextRequest
  <2> HIDE DEF m
  <2>2. Good(phase', mailbox', call', nextId, sent, outcome, handled')
    BY <1>5, <2>1, DispatchKeeps
  <2> QED
    BY <1>2, <2>2 DEF GenServerInv
<1>6. CASE /\ mailbox[a] # <<>> /\ m \in Requests
           /\ handled' = [handled EXCEPT ![a] = Append(@, m)]
           /\ Goto(a, "gone") /\ mailbox' = [mailbox EXCEPT ![a] = <<>>] /\ UNCHANGED call
  <2>1. /\ Good(phase, Erased(a), call, nextId, sent, outcome, handled)
        /\ Known(m, sent)
        /\ \A i \in DOMAIN handled[a] : Before(handled[a][i], m)
        /\ \A i \in DOMAIN Erased(a)[a] :
              Erased(a)[a][i] \in Requests => Before(m, Erased(a)[a][i])
    BY <1>2, <1>6, NextRequest
  <2> HIDE DEF m
  <2>2. Good(phase, Erased(a), call, nextId, sent, outcome, handled')
    BY <1>6, <2>1, HandleKeeps
  <2>3. Good([phase EXCEPT ![a] = "gone"], [Erased(a) EXCEPT ![a] = <<>>], call,
             nextId, sent, outcome, handled')
    BY <1>2, <2>2, GoneKeeps
  <2>4. [Erased(a) EXCEPT ![a] = <<>>] = [mailbox EXCEPT ![a] = <<>>]
    BY <1>3 DEF Erased
  <2> QED
    BY <1>2, <1>6, <2>3, <2>4 DEF GenServerInv, Goto
<1>7. CASE /\ mailbox[a] # <<>> /\ m \notin Requests
           /\ Goto(a, Dispatched(m.kind = "exit")) /\ mailbox' = Erased(a)
           /\ UNCHANGED <<call, handled>>
  <2>1. Shrunk(Tail(mailbox[a]), mailbox[a]) /\ Tail(mailbox[a]) \in Seq(Messages)
    BY <1>3, <1>7, TailShrunk
  <2>2. Good(phase, [mailbox EXCEPT ![a] = Tail(mailbox[a])], call, nextId, sent, outcome, handled)
    BY <1>1, <1>4, <2>1, ShrinkKeeps
  <2>3. mailbox' = [mailbox EXCEPT ![a] = Tail(mailbox[a])]
    BY <1>7 DEF Erased
  <2>4. PICK p \in {"serve", "user"} : phase' = [phase EXCEPT ![a] = p]
    BY <1>7 DEF Goto, Dispatched
  <2>5. p \in Phases /\ p \notin Calling /\ p \notin {"woken", "serving", "waiting"}
    BY DEF Phases, Calling
  <2>6. Good(phase', mailbox', call, nextId, sent, outcome, handled)
    BY <1>4, <2>2, <2>3, <2>4, <2>5, PhaseKeeps
  <2> QED
    BY <1>2, <1>7, <2>6 DEF GenServerInv
<1>8. CASE mailbox[a] = <<>> /\ Goto(a, "serving") /\ UNCHANGED <<mailbox, call, handled>>
  <2>1. "serving" \in Phases /\ "serving" \notin Calling
    BY DEF Phases, Calling
  <2>2. Good([phase EXCEPT ![a] = "serving"], mailbox, call, nextId, sent, outcome, handled)
    BY <1>1, <1>4, <1>8, <2>1, PhaseKeeps
  <2> QED
    BY <1>2, <1>8, <2>2 DEF GenServerInv, Goto
<1> QED
  BY <1>5, <1>6, <1>7, <1>8 DEF ServeLoop

(* An actor exits. *)
LEMMA ExitStep ==
    ASSUME GenServerInv, NEW a \in Actors, Exit(a)
    PROVE  GenServerInv'
<1>1. Good([phase EXCEPT ![a] = "gone"], [mailbox EXCEPT ![a] = <<>>], call,
           nextId, sent, outcome, handled)
  BY GoneKeeps DEF GenServerInv, Exit
<1> QED
  BY <1>1 DEF GenServerInv, Exit, Goto, results, requests

(* A signal arrives. *)
LEMMA SignalStep ==
    ASSUME GenServerInv, NEW a \in Actors, NEW m \in Signals, Signal(a, m)
    PROVE  GenServerInv'
<1>1. Good(phase, mailbox, call, nextId, sent, outcome, handled)
  BY DEF GenServerInv
<1>2. UNCHANGED <<call, nextId, sent, outcome, handled>>
  BY DEF Signal, results, requests
<1>3. CASE phase[a] = "serving" /\ UNCHANGED mailbox /\ Goto(a, IF m.kind = "exit" THEN "stop" ELSE "next")
  <2>1. PICK p \in {"stop", "next"} : phase' = [phase EXCEPT ![a] = p]
    BY <1>3 DEF Goto
  <2>2. /\ p \in Phases /\ p \notin Calling /\ p \notin {"woken", "serving", "waiting"}
        /\ phase[a] \notin Calling /\ phase[a] # "deaf"
    BY <1>3 DEF Phases, Calling
  <2>3. Good(phase', mailbox, call, nextId, sent, outcome, handled)
    BY <1>1, <2>1, <2>2, PhaseKeeps
  <2> QED
    BY <1>2, <1>3, <2>3 DEF GenServerInv
<1>4. CASE phase[a] # "serving" /\ UNCHANGED phase /\ mailbox' = Queue(mailbox, a, m)
  <2>1. m \in Messages /\ ~IsReply(m) /\ m \notin Requests
    BY DEF Messages, Signals, Requests, IsReply
  <2>2. Good(phase, Queue(mailbox, a, m), call, nextId, sent, outcome, handled)
    BY <1>1, <1>4, <2>1, QueueKeeps
  <2> QED
    BY <1>2, <1>4, <2>2 DEF GenServerInv
<1> QED
  BY <1>3, <1>4 DEF Signal

(* The invariant holds at the start. *)
LEMMA InvInit == Init => GenServerInv
<1> SUFFICES ASSUME Init PROVE GenServerInv
  OBVIOUS
<1>1. <<>> \in Seq(Messages) /\ <<>> \in Seq(Requests) /\ <<>> \in Seq(Outcomes) /\ 0 \in 0..MaxRequests
  BY GenServerBounds
<1>2. Typed(phase, mailbox, call, nextId, sent, outcome, handled)
  BY <1>1 DEF Init, Typed, Phases, CallLocals, NoCall
<1>3. Numbered(phase, call, nextId, sent, outcome)
  BY DEF Init, Numbered, Calling
<1>4. Correlated(mailbox, call, outcome, handled)
  BY NoReplies DEF Init, Correlated, NoCall
<1>5. Ordered(phase, mailbox, handled, sent)
  BY DEF Init, Ordered
<1>6. Asleep(phase, mailbox)
  BY DEF Init, Asleep
<1> QED
  BY <1>2, <1>3, <1>4, <1>5, <1>6 DEF GenServerInv, Good

Counters == signals \in 0..MaxSignals /\ clock \in 0..MaxTime

(* Every step keeps the invariant. *)
LEMMA InvStep == GenServerInv /\ Counters /\ [Next]_vars => GenServerInv' /\ Counters'
<1> SUFFICES ASSUME GenServerInv, Counters, [Next]_vars PROVE GenServerInv' /\ Counters'
  OBVIOUS
<1>1. Counters'
  <2>1. CASE UNCHANGED <<signals, clock>>
    BY <2>1 DEF Counters
  <2>2. ASSUME NEW a \in Actors, NEW m \in Signals, Signal(a, m) PROVE Counters'
    BY <2>2, GenServerBounds DEF Signal, Counters
  <2>3. CASE Tick
    BY <2>3, GenServerBounds DEF Tick, Counters
  <2>4. ASSUME NEW a \in Actors, Coroutine(a) \/ Program(a) PROVE UNCHANGED <<signals, clock>>
    BY <2>4 DEF Coroutine, Program, CallLoop, CallTimer, CallResume, ServeLoop, Serve, Cast, Call, Exit
  <2>5. CASE UNCHANGED vars
    BY <2>5, <2>1 DEF vars
  <2> QED
    BY <2>1, <2>2, <2>3, <2>4, <2>5 DEF Next
<1>2. ASSUME UNCHANGED vars \/ Tick PROVE GenServerInv'
  BY <1>2 DEF vars, Tick, GenServerInv, results, requests
<1>3. ASSUME NEW a \in Actors, Coroutine(a) PROVE GenServerInv'
  BY <1>3, CallLoopStep, CallWakes, ServeLoopStep, ServeStep DEF Coroutine
<1>4. ASSUME NEW a \in Actors, Program(a) PROVE GenServerInv'
  <2>1. ASSUME NEW s \in Actors, NEW t \in Timeouts, Call(a, s, t) PROVE GenServerInv'
    BY <2>1, CallStep DEF Counters
  <2> QED
    BY <1>4, <2>1, CastStep, ServeStep, ExitStep DEF Program
<1>5. ASSUME NEW a \in Actors, NEW m \in Signals, Signal(a, m) PROVE GenServerInv'
  BY <1>5, SignalStep
<1> QED
  BY <1>1, <1>2, <1>3, <1>4, <1>5 DEF Next

-----------------------------------------------------------------------------
(* The theorems. *)

(* The invariant holds in every state. *)
LEMMA Invariant == Spec => [](GenServerInv /\ Counters)
<1>1. Init => Counters
  BY GenServerBounds DEF Init, Counters
<1> QED
  BY <1>1, InvInit, InvStep, PTL DEF Spec

(* Every variable keeps its type, for any number of actors and requests. *)
THEOREM TypeCorrect == Spec => []TypeOK
<1>1. GenServerInv /\ Counters => TypeOK
  BY DEF GenServerInv, Good, Typed, Counters, TypeOK, Messages, CallLocals, Outcomes
<1> QED
  BY <1>1, Invariant, PTL

(* Whatever timeouts, exits, signals and exceptions do: call() returns the *)
(* response of the server it called to the request it sent, or none.       *)
THEOREM CallsAnswered == Spec => []CallCorrelated
<1>1. GenServerInv => CallCorrelated
  <2> SUFFICES ASSUME GenServerInv, NEW a \in Actors, NEW i \in DOMAIN outcome[a],
                      IsReply(outcome[a][i])
               PROVE  /\ outcome[a][i].answers.from = a
                      /\ outcome[a][i].answers.id = i - 1
                      /\ outcome[a][i].by = outcome[a][i].answers.to
                      /\ \E j \in DOMAIN handled[outcome[a][i].by] :
                            handled[outcome[a][i].by][j] = outcome[a][i].answers
    BY DEF CallCorrelated
  <2>1. Answers(outcome[a][i], a, handled) /\ outcome[a][i].id = i - 1
    BY DEF GenServerInv, Good, Correlated
  <2> QED
    BY <2>1 DEF Answers
<1> QED
  BY <1>1, Invariant, PTL

(* However a request reaches its server, in the mailbox or inside send():  *)
(* the requests of one sender are handled in order, each of them once.     *)
THEOREM HandlingOrdered == Spec => []HandledInOrder
<1>1. GenServerInv => HandledInOrder
  BY DEF GenServerInv, Good, Ordered, Before, HandledInOrder
<1> QED
  BY <1>1, Invariant, PTL

(* No suspended server has a message, and no suspended caller a Reply. *)
THEOREM SleepersClear == Spec => []SleepersHaveNothing
<1>1. GenServerInv => SleepersHaveNothing
  BY DEF GenServerInv, Good, Asleep, SleepersHaveNothing, RepliesAt
<1> QED
  BY <1>1, Invariant, PTL

=============================================================================

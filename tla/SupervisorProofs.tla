-------------------------- MODULE SupervisorProofs --------------------------
(***************************************************************************)
(* Proofs about Supervisor: its children and the registry agree, restart   *)
(* groups can finish, restarts are bounded and keep the start order, for   *)
(* any specification, intensity, number of faults and number of calls.     *)
(***************************************************************************)
EXTENDS Supervisor, FiniteSetTheorems, SequenceTheorems, WellFoundedInduction, TLAPS

-----------------------------------------------------------------------------
(* Loops.  The prover has no induction over an operator; a loop is         *)
(* followed with a set of indices instead.                                 *)

(* A set of natural numbers has a least one. *)
LEMMA LeastNat ==
    ASSUME NEW T, T \subseteq Nat, T # {}
    PROVE  \E x \in T : \A y \in T : x <= y
<1> DEFINE R == OpToRel(<, Nat)
<1>1. IsWellFoundedOn(R, Nat)
  BY NatLessThanWellFounded
<1>2. \A x, y \in Nat : (<<y, x>> \in R) <=> y < x
  BY DEF OpToRel
<1> HIDE DEF R
<1>3. PICK x \in T : \A y \in T : ~(<<y, x>> \in R)
  BY <1>1, WFMin
<1>4. ASSUME NEW y \in T PROVE x <= y
  <2>1. ~(y < x)
    BY <1>2, <1>3
  <2> QED
    BY <2>1
<1> QED
  BY <1>4

(* A set that has 0 and, with an index, the next one has them all. *)
LEMMA UpTo ==
    ASSUME NEW n \in Nat, NEW T, 0 \in T, \A i \in 1..n : i - 1 \in T => i \in T
    PROVE  \A i \in 0..n : i \in T
<1> DEFINE U == (0..n) \ T
<1> SUFFICES ASSUME U # {} PROVE FALSE
  OBVIOUS
<1>1. U \subseteq Nat
  OBVIOUS
<1>2. PICK x \in U : \A y \in U : x <= y
  <2> HIDE DEF U
  <2> QED
    BY <1>1, LeastNat
<1>3. x \in 1..n /\ x - 1 \in 0..n /\ ~(x <= x - 1)
  BY <1>2
<1> QED
  BY <1>2, <1>3

(* The states in K of a loop of n steps from base. *)
Steps(K, n) == [1..n -> [K -> K]]
Run(f, K, n, base, step) ==
    f \in [0..n -> K] /\ f[0] = base /\ \A i \in 1..n : f[i] = step[i][f[i - 1]]

(* A loop has a state after each step. *)
LEMMA LoopExists ==
    ASSUME NEW K, NEW n \in Nat, NEW base \in K, NEW step \in Steps(K, n)
    PROVE  \E f : Run(f, K, n, base, step)
<1> DEFINE T == {m \in 0..n : \E f : Run(f, K, m, base, step)}
<1>1. 0 \in T
  <2> DEFINE g == [i \in 0..0 |-> base]
  <2>1. Run(g, K, 0, base, step)
    BY DEF Run
  <2> HIDE DEF g
  <2>2. 0 \in 0..n
    OBVIOUS
  <2> QED
    BY <2>1, <2>2
<1>2. ASSUME NEW m \in 1..n, m - 1 \in T PROVE m \in T
  <2>1. PICK f : Run(f, K, m - 1, base, step)
    BY <1>2
  <2>2. /\ f \in [0..(m - 1) -> K] /\ f[0] = base
        /\ \A i \in 1..(m - 1) : f[i] = step[i][f[i - 1]]
    BY <2>1 DEF Run
  <2> DEFINE v == step[m][f[m - 1]]
             g == [i \in 0..m |-> IF i = m THEN v ELSE f[i]]
  <2>3. v \in K
    BY <2>2 DEF Steps
  <2>4. v = step[m][f[m - 1]]
    OBVIOUS
  <2> HIDE DEF v
  <2>5. g \in [0..m -> K]
    BY <2>2, <2>3
  <2>6. g[0] = base
    BY <2>2
  <2>7. ASSUME NEW i \in 1..m PROVE g[i] = step[i][g[i - 1]]
    <3>1. i - 1 \in 0..(m - 1) /\ g[i - 1] = f[i - 1]
      OBVIOUS
    <3>2. CASE i = m
      <4>1. g[i] = v
        BY <3>2
      <4> HIDE DEF g
      <4> QED
        BY <2>4, <3>1, <3>2, <4>1
    <3>3. CASE i # m
      <4>1. i \in 1..(m - 1) /\ g[i] = f[i]
        BY <3>3
      <4> QED
        BY <2>2, <3>1, <4>1
    <3> QED
      BY <3>2, <3>3
  <2> HIDE DEF g
  <2>8. Run(g, K, m, base, step)
    BY <2>5, <2>6, <2>7 DEF Run
  <2>9. m \in 0..n
    OBVIOUS
  <2> QED
    BY <2>8, <2>9
<1> HIDE DEF T
<1>3. \A i \in 0..n : i \in T
  BY <1>1, <1>2, UpTo
<1>4. n \in T
  BY <1>3
<1> QED
  BY <1>4 DEF T

-----------------------------------------------------------------------------
(* Starting children. *)

Tables == UNION {[D -> Entries] : D \in SUBSET Nat}
Refs(k) == 1..Len(k.spawned)
Family ==
    {k \in [spawned : Seq(Specs), alive : SUBSET Nat, children : Tables] :
        k.alive \subseteq Refs(k) /\ DOMAIN k.children \subseteq Refs(k)}

Single(sp, ch) == \A q, r \in DOMAIN ch : sp[q] = sp[r] => q = r

(* l is k with new children, all of them for specifications in S. *)
Added(k, l) == (Len(k.spawned) + 1)..Len(l.spawned)
Grown(k, l, S) ==
    /\ l \in Family /\ Len(k.spawned) <= Len(l.spawned)
    /\ \A q \in Refs(k) : l.spawned[q] = k.spawned[q]
    /\ \A q \in Added(k, l) : l.spawned[q] \in S
    /\ l.alive = k.alive \cup Added(k, l)
    /\ DOMAIN l.children = DOMAIN k.children \cup Added(k, l)
    /\ \A q \in DOMAIN k.children : l.children[q] = k.children[q]
    /\ \A q \in Added(k, l) : l.children[q] = Fresh
    /\ ~Simple /\ Single(k.spawned, k.children) => Single(l.spawned, l.children)

(* What start_child_with_args does: nothing if the specification has a     *)
(* child, or one more child.                                               *)
LEMMA StartOne ==
    ASSUME NEW k \in Family, NEW s \in Specs, StartChild(k, s) # k
    PROVE  LET l == StartChild(k, s)
               r == Len(k.spawned) + 1
           IN  /\ l \in Family /\ r \in Nat /\ Len(l.spawned) = r
               /\ \A q \in Refs(k) : l.spawned[q] = k.spawned[q]
               /\ l.spawned[r] = s
               /\ l.alive = k.alive \cup {r}
               /\ DOMAIN l.children = DOMAIN k.children \cup {r}
               /\ \A q \in DOMAIN k.children : l.children[q] = k.children[q]
               /\ l.children[r] = Fresh
               /\ Simple \/ \A q \in DOMAIN k.children : k.spawned[q] # s
<1> DEFINE l == StartChild(k, s)
           r == Len(k.spawned) + 1
<1>1. /\ k.spawned \in Seq(Specs) /\ Len(k.spawned) \in Nat /\ k.alive \in SUBSET Nat
      /\ k.children \in Tables
      /\ k.alive \subseteq 1..Len(k.spawned) /\ DOMAIN k.children \subseteq 1..Len(k.spawned)
  BY DEF Family, Refs
<1>2. \A q \in DOMAIN k.children : k.children[q] \in Entries
  BY <1>1 DEF Tables
<1>3. /\ l.spawned = Append(k.spawned, s) /\ l.alive = k.alive \cup {r}
      /\ l.children = [q \in DOMAIN k.children \cup {r} |->
                           IF q = r THEN Fresh ELSE k.children[q]]
      /\ Simple \/ \A q \in DOMAIN k.children : k.spawned[q] # s
      /\ l = [spawned |-> l.spawned, alive |-> l.alive, children |-> l.children]
  BY DEF StartChild
<1> HIDE DEF l
<1>4. /\ l.spawned \in Seq(Specs) /\ Len(l.spawned) = r /\ l.spawned[r] = s
      /\ \A q \in 1..Len(k.spawned) : l.spawned[q] = k.spawned[q]
  BY <1>1, <1>3, AppendProperties
<1>5. r \in Nat /\ r \notin DOMAIN k.children
  BY <1>1
<1>6. Fresh \in Entries
  BY DEF Fresh, Entries
<1>7. DOMAIN k.children \cup {r} \in SUBSET Nat
  BY <1>1, <1>5
<1>8. /\ DOMAIN l.children = DOMAIN k.children \cup {r}
      /\ \A q \in DOMAIN k.children : l.children[q] = k.children[q]
      /\ l.children[r] = Fresh
  BY <1>3, <1>5
<1>9. l.children \in [DOMAIN k.children \cup {r} -> Entries]
  BY <1>2, <1>3, <1>6
<1>10. l.children \in Tables
  BY <1>7, <1>9 DEF Tables
<1>11. l.alive \subseteq Nat /\ l.alive \subseteq 1..r
  BY <1>1, <1>3, <1>5
<1>12. DOMAIN l.children \subseteq 1..r
  BY <1>1, <1>5, <1>8
<1>13. l \in Family
  BY <1>3, <1>4, <1>10, <1>11, <1>12 DEF Family, Refs
<1> QED
  BY <1>3, <1>4, <1>5, <1>8, <1>13 DEF Refs, l

(* A family has grown by nothing. *)
LEMMA GrownRefl ==
    ASSUME NEW k \in Family, NEW S
    PROVE  Grown(k, k, S)
<1>1. Len(k.spawned) \in Nat
  BY DEF Family
<1>2. Added(k, k) = {}
  BY <1>1 DEF Added
<1> QED
  BY <1>1, <1>2 DEF Grown

(* One more start keeps the account of the earlier ones. *)
LEMMA GrownStart ==
    ASSUME NEW k \in Family, NEW l, NEW S, Grown(k, l, S), NEW s \in Specs, s \in S
    PROVE  Grown(k, StartChild(l, s), S)
<1> DEFINE m == StartChild(l, s)
<1>1. l \in Family
  BY DEF Grown
<1>2. CASE m = l
  BY <1>2
<1>3. CASE m # l
  <2> DEFINE r == Len(l.spawned) + 1
  <2>1. /\ m \in Family /\ r \in Nat /\ Len(m.spawned) = r
        /\ \A q \in Refs(l) : m.spawned[q] = l.spawned[q]
        /\ m.spawned[r] = s
        /\ m.alive = l.alive \cup {r}
        /\ DOMAIN m.children = DOMAIN l.children \cup {r}
        /\ \A q \in DOMAIN l.children : m.children[q] = l.children[q]
        /\ m.children[r] = Fresh
        /\ Simple \/ \A q \in DOMAIN l.children : l.spawned[q] # s
    BY <1>1, <1>3, StartOne
  <2>2. Len(k.spawned) \in Nat /\ Len(l.spawned) \in Nat /\ Len(k.spawned) <= Len(l.spawned)
    BY <1>1 DEF Family, Grown
  <2> HIDE DEF m
  <2>3. /\ Added(k, m) = Added(k, l) \cup {r} /\ Len(k.spawned) <= Len(m.spawned)
        /\ \A q \in Refs(k) : q \in Refs(l)
        /\ \A q \in Added(k, l) : q \in Refs(l)
    BY <2>1, <2>2 DEF Added, Refs
  <2>4. DOMAIN l.children \subseteq Refs(l) /\ r \notin Refs(l)
    BY <1>1, <2>2 DEF Family, Refs
  <2> HIDE DEF r
  <2>5. \A q \in Refs(k) : m.spawned[q] = k.spawned[q]
    BY <2>1, <2>3 DEF Grown
  <2>6. \A q \in Added(k, m) : m.spawned[q] \in S
    BY <2>1, <2>3 DEF Grown
  <2>7. /\ m.alive = k.alive \cup Added(k, m)
        /\ DOMAIN m.children = DOMAIN k.children \cup Added(k, m)
    BY <2>1, <2>3 DEF Grown
  <2>8. /\ \A q \in DOMAIN k.children : m.children[q] = k.children[q]
        /\ \A q \in Added(k, m) : m.children[q] = Fresh
    BY <2>1, <2>3 DEF Grown
  <2>9. ASSUME ~Simple, Single(k.spawned, k.children) PROVE Single(m.spawned, m.children)
    <3>1. Single(l.spawned, l.children)
      BY <2>9 DEF Grown
    <3> QED
      BY <2>1, <2>4, <2>9, <3>1 DEF Single
  <2>10. Grown(k, m, S)
    BY <2>1, <2>3, <2>5, <2>6, <2>7, <2>8, <2>9 DEF Grown
  <2> QED
    BY <2>10 DEF m
<1> QED
  BY <1>2, <1>3

(* The loop that starts a child for each of specs: its states. *)
Starts(f, k, specs) ==
    /\ StartChildren(k, specs) = f[Len(specs)]
    /\ f[0] = k
    /\ \A i \in 1..Len(specs) : f[i] = StartChild(f[i - 1], specs[i])

LEMMA StartLoop ==
    ASSUME NEW k \in Family, NEW specs \in Seq(Specs)
    PROVE  \E f : Starts(f, k, specs)
<1> DEFINE n == Len(specs)
           Body(f) == [i \in 0..n |-> IF i = 0 THEN k ELSE StartChild(f[i - 1], specs[i])]
           after == CHOOSE f : f = Body(f)
           step == [i \in 1..n |-> [l \in Family |-> StartChild(l, specs[i])]]
<1>1. n \in Nat /\ \A i \in 1..n : specs[i] \in Specs
  OBVIOUS
<1>2. ASSUME NEW l \in Family, NEW s \in Specs PROVE StartChild(l, s) \in Family
  BY <1>2, StartOne
<1> HIDE DEF n
<1>3. step \in Steps(Family, n)
  BY <1>1, <1>2 DEF Steps
<1>4. PICK f : Run(f, Family, n, k, step)
  <2> HIDE DEF step
  <2> QED
    BY <1>1, <1>3, LoopExists
<1>5. f = Body(f)
  <2>1. ASSUME NEW i \in 1..n PROVE f[i] = StartChild(f[i - 1], specs[i])
    <3>1. i - 1 \in 0..n
      BY <1>1
    <3> QED
      BY <1>4, <3>1 DEF Run
  <2> QED
    BY <1>1, <1>4, <2>1 DEF Run
<1>6. after = Body(after)
  <2> HIDE DEF Body
  <2> QED
    BY <1>5
<1>7. StartChildren(k, specs) = after[n]
  BY DEF StartChildren, n
<1> HIDE DEF after
<1>8. after[0] = k /\ \A i \in 1..n : after[i] = StartChild(after[i - 1], specs[i])
  <2>1. 0 \in 0..n /\ \A i \in 1..n : i \in 0..n /\ i # 0
    BY <1>1
  <2> QED
    BY <1>6, <2>1
<1>9. Starts(after, k, specs)
  BY <1>7, <1>8 DEF Starts, n
<1> QED
  BY <1>9

LEMMA StartChildrenGrown ==
    ASSUME NEW k \in Family, NEW specs \in Seq(Specs), NEW S,
           \A i \in 1..Len(specs) : specs[i] \in S
    PROVE  Grown(k, StartChildren(k, specs), S)
<1> DEFINE n == Len(specs)
<1>1. n \in Nat /\ \A i \in 1..n : specs[i] \in Specs
  OBVIOUS
<1>2. PICK f : Starts(f, k, specs)
  BY StartLoop
<1>3. /\ StartChildren(k, specs) = f[n] /\ f[0] = k
      /\ \A i \in 1..n : f[i] = StartChild(f[i - 1], specs[i])
  BY <1>2 DEF Starts
<1> HIDE DEF n
<1> DEFINE T == {i \in 0..n : Grown(k, f[i], S)}
<1>4. 0 \in T
  BY <1>1, <1>3, GrownRefl
<1>5. ASSUME NEW i \in 1..n, i - 1 \in T PROVE i \in T
  BY <1>1, <1>3, <1>5, GrownStart DEF n
<1>6. n \in T
  <2> HIDE DEF T
  <2>1. \A i \in 0..n : i \in T
    BY <1>1, <1>4, <1>5, UpTo
  <2> QED
    BY <1>1, <2>1
<1> QED
  BY <1>3, <1>6

(* A restart of an item of the plan is a start or nothing. *)
LEMMA ItemGrown ==
    ASSUME NEW k \in Family, NEW l, NEW S, Grown(k, l, S), NEW s \in Specs, s \in S, NEW why
    PROVE  Grown(k, RestartItem(l, s, why), S)
BY GrownStart DEF RestartItem

(* The loop of finalize_restart_group: its states. *)
Restarts(f, plan, k) ==
    /\ Respawn(plan, k) = f[Len(spawned)]
    /\ f[0] = RestartItem(k, spawned[plan.failed], plan.reason)
    /\ \A q \in 1..Len(spawned) :
          f[q] = IF q \in plan.others THEN RestartItem(f[q - 1], spawned[q], "stopped")
                 ELSE f[q - 1]

LEMMA RespawnLoop ==
    ASSUME spawned \in Seq(Specs), NEW plan, plan.failed \in DOMAIN spawned, NEW k \in Family
    PROVE  \E f : Restarts(f, plan, k)
<1> DEFINE n == Len(spawned)
           base == RestartItem(k, spawned[plan.failed], plan.reason)
           Move(l, q) == IF q \in plan.others THEN RestartItem(l, spawned[q], "stopped") ELSE l
           Body(f) == [q \in 0..n |-> IF q = 0 THEN base
                                      ELSE IF q \in plan.others
                                           THEN RestartItem(f[q - 1], spawned[q], "stopped")
                                      ELSE f[q - 1]]
           after == CHOOSE f : f = Body(f)
           step == [q \in 1..n |-> [l \in Family |-> Move(l, q)]]
<1>1. /\ n \in Nat /\ (\A q \in 1..n : spawned[q] \in Specs) /\ spawned[plan.failed] \in Specs
      /\ DOMAIN spawned = 1..n
  OBVIOUS
<1>2. ASSUME NEW l \in Family, NEW s \in Specs, NEW why PROVE RestartItem(l, s, why) \in Family
  BY GrownRefl, ItemGrown DEF Grown
<1> HIDE DEF n
<1>3. step \in Steps(Family, n)
  BY <1>1, <1>2 DEF Steps
<1>4. base \in Family
  BY <1>1, <1>2
<1>5. PICK f : Run(f, Family, n, base, step)
  <2> HIDE DEF step, base
  <2> QED
    BY <1>1, <1>3, <1>4, LoopExists
<1> HIDE DEF base
<1>6. f = Body(f)
  <2>1. ASSUME NEW q \in 1..n PROVE f[q] = Move(f[q - 1], q)
    <3>1. q - 1 \in 0..n
      BY <1>1
    <3> QED
      BY <1>5, <3>1 DEF Run
  <2> QED
    BY <1>1, <1>5, <2>1 DEF Run
<1>7. after = Body(after)
  <2> HIDE DEF Body
  <2> QED
    BY <1>6
<1>8. Respawn(plan, k) = after[n]
  BY DEF Respawn, n, base
<1> HIDE DEF after
<1>9. after[0] = base /\ \A q \in 1..n : after[q] = Move(after[q - 1], q)
  <2>1. 0 \in 0..n /\ \A q \in 1..n : q \in 0..n /\ q # 0
    BY <1>1
  <2> QED
    BY <1>7, <2>1
<1>10. Restarts(after, plan, k)
  BY <1>8, <1>9 DEF Restarts, n, base
<1> QED
  BY <1>10

(* What finalize_restart_group does is to start children. *)
LEMMA RespawnGrown ==
    ASSUME spawned \in Seq(Specs), NEW plan, plan.failed \in DOMAIN spawned, NEW k \in Family
    PROVE  Grown(k, Respawn(plan, k), Specs)
<1> DEFINE n == Len(spawned)
<1>1. /\ n \in Nat /\ (\A q \in 1..n : spawned[q] \in Specs) /\ spawned[plan.failed] \in Specs
  OBVIOUS
<1>2. PICK f : Restarts(f, plan, k)
  BY RespawnLoop
<1>3. /\ Respawn(plan, k) = f[n]
      /\ f[0] = RestartItem(k, spawned[plan.failed], plan.reason)
      /\ \A q \in 1..n : f[q] = IF q \in plan.others THEN RestartItem(f[q - 1], spawned[q], "stopped")
                                ELSE f[q - 1]
  BY <1>2 DEF Restarts
<1> HIDE DEF n
<1> DEFINE T == {q \in 0..n : Grown(k, f[q], Specs)}
<1>4. 0 \in T
  <2>1. Grown(k, f[0], Specs)
    <3>1. Grown(k, k, Specs)
      BY GrownRefl
    <3> QED
      BY <1>1, <1>3, <3>1, ItemGrown
  <2> QED
    BY <1>1, <2>1
<1>5. ASSUME NEW q \in 1..n, q - 1 \in T PROVE q \in T
  <2>1. Grown(k, f[q - 1], Specs) /\ q \in 0..n /\ spawned[q] \in Specs
    BY <1>1, <1>5
  <2>2. Grown(k, RestartItem(f[q - 1], spawned[q], "stopped"), Specs)
    BY <2>1, ItemGrown
  <2> QED
    BY <1>3, <2>1, <2>2
<1>6. n \in T
  <2> HIDE DEF T
  <2>1. \A q \in 0..n : q \in T
    BY <1>1, <1>4, <1>5, UpTo
  <2> QED
    BY <1>1, <2>1
<1> QED
  BY <1>3, <1>6

-----------------------------------------------------------------------------
(* The inductive invariant.  Its parts take the children, as a family k,   *)
(* the children asked to stop and the mailbox as arguments, because a step *)
(* that handles a signal goes through states that no other step sees.      *)

Signals == [from : Nat, reason : Reasons]
QueuedIn(box, r) == \E i \in DOMAIN box : box[i].from = r

Shape(k, ask, box) ==
    /\ k \in Family /\ ask \subseteq Refs(k)
    /\ box \in Seq(Signals)
    /\ \A i \in DOMAIN box : box[i].from <= Len(k.spawned)

(* An entry of children_ is alive or its signal is queued, a live child    *)
(* without an entry was asked to stop, as was one marked as stopping, and  *)
(* a signal comes once and from a child that has left the registry.        *)
Account(k, ask, box) ==
    /\ \A r \in DOMAIN k.children : r \in k.alive \/ QueuedIn(box, r)
    /\ \A r \in k.alive : r \in DOMAIN k.children \/ r \in ask
    /\ \A r \in DOMAIN k.children : r \in k.alive /\ k.children[r].stopping => r \in ask
    /\ ~Simple => Single(k.spawned, k.children)
    /\ \A i \in DOMAIN box : box[i].from \notin k.alive
    /\ \A i, j \in DOMAIN box : box[i].from = box[j].from /\ box[i].from # 0 => i = j

Group == "one_for_all" = strategy \/ "rest_for_one" = strategy
Planning(g, n) ==
    \/ g = NoGroup
    \/ /\ Group
       /\ g \in [failed : 1..n, reason : Reasons, others : SUBSET (1..n), pending : SUBSET (1..n)]

(* A restart group waits for children that were asked to stop. *)
Waits(k, ask, box, g) ==
    g # NoGroup => /\ g.pending # {}
                   /\ \A r \in g.pending : (r \in k.alive /\ r \in ask) \/ QueuedIn(box, r)

Watching == sup \notin Over

SupTyped ==
    /\ sup \in {"scheduled", "running", "waiting"} \cup Over
    /\ started \in BOOLEAN /\ stopping \in BOOLEAN
    /\ Shape(Kids, asked, mailbox) /\ Planning(group, Len(spawned))
    /\ now \in 0..MaxTime
    /\ ~started => sup = "scheduled" /\ spawned = <<>> /\ group = NoGroup

SupInv ==
    /\ SupTyped
    /\ Watching => Account(Kids, asked, mailbox) /\ Waits(Kids, asked, mailbox, group)

-----------------------------------------------------------------------------
(* What starts and stops preserve. *)

(* Children installed. *)
LEMMA Installed ==
    ASSUME NEW k \in Family, Install(k)
    PROVE  Kids' = k
BY DEF Install, Kids, Family

(* Starting children. *)
LEMMA GrownKeeps ==
    ASSUME NEW k, NEW l, NEW S, Grown(k, l, S), NEW ask, NEW box,
           Shape(k, ask, box), Account(k, ask, box)
    PROVE  Shape(l, ask, box) /\ Account(l, ask, box)
<1>1. /\ Len(k.spawned) \in Nat /\ Len(l.spawned) \in Nat /\ Len(k.spawned) <= Len(l.spawned)
      /\ l \in Family
  BY DEF Grown, Shape, Family
<1>2. \A i \in DOMAIN box : box[i].from \in Nat /\ box[i].from <= Len(k.spawned)
  <2>1. box \in Seq(Signals)
    BY DEF Shape
  <2>2. \A i \in DOMAIN box : box[i] \in Signals
    BY <2>1
  <2> QED
    BY <2>2 DEF Shape, Signals
<1>3. \A r \in Added(k, l) : r \notin Refs(k)
  BY <1>1 DEF Added, Refs
<1>4. \A i \in DOMAIN box : box[i].from \notin Added(k, l) /\ box[i].from <= Len(l.spawned)
  BY <1>1, <1>2 DEF Added
<1>5. Refs(k) \subseteq Refs(l)
  BY <1>1 DEF Refs
<1>6. Shape(l, ask, box)
  BY <1>1, <1>4, <1>5 DEF Shape
<1>7. DOMAIN k.children \subseteq Refs(k) /\ k.alive \subseteq Refs(k)
  BY DEF Shape, Family
<1>8. /\ \A r \in DOMAIN l.children : r \in l.alive \/ QueuedIn(box, r)
      /\ \A r \in l.alive : r \in DOMAIN l.children \/ r \in ask
  BY DEF Grown, Account
<1>9. ASSUME NEW r \in DOMAIN l.children, r \in l.alive, l.children[r].stopping PROVE r \in ask
  <2>1. CASE r \in Added(k, l)
    <3>1. l.children[r].stopping = FALSE
      BY <2>1 DEF Grown, Fresh
    <3> QED
      BY <1>9, <3>1
  <2>2. CASE r \notin Added(k, l)
    <3>1. r \in DOMAIN k.children /\ r \in k.alive /\ l.children[r] = k.children[r]
      BY <1>9, <2>2 DEF Grown
    <3> QED
      BY <1>9, <3>1 DEF Account
  <2> QED
    BY <2>1, <2>2
<1>10. ~Simple => Single(l.spawned, l.children)
  BY DEF Grown, Account
<1>11. /\ \A i \in DOMAIN box : box[i].from \notin l.alive
       /\ \A i, j \in DOMAIN box : box[i].from = box[j].from /\ box[i].from # 0 => i = j
  BY <1>4 DEF Grown, Account
<1> QED
  BY <1>6, <1>8, <1>9, <1>10, <1>11 DEF Account

(* The loop that stops children: its effect. *)
LEMMA StopEffect ==
    ASSUME NEW k \in Family, NEW refs, refs \subseteq DOMAIN k.children, NEW suppress \in BOOLEAN,
           StopEach(k, refs, suppress)
    PROVE  /\ Kids' \in Family /\ spawned' = k.spawned /\ alive' = k.alive
           /\ DOMAIN children' = DOMAIN k.children
           /\ \A r \in DOMAIN k.children :
                 children'[r] = IF r \in Reached(k, refs)
                                THEN [stopping |-> TRUE, suppress |-> suppress] ELSE k.children[r]
           /\ asked' = asked \cup {r \in Reached(k, refs) \cap k.alive : ~k.children[r].stopping}
<1> DEFINE R == Reached(k, refs)
           c == [r \in DOMAIN k.children |->
                    IF r \in R THEN [stopping |-> TRUE, suppress |-> suppress] ELSE k.children[r]]
<1>1. spawned' = k.spawned /\ alive' = k.alive /\ children' = c
  BY DEF StopEach, Install, Family
<1>2. asked' = asked \cup {r \in R \cap k.alive : ~k.children[r].stopping}
  BY DEF StopEach
<1>3. DOMAIN k.children \in SUBSET Nat /\ k.children \in [DOMAIN k.children -> Entries]
  BY DEF Family, Tables
<1>4. [stopping |-> TRUE, suppress |-> suppress] \in Entries
  BY DEF Entries
<1> HIDE DEF R
<1>5. c \in [DOMAIN k.children -> Entries]
  BY <1>3, <1>4
<1>6. /\ DOMAIN c = DOMAIN k.children
      /\ \A r \in DOMAIN k.children :
            c[r] = IF r \in R THEN [stopping |-> TRUE, suppress |-> suppress] ELSE k.children[r]
  OBVIOUS
<1> HIDE DEF c
<1>7. c \in Tables
  BY <1>3, <1>5 DEF Tables
<1>8. Kids' \in Family
  BY <1>1, <1>6, <1>7 DEF Kids, Family, Refs
<1> QED
  BY <1>1, <1>2, <1>6, <1>8 DEF R

(* Stopping children keeps the account. *)
LEMMA StopKeeps ==
    ASSUME NEW k, NEW refs, refs \subseteq DOMAIN k.children, NEW suppress \in BOOLEAN, NEW box,
           Shape(k, asked, box), Account(k, asked, box), StopEach(k, refs, suppress)
    PROVE  Shape(Kids', asked', box) /\ Account(Kids', asked', box)
<1>1. k \in Family
  BY DEF Shape
<1>2. /\ Kids' \in Family /\ spawned' = k.spawned /\ alive' = k.alive
      /\ DOMAIN children' = DOMAIN k.children
      /\ \A r \in DOMAIN k.children :
            children'[r] = IF r \in Reached(k, refs)
                           THEN [stopping |-> TRUE, suppress |-> suppress] ELSE k.children[r]
      /\ asked' = asked \cup {r \in Reached(k, refs) \cap k.alive : ~k.children[r].stopping}
  BY <1>1, StopEffect
<1>3. Kids'.spawned = k.spawned /\ Kids'.alive = k.alive /\ Kids'.children = children'
  BY <1>2 DEF Kids
<1>4. asked \subseteq asked' /\ asked' \subseteq Refs(k)
  BY <1>1, <1>2 DEF Shape, Family
<1>5. Shape(Kids', asked', box)
  BY <1>2, <1>3, <1>4 DEF Shape, Refs
<1>6. ASSUME NEW r \in DOMAIN k.children, r \in k.alive, children'[r].stopping PROVE r \in asked'
  <2>1. CASE k.children[r].stopping
    BY <1>4, <1>6, <2>1 DEF Account
  <2>2. CASE ~k.children[r].stopping
    <3>1. r \in Reached(k, refs)
      BY <1>2, <1>6, <2>2
    <3> QED
      BY <1>2, <1>6, <2>2, <3>1
  <2> QED
    BY <2>1, <2>2
<1>7. ~Simple => Single(k.spawned, children')
  BY <1>2 DEF Account, Single
<1>8. /\ \A r \in DOMAIN children' : r \in k.alive \/ QueuedIn(box, r)
      /\ \A r \in k.alive : r \in DOMAIN children' \/ r \in asked'
      /\ \A r \in DOMAIN children' : r \in k.alive /\ children'[r].stopping => r \in asked'
  BY <1>2, <1>4, <1>6 DEF Account
<1>9. /\ \A i \in DOMAIN box : box[i].from \notin k.alive
      /\ \A i, j \in DOMAIN box : box[i].from = box[j].from /\ box[i].from # 0 => i = j
  BY DEF Account
<1> QED
  BY <1>3, <1>5, <1>7, <1>8, <1>9 DEF Account

-----------------------------------------------------------------------------
(* Taking a signal: handle_termination first erases the child. *)

Less(r, live) == [spawned |-> spawned, alive |-> live, children |-> Without(r)]

(* The family without a child. *)
LEMMA LessFamily ==
    ASSUME Kids \in Family, NEW r, NEW live, live \subseteq alive
    PROVE  /\ Less(r, live) \in Family
           /\ DOMAIN Without(r) = DOMAIN children \ {r}
           /\ \A q \in DOMAIN Without(r) : Without(r)[q] = children[q]
<1>1. /\ spawned \in Seq(Specs) /\ alive \subseteq Nat /\ children \in Tables
      /\ alive \subseteq Refs(Kids) /\ DOMAIN children \subseteq Refs(Kids)
  BY DEF Family, Kids
<1>2. DOMAIN children \in SUBSET Nat /\ \A q \in DOMAIN children : children[q] \in Entries
  BY <1>1 DEF Tables
<1>3. Without(r) = [q \in DOMAIN children \ {r} |-> children[q]]
  BY DEF Without, Restrict
<1>4. /\ DOMAIN Without(r) = DOMAIN children \ {r}
      /\ \A q \in DOMAIN Without(r) : Without(r)[q] = children[q]
  BY <1>3
<1>5. Without(r) \in [DOMAIN children \ {r} -> Entries]
  BY <1>2, <1>3
<1>6. Without(r) \in Tables
  BY <1>2, <1>5 DEF Tables
<1>7. live \subseteq Nat /\ live \subseteq Refs(Kids) /\ DOMAIN Without(r) \subseteq Refs(Kids)
  BY <1>1, <1>4
<1>8. Refs(Less(r, live)) = Refs(Kids)
  BY DEF Refs, Less, Kids
<1> QED
  BY <1>1, <1>4, <1>6, <1>7, <1>8 DEF Family, Less

(* The other children keep their account when a signal is taken. *)
LEMMA LessKeeps ==
    ASSUME Shape(Kids, asked, mailbox), Account(Kids, asked, mailbox), NEW r, NEW box,
           box \in Seq(Signals), \A i \in DOMAIN box : box[i].from <= Len(spawned),
           \A q : q # r => (QueuedIn(mailbox, q) <=> QueuedIn(box, q)),
           \A i \in DOMAIN box : box[i].from \notin alive \ {r},
           \A i, j \in DOMAIN box : box[i].from = box[j].from /\ box[i].from # 0 => i = j
    PROVE  Shape(Less(r, alive \ {r}), asked, box) /\ Account(Less(r, alive \ {r}), asked, box)
<1> DEFINE k == Less(r, alive \ {r})
<1>1. Kids \in Family
  BY DEF Shape
<1>2. /\ k \in Family
      /\ DOMAIN Without(r) = DOMAIN children \ {r}
      /\ \A q \in DOMAIN Without(r) : Without(r)[q] = children[q]
  BY <1>1, LessFamily
<1>3. k.spawned = spawned /\ k.alive = alive \ {r} /\ k.children = Without(r)
  BY DEF Less
<1>4. Kids.spawned = spawned /\ Kids.alive = alive /\ Kids.children = children
  BY DEF Kids
<1> HIDE DEF k
<1>5. Shape(k, asked, box)
  BY <1>2, <1>3, <1>4 DEF Shape, Refs
<1>6. \A q \in DOMAIN k.children : q \in DOMAIN children /\ q # r /\ k.children[q] = children[q]
  BY <1>2, <1>3
<1>7. /\ \A q \in DOMAIN k.children : q \in k.alive \/ QueuedIn(box, q)
      /\ \A q \in DOMAIN k.children : q \in k.alive /\ k.children[q].stopping => q \in asked
  BY <1>3, <1>4, <1>6 DEF Account
<1>8. \A q \in k.alive : q \in DOMAIN k.children \/ q \in asked
  BY <1>2, <1>3, <1>4 DEF Account
<1>9. ~Simple => Single(k.spawned, k.children)
  BY <1>3, <1>4, <1>6 DEF Account, Single
<1>10. Account(k, asked, box)
  BY <1>3, <1>7, <1>8, <1>9 DEF Account
<1> QED
  BY <1>5, <1>10 DEF k

(* What handle_termination relies on when it has taken a signal of r. *)
Taken(r, live, box) ==
    /\ live = alive \ {r}
    /\ \A q : q # r => (QueuedIn(mailbox, q) <=> QueuedIn(box, q))
    /\ Shape(Less(r, live), asked, box) /\ Account(Less(r, live), asked, box)

(* A signal that finds the supervisor suspended. *)
LEMMA TakeLive ==
    ASSUME Shape(Kids, asked, mailbox), Account(Kids, asked, mailbox), NEW r \in alive
    PROVE  Taken(r, alive \ {r}, mailbox)
<1>1. Kids.spawned = spawned /\ Kids.alive = alive
  BY DEF Kids
<1>2. /\ mailbox \in Seq(Signals) /\ \A i \in DOMAIN mailbox : mailbox[i].from <= Len(spawned)
  BY <1>1 DEF Shape
<1>3. \A i \in DOMAIN mailbox : mailbox[i].from \notin alive \ {r}
  BY <1>1 DEF Account
<1>4. \A i, j \in DOMAIN mailbox : mailbox[i].from = mailbox[j].from /\ mailbox[i].from # 0 => i = j
  BY DEF Account
<1>5. /\ Shape(Less(r, alive \ {r}), asked, mailbox)
      /\ Account(Less(r, alive \ {r}), asked, mailbox)
  BY <1>2, <1>3, <1>4, LessKeeps
<1> QED
  BY <1>5 DEF Taken

(* A signal that was queued. *)
LEMMA TakeHead ==
    ASSUME Shape(Kids, asked, mailbox), Account(Kids, asked, mailbox), mailbox # <<>>
    PROVE  /\ Taken(Head(mailbox).from, alive, Tail(mailbox))
           /\ Head(mailbox) \in Signals
<1> DEFINE r == Head(mailbox).from
           box == Tail(mailbox)
<1>1. Kids.spawned = spawned /\ Kids.alive = alive
  BY DEF Kids
<1>2. mailbox \in Seq(Signals) /\ \A i \in DOMAIN mailbox : mailbox[i].from <= Len(spawned)
  BY <1>1 DEF Shape
<1>3. /\ box \in Seq(Signals) /\ Len(box) = Len(mailbox) - 1 /\ Head(mailbox) = mailbox[1]
      /\ \A i \in 1..Len(box) : box[i] = mailbox[i + 1]
      /\ Len(mailbox) \in Nat /\ Len(mailbox) > 0
  BY <1>2, HeadTailProperties
<1>4. DOMAIN box = 1..Len(box) /\ DOMAIN mailbox = 1..Len(mailbox)
  BY <1>2, <1>3
<1> HIDE DEF box
<1>5. \A i \in DOMAIN box : i + 1 \in DOMAIN mailbox /\ box[i] = mailbox[i + 1]
  BY <1>3, <1>4
<1>6. r \notin alive /\ alive \ {r} = alive
  BY <1>1, <1>3, <1>4 DEF Account
<1>7. ASSUME NEW q, q # r PROVE QueuedIn(mailbox, q) <=> QueuedIn(box, q)
  <2>1. ASSUME NEW i \in DOMAIN mailbox, mailbox[i].from = q PROVE QueuedIn(box, q)
    <3>1. i # 1
      BY <1>3, <1>7, <2>1
    <3>2. i - 1 \in DOMAIN box /\ i - 1 + 1 = i
      BY <1>3, <1>4, <3>1
    <3>3. box[i - 1].from = q
      BY <1>5, <2>1, <3>2
    <3> QED
      BY <3>2, <3>3 DEF QueuedIn
  <2> QED
    BY <1>5, <2>1 DEF QueuedIn
<1>8. \A i \in DOMAIN box : box[i].from <= Len(spawned) /\ box[i].from \notin alive \ {r}
  BY <1>1, <1>2, <1>5 DEF Account
<1>9. ASSUME NEW i \in DOMAIN box, NEW j \in DOMAIN box, box[i].from = box[j].from, box[i].from # 0
      PROVE  i = j
  <2>1. i + 1 = j + 1
    BY <1>5, <1>9 DEF Account
  <2> QED
    BY <1>4, <2>1
<1>10. /\ Shape(Less(r, alive \ {r}), asked, box)
       /\ Account(Less(r, alive \ {r}), asked, box)
  BY <1>3, <1>7, <1>8, <1>9, LessKeeps
<1>11. Taken(r, alive, box)
  BY <1>6, <1>7, <1>10 DEF Taken
<1>12. Head(mailbox) \in Signals
  BY <1>2, <1>3, <1>4
<1> QED
  BY <1>11, <1>12 DEF box

-----------------------------------------------------------------------------
(* handle_termination keeps the invariant. *)

(* A signal put at the end of the mailbox. *)
LEMMA Enqueued ==
    ASSUME NEW box \in Seq(Signals), NEW m \in Signals
    PROVE  /\ Append(box, m) \in Seq(Signals)
           /\ \A q : QueuedIn(Append(box, m), q) <=> QueuedIn(box, q) \/ m.from = q
           /\ \A i \in DOMAIN Append(box, m) :
                 \/ i \in DOMAIN box /\ Append(box, m)[i] = box[i]
                 \/ i = Len(box) + 1 /\ Append(box, m)[i] = m
<1>1. /\ Append(box, m) \in Seq(Signals) /\ Len(Append(box, m)) = Len(box) + 1
      /\ \A i \in 1..Len(box) : Append(box, m)[i] = box[i]
      /\ Append(box, m)[Len(box) + 1] = m
  BY AppendProperties
<1>2. DOMAIN box = 1..Len(box) /\ Len(box) \in Nat /\ DOMAIN Append(box, m) = 1..(Len(box) + 1)
  BY <1>1
<1> DEFINE b == Append(box, m)
           l == Len(box)
<1> HIDE DEF b, l
<1>3. /\ b[l + 1] = m /\ (\A i \in 1..l : b[i] = box[i]) /\ l \in Nat
      /\ DOMAIN b = 1..(l + 1) /\ DOMAIN box = 1..l
  BY <1>1, <1>2 DEF b, l
<1>4. \A i \in DOMAIN b : (i \in DOMAIN box /\ b[i] = box[i]) \/ (i = l + 1 /\ b[i] = m)
  BY <1>3
<1>5. l + 1 \in DOMAIN b /\ \A i \in DOMAIN box : i \in DOMAIN b /\ b[i] = box[i]
  BY <1>3
<1>6. \A q : QueuedIn(b, q) <=> QueuedIn(box, q) \/ m.from = q
  BY <1>3, <1>4, <1>5 DEF QueuedIn
<1> QED
  BY <1>1, <1>4, <1>6 DEF b, l

(* Supervisor::stop sends the supervisor its own ExitSignal. *)
LEMMA StopQueued ==
    ASSUME NEW k, NEW ask, NEW box, Shape(k, ask, box), Account(k, ask, box)
    PROVE  /\ Shape(k, ask, Append(box, StopSignal)) /\ Account(k, ask, Append(box, StopSignal))
           /\ \A q : QueuedIn(box, q) => QueuedIn(Append(box, StopSignal), q)
<1> DEFINE b == Append(box, StopSignal)
<1>1. box \in Seq(Signals) /\ StopSignal \in Signals /\ StopSignal.from = 0
  BY DEF Shape, StopSignal, Signals, Reasons
<1>2. /\ b \in Seq(Signals)
      /\ \A q : QueuedIn(b, q) <=> QueuedIn(box, q) \/ StopSignal.from = q
      /\ \A i \in DOMAIN b : \/ i \in DOMAIN box /\ b[i] = box[i]
                             \/ i = Len(box) + 1 /\ b[i] = StopSignal
  BY <1>1, Enqueued
<1>3. 0 \notin k.alive /\ 0 <= Len(k.spawned)
  BY DEF Shape, Family, Refs
<1> HIDE DEF b
<1>4. \A i \in DOMAIN b : (i \in DOMAIN box /\ b[i] = box[i]) \/ b[i].from = 0
  BY <1>1, <1>2
<1>5. Shape(k, ask, b)
  BY <1>2, <1>3, <1>4 DEF Shape
<1>6. /\ \A i \in DOMAIN b : b[i].from \notin k.alive
      /\ \A i, j \in DOMAIN b : b[i].from = b[j].from /\ b[i].from # 0 => i = j
  BY <1>3, <1>4 DEF Account
<1>7. Account(k, ask, b)
  BY <1>2, <1>6 DEF Account
<1> QED
  BY <1>2, <1>5, <1>7 DEF b

(* Supervisor::stop. *)
LEMMA StopCase ==
    ASSUME NEW k, NEW box, NEW after, NEW thrown,
           Shape(k, asked, box), Account(k, asked, box), Waits(k, asked, box, group),
           Planning(group, Len(k.spawned)), stopping \in BOOLEAN, Stop(k, box, after, thrown)
    PROVE  /\ Shape(Kids', asked', mailbox') /\ Account(Kids', asked', mailbox')
           /\ Waits(Kids', asked', mailbox', group') /\ Planning(group', Len(spawned'))
           /\ stopping' = TRUE /\ sup' \in {after, thrown} /\ spawned' = k.spawned
<1>1. k \in Family
  BY DEF Shape
<1>2. stopping' = TRUE
  BY DEF Stop
<1>3. CASE stopping
  <2>1. Install(k) /\ mailbox' = Append(box, StopSignal) /\ sup' = after /\ UNCHANGED <<asked, group>>
    BY <1>3 DEF Stop
  <2>2. Kids' = k /\ spawned' = k.spawned
    BY <1>1, <2>1, Installed DEF Install
  <2>3. /\ Shape(k, asked, mailbox') /\ Account(k, asked, mailbox')
        /\ \A q : QueuedIn(box, q) => QueuedIn(mailbox', q)
    BY <2>1, StopQueued
  <2>4. Waits(k, asked, mailbox', group)
    BY <2>3 DEF Waits
  <2> QED
    BY <1>2, <2>1, <2>2, <2>3, <2>4
<1>4. CASE ~stopping
  <2>1. StopEach(k, DOMAIN k.children, TRUE)
    BY <1>4 DEF Stop
  <2>2. Shape(Kids', asked', box) /\ Account(Kids', asked', box)
    BY <2>1, StopKeeps
  <2>3. spawned' = k.spawned /\ alive' = k.alive /\ asked \subseteq asked'
    BY <1>1, <2>1, StopEffect
  <2>4. Kids'.alive = k.alive
    BY <2>3 DEF Kids
  <2>5. CASE Throws(k, DOMAIN k.children) = {}
    <3>1. group' = NoGroup /\ mailbox' = Append(box, StopSignal) /\ sup' = after
      BY <1>4, <2>5 DEF Stop
    <3>2. Shape(Kids', asked', mailbox') /\ Account(Kids', asked', mailbox')
      BY <2>2, <3>1, StopQueued
    <3> QED
      BY <1>2, <2>3, <3>1, <3>2 DEF Waits, Planning
  <2>6. CASE Throws(k, DOMAIN k.children) # {}
    <3>1. group' = group /\ mailbox' = box /\ sup' = thrown
      BY <1>4, <2>6 DEF Stop
    <3>2. Waits(Kids', asked', mailbox', group')
      BY <2>3, <2>4, <3>1 DEF Waits
    <3> QED
      BY <1>2, <2>2, <2>3, <3>1, <3>2
  <2> QED
    BY <2>5, <2>6
<1> QED
  BY <1>3, <1>4

(* What a step that handles a signal leaves. *)
Handled(after) ==
    /\ Shape(Kids', asked', mailbox') /\ Planning(group', Len(spawned'))
    /\ stopping' \in BOOLEAN /\ sup' \in {after, "crashed"}
    /\ sup' # "crashed" => /\ Account(Kids', asked', mailbox')
                           /\ Waits(Kids', asked', mailbox', group')

(* Children were started, no group is open. *)
LEMMA GrownHandled ==
    ASSUME NEW k, NEW l, NEW S, Grown(k, l, S), Install(l), NEW box, mailbox' = box,
           Shape(k, asked, box), Account(k, asked, box),
           asked' = asked, group' = NoGroup, stopping' \in BOOLEAN, NEW after, sup' = after
    PROVE  Handled(after)
<1>1. l \in Family
  BY DEF Grown
<1>2. Kids' = l
  BY <1>1, Installed
<1>3. Shape(l, asked, box) /\ Account(l, asked, box)
  BY GrownKeeps
<1> QED
  BY <1>2, <1>3 DEF Handled, Waits, Planning

(* begin_restart_group with children to stop. *)
LEMMA BeginHandled ==
    ASSUME NEW k, NEW box, NEW r \in Refs(k), NEW why \in Reasons, NEW after,
           NEW others, others \subseteq DOMAIN k.children, others # {},
           Shape(k, asked, box), Account(k, asked, box), Group, StopEach(k, others, FALSE),
           group' = [failed |-> r, reason |-> why, others |-> others,
                     pending |-> Reached(k, others)],
           mailbox' = box, stopping' \in BOOLEAN,
           sup' = IF Throws(k, others) = {} THEN after ELSE "crashed"
    PROVE  Handled(after)
<1>1. k \in Family /\ DOMAIN k.children \subseteq Refs(k)
  BY DEF Shape, Family
<1>2. Shape(Kids', asked', box) /\ Account(Kids', asked', box)
  BY StopKeeps
<1>3. /\ spawned' = k.spawned /\ alive' = k.alive /\ DOMAIN children' = DOMAIN k.children
      /\ \A q \in Reached(k, others) : children'[q] = [stopping |-> TRUE, suppress |-> FALSE]
  BY <1>1, StopEffect DEF Reached
<1>4. Reached(k, others) \subseteq others
  BY DEF Reached
<1>5. Planning(group', Len(spawned'))
  <2>1. others \in SUBSET Refs(k) /\ Reached(k, others) \in SUBSET Refs(k)
    BY <1>1, <1>4
  <2> QED
    BY <1>3, <2>1 DEF Planning, Refs
<1>6. ASSUME Throws(k, others) = {} PROVE Waits(Kids', asked', box, group')
  <2>1. Reached(k, others) = others
    BY <1>6 DEF Reached
  <2>2. ASSUME NEW q \in others PROVE (q \in alive' /\ q \in asked') \/ QueuedIn(box, q)
    <3>1. q \in DOMAIN children' /\ children'[q].stopping
      BY <1>3, <2>1
    <3> QED
      BY <1>2, <3>1 DEF Account, Kids
  <2> QED
    BY <2>1, <2>2 DEF Waits, Kids
<1> QED
  BY <1>2, <1>5, <1>6 DEF Handled

(* handle_termination, whatever the strategy. *)
LEMMA TerminationHandled ==
    ASSUME SupTyped, Waits(Kids, asked, mailbox, group), NEW r, NEW why \in Reasons, NEW live,
           NEW box, NEW after, Taken(r, live, box), HandleTermination(r, why, live, box, after)
    PROVE  Handled(after)
<1> DEFINE k == Less(r, live)
<1>1. Shape(k, asked, box) /\ Account(k, asked, box) /\ k \in Family
  BY DEF Taken, Shape
<1>2. /\ k.spawned = spawned /\ k.alive = alive \ {r} /\ k.children = Without(r)
      /\ DOMAIN k.children = DOMAIN children \ {r}
      /\ Refs(k) = 1..Len(spawned)
  BY DEF Less, Taken, Without, Restrict, Refs
<1>3. /\ spawned \in Seq(Specs) /\ DOMAIN spawned = 1..Len(spawned)
      /\ DOMAIN children \subseteq 1..Len(spawned) /\ stopping \in BOOLEAN
  BY DEF SupTyped, Shape, Family, Kids, Refs
<1>4. \/ Forget(r, why, k, box, after)
      \/ Refuse(r, why, k, box, after)
      \/ RestartOne(r, why, k, box, after)
      \/ BeginRestartGroup(r, why, k, box, after)
      \/ RestartGroupStop(r, k, box, after)
  BY DEF HandleTermination, Less
<1>5. WillRestart(r, why) => r \in 1..Len(spawned) /\ spawned[r] \in Specs
  BY <1>3 DEF WillRestart
<1> HIDE DEF k
<1>6. CASE Forget(r, why, k, box, after)
  <2>1. Install(k) /\ mailbox' = box /\ sup' = after /\ group = NoGroup /\ UNCHANGED <<asked, group, stopping>>
    BY <1>6 DEF Forget
  <2> QED
    BY <1>1, <1>3, <2>1, GrownRefl, GrownHandled
<1>7. CASE Refuse(r, why, k, box, after)
  <2>1. group = NoGroup /\ Stop(k, box, after, "crashed")
    BY <1>7 DEF Refuse
  <2>2. Waits(k, asked, box, group) /\ Planning(group, Len(k.spawned))
    BY <2>1 DEF Waits, Planning
  <2>3. /\ Shape(Kids', asked', mailbox') /\ Account(Kids', asked', mailbox')
        /\ Waits(Kids', asked', mailbox', group') /\ Planning(group', Len(spawned'))
        /\ stopping' = TRUE /\ sup' \in {after, "crashed"}
    BY <1>1, <1>3, <2>1, <2>2, StopCase
  <2> QED
    BY <2>3 DEF Handled
<1>8. CASE RestartOne(r, why, k, box, after)
  <2>1. /\ group = NoGroup /\ WillRestart(r, why) /\ Install(StartChild(k, spawned[r]))
        /\ mailbox' = box /\ sup' = after /\ UNCHANGED <<asked, group, stopping>>
    BY <1>8 DEF RestartOne
  <2>2. Grown(k, StartChild(k, spawned[r]), Specs)
    BY <1>1, <1>5, <2>1, GrownRefl, GrownStart
  <2> QED
    BY <1>1, <1>3, <2>1, <2>2, GrownHandled
<1>9. CASE BeginRestartGroup(r, why, k, box, after)
  <2> DEFINE others == Planned(r, k)
             plan == [failed |-> r, reason |-> why, others |-> others,
                      pending |-> Reached(k, others)]
  <2>1. /\ group = NoGroup /\ WillRestart(r, why) /\ Group /\ mailbox' = box
        /\ UNCHANGED stopping /\ others \subseteq DOMAIN k.children
    BY <1>9 DEF BeginRestartGroup, Group, Planned
  <2>2. CASE others = {}
    <3>1. Install(Respawn(plan, k)) /\ sup' = after /\ UNCHANGED <<asked, group>>
      BY <1>9, <2>2 DEF BeginRestartGroup
    <3>2. plan.failed \in DOMAIN spawned
      BY <1>3, <1>5, <2>1
    <3> HIDE DEF plan
    <3>3. Grown(k, Respawn(plan, k), Specs)
      BY <1>1, <1>3, <3>2, RespawnGrown
    <3> QED
      BY <1>1, <1>3, <2>1, <3>1, <3>3, GrownHandled
  <2>3. CASE others # {}
    <3>1. /\ group' = plan /\ StopEach(k, others, FALSE)
          /\ sup' = IF Throws(k, others) = {} THEN after ELSE "crashed"
      BY <1>9, <2>3 DEF BeginRestartGroup
    <3>2. r \in Refs(k) /\ stopping' \in BOOLEAN
      BY <1>2, <1>3, <1>5, <2>1
    <3> HIDE DEF others
    <3> QED
      BY <1>1, <2>1, <2>3, <3>1, <3>2, BeginHandled
  <2> QED
    BY <2>2, <2>3
<1>10. CASE RestartGroupStop(r, k, box, after)
  <2>1. /\ group # NoGroup /\ mailbox' = box /\ sup' = after /\ UNCHANGED <<asked, stopping>>
    BY <1>10 DEF RestartGroupStop
  <2>2. /\ Group
        /\ group \in [failed : 1..Len(spawned), reason : Reasons,
                      others : SUBSET (1..Len(spawned)), pending : SUBSET (1..Len(spawned))]
    BY <2>1 DEF SupTyped, Planning
  <2>3. CASE group.pending \subseteq {r}
    <3>1. group' = NoGroup /\ Install(Respawn(group, k))
      BY <1>10, <2>3 DEF RestartGroupStop
    <3>2. Grown(k, Respawn(group, k), Specs)
      BY <1>1, <1>3, <2>2, RespawnGrown
    <3> QED
      BY <1>1, <1>3, <2>1, <3>1, <3>2, GrownHandled
  <2>4. CASE ~(group.pending \subseteq {r})
    <3>1. group' = [group EXCEPT !.pending = @ \ {r}] /\ Install(k)
      BY <1>10, <2>4 DEF RestartGroupStop
    <3>2. Kids' = k /\ spawned' = spawned
      BY <1>1, <1>2, <3>1, Installed DEF Install
    <3>3. /\ group' \in [failed : 1..Len(spawned), reason : Reasons,
                         others : SUBSET (1..Len(spawned)), pending : SUBSET (1..Len(spawned))]
          /\ group'.pending = group.pending \ {r}
      BY <2>2, <3>1
    <3>4. group'.pending # {}
      BY <2>4, <3>3
    <3>5. ASSUME NEW q \in group'.pending
          PROVE  (q \in k.alive /\ q \in asked) \/ QueuedIn(box, q)
      <4>1. q \in group.pending /\ q # r
        BY <3>3
      <4>2. (q \in alive /\ q \in asked) \/ QueuedIn(mailbox, q)
        BY <2>1, <4>1 DEF Waits, Kids
      <4> QED
        BY <1>2, <4>1, <4>2 DEF Taken
    <3>6. Waits(k, asked, box, group')
      BY <3>4, <3>5 DEF Waits
    <3>7. Planning(group', Len(spawned'))
      BY <2>2, <3>2, <3>3 DEF Planning
    <3> QED
      BY <1>1, <1>3, <2>1, <3>2, <3>6, <3>7 DEF Handled
  <2> QED
    BY <2>3, <2>4
<1> QED
  BY <1>4, <1>6, <1>7, <1>8, <1>9, <1>10

-----------------------------------------------------------------------------
(* Every step keeps the invariant. *)

(* The invariant after a step that keeps the strategy. *)
LEMMA Kept ==
    ASSUME strategy' = strategy, sup' \in {"scheduled", "running", "waiting"} \cup Over,
           started' \in BOOLEAN, stopping' \in BOOLEAN, now' \in 0..MaxTime,
           Shape(Kids', asked', mailbox'), Planning(group', Len(spawned')),
           ~started' => sup' = "scheduled" /\ spawned' = <<>> /\ group' = NoGroup,
           sup' \notin Over => /\ Account(Kids', asked', mailbox')
                               /\ Waits(Kids', asked', mailbox', group')
    PROVE  SupInv'
<1>1. Planning(group, Len(spawned))'
  BY DEF Planning, Group, NoGroup
<1>2. Shape(Kids, asked, mailbox)'
  BY DEF Shape, Refs, Family
<1>3. SupTyped'
  BY <1>1, <1>2 DEF SupTyped
<1>4. ASSUME Watching' PROVE Account(Kids, asked, mailbox)' /\ Waits(Kids, asked, mailbox, group)'
  <2>1. Account(Kids', asked', mailbox') /\ Waits(Kids', asked', mailbox', group')
    BY <1>4 DEF Watching
  <2> QED
    BY <2>1 DEF Account, Waits, Simple, Single, QueuedIn, NoGroup
<1> QED
  BY <1>3, <1>4 DEF SupInv

(* A restart group goes on waiting when children are started or stopped. *)
LEMMA GrownWaits ==
    ASSUME NEW k, NEW l, NEW S, Grown(k, l, S), NEW ask, NEW box, NEW g, Waits(k, ask, box, g)
    PROVE  Waits(l, ask, box, g)
BY DEF Grown, Waits

LEMMA StopWaits ==
    ASSUME NEW k \in Family, NEW refs, refs \subseteq DOMAIN k.children, NEW suppress \in BOOLEAN,
           StopEach(k, refs, suppress), NEW box, NEW g, Waits(k, asked, box, g)
    PROVE  Waits(Kids', asked', box, g)
<1>1. alive' = k.alive
  BY DEF StopEach, Install, Family
<1>2. Kids'.alive = k.alive
  BY <1>1 DEF Kids
<1>3. asked \subseteq asked'
  BY DEF StopEach
<1> QED
  BY <1>1, <1>2, <1>3 DEF Waits

(* The plan of a group stays one when there are more children. *)
LEMMA PlanningGrows ==
    ASSUME NEW g, NEW m \in Nat, NEW n \in Nat, m <= n, Planning(g, m)
    PROVE  Planning(g, n)
<1>1. 1..m \subseteq 1..n
  OBVIOUS
<1> QED
  BY <1>1 DEF Planning

(* A child that has exited and whose signal is queued. *)
LEMMA SignalQueued ==
    ASSUME Shape(Kids, asked, mailbox), Account(Kids, asked, mailbox),
           NEW g, Waits(Kids, asked, mailbox, g), NEW r \in alive, NEW why \in Reasons,
           alive' = alive \ {r}, mailbox' = Append(mailbox, Down(r, why)),
           UNCHANGED <<spawned, asked, children>>
    PROVE  /\ Shape(Kids', asked', mailbox') /\ Account(Kids', asked', mailbox')
           /\ Waits(Kids', asked', mailbox', g)
<1>1. /\ Kids.spawned = spawned /\ Kids.alive = alive /\ Kids.children = children
      /\ Kids'.spawned = spawned /\ Kids'.alive = alive \ {r} /\ Kids'.children = children
  BY DEF Kids
<1>2. mailbox \in Seq(Signals) /\ r \in Nat /\ r <= Len(spawned) /\ Kids \in Family
  BY DEF Shape, Family, Refs, Kids
<1>3. Down(r, why) \in Signals /\ Down(r, why).from = r
  BY <1>2 DEF Down, Signals
<1>4. /\ mailbox' \in Seq(Signals)
      /\ \A q : QueuedIn(mailbox', q) <=> QueuedIn(mailbox, q) \/ q = r
      /\ \A i \in DOMAIN mailbox' : \/ i \in DOMAIN mailbox /\ mailbox'[i] = mailbox[i]
                                    \/ i = Len(mailbox) + 1 /\ mailbox'[i] = Down(r, why)
  BY <1>2, <1>3, Enqueued
<1>5. Kids' \in Family
  BY <1>2 DEF Family, Kids, Refs
<1>6. \A i \in DOMAIN mailbox' : mailbox'[i].from <= Len(spawned)
  BY <1>1, <1>2, <1>3, <1>4 DEF Shape
<1>7. Shape(Kids', asked', mailbox')
  BY <1>1, <1>4, <1>5, <1>6 DEF Shape, Refs
<1>8. \A i \in DOMAIN mailbox : mailbox[i].from \notin alive
  BY <1>1 DEF Account
<1>9. \A i \in DOMAIN mailbox' : mailbox'[i].from \notin alive \ {r}
  BY <1>3, <1>4, <1>8
<1>10. ASSUME NEW i \in DOMAIN mailbox', NEW j \in DOMAIN mailbox',
              mailbox'[i].from = mailbox'[j].from, mailbox'[i].from # 0
       PROVE  i = j
  BY <1>3, <1>4, <1>8, <1>10 DEF Account
<1>11. Account(Kids', asked', mailbox')
  BY <1>1, <1>4, <1>9, <1>10 DEF Account
<1>12. Waits(Kids', asked', mailbox', g)
  BY <1>1, <1>4 DEF Waits
<1> QED
  BY <1>7, <1>11, <1>12

(* The administrative calls: what they leave. *)
Called ==
    /\ Shape(Kids', asked', mailbox') /\ Account(Kids', asked', mailbox')
    /\ Waits(Kids', asked', mailbox', group') /\ Planning(group', Len(spawned'))

LEMMA GrownCalled ==
    ASSUME SupInv, Watching, NEW S, NEW l, Grown(Kids, l, S), Install(l),
           UNCHANGED <<asked, mailbox, group>>
    PROVE  Called
<1>1. /\ Shape(Kids, asked, mailbox) /\ Account(Kids, asked, mailbox)
      /\ Waits(Kids, asked, mailbox, group) /\ Planning(group, Len(spawned))
      /\ Kids \in Family
  BY DEF SupInv, SupTyped, Shape
<1>2. l \in Family /\ Kids' = l /\ spawned' = l.spawned
  BY Installed DEF Grown, Install
<1>3. Shape(l, asked, mailbox) /\ Account(l, asked, mailbox) /\ Waits(l, asked, mailbox, group)
  BY <1>1, GrownKeeps, GrownWaits
<1>4. Len(spawned) \in Nat /\ Len(l.spawned) \in Nat /\ Len(spawned) <= Len(l.spawned)
  BY <1>1, <1>2 DEF Grown, Kids, Family
<1>5. Planning(group, Len(l.spawned))
  BY <1>1, <1>4, PlanningGrows
<1> QED
  BY <1>2, <1>3, <1>5 DEF Called

LEMMA StopCalled ==
    ASSUME SupInv, Watching, NEW refs, refs \subseteq DOMAIN children, NEW suppress \in BOOLEAN,
           StopEach(Kids, refs, suppress), UNCHANGED <<mailbox, group>>
    PROVE  Called
<1>1. /\ Shape(Kids, asked, mailbox) /\ Account(Kids, asked, mailbox)
      /\ Waits(Kids, asked, mailbox, group) /\ Planning(group, Len(spawned))
      /\ Kids \in Family
  BY DEF SupInv, SupTyped, Shape
<1>2. refs \subseteq DOMAIN Kids.children /\ Kids.spawned = spawned
  BY DEF Kids
<1>3. Shape(Kids', asked', mailbox) /\ Account(Kids', asked', mailbox)
  BY <1>1, <1>2, StopKeeps
<1>4. Waits(Kids', asked', mailbox, group)
  BY <1>1, <1>2, StopWaits
<1>5. spawned' = spawned
  BY <1>1, <1>2 DEF StopEach, Install, Family
<1> QED
  BY <1>1, <1>3, <1>4, <1>5 DEF Called

(* restart_children_by_index first clears suppress_restart. *)
LEMMA ClearedEffect ==
    ASSUME Kids \in Family, NEW s
    PROVE  /\ Cleared(s) \in Family /\ Cleared(s).spawned = spawned /\ Cleared(s).alive = alive
           /\ DOMAIN Cleared(s).children = DOMAIN children
           /\ \A r \in DOMAIN children :
                 /\ Cleared(s).children[r].stopping = children[r].stopping
                 /\ r \notin Instances(s) => Cleared(s).children[r] = children[r]
<1> DEFINE c == [r \in DOMAIN children |-> IF r \in Instances(s)
                                           THEN [children[r] EXCEPT !.suppress = FALSE] ELSE children[r]]
<1>1. /\ DOMAIN children \in SUBSET Nat /\ \A r \in DOMAIN children : children[r] \in Entries
      /\ alive \in SUBSET Nat /\ spawned \in Seq(Specs)
      /\ alive \subseteq 1..Len(spawned) /\ DOMAIN children \subseteq 1..Len(spawned)
  BY DEF Family, Kids, Tables, Refs
<1>2. Cleared(s) = [spawned |-> spawned, alive |-> alive, children |-> c]
  <2>1. Cleared(s) = [Kids EXCEPT !.children = c]
    BY DEF Cleared
  <2> HIDE DEF c
  <2> QED
    BY <2>1 DEF Kids
<1>3. \A r \in DOMAIN children : /\ [children[r] EXCEPT !.suppress = FALSE] \in Entries
                                 /\ [children[r] EXCEPT !.suppress = FALSE].stopping = children[r].stopping
  BY <1>1 DEF Entries
<1>4. /\ c \in [DOMAIN children -> Entries] /\ DOMAIN c = DOMAIN children
      /\ \A r \in DOMAIN children : /\ c[r].stopping = children[r].stopping
                                    /\ r \notin Instances(s) => c[r] = children[r]
  BY <1>1, <1>3
<1> HIDE DEF c
<1>5. c \in Tables
  BY <1>1, <1>4 DEF Tables
<1> QED
  BY <1>1, <1>2, <1>4, <1>5 DEF Family, Refs

LEMMA ClearedKeeps ==
    ASSUME Shape(Kids, asked, mailbox), Account(Kids, asked, mailbox), NEW s
    PROVE  Shape(Cleared(s), asked, mailbox) /\ Account(Cleared(s), asked, mailbox)
<1>1. Kids \in Family
  BY DEF Shape
<1> DEFINE k == Cleared(s)
<1>2. /\ k \in Family /\ k.spawned = spawned /\ k.alive = alive
      /\ DOMAIN k.children = DOMAIN children
      /\ \A r \in DOMAIN children : k.children[r].stopping = children[r].stopping
  BY <1>1, ClearedEffect
<1> HIDE DEF k
<1>3. Kids.spawned = spawned /\ Kids.alive = alive /\ Kids.children = children
  BY DEF Kids
<1>4. Shape(k, asked, mailbox)
  BY <1>2, <1>3 DEF Shape, Refs
<1>5. Account(k, asked, mailbox)
  BY <1>2, <1>3 DEF Account, Single
<1> QED
  BY <1>4, <1>5 DEF k

(* restart_child_entry for the children that were stopped before is a loop *)
(* of starts.                                                              *)
Again(s) == {r \in Instances(s) \cap Reached(Kids, Instances(s)) : children[r].stopping}
Restarted(s) == StartChildren(Cleared(s), [i \in 1..Cardinality(Again(s)) |-> s])

LEMMA RestartedGrown ==
    ASSUME Kids \in Family, NEW s \in Specs
    PROVE  Grown(Cleared(s), Restarted(s), {s})
<1> DEFINE n == Cardinality(Again(s))
           q == [i \in 1..n |-> s]
<1>1. n \in Nat
  <2>1. Again(s) \subseteq 1..Len(spawned) /\ Len(spawned) \in Nat
    BY DEF Again, Instances, Family, Kids, Refs
  <2>2. IsFiniteSet(1..Len(spawned))
    BY <2>1, FS_Interval
  <2> QED
    BY <2>1, <2>2, FS_Subset, FS_CardinalityType
<1> HIDE DEF n
<1>2. q \in Seq(Specs) /\ Len(q) = n /\ \A i \in 1..Len(q) : q[i] \in {s}
  BY <1>1
<1>3. Cleared(s) \in Family
  BY ClearedEffect
<1> HIDE DEF q
<1>4. Grown(Cleared(s), StartChildren(Cleared(s), q), {s})
  BY <1>2, <1>3, StartChildrenGrown
<1> QED
  BY <1>4 DEF Restarted, q, n

Running(s) == {r \in Instances(s) : ~children[r].stopping}

LEMMA RestartCalled ==
    ASSUME SupInv, Watching, NEW s \in Specs, StopEach(Restarted(s), Running(s), FALSE),
           UNCHANGED <<mailbox, group>>
    PROVE  Called
<1>1. /\ Shape(Kids, asked, mailbox) /\ Account(Kids, asked, mailbox)
      /\ Waits(Kids, asked, mailbox, group) /\ Planning(group, Len(spawned))
      /\ Kids \in Family
  BY DEF SupInv, SupTyped, Shape
<1> DEFINE k == Cleared(s)
           l == Restarted(s)
<1>2. k \in Family /\ k.spawned = spawned /\ k.alive = alive /\ DOMAIN k.children = DOMAIN children
  BY <1>1, ClearedEffect
<1>3. Grown(k, l, {s})
  BY <1>1, RestartedGrown
<1>4. Shape(k, asked, mailbox) /\ Account(k, asked, mailbox)
  BY <1>1, ClearedKeeps
<1>5. Waits(k, asked, mailbox, group)
  <2>1. Kids.alive = k.alive
    BY <1>2 DEF Kids
  <2> QED
    BY <1>1, <2>1 DEF Waits
<1> HIDE DEF k, l
<1>6. Shape(l, asked, mailbox) /\ Account(l, asked, mailbox) /\ Waits(l, asked, mailbox, group)
  BY <1>3, <1>4, <1>5, GrownKeeps, GrownWaits
<1>7. l \in Family /\ Running(s) \subseteq DOMAIN l.children
  BY <1>2, <1>3 DEF Grown, Running, Instances
<1>8. StopEach(l, Running(s), FALSE)
  BY DEF l
<1>9. Shape(Kids', asked', mailbox) /\ Account(Kids', asked', mailbox)
  BY <1>6, <1>7, <1>8, StopKeeps
<1>10. Waits(Kids', asked', mailbox, group)
  BY <1>6, <1>7, <1>8, StopWaits
<1>11. spawned' = l.spawned
  BY <1>7, <1>8, StopEffect
<1>12. Len(spawned) \in Nat /\ Len(l.spawned) \in Nat /\ Len(spawned) <= Len(l.spawned)
  BY <1>2, <1>3, <1>7 DEF Grown, Family
<1>13. Planning(group, Len(l.spawned))
  BY <1>1, <1>12, PlanningGrows
<1> QED
  BY <1>9, <1>10, <1>11, <1>13 DEF Called

(* delete_child erases the entries of children that it has asked to stop. *)
LEMMA DeleteCalled ==
    ASSUME SupInv, Watching, NEW s, UNCHANGED <<mailbox, group>>,
           asked' = asked \cup (Instances(s) \cap alive),
           Install([Kids EXCEPT !.children = Restrict(@, DOMAIN @ \ Instances(s))])
    PROVE  Called
<1>1. /\ Shape(Kids, asked, mailbox) /\ Account(Kids, asked, mailbox)
      /\ Waits(Kids, asked, mailbox, group) /\ Planning(group, Len(spawned))
      /\ Kids \in Family
  BY DEF SupInv, SupTyped, Shape
<1>2. /\ spawned' = spawned /\ alive' = alive
      /\ children' = [r \in DOMAIN children \ Instances(s) |-> children[r]]
  BY DEF Install, Kids, Restrict
<1>3. /\ DOMAIN children \in SUBSET Nat /\ \A r \in DOMAIN children : children[r] \in Entries
      /\ alive \in SUBSET Nat /\ spawned \in Seq(Specs)
      /\ alive \subseteq 1..Len(spawned) /\ DOMAIN children \subseteq 1..Len(spawned)
  BY <1>1 DEF Family, Kids, Tables, Refs
<1>4. /\ DOMAIN children' = DOMAIN children \ Instances(s)
      /\ \A r \in DOMAIN children' : children'[r] = children[r]
  BY <1>2
<1>5. children' \in [DOMAIN children \ Instances(s) -> Entries]
  BY <1>2, <1>3
<1>6. children' \in Tables
  BY <1>3, <1>5 DEF Tables
<1>7. Kids' \in Family
  BY <1>2, <1>3, <1>4, <1>6 DEF Family, Kids, Refs
<1>8. /\ Kids.spawned = spawned /\ Kids.alive = alive /\ Kids.children = children
      /\ Kids'.spawned = spawned /\ Kids'.alive = alive /\ Kids'.children = children'
  BY <1>2 DEF Kids
<1>9. asked' \subseteq Refs(Kids)
  BY <1>1, <1>3, <1>8 DEF Shape, Refs
<1>10. Shape(Kids', asked', mailbox)
  BY <1>1, <1>7, <1>8, <1>9 DEF Shape, Refs
<1>11. ASSUME NEW r \in alive PROVE r \in DOMAIN children' \/ r \in asked'
  BY <1>1, <1>4, <1>8 DEF Account
<1>12. Account(Kids', asked', mailbox)
  BY <1>1, <1>4, <1>8, <1>11 DEF Account, Single
<1>13. Waits(Kids', asked', mailbox, group)
  BY <1>1, <1>8 DEF Waits
<1> QED
  BY <1>1, <1>2, <1>10, <1>12, <1>13 DEF Called

(* A step of the supervisor's coroutine. *)
LEMMA CoroutineStep ==
    ASSUME SupInv, Coroutine
    PROVE  SupInv'
<1> USE DEF calls
<1>1. /\ SupTyped /\ Shape(Kids, asked, mailbox) /\ Planning(group, Len(spawned))
      /\ Kids \in Family /\ started \in BOOLEAN /\ stopping \in BOOLEAN /\ now \in 0..MaxTime
      /\ ~started => sup = "scheduled" /\ spawned = <<>> /\ group = NoGroup
  BY DEF SupInv, SupTyped, Shape
<1>2. /\ sup \in {"scheduled", "running"} /\ Watching
      /\ Account(Kids, asked, mailbox) /\ Waits(Kids, asked, mailbox, group)
  BY DEF SupInv, Coroutine, Start, Resume, Receive, Watching, Over
<1>3. strategy' = strategy /\ now' = now
  BY DEF Coroutine, Start, Resume, Receive
<1>4. CASE Start
  <2> DEFINE l == IF Simple THEN Kids ELSE StartChildren(Kids, [s \in Specs |-> s])
  <2>1. started' = TRUE /\ sup' = "running" /\ Install(l) /\ UNCHANGED <<stopping, mailbox, asked, group>>
    BY <1>4 DEF Start
  <2>2. Grown(Kids, l, Specs)
    <3>1. [s \in Specs |-> s] \in Seq(Specs)
      BY SupervisorAssumption DEF Specs
    <3>2. \A i \in 1..Len([s \in Specs |-> s]) : [s \in Specs |-> s][i] \in Specs
      BY <3>1
    <3>3. Grown(Kids, StartChildren(Kids, [s \in Specs |-> s]), Specs)
      BY <1>1, <3>1, <3>2, StartChildrenGrown
    <3> QED
      BY <1>1, <3>3, GrownRefl
  <2> HIDE DEF l
  <2>3. Called
    BY <1>2, <2>1, <2>2, GrownCalled
  <2> QED
    BY <1>1, <1>3, <2>1, <2>3, Kept DEF Called
<1>5. CASE Resume
  <2>1. /\ started /\ sup' = "running"
        /\ UNCHANGED <<started, stopping, mailbox, spawned, alive, asked, children, group>>
    BY <1>5 DEF Resume, child
  <2>2. Kids' = Kids
    BY <2>1 DEF Kids
  <2> QED
    BY <1>1, <1>2, <1>3, <2>1, <2>2, Kept
<1>6. CASE Receive
  <2>1. sup = "running" /\ started /\ started' = started
    BY <1>1, <1>6 DEF Receive
  <2>2. CASE mailbox = <<>>
    <3>1. sup' = "waiting" /\ UNCHANGED <<mailbox, spawned, alive, asked, children, group, stopping>>
      BY <1>6, <2>2 DEF Receive, child
    <3>2. Kids' = Kids
      BY <3>1 DEF Kids
    <3> QED
      BY <1>1, <1>2, <1>3, <2>1, <3>1, <3>2, Kept
  <2>3. CASE mailbox # <<>> /\ Head(mailbox) = StopSignal
    <3>1. /\ sup' = "done" /\ mailbox' = Tail(mailbox)
          /\ UNCHANGED <<spawned, alive, asked, children, group, stopping>>
      BY <1>6, <2>3 DEF Receive, child
    <3>2. Kids' = Kids /\ Kids.spawned = spawned
      BY <3>1 DEF Kids
    <3>3. Shape(Kids', asked', mailbox')
      <4>1. mailbox \in Seq(Signals) /\ \A i \in DOMAIN mailbox : mailbox[i].from <= Len(spawned)
        BY <1>1, <3>2 DEF Shape
      <4>2. /\ Tail(mailbox) \in Seq(Signals) /\ Len(Tail(mailbox)) = Len(mailbox) - 1
            /\ \A i \in 1..Len(Tail(mailbox)) : Tail(mailbox)[i] = mailbox[i + 1]
        BY <2>3, <4>1, HeadTailProperties
      <4>3. \A i \in DOMAIN Tail(mailbox) : i + 1 \in DOMAIN mailbox /\ Tail(mailbox)[i] = mailbox[i + 1]
        BY <4>1, <4>2
      <4> QED
        BY <1>1, <3>1, <3>2, <4>1, <4>2, <4>3 DEF Shape
    <3> QED
      BY <1>1, <1>3, <2>1, <3>1, <3>3, Kept DEF Over
  <2>4. CASE mailbox # <<>> /\ Head(mailbox) # StopSignal
    <3>1. HandleTermination(Head(mailbox).from, Head(mailbox).reason, alive, Tail(mailbox), "running")
      BY <1>6, <2>4 DEF Receive
    <3>2. Taken(Head(mailbox).from, alive, Tail(mailbox)) /\ Head(mailbox) \in Signals
      BY <1>1, <1>2, <2>4, TakeHead
    <3>3. Head(mailbox).reason \in Reasons
      BY <3>2 DEF Signals
    <3>4. Handled("running")
      BY <1>1, <1>2, <3>1, <3>2, <3>3, TerminationHandled
    <3> QED
      BY <1>1, <1>3, <2>1, <3>4, Kept DEF Handled, Over
  <2> QED
    BY <2>2, <2>3, <2>4
<1> QED
  BY <1>4, <1>5, <1>6 DEF Coroutine

(* The exit of a child. *)
LEMMA SignalStep ==
    ASSUME SupInv, NEW r \in alive, NEW why \in Reasons, sup # "running", Signal(r, why),
           UNCHANGED <<strategy, started, now>>
    PROVE  SupInv'
<1>1. /\ SupTyped /\ Shape(Kids, asked, mailbox) /\ Planning(group, Len(spawned))
      /\ Kids \in Family /\ started \in BOOLEAN /\ stopping \in BOOLEAN /\ now \in 0..MaxTime
      /\ ~started => sup = "scheduled" /\ spawned = <<>> /\ group = NoGroup
      /\ sup \in {"scheduled", "running", "waiting"} \cup Over
  BY DEF SupInv, SupTyped, Shape
<1>2. started
  <2>1. r \in 1..Len(spawned)
    BY <1>1 DEF Family, Kids, Refs
  <2> QED
    BY <1>1, <2>1
<1>3. sup \notin Over => Account(Kids, asked, mailbox) /\ Waits(Kids, asked, mailbox, group)
  BY DEF SupInv, Watching
<1>4. CASE sup = "waiting"
  <2>1. HandleTermination(r, why, alive \ {r}, mailbox, "scheduled")
    BY <1>4 DEF Signal, Over
  <2>2. Account(Kids, asked, mailbox) /\ Waits(Kids, asked, mailbox, group)
    BY <1>3, <1>4 DEF Over
  <2>3. Taken(r, alive \ {r}, mailbox)
    BY <1>1, <2>2, TakeLive
  <2>4. Handled("scheduled")
    BY <1>1, <2>1, <2>2, <2>3, TerminationHandled
  <2> QED
    BY <1>1, <1>2, <2>4, Kept DEF Handled, Over
<1>5. CASE sup = "scheduled"
  <2>1. /\ alive' = alive \ {r} /\ mailbox' = Append(mailbox, Down(r, why))
        /\ UNCHANGED <<sup, spawned, asked, children, group, stopping>>
    BY <1>5 DEF Signal, Over
  <2>2. Account(Kids, asked, mailbox) /\ Waits(Kids, asked, mailbox, group)
    BY <1>3, <1>5 DEF Over
  <2>3. /\ Shape(Kids', asked', mailbox') /\ Account(Kids', asked', mailbox')
        /\ Waits(Kids', asked', mailbox', group)
    BY <1>1, <2>1, <2>2, SignalQueued
  <2> QED
    BY <1>1, <1>2, <2>1, <2>3, Kept
<1>6. CASE sup \in Over
  <2>1. alive' = alive \ {r} /\ UNCHANGED <<sup, mailbox, spawned, asked, children, group, stopping>>
    BY <1>6 DEF Signal, Over
  <2>2. Kids' \in Family
    BY <1>1, <2>1 DEF Family, Kids, Refs
  <2>3. Kids'.spawned = spawned /\ Kids.spawned = spawned
    BY <2>1 DEF Kids
  <2>4. Shape(Kids', asked', mailbox')
    BY <1>1, <2>1, <2>2, <2>3 DEF Shape, Refs
  <2> QED
    BY <1>1, <1>2, <1>6, <2>1, <2>4, Kept
<1> QED
  BY <1>1, <1>4, <1>5, <1>6

(* An administrative call. *)
Administered ==
    \/ StopSupervisor
    \/ \E s \in Specs : StartChildCall(s) \/ StopChildCall(s) \/ RestartChildCall(s)
                          \/ DeleteChildCall(s)

LEMMA AdministerStep ==
    ASSUME SupInv, Administered
    PROVE  SupInv'
<1>1. /\ SupTyped /\ Shape(Kids, asked, mailbox) /\ Planning(group, Len(spawned))
      /\ Kids \in Family /\ started \in BOOLEAN /\ stopping \in BOOLEAN /\ now \in 0..MaxTime
      /\ ~started => sup = "scheduled" /\ spawned = <<>> /\ group = NoGroup
      /\ Kids.spawned = spawned /\ Kids.children = children
  BY DEF SupInv, SupTyped, Shape, Kids
<1>2. Administer
  BY DEF Administered, StopSupervisor, StartChildCall, StopChildCall, RestartChildCall,
         DeleteChildCall
<1>3. sup \in {"waiting", "scheduled"} /\ UNCHANGED <<strategy, started, now>>
  BY <1>2 DEF Administer
<1>4. Watching /\ Account(Kids, asked, mailbox) /\ Waits(Kids, asked, mailbox, group)
  BY <1>3 DEF SupInv, Watching, Over
<1>5. ASSUME Called, started, UNCHANGED <<sup, stopping>> PROVE SupInv'
  BY <1>1, <1>3, <1>5, Kept DEF Called
<1>6. CASE StopSupervisor
  <2>1. Stop(Kids, mailbox, "scheduled", sup)
    BY <1>6 DEF StopSupervisor
  <2>2. /\ Shape(Kids', asked', mailbox') /\ Account(Kids', asked', mailbox')
        /\ Waits(Kids', asked', mailbox', group') /\ Planning(group', Len(spawned'))
        /\ stopping' = TRUE /\ sup' \in {"scheduled", sup} /\ spawned' = spawned
    BY <1>1, <1>4, <2>1, StopCase
  <2>3. group = NoGroup => group' = NoGroup
    BY <2>1 DEF Stop
  <2> QED
    BY <1>1, <1>3, <2>2, <2>3, Kept
<1>7. ASSUME NEW s \in Specs, StartChildCall(s) PROVE SupInv'
  <2>1. started /\ Install(StartChild(Kids, s)) /\ UNCHANGED <<sup, stopping, mailbox, asked, group>>
    BY <1>7 DEF StartChildCall
  <2>2. Grown(Kids, StartChild(Kids, s), Specs)
    BY <1>1, GrownRefl, GrownStart
  <2>3. Called
    BY <1>4, <2>1, <2>2, GrownCalled
  <2> QED
    BY <1>5, <2>1, <2>3
<1>8. ASSUME NEW s \in Specs, StopEach(Kids, Instances(s), TRUE), UNCHANGED <<mailbox, group>>
      PROVE  Called
  <2>1. Instances(s) \subseteq DOMAIN children
    BY DEF Instances
  <2> QED
    BY <1>4, <1>8, <2>1, StopCalled
<1>9. ASSUME NEW s \in Specs, StopChildCall(s) PROVE SupInv'
  BY <1>5, <1>8, <1>9 DEF StopChildCall
<1>10. ASSUME NEW s \in Specs, RestartChildCall(s) PROVE SupInv'
  <2>1. /\ started /\ StopEach(Restarted(s), Running(s), FALSE)
        /\ UNCHANGED <<sup, stopping, mailbox, group>>
    BY <1>10 DEF RestartChildCall, RestartEntries, Restarted, Running, Again
  <2> QED
    BY <1>4, <1>5, <2>1, RestartCalled
<1>11. ASSUME NEW s \in Specs, DeleteChildCall(s) PROVE SupInv'
  <2>1. started /\ UNCHANGED <<sup, stopping, mailbox, group>>
    BY <1>11 DEF DeleteChildCall
  <2>2. CASE Throws(Kids, Instances(s)) = {}
    <3>1. /\ asked' = asked \cup (Instances(s) \cap alive)
          /\ Install([Kids EXCEPT !.children = Restrict(@, DOMAIN @ \ Instances(s))])
      BY <1>11, <2>2 DEF DeleteChildCall
    <3> QED
      BY <1>4, <1>5, <2>1, <3>1, DeleteCalled
  <2>3. CASE Throws(Kids, Instances(s)) # {}
    BY <1>5, <1>8, <1>11, <2>1, <2>3 DEF DeleteChildCall
  <2> QED
    BY <2>2, <2>3
<1> QED
  BY <1>6, <1>7, <1>9, <1>10, <1>11 DEF Administered

(* Every step. *)
LEMMA SupStep == SupInv /\ [Next]_vars => SupInv'
<1> SUFFICES ASSUME SupInv, [Next]_vars PROVE SupInv'
  OBVIOUS
<1>1. /\ Shape(Kids, asked, mailbox) /\ Planning(group, Len(spawned))
      /\ started \in BOOLEAN /\ stopping \in BOOLEAN /\ now \in 0..MaxTime
      /\ ~started => sup = "scheduled" /\ spawned = <<>> /\ group = NoGroup
      /\ sup \in {"scheduled", "running", "waiting"} \cup Over
      /\ sup \notin Over => Account(Kids, asked, mailbox) /\ Waits(Kids, asked, mailbox, group)
  BY DEF SupInv, SupTyped, Watching
<1>2. ASSUME UNCHANGED <<strategy, sup, started, stopping, mailbox, spawned, alive, asked,
                         children, group>>, now' \in 0..MaxTime
      PROVE  SupInv'
  <2>1. Kids' = Kids
    BY <1>2 DEF Kids
  <2> QED
    BY <1>1, <1>2, <2>1, Kept
<1>3. CASE UNCHANGED vars
  BY <1>1, <1>2, <1>3 DEF vars
<1>4. CASE Coroutine
  BY <1>4, CoroutineStep
<1>5. ASSUME NEW r \in alive, Fail(r) PROVE SupInv'
  <2>1. sup # "running" /\ UNCHANGED <<strategy, started, now>>
    BY <1>5 DEF Fail
  <2>2. PICK why \in {"normal", "error"} : Signal(r, why)
    BY <1>5 DEF Fail
  <2> QED
    BY <2>1, <2>2, SignalStep DEF Reasons
<1>6. ASSUME NEW r \in alive, Obey(r) PROVE SupInv'
  <2>1. sup # "running" /\ UNCHANGED <<strategy, started, now>>
    BY <1>6 DEF Obey
  <2>2. PICK why \in {"stopped", "error"} : Signal(r, why)
    BY <1>6 DEF Obey
  <2> QED
    BY <2>1, <2>2, SignalStep DEF Reasons
<1>7. CASE Tick
  <2>1. now' \in 0..MaxTime
    BY <1>1, <1>7, SupervisorAssumption DEF Tick
  <2> QED
    BY <1>2, <1>7, <2>1 DEF Tick, child
<1>8. CASE Administered
  BY <1>8, AdministerStep
<1> QED
  BY <1>3, <1>4, <1>5, <1>6, <1>7, <1>8 DEF Next, Administered

LEMMA SupStart == Init => SupInv
<1> SUFFICES ASSUME Init PROVE SupInv
  OBVIOUS
<1>1. /\ Kids = [spawned |-> <<>>, alive |-> {}, children |-> <<>>] /\ asked = {} /\ mailbox = <<>>
      /\ group = NoGroup /\ spawned = <<>>
  BY DEF Init, Kids
<1>2. <<>> \in Seq(Specs) /\ Len(<<>>) = 0 /\ <<>> \in Seq(Signals) /\ DOMAIN <<>> = {}
  OBVIOUS
<1>3. <<>> \in Tables
  <2>1. <<>> \in [{} -> Entries] /\ {} \in SUBSET Nat
    BY <1>2
  <2> QED
    BY <2>1 DEF Tables
<1>4. Kids \in Family
  BY <1>1, <1>2, <1>3 DEF Family, Refs
<1>5. Shape(Kids, asked, mailbox)
  BY <1>1, <1>2, <1>4 DEF Shape
<1>6. Account(Kids, asked, mailbox) /\ Waits(Kids, asked, mailbox, group) /\ Planning(group, Len(spawned))
  BY <1>1, <1>2 DEF Account, Waits, Planning, Single
<1>7. sup = "scheduled" /\ started \in BOOLEAN /\ stopping \in BOOLEAN
  BY DEF Init
<1>8. now \in 0..MaxTime
  BY SupervisorAssumption DEF Init
<1> QED
  BY <1>1, <1>5, <1>6, <1>7, <1>8 DEF SupInv, SupTyped

LEMMA SupInvariant == Spec => []SupInv
BY SupStart, SupStep, PTL DEF Spec

-----------------------------------------------------------------------------
(* Theorems. *)

(* children_ and the registry agree up to the signals under way: an entry  *)
(* is a live child or has its DownSignal queued, a live child that the     *)
(* supervisor has forgotten was asked to stop, and no specification has    *)
(* two children that were not.                                             *)
THEOREM EntriesRegistered == Spec => []EntriesAccounted
<1>1. SupInv => EntriesAccounted
  <2> SUFFICES ASSUME SupInv, Watching PROVE EntriesAccounted
    BY DEF EntriesAccounted, Watching
  <2>1. Account(Kids, asked, mailbox)
    BY DEF SupInv
  <2>2. /\ \A r \in DOMAIN children : r \in alive \/ QueuedIn(mailbox, r)
        /\ \A r \in alive : r \in DOMAIN children \/ r \in asked
        /\ ~Simple => Single(spawned, children)
        /\ \A i \in DOMAIN mailbox : mailbox[i].from \notin alive
    BY <2>1 DEF Account, Kids
  <2>3. ASSUME NEW r \in DOMAIN children PROVE r \in alive <=> ~Queued(r)
    BY <2>2 DEF Queued, QueuedIn
  <2>4. ASSUME ~Simple, NEW q \in alive \ asked, NEW r \in alive \ asked, spawned[q] = spawned[r]
        PROVE  q = r
    BY <2>2, <2>4 DEF Single
  <2> QED
    BY <2>2, <2>3, <2>4 DEF EntriesAccounted
<1> QED
  BY <1>1, SupInvariant, PTL

(* While a restart group is open it waits for some child, and each child   *)
(* it waits for was asked to stop and will still be heard of.              *)
THEOREM GroupsCanFinish == Spec => []GroupCanFinish
<1>1. SupInv => GroupCanFinish
  <2> SUFFICES ASSUME SupInv, Watching PROVE GroupCanFinish
    BY DEF GroupCanFinish, Watching
  <2>1. Waits(Kids, asked, mailbox, group)
    BY DEF SupInv
  <2> QED
    BY <2>1 DEF Waits, GroupCanFinish, Queued, QueuedIn, Kids
<1> QED
  BY <1>1, SupInvariant, PTL

-----------------------------------------------------------------------------
(* Restart intensity. *)

(* The times that are not before t. *)
Since(times, t) == Cardinality({i \in DOMAIN times : times[i] >= t})

(* restart_times_ counts, for every moment that still matters, the         *)
(* restarts granted since then.                                            *)
Rated ==
    /\ restartTimes \in Seq(Nat) /\ granted \in Seq(Nat) /\ now \in Nat
    /\ \A t \in Int : now - Within <= t => Since(granted, t) <= Since(restartTimes, t)
    /\ IntensityRespected

(* A part of a sequence's domain is finite and at most as large. *)
LEMMA PartSize ==
    ASSUME NEW times \in Seq(Nat), NEW P, P \subseteq DOMAIN times
    PROVE  IsFiniteSet(P) /\ Cardinality(P) \in Nat /\ Cardinality(P) <= Len(times)
<1>1. Len(times) \in Nat /\ DOMAIN times = 1..Len(times)
  OBVIOUS
<1>2. IsFiniteSet(1..Len(times)) /\ Cardinality(1..Len(times)) = Len(times)
  <2>1. 1 \in Int /\ Len(times) \in Int
    BY <1>1
  <2>2. /\ IsFiniteSet(1..Len(times))
        /\ Cardinality(1..Len(times)) = IF 1 > Len(times) THEN 0 ELSE Len(times) - 1 + 1
    BY <2>1, FS_Interval
  <2> QED
    BY <1>1, <2>2
<1>3. IsFiniteSet(P) /\ Cardinality(P) <= Cardinality(1..Len(times))
  BY <1>1, <1>2, FS_Subset
<1>4. Cardinality(P) \in Nat
  BY <1>3, FS_CardinalityType
<1> QED
  BY <1>2, <1>3, <1>4

(* One more time. *)
LEMMA SinceAppend ==
    ASSUME NEW times \in Seq(Nat), NEW v \in Nat, NEW t \in Int
    PROVE  /\ Since(times, t) \in Nat
           /\ Since(Append(times, v), t) = IF v >= t THEN Since(times, t) + 1 ELSE Since(times, t)
<1> DEFINE n == Len(times) + 1
           A == {i \in DOMAIN times : times[i] >= t}
           B == {i \in DOMAIN Append(times, v) : Append(times, v)[i] >= t}
<1>1. /\ Len(times) \in Nat /\ DOMAIN times = 1..Len(times)
      /\ Append(times, v) \in Seq(Nat) /\ Len(Append(times, v)) = n
      /\ \A i \in 1..Len(times) : Append(times, v)[i] = times[i]
      /\ Append(times, v)[n] = v
  BY AppendProperties
<1>2. DOMAIN Append(times, v) = 1..n
  BY <1>1
<1>3. n \notin A /\ 1..n = (1..Len(times)) \cup {n} /\ n \notin 1..Len(times)
  BY <1>1
<1>4. A \subseteq DOMAIN times
  OBVIOUS
<1>5. IsFiniteSet(A) /\ Cardinality(A) \in Nat
  BY <1>4, PartSize
<1>6. B = IF v >= t THEN A \cup {n} ELSE A
  <2>1. \A i \in 1..Len(times) : i \in B <=> i \in A
    BY <1>1, <1>2, <1>3
  <2>2. n \in B <=> v >= t
    BY <1>1, <1>2, <1>3
  <2>3. A \subseteq 1..Len(times) /\ B \subseteq (1..Len(times)) \cup {n}
    BY <1>1, <1>2, <1>3
  <2> HIDE DEF A, B, n
  <2>4. CASE v >= t
    BY <2>1, <2>2, <2>3, <2>4
  <2>5. CASE ~(v >= t)
    <3>1. B = A
      BY <2>1, <2>2, <2>3, <2>5
    <3> QED
      BY <2>5, <3>1
  <2> QED
    BY <2>4, <2>5
<1> HIDE DEF A, B, n
<1>7. Cardinality(A \cup {n}) = Cardinality(A) + 1
  BY <1>3, <1>5, FS_AddElement
<1> QED
  BY <1>5, <1>6, <1>7 DEF Since, A, B

(* The loop that erases old restart times: its states. *)
Prunes(f) ==
    /\ Pruned = f[Len(restartTimes)]
    /\ f[0] = <<>>
    /\ \A i \in 1..Len(restartTimes) :
          f[i] = IF now - restartTimes[i] > Within THEN f[i - 1]
                 ELSE Append(f[i - 1], restartTimes[i])

LEMMA PruneLoop ==
    ASSUME restartTimes \in Seq(Nat)
    PROVE  \E f : Prunes(f)
<1> DEFINE n == Len(restartTimes)
           Move(k, i) == IF now - restartTimes[i] > Within THEN k ELSE Append(k, restartTimes[i])
           Body(f) == [i \in 0..n |-> IF i = 0 THEN <<>>
                                      ELSE Move(f[i - 1], i)]
           kept == CHOOSE f : f = Body(f)
           step == [i \in 1..n |-> [k \in Seq(Nat) |-> Move(k, i)]]
<1>1. n \in Nat /\ (\A i \in 1..n : restartTimes[i] \in Nat)
  OBVIOUS
<1> HIDE DEF n
<1>2. step \in Steps(Seq(Nat), n)
  <2>1. ASSUME NEW i \in 1..n, NEW k \in Seq(Nat) PROVE Move(k, i) \in Seq(Nat)
    BY <1>1
  <2> HIDE DEF Move
  <2> QED
    BY <2>1 DEF Steps
<1>3. <<>> \in Seq(Nat)
  OBVIOUS
<1>4. PICK f : Run(f, Seq(Nat), n, <<>>, step)
  <2> HIDE DEF step
  <2> QED
    BY <1>1, <1>2, <1>3, LoopExists
<1>5. f = Body(f)
  <2>1. /\ f \in [0..n -> Seq(Nat)] /\ f[0] = <<>>
        /\ \A i \in 1..n : f[i] = step[i][f[i - 1]]
    <3> HIDE DEF step
    <3> QED
      BY <1>4 DEF Run
  <2> HIDE DEF Move
  <2>2. ASSUME NEW i \in 1..n PROVE f[i] = Move(f[i - 1], i)
    <3>1. i - 1 \in 0..n
      BY <1>1
    <3> QED
      BY <2>1, <3>1
  <2> QED
    BY <1>1, <2>1, <2>2
<1>6. kept = Body(kept)
  <2> HIDE DEF Body
  <2> QED
    BY <1>5
<1>7. Pruned = kept[n]
  BY DEF Pruned, n
<1> HIDE DEF kept
<1>8. kept[0] = <<>> /\ \A i \in 1..n : kept[i] = Move(kept[i - 1], i)
  <2>1. 0 \in 0..n /\ \A i \in 1..n : i \in 0..n /\ i # 0
    BY <1>1
  <2> QED
    BY <1>6, <2>1
<1>9. Prunes(kept)
  BY <1>7, <1>8 DEF Prunes, n
<1> QED
  BY <1>9

(* The erase_if leaves times that were there. *)
LEMMA PrunedPast ==
    ASSUME now \in Nat, restartTimes \in Seq(0..now)
    PROVE  Pruned \in Seq(0..now)
<1> DEFINE n == Len(restartTimes)
           T(kept) == {i \in 0..n : kept[i] \in Seq(0..now)}
<1>1. /\ n \in Nat /\ restartTimes \in Seq(Nat)
      /\ \A i \in 1..n : restartTimes[i] \in 0..now
  OBVIOUS
<1>2. PICK kept : Prunes(kept)
  BY <1>1, PruneLoop
<1>3. /\ Pruned = kept[n] /\ kept[0] = <<>>
      /\ \A i \in 1..n : kept[i] \in {kept[i - 1], Append(kept[i - 1], restartTimes[i])}
  BY <1>2 DEF Prunes
<1> HIDE DEF n
<1>4. 0 \in T(kept)
  <2>1. <<>> \in Seq(0..now) /\ 0 \in 0..n
    BY <1>1
  <2> QED
    BY <1>3, <2>1
<1>5. ASSUME NEW i \in 1..n, i - 1 \in T(kept) PROVE i \in T(kept)
  <2>1. kept[i - 1] \in Seq(0..now) /\ restartTimes[i] \in 0..now /\ i \in 0..n
    BY <1>1, <1>5
  <2>2. Append(kept[i - 1], restartTimes[i]) \in Seq(0..now)
    BY <2>1, AppendProperties
  <2> QED
    BY <1>3, <2>1, <2>2
<1>6. n \in T(kept)
  <2> HIDE DEF T
  <2>1. \A i \in 0..n : i \in T(kept)
    BY <1>1, <1>4, <1>5, UpTo
  <2> QED
    BY <1>1, <2>1
<1> QED
  BY <1>3, <1>6

(* The erase_if keeps every time that still matters. *)
LEMMA PrunedSince ==
    ASSUME restartTimes \in Seq(Nat), now \in Nat, NEW t \in Int, now - Within <= t
    PROVE  Pruned \in Seq(Nat) /\ Since(restartTimes, t) <= Since(Pruned, t)
<1> DEFINE n == Len(restartTimes)
           Move(k, i) == IF now - restartTimes[i] > Within THEN k ELSE Append(k, restartTimes[i])
<1>1. /\ n \in Nat /\ (\A i \in 1..n : restartTimes[i] \in Nat) /\ DOMAIN restartTimes = 1..n
      /\ Within \in Nat
  BY SupervisorAssumption
<1>2. PICK kept : Prunes(kept)
  BY PruneLoop
<1>3. Pruned = kept[n]
  BY <1>2 DEF Prunes
<1>4. kept[0] = <<>> /\ \A i \in 1..n : kept[i] = Move(kept[i - 1], i)
  BY <1>2 DEF Prunes
<1> HIDE DEF n
<1> DEFINE A(i) == {j \in 1..i : restartTimes[j] >= t}
           T == {i \in 0..n : /\ kept[i] \in Seq(Nat)
                              /\ Cardinality(A(i)) <= Since(kept[i], t)}
<1>5. 0 \in T
  <2>1. A(0) = {} /\ {j \in DOMAIN kept[0] : kept[0][j] >= t} = {}
    BY <1>4
  <2>2. Cardinality({}) = 0
    BY FS_EmptySet
  <2>3. Cardinality(A(0)) = 0 /\ Since(kept[0], t) = 0
    BY <2>1, <2>2 DEF Since
  <2>4. kept[0] \in Seq(Nat) /\ 0 \in 0..n
    BY <1>1, <1>4
  <2> HIDE DEF A
  <2> QED
    BY <2>3, <2>4
<1>6. ASSUME NEW i \in 1..n, i - 1 \in T PROVE i \in T
  <2>1. kept[i - 1] \in Seq(Nat) /\ Cardinality(A(i - 1)) <= Since(kept[i - 1], t)
    BY <1>6
  <2>2. kept[i] = Move(kept[i - 1], i) /\ restartTimes[i] \in Nat /\ i \in 0..n
    BY <1>1, <1>4
  <2>3. i \notin A(i - 1) /\ A(i) = IF restartTimes[i] >= t THEN A(i - 1) \cup {i} ELSE A(i - 1)
    <3>1. 1..i = (1..(i - 1)) \cup {i} /\ i \notin 1..(i - 1)
      BY <1>1
    <3> QED
      BY <3>1
  <2>4. A(i - 1) \subseteq DOMAIN restartTimes
    BY <1>1
  <2>5. IsFiniteSet(A(i - 1)) /\ Cardinality(A(i - 1)) \in Nat
    BY <2>4, PartSize
  <2>6. Cardinality(A(i)) = Cardinality(A(i - 1)) + (IF restartTimes[i] >= t THEN 1 ELSE 0)
    <3> HIDE DEF A
    <3>1. Cardinality(A(i - 1) \cup {i}) = Cardinality(A(i - 1)) + 1
      BY <2>3, <2>5, FS_AddElement
    <3>2. CASE restartTimes[i] >= t
      BY <2>3, <3>1, <3>2
    <3>3. CASE ~(restartTimes[i] >= t)
      <4>1. A(i) = A(i - 1)
        BY <2>3, <3>3
      <4> QED
        BY <2>5, <3>3, <4>1
    <3> QED
      BY <3>2, <3>3
  <2>7. /\ Since(kept[i - 1], t) \in Nat
        /\ Since(Append(kept[i - 1], restartTimes[i]), t) =
              IF restartTimes[i] >= t THEN Since(kept[i - 1], t) + 1 ELSE Since(kept[i - 1], t)
    BY <2>1, <2>2, SinceAppend
  <2>8. Append(kept[i - 1], restartTimes[i]) \in Seq(Nat)
    BY <2>1, <2>2
  <2>9. now - restartTimes[i] > Within => ~(restartTimes[i] >= t)
    BY <1>1, <2>2
  <2>10. kept[i] \in Seq(Nat)
    BY <2>1, <2>2, <2>8
  <2>11. Cardinality(A(i)) <= Since(kept[i], t)
    <3>1. CASE now - restartTimes[i] > Within
      <4>1. kept[i] = kept[i - 1]
        BY <2>2, <3>1
      <4> HIDE DEF A
      <4> QED
        BY <2>1, <2>5, <2>6, <2>7, <2>9, <3>1, <4>1
    <3>2. CASE ~(now - restartTimes[i] > Within)
      <4>1. kept[i] = Append(kept[i - 1], restartTimes[i])
        BY <2>2, <3>2
      <4> HIDE DEF A
      <4> QED
        BY <2>1, <2>5, <2>6, <2>7, <4>1
    <3> QED
      BY <3>1, <3>2
  <2> HIDE DEF A
  <2> QED
    BY <2>2, <2>10, <2>11
<1>7. n \in T
  <2> HIDE DEF T
  <2>1. \A i \in 0..n : i \in T
    BY <1>1, <1>5, <1>6, UpTo
  <2> QED
    BY <1>1, <2>1
<1>8. A(n) = {j \in DOMAIN restartTimes : restartTimes[j] >= t}
  BY <1>1
<1> QED
  BY <1>3, <1>7, <1>8 DEF Since

(* register_restart. *)
LEMMA RegisterRated ==
    ASSUME Rated, RegisterRestart, now' = now
    PROVE  Rated'
<1>1. /\ restartTimes \in Seq(Nat) /\ granted \in Seq(Nat) /\ now \in Nat
      /\ \A t \in Int : now - Within <= t => Since(granted, t) <= Since(restartTimes, t)
      /\ Within \in Nat /\ MaxRestarts \in Nat
  BY SupervisorAssumption DEF Rated
<1>2. CASE MaxRestarts = 0
  <2>1. UNCHANGED <<restartTimes, granted>>
    BY <1>2 DEF RegisterRestart, MayRestart
  <2> QED
    BY <2>1 DEF Rated, Since, IntensityRespected
<1>3. CASE MaxRestarts # 0
  <2>1. restartTimes' = Append(Pruned, now)
    BY <1>3 DEF RegisterRestart
  <2>2. Pruned \in Seq(Nat)
    <3>1. now - Within \in Int /\ now - Within <= now - Within
      BY <1>1
    <3> QED
      BY <1>1, <3>1, PrunedSince
  <2>3. restartTimes' \in Seq(Nat)
    BY <1>1, <2>1, <2>2
  <2>4. ASSUME NEW t \in Int, now - Within <= t
        PROVE  /\ Since(granted, t) \in Nat /\ Since(Pruned, t) \in Nat
               /\ Since(granted, t) <= Since(Pruned, t)
               /\ Since(Pruned, t) <= Len(Pruned)
               /\ Since(restartTimes', t) = IF now >= t THEN Since(Pruned, t) + 1 ELSE Since(Pruned, t)
    <3>1. Since(granted, t) <= Since(restartTimes, t) /\ Since(restartTimes, t) <= Since(Pruned, t)
      BY <1>1, <2>4, PrunedSince
    <3>2. Since(granted, t) \in Nat /\ Since(restartTimes, t) \in Nat /\ Since(Pruned, t) \in Nat
      BY <1>1, <2>2, SinceAppend
    <3>3. Since(restartTimes', t) = IF now >= t THEN Since(Pruned, t) + 1 ELSE Since(Pruned, t)
      <4>1. now \in Nat
        BY <1>1
      <4>2. /\ Since(Pruned, t) \in Nat
            /\ Since(Append(Pruned, now), t) =
                  IF now >= t THEN Since(Pruned, t) + 1 ELSE Since(Pruned, t)
        BY <2>2, <4>1, SinceAppend
      <4> QED
        BY <2>1, <4>2
    <3>4. Since(Pruned, t) <= Len(Pruned)
      <4>1. {i \in DOMAIN Pruned : Pruned[i] >= t} \subseteq DOMAIN Pruned
        OBVIOUS
      <4> QED
        BY <2>2, <4>1, PartSize DEF Since
    <3> QED
      BY <3>1, <3>2, <3>3, <3>4
  <2>5. CASE ~MayRestart
    <3>1. granted' = granted
      BY <2>5 DEF RegisterRestart
    <3>2. ASSUME NEW t \in Int, now - Within <= t PROVE Since(granted, t) <= Since(restartTimes', t)
      BY <2>4, <3>2
    <3>3. IntensityRespected'
      BY <3>1 DEF Rated, IntensityRespected
    <3> QED
      BY <1>1, <2>3, <3>1, <3>2, <3>3 DEF Rated, Since
  <2>6. CASE MayRestart
    <3>1. granted' = Append(granted, now) /\ Len(Pruned) < MaxRestarts
      BY <2>6 DEF RegisterRestart, MayRestart
    <3>2. /\ granted' \in Seq(Nat) /\ Len(granted') = Len(granted) + 1
          /\ \A i \in 1..Len(granted) : granted'[i] = granted[i]
          /\ granted'[Len(granted) + 1] = now
      BY <1>1, <3>1, AppendProperties
    <3>3. /\ Len(granted) \in Nat /\ DOMAIN granted = 1..Len(granted)
          /\ DOMAIN granted' = 1..(Len(granted) + 1) /\ Len(Pruned) \in Nat
      BY <1>1, <2>2, <3>2
    <3>4. ASSUME NEW t \in Int
          PROVE  Since(granted', t) = IF now >= t THEN Since(granted, t) + 1 ELSE Since(granted, t)
      <4>1. now \in Nat /\ granted \in Seq(Nat)
        BY <1>1
      <4>2. /\ Since(granted, t) \in Nat
            /\ Since(Append(granted, now), t) =
                  IF now >= t THEN Since(granted, t) + 1 ELSE Since(granted, t)
        BY <4>1, SinceAppend
      <4> QED
        BY <3>1, <4>2
    <3>5. ASSUME NEW t \in Int, now - Within <= t PROVE Since(granted', t) <= Since(restartTimes', t)
      BY <2>4, <3>4, <3>5
    <3>6. ASSUME NEW i \in DOMAIN granted'
          PROVE  Cardinality({j \in DOMAIN granted' : granted'[j] - granted'[i] \in 0..Within})
                    <= MaxRestarts
      <4> DEFINE t == granted'[i]
                 W == {j \in DOMAIN granted' : granted'[j] - t \in 0..Within}
                 V == {j \in DOMAIN granted' : granted'[j] >= t}
      <4>1. t \in Nat /\ \A j \in DOMAIN granted' : granted'[j] \in Nat
        BY <3>2, <3>3
      <4>2. CASE now - Within <= t
        <5>1. W \subseteq V /\ V \subseteq DOMAIN granted'
          BY <1>1, <4>1
        <5>2. IsFiniteSet(V) /\ Cardinality(V) \in Nat
          BY <3>2, <5>1, PartSize
        <5>3. IsFiniteSet(W) /\ Cardinality(W) <= Cardinality(V) /\ Cardinality(W) \in Nat
          BY <5>1, <5>2, FS_Subset, FS_CardinalityType
        <5>4. Cardinality(V) = Since(granted', t)
          BY DEF Since
        <5>5. /\ Since(granted, t) \in Nat /\ Since(Pruned, t) \in Nat
              /\ Since(granted, t) <= Since(Pruned, t)
              /\ Since(Pruned, t) <= Len(Pruned)
          BY <2>4, <4>1, <4>2
        <5>6. Since(granted', t) <= Since(granted, t) + 1
          BY <3>4, <4>1, <5>5
        <5> HIDE DEF W, V, t
        <5>7. Cardinality(W) <= MaxRestarts
          BY <1>1, <3>1, <3>3, <5>2, <5>3, <5>4, <5>5, <5>6
        <5> QED
          BY <5>7 DEF W, t
      <4>3. CASE ~(now - Within <= t)
        <5>1. i \in DOMAIN granted /\ t = granted[i]
          BY <1>1, <3>2, <3>3, <4>3
        <5>2. W = {j \in DOMAIN granted : granted[j] - granted[i] \in 0..Within}
          <6>1. ASSUME NEW j \in DOMAIN granted', j \notin DOMAIN granted PROVE j \notin W
            BY <1>1, <3>2, <3>3, <4>1, <4>3, <6>1
          <6>2. \A j \in DOMAIN granted : j \in DOMAIN granted' /\ granted'[j] = granted[j]
            BY <3>2, <3>3
          <6> QED
            BY <5>1, <6>1, <6>2
        <5> QED
          BY <5>1, <5>2 DEF Rated, IntensityRespected
      <4> QED
        BY <4>2, <4>3
    <3>7. IntensityRespected'
      BY <3>6 DEF IntensityRespected
    <3> QED
      BY <1>1, <2>3, <3>2, <3>5, <3>7 DEF Rated, Since
  <2> QED
    BY <2>5, <2>6
<1> QED
  BY <1>2, <1>3

(* Nothing else touches restart_times_, and the passing of time only makes *)
(* fewer of them matter.                                                   *)
LEMMA RatedStep == Rated /\ [Next]_vars => Rated'
<1> SUFFICES ASSUME Rated, [Next]_vars PROVE Rated'
  OBVIOUS
<1>1. ASSUME UNCHANGED <<restartTimes, granted>>, now' \in Nat, now' >= now PROVE Rated'
  <2>1. /\ now \in Nat /\ Within \in Nat
        /\ \A t \in Int : now - Within <= t => Since(granted, t) <= Since(restartTimes, t)
    BY SupervisorAssumption DEF Rated
  <2>2. ASSUME NEW t \in Int, now' - Within <= t PROVE Since(granted, t) <= Since(restartTimes, t)
    <3>1. now - Within <= t
      <4>1. \A m, n, w \in Nat : n >= m /\ n - w <= t => m - w <= t
        OBVIOUS
      <4>2. now \in Nat /\ Within \in Nat
        BY <2>1
      <4> QED
        BY <1>1, <2>2, <4>1, <4>2
    <3> QED
      BY <2>1, <3>1
  <2>3. IntensityRespected'
    BY <1>1 DEF Rated, IntensityRespected
  <2> QED
    BY <1>1, <2>2, <2>3 DEF Rated, Since
<1>2. now \in Nat
  BY DEF Rated
<1>3. ASSUME UNCHANGED <<restartTimes, granted, now>> PROVE Rated'
  BY <1>1, <1>2, <1>3
<1>4. ASSUME NEW r, NEW why, NEW live, NEW box, NEW after,
             HandleTermination(r, why, live, box, after), now' = now
      PROVE  Rated'
  <2>1. RegisterRestart \/ UNCHANGED restarts
    BY <1>4 DEF HandleTermination, Forget, Refuse, RestartOne, BeginRestartGroup, RestartGroupStop
  <2> QED
    BY <1>3, <1>4, <2>1, RegisterRated DEF restarts
<1>5. CASE UNCHANGED vars
  BY <1>3, <1>5 DEF vars
<1>6. CASE Start \/ Resume
  BY <1>3, <1>6 DEF Start, Resume, restarts
<1>7. CASE Receive
  BY <1>3, <1>4, <1>7 DEF Receive, restarts
<1>8. ASSUME NEW r, NEW why, Signal(r, why), now' = now PROVE Rated'
  BY <1>3, <1>4, <1>8 DEF Signal, restarts
<1>9. ASSUME NEW r \in alive, Fail(r) \/ Obey(r) PROVE Rated'
  BY <1>8, <1>9 DEF Fail, Obey
<1>10. CASE Tick
  BY <1>1, <1>2, <1>10 DEF Tick, restarts
<1>11. CASE Administer
  BY <1>3, <1>11 DEF Administer, restarts
<1>12. Administered => Administer
  BY DEF Administered, StopSupervisor, StartChildCall, StopChildCall, RestartChildCall,
         DeleteChildCall
<1> QED
  BY <1>5, <1>6, <1>7, <1>9, <1>10, <1>11, <1>12 DEF Next, Coroutine, Administered

LEMMA RatedStart == Init => Rated
<1> SUFFICES ASSUME Init PROVE Rated
  OBVIOUS
<1>1. restartTimes = <<>> /\ granted = <<>> /\ now = 0
  BY DEF Init
<1>2. \A t \in Int : Since(granted, t) = Since(restartTimes, t) /\ Since(granted, t) \in Nat
  <2>1. ASSUME NEW t \in Int PROVE Since(<<>>, t) \in Nat
    <3>1. <<>> \in Seq(Nat) /\ 0 \in Nat
      OBVIOUS
    <3>2. /\ Since(<<>>, t) \in Nat
          /\ Since(Append(<<>>, 0), t) = IF 0 >= t THEN Since(<<>>, t) + 1 ELSE Since(<<>>, t)
      BY <3>1, SinceAppend
    <3> QED
      BY <3>2
  <2> QED
    BY <1>1, <2>1
<1>3. IntensityRespected
  BY <1>1 DEF IntensityRespected
<1> QED
  BY <1>1, <1>2, <1>3 DEF Rated

(* register_restart grants no more than max_restarts restarts in any       *)
(* interval of length within, although restart_times_ is pruned each time  *)
(* and also holds the restarts that it refused.                            *)
THEOREM IntensityKept == Spec => []IntensityRespected
<1>1. Rated => IntensityRespected
  BY DEF Rated
<1> QED
  BY <1>1, RatedStart, RatedStep, PTL DEF Spec

-----------------------------------------------------------------------------
(* Types. *)

(* What no other variable's type depends on: the counters, the calls' own  *)
(* record, and the times of restarts, none of them in the future.          *)
Counted ==
    /\ strategy \in Strategies /\ halted \subseteq Specs
    /\ faults \in 0..MaxFaults /\ admin \in 0..MaxAdmin
    /\ now \in Nat /\ restartTimes \in Seq(0..now) /\ granted \in Seq(0..now)

(* A time that is past stays so. *)
LEMMA PastLater ==
    ASSUME NEW m \in Nat, NEW n \in Nat, m <= n, NEW times \in Seq(0..m)
    PROVE  times \in Seq(0..n)
<1>1. \A t \in 0..m : t \in 0..n
  OBVIOUS
<1> QED
  BY <1>1

(* register_restart notes the present. *)
LEMMA RegisterPast ==
    ASSUME Counted, RegisterRestart
    PROVE  restartTimes' \in Seq(0..now) /\ granted' \in Seq(0..now)
<1>1. /\ now \in 0..now /\ Pruned \in Seq(0..now)
      /\ restartTimes \in Seq(0..now) /\ granted \in Seq(0..now)
  BY PrunedPast DEF Counted
<1>2. Append(Pruned, now) \in Seq(0..now) /\ Append(granted, now) \in Seq(0..now)
  BY <1>1, AppendProperties
<1> QED
  BY <1>1, <1>2 DEF RegisterRestart

LEMMA CountedStep == Counted /\ [Next]_vars => Counted'
<1> SUFFICES ASSUME Counted, [Next]_vars PROVE Counted'
  OBVIOUS
<1>1. /\ strategy \in Strategies /\ halted \subseteq Specs
      /\ faults \in 0..MaxFaults /\ admin \in 0..MaxAdmin
      /\ now \in Nat /\ restartTimes \in Seq(0..now) /\ granted \in Seq(0..now)
      /\ MaxFaults \in Nat /\ MaxAdmin \in Nat
  BY SupervisorAssumption DEF Counted
<1>2. ASSUME NEW r, NEW why, NEW live, NEW box, NEW after,
             HandleTermination(r, why, live, box, after)
      PROVE  restartTimes' \in Seq(0..now) /\ granted' \in Seq(0..now)
  <2>1. RegisterRestart \/ UNCHANGED restarts
    BY <1>2 DEF HandleTermination, Forget, Refuse, RestartOne, BeginRestartGroup, RestartGroupStop
  <2> QED
    BY <1>1, <2>1, RegisterPast DEF restarts
<1>3. CASE UNCHANGED vars \/ Start \/ Resume
  <2>1. UNCHANGED <<strategy, halted, faults, admin, now, restartTimes, granted>>
    BY <1>3 DEF vars, Start, Resume, restarts, calls
  <2> QED
    BY <2>1 DEF Counted
<1>4. CASE Receive
  <2>1. restartTimes' \in Seq(0..now) /\ granted' \in Seq(0..now)
    BY <1>1, <1>2, <1>4 DEF Receive, restarts
  <2>2. UNCHANGED <<strategy, halted, faults, admin, now>>
    BY <1>4 DEF Receive, calls
  <2> QED
    BY <1>1, <2>1, <2>2 DEF Counted
<1>5. ASSUME NEW r \in alive, Fail(r) \/ Obey(r) PROVE Counted'
  <2>1. ASSUME NEW why, Signal(r, why)
        PROVE  restartTimes' \in Seq(0..now) /\ granted' \in Seq(0..now)
    BY <1>1, <1>2, <2>1 DEF Signal, restarts
  <2>2. restartTimes' \in Seq(0..now) /\ granted' \in Seq(0..now)
    BY <1>5, <2>1 DEF Fail, Obey
  <2>3. UNCHANGED <<strategy, halted, admin, now>> /\ faults' \in 0..MaxFaults
    BY <1>1, <1>5 DEF Fail, Obey, calls
  <2> QED
    BY <1>1, <2>2, <2>3 DEF Counted
<1>6. CASE Tick
  <2>1. /\ now' = now + 1 /\ UNCHANGED <<strategy, halted, faults, admin, restartTimes, granted>>
    BY <1>6 DEF Tick, restarts, calls
  <2>2. now' \in Nat /\ now <= now'
    BY <1>1, <2>1
  <2>3. restartTimes \in Seq(0..now') /\ granted \in Seq(0..now')
    BY <1>1, <2>2, PastLater
  <2> QED
    BY <1>1, <2>1, <2>2, <2>3 DEF Counted
<1>7. CASE Administered
  <2>1. Administer
    BY <1>7 DEF Administered, StopSupervisor, StartChildCall, StopChildCall, RestartChildCall,
                DeleteChildCall
  <2>2. /\ UNCHANGED <<strategy, now, restartTimes, granted, faults>>
        /\ admin < MaxAdmin /\ admin' = admin + 1
    BY <2>1 DEF Administer, restarts
  <2>3. halted' \subseteq Specs
    BY <1>1, <1>7 DEF Administered, StopSupervisor, StartChildCall, StopChildCall, RestartChildCall,
                      DeleteChildCall, Halt
  <2>4. admin' \in 0..MaxAdmin
    BY <1>1, <2>2
  <2> QED
    BY <1>1, <2>2, <2>3, <2>4 DEF Counted
<1> QED
  BY <1>3, <1>4, <1>5, <1>6, <1>7 DEF Next, Coroutine, Administered

LEMMA CountedStart == Init => Counted
<1> SUFFICES ASSUME Init PROVE Counted
  OBVIOUS
<1>1. strategy \in Strategies /\ halted = {} /\ faults = 0 /\ admin = 0 /\ now = 0
      /\ restartTimes = <<>> /\ granted = <<>>
  BY DEF Init
<1> QED
  BY <1>1, SupervisorAssumption DEF Counted

(* Every variable keeps its type: whatever starts, restarts, groups and    *)
(* erasures do, children_, the registry, the signals and the restart group *)
(* name children that were spawned, for specifications that exist.         *)
THEOREM TypeCorrect == Spec => []TypeOK
<1>1. SupInv /\ Counted => TypeOK
  <2> SUFFICES ASSUME SupInv, Counted PROVE TypeOK
    OBVIOUS
  <2>1. /\ sup \in {"scheduled", "running", "waiting"} \cup Over
        /\ started \in BOOLEAN /\ stopping \in BOOLEAN /\ now \in 0..MaxTime
    BY DEF SupInv, SupTyped
  <2>2. /\ spawned \in Seq(Specs) /\ Len(spawned) \in Nat /\ alive \subseteq 1..Len(spawned)
        /\ asked \subseteq 1..Len(spawned) /\ DOMAIN children \subseteq 1..Len(spawned)
        /\ children \in Tables
    BY DEF SupInv, SupTyped, Shape, Family, Refs, Kids
  <2>3. DOMAIN spawned = 1..Len(spawned)
    BY <2>2
  <2>4. children \in [DOMAIN children -> Entries]
    BY <2>2 DEF Tables
  <2>5. mailbox \in Seq([from : 0..Len(spawned), reason : Reasons])
    <3>1. mailbox \in Seq(Signals) /\ \A i \in DOMAIN mailbox : mailbox[i].from <= Len(spawned)
      BY DEF SupInv, SupTyped, Shape, Kids
    <3>2. /\ Len(mailbox) \in Nat /\ DOMAIN mailbox = 1..Len(mailbox)
          /\ mailbox \in [1..Len(mailbox) -> Signals]
      BY <3>1, LenProperties
    <3>3. ASSUME NEW i \in 1..Len(mailbox)
          PROVE  mailbox[i] \in [from : 0..Len(spawned), reason : Reasons]
      <4>1. mailbox[i] \in Signals /\ mailbox[i].from <= Len(spawned)
        BY <3>1, <3>2
      <4>2. mailbox[i].from \in 0..Len(spawned)
        BY <2>2, <4>1 DEF Signals
      <4> QED
        BY <4>1, <4>2 DEF Signals
    <3> DEFINE M == [from : 0..Len(spawned), reason : Reasons]
    <3> HIDE DEF M
    <3>4. mailbox \in [1..Len(mailbox) -> M]
      BY <3>2, <3>3 DEF M
    <3>5. mailbox \in Seq(M)
      BY <3>2, <3>4
    <3> QED
      BY <3>5 DEF M
  <2>6. \/ group = NoGroup
        \/ group \in [failed : DOMAIN spawned, reason : Reasons,
                      others : SUBSET DOMAIN spawned, pending : SUBSET DOMAIN spawned]
    BY <2>3 DEF SupInv, SupTyped, Planning
  <2>7. /\ strategy \in Strategies /\ halted \subseteq Specs
        /\ faults \in 0..MaxFaults /\ admin \in 0..MaxAdmin
        /\ restartTimes \in Seq(0..now) /\ granted \in Seq(0..now)
    BY DEF Counted
  <2>8. alive \subseteq DOMAIN spawned /\ asked \subseteq DOMAIN spawned
        /\ DOMAIN children \subseteq DOMAIN spawned
    BY <2>2, <2>3
  <2> QED
    BY <2>1, <2>2, <2>4, <2>5, <2>6, <2>7, <2>8, Zenon DEF TypeOK
<1> QED
  BY <1>1, SupInvariant, CountedStart, CountedStep, PTL DEF Spec

-----------------------------------------------------------------------------
(* Children stopped or deleted by a call. *)

OneByOne == strategy \in {"one_for_one", "simple_one_for_one"}

(* No child of a specification in h is left to itself, and none of them    *)
(* that may still end is restarted.                                        *)
Halts(k, ask, h) ==
    /\ \A r \in k.alive \ ask : k.spawned[r] \notin h
    /\ \A r \in DOMAIN k.children : k.spawned[r] \in h => k.children[r].suppress

HaltInv ==
    /\ OneByOne => Halts(Kids, asked, halted)
    /\ ~started => halted = {}

(* Children that are started are not for a specification in h. *)
LEMMA GrownHalts ==
    ASSUME NEW k \in Family, NEW l, NEW S, Grown(k, l, S), NEW ask, NEW h, S \cap h = {},
           Halts(k, ask, h)
    PROVE  Halts(l, ask, h)
<1>1. DOMAIN k.children \subseteq Refs(k) /\ k.alive \subseteq Refs(k)
  BY DEF Family
<1>2. ASSUME NEW r \in l.alive \ ask PROVE l.spawned[r] \notin h
  BY <1>1 DEF Grown, Halts
<1>3. ASSUME NEW r \in DOMAIN l.children, l.spawned[r] \in h PROVE l.children[r].suppress
  <2>1. r \notin Added(k, l)
    BY <1>3 DEF Grown
  <2>2. r \in DOMAIN k.children /\ l.children[r] = k.children[r] /\ l.spawned[r] = k.spawned[r]
    BY <1>1, <2>1 DEF Grown
  <2> QED
    BY <1>3, <2>2 DEF Halts
<1> QED
  BY <1>2, <1>3 DEF Halts

(* Children that are stopped stay so, unless their restart is wanted. *)
LEMMA StopHalts ==
    ASSUME NEW k \in Family, NEW refs, refs \subseteq DOMAIN k.children, NEW suppress \in BOOLEAN,
           StopEach(k, refs, suppress), NEW h, Halts(k, asked, h),
           suppress \/ \A r \in refs : k.spawned[r] \notin h
    PROVE  Halts(Kids', asked', h)
<1>1. /\ spawned' = k.spawned /\ alive' = k.alive
      /\ DOMAIN children' = DOMAIN k.children
      /\ \A r \in DOMAIN k.children :
            children'[r] = IF r \in Reached(k, refs)
                           THEN [stopping |-> TRUE, suppress |-> suppress] ELSE k.children[r]
      /\ asked' = asked \cup {r \in Reached(k, refs) \cap k.alive : ~k.children[r].stopping}
  BY StopEffect
<1>2. Kids'.spawned = k.spawned /\ Kids'.alive = k.alive /\ Kids'.children = children'
  BY <1>1 DEF Kids
<1>3. \A r \in k.alive \ asked' : k.spawned[r] \notin h
  BY <1>1 DEF Halts
<1>4. ASSUME NEW r \in DOMAIN children', k.spawned[r] \in h PROVE children'[r].suppress
  <2>1. CASE r \in Reached(k, refs)
    <3>1. r \in refs
      BY <2>1 DEF Reached
    <3>2. suppress
      BY <1>4, <3>1
    <3>3. children'[r] = [stopping |-> TRUE, suppress |-> suppress]
      BY <1>1, <2>1
    <3> QED
      BY <3>2, <3>3
  <2>2. CASE r \notin Reached(k, refs)
    <3>1. children'[r] = k.children[r]
      BY <1>1, <2>2
    <3> QED
      BY <1>1, <1>4, <3>1 DEF Halts
  <2> QED
    BY <2>1, <2>2
<1> QED
  BY <1>2, <1>3, <1>4 DEF Halts

(* Supervisor::stop. *)
LEMMA StoppedHalts ==
    ASSUME NEW k \in Family, NEW box, NEW after, NEW thrown, Stop(k, box, after, thrown),
           stopping \in BOOLEAN, NEW h, Halts(k, asked, h)
    PROVE  Halts(Kids', asked', h)
<1>1. CASE stopping
  <2>1. Install(k) /\ asked' = asked
    BY <1>1 DEF Stop
  <2> QED
    BY <2>1, Installed
<1>2. CASE ~stopping
  <2>1. StopEach(k, DOMAIN k.children, TRUE)
    BY <1>2 DEF Stop
  <2> QED
    BY <2>1, StopHalts
<1> QED
  BY <1>1, <1>2

(* handle_termination restarts a child that is not suppressed. *)
LEMMA TerminationHalts ==
    ASSUME SupTyped, OneByOne, Halts(Kids, asked, halted), NEW r, NEW why, NEW live,
           live \subseteq alive, NEW box, NEW after, HandleTermination(r, why, live, box, after)
    PROVE  Halts(Kids', asked', halted)
<1> DEFINE k == Less(r, live)
<1>1. Kids \in Family /\ stopping \in BOOLEAN /\ group = NoGroup
  BY DEF SupTyped, Shape, Planning, Group, OneByOne
<1>2. /\ k \in Family
      /\ DOMAIN Without(r) = DOMAIN children \ {r}
      /\ \A q \in DOMAIN Without(r) : Without(r)[q] = children[q]
  BY <1>1, LessFamily
<1>3. k.spawned = spawned /\ k.alive = live /\ k.children = Without(r)
  BY DEF Less
<1>4. \/ Forget(r, why, k, box, after)
      \/ Refuse(r, why, k, box, after)
      \/ RestartOne(r, why, k, box, after)
      \/ BeginRestartGroup(r, why, k, box, after)
      \/ RestartGroupStop(r, k, box, after)
  BY DEF HandleTermination, Less
<1> HIDE DEF k
<1>5. Halts(k, asked, halted)
  BY <1>2, <1>3 DEF Halts, Kids
<1>6. CASE Forget(r, why, k, box, after)
  <2>1. Install(k) /\ asked' = asked
    BY <1>6 DEF Forget
  <2> QED
    BY <1>2, <1>5, <2>1, Installed
<1>7. CASE Refuse(r, why, k, box, after)
  <2>1. Stop(k, box, after, "crashed")
    BY <1>7 DEF Refuse
  <2> QED
    BY <1>1, <1>2, <1>5, <2>1, StoppedHalts
<1>8. CASE RestartOne(r, why, k, box, after)
  <2>1. WillRestart(r, why) /\ Install(StartChild(k, spawned[r])) /\ asked' = asked
    BY <1>8 DEF RestartOne
  <2>2. r \in DOMAIN children /\ ~children[r].suppress
    BY <2>1 DEF WillRestart
  <2>3. spawned[r] \in Specs
    BY <1>1, <2>2 DEF Family, Kids, Refs
  <2>4. {spawned[r]} \cap halted = {}
    BY <2>2 DEF Halts, Kids
  <2>5. Grown(k, StartChild(k, spawned[r]), {spawned[r]})
    BY <1>2, <2>3, GrownRefl, GrownStart
  <2>6. Halts(StartChild(k, spawned[r]), asked, halted)
    BY <1>2, <1>5, <2>4, <2>5, GrownHalts
  <2>7. StartChild(k, spawned[r]) \in Family
    BY <2>5 DEF Grown
  <2> QED
    BY <2>1, <2>6, <2>7, Installed
<1>9. ~BeginRestartGroup(r, why, k, box, after) /\ ~RestartGroupStop(r, k, box, after)
  BY <1>1 DEF BeginRestartGroup, RestartGroupStop, OneByOne
<1> QED
  BY <1>4, <1>6, <1>7, <1>8, <1>9

(* A call that restarts nothing starts nothing. *)
LEMMA RestartedNone ==
    ASSUME Kids \in Family, NEW s \in Specs, Instances(s) = {}
    PROVE  Grown(Cleared(s), Restarted(s), {})
<1> DEFINE q == [i \in 1..Cardinality(Again(s)) |-> s]
<1>1. Cardinality(Again(s)) = 0
  <2>1. Again(s) = {}
    BY DEF Again
  <2> QED
    BY <2>1, FS_EmptySet
<1>2. q \in Seq(Specs) /\ Len(q) = 0 /\ \A i \in 1..Len(q) : q[i] \in {}
  BY <1>1
<1>3. Cleared(s) \in Family
  BY ClearedEffect
<1> HIDE DEF q
<1>4. Grown(Cleared(s), StartChildren(Cleared(s), q), {})
  BY <1>2, <1>3, StartChildrenGrown
<1> QED
  BY <1>4 DEF Restarted, q

(* After stop_child or delete_child, children of s that are left to        *)
(* themselves are those that the call did not reach.                       *)
LEMMA HaltCalled ==
    ASSUME SupInv, Watching, NEW s, Halts(Kids, asked, halted),
           \/ StopEach(Kids, Instances(s), TRUE)
           \/ /\ asked' = asked \cup (Instances(s) \cap alive)
              /\ Install([Kids EXCEPT !.children = Restrict(@, DOMAIN @ \ Instances(s))])
    PROVE  Halts(Kids', asked', Halt(s))
<1>1. /\ Kids \in Family /\ Kids.spawned = spawned /\ Kids.alive = alive /\ Kids.children = children
      /\ Instances(s) \subseteq DOMAIN children
  BY DEF SupInv, SupTyped, Shape, Kids, Instances
<1>2. /\ \A r \in alive : r \in DOMAIN children \/ r \in asked
      /\ \A r \in DOMAIN children : r \in alive /\ children[r].stopping => r \in asked
  BY <1>1 DEF SupInv, Account
<1>3. CASE StopEach(Kids, Instances(s), TRUE)
  <2>1. Halts(Kids', asked', halted)
    BY <1>1, <1>3, StopHalts
  <2>2. /\ spawned' = spawned /\ alive' = alive /\ DOMAIN children' = DOMAIN children
        /\ \A r \in DOMAIN children :
              children'[r] = IF r \in Reached(Kids, Instances(s))
                             THEN [stopping |-> TRUE, suppress |-> TRUE] ELSE children[r]
        /\ asked' = asked \cup {r \in Reached(Kids, Instances(s)) \cap alive : ~children[r].stopping}
    BY <1>1, <1>3, StopEffect
  <2>3. CASE Reached(Kids, Instances(s)) # Instances(s)
    BY <2>1, <2>3 DEF Halt
  <2>4. CASE Reached(Kids, Instances(s)) = Instances(s)
    <3>1. \A r \in Instances(s) : children'[r].suppress
      BY <1>1, <2>2, <2>4
    <3>2. \A r \in Instances(s) : r \in alive => r \in asked'
      BY <1>1, <1>2, <2>2, <2>4
    <3>3. \A r \in alive \ asked' : spawned[r] # s
      BY <1>2, <2>2, <3>2 DEF Instances
    <3>4. \A r \in DOMAIN children' : spawned[r] = s => children'[r].suppress
      BY <2>2, <3>1 DEF Instances
    <3>5. Halt(s) = halted \cup {s}
      BY <2>4 DEF Halt
    <3> QED
      BY <2>1, <2>2, <3>3, <3>4, <3>5 DEF Halts, Kids
  <2> QED
    BY <2>3, <2>4
<1>4. CASE /\ asked' = asked \cup (Instances(s) \cap alive)
           /\ Install([Kids EXCEPT !.children = Restrict(@, DOMAIN @ \ Instances(s))])
  <2>1. /\ spawned' = spawned /\ alive' = alive
        /\ children' = [r \in DOMAIN children \ Instances(s) |-> children[r]]
    BY <1>4 DEF Install, Kids, Restrict
  <2>2. /\ DOMAIN children' = DOMAIN children \ Instances(s)
        /\ \A r \in DOMAIN children' : children'[r] = children[r]
    BY <2>1
  <2>3. \A r \in alive \ asked' : spawned[r] # s /\ r \in alive \ asked
    BY <1>2, <1>4 DEF Instances
  <2>4. \A r \in DOMAIN children' : spawned[r] # s
    BY <2>2 DEF Instances
  <2>5. Halt(s) \subseteq halted \cup {s}
    BY DEF Halt
  <2> QED
    BY <1>1, <2>1, <2>2, <2>3, <2>4, <2>5 DEF Halts, Kids
<1> QED
  BY <1>3, <1>4

(* The administrative calls. *)
LEMMA AdministerHalts ==
    ASSUME SupInv, HaltInv, OneByOne, Administered
    PROVE  Halts(Kids', asked', halted')
<1>1. /\ Kids \in Family /\ stopping \in BOOLEAN /\ Kids.spawned = spawned
      /\ Kids.alive = alive /\ Kids.children = children /\ Halts(Kids, asked, halted)
  BY DEF SupInv, SupTyped, Shape, Kids, HaltInv
<1>2. Watching
  BY DEF Administered, StopSupervisor, StartChildCall, StopChildCall, RestartChildCall,
         DeleteChildCall, Administer, Watching, Over
<1>3. CASE StopSupervisor
  <2>1. Stop(Kids, mailbox, "scheduled", sup) /\ halted' = halted
    BY <1>3 DEF StopSupervisor
  <2> QED
    BY <1>1, <2>1, StoppedHalts
<1>4. ASSUME NEW s \in Specs, StartChildCall(s) PROVE Halts(Kids', asked', halted')
  <2> DEFINE l == StartChild(Kids, s)
  <2>1. Install(l) /\ asked' = asked /\ halted' = IF spawned' = spawned THEN halted ELSE halted \ {s}
    BY <1>4 DEF StartChildCall
  <2>2. CASE l = Kids
    <3>1. Kids' = Kids /\ spawned' = spawned
      BY <1>1, <2>1, <2>2, Installed DEF Install
    <3> QED
      BY <1>1, <2>1, <3>1
  <2>3. CASE l # Kids
    <3>1. Len(l.spawned) = Len(spawned) + 1 /\ Len(spawned) + 1 \in Nat
      BY <1>1, <2>3, StartOne
    <3>2. Len(spawned) \in Nat
      BY <1>1 DEF Family
    <3>3. Grown(Kids, l, {s})
      BY <1>1, GrownRefl, GrownStart
    <3> HIDE DEF l
    <3>4. spawned' # spawned
      BY <2>1, <3>1, <3>2 DEF Install
    <3>5. Halts(Kids, asked, halted \ {s}) /\ {s} \cap (halted \ {s}) = {}
      BY <1>1 DEF Halts
    <3>6. Halts(l, asked, halted \ {s})
      BY <1>1, <3>3, <3>5, GrownHalts
    <3>7. Kids' = l
      BY <2>1, <3>3, Installed DEF Grown
    <3> QED
      BY <2>1, <3>4, <3>6, <3>7
  <2> QED
    BY <2>2, <2>3
<1>5. ASSUME NEW s \in Specs, StopChildCall(s) PROVE Halts(Kids', asked', halted')
  <2>1. StopEach(Kids, Instances(s), TRUE) /\ halted' = Halt(s)
    BY <1>5 DEF StopChildCall
  <2> QED
    BY <1>1, <1>2, <2>1, HaltCalled
<1>6. ASSUME NEW s \in Specs, DeleteChildCall(s) PROVE Halts(Kids', asked', halted')
  <2>1. /\ \/ StopEach(Kids, Instances(s), TRUE)
           \/ /\ asked' = asked \cup (Instances(s) \cap alive)
              /\ Install([Kids EXCEPT !.children = Restrict(@, DOMAIN @ \ Instances(s))])
        /\ halted' = Halt(s)
    BY <1>6 DEF DeleteChildCall
  <2> QED
    BY <1>1, <1>2, <2>1, HaltCalled
<1>7. ASSUME NEW s \in Specs, RestartChildCall(s) PROVE Halts(Kids', asked', halted')
  <2> DEFINE k == Cleared(s)
             l == Restarted(s)
             S == IF Instances(s) = {} THEN {} ELSE {s}
  <2>1. StopEach(l, Running(s), FALSE) /\ halted' = IF Instances(s) = {} THEN halted ELSE halted \ {s}
    BY <1>7 DEF RestartChildCall, RestartEntries, Restarted, Running, Again
  <2>2. /\ k \in Family /\ k.spawned = spawned /\ k.alive = alive
        /\ DOMAIN k.children = DOMAIN children
        /\ \A r \in DOMAIN children : r \notin Instances(s) => k.children[r] = children[r]
    BY <1>1, ClearedEffect
  <2>3. Grown(k, l, S)
    BY <1>1, RestartedGrown, RestartedNone
  <2>4. S \cap halted' = {} /\ halted' \subseteq halted
    BY <2>1
  <2>5. Running(s) \subseteq DOMAIN children /\ \A r \in Running(s) : spawned[r] \notin halted'
    BY <2>1 DEF Running, Instances
  <2> HIDE DEF k, l
  <2>6. Halts(k, asked, halted')
    <3>1. \A r \in alive \ asked : spawned[r] \notin halted'
      BY <1>1, <2>4 DEF Halts
    <3>2. ASSUME NEW r \in DOMAIN children, spawned[r] \in halted' PROVE k.children[r].suppress
      <4>1. r \notin Instances(s)
        BY <2>1, <3>2 DEF Instances
      <4> QED
        BY <1>1, <2>2, <2>4, <3>2, <4>1 DEF Halts
    <3> QED
      BY <2>2, <3>1, <3>2 DEF Halts
  <2> HIDE DEF S
  <2>7. Halts(l, asked, halted')
    BY <2>2, <2>3, <2>4, <2>6, GrownHalts
  <2>8. l \in Family /\ Running(s) \subseteq DOMAIN l.children
    BY <2>2, <2>3, <2>5 DEF Grown
  <2>9. \A r \in Running(s) : l.spawned[r] \notin halted'
    <3>1. \A r \in DOMAIN children : r \in Refs(k)
      BY <2>2 DEF Family
    <3> QED
      BY <2>2, <2>3, <2>5, <3>1 DEF Grown
  <2> QED
    BY <2>1, <2>7, <2>8, <2>9, StopHalts
<1> QED
  BY <1>3, <1>4, <1>5, <1>6, <1>7 DEF Administered

(* Every step. *)
LEMMA HaltStep == SupInv /\ HaltInv /\ [Next]_vars => HaltInv'
<1> SUFFICES ASSUME SupInv, HaltInv, [Next]_vars PROVE HaltInv'
  OBVIOUS
<1>1. /\ SupTyped /\ Kids \in Family /\ started \in BOOLEAN
      /\ OneByOne => Halts(Kids, asked, halted)
      /\ ~started => halted = {}
  BY DEF SupInv, SupTyped, Shape, HaltInv
<1>2. ASSUME strategy' = strategy, OneByOne => Halts(Kids', asked', halted'),
             ~started' => halted' = {}
      PROVE  HaltInv'
  <2>1. OneByOne' = OneByOne
    BY <1>2 DEF OneByOne
  <2>2. OneByOne => Halts(Kids, asked, halted)'
    BY <1>2 DEF Halts
  <2> QED
    BY <1>2, <2>1, <2>2 DEF HaltInv
<1>3. ASSUME UNCHANGED <<strategy, started, spawned, alive, asked, children, halted>> PROVE HaltInv'
  <2>1. Kids' = Kids
    BY <1>3 DEF Kids
  <2> QED
    BY <1>1, <1>2, <1>3, <2>1
<1>4. ASSUME NEW r, NEW why, NEW live, live \subseteq alive, NEW box, NEW after,
             HandleTermination(r, why, live, box, after), UNCHANGED <<strategy, started, halted>>
      PROVE  HaltInv'
  <2>1. OneByOne => Halts(Kids', asked', halted)
    BY <1>1, <1>4, TerminationHalts
  <2> QED
    BY <1>1, <1>2, <1>4, <2>1
<1>5. CASE UNCHANGED vars \/ Resume \/ Tick
  BY <1>3, <1>5 DEF vars, Resume, Tick, child, calls
<1>6. CASE Start
  <2>1. UNCHANGED <<strategy, halted>> /\ halted = {}
    BY <1>1, <1>6 DEF Start, calls
  <2>2. Halts(Kids', asked', {})
    BY DEF Halts
  <2> QED
    BY <1>2, <2>1, <2>2
<1>7. CASE Receive
  <2>1. UNCHANGED <<strategy, started, halted>>
    BY <1>7 DEF Receive, calls
  <2>2. \/ UNCHANGED child
        \/ HandleTermination(Head(mailbox).from, Head(mailbox).reason, alive, Tail(mailbox), "running")
    BY <1>7 DEF Receive
  <2> QED
    BY <1>3, <1>4, <2>1, <2>2 DEF child
<1>8. ASSUME NEW r, NEW why, Signal(r, why), UNCHANGED <<strategy, started, halted>> PROVE HaltInv'
  <2>1. \/ HandleTermination(r, why, alive \ {r}, mailbox, "scheduled")
        \/ alive' = alive \ {r} /\ UNCHANGED <<spawned, asked, children>>
    BY <1>8 DEF Signal
  <2>2. CASE alive' = alive \ {r} /\ UNCHANGED <<spawned, asked, children>>
    <3>1. ASSUME OneByOne PROVE Halts(Kids', asked', halted')
      BY <1>1, <1>8, <2>2, <3>1 DEF Halts, Kids
    <3> QED
      BY <1>1, <1>2, <1>8, <3>1
  <2> QED
    BY <1>4, <1>8, <2>1, <2>2
<1>9. ASSUME NEW r \in alive, Fail(r) \/ Obey(r) PROVE HaltInv'
  BY <1>8, <1>9 DEF Fail, Obey, calls
<1>10. CASE Administered
  <2>1. UNCHANGED <<strategy, started>>
    BY <1>10 DEF Administered, StopSupervisor, StartChildCall, StopChildCall, RestartChildCall,
                 DeleteChildCall, Administer
  <2>2. started \/ halted' = halted
    BY <1>10 DEF Administered, StopSupervisor, StartChildCall, StopChildCall, RestartChildCall,
                 DeleteChildCall
  <2>3. OneByOne => Halts(Kids', asked', halted')
    BY <1>10, AdministerHalts
  <2> QED
    BY <1>1, <1>2, <2>1, <2>2, <2>3
<1> QED
  BY <1>5, <1>6, <1>7, <1>9, <1>10 DEF Next, Coroutine, Administered

LEMMA HaltStart == Init => HaltInv
BY DEF Init, HaltInv, Halts

(* A child stopped or deleted by a call is not brought back by a restart,  *)
(* under the strategies that restart a child by itself, however many       *)
(* children of its specification there were and whatever signals were      *)
(* under way.                                                              *)
THEOREM HaltedStayHalted == Spec => []HaltedLeftAlone
<1>1. HaltInv => HaltedLeftAlone
  BY DEF HaltInv, OneByOne, Halts, HaltedLeftAlone, Kids
<1> QED
  BY <1>1, SupInvariant, HaltStart, HaltStep, PTL DEF Spec

-----------------------------------------------------------------------------
(* The order of the children of a rest_for_one supervisor. *)

(* A child of an earlier specification is older. *)
Ordered(k) ==
    \A q, r \in DOMAIN k.children : k.spawned[q] < k.spawned[r] => q < r

(* A restart group of such a supervisor: the children that it does not     *)
(* wait for come before the failed one, those to be restarted after it and *)
(* in the order of their refs.                                             *)
PlanOrdered(k, g) ==
    g # NoGroup =>
        /\ \A q \in DOMAIN k.children : q \in g.pending \/ k.spawned[q] < k.spawned[g.failed]
        /\ \A q \in g.others : k.spawned[g.failed] < k.spawned[q]
        /\ \A p, q \in g.others : p < q => k.spawned[p] < k.spawned[q]

OrderInv ==
    /\ admin \in Nat
    /\ strategy = "rest_for_one" /\ admin = 0 =>
           Ordered(Kids) /\ (Watching => PlanOrdered(Kids, group))

(* No child is for a specification after s. *)
UpToSpec(k, s) == \A q \in DOMAIN k.children : k.spawned[q] <= s

(* The refs and the specifications of a family are numbers. *)
LEMMA FamilyNumbers ==
    ASSUME NEW k \in Family
    PROVE  /\ Len(k.spawned) \in Nat /\ DOMAIN k.children \subseteq Refs(k)
           /\ \A q \in Refs(k) : q \in Nat /\ q <= Len(k.spawned) /\ k.spawned[q] \in Nat
<1>1. k.spawned \in Seq(Specs) /\ DOMAIN k.children \subseteq Refs(k)
  BY DEF Family
<1>2. Len(k.spawned) \in Nat /\ \A q \in 1..Len(k.spawned) : k.spawned[q] \in Specs
  BY <1>1
<1>3. Specs \subseteq Nat
  BY SupervisorAssumption DEF Specs
<1>4. ASSUME NEW q \in Refs(k) PROVE q \in Nat /\ q <= Len(k.spawned) /\ k.spawned[q] \in Nat
  <2>1. q \in 1..Len(k.spawned)
    BY DEF Refs
  <2>2. k.spawned[q] \in Nat
    BY <1>2, <1>3, <2>1
  <2> QED
    BY <1>2, <2>1, <2>2
<1> QED
  BY <1>1, <1>2, <1>4

(* A child of the last specification is started last. *)
LEMMA StartOrdered ==
    ASSUME NEW k \in Family, NEW s \in Specs, Ordered(k), UpToSpec(k, s)
    PROVE  LET l == StartChild(k, s)
           IN  l \in Family /\ Ordered(l) /\ UpToSpec(l, s)
<1> DEFINE l == StartChild(k, s)
<1>1. CASE l = k
  BY <1>1
<1>2. CASE l # k
  <2> DEFINE r == Len(k.spawned) + 1
  <2>1. /\ l \in Family /\ r \in Nat /\ Len(l.spawned) = r
        /\ \A q \in Refs(k) : l.spawned[q] = k.spawned[q]
        /\ l.spawned[r] = s
        /\ l.alive = k.alive \cup {r}
        /\ DOMAIN l.children = DOMAIN k.children \cup {r}
        /\ \A q \in DOMAIN k.children : l.children[q] = k.children[q]
        /\ l.children[r] = Fresh
        /\ Simple \/ \A q \in DOMAIN k.children : k.spawned[q] # s
    BY <1>2, StartOne
  <2>2. /\ Len(k.spawned) \in Nat /\ DOMAIN k.children \subseteq Refs(k)
        /\ \A q \in Refs(k) : q \in Nat /\ q < r /\ k.spawned[q] \in Nat
    BY FamilyNumbers
  <2>3. s \in Nat
    BY DEF Specs
  <2> HIDE DEF l, r
  <2>4. ASSUME NEW q \in DOMAIN l.children, NEW p \in DOMAIN l.children, l.spawned[q] < l.spawned[p]
        PROVE  q < p
    <3>1. CASE q = r
      <4>1. p \in DOMAIN k.children \/ p = r
        BY <2>1
      <4>2. l.spawned[p] <= s /\ l.spawned[p] \in Nat
        BY <2>1, <2>2, <2>3, <4>1 DEF UpToSpec
      <4> QED
        BY <2>1, <2>3, <2>4, <3>1, <4>2
    <3>2. CASE q \in DOMAIN k.children /\ p = r
      BY <2>2, <3>2
    <3>3. CASE q \in DOMAIN k.children /\ p \in DOMAIN k.children
      BY <2>1, <2>2, <2>4, <3>3 DEF Ordered
    <3> QED
      BY <2>1, <3>1, <3>2, <3>3
  <2>5. ASSUME NEW q \in DOMAIN l.children PROVE l.spawned[q] <= s
    BY <2>1, <2>2, <2>3 DEF UpToSpec
  <2>6. l \in Family /\ Ordered(l) /\ UpToSpec(l, s)
    BY <2>1, <2>4, <2>5 DEF Ordered, UpToSpec
  <2> QED
    BY <2>6 DEF l
<1> QED
  BY <1>1, <1>2

(* init() starts the static children in order. *)
LEMMA InitOrdered ==
    ASSUME NEW k \in Family, DOMAIN k.children = {}
    PROVE  Ordered(StartChildren(k, [s \in Specs |-> s]))
<1> DEFINE specs == [s \in Specs |-> s]
           n == NumSpecs
<1>1. /\ specs \in Seq(Specs) /\ Len(specs) = n /\ n \in Nat
      /\ \A i \in 1..n : specs[i] = i /\ i \in Specs
  BY SupervisorAssumption DEF Specs
<1> HIDE DEF specs, n
<1>2. PICK f : Starts(f, k, specs)
  BY <1>1, StartLoop
<1>3. /\ StartChildren(k, specs) = f[n] /\ f[0] = k
      /\ \A i \in 1..n : f[i] = StartChild(f[i - 1], i)
  BY <1>1, <1>2 DEF Starts
<1> DEFINE T == {i \in 0..n : f[i] \in Family /\ Ordered(f[i]) /\ UpToSpec(f[i], i)}
<1>4. 0 \in T
  <2>1. Ordered(k) /\ UpToSpec(k, 0)
    BY DEF Ordered, UpToSpec
  <2> QED
    BY <1>1, <1>3, <2>1
<1>5. ASSUME NEW i \in 1..n, i - 1 \in T PROVE i \in T
  <2>1. f[i - 1] \in Family /\ Ordered(f[i - 1]) /\ UpToSpec(f[i - 1], i - 1)
    BY <1>5
  <2>2. \A q \in DOMAIN f[i - 1].children : f[i - 1].spawned[q] \in Nat
    BY <2>1, FamilyNumbers
  <2>3. UpToSpec(f[i - 1], i)
    <3>1. ASSUME NEW q \in DOMAIN f[i - 1].children PROVE f[i - 1].spawned[q] <= i
      <4>1. f[i - 1].spawned[q] <= i - 1 /\ f[i - 1].spawned[q] \in Nat
        BY <2>1, <2>2 DEF UpToSpec
      <4> QED
        BY <4>1
    <3> QED
      BY <3>1 DEF UpToSpec
  <2>4. /\ StartChild(f[i - 1], i) \in Family /\ Ordered(StartChild(f[i - 1], i))
        /\ UpToSpec(StartChild(f[i - 1], i), i)
    BY <1>1, <2>1, <2>3, StartOrdered
  <2> QED
    BY <1>1, <1>3, <2>4
<1>6. n \in T
  <2> HIDE DEF T
  <2>1. \A i \in 0..n : i \in T
    BY <1>1, <1>4, <1>5, UpTo
  <2> QED
    BY <1>1, <2>1
<1> QED
  BY <1>3, <1>6 DEF specs

(* finalize_restart_group restarts a plan in the order of specifications. *)
LEMMA RespawnOrdered ==
    ASSUME spawned \in Seq(Specs), NEW plan, plan.failed \in DOMAIN spawned, NEW k \in Family,
           plan.others \subseteq DOMAIN spawned, Ordered(k),
           \A q \in DOMAIN k.children : k.spawned[q] < spawned[plan.failed],
           \A q \in plan.others : spawned[plan.failed] < spawned[q],
           \A p, q \in plan.others : p < q => spawned[p] < spawned[q]
    PROVE  Ordered(Respawn(plan, k))
<1> DEFINE n == Len(spawned)
           s0 == spawned[plan.failed]
           Below(l, q) == \A c \in DOMAIN l.children : \A j \in plan.others :
                              j > q => l.spawned[c] < spawned[j]
<1>1. /\ n \in Nat /\ DOMAIN spawned = 1..n
      /\ (\A q \in 1..n : spawned[q] \in Specs) /\ s0 \in Specs
      /\ plan.others \subseteq 1..n
  OBVIOUS
<1>2. Specs \subseteq Nat
  BY SupervisorAssumption DEF Specs
<1>3. PICK f : Restarts(f, plan, k)
  BY RespawnLoop
<1>4. /\ Respawn(plan, k) = f[n]
      /\ f[0] = RestartItem(k, s0, plan.reason)
      /\ \A q \in 1..n : f[q] = IF q \in plan.others THEN RestartItem(f[q - 1], spawned[q], "stopped")
                                ELSE f[q - 1]
  BY <1>3 DEF Restarts
<1> HIDE DEF n
<1>5. ASSUME NEW l \in Family, Ordered(l), NEW s \in Specs, NEW why,
             \A c \in DOMAIN l.children : l.spawned[c] < s
      PROVE  LET m == RestartItem(l, s, why)
             IN  m \in Family /\ Ordered(m) /\ UpToSpec(m, s)
  <2>1. \A c \in DOMAIN l.children : l.spawned[c] \in Nat
    BY FamilyNumbers
  <2>2. s \in Nat
    BY <1>2
  <2>3. UpToSpec(l, s)
    BY <1>5, <2>1, <2>2 DEF UpToSpec
  <2> QED
    BY <1>5, <2>3, StartOrdered DEF RestartItem
<1>6. ASSUME NEW m \in Family, NEW s \in Specs, UpToSpec(m, s), NEW q,
             \A j \in plan.others : j > q => s < spawned[j]
      PROVE  Below(m, q)
  <2> SUFFICES ASSUME NEW c \in DOMAIN m.children, NEW j \in plan.others, j > q
               PROVE  m.spawned[c] < spawned[j]
    OBVIOUS
  <2>1. m.spawned[c] \in Nat
    BY FamilyNumbers
  <2>2. s \in Nat /\ spawned[j] \in Nat
    BY <1>1, <1>2
  <2>3. m.spawned[c] <= s /\ s < spawned[j]
    BY <1>6 DEF UpToSpec
  <2> QED
    BY <2>1, <2>2, <2>3
<1> DEFINE T == {q \in 0..n : f[q] \in Family /\ Ordered(f[q]) /\ Below(f[q], q)}
<1>7. 0 \in T
  <2>1. f[0] \in Family /\ Ordered(f[0]) /\ UpToSpec(f[0], s0)
    BY <1>1, <1>4, <1>5
  <2>2. \A j \in plan.others : j > 0 => s0 < spawned[j]
    OBVIOUS
  <2> HIDE DEF s0, Below
  <2>3. Below(f[0], 0)
    BY <1>1, <1>6, <2>1, <2>2
  <2> QED
    BY <1>1, <2>1, <2>3
<1>8. ASSUME NEW q \in 1..n, q - 1 \in T PROVE q \in T
  <2>1. f[q - 1] \in Family /\ Ordered(f[q - 1]) /\ Below(f[q - 1], q - 1) /\ q \in 0..n
    BY <1>1, <1>8
  <2>2. CASE q \in plan.others
    <3>1. \A c \in DOMAIN f[q - 1].children : f[q - 1].spawned[c] < spawned[q]
      <4>1. q > q - 1
        OBVIOUS
      <4> QED
        BY <2>1, <2>2, <4>1
    <3>2. f[q] = RestartItem(f[q - 1], spawned[q], "stopped") /\ spawned[q] \in Specs
      BY <1>1, <1>4, <2>2
    <3> HIDE DEF Below
    <3>3. f[q] \in Family /\ Ordered(f[q]) /\ UpToSpec(f[q], spawned[q])
      BY <1>5, <2>1, <3>1, <3>2
    <3>4. \A j \in plan.others : j > q => spawned[q] < spawned[j]
      <4>1. ASSUME NEW j \in plan.others, j > q PROVE q < j
        BY <1>1, <4>1
      <4> QED
        BY <2>2, <4>1
    <3>5. Below(f[q], q)
      BY <1>6, <3>2, <3>3, <3>4
    <3> QED
      BY <2>1, <3>3, <3>5
  <2>3. CASE q \notin plan.others
    <3>1. f[q] = f[q - 1]
      BY <1>4, <2>3
    <3>2. \A j \in plan.others : j > q => j > q - 1
      BY <1>1
    <3>3. Below(f[q - 1], q)
      BY <2>1, <3>2
    <3> HIDE DEF Below
    <3> QED
      BY <2>1, <3>1, <3>3
  <2> QED
    BY <2>2, <2>3
<1>9. n \in T
  <2> HIDE DEF T
  <2>1. \A q \in 0..n : q \in T
    BY <1>1, <1>7, <1>8, UpTo
  <2> QED
    BY <1>1, <2>1
<1> HIDE DEF Below
<1> QED
  BY <1>4, <1>9

(* A restart group once begun: its plan is in order, since the children    *)
(* are.                                                                    *)
LEMMA PlannedOrdered ==
    ASSUME Kids \in Family, Ordered(Kids), Single(spawned, children), strategy = "rest_for_one",
           NEW r \in DOMAIN children, NEW k \in Family, k.spawned = spawned,
           DOMAIN k.children = DOMAIN children \ {r}
    PROVE  /\ \A q \in DOMAIN k.children : q \in Planned(r, k) \/ spawned[q] < spawned[r]
           /\ \A q \in Planned(r, k) : spawned[r] < spawned[q]
           /\ \A p, q \in Planned(r, k) : p < q => spawned[p] < spawned[q]
<1>1. /\ Kids.spawned = spawned /\ Kids.children = children
      /\ \A q \in DOMAIN children : q \in Nat /\ spawned[q] \in Nat
  BY FamilyNumbers DEF Kids
<1>2. ASSUME NEW p \in DOMAIN children, NEW q \in DOMAIN children, p < q
      PROVE  spawned[p] < spawned[q]
  <2>1. spawned[p] # spawned[q]
    BY <1>1, <1>2 DEF Single
  <2>2. ~(spawned[q] < spawned[p])
    BY <1>1, <1>2 DEF Ordered
  <2> QED
    BY <1>1, <2>1, <2>2
<1>3. /\ Planned(r, k) \subseteq DOMAIN children
      /\ \A q \in DOMAIN k.children : q \in DOMAIN children /\ q # r
      /\ \A q \in DOMAIN k.children : q \in Planned(r, k) <=> q > r
  BY DEF Planned
<1>4. ASSUME NEW q \in DOMAIN k.children PROVE q \in Planned(r, k) \/ spawned[q] < spawned[r]
  <2>1. q > r \/ q < r
    BY <1>1, <1>3
  <2> QED
    BY <1>2, <1>3, <2>1
<1>5. ASSUME NEW q \in Planned(r, k) PROVE spawned[r] < spawned[q]
  <2>1. q > r /\ q \in DOMAIN children
    BY <1>3 DEF Planned
  <2>2. r < q
    BY <1>1, <2>1
  <2> QED
    BY <1>2, <2>1, <2>2
<1> QED
  BY <1>2, <1>3, <1>4, <1>5

(* handle_termination. *)
LEMMA TerminationOrdered ==
    ASSUME SupTyped, Account(Kids, asked, mailbox), strategy = "rest_for_one",
           Ordered(Kids), PlanOrdered(Kids, group), NEW r, NEW why, NEW live,
           live \subseteq alive, NEW box, NEW after, HandleTermination(r, why, live, box, after)
    PROVE  Ordered(Kids') /\ (sup' # "crashed" => PlanOrdered(Kids', group'))
<1> DEFINE k == Less(r, live)
<1>1. /\ Kids \in Family /\ stopping \in BOOLEAN /\ Planning(group, Len(spawned))
      /\ Kids.spawned = spawned /\ Kids.children = children /\ spawned \in Seq(Specs)
      /\ DOMAIN children \subseteq DOMAIN spawned /\ DOMAIN spawned = 1..Len(spawned)
  <2>1. Kids \in Family /\ Kids.spawned = spawned /\ Kids.children = children
    BY DEF SupTyped, Shape, Kids
  <2>2. spawned \in Seq(Specs) /\ DOMAIN children \subseteq 1..Len(spawned)
    BY <2>1 DEF Family, Refs
  <2> QED
    BY <2>1, <2>2 DEF SupTyped
<1>2. /\ k \in Family
      /\ DOMAIN Without(r) = DOMAIN children \ {r}
      /\ \A q \in DOMAIN Without(r) : Without(r)[q] = children[q]
  BY <1>1, LessFamily
<1>3. k.spawned = spawned /\ k.alive = live /\ k.children = Without(r)
  BY DEF Less
<1>4. \/ Forget(r, why, k, box, after)
      \/ Refuse(r, why, k, box, after)
      \/ RestartOne(r, why, k, box, after)
      \/ BeginRestartGroup(r, why, k, box, after)
      \/ RestartGroupStop(r, k, box, after)
  BY DEF HandleTermination, Less
<1> HIDE DEF k
<1>5. Ordered(k)
  BY <1>1, <1>2, <1>3 DEF Ordered
<1>6. Single(spawned, children)
  BY <1>1 DEF Account, Simple
<1>7. ASSUME group' = NoGroup PROVE PlanOrdered(Kids', group')
  BY <1>7 DEF PlanOrdered
<1>8. ASSUME NEW refs, NEW suppress, StopEach(k, refs, suppress)
      PROVE  /\ Kids'.spawned = spawned /\ DOMAIN Kids'.children = DOMAIN k.children
             /\ Ordered(Kids')
  <2>1. spawned' = k.spawned /\ DOMAIN children' = DOMAIN k.children
    BY <1>2, <1>8 DEF StopEach, Install, Family
  <2>2. Kids'.spawned = k.spawned /\ DOMAIN Kids'.children = DOMAIN k.children
    BY <2>1 DEF Kids
  <2> QED
    BY <1>3, <1>5, <2>2 DEF Ordered
<1>9. CASE Forget(r, why, k, box, after)
  <2>1. Install(k) /\ group' = NoGroup
    BY <1>9 DEF Forget
  <2>2. Kids' = k
    BY <1>2, <2>1, Installed
  <2> QED
    BY <1>5, <1>7, <2>1, <2>2
<1>10. CASE Refuse(r, why, k, box, after)
  <2>1. group = NoGroup /\ Stop(k, box, after, "crashed")
    BY <1>10 DEF Refuse
  <2>2. group' = NoGroup
    BY <2>1 DEF Stop
  <2>3. Install(k) \/ StopEach(k, DOMAIN k.children, TRUE)
    BY <2>1 DEF Stop
  <2>4. Ordered(Kids')
    BY <1>2, <1>5, <1>8, <2>3, Installed
  <2> QED
    BY <1>7, <2>2, <2>4
<1>11. ~RestartOne(r, why, k, box, after)
  BY DEF RestartOne
<1>12. CASE BeginRestartGroup(r, why, k, box, after)
  <2> DEFINE others == Planned(r, k)
             plan == [failed |-> r, reason |-> why, others |-> others,
                      pending |-> Reached(k, others)]
  <2>1. group = NoGroup /\ r \in DOMAIN children
    BY <1>12 DEF BeginRestartGroup, WillRestart
  <2>2. /\ \A q \in DOMAIN k.children : q \in others \/ spawned[q] < spawned[r]
        /\ \A q \in others : spawned[r] < spawned[q]
        /\ \A p, q \in others : p < q => spawned[p] < spawned[q]
    BY <1>1, <1>2, <1>3, <1>6, <2>1, PlannedOrdered
  <2>3. /\ plan.failed = r /\ plan.others = others /\ plan.pending = Reached(k, others)
    OBVIOUS
  <2>4. CASE others = {}
    <3>1. Install(Respawn(plan, k)) /\ group' = NoGroup
      BY <1>12, <2>1, <2>4 DEF BeginRestartGroup
    <3> HIDE DEF plan
    <3>2. plan.failed \in DOMAIN spawned /\ plan.others \subseteq DOMAIN spawned
      BY <1>1, <2>1, <2>3, <2>4
    <3> HIDE DEF others
    <3>3. \A q \in DOMAIN k.children : k.spawned[q] < spawned[plan.failed]
      BY <1>3, <2>2, <2>3, <2>4
    <3>4. Ordered(Respawn(plan, k))
      BY <1>1, <1>2, <1>5, <2>2, <2>3, <3>2, <3>3, RespawnOrdered
    <3>5. Respawn(plan, k) \in Family
      BY <1>1, <1>2, <3>2, RespawnGrown DEF Grown
    <3> QED
      BY <1>7, <3>1, <3>4, <3>5, Installed
  <2>5. CASE others # {}
    <3>1. /\ group' = plan /\ StopEach(k, others, FALSE)
          /\ sup' = IF Throws(k, others) = {} THEN after ELSE "crashed"
      BY <1>12, <2>5 DEF BeginRestartGroup
    <3> HIDE DEF plan, others
    <3>2. /\ Kids'.spawned = spawned /\ DOMAIN Kids'.children = DOMAIN k.children
          /\ Ordered(Kids')
      BY <1>8, <3>1
    <3>3. ASSUME sup' # "crashed" PROVE PlanOrdered(Kids', group')
      <4>1. Throws(k, others) = {}
        BY <3>1, <3>3
      <4>2. group'.failed = r /\ group'.others = others /\ group'.pending = others
        BY <2>3, <3>1, <4>1 DEF Reached
      <4> QED
        BY <2>2, <3>2, <4>2 DEF PlanOrdered
    <3> QED
      BY <3>2, <3>3
  <2> QED
    BY <2>4, <2>5
<1>13. CASE RestartGroupStop(r, k, box, after)
  <2>1. group # NoGroup
    BY <1>13 DEF RestartGroupStop
  <2>2. /\ group \in [failed : 1..Len(spawned), reason : Reasons,
                      others : SUBSET (1..Len(spawned)), pending : SUBSET (1..Len(spawned))]
        /\ \A q \in DOMAIN children : q \in group.pending \/ spawned[q] < spawned[group.failed]
        /\ \A q \in group.others : spawned[group.failed] < spawned[q]
        /\ \A p, q \in group.others : p < q => spawned[p] < spawned[q]
    BY <1>1, <2>1 DEF Planning, PlanOrdered
  <2>3. CASE group.pending \subseteq {r}
    <3>1. group' = NoGroup /\ Install(Respawn(group, k))
      BY <1>13, <2>3 DEF RestartGroupStop
    <3>2. \A q \in DOMAIN k.children : k.spawned[q] < spawned[group.failed]
      BY <1>2, <1>3, <2>2, <2>3
    <3>3. group.failed \in DOMAIN spawned /\ group.others \subseteq DOMAIN spawned
      BY <1>1, <2>2
    <3>4. Ordered(Respawn(group, k))
      BY <1>1, <1>2, <1>5, <2>2, <3>2, <3>3, RespawnOrdered
    <3>5. Respawn(group, k) \in Family
      BY <1>1, <1>2, <3>3, RespawnGrown DEF Grown
    <3> QED
      BY <1>7, <3>1, <3>4, <3>5, Installed
  <2>4. CASE ~(group.pending \subseteq {r})
    <3>1. group' = [group EXCEPT !.pending = @ \ {r}] /\ Install(k)
      BY <1>13, <2>4 DEF RestartGroupStop
    <3>2. Kids' = k
      BY <1>2, <3>1, Installed
    <3>3. /\ group'.failed = group.failed /\ group'.others = group.others
          /\ group'.pending = group.pending \ {r}
      BY <2>2, <3>1
    <3>4. \A q \in DOMAIN k.children : q \in group'.pending \/ spawned[q] < spawned[group.failed]
      BY <1>2, <1>3, <2>2, <3>3
    <3>5. PlanOrdered(k, group')
      BY <1>3, <2>2, <3>3, <3>4 DEF PlanOrdered
    <3> QED
      BY <1>5, <3>2, <3>5
  <2> QED
    BY <2>3, <2>4
<1> QED
  BY <1>4, <1>9, <1>10, <1>11, <1>12, <1>13

(* Every step; a call makes admin positive. *)
LEMMA OrderStep == SupInv /\ OrderInv /\ [Next]_vars => OrderInv'
<1> SUFFICES ASSUME SupInv, OrderInv, [Next]_vars PROVE OrderInv'
  OBVIOUS
<1> DEFINE Here == strategy = "rest_for_one" /\ admin = 0
<1>1. /\ SupTyped /\ Kids \in Family /\ admin \in Nat
      /\ Here => Ordered(Kids) /\ (Watching => PlanOrdered(Kids, group))
      /\ Watching => Account(Kids, asked, mailbox)
      /\ ~started => spawned = <<>> /\ group = NoGroup
  BY DEF SupInv, SupTyped, Shape, OrderInv
<1>2. ASSUME UNCHANGED <<strategy, admin>>,
             Here => Ordered(Kids') /\ (Watching' => PlanOrdered(Kids', group'))
      PROVE  OrderInv'
  <2>1. Here => Ordered(Kids)' /\ (Watching' => PlanOrdered(Kids, group)')
    BY <1>2 DEF Ordered, PlanOrdered, NoGroup
  <2> QED
    BY <1>1, <1>2, <2>1 DEF OrderInv
<1>3. ASSUME UNCHANGED <<strategy, admin, spawned, children, group>>, Watching' => Watching
      PROVE  OrderInv'
  <2>1. Kids'.spawned = Kids.spawned /\ Kids'.children = Kids.children
    BY <1>3 DEF Kids
  <2>2. Here => Ordered(Kids') /\ (Watching' => PlanOrdered(Kids', group'))
    BY <1>1, <1>3, <2>1 DEF Ordered, PlanOrdered
  <2> QED
    BY <1>2, <1>3, <2>2
<1>4. ASSUME NEW r, NEW why, NEW live, live \subseteq alive, NEW box, NEW after, Watching,
             HandleTermination(r, why, live, box, after), UNCHANGED <<strategy, admin>>
      PROVE  OrderInv'
  <2>1. Here => Ordered(Kids') /\ (sup' # "crashed" => PlanOrdered(Kids', group'))
    BY <1>1, <1>4, TerminationOrdered
  <2>2. Watching' => sup' # "crashed"
    BY DEF Watching, Over
  <2> QED
    BY <1>2, <1>4, <2>1, <2>2
<1>5. CASE UNCHANGED vars \/ Resume \/ Tick
  BY <1>3, <1>5 DEF vars, Resume, Tick, child, calls, Watching, Over
<1>6. CASE Start
  <2> DEFINE l == IF Simple THEN Kids ELSE StartChildren(Kids, [s \in Specs |-> s])
  <2>1. /\ UNCHANGED <<strategy, admin>> /\ group' = NoGroup /\ Install(l)
    BY <1>1, <1>6 DEF Start, calls
  <2>2. DOMAIN Kids.children = {}
    <3>1. Kids.spawned = <<>> /\ Len(<<>>) = 0
      BY <1>1, <1>6 DEF Start, Kids
    <3>2. DOMAIN Kids.children \subseteq 1..Len(Kids.spawned)
      BY <1>1 DEF Family, Refs
    <3> QED
      BY <3>1, <3>2
  <2>3. ASSUME Here PROVE Ordered(Kids')
    <3>1. l = StartChildren(Kids, [s \in Specs |-> s])
      BY <2>3 DEF Simple
    <3>2. Ordered(l)
      BY <1>1, <2>2, <3>1, InitOrdered
    <3>3. l \in Family
      <4>1. [s \in Specs |-> s] \in Seq(Specs)
        BY SupervisorAssumption DEF Specs
      <4>2. \A i \in 1..Len([s \in Specs |-> s]) : [s \in Specs |-> s][i] \in Specs
        BY <4>1
      <4>3. Grown(Kids, StartChildren(Kids, [s \in Specs |-> s]), Specs)
        BY <1>1, <4>1, <4>2, StartChildrenGrown
      <4> QED
        BY <3>1, <4>3 DEF Grown
    <3> HIDE DEF l
    <3>4. Kids' = l
      BY <2>1, <3>3, Installed
    <3> QED
      BY <3>2, <3>4
  <2>4. PlanOrdered(Kids', group')
    BY <2>1 DEF PlanOrdered
  <2> HIDE DEF l
  <2> QED
    BY <1>2, <2>1, <2>3, <2>4
<1>7. CASE Receive
  <2>1. UNCHANGED <<strategy, admin>> /\ Watching
    BY <1>7 DEF Receive, calls, Watching, Over
  <2>2. \/ UNCHANGED <<spawned, children, group>>
        \/ HandleTermination(Head(mailbox).from, Head(mailbox).reason, alive, Tail(mailbox), "running")
    BY <1>7 DEF Receive, child
  <2> QED
    BY <1>3, <1>4, <2>1, <2>2
<1>8. ASSUME NEW r, NEW why, Signal(r, why), UNCHANGED <<strategy, admin>> PROVE OrderInv'
  <2>1. \/ /\ sup = "waiting"
           /\ HandleTermination(r, why, alive \ {r}, mailbox, "scheduled")
        \/ UNCHANGED <<sup, spawned, children, group>>
    BY <1>8 DEF Signal
  <2> QED
    BY <1>3, <1>4, <1>8, <2>1 DEF Watching, Over
<1>9. ASSUME NEW r \in alive, Fail(r) \/ Obey(r) PROVE OrderInv'
  BY <1>8, <1>9 DEF Fail, Obey, calls
<1>10. CASE Administered
  <2>1. admin' = admin + 1
    BY <1>10 DEF Administered, StopSupervisor, StartChildCall, StopChildCall, RestartChildCall,
                 DeleteChildCall, Administer
  <2>2. admin' \in Nat /\ admin' # 0
    BY <1>1, <2>1
  <2> QED
    BY <2>2 DEF OrderInv
<1> QED
  BY <1>5, <1>6, <1>7, <1>9, <1>10 DEF Next, Coroutine, Administered

LEMMA OrderStart == Init => OrderInv
<1> SUFFICES ASSUME Init PROVE OrderInv
  OBVIOUS
<1>1. DOMAIN Kids.children = {} /\ group = NoGroup /\ admin = 0
  BY DEF Init, Kids
<1> QED
  BY <1>1 DEF OrderInv, Ordered, PlanOrdered

(* As long as nobody calls start_child or the like, a rest_for_one         *)
(* supervisor keeps its children in the order of their specifications,     *)
(* through any sequence of failures, restart groups and refused restarts.  *)
THEOREM RestForOneInOrder == Spec => []StartOrderKept
<1>1. OrderInv => StartOrderKept
  BY DEF OrderInv, Ordered, StartOrderKept, Kids
<1> QED
  BY <1>1, SupInvariant, OrderStart, OrderStep, PTL DEF Spec

=============================================================================

------------------------------ MODULE ChaseLev ------------------------------
(***************************************************************************)
(* The work-stealing deque of include/agner/detail/chase_lev_deque.hpp:    *)
(* one owner pushes and pops at the bottom while thieves steal at the top. *)
(*                                                                         *)
(* A step is one access to shared memory that another thread can observe.  *)
(* The owner's stores wait in a store buffer and reach memory in order,    *)
(* as on a TSO machine: the code orders them with relaxed stores and       *)
(* fences, and only the seq_cst fence of pop makes the store to bottom_    *)
(* visible before top_ is read.  Thieves store only by compare-exchange.   *)
(*                                                                         *)
(* Items are 1, 2, ... in the order in which they are pushed; 0 is a slot  *)
(* never written.  Buffers are never freed while the deque is in use       *)
(* (retired_buffers_), so a thief may hold an old one.                     *)
(***************************************************************************)
EXTENDS Integers, Sequences, FiniteSets

CONSTANTS
    Thieves,          \* the other workers
    InitialCapacity,  \* capacity of the first buffer, a power of two
    MaxPushes,        \* bound: items pushed
    MaxPops,          \* bound: calls of pop
    MaxSteals         \* bound: calls of steal

ASSUME DequeAssumption ==
    /\ InitialCapacity \in Nat \ {0} /\ \E n \in 0..30 : InitialCapacity = 2 ^ n
    /\ MaxPushes \in Nat /\ MaxPops \in Nat /\ MaxSteals \in Nat

VARIABLES
    top, bottom, buffer,  \* the atomics, as memory holds them; buffer is an index in buffers
    buffers,              \* every CircularBuffer, retired ones first
    stores,               \* the owner's store buffer
    ownBottom, ownBuffer, \* the owner's view of what it wrote
    owner,                \* where the owner is: [at, b, t]
    thief,                \* where each thief is: [at, t, buf, value]
    pushed, pops, steals, \* counters for the bounds; pushed is the last item
    popped, stolen        \* history: items returned by pop, and by steal in order

own == <<stores, ownBottom, ownBuffer, owner>>
vars == <<top, bottom, buffer, buffers, stores, ownBottom, ownBuffer, owner, thief,
          pushed, pops, steals, popped, stolen>>

Items == 1..MaxPushes
Idle == [at |-> "idle", b |-> 0, t |-> 0]
NoSteal == [at |-> "idle", t |-> 0, buf |-> 1, value |-> 0]

Init ==
    /\ top = 0 /\ bottom = 0 /\ buffer = 1
    /\ buffers = <<[i \in 0..(InitialCapacity - 1) |-> 0]>>
    /\ stores = <<>> /\ ownBottom = 0 /\ ownBuffer = 1
    /\ owner = Idle /\ thief = [w \in Thieves |-> NoSteal]
    /\ pushed = 0 /\ pops = 0 /\ steals = 0
    /\ popped = <<>> /\ stolen = <<>>

-----------------------------------------------------------------------------
(* Memory.  A definition whose name starts with Wrong is a faulty variant  *)
(* of the one after it, kept to show that a property notices the fault.    *)

Capacity(k) == Cardinality(DOMAIN buffers[k])
Slot(i, k) == i % Capacity(k)

StoreSlot(k, i, v) == [var |-> "slot", k |-> k, i |-> i, v |-> v]
StoreBottom(b) == [var |-> "bottom", k |-> 0, i |-> 0, v |-> b]
StoreBuffer(k) == [var |-> "buffer", k |-> 0, i |-> 0, v |-> k]

(* What the owner reads in slot i of its buffer: its own last store, if    *)
(* that is still in the store buffer.                                      *)
OwnSlot(i) ==
    LET mine == {n \in DOMAIN stores :
                    stores[n].var = "slot" /\ stores[n].k = ownBuffer /\ stores[n].i = i}
    IN  IF mine = {} THEN buffers[ownBuffer][i]
        ELSE stores[CHOOSE n \in mine : \A m \in mine : m <= n].v

(* The oldest store reaches memory. *)
Drain ==
    /\ stores # <<>>
    /\ stores' = Tail(stores)
    /\ LET s == Head(stores)
       IN  \/ /\ s.var = "slot"
              /\ buffers' = [buffers EXCEPT ![s.k][s.i] = s.v]
              /\ UNCHANGED <<bottom, buffer>>
           \/ s.var = "bottom" /\ bottom' = s.v /\ UNCHANGED <<buffers, buffer>>
           \/ s.var = "buffer" /\ buffer' = s.v /\ UNCHANGED <<buffers, bottom>>
    /\ UNCHANGED <<top, ownBottom, ownBuffer, owner, thief, pushed, pops, steals, popped, stolen>>

-----------------------------------------------------------------------------
(* The owner. *)

(* CircularBuffer::grow copies the live range, index by index. *)
Grown(t, b) ==
    [i \in 0..(2 * Capacity(ownBuffer) - 1) |->
        IF \E n \in t..(b - 1) : n % (2 * Capacity(ownBuffer)) = i
        THEN LET n == CHOOSE n \in t..(b - 1) : n % (2 * Capacity(ownBuffer)) = i
             IN  OwnSlot(Slot(n, ownBuffer))
        ELSE 0]

(* push: one load of top_, the rest are stores in program order. *)
Push ==
    LET full == ownBottom - top >= Capacity(ownBuffer)
        k == IF full THEN Len(buffers) + 1 ELSE ownBuffer
        capacity == IF full THEN 2 * Capacity(ownBuffer) ELSE Capacity(ownBuffer)
    IN  /\ owner.at = "idle"
        /\ pushed < MaxPushes
        /\ pushed' = pushed + 1
        /\ buffers' = IF full THEN Append(buffers, Grown(top, ownBottom)) ELSE buffers
        /\ ownBuffer' = k
        /\ ownBottom' = ownBottom + 1
        /\ stores' = stores \o (IF full THEN <<StoreBuffer(k)>> ELSE <<>>)
                            \o <<StoreSlot(k, ownBottom % capacity, pushed + 1),
                                 StoreBottom(ownBottom + 1)>>
        /\ UNCHANGED <<top, bottom, buffer, owner, thief, pops, steals, popped, stolen>>

(* pop: reserve the bottom item ... *)
PopReserve ==
    /\ owner.at = "idle"
    /\ pops < MaxPops
    /\ pops' = pops + 1
    /\ owner' = [at |-> "fence", b |-> ownBottom - 1, t |-> 0]
    /\ ownBottom' = ownBottom - 1
    /\ stores' = Append(stores, StoreBottom(ownBottom - 1))
    /\ UNCHANGED <<top, bottom, buffer, buffers, ownBuffer, thief, pushed, steals, popped, stolen>>

WrongPopLoad ==
    /\ owner.at = "fence"
    /\ owner' = [owner EXCEPT !.at = IF top <= owner.b THEN "take" ELSE "restore", !.t = top]
    /\ UNCHANGED <<top, bottom, buffer, buffers, stores, ownBottom, ownBuffer, thief, pushed,
                   pops, steals, popped, stolen>>

(* ... the fence waits for the store buffer, and top_ is read ... *)
PopLoad ==
    /\ owner.at = "fence"
    /\ stores = <<>>
    /\ owner' = [owner EXCEPT !.at = IF top <= owner.b THEN "take" ELSE "restore", !.t = top]
    /\ UNCHANGED <<top, bottom, buffer, buffers, stores, ownBottom, ownBuffer, thief, pushed,
                   pops, steals, popped, stolen>>

(* ... more than one item: take it ... *)
PopMany ==
    /\ owner.at = "take" /\ owner.t # owner.b
    /\ popped' = Append(popped, OwnSlot(Slot(owner.b, ownBuffer)))
    /\ owner' = Idle
    /\ UNCHANGED <<top, bottom, buffer, buffers, stores, ownBottom, ownBuffer, thief, pushed,
                   pops, steals, stolen>>

WrongPopLast ==
    /\ owner.at = "take" /\ owner.t = owner.b
    /\ stores = <<>>
    /\ top' = IF top = owner.t THEN top + 1 ELSE top
    /\ popped' = IF top = owner.t THEN Append(popped, OwnSlot(Slot(owner.b, ownBuffer)))
                 ELSE popped
    /\ owner' = IF top = owner.t THEN Idle ELSE [owner EXCEPT !.at = "restore"]
    /\ UNCHANGED <<bottom, buffer, buffers, stores, ownBottom, ownBuffer, thief, pushed,
                   pops, steals, stolen>>

(* ... the last one: the compare-exchange decides against a thief ... *)
PopLast ==
    /\ owner.at = "take" /\ owner.t = owner.b
    /\ stores = <<>>
    /\ top' = IF top = owner.t THEN top + 1 ELSE top
    /\ popped' = IF top = owner.t THEN Append(popped, OwnSlot(Slot(owner.b, ownBuffer)))
                 ELSE popped
    /\ owner' = [owner EXCEPT !.at = "restore"]
    /\ UNCHANGED <<bottom, buffer, buffers, stores, ownBottom, ownBuffer, thief, pushed,
                   pops, steals, stolen>>

WrongPopRestore ==
    /\ owner.at = "restore"
    /\ stores' = Append(stores, StoreBottom(owner.b))
    /\ owner' = Idle
    /\ UNCHANGED <<top, bottom, buffer, buffers, ownBottom, ownBuffer, thief, pushed, pops,
                   steals, popped, stolen>>

(* ... and bottom_ is put back, also when the deque was empty. *)
PopRestore ==
    /\ owner.at = "restore"
    /\ ownBottom' = owner.b + 1
    /\ stores' = Append(stores, StoreBottom(owner.b + 1))
    /\ owner' = Idle
    /\ UNCHANGED <<top, bottom, buffer, buffers, ownBuffer, thief, pushed, pops, steals,
                   popped, stolen>>

-----------------------------------------------------------------------------
(* A thief. *)

StealTop(w) ==
    /\ thief[w].at = "idle"
    /\ steals < MaxSteals
    /\ steals' = steals + 1
    /\ thief' = [thief EXCEPT ![w] = [NoSteal EXCEPT !.at = "bottom", !.t = top]]
    /\ UNCHANGED <<top, bottom, buffer, buffers, own, pushed, pops, popped, stolen>>

StealBottom(w) ==
    /\ thief[w].at = "bottom"
    /\ thief' = [thief EXCEPT ![w] = IF thief[w].t < bottom THEN [@ EXCEPT !.at = "buffer"]
                                     ELSE NoSteal]
    /\ UNCHANGED <<top, bottom, buffer, buffers, own, pushed, pops, steals, popped, stolen>>

StealBuffer(w) ==
    /\ thief[w].at = "buffer"
    /\ thief' = [thief EXCEPT ![w].at = "slot", ![w].buf = buffer]
    /\ UNCHANGED <<top, bottom, buffer, buffers, own, pushed, pops, steals, popped, stolen>>

StealSlot(w) ==
    /\ thief[w].at = "slot"
    /\ thief' = [thief EXCEPT ![w].at = "cas",
                              ![w].value = buffers[thief[w].buf][Slot(thief[w].t, thief[w].buf)]]
    /\ UNCHANGED <<top, bottom, buffer, buffers, own, pushed, pops, steals, popped, stolen>>

(* The compare-exchange on top_; losing it returns nullopt. *)
StealCas(w) ==
    /\ thief[w].at = "cas"
    /\ \/ /\ top = thief[w].t
          /\ top' = top + 1
          /\ stolen' = Append(stolen, thief[w].value)
       \/ /\ top # thief[w].t
          /\ UNCHANGED <<top, stolen>>
    /\ thief' = [thief EXCEPT ![w] = NoSteal]
    /\ UNCHANGED <<bottom, buffer, buffers, own, pushed, pops, steals, popped>>

-----------------------------------------------------------------------------
Pop == PopReserve \/ PopLoad \/ PopMany \/ PopLast \/ PopRestore
Steal(w) ==
    StealTop(w) \/ StealBottom(w) \/ StealBuffer(w) \/ StealSlot(w) \/ StealCas(w)

Next == Drain \/ Push \/ Pop \/ \E w \in Thieves : Steal(w)

Spec == Init /\ [][Next]_vars

-----------------------------------------------------------------------------
(* Properties. *)

Returned == popped \o stolen
Quiet == owner.at = "idle" /\ stores = <<>> /\ \A w \in Thieves : thief[w].at = "idle"

(* Every variable keeps its type. *)
TypeOK ==
    /\ top \in 0..MaxPushes /\ bottom \in -1..MaxPushes /\ ownBottom \in -1..MaxPushes
    /\ buffer \in DOMAIN buffers /\ ownBuffer \in DOMAIN buffers
    /\ owner.at \in {"idle", "fence", "take", "restore"}
    /\ \A w \in Thieves : thief[w].at \in {"idle", "bottom", "buffer", "slot", "cas"}

(* No item is returned twice, by pop or by steal, none is made up from a   *)
(* slot that was never written or has been written over, and the thieves   *)
(* take the items in the order in which they were pushed.                  *)
TakenOnce ==
    /\ \A i \in DOMAIN Returned : Returned[i] \in 1..pushed
    /\ \A i, j \in DOMAIN Returned : Returned[i] = Returned[j] => i = j
    /\ \A i, j \in DOMAIN stolen : i < j => stolen[i] < stolen[j]

(* No item is lost: between the calls, what was pushed and not returned is *)
(* in the live range of the current buffer, oldest first.                  *)
Remaining == {v \in 1..pushed : \A i \in DOMAIN Returned : Returned[i] # v}
NothingLost ==
    Quiet =>
        /\ bottom - top = Cardinality(Remaining)
        /\ \A i, j \in top..(bottom - 1) :
              /\ buffers[buffer][Slot(i, buffer)] \in Remaining
              /\ i < j => buffers[buffer][Slot(i, buffer)] < buffers[buffer][Slot(j, buffer)]

=============================================================================

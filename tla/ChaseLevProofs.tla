--------------------------- MODULE ChaseLevProofs ---------------------------
(***************************************************************************)
(* Proofs about ChaseLev: under TSO, for any number of thieves and any     *)
(* capacity, no item is returned twice, made up or lost.                   *)
(***************************************************************************)
EXTENDS ChaseLev, FiniteSetTheorems, SequenceTheorems, TLAPS

-----------------------------------------------------------------------------
(* The inductive invariant is about a function item: the item that the     *)
(* owner has pushed at each index, whether or not the store has reached    *)
(* memory.                                                                 *)

Rows == UNION {[0..(c - 1) -> Nat] : c \in Nat \ {0}}
Stores == [var : {"slot", "bottom", "buffer"}, k : Nat, i : Nat, v : Int]
Owners == [at : {"idle", "fence", "take", "restore"}, b : Int, t : Nat]
Robbers == [at : {"idle", "bottom", "buffer", "slot", "cas"}, t : Nat, buf : Nat, value : Nat]

(* The indices of the items in the deque: an item that pop has reserved is *)
(* in it until the pop is decided.                                         *)
Limit == IF owner.at = "idle" THEN ownBottom ELSE owner.b + 1
Live == top..(Limit - 1)

(* The index of a store to a slot is told by the store to bottom_ after    *)
(* it.                                                                     *)
Index(n) == stores[n + 1].v - 1
OfSlot(n) == n \in DOMAIN stores /\ stores[n].var = "slot"

Typed ==
    /\ top \in Nat /\ bottom \in Int /\ ownBottom \in Int
    /\ buffers \in Seq(Rows) /\ ownBuffer = Len(buffers) /\ buffer \in 1..ownBuffer
    /\ stores \in Seq(Stores) /\ owner \in Owners /\ thief \in [Thieves -> Robbers]
    /\ pushed \in 0..MaxPushes /\ popped \in Seq(Nat) /\ stolen \in Seq(Nat)

(* The deque never holds more items than its buffer has slots, no value of *)
(* bottom_ that a thief may read exceeds the items there are, and while    *)
(* pop decides, everything it stored has reached memory.                   *)
Bounded ==
    /\ top <= Limit /\ Limit <= pushed /\ Limit - top <= Capacity(ownBuffer)
    /\ bottom <= Limit /\ \A n \in DOMAIN stores : stores[n].var = "bottom" => stores[n].v <= Limit
    /\ owner.at # "idle" => ownBottom = owner.b
    /\ owner.at \in {"take", "restore"} => stores = <<>>
    /\ owner.at = "take" => /\ owner.t <= top /\ owner.t <= owner.b
                            /\ owner.t < owner.b => top <= owner.b
    /\ owner.at = "restore" => top = owner.b + 1

(* The last stores of the owner are what it remembers. *)
Newest ==
    /\ stores = <<>> => bottom = ownBottom
    /\ stores # <<>> => stores[Len(stores)].var = "bottom" /\ stores[Len(stores)].v = ownBottom
    /\ \/ buffer = ownBuffer
       \/ \E n \in DOMAIN stores : stores[n].var = "buffer" /\ stores[n].v = ownBuffer

(* A store to a slot that has not reached memory. *)
SlotStore(item, n) ==
    /\ n + 1 \in DOMAIN stores /\ stores[n + 1].var = "bottom"
    /\ Index(n) \in Live /\ stores[n].v = item[Index(n)]
    /\ stores[n].k \in buffer..ownBuffer /\ stores[n].i = Index(n) % Capacity(stores[n].k)
    /\ Index(n) - top < Capacity(stores[n].k)
    /\ bottom <= Index(n)
    /\ \A m \in 1..(n - 1) : stores[m].var = "bottom" => stores[m].v <= Index(n)
    /\ \A i \in Index(n)..(Limit - 1) : \E m \in DOMAIN stores : OfSlot(m) /\ Index(m) = i
    /\ \/ stores[n].k = buffer
       \/ \E m \in 1..(n - 1) : stores[m].var = "buffer" /\ stores[m].v = stores[n].k
    /\ \A m \in 1..(n - 1) : stores[m].var = "buffer" => stores[m].v <= stores[n].k

(* A store to buffer_ that has not reached memory. *)
BufferStore(n) ==
    /\ stores[n].v \in (buffer + 1)..ownBuffer
    /\ \A m \in 1..(n - 1) : /\ stores[m].var = "slot" => stores[m].k < stores[n].v
                             /\ stores[m].var = "buffer" => stores[m].v < stores[n].v

Pending(item) ==
    \A n \in DOMAIN stores : /\ stores[n].var = "slot" => SlotStore(item, n)
                             /\ stores[n].var = "buffer" => BufferStore(n)

(* A buffer that a thief may still load has each item, unless the store of *)
(* that item is on its way.                                                *)
Valid(item) ==
    \A k \in buffer..ownBuffer, i \in Live :
        \/ \E n \in DOMAIN stores : OfSlot(n) /\ Index(n) = i /\ stores[n].k >= k
        \/ buffers[k][Slot(i, k)] = item[i]

(* A thief whose compare-exchange would succeed has the item at the top,   *)
(* which pop does not take without a compare-exchange of its own.          *)
Robber(item, w) ==
    /\ thief[w].t <= top
    /\ thief[w].at = "slot" => thief[w].buf \in 1..buffer
    /\ thief[w].at \in {"buffer", "slot", "cas"} /\ thief[w].t = top =>
          /\ top < Limit
          /\ \A n \in DOMAIN stores : stores[n].var = "slot" => top < Index(n)
          /\ owner.at = "take" => top <= owner.t \/ top < owner.b
          /\ thief[w].at = "slot" => buffers[thief[w].buf][Slot(top, thief[w].buf)] = item[top]
          /\ thief[w].at = "cas" => thief[w].value = item[top]

(* Every item pushed is in the deque, or has been returned, once. *)
Accounted(item) ==
    /\ \A i, j \in Live : i < j => item[i] < item[j]
    /\ \A i \in Live : /\ item[i] \in 1..pushed
                       /\ \A n \in DOMAIN popped : popped[n] # item[i]
                       /\ \A n \in DOMAIN stolen : stolen[n] < item[i]
    /\ \A n \in DOMAIN popped : popped[n] \in 1..pushed
    /\ \A n \in DOMAIN stolen : stolen[n] \in 1..pushed
    /\ \A m, n \in DOMAIN popped : popped[m] = popped[n] => m = n
    /\ \A m, n \in DOMAIN stolen : m < n => stolen[m] < stolen[n]
    /\ \A m \in DOMAIN popped, n \in DOMAIN stolen : popped[m] # stolen[n]
    /\ \A v \in 1..pushed : \/ \E i \in Live : item[i] = v
                            \/ \E n \in DOMAIN popped : popped[n] = v
                            \/ \E n \in DOMAIN stolen : stolen[n] = v

Deque(item) ==
    /\ Typed /\ Bounded /\ Newest /\ Pending(item) /\ Valid(item)
    /\ (\A w \in Thieves : Robber(item, w)) /\ Accounted(item)

DequeInv == \E item \in [Nat -> Nat] : Deque(item)

-----------------------------------------------------------------------------
(* Slots. *)

(* Two indices less than the capacity apart have different slots. *)
LEMMA SlotsDiffer ==
    ASSUME NEW c \in Nat \ {0}, NEW i \in Int, NEW j \in Int, i <= j, j - i < c, i % c = j % c
    PROVE  i = j
<1> DEFINE p == i \div c
           q == j \div c
<1>1. /\ p \in Int /\ q \in Int /\ i % c \in Int
      /\ i = c * p + (i % c) /\ j = c * q + (j % c)
  OBVIOUS
<1> HIDE DEF p, q
<1>2. j - i = c * (q - p)
  BY <1>1
<1>3. CASE q - p >= 1
  <2>1. c * (q - p) >= c
    BY <1>3, <1>1
  <2> QED
    BY <2>1, <1>2
<1>4. CASE q - p <= -1
  <2>1. c * (q - p) <= -c
    BY <1>4, <1>1
  <2> QED
    BY <2>1, <1>2
<1>5. CASE q = p
  BY <1>5, <1>1
<1> QED
  BY <1>1, <1>3, <1>4, <1>5

(* So at most one of capacity many indices in a row has a given slot. *)
LEMMA SameSlot ==
    ASSUME NEW c \in Nat \ {0}, NEW lo \in Int, NEW i \in Int, NEW j \in Int,
           i >= lo, j >= lo, i - lo < c, j - lo < c, i % c = j % c
    PROVE  i = j
<1>1. CASE i <= j
  <2>1. j - i < c
    OBVIOUS
  <2> QED
    BY <1>1, <2>1, SlotsDiffer
<1>2. CASE j <= i
  <2>1. i - j < c
    OBVIOUS
  <2> QED
    BY <1>2, <2>1, SlotsDiffer
<1> QED
  BY <1>1, <1>2

(* The slots of a buffer are numbered from 0. *)
LEMMA RowSlots ==
    ASSUME NEW r \in Rows
    PROVE  /\ Cardinality(DOMAIN r) \in Nat \ {0}
           /\ r \in [0..(Cardinality(DOMAIN r) - 1) -> Nat]
<1>1. PICK c \in Nat \ {0} : r \in [0..(c - 1) -> Nat]
  BY DEF Rows
<1>2. Cardinality(0..(c - 1)) = c
  <2>1. 0 \in Int /\ c - 1 \in Int /\ ~(0 > c - 1) /\ c - 1 - 0 + 1 = c
    OBVIOUS
  <2> QED
    BY <2>1, FS_Interval
<1>3. DOMAIN r = 0..(c - 1)
  BY <1>1
<1> QED
  BY <1>1, <1>2, <1>3

(* A buffer with c slots is a row of capacity c. *)
LEMMA RowOf ==
    ASSUME NEW c \in Nat \ {0}, NEW r \in [0..(c - 1) -> Nat]
    PROVE  r \in Rows /\ Cardinality(DOMAIN r) = c
<1>1. Cardinality(0..(c - 1)) = c
  <2>1. 0 \in Int /\ c - 1 \in Int /\ ~(0 > c - 1) /\ c - 1 - 0 + 1 = c
    OBVIOUS
  <2> QED
    BY <2>1, FS_Interval
<1> QED
  BY <1>1 DEF Rows

(* The buffers of the deque, and the slots of an index. *)
LEMMA BufferSlots ==
    ASSUME Typed, NEW k \in 1..ownBuffer
    PROVE  /\ k \in Nat /\ k \in DOMAIN buffers /\ buffers[k] \in Rows
           /\ Capacity(k) \in Nat \ {0} /\ buffers[k] \in [0..(Capacity(k) - 1) -> Nat]
           /\ \A i \in Int : Slot(i, k) = i % Capacity(k) /\ Slot(i, k) \in 0..(Capacity(k) - 1)
<1>1. buffers \in Seq(Rows) /\ ownBuffer = Len(buffers)
  BY DEF Typed
<1>2. k \in Nat /\ k \in DOMAIN buffers /\ buffers[k] \in Rows
  BY <1>1, LenProperties, ElementOfSeq
<1>3. Capacity(k) \in Nat \ {0} /\ buffers[k] \in [0..(Capacity(k) - 1) -> Nat]
  BY <1>2, RowSlots DEF Capacity
<1>4. \A i \in Int : Slot(i, k) = i % Capacity(k) /\ Slot(i, k) \in 0..(Capacity(k) - 1)
  BY <1>3 DEF Slot
<1> QED
  BY <1>2, <1>3, <1>4

(* The types of the indices. *)
LEMMA IndexType ==
    ASSUME Typed
    PROVE  /\ Limit \in Int /\ top \in Nat /\ bottom \in Int /\ ownBottom \in Int
           /\ buffer \in Nat /\ ownBuffer \in Nat /\ buffer >= 1 /\ buffer <= ownBuffer
           /\ \A i \in Live : i \in Nat /\ i >= top /\ i < Limit
           /\ Len(stores) \in Nat /\ DOMAIN stores = 1..Len(stores)
           /\ \A n \in DOMAIN stores : n \in Nat /\ stores[n] \in Stores
<1>1. Limit \in Int
  BY DEF Typed, Limit, Owners
<1>2. top \in Nat /\ bottom \in Int /\ ownBottom \in Int
  BY DEF Typed
<1>3. buffer \in Nat /\ ownBuffer \in Nat /\ buffer >= 1 /\ buffer <= ownBuffer
  BY LenProperties DEF Typed
<1>4. \A i \in Live : i \in Nat /\ i >= top /\ i < Limit
  BY <1>1, <1>2 DEF Live
<1>5. Len(stores) \in Nat /\ DOMAIN stores = 1..Len(stores)
  BY LenProperties DEF Typed
<1>6. \A n \in DOMAIN stores : n \in Nat /\ stores[n] \in Stores
  BY <1>5, ElementOfSeq DEF Typed
<1> QED
  BY <1>1, <1>2, <1>3, <1>4, <1>5, <1>6

(* The capacity of the owner's buffer. *)
LEMMA OwnCapacity ==
    ASSUME Typed
    PROVE  ownBuffer \in 1..ownBuffer /\ ownBuffer \in Nat /\ Capacity(ownBuffer) \in Nat \ {0}
<1>1. buffer \in Nat /\ ownBuffer \in Nat /\ buffer >= 1 /\ buffer <= ownBuffer
  BY IndexType
<1>2. ownBuffer \in 1..ownBuffer
  BY <1>1
<1> QED
  BY <1>1, <1>2, BufferSlots

(* The index of a store to a slot. *)
LEMMA SlotIndex ==
    ASSUME NEW item, Typed, Pending(item), NEW n \in DOMAIN stores, stores[n].var = "slot"
    PROVE  /\ SlotStore(item, n) /\ OfSlot(n)
           /\ Index(n) \in Nat /\ Index(n) \in Live /\ Index(n) >= top /\ Index(n) < Limit
           /\ stores[n].k \in 1..ownBuffer /\ stores[n].k \in Nat
           /\ Capacity(stores[n].k) \in Nat \ {0}
<1>1. SlotStore(item, n) /\ OfSlot(n)
  BY DEF Pending, OfSlot
<1>2. Index(n) \in Live /\ stores[n].k \in buffer..ownBuffer
  BY <1>1 DEF SlotStore
<1>3. stores[n].k \in 1..ownBuffer /\ stores[n].k \in Nat
  BY <1>2, IndexType
<1>4. Capacity(stores[n].k) \in Nat \ {0}
  BY <1>3, BufferSlots
<1>5. Index(n) \in Nat /\ Index(n) >= top /\ Index(n) < Limit
  BY <1>2, IndexType
<1> QED
  BY <1>1, <1>2, <1>3, <1>4, <1>5

(* The stores to slots are in the order of their indices. *)
LEMMA SlotOrder ==
    ASSUME NEW item, Typed, Pending(item), NEW m \in DOMAIN stores, NEW n \in DOMAIN stores,
           stores[m].var = "slot", stores[n].var = "slot"
    PROVE  /\ m < n => Index(m) < Index(n)
           /\ Index(m) = Index(n) => m = n
<1>1. /\ m \in Nat /\ n \in Nat /\ Index(m) \in Nat /\ Index(n) \in Nat
      /\ SlotStore(item, m) /\ SlotStore(item, n)
  BY SlotIndex, IndexType
<1>2. \A p, q \in {m, n} : p < q => Index(p) < Index(q)
  <2> SUFFICES ASSUME NEW p \in {m, n}, NEW q \in {m, n}, p < q PROVE Index(p) < Index(q)
    OBVIOUS
  <2>1. SlotStore(item, p) /\ SlotStore(item, q) /\ p \in Nat /\ q \in Nat /\ stores[q].var = "slot"
    BY <1>1
  <2>2. p + 1 # q
    BY <2>1 DEF SlotStore
  <2>3. p + 1 \in 1..(q - 1)
    BY <2>1, <2>2
  <2>4. stores[p + 1].v \in Int
    BY <2>1, IndexType DEF SlotStore, Stores
  <2>5. stores[p + 1].v <= Index(q) /\ stores[p + 1].v = Index(p) + 1
    BY <2>1, <2>3, <2>4 DEF SlotStore, Index
  <2> QED
    BY <1>1, <2>5
<1> QED
  BY <1>1, <1>2

(* The owner finds in the slot of a live index the item that it pushed     *)
(* there.                                                                  *)
LEMMA OwnItem ==
    ASSUME NEW item \in [Nat -> Nat], Deque(item), NEW i \in Live
    PROVE  OwnSlot(Slot(i, ownBuffer)) = item[i]
<1> USE DEF Deque
<1> DEFINE x == Slot(i, ownBuffer)
           mine == {n \in DOMAIN stores : /\ stores[n].var = "slot" /\ stores[n].k = ownBuffer
                                          /\ stores[n].i = x}
<1>1. /\ ownBuffer \in 1..ownBuffer /\ Capacity(ownBuffer) \in Nat \ {0}
      /\ i \in Nat /\ x = i % Capacity(ownBuffer) /\ i >= top /\ i < Limit
  <2>1. ownBuffer \in 1..ownBuffer /\ i \in Nat /\ i >= top /\ i < Limit
    BY IndexType, OwnCapacity
  <2> QED
    BY <2>1, BufferSlots
<1>2. ASSUME NEW n \in mine PROVE Index(n) = i /\ stores[n].v = item[i]
  <2>1. n \in DOMAIN stores /\ stores[n].var = "slot" /\ stores[n].k = ownBuffer /\ stores[n].i = x
    BY <1>2
  <2>2. /\ Index(n) \in Nat /\ Index(n) >= top /\ Index(n) < Limit
        /\ stores[n].v = item[Index(n)] /\ x = Index(n) % Capacity(ownBuffer)
    BY <2>1, SlotIndex DEF SlotStore
  <2>3. Limit - top <= Capacity(ownBuffer) /\ Limit \in Int /\ top \in Nat
    BY IndexType DEF Bounded
  <2> HIDE DEF x
  <2>4. Index(n) - top < Capacity(ownBuffer) /\ i - top < Capacity(ownBuffer)
    BY <1>1, <2>2, <2>3
  <2>5. Index(n) = i
    <3> DEFINE c == Capacity(ownBuffer)
               j == Index(n)
    <3>1. /\ c \in Nat \ {0} /\ top \in Int /\ i \in Int /\ j \in Int /\ i >= top /\ j >= top
          /\ i - top < c /\ j - top < c /\ i % c = j % c
      BY <1>1, <2>2, <2>3, <2>4
    <3> HIDE DEF c, j
    <3>2. i = j
      BY <3>1, SameSlot
    <3> QED
      BY <3>2 DEF j
  <2> QED
    BY <2>2, <2>5
<1>3. CASE mine # {}
  <2>1. \A m, n \in mine : m = n
    BY <1>2, SlotOrder
  <2> DEFINE c == CHOOSE n \in mine : \A m \in mine : m <= n
  <2>2. c \in mine
    <3>1. PICK n \in mine : TRUE
      BY <1>3
    <3>2. \A m \in mine : m = n /\ m \in Nat
      BY <2>1, IndexType
    <3>3. \A m \in mine : m <= n
      BY <3>2
    <3> QED
      BY <3>1, <3>3
  <2>3. OwnSlot(x) = stores[c].v
    BY <1>3 DEF OwnSlot
  <2> QED
    BY <1>2, <2>2, <2>3
<1>4. CASE mine = {}
  <2>1. OwnSlot(x) = buffers[ownBuffer][x]
    BY <1>4 DEF OwnSlot
  <2>2. ~ \E n \in DOMAIN stores : OfSlot(n) /\ Index(n) = i /\ stores[n].k >= ownBuffer
    <3> SUFFICES ASSUME NEW n \in DOMAIN stores, OfSlot(n), Index(n) = i, stores[n].k >= ownBuffer
                 PROVE  FALSE
      OBVIOUS
    <3>1. stores[n].var = "slot" /\ SlotStore(item, n) /\ stores[n].k \in 1..ownBuffer
      BY SlotIndex DEF OfSlot
    <3>2. stores[n].k = ownBuffer
      <4>1. ownBuffer \in Nat
        BY IndexType
      <4> QED
        BY <3>1, <4>1
    <3>3. stores[n].i = x
      BY <3>1, <3>2, <1>1 DEF SlotStore
    <3> QED
      BY <1>4, <3>1, <3>2, <3>3
  <2>3. ownBuffer \in buffer..ownBuffer
    BY IndexType
  <2> QED
    BY <2>1, <2>2, <2>3 DEF Valid
<1> QED
  BY <1>3, <1>4

-----------------------------------------------------------------------------
(* Items leave the deque. *)

(* pop returns the item at index b. *)
LEMMA PoppedKeeps ==
    ASSUME NEW item \in [Nat -> Nat], Typed, Accounted(item), NEW b \in Live,
           popped' = Append(popped, item[b]), UNCHANGED <<stolen, pushed>>, Live' = Live \ {b}
    PROVE  Accounted(item)' /\ popped' \in Seq(Nat)
<1> DEFINE x == item[b]
           p == popped'
           N == Len(p)
<1>1. x \in Nat /\ x \in 1..pushed
  BY IndexType DEF Accounted
<1>2. /\ p \in Seq(Nat)
      /\ \A n \in DOMAIN p : (n = N /\ p[n] = x) \/ (n \in DOMAIN popped /\ p[n] = popped[n])
      /\ \A n \in DOMAIN popped : n \in DOMAIN p /\ p[n] = popped[n]
      /\ N \in DOMAIN p /\ p[N] = x
  <2>1. popped \in Seq(Nat) /\ p = Append(popped, x)
    BY DEF Typed
  <2> HIDE DEF x, p
  <2>2. /\ p \in Seq(Nat) /\ Len(p) = Len(popped) + 1 /\ Len(popped) \in Nat
        /\ DOMAIN popped = 1..Len(popped) /\ DOMAIN p = 1..Len(p)
    BY <1>1, <2>1, AppendProperties, LenProperties
  <2>3. (\A n \in 1..Len(popped) : p[n] = popped[n]) /\ p[Len(popped) + 1] = x
    BY <1>1, <2>1, AppendProperties
  <2>4. \A n \in DOMAIN p : n = Len(p) \/ n \in DOMAIN popped
    BY <2>2
  <2>5. Len(p) \in DOMAIN p /\ \A n \in DOMAIN popped : n \in DOMAIN p
    BY <2>2
  <2> QED
    BY <2>2, <2>3, <2>4, <2>5
<1>3. \A i \in Live : i # b => item[i] # x
  <2> SUFFICES ASSUME NEW i \in Live, i # b PROVE item[i] # item[b]
    OBVIOUS
  <2>1. i \in Nat /\ b \in Nat /\ item[i] \in Nat /\ (i < b \/ b < i)
    BY IndexType, SMTT(30)
  <2> QED
    BY <2>1, <1>1, SMTT(30) DEF Accounted
<1>4. \A n \in DOMAIN stolen : stolen[n] # x
  <2>1. \A n \in DOMAIN stolen : stolen[n] < x /\ stolen[n] \in Nat
    BY ElementOfSeq, LenProperties DEF Accounted, Typed
  <2> QED
    BY <1>1, <2>1
<1>5. /\ \A n \in DOMAIN popped : popped[n] # x /\ popped[n] \in 1..pushed
      /\ \A m, n \in DOMAIN popped : popped[m] = popped[n] => m = n
      /\ \A m \in DOMAIN popped, n \in DOMAIN stolen : popped[m] # stolen[n]
  BY DEF Accounted
<1>6. \A i \in Live : \A n \in DOMAIN popped : popped[n] # item[i]
  BY DEF Accounted
<1>7. \A v \in 1..pushed : \/ \E i \in Live : item[i] = v
                           \/ \E n \in DOMAIN popped : popped[n] = v
                           \/ \E n \in DOMAIN stolen : stolen[n] = v
  BY DEF Accounted
<1> HIDE DEF x, p, N
<1>8. \A i \in Live \ {b} : \A n \in DOMAIN p : p[n] # item[i]
  BY <1>2, <1>3, <1>6
<1>9. \A n \in DOMAIN p : p[n] \in 1..pushed
  BY <1>1, <1>2, <1>5
<1>10. \A m, n \in DOMAIN p : p[m] = p[n] => m = n
  BY <1>2, <1>5
<1>11. \A m \in DOMAIN p, n \in DOMAIN stolen : p[m] # stolen[n]
  BY <1>2, <1>4, <1>5
<1>12. ASSUME NEW v \in 1..pushed
       PROVE  \/ \E i \in Live \ {b} : item[i] = v
              \/ \E n \in DOMAIN p : p[n] = v
              \/ \E n \in DOMAIN stolen : stolen[n] = v
  <2>1. CASE v = x
    BY <1>2, <2>1
  <2>2. CASE v # x
    <3>1. ASSUME NEW i \in Live, item[i] = v PROVE i # b
      BY <2>2, <3>1 DEF x
    <3> QED
      BY <1>2, <1>7, <3>1
  <2> QED
    BY <2>1, <2>2
<1>13. \A i, j \in Live' : i < j => item[i] < item[j]
  BY DEF Accounted
<1>14. \A i \in Live' : /\ item[i] \in 1..pushed'
                        /\ \A n \in DOMAIN popped' : popped'[n] # item[i]
                        /\ \A n \in DOMAIN stolen' : stolen'[n] < item[i]
  BY <1>8 DEF Accounted, p
<1>15. /\ \A n \in DOMAIN stolen : stolen[n] \in 1..pushed
       /\ \A m, n \in DOMAIN stolen : m < n => stolen[m] < stolen[n]
  BY DEF Accounted
<1>16. Accounted(item)'
  BY <1>9, <1>10, <1>11, <1>12, <1>13, <1>14, <1>15 DEF Accounted, p
<1> QED
  BY <1>2, <1>16 DEF p

(* steal returns the item at the top. *)
LEMMA StolenKeeps ==
    ASSUME NEW item \in [Nat -> Nat], Typed, Accounted(item), top \in Live,
           stolen' = Append(stolen, item[top]), UNCHANGED <<popped, pushed>>, Live' = Live \ {top}
    PROVE  Accounted(item)' /\ stolen' \in Seq(Nat)
<1> DEFINE x == item[top]
           p == stolen'
           N == Len(p)
<1>1. x \in Nat /\ x \in 1..pushed
  BY IndexType DEF Accounted
<1>2. /\ p \in Seq(Nat) /\ N = Len(stolen) + 1 /\ Len(stolen) \in Nat
      /\ DOMAIN stolen = 1..Len(stolen) /\ DOMAIN p = 1..N
      /\ \A n \in DOMAIN p : (n = N /\ p[n] = x) \/ (n \in DOMAIN stolen /\ p[n] = stolen[n])
      /\ \A n \in DOMAIN stolen : n \in DOMAIN p /\ p[n] = stolen[n]
      /\ N \in DOMAIN p /\ p[N] = x
  <2>1. stolen \in Seq(Nat) /\ p = Append(stolen, x)
    BY DEF Typed
  <2> HIDE DEF x, p
  <2>2. /\ p \in Seq(Nat) /\ Len(p) = Len(stolen) + 1 /\ Len(stolen) \in Nat
        /\ DOMAIN stolen = 1..Len(stolen) /\ DOMAIN p = 1..Len(p)
    BY <1>1, <2>1, AppendProperties, LenProperties
  <2>3. (\A n \in 1..Len(stolen) : p[n] = stolen[n]) /\ p[Len(stolen) + 1] = x
    BY <1>1, <2>1, AppendProperties
  <2>4. \A n \in DOMAIN p : n = Len(p) \/ n \in DOMAIN stolen
    BY <2>2
  <2>5. Len(p) \in DOMAIN p /\ \A n \in DOMAIN stolen : n \in DOMAIN p
    BY <2>2
  <2> QED
    BY <2>2, <2>3, <2>4, <2>5
<1>3. \A i \in Live : i # top => x < item[i]
  <2> SUFFICES ASSUME NEW i \in Live, i # top PROVE x < item[i]
    OBVIOUS
  <2>1. i \in Nat /\ top < i
    BY IndexType
  <2> QED
    BY <2>1 DEF Accounted
<1>4. /\ \A n \in DOMAIN stolen : stolen[n] < x /\ stolen[n] \in 1..pushed
      /\ \A m, n \in DOMAIN stolen : m < n => stolen[m] < stolen[n]
      /\ \A n \in DOMAIN popped : popped[n] # x
      /\ \A m \in DOMAIN popped, n \in DOMAIN stolen : popped[m] # stolen[n]
  BY DEF Accounted
<1>5. \A i \in Live : \A n \in DOMAIN stolen : stolen[n] < item[i]
  BY DEF Accounted
<1>6. \A v \in 1..pushed : \/ \E i \in Live : item[i] = v
                           \/ \E n \in DOMAIN popped : popped[n] = v
                           \/ \E n \in DOMAIN stolen : stolen[n] = v
  BY DEF Accounted
<1> HIDE DEF x, p, N
<1>7. \A i \in Live \ {top} : \A n \in DOMAIN p : p[n] < item[i]
  BY <1>2, <1>3, <1>5
<1>8. \A n \in DOMAIN p : p[n] \in 1..pushed
  BY <1>1, <1>2, <1>4
<1>9. \A m, n \in DOMAIN p : m < n => p[m] < p[n]
  <2>1. \A m, n \in DOMAIN p : m < n => m \in DOMAIN stolen
    BY <1>2
  <2>2. ASSUME NEW m \in DOMAIN p, NEW n \in DOMAIN p, m < n PROVE p[m] < p[n]
    <3>1. m \in DOMAIN stolen /\ p[m] = stolen[m]
      BY <2>1, <2>2, <1>2
    <3> QED
      BY <3>1, <2>2, <1>2, <1>4
  <2> QED
    BY <2>2
<1>10. \A m \in DOMAIN popped, n \in DOMAIN p : popped[m] # p[n]
  BY <1>2, <1>4
<1>11. ASSUME NEW v \in 1..pushed
       PROVE  \/ \E i \in Live \ {top} : item[i] = v
              \/ \E n \in DOMAIN popped : popped[n] = v
              \/ \E n \in DOMAIN p : p[n] = v
  <2>1. CASE v = x
    BY <1>2, <2>1
  <2>2. CASE v # x
    <3>1. ASSUME NEW i \in Live, item[i] = v PROVE i # top
      BY <2>2, <3>1 DEF x
    <3> QED
      BY <1>2, <1>6, <3>1
  <2> QED
    BY <2>1, <2>2
<1>12. \A i, j \in Live' : i < j => item[i] < item[j]
  BY DEF Accounted
<1>13. \A i \in Live' : /\ item[i] \in 1..pushed'
                        /\ \A n \in DOMAIN popped' : popped'[n] # item[i]
                        /\ \A n \in DOMAIN stolen' : stolen'[n] < item[i]
  BY <1>7 DEF Accounted, p
<1>14. /\ \A n \in DOMAIN popped : popped[n] \in 1..pushed
       /\ \A m, n \in DOMAIN popped : popped[m] = popped[n] => m = n
  BY DEF Accounted
<1>15. Accounted(item)'
  BY <1>8, <1>9, <1>10, <1>11, <1>12, <1>13, <1>14, ZenonT(60) DEF Accounted, p
<1> QED
  BY <1>2, <1>15 DEF p

(* Nothing enters or leaves. *)
LEMMA AccountedKeeps ==
    ASSUME NEW item, Accounted(item), UNCHANGED <<popped, stolen, pushed>>, Live' = Live
    PROVE  Accounted(item)'
BY DEF Accounted

(* The memory keeps what it has when only fewer items are in the deque. *)
LEMMA ValidKeeps ==
    ASSUME NEW item, Valid(item), UNCHANGED <<buffers, buffer, ownBuffer, stores>>,
           Live' \subseteq Live
    PROVE  Valid(item)'
BY DEF Valid, OfSlot, Index, Slot, Capacity

-----------------------------------------------------------------------------
(* The steps of pop after the fence: the store buffer is empty. *)

(* top_ is read. *)
LEMMA PopLoadStep ==
    ASSUME NEW item \in [Nat -> Nat], Deque(item), PopLoad
    PROVE  Deque(item)'
<1> USE DEF Deque
<1>1. /\ owner.at = "fence" /\ stores = <<>>
      /\ owner' = [owner EXCEPT !.at = IF top <= owner.b THEN "take" ELSE "restore", !.t = top]
      /\ UNCHANGED <<top, bottom, buffer, buffers, stores, ownBottom, ownBuffer, thief, pushed,
                     popped, stolen>>
  BY DEF PopLoad
<1>2. /\ owner \in Owners /\ top \in Nat /\ owner.b \in Int /\ ownBottom = owner.b
      /\ owner' \in Owners /\ owner'.b = owner.b /\ owner'.t = top
      /\ owner'.at = IF top <= owner.b THEN "take" ELSE "restore"
  BY <1>1 DEF Typed, Owners, Bounded
<1>3. Limit' = Limit /\ Live' = Live /\ Limit = owner.b + 1
  BY <1>1, <1>2 DEF Limit, Live
<1>4. Typed'
  BY <1>1, <1>2 DEF Typed
<1>5. Bounded'
  <2>1. /\ top <= Limit /\ Limit <= pushed /\ Limit - top <= Capacity(ownBuffer) /\ bottom <= Limit
    BY DEF Bounded
  <2>2. Capacity(ownBuffer)' = Capacity(ownBuffer)
    BY <1>1 DEF Capacity
  <2>3. \A n \in DOMAIN stores : stores[n].var = "bottom" => stores[n].v <= Limit
    BY DEF Bounded
  <2>4. owner'.at = "take" => owner'.t <= top /\ owner'.t <= owner'.b /\ (owner'.t < owner'.b => top <= owner'.b)
    BY <1>2
  <2>5. owner'.at = "restore" => top = owner'.b + 1
    BY <1>2, <1>3, <2>1
  <2> QED
    BY <1>1, <1>2, <1>3, <2>1, <2>2, <2>3, <2>4, <2>5 DEF Bounded
<1>6. Newest' /\ Pending(item)'
  BY <1>1 DEF Newest, Pending
<1>7. Valid(item)' /\ Accounted(item)'
  BY <1>1, <1>3, ValidKeeps, AccountedKeeps
<1>8. \A w \in Thieves : Robber(item, w)'
  BY <1>1, <1>2, <1>3 DEF Robber, Slot, Capacity, Index
<1> QED
  BY <1>4, <1>5, <1>6, <1>7, <1>8

(* The bottom item is taken. *)
LEMMA PopManyStep ==
    ASSUME NEW item \in [Nat -> Nat], Deque(item), PopMany
    PROVE  Deque(item)'
<1> USE DEF Deque
<1> DEFINE b == owner.b
           t == owner.t
<1>1. /\ owner.at = "take" /\ t # b /\ owner' = Idle
      /\ popped' = Append(popped, OwnSlot(Slot(b, ownBuffer)))
      /\ UNCHANGED <<top, bottom, buffer, buffers, stores, ownBottom, ownBuffer, thief, pushed,
                     stolen>>
  BY DEF PopMany
<1>2. /\ top \in Nat /\ b \in Int /\ t \in Nat /\ ownBottom = b /\ stores = <<>> /\ bottom = b
      /\ t <= b /\ (t < b => top <= b)
  BY <1>1 DEF Typed, Owners, Bounded, Newest
<1>3. /\ Limit = b + 1 /\ Limit' = ownBottom /\ owner' \in Owners /\ owner'.at = "idle"
  BY <1>1 DEF Limit, Idle, Owners
<1>4. \A w \in Thieves : thief[w].at \in {"buffer", "slot", "cas"} /\ thief[w].t = top =>
                            top <= t \/ top < b
  BY <1>1 DEF Robber
<1> HIDE DEF b, t
<1>5. t < b /\ top <= b
  BY <1>1, <1>2
<1>6. b \in Live /\ Live' = Live \ {b}
  <2>1. Live = top..(b + 1 - 1) /\ Live' = top..(b - 1)
    BY <1>1, <1>2, <1>3 DEF Live
  <2> QED
    BY <1>2, <1>5, <2>1
<1>7. Accounted(item)' /\ popped' \in Seq(Nat)
  <2>1. popped' = Append(popped, item[b])
    BY <1>1, <1>6, OwnItem
  <2> QED
    BY <1>1, <1>6, <2>1, PoppedKeeps
<1>8. Typed'
  BY <1>1, <1>3, <1>7 DEF Typed
<1>9. Bounded'
  <2>1. Limit - top <= Capacity(ownBuffer) /\ Limit <= pushed /\ pushed \in Int
    BY DEF Bounded, Typed
  <2>2. Capacity(ownBuffer)' = Capacity(ownBuffer)
    BY <1>1 DEF Capacity
  <2>3. Limit' - top <= Capacity(ownBuffer) /\ Limit' <= pushed /\ top <= Limit' /\ bottom <= Limit'
    BY <1>2, <1>3, <1>5, <2>1, OwnCapacity
  <2> QED
    BY <1>1, <1>2, <1>3, <2>2, <2>3 DEF Bounded
<1>10. Newest' /\ Pending(item)'
  BY <1>1, <1>2 DEF Newest, Pending
<1>11. Valid(item)'
  BY <1>1, <1>6, ValidKeeps
<1>12. \A w \in Thieves : Robber(item, w)'
  <2> SUFFICES ASSUME NEW w \in Thieves PROVE Robber(item, w)'
    OBVIOUS
  <2>1. thief[w].at \in {"buffer", "slot", "cas"} /\ thief[w].t = top => top < Limit'
    <3>1. Limit' = b /\ (top <= t \/ top < b => top < b)
      BY <1>2, <1>3, <1>5
    <3> QED
      BY <1>4, <3>1
  <2> QED
    BY <1>1, <1>3, <2>1 DEF Robber, Slot, Capacity, Index
<1> QED
  BY <1>7, <1>8, <1>9, <1>10, <1>11, <1>12

(* The compare-exchange for the last item. *)
LEMMA PopLastStep ==
    ASSUME NEW item \in [Nat -> Nat], Deque(item), PopLast
    PROVE  Deque(item)'
<1> USE DEF Deque
<1>1. /\ owner.at = "take" /\ owner.t = owner.b /\ stores = <<>>
      /\ owner' = [owner EXCEPT !.at = "restore"]
      /\ UNCHANGED <<bottom, buffer, buffers, stores, ownBottom, ownBuffer, thief, pushed, stolen>>
  BY DEF PopLast
<1>2. /\ owner \in Owners /\ top \in Nat /\ owner.b \in Int /\ owner.t \in Nat /\ ownBottom = owner.b
      /\ owner.b <= top /\ top <= Limit
      /\ owner' \in Owners /\ owner'.at = "restore" /\ owner'.b = owner.b
  BY <1>1 DEF Typed, Owners, Bounded
<1>3. Limit = owner.b + 1 /\ Limit' = owner.b + 1
  BY <1>1, <1>2 DEF Limit
<1>4. \/ top = owner.b /\ top' = top + 1
      \/ top = owner.b + 1 /\ top' = top /\ popped' = popped
  <2>1. top = owner.b \/ top = owner.b + 1
    BY <1>2, <1>3
  <2> QED
    BY <1>1, <1>2, <2>1 DEF PopLast
<1>5. top' = owner.b + 1 /\ top' \in Nat
  BY <1>2, <1>4
<1>6. Live' = {}
  BY <1>2, <1>3, <1>5 DEF Live
<1>7. Accounted(item)' /\ popped' \in Seq(Nat)
  <2>1. CASE top = owner.b
    <3>1. owner.b \in Live /\ Live' = Live \ {owner.b}
      BY <1>2, <1>3, <1>6, <2>1 DEF Live
    <3>2. popped' = Append(popped, item[owner.b])
      BY <1>1, <2>1, <3>1, OwnItem DEF PopLast
    <3> QED
      BY <1>1, <3>1, <3>2, PoppedKeeps
  <2>2. CASE top # owner.b
    <3>1. Live' = Live /\ popped' = popped
      BY <1>2, <1>3, <1>4, <1>6, <2>2 DEF Live
    <3> QED
      BY <1>1, <3>1, AccountedKeeps DEF Typed
  <2> QED
    BY <2>1, <2>2
<1>8. Typed'
  BY <1>1, <1>2, <1>5, <1>7 DEF Typed
<1>9. Bounded'
  <2>1. bottom = owner.b /\ Limit <= pushed
    BY <1>1, <1>2 DEF Newest, Bounded
  <2>2. Capacity(ownBuffer)' = Capacity(ownBuffer)
    BY <1>1 DEF Capacity
  <2>3. Limit' - top' <= Capacity(ownBuffer) /\ top' <= Limit' /\ bottom <= Limit'
    BY <1>2, <1>3, <1>5, <2>1, OwnCapacity
  <2> QED
    BY <1>1, <1>2, <1>3, <1>5, <2>1, <2>2, <2>3 DEF Bounded
<1>10. Newest' /\ Pending(item)' /\ Valid(item)'
  BY <1>1, <1>6 DEF Newest, Pending, Valid
<1>11. \A w \in Thieves : Robber(item, w)'
  <2> SUFFICES ASSUME NEW w \in Thieves PROVE Robber(item, w)'
    OBVIOUS
  <2>1. thief[w].t \in Nat /\ thief[w].t <= top /\ (thief[w].at = "slot" => thief[w].buf \in 1..buffer)
    BY DEF Typed, Robbers, Robber
  <2>2. thief[w].at \in {"buffer", "slot", "cas"} => thief[w].t # top'
    <3>1. CASE top = owner.b
      BY <1>2, <1>5, <2>1, <3>1
    <3>2. CASE top = owner.b + 1
      BY <1>2, <1>3, <1>5, <2>1, <3>2 DEF Robber
    <3> QED
      BY <1>4, <3>1, <3>2
  <2> QED
    BY <1>1, <1>2, <1>4, <2>1, <2>2, SMTT(30) DEF Robber
<1> QED
  BY <1>7, <1>8, <1>9, <1>10, <1>11

-----------------------------------------------------------------------------
(* The steps of pop that store to bottom_. *)

(* A store to bottom_ joins the store buffer. *)
LEMMA BottomStored ==
    ASSUME NEW item \in [Nat -> Nat], Deque(item), NEW b \in Int,
           stores' = Append(stores, StoreBottom(b)), Limit' = Limit, b <= Limit,
           UNCHANGED <<top, bottom, buffer, buffers, ownBuffer>>, ownBottom' = b
    PROVE  /\ stores' \in Seq(Stores)
           /\ \A n \in DOMAIN stores' : stores'[n].var = "bottom" => stores'[n].v <= Limit'
           /\ Newest' /\ Pending(item)' /\ Valid(item)'
           /\ \A n \in DOMAIN stores' :
                 stores'[n].var = "slot" => OfSlot(n) /\ Index(n)' = Index(n)
<1> USE DEF Deque
<1> DEFINE N == Len(stores) + 1
<1>1. /\ StoreBottom(b) \in Stores /\ StoreBottom(b).var = "bottom" /\ StoreBottom(b).v = b
  BY DEF StoreBottom, Stores
<1>2. stores \in Seq(Stores) /\ Len(stores) \in Nat /\ DOMAIN stores = 1..Len(stores)
  BY IndexType DEF Typed
<1>3. /\ stores' \in Seq(Stores) /\ Len(stores') = N /\ stores' # <<>>
      /\ \A n \in 1..Len(stores) : stores'[n] = stores[n]
      /\ stores'[N] = StoreBottom(b)
  <2> DEFINE x == StoreBottom(b)
  <2>1. x \in Stores /\ stores' = Append(stores, x)
    BY <1>1
  <2> HIDE DEF x
  <2>2. stores' \in Seq(Stores) /\ Len(stores') = Len(stores) + 1
    BY <1>2, <2>1, AppendProperties
  <2>3. (\A n \in 1..Len(stores) : stores'[n] = stores[n]) /\ stores'[N] = x
    BY <1>2, <2>1, AppendProperties
  <2>4. stores' # <<>>
    BY <2>1, <1>2, AppendProperties, SMTT(30)
  <2> QED
    BY <2>2, <2>3, <2>4 DEF x
<1>4. DOMAIN stores' = 1..N
  BY <1>3, LenProperties
<1>5. /\ \A n \in DOMAIN stores' : n = N \/ n \in DOMAIN stores
      /\ \A n \in DOMAIN stores : n \in DOMAIN stores' /\ stores'[n] = stores[n] /\ n \in Nat
  <2>1. ASSUME NEW l \in Nat
        PROVE  /\ \A n \in 1..(l + 1) : n = l + 1 \/ n \in 1..l
               /\ \A n \in 1..l : n \in 1..(l + 1) /\ n \in Nat
    OBVIOUS
  <2>2. /\ \A n \in 1..N : n = N \/ n \in 1..Len(stores)
        /\ \A n \in 1..Len(stores) : n \in 1..N /\ n \in Nat
    BY <1>2, <2>1
  <2> QED
    BY <1>2, <1>3, <1>4, <2>1, <2>2
<1>6. \A n \in DOMAIN stores' : stores'[n].var = "bottom" => stores'[n].v <= Limit'
  BY <1>1, <1>3, <1>5 DEF Bounded
<1>7. Newest'
  BY <1>1, <1>3, <1>5 DEF Newest
<1>8. ASSUME NEW n \in DOMAIN stores', stores'[n].var = "slot"
      PROVE  /\ n \in DOMAIN stores /\ stores[n].var = "slot" /\ SlotStore(item, n)
             /\ n + 1 \in DOMAIN stores /\ Index(n)' = Index(n) /\ OfSlot(n)
  <2>1. n \in DOMAIN stores /\ stores[n].var = "slot"
    BY <1>1, <1>3, <1>5, <1>8
  <2>2. SlotStore(item, n) /\ n + 1 \in DOMAIN stores
    BY <2>1 DEF Pending, SlotStore
  <2>3. stores'[n + 1] = stores[n + 1]
    BY <2>2, <1>5
  <2> QED
    BY <2>1, <2>2, <2>3 DEF Index, OfSlot
<1>9. \A m \in DOMAIN stores : stores[m].var = "slot" => OfSlot(m)' /\ Index(m)' = Index(m)
  <2> SUFFICES ASSUME NEW m \in DOMAIN stores, stores[m].var = "slot"
               PROVE  OfSlot(m)' /\ Index(m)' = Index(m)
    OBVIOUS
  <2>1. m \in DOMAIN stores' /\ stores'[m].var = "slot"
    BY <1>5
  <2> QED
    BY <2>1, <1>8 DEF OfSlot
<1>10. \A k \in 1..ownBuffer : Capacity(k)' = Capacity(k)
  BY DEF Capacity
<1>11. Live' = Live
  BY DEF Live
<1>12. Pending(item)'
  <2>1. ASSUME NEW n \in DOMAIN stores', stores'[n].var = "slot" PROVE SlotStore(item, n)'
    <3>1. /\ n \in DOMAIN stores /\ stores[n].var = "slot" /\ SlotStore(item, n) /\ stores'[n] = stores[n]
          /\ n + 1 \in DOMAIN stores /\ Index(n)' = Index(n) /\ stores'[n + 1] = stores[n + 1]
          /\ n \in Nat
      BY <1>5, <1>8, <2>1
    <3>2. stores[n].k \in 1..ownBuffer /\ Capacity(stores[n].k)' = Capacity(stores[n].k)
      BY <1>10, <3>1, SlotIndex
    <3>3. \A m \in 1..(n - 1) : stores'[m] = stores[m]
      BY <1>2, <1>5, <3>1
    <3>4. \A i \in Index(n)..(Limit - 1) : \E m \in DOMAIN stores' : OfSlot(m)' /\ Index(m)' = i
      BY <3>1, <1>5, <1>9 DEF SlotStore, OfSlot
    <3>5. n + 1 \in DOMAIN stores'
      BY <3>1, <1>5
    <3> QED
      BY <1>11, <3>1, <3>2, <3>3, <3>4, <3>5 DEF SlotStore
  <2>2. ASSUME NEW n \in DOMAIN stores', stores'[n].var = "buffer" PROVE BufferStore(n)'
    <3>1. n \in DOMAIN stores /\ n \in Nat /\ stores[n].var = "buffer" /\ stores'[n] = stores[n]
      BY <1>1, <1>3, <1>5, <2>2
    <3>2. \A m \in 1..(n - 1) : stores'[m] = stores[m]
      BY <1>2, <1>5, <3>1
    <3> QED
      BY <3>1, <3>2 DEF Pending, BufferStore
  <2> QED
    BY <2>1, <2>2 DEF Pending
<1>13. Valid(item)'
  <2> SUFFICES ASSUME NEW k \in buffer..ownBuffer, NEW i \in Live
               PROVE  \/ \E n \in DOMAIN stores' : OfSlot(n)' /\ Index(n)' = i /\ stores'[n].k >= k
                      \/ buffers'[k][Slot(i, k)'] = item[i]
    BY <1>11 DEF Valid
  <2>1. Slot(i, k)' = Slot(i, k)
    BY DEF Slot, Capacity
  <2>2. CASE \E n \in DOMAIN stores : OfSlot(n) /\ Index(n) = i /\ stores[n].k >= k
    BY <2>2, <1>5, <1>9 DEF OfSlot
  <2>3. CASE buffers[k][Slot(i, k)] = item[i]
    BY <2>1, <2>3
  <2> QED
    BY <2>2, <2>3 DEF Valid
<1> QED
  BY <1>3, <1>6, <1>7, <1>8, <1>12, <1>13

(* The bottom item is reserved. *)
LEMMA PopReserveStep ==
    ASSUME NEW item \in [Nat -> Nat], Deque(item), PopReserve
    PROVE  Deque(item)'
<1> USE DEF Deque
<1> DEFINE b == ownBottom - 1
<1>1. /\ owner.at = "idle" /\ owner' = [at |-> "fence", b |-> b, t |-> 0] /\ ownBottom' = b
      /\ stores' = Append(stores, StoreBottom(b))
      /\ UNCHANGED <<top, bottom, buffer, buffers, ownBuffer, thief, pushed, popped, stolen>>
  BY DEF PopReserve
<1>2. b \in Int /\ ownBottom \in Int
  BY DEF Typed
<1>3. /\ owner' \in Owners /\ owner'.at = "fence" /\ owner'.b = b
      /\ Limit = ownBottom /\ Limit' = b + 1
  BY <1>1, <1>2 DEF Owners, Limit
<1>4. Limit' = Limit /\ b <= Limit /\ Live' = Live
  BY <1>1, <1>2, <1>3 DEF Live
<1> HIDE DEF b
<1>5. /\ stores' \in Seq(Stores)
      /\ \A n \in DOMAIN stores' : stores'[n].var = "bottom" => stores'[n].v <= Limit'
  BY <1>1, <1>2, <1>4, BottomStored
<1>6. Newest' /\ Pending(item)' /\ Valid(item)'
  BY <1>1, <1>2, <1>4, BottomStored
<1>7. \A n \in DOMAIN stores' : stores'[n].var = "slot" => OfSlot(n) /\ Index(n)' = Index(n)
  BY <1>1, <1>2, <1>4, BottomStored
<1>8. Typed'
  BY <1>1, <1>2, <1>3, <1>5 DEF Typed
<1>9. Bounded'
  BY <1>1, <1>3, <1>4, <1>5 DEF Bounded, Capacity
<1>10. \A w \in Thieves : Robber(item, w)'
  BY <1>1, <1>3, <1>4, <1>7 DEF Robber, Slot, Capacity, OfSlot
<1>11. Accounted(item)'
  BY <1>1, <1>4, AccountedKeeps
<1> QED
  BY <1>6, <1>8, <1>9, <1>10, <1>11

(* bottom_ is put back. *)
LEMMA PopRestoreStep ==
    ASSUME NEW item \in [Nat -> Nat], Deque(item), PopRestore
    PROVE  Deque(item)'
<1> USE DEF Deque
<1> DEFINE b == owner.b + 1
<1>1. /\ owner.at = "restore" /\ owner' = Idle /\ ownBottom' = b
      /\ stores' = Append(stores, StoreBottom(b))
      /\ UNCHANGED <<top, bottom, buffer, buffers, ownBuffer, thief, pushed, popped, stolen>>
  BY DEF PopRestore
<1>2. b \in Int
  BY DEF Typed, Owners
<1>3. owner' \in Owners /\ owner'.at = "idle" /\ Limit = b /\ Limit' = b
  BY <1>1, <1>2 DEF Owners, Idle, Limit
<1>4. Limit' = Limit /\ b <= Limit /\ Live' = Live
  BY <1>1, <1>2, <1>3 DEF Live
<1> HIDE DEF b
<1>5. /\ stores' \in Seq(Stores)
      /\ \A n \in DOMAIN stores' : stores'[n].var = "bottom" => stores'[n].v <= Limit'
  BY <1>1, <1>2, <1>4, BottomStored
<1>6. Newest' /\ Pending(item)' /\ Valid(item)'
  BY <1>1, <1>2, <1>4, BottomStored
<1>7. \A n \in DOMAIN stores' : stores'[n].var = "slot" => OfSlot(n) /\ Index(n)' = Index(n)
  BY <1>1, <1>2, <1>4, BottomStored
<1>8. Typed'
  BY <1>1, <1>2, <1>3, <1>5 DEF Typed
<1>9. Bounded'
  BY <1>1, <1>3, <1>4, <1>5 DEF Bounded, Capacity
<1>10. \A w \in Thieves : Robber(item, w)'
  BY <1>1, <1>3, <1>4, <1>7 DEF Robber, Slot, Capacity, OfSlot
<1>11. Accounted(item)'
  BY <1>1, <1>4, AccountedKeeps
<1> QED
  BY <1>6, <1>8, <1>9, <1>10, <1>11

-----------------------------------------------------------------------------
(* The steps of a thief. *)

(* A thief reads the shared memory and changes nothing. *)
LEMMA ThiefReads ==
    ASSUME NEW item \in [Nat -> Nat], Deque(item), NEW w \in Thieves,
           NEW r \in Robbers, thief' = [thief EXCEPT ![w] = r],
           UNCHANGED <<top, bottom, buffer, buffers, own, pushed, popped, stolen>>,
           r.t <= top, r.at = "slot" => r.buf \in 1..buffer,
           r.at \in {"buffer", "slot", "cas"} /\ r.t = top =>
              /\ top < Limit
              /\ \A n \in DOMAIN stores : stores[n].var = "slot" => top < Index(n)
              /\ owner.at = "take" => top <= owner.t \/ top < owner.b
              /\ r.at = "slot" => buffers[r.buf][Slot(top, r.buf)] = item[top]
              /\ r.at = "cas" => r.value = item[top]
    PROVE  Deque(item)'
<1> USE DEF Deque, own
<1>1. Limit' = Limit /\ Live' = Live
  BY DEF Limit, Live
<1>2. /\ thief' \in [Thieves -> Robbers] /\ thief'[w] = r
      /\ \A v \in Thieves : v # w => thief'[v] = thief[v]
  BY DEF Typed
<1>3. Typed'
  BY <1>2 DEF Typed
<1>4. Bounded' /\ Newest'
  BY <1>1 DEF Bounded, Newest, Capacity
<1>5. Pending(item)'
  BY <1>1 DEF Pending, SlotStore, BufferStore, OfSlot, Index, Capacity
<1>6. Valid(item)' /\ Accounted(item)'
  BY <1>1, ValidKeeps, AccountedKeeps
<1>7. \A v \in Thieves : Robber(item, v)'
  <2>1. Robber(item, w)'
    BY <1>1, <1>2 DEF Robber, Slot, Capacity, Index
  <2>2. ASSUME NEW v \in Thieves, v # w PROVE Robber(item, v)'
    BY <1>1, <1>2, <2>2 DEF Robber, Slot, Capacity, Index
  <2> QED
    BY <2>1, <2>2
<1> QED
  BY <1>3, <1>4, <1>5, <1>6, <1>7

(* top_ is read. *)
LEMMA StealTopStep ==
    ASSUME NEW item \in [Nat -> Nat], Deque(item), NEW w \in Thieves, StealTop(w)
    PROVE  Deque(item)'
<1> DEFINE r == [NoSteal EXCEPT !.at = "bottom", !.t = top]
<1>1. thief' = [thief EXCEPT ![w] = r] /\ UNCHANGED <<top, bottom, buffer, buffers, own, pushed, popped, stolen>>
  BY DEF StealTop
<1>2. r \in Robbers /\ r.at = "bottom" /\ r.t = top /\ top \in Nat
  BY DEF Deque, Typed, Robbers, NoSteal
<1> HIDE DEF r
<1>3. r.t <= top
  BY <1>2
<1> QED
  BY <1>1, <1>2, <1>3, ThiefReads

(* bottom_ is read: a thief goes on if there is an item at the top that    *)
(* has reached memory.                                                     *)
LEMMA StealBottomStep ==
    ASSUME NEW item \in [Nat -> Nat], Deque(item), NEW w \in Thieves, StealBottom(w)
    PROVE  Deque(item)'
<1> USE DEF Deque
<1>1. /\ thief[w].at = "bottom" /\ UNCHANGED <<top, bottom, buffer, buffers, own, pushed, popped, stolen>>
      /\ thief' = [thief EXCEPT ![w] = IF thief[w].t < bottom THEN [thief[w] EXCEPT !.at = "buffer"]
                                       ELSE NoSteal]
  BY DEF StealBottom
<1>2. thief[w] \in Robbers /\ thief[w].t <= top /\ thief[w].t \in Nat
  BY DEF Typed, Robber, Robbers
<1>3. top \in Nat /\ bottom \in Int /\ Limit \in Int /\ bottom <= Limit
  BY IndexType DEF Bounded
<1>4. CASE thief[w].t < bottom
  <2> DEFINE r == [thief[w] EXCEPT !.at = "buffer"]
  <2>1. r \in Robbers /\ r.at = "buffer" /\ r.t = thief[w].t /\ thief' = [thief EXCEPT ![w] = r]
    BY <1>1, <1>2, <1>4 DEF Robbers
  <2> HIDE DEF r
  <2>2. r.t = top => top < bottom /\ top < Limit
    BY <1>2, <1>3, <1>4, <2>1
  <2>3. ASSUME r.t = top, NEW n \in DOMAIN stores, stores[n].var = "slot" PROVE top < Index(n)
    <3>1. bottom <= Index(n) /\ Index(n) \in Nat
      BY <2>3, SlotIndex DEF SlotStore
    <3> QED
      BY <1>3, <2>2, <2>3, <3>1
  <2>4. r.t = top /\ owner.at = "take" => top < owner.b
    <3>1. owner.at = "take" => bottom = owner.b
      BY DEF Bounded, Newest
    <3> QED
      BY <2>2, <3>1
  <2>5. r.t <= top
    BY <1>2, <2>1
  <2> QED
    BY <1>1, <2>1, <2>2, <2>3, <2>4, <2>5, ThiefReads
<1>5. CASE ~(thief[w].t < bottom)
  <2>1. NoSteal \in Robbers /\ NoSteal.at = "idle" /\ NoSteal.t = 0
    BY DEF NoSteal, Robbers
  <2>2. thief' = [thief EXCEPT ![w] = NoSteal] /\ NoSteal.t <= top
    BY <1>1, <1>3, <1>5, <2>1
  <2> QED
    BY <1>1, <2>1, <2>2, ThiefReads
<1> QED
  BY <1>4, <1>5

(* buffer_ is read. *)
LEMMA StealBufferStep ==
    ASSUME NEW item \in [Nat -> Nat], Deque(item), NEW w \in Thieves, StealBuffer(w)
    PROVE  Deque(item)'
<1> USE DEF Deque
<1> DEFINE r == [thief[w] EXCEPT !.at = "slot", !.buf = buffer]
<1>1. /\ thief[w].at = "buffer" /\ UNCHANGED <<top, bottom, buffer, buffers, own, pushed, popped, stolen>>
      /\ thief' = [thief EXCEPT ![w] = r]
  BY DEF StealBuffer, Typed
<1>2. buffer \in Nat /\ buffer >= 1 /\ buffer <= ownBuffer /\ ownBuffer \in Nat /\ Limit \in Int /\ top \in Nat
  BY IndexType
<1>3. r \in Robbers /\ r.at = "slot" /\ r.buf = buffer /\ r.t = thief[w].t /\ r.t <= top
  BY <1>2 DEF Typed, Robbers, Robber
<1>4. r.t = top => /\ top < Limit
                   /\ \A n \in DOMAIN stores : stores[n].var = "slot" => top < Index(n)
                   /\ owner.at = "take" => top <= owner.t \/ top < owner.b
  BY <1>1, <1>3 DEF Robber
<1> HIDE DEF r
<1>5. ASSUME r.t = top PROVE buffers[buffer][Slot(top, buffer)] = item[top]
  <2>1. top \in Live /\ buffer \in buffer..ownBuffer
    BY <1>2, <1>4, <1>5 DEF Live
  <2>2. ASSUME NEW n \in DOMAIN stores, OfSlot(n), Index(n) = top PROVE FALSE
    BY <1>2, <1>4, <1>5, <2>2 DEF OfSlot
  <2> QED
    BY <2>1, <2>2 DEF Valid
<1>6. buffer \in 1..buffer
  BY <1>2
<1> QED
  BY <1>1, <1>3, <1>4, <1>5, <1>6, ThiefReads

(* The slot is read. *)
LEMMA StealSlotStep ==
    ASSUME NEW item \in [Nat -> Nat], Deque(item), NEW w \in Thieves, StealSlot(w)
    PROVE  Deque(item)'
<1> USE DEF Deque
<1> DEFINE k == thief[w].buf
           x == buffers[k][Slot(thief[w].t, k)]
           r == [thief[w] EXCEPT !.at = "cas", !.value = x]
<1>1. /\ thief[w].at = "slot" /\ UNCHANGED <<top, bottom, buffer, buffers, own, pushed, popped, stolen>>
      /\ thief' = [thief EXCEPT ![w] = r]
  BY DEF StealSlot, Typed
<1>2. thief[w] \in Robbers /\ thief[w].t \in Nat /\ thief[w].t <= top
  BY DEF Typed, Robbers, Robber
<1>3. x \in Nat
  <2>1. k \in 1..buffer /\ buffer \in Nat /\ ownBuffer \in Nat /\ buffer <= ownBuffer
    BY <1>1, IndexType DEF Robber
  <2>2. k \in 1..ownBuffer
    BY <2>1
  <2>3. thief[w].t \in Int
    BY <1>2
  <2> HIDE DEF k
  <2>4. buffers[k] \in [0..(Capacity(k) - 1) -> Nat] /\ Slot(thief[w].t, k) \in 0..(Capacity(k) - 1)
    BY <2>2, <2>3, BufferSlots
  <2> QED
    BY <2>4
<1>4. thief[w].t = top => x = item[top]
  BY <1>1 DEF Robber
<1>5. thief[w].t = top => /\ top < Limit
                          /\ \A n \in DOMAIN stores : stores[n].var = "slot" => top < Index(n)
                          /\ owner.at = "take" => top <= owner.t \/ top < owner.b
  BY <1>1 DEF Robber
<1> HIDE DEF x
<1>6. r \in Robbers /\ r.at = "cas" /\ r.value = x /\ r.t = thief[w].t
  BY <1>2, <1>3 DEF Robbers
<1> HIDE DEF r
<1> QED
  BY <1>1, <1>2, <1>4, <1>5, <1>6, ThiefReads

(* The compare-exchange of a thief. *)
LEMMA StealCasStep ==
    ASSUME NEW item \in [Nat -> Nat], Deque(item), NEW w \in Thieves, StealCas(w)
    PROVE  Deque(item)'
<1> USE DEF Deque
<1>1. /\ thief[w].at = "cas" /\ thief' = [thief EXCEPT ![w] = NoSteal]
      /\ UNCHANGED <<bottom, buffer, buffers, own, pushed, popped>>
  BY DEF StealCas
<1>2. NoSteal \in Robbers /\ NoSteal.at = "idle" /\ NoSteal.t = 0
  BY DEF NoSteal, Robbers
<1>3. top \in Nat /\ Limit \in Int /\ bottom \in Int
  BY IndexType
<1>4. CASE top # thief[w].t
  <2>1. UNCHANGED <<top, stolen>> /\ NoSteal.t <= top
    BY <1>2, <1>3, <1>4, SMTT(30) DEF StealCas
  <2> QED
    BY <1>1, <1>2, <2>1, ThiefReads
<1>5. CASE top = thief[w].t
  <2>1. /\ top' = top + 1 /\ stolen' = Append(stolen, thief[w].value)
        /\ UNCHANGED <<stores, ownBottom, ownBuffer, owner>>
    BY <1>1, <1>5 DEF StealCas, own
  <2>2. /\ top < Limit
        /\ \A n \in DOMAIN stores : stores[n].var = "slot" => top < Index(n)
        /\ owner.at = "take" => top <= owner.t \/ top < owner.b
        /\ thief[w].value = item[top]
    BY <1>1, <1>5 DEF Robber
  <2>3. Limit' = Limit /\ top \in Live /\ Live' = Live \ {top}
    <3>1. Limit' = Limit
      BY <2>1 DEF Limit
    <3>2. Live = top..(Limit - 1) /\ Live' = (top + 1)..(Limit - 1)
      BY <2>1, <3>1 DEF Live
    <3>3. top < Limit
      BY <2>2
    <3>4. top \in top..(Limit - 1) /\ (top + 1)..(Limit - 1) = (top..(Limit - 1)) \ {top}
      BY <1>3, <3>3
    <3> QED
      BY <3>1, <3>2, <3>4
  <2>4. Accounted(item)' /\ stolen' \in Seq(Nat)
    <3>1. stolen' = Append(stolen, item[top])
      BY <2>1, <2>2
    <3> QED
      BY <1>1, <2>3, <3>1, StolenKeeps
  <2>5. /\ thief' \in [Thieves -> Robbers] /\ thief'[w] = NoSteal
        /\ \A v \in Thieves : v # w => thief'[v] = thief[v]
    BY <1>1, <1>2 DEF Typed
  <2>6. Typed'
    BY <1>1, <1>3, <2>1, <2>4, <2>5 DEF Typed
  <2>7. Bounded'
    <3>1. /\ top' <= Limit' /\ Limit' - top' <= Capacity(ownBuffer) /\ Capacity(ownBuffer)' = Capacity(ownBuffer)
      <4>1. Limit - top <= Capacity(ownBuffer)
        BY DEF Bounded
      <4>2. Capacity(ownBuffer)' = Capacity(ownBuffer)
        BY <1>1, <2>1 DEF Capacity
      <4>3. top < Limit /\ top' = top + 1 /\ Limit' = Limit /\ Capacity(ownBuffer) \in Nat
        BY <2>1, <2>2, <2>3, OwnCapacity
      <4>4. top + 1 <= Limit /\ Limit - (top + 1) <= Capacity(ownBuffer)
        BY <1>3, <4>1, <4>3
      <4> QED
        BY <4>2, <4>3, <4>4
    <3>2. owner.at = "take" => /\ owner.t <= top' /\ owner.t <= owner.b
                               /\ owner.t < owner.b => top' <= owner.b
      <4> DEFINE t == owner.t
                 b == owner.b
      <4>1. t \in Nat /\ b \in Int
        BY DEF Typed, Owners
      <4>2. owner.at = "take" => t <= top /\ t <= b /\ (top <= t \/ top < b)
        BY <2>2 DEF Bounded
      <4> HIDE DEF t, b
      <4>3. owner.at = "take" => t <= top' /\ t <= b /\ (t < b => top' <= b)
        BY <1>3, <2>1, <4>1, <4>2
      <4> QED
        BY <4>3 DEF t, b
    <3>3. owner.at # "restore"
      <4>1. owner.at = "restore" => Limit = owner.b + 1 /\ top = owner.b + 1
        BY DEF Bounded, Limit
      <4> QED
        BY <1>3, <2>2, <4>1
    <3> QED
      BY <1>1, <2>1, <2>3, <3>1, <3>2, <3>3 DEF Bounded
  <2>8. Newest'
    BY <1>1, <2>1 DEF Newest
  <2>9. Pending(item)'
    <3>1. ASSUME NEW n \in DOMAIN stores, stores[n].var = "slot" PROVE SlotStore(item, n)'
      <4>1. SlotStore(item, n) /\ Index(n) \in Live /\ Index(n) \in Nat /\ Capacity(stores[n].k) \in Nat
        BY <3>1, SlotIndex
      <4>2. Index(n) # top /\ Index(n) - top' < Capacity(stores[n].k)
        <5>1. top < Index(n) /\ Index(n) - top < Capacity(stores[n].k)
          BY <2>2, <3>1, <4>1 DEF SlotStore
        <5>2. Index(n) \in Nat /\ Capacity(stores[n].k) \in Nat
          BY <4>1
        <5>3. Index(n) # top /\ Index(n) - (top + 1) < Capacity(stores[n].k)
          BY <1>3, <5>1, <5>2
        <5> QED
          BY <2>1, <5>3
      <4>3. Index(n)' = Index(n) /\ Capacity(stores[n].k)' = Capacity(stores[n].k) /\ Index(n) \in Live'
        BY <1>1, <2>1, <2>3, <4>1, <4>2 DEF Index, Capacity
      <4>4. \A m : OfSlot(m)' = OfSlot(m) /\ Index(m)' = Index(m)
        BY <2>1 DEF OfSlot, Index
      <4> QED
        BY <1>1, <2>1, <2>3, <4>1, <4>2, <4>3, <4>4 DEF SlotStore
    <3>2. ASSUME NEW n \in DOMAIN stores, stores[n].var = "buffer" PROVE BufferStore(n)'
      BY <1>1, <2>1, <3>2 DEF Pending, BufferStore
    <3> QED
      BY <2>1, <3>1, <3>2 DEF Pending
  <2>10. Valid(item)'
    BY <1>1, <2>1, <2>3, ValidKeeps
  <2>11. \A v \in Thieves : Robber(item, v)'
    <3> SUFFICES ASSUME NEW v \in Thieves PROVE Robber(item, v)'
      OBVIOUS
    <3>1. thief'[v].t \in Nat /\ thief'[v].t <= top
      <4>1. CASE v = w
        BY <1>2, <1>3, <2>5, <4>1
      <4>2. CASE v # w
        BY <2>5, <4>2 DEF Robber, Typed, Robbers
      <4> QED
        BY <4>1, <4>2
    <3>2. thief'[v].t <= top' /\ thief'[v].t # top'
      <4>1. \A i \in Nat : i <= top => i <= top + 1 /\ i # top + 1
        BY <1>3
      <4> QED
        BY <2>1, <3>1, <4>1
    <3>3. thief'[v].at = "slot" => thief'[v].buf \in 1..buffer'
      BY <1>1, <1>2, <2>5 DEF Robber
    <3> QED
      BY <3>2, <3>3 DEF Robber
  <2> QED
    BY <2>4, <2>6, <2>7, <2>8, <2>9, <2>10, <2>11
<1> QED
  BY <1>4, <1>5

-----------------------------------------------------------------------------
(* A store reaches memory. *)

(* The other stores move up in the store buffer. *)
LEMMA Shifted ==
    ASSUME NEW item, Typed, Pending(item), stores # <<>>, stores' = Tail(stores)
    PROVE  /\ 1 \in DOMAIN stores /\ Head(stores) = stores[1]
           /\ stores' \in Seq(Stores) /\ Len(stores') = Len(stores) - 1 /\ DOMAIN stores' = 1..Len(stores')
           /\ \A n \in DOMAIN stores' : n \in Nat /\ n + 1 \in DOMAIN stores /\ stores'[n] = stores[n + 1]
           /\ \A n \in DOMAIN stores : n # 1 => n - 1 \in DOMAIN stores' /\ stores'[n - 1] = stores[n]
           /\ \A n \in DOMAIN stores' : stores'[n].var = "slot" =>
                 OfSlot(n + 1) /\ Index(n)' = Index(n + 1) /\ n + 1 \in DOMAIN stores'
           /\ \A n \in DOMAIN stores : stores[n].var = "slot" /\ n # 1 =>
                 OfSlot(n - 1)' /\ Index(n - 1)' = Index(n)
<1> DEFINE L == Len(stores)
<1>1. L \in Nat /\ DOMAIN stores = 1..L /\ stores \in Seq(Stores)
  BY IndexType DEF Typed
<1>2. L # 0
  BY <1>1, EmptySeq
<1>3. stores' \in Seq(Stores) /\ Len(stores') = L - 1
  BY <1>1, HeadTailProperties
<1>4. \A n \in 1..(L - 1) : stores'[n] = stores[n + 1]
  <2>1. \A n \in 1..Len(stores') : stores'[n] = stores[n + 1]
    BY <1>1, HeadTailProperties
  <2> QED
    BY <1>3, <2>1
<1>5. DOMAIN stores' = 1..(L - 1) /\ DOMAIN stores' = 1..Len(stores')
  BY <1>3, LenProperties
<1>6. Head(stores) = stores[1]
  BY <1>1
<1> HIDE DEF L
<1>7. 1 \in DOMAIN stores
  BY <1>1, <1>2
<1>8. \A n \in DOMAIN stores' : n \in Nat /\ n + 1 \in DOMAIN stores /\ stores'[n] = stores[n + 1]
  BY <1>1, <1>4, <1>5
<1>9. ASSUME NEW n \in DOMAIN stores, n # 1 PROVE n - 1 \in DOMAIN stores' /\ stores'[n - 1] = stores[n]
  <2>1. n \in Nat /\ n - 1 \in 1..(L - 1) /\ (n - 1) + 1 = n
    BY <1>1, <1>9
  <2> QED
    BY <2>1, <1>4, <1>5
<1>10. ASSUME NEW n \in DOMAIN stores', stores'[n].var = "slot"
       PROVE  OfSlot(n + 1) /\ Index(n)' = Index(n + 1) /\ n + 1 \in DOMAIN stores'
  <2>1. n \in Nat /\ n + 1 \in DOMAIN stores /\ stores[n + 1].var = "slot"
    BY <1>8, <1>10
  <2>2. (n + 1) + 1 \in DOMAIN stores
    BY <2>1, SlotIndex DEF SlotStore
  <2>3. n + 1 \in DOMAIN stores'
    BY <1>1, <1>5, <2>1, <2>2
  <2>4. stores'[n + 1] = stores[(n + 1) + 1]
    BY <1>8, <2>3
  <2> QED
    BY <2>1, <2>3, <2>4 DEF OfSlot, Index
<1>11. ASSUME NEW n \in DOMAIN stores, stores[n].var = "slot", n # 1
       PROVE  OfSlot(n - 1)' /\ Index(n - 1)' = Index(n)
  <2>1. n - 1 \in DOMAIN stores' /\ stores'[n - 1] = stores[n] /\ n \in Nat
    BY <1>1, <1>9, <1>11
  <2>2. (n - 1) + 1 = n
    BY <2>1
  <2>3. Index(n - 1)' = Index((n - 1) + 1)
    BY <1>10, <1>11, <2>1
  <2> QED
    BY <1>11, <2>1, <2>2, <2>3 DEF OfSlot
<1> QED
  BY <1>3, <1>5, <1>6, <1>7, <1>8, <1>9, <1>10, <1>11 DEF L

(* The oldest store, and what it does to memory. *)
LEMMA Oldest ==
    ASSUME NEW item \in [Nat -> Nat], Deque(item), Drain
    PROVE  LET s == stores[1]
           IN  /\ \/ s.var = "slot" /\ s.k = buffer /\ UNCHANGED <<bottom, buffer>>
                  \/ s.var = "bottom" /\ bottom' = s.v /\ UNCHANGED <<buffers, buffer>>
                  \/ /\ s.var = "buffer" /\ buffer' = s.v /\ s.v \in (buffer + 1)..ownBuffer
                     /\ UNCHANGED <<buffers, bottom>>
               /\ buffers' \in Seq(Rows) /\ Len(buffers') = ownBuffer
               /\ \A k \in 1..ownBuffer : Capacity(k)' = Capacity(k)
               /\ \A k \in 1..ownBuffer, i \in Int :
                     \/ buffers'[k][Slot(i, k)] = buffers[k][Slot(i, k)]
                     \/ /\ s.var = "slot" /\ k = buffer /\ Slot(i, k) = Slot(Index(1), k)
                        /\ buffers'[k][Slot(i, k)] = item[Index(1)]
               /\ s.var = "slot" =>
                     buffers'[buffer][Slot(Index(1), buffer)] = item[Index(1)]
<1> USE DEF Deque
<1> DEFINE s == stores[1]
<1>1. stores # <<>> /\ stores' = Tail(stores)
  BY DEF Drain
<1>2. 1 \in DOMAIN stores /\ Head(stores) = s
  BY <1>1, Shifted
<1>3. buffers \in Seq(Rows) /\ ownBuffer = Len(buffers) /\ buffer \in 1..ownBuffer
  BY DEF Typed
<1>4. CASE s.var = "slot"
  <2> DEFINE j == Index(1)
             c == Capacity(buffer)
             x == j % c
             r == [buffers[buffer] EXCEPT ![x] = item[j]]
  <2>1. SlotStore(item, 1) /\ j \in Nat
    BY <1>2, <1>4, SlotIndex
  <2>2. s.k = buffer
    BY <2>1 DEF SlotStore
  <2>3. s.i = x /\ s.v = item[j]
    BY <2>1, <2>2 DEF SlotStore
  <2>4. /\ c \in Nat \ {0} /\ buffers[buffer] \in [0..(c - 1) -> Nat] /\ x \in 0..(c - 1)
        /\ Slot(j, buffer) = x
    <3>1. j \in Int
      BY <2>1
    <3> HIDE DEF j
    <3> QED
      BY <1>3, <3>1, BufferSlots
  <2>5. buffers' = [buffers EXCEPT ![buffer] = r] /\ UNCHANGED <<bottom, buffer>>
    BY <1>2, <1>4, <2>2, <2>3 DEF Drain
  <2>6. item[j] \in Nat
    BY <2>1
  <2> HIDE DEF c, j, x
  <2>7. r \in [0..(c - 1) -> Nat] /\ r[x] = item[j] /\ \A y \in 0..(c - 1) : y # x => r[y] = buffers[buffer][y]
    BY <2>4, <2>6
  <2> HIDE DEF r
  <2>8. r \in Rows /\ Cardinality(DOMAIN r) = c
    BY <2>4, <2>7, RowOf
  <2>9. buffers' \in Seq(Rows) /\ Len(buffers') = ownBuffer
    <3>1. buffer \in 1..Len(buffers)
      BY <1>3
    <3> QED
      BY <1>3, <2>5, <2>8, <3>1, ExceptSeq
  <2>10. \A k \in 1..ownBuffer : buffers'[k] = IF k = buffer THEN r ELSE buffers[k]
    <3>1. DOMAIN buffers = 1..ownBuffer
      BY <1>3, LenProperties
    <3> QED
      BY <2>5, <3>1
  <2>11. \A k \in 1..ownBuffer : Capacity(k)' = Capacity(k)
    BY <2>8, <2>10 DEF Capacity, c
  <2>12. ASSUME NEW k \in 1..ownBuffer, NEW i \in Int
         PROVE  \/ buffers'[k][Slot(i, k)] = buffers[k][Slot(i, k)]
                \/ k = buffer /\ Slot(i, k) = Slot(j, k) /\ buffers'[k][Slot(i, k)] = item[j]
    <3>1. CASE k # buffer
      BY <2>10, <3>1
    <3>2. CASE k = buffer
      <4>1. Slot(i, k) \in 0..(c - 1)
        BY <1>3, <3>2, BufferSlots DEF c
      <4>2. buffers'[k] = r /\ Slot(j, k) = x
        BY <2>4, <2>10, <3>2
      <4> QED
        BY <2>7, <3>2, <4>1, <4>2
    <3> QED
      BY <3>1, <3>2
  <2>13. buffers'[buffer][x] = item[j]
    BY <1>3, <2>7, <2>10
  <2>14. buffers'[buffer][Slot(j, buffer)] = item[j]
    BY <2>4, <2>13
  <2> QED
    BY <1>4, <2>2, <2>5, <2>9, <2>11, <2>12, <2>14 DEF j
<1>5. CASE s.var = "bottom"
  <2>1. bottom' = s.v /\ UNCHANGED <<buffers, buffer>>
    BY <1>2, <1>5 DEF Drain
  <2> QED
    BY <1>3, <1>5, <2>1 DEF Capacity
<1>6. CASE s.var = "buffer"
  <2>1. buffer' = s.v /\ UNCHANGED <<buffers, bottom>>
    BY <1>2, <1>6 DEF Drain
  <2>2. s.v \in (buffer + 1)..ownBuffer
    BY <1>2, <1>6 DEF Pending, BufferStore
  <2> QED
    BY <1>3, <1>6, <2>1, <2>2 DEF Capacity
<1>7. s.var \in {"slot", "bottom", "buffer"}
  BY <1>2, IndexType DEF Stores
<1> QED
  BY <1>4, <1>5, <1>6, <1>7

(* The oldest store reaches memory. *)
LEMMA DrainStep ==
    ASSUME NEW item \in [Nat -> Nat], Deque(item), Drain
    PROVE  Deque(item)'
<1> USE DEF Deque
<1> DEFINE s == stores[1]
<1>1. /\ stores # <<>> /\ stores' = Tail(stores)
      /\ UNCHANGED <<top, ownBottom, ownBuffer, owner, thief, pushed, popped, stolen>>
  BY DEF Drain
<1>2. /\ \/ s.var = "slot" /\ s.k = buffer /\ UNCHANGED <<bottom, buffer>>
         \/ s.var = "bottom" /\ bottom' = s.v /\ UNCHANGED <<buffers, buffer>>
         \/ /\ s.var = "buffer" /\ buffer' = s.v /\ s.v \in (buffer + 1)..ownBuffer
            /\ UNCHANGED <<buffers, bottom>>
      /\ buffers' \in Seq(Rows) /\ Len(buffers') = ownBuffer
      /\ \A k \in 1..ownBuffer : Capacity(k)' = Capacity(k)
  BY Oldest
<1>3. /\ \A k \in 1..ownBuffer, i \in Int :
            \/ buffers'[k][Slot(i, k)] = buffers[k][Slot(i, k)]
            \/ /\ s.var = "slot" /\ k = buffer /\ Slot(i, k) = Slot(Index(1), k)
               /\ buffers'[k][Slot(i, k)] = item[Index(1)]
      /\ s.var = "slot" => buffers'[buffer][Slot(Index(1), buffer)] = item[Index(1)]
  BY Oldest
<1>4. Limit' = Limit /\ Live' = Live
  BY <1>1 DEF Limit, Live
<1>5. /\ 1 \in DOMAIN stores /\ stores' \in Seq(Stores)
      /\ Len(stores') = Len(stores) - 1 /\ DOMAIN stores' = 1..Len(stores')
      /\ \A n \in DOMAIN stores' : n \in Nat /\ n + 1 \in DOMAIN stores /\ stores'[n] = stores[n + 1]
  BY <1>1, Shifted
<1>6. \A n \in DOMAIN stores : n # 1 => n - 1 \in DOMAIN stores' /\ stores'[n - 1] = stores[n]
  BY <1>1, Shifted
<1>7. \A n \in DOMAIN stores' : stores'[n].var = "slot" =>
         OfSlot(n + 1) /\ Index(n)' = Index(n + 1) /\ n + 1 \in DOMAIN stores'
  BY <1>1, Shifted
<1>8. \A n \in DOMAIN stores : stores[n].var = "slot" /\ n # 1 =>
         OfSlot(n - 1)' /\ Index(n - 1)' = Index(n)
  BY <1>1, Shifted
<1>9. /\ buffer \in Nat /\ buffer >= 1 /\ buffer <= ownBuffer /\ ownBuffer \in Nat
      /\ top \in Nat /\ Limit \in Int /\ bottom \in Int
  BY IndexType
<1>a. Len(stores) \in Nat /\ DOMAIN stores = 1..Len(stores)
  BY IndexType
<1>b. s.v \in Int /\ s.var \in {"slot", "bottom", "buffer"}
  BY <1>5, IndexType DEF Stores
<1> HIDE DEF s
<1>10. buffer' \in Nat /\ buffer <= buffer' /\ buffer' <= ownBuffer
  <2>1. buffer' = buffer \/ buffer' \in (buffer + 1)..ownBuffer
    BY <1>2
  <2> QED
    BY <1>9, <2>1
<1>11. Typed'
  <2>1. bottom' \in Int
    BY <1>2, <1>9, <1>b
  <2>2. buffer' \in 1..ownBuffer'
    BY <1>1, <1>9, <1>10
  <2> QED
    BY <1>1, <1>2, <1>5, <2>1, <2>2 DEF Typed
<1>12. Bounded'
  <2>1. bottom' <= Limit
    BY <1>2, <1>5 DEF Bounded, s
  <2>2. \A n \in DOMAIN stores' : stores'[n].var = "bottom" => stores'[n].v <= Limit
    BY <1>5 DEF Bounded
  <2>3. Capacity(ownBuffer)' = Capacity(ownBuffer)
    BY <1>1, <1>2, OwnCapacity
  <2>4. owner.at \notin {"take", "restore"}
    BY <1>1 DEF Bounded
  <2> QED
    BY <1>1, <1>4, <2>1, <2>2, <2>3, <2>4 DEF Bounded
<1>13. Newest'
  <2>1. ASSUME stores' = <<>> PROVE bottom' = ownBottom
    <3>1. Len(stores) = 1
      <4>1. Len(stores') = 0
        BY <2>1
      <4> QED
        BY <1>5, <1>a, <4>1
    <3> QED
      BY <1>1, <1>2, <3>1 DEF Newest, s
  <2>2. ASSUME stores' # <<>>
        PROVE  stores'[Len(stores')].var = "bottom" /\ stores'[Len(stores')].v = ownBottom
    <3>1. Len(stores') # 0
      BY <1>5, <2>2, EmptySeq
    <3>2. Len(stores') \in DOMAIN stores' /\ Len(stores') + 1 = Len(stores)
      BY <1>5, <1>a, <3>1
    <3>3. stores'[Len(stores')] = stores[Len(stores)]
      BY <1>5, <3>2
    <3> QED
      BY <1>1, <3>3 DEF Newest
  <2>3. \/ buffer' = ownBuffer
        \/ \E n \in DOMAIN stores' : stores'[n].var = "buffer" /\ stores'[n].v = ownBuffer
    <3>1. CASE buffer = ownBuffer
      BY <1>9, <1>10, <3>1
    <3>2. ASSUME NEW n \in DOMAIN stores, stores[n].var = "buffer", stores[n].v = ownBuffer
          PROVE  \/ buffer' = ownBuffer
                 \/ \E m \in DOMAIN stores' : stores'[m].var = "buffer" /\ stores'[m].v = ownBuffer
      <4>1. CASE n = 1
        BY <1>2, <3>2, <4>1 DEF s
      <4>2. CASE n # 1
        BY <1>6, <3>2, <4>2
      <4> QED
        BY <4>1, <4>2
    <3> QED
      BY <3>1, <3>2 DEF Newest
  <2> QED
    BY <1>1, <2>1, <2>2, <2>3 DEF Newest
<1>14. ASSUME NEW n \in DOMAIN stores', stores'[n].var = "slot" PROVE SlotStore(item, n)'
  <2> DEFINE p == n + 1
             k == stores[p].k
  <2>1. /\ n \in Nat /\ p \in DOMAIN stores /\ stores'[n] = stores[p] /\ stores[p].var = "slot"
        /\ Index(n)' = Index(p) /\ p \in DOMAIN stores'
    BY <1>5, <1>7, <1>14
  <2>2. /\ SlotStore(item, p) /\ Index(p) \in Nat /\ Index(p) \in Live
        /\ k \in 1..ownBuffer /\ k \in Nat
    BY <2>1, SlotIndex
  <2>3. 1 \in 1..(p - 1) /\ 1 < p /\ \A m \in 1..(n - 1) : m \in DOMAIN stores' /\ m + 1 \in 1..(p - 1)
    <3>1. Len(stores') \in Int /\ DOMAIN stores' = 1..Len(stores')
      BY <1>5, <1>a
    <3>2. PICK l \in Int : DOMAIN stores' = 1..l
      BY <3>1
    <3>3. n \in 1..l
      BY <3>2
    <3>4. \A m \in 1..(n - 1) : m \in 1..l
      BY <3>3
    <3>5. \A m \in 1..(n - 1) : m \in DOMAIN stores'
      BY <3>2, <3>4
    <3>6. 1 \in 1..(p - 1) /\ 1 < p
      BY <3>3
    <3>7. \A m \in 1..(n - 1) : m + 1 \in 1..(p - 1)
      BY <3>3
    <3> QED
      BY <3>5, <3>6, <3>7
  <2>4. stores'[n + 1].var = "bottom"
    <3>1. stores[p + 1].var = "bottom" /\ stores'[p] = stores[p + 1]
      BY <1>5, <2>1, <2>2 DEF SlotStore
    <3> QED
      BY <3>1
  <2>5. k \in buffer'..ownBuffer
    <3>1. CASE s.var = "buffer"
      <4>1. s.v <= k /\ k <= ownBuffer /\ k \in Nat
        BY <1>9, <2>2, <2>3, <3>1 DEF SlotStore, s
      <4>2. buffer' = s.v
        BY <1>2, <3>1
      <4> HIDE DEF k
      <4> QED
        BY <1>9, <1>b, <4>1, <4>2
    <3>2. CASE s.var # "buffer"
      BY <1>2, <2>2, <3>2 DEF SlotStore
    <3> QED
      BY <3>1, <3>2
  <2>6. bottom' <= Index(p)
    BY <1>2, <2>2, <2>3 DEF SlotStore, s
  <2>7. \A m \in 1..(n - 1) : /\ stores'[m] = stores[m + 1] /\ m + 1 \in 1..(p - 1)
    BY <1>5, <2>3
  <2>8. \A i \in Index(p)..(Limit - 1) : \E m \in DOMAIN stores' : OfSlot(m)' /\ Index(m)' = i
    <3> SUFFICES ASSUME NEW i \in Index(p)..(Limit - 1)
                 PROVE  \E m \in DOMAIN stores' : OfSlot(m)' /\ Index(m)' = i
      OBVIOUS
    <3>1. PICK m \in DOMAIN stores : OfSlot(m) /\ Index(m) = i
      BY <2>2 DEF SlotStore
    <3>2. m # 1
      <4>1. ASSUME m = 1 PROVE FALSE
        <5>1. Index(1) < Index(p)
          BY <1>5, <2>1, <2>3, <3>1, <4>1, SlotOrder DEF OfSlot
        <5>2. Index(p) <= i /\ i \in Int /\ Index(p) \in Int
          BY <1>9, <2>2
        <5>3. i < Index(p)
          BY <3>1, <4>1, <5>1
        <5> HIDE DEF p
        <5> QED
          BY <5>2, <5>3
      <4> QED
        BY <4>1
    <3> QED
      BY <1>6, <1>8, <3>1, <3>2 DEF OfSlot
  <2>9. \/ k = buffer'
        \/ \E m \in 1..(n - 1) : stores'[m].var = "buffer" /\ stores'[m].v = k
    <3>1. CASE k = buffer
      <4>1. s.var = "buffer" => s.v <= buffer /\ s.v \in (buffer + 1)..ownBuffer
        BY <1>2, <2>2, <2>3, <3>1 DEF SlotStore, s
      <4>2. s.var # "buffer"
        BY <1>9, <1>b, <4>1
      <4> QED
        BY <1>2, <3>1, <4>2
    <3>2. ASSUME NEW m \in 1..(p - 1), stores[m].var = "buffer", stores[m].v = k
          PROVE  \/ k = buffer'
                 \/ \E q \in 1..(n - 1) : stores'[q].var = "buffer" /\ stores'[q].v = k
      <4>1. CASE m = 1
        BY <1>2, <3>2, <4>1 DEF s
      <4>2. CASE m # 1
        <5>1. m - 1 \in 1..(n - 1) /\ m \in DOMAIN stores
          <6>1. n + 1 \in 1..Len(stores) /\ Len(stores) \in Nat /\ n \in Nat /\ m \in 1..(n + 1 - 1)
            BY <1>a, <2>1
          <6>2. \A l, a, b \in Nat : a + 1 \in 1..l /\ b \in 1..(a + 1 - 1) /\ b # 1 =>
                                        b - 1 \in 1..(a - 1) /\ b \in 1..l
            OBVIOUS
          <6>3. m \in Nat
            BY <6>1
          <6> QED
            BY <1>a, <4>2, <6>1, <6>2, <6>3
        <5> QED
          BY <1>6, <3>2, <4>2, <5>1
      <4> QED
        BY <4>1, <4>2
    <3> QED
      BY <2>2, <3>1, <3>2 DEF SlotStore
  <2>10. \A c : c = k => Capacity(c)' = Capacity(c)
    BY <1>2, <2>2
  <2>11. /\ \A m \in 1..(n - 1) : stores'[m].var = "bottom" => stores'[m].v <= Index(p)
         /\ \A m \in 1..(n - 1) : stores'[m].var = "buffer" => stores'[m].v <= k
    BY <2>2, <2>7 DEF SlotStore
  <2>12. /\ stores[p].v = item[Index(p)] /\ stores[p].i = Index(p) % Capacity(k)
         /\ Index(p) - top < Capacity(k)
    BY <2>2 DEF SlotStore
  <2> DEFINE c == Cardinality(DOMAIN buffers'[stores'[n].k])
  <2>13. stores'[n].k = k /\ c = Capacity(k)
    BY <2>1, <2>10 DEF Capacity
  <2> HIDE DEF p, k
  <2>14. n + 1 \in DOMAIN stores' /\ stores'[n].k \in buffer'..ownBuffer'
    BY <1>1, <2>1, <2>5, <2>13 DEF p
  <2>15. /\ Index(n)' \in Live' /\ stores'[n].v = item[Index(n)']
         /\ stores'[n].i = Index(n)' % c /\ Index(n)' - top' < c /\ bottom' <= Index(n)'
    BY <1>1, <1>4, <2>1, <2>2, <2>6, <2>12, <2>13
  <2>16. /\ \A m \in 1..(n - 1) : stores'[m].var = "bottom" => stores'[m].v <= Index(n)'
         /\ \A i \in Index(n)'..(Limit' - 1) : \E m \in DOMAIN stores' : OfSlot(m)' /\ Index(m)' = i
         /\ \/ stores'[n].k = buffer'
            \/ \E m \in 1..(n - 1) : stores'[m].var = "buffer" /\ stores'[m].v = stores'[n].k
         /\ \A m \in 1..(n - 1) : stores'[m].var = "buffer" => stores'[m].v <= stores'[n].k
    BY <1>4, <2>1, <2>8, <2>9, <2>11, <2>13
  <2> QED
    BY <2>4, <2>14, <2>15, <2>16 DEF SlotStore, Capacity
<1>15. ASSUME NEW n \in DOMAIN stores', stores'[n].var = "buffer" PROVE BufferStore(n)'
  <2> DEFINE p == n + 1
  <2>1. n \in Nat /\ p \in DOMAIN stores /\ stores'[n] = stores[p] /\ stores[p].var = "buffer"
    BY <1>5, <1>15
  <2>2. BufferStore(p)
    BY <2>1 DEF Pending
  <2>3. 1 \in 1..(p - 1) /\ \A m \in 1..(n - 1) : m \in DOMAIN stores' /\ m + 1 \in 1..(p - 1)
    <3>1. Len(stores') \in Int /\ DOMAIN stores' = 1..Len(stores')
      BY <1>5, <1>a
    <3>2. PICK l \in Int : DOMAIN stores' = 1..l
      BY <3>1
    <3>3. n \in 1..l
      BY <3>2
    <3>4. \A m \in 1..(n - 1) : m \in 1..l
      BY <3>3
    <3>5. \A m \in 1..(n - 1) : m \in DOMAIN stores'
      BY <3>2, <3>4
    <3>6. 1 \in 1..(p - 1) /\ 1 < p
      BY <3>3
    <3>7. \A m \in 1..(n - 1) : m + 1 \in 1..(p - 1)
      BY <3>3
    <3> QED
      BY <3>5, <3>6, <3>7
  <2>4. \A m \in 1..(n - 1) : stores'[m] = stores[m + 1] /\ m + 1 \in 1..(p - 1)
    BY <1>5, <2>3
  <2>5. stores[p].v \in (buffer' + 1)..ownBuffer
    <3>1. stores[p].v \in (buffer + 1)..ownBuffer /\ (s.var = "buffer" => s.v < stores[p].v)
      BY <2>2, <2>3 DEF BufferStore, s
    <3>2. buffer' = buffer \/ buffer' < stores[p].v
      BY <1>2, <3>1
    <3>3. \A a, b, c \in Nat : \A v \in (a + 1)..c : (b = a \/ b < v) => v \in (b + 1)..c
      OBVIOUS
    <3>4. buffer \in Nat /\ buffer' \in Nat /\ ownBuffer \in Nat
      BY <1>9, <1>10
    <3> QED
      BY <3>1, <3>2, <3>3, <3>4
  <2> QED
    BY <1>1, <2>1, <2>2, <2>4, <2>5 DEF BufferStore
<1>16. Pending(item)'
  BY <1>14, <1>15 DEF Pending
<1>17. Valid(item)'
  <2> SUFFICES ASSUME NEW k \in buffer'..ownBuffer, NEW i \in Live
               PROVE  \/ \E n \in DOMAIN stores' : OfSlot(n)' /\ Index(n)' = i /\ stores'[n].k >= k
                      \/ buffers'[k][Slot(i, k)'] = item[i]
    BY <1>1, <1>4 DEF Valid
  <2>1. k \in buffer..ownBuffer /\ k \in 1..ownBuffer /\ k \in Nat
    <3>1. buffer \in Nat /\ buffer >= 1 /\ ownBuffer \in Nat /\ buffer' \in Nat /\ buffer <= buffer'
      BY <1>9, <1>10
    <3> QED
      BY <3>1
  <2>2. i \in Nat /\ i >= top /\ i < Limit
    BY IndexType
  <2>3. Slot(i, k)' = Slot(i, k)
    BY <1>2, <2>1 DEF Slot
  <2>4. ASSUME NEW n \in DOMAIN stores, OfSlot(n), Index(n) = i, stores[n].k >= k, n # 1
        PROVE  \E m \in DOMAIN stores' : OfSlot(m)' /\ Index(m)' = i /\ stores'[m].k >= k
    BY <1>6, <1>8, <2>4 DEF OfSlot
  <2>5. ASSUME NEW n \in DOMAIN stores, OfSlot(n), Index(n) = i, stores[n].k >= k, n = 1
        PROVE  buffers'[k][Slot(i, k)] = item[i]
    <3>1. s.var = "slot" /\ s.k = buffer
      BY <1>2, <2>5 DEF OfSlot, s
    <3>2. k = buffer
      BY <1>9, <2>1, <2>5, <3>1 DEF s
    <3> QED
      BY <1>3, <2>5, <3>1, <3>2
  <2>6. ASSUME buffers[k][Slot(i, k)] = item[i], buffers'[k][Slot(i, k)] # item[i]
        PROVE  \E m \in DOMAIN stores' : OfSlot(m)' /\ Index(m)' = i /\ stores'[m].k >= k
    <3> DEFINE j == Index(1)
    <3>1. s.var = "slot" /\ k = buffer /\ Slot(i, k) = Slot(j, k) /\ i # j
      <4>1. i \in Int
        BY <2>2
      <4> QED
        BY <1>3, <2>1, <2>6, <4>1
    <3>2. SlotStore(item, 1) /\ j \in Nat /\ j >= top /\ j < Limit /\ Capacity(k) \in Nat \ {0}
      <4>1. s.k = buffer
        BY <1>2, <3>1
      <4> QED
        BY <1>5, <3>1, <4>1, SlotIndex DEF s
    <3>3. j - top < Capacity(k)
      BY <1>2, <3>1, <3>2 DEF SlotStore, s
    <3>4. CASE i < j
      <4>1. i % Capacity(k) = j % Capacity(k)
        BY <2>1, <2>2, <3>1, <3>2 DEF Slot
      <4> HIDE DEF j
      <4>2. i - top < Capacity(k) /\ top \in Int /\ i \in Int /\ j \in Int
        BY <1>9, <2>2, <3>2, <3>3, <3>4
      <4>3. i = j
        BY <2>2, <3>2, <3>3, <4>1, <4>2, SameSlot
      <4> QED
        BY <3>1, <4>3
    <3>5. CASE j < i
      <4>1. i \in j..(Limit - 1)
        <5>1. i \in Int /\ j \in Int /\ Limit \in Int /\ i < Limit
          BY <1>9, <2>2, <3>2
        <5> HIDE DEF j
        <5> QED
          BY <3>5, <5>1
      <4>2. PICK m \in DOMAIN stores : OfSlot(m) /\ Index(m) = i
        BY <3>2, <4>1 DEF SlotStore
      <4>3. m # 1
        BY <3>1, <4>2
      <4>4. stores[m].k >= k
        <5>1. stores[m].k \in buffer..ownBuffer
          BY <4>2, SlotIndex DEF OfSlot, SlotStore
        <5>2. \A q \in buffer..ownBuffer : q >= buffer
          BY <1>9
        <5> QED
          BY <3>1, <5>1, <5>2
      <4> QED
        BY <2>4, <4>2, <4>3, <4>4
    <3> HIDE DEF j
    <3> QED
      BY <2>2, <3>1, <3>2, <3>4, <3>5
  <2> QED
    BY <2>1, <2>3, <2>4, <2>5, <2>6 DEF Valid
<1>18. \A w \in Thieves : Robber(item, w)'
  <2> SUFFICES ASSUME NEW w \in Thieves PROVE Robber(item, w)'
    OBVIOUS
  <2>1. Robber(item, w)
    OBVIOUS
  <2>2. thief[w].at = "slot" => thief[w].buf \in 1..buffer'
    <3>1. \A k \in 1..buffer : k \in 1..buffer'
      BY <1>9, <1>10
    <3> QED
      BY <2>1, <3>1 DEF Robber
  <2>3. CASE thief[w].at \in {"buffer", "slot", "cas"} /\ thief[w].t = top
    <3>1. top < Limit /\ \A n \in DOMAIN stores : stores[n].var = "slot" => top < Index(n)
      BY <2>1, <2>3 DEF Robber
    <3>2. \A n \in DOMAIN stores' : stores'[n].var = "slot" => top < Index(n)'
      BY <1>7, <3>1 DEF OfSlot
    <3>3. ASSUME thief[w].at = "slot"
          PROVE  buffers'[thief[w].buf][Slot(top, thief[w].buf)'] = item[top]
      <4> DEFINE k == thief[w].buf
                 j == Index(1)
      <4>1. k \in 1..buffer /\ buffers[k][Slot(top, k)] = item[top]
        BY <2>1, <2>3, <3>3 DEF Robber
      <4>2. k \in 1..ownBuffer /\ top \in Int
        <5>1. \A q \in 1..buffer : q \in 1..ownBuffer
          BY <1>9
        <5> QED
          BY <1>9, <4>1, <5>1
      <4>3. Slot(top, k)' = Slot(top, k)
        BY <1>1, <1>2, <4>2 DEF Slot
      <4>4. ASSUME buffers'[k][Slot(top, k)] # buffers[k][Slot(top, k)] PROVE FALSE
        <5>1. s.var = "slot" /\ k = buffer /\ Slot(top, k) = Slot(j, k)
          BY <1>3, <4>2, <4>4
        <5>2. SlotStore(item, 1) /\ j \in Nat /\ j >= top /\ Capacity(k) \in Nat \ {0} /\ s.k = k
          <6>1. s.k = buffer
            BY <1>2, <5>1
          <6> QED
            BY <1>5, <5>1, <6>1, SlotIndex DEF s
        <5>3. j - top < Capacity(k) /\ top < j
          BY <1>5, <3>1, <5>1, <5>2 DEF SlotStore, s
        <5>4. top % Capacity(k) = j % Capacity(k)
          BY <5>1 DEF Slot
        <5> HIDE DEF j, k
        <5>5. top = j
          <6>1. top >= top /\ top - top < Capacity(k) /\ j \in Int
            BY <1>9, <5>2
          <6> QED
            BY <4>2, <5>2, <5>3, <5>4, <6>1, SameSlot
        <5> QED
          BY <4>2, <5>3, <5>5
      <4> QED
        BY <4>1, <4>3, <4>4
    <3> QED
      BY <1>1, <1>4, <2>1, <2>2, <2>3, <3>1, <3>2, <3>3 DEF Robber
  <2>4. CASE ~(thief[w].at \in {"buffer", "slot", "cas"} /\ thief[w].t = top)
    BY <1>1, <2>1, <2>2, <2>4 DEF Robber
  <2> QED
    BY <2>3, <2>4
<1>19. Accounted(item)'
  BY <1>1, <1>4, AccountedKeeps
<1> QED
  BY <1>11, <1>12, <1>13, <1>16, <1>17, <1>18, <1>19

-----------------------------------------------------------------------------
(* push. *)

(* The buffer that an item is pushed to, and the place of the store to its *)
(* slot in the store buffer.                                               *)
Full == ownBottom - top >= Capacity(ownBuffer)
Target == IF Full THEN ownBuffer + 1 ELSE ownBuffer
Place == IF Full THEN Len(stores) + 2 ELSE Len(stores) + 1

(* A buffer that has grown holds the items of the old one. *)
LEMMA GrownRow ==
    ASSUME NEW item \in [Nat -> Nat], Deque(item), owner.at = "idle"
    PROVE  /\ 2 * Capacity(ownBuffer) \in Nat \ {0}
           /\ Grown(top, ownBottom) \in [0..(2 * Capacity(ownBuffer) - 1) -> Nat]
           /\ \A i \in Live : Grown(top, ownBottom)[i % (2 * Capacity(ownBuffer))] = item[i]
<1> USE DEF Deque
<1> DEFINE c == Capacity(ownBuffer)
           d == 2 * c
           g == Grown(top, ownBottom)
           P(n, j) == n % d = j
<1>1. c \in Nat \ {0} /\ top \in Nat /\ ownBottom \in Int
  BY OwnCapacity, IndexType
<1>2. Limit = ownBottom /\ Limit - top <= c
  BY DEF Limit, Bounded
<1> HIDE DEF c
<1>3. d \in Nat \ {0}
  BY <1>1
<1>4. top..(ownBottom - 1) = Live
  BY <1>2 DEF Live
<1>5. \A i \in Live : i \in Nat /\ i >= top /\ i - top < d
  <2>1. ASSUME NEW i \in Live PROVE i \in Nat /\ i >= top /\ i - top < d
    <3>1. i \in Nat /\ i >= top /\ i < Limit
      BY IndexType
    <3> QED
      BY <1>1, <1>2, <3>1
  <2> QED
    BY <2>1
<1>6. g = [i \in 0..(d - 1) |->
              IF \E n \in Live : n % d = i
              THEN OwnSlot(Slot(CHOOSE n \in Live : n % d = i, ownBuffer)) ELSE 0]
  BY <1>4 DEF Grown, c
<1> HIDE DEF d, g
<1>7. \A i \in Live : \A n \in Live : n % d = i % d => n = i
  <2> SUFFICES ASSUME NEW i \in Live, NEW n \in Live, n % d = i % d PROVE n = i
    OBVIOUS
  <2>1. /\ d \in Nat \ {0} /\ top \in Int /\ i \in Int /\ n \in Int
        /\ i >= top /\ n >= top /\ i - top < d /\ n - top < d
    BY <1>1, <1>3, <1>5
  <2> QED
    BY <2>1, SameSlot
<1>8. ASSUME NEW i \in Live PROVE i % d \in 0..(d - 1) /\ g[i % d] = item[i]
  <2>1. i % d \in 0..(d - 1)
    BY <1>3, <1>5
  <2>2. (CHOOSE n \in Live : n % d = i % d) = i
    BY <1>7
  <2>3. g[i % d] = OwnSlot(Slot(i, ownBuffer))
    BY <1>6, <2>1, <2>2
  <2> QED
    BY <2>1, <2>3, OwnItem
<1>9. g \in [0..(d - 1) -> Nat]
  <2>1. ASSUME NEW j \in 0..(d - 1)
        PROVE  (IF \E n \in Live : n % d = j
                THEN OwnSlot(Slot(CHOOSE n \in Live : n % d = j, ownBuffer)) ELSE 0) \in Nat
    <3>1. CASE \E n \in Live : n % d = j
      <4> DEFINE n == CHOOSE n \in Live : n % d = j
      <4>1. n \in Live
        BY <3>1
      <4> HIDE DEF n
      <4>2. OwnSlot(Slot(n, ownBuffer)) = item[n] /\ n \in Nat
        BY <4>1, <1>5, OwnItem
      <4>3. OwnSlot(Slot(n, ownBuffer)) \in Nat
        BY <4>2
      <4> QED
        BY <3>1, <4>3 DEF n
    <3>2. CASE ~ \E n \in Live : n % d = j
      BY <3>2
    <3> QED
      BY <3>1, <3>2
  <2> QED
    BY <1>6, <2>1
<1> QED
  BY <1>3, <1>8, <1>9 DEF c, d, g

(* The buffers after a push. *)
LEMMA PushedBuffers ==
    ASSUME NEW item \in [Nat -> Nat], Deque(item), Push
    PROVE  /\ buffers' \in Seq(Rows) /\ Len(buffers') = Target /\ ownBuffer' = Target
           /\ \A q \in 1..ownBuffer : buffers'[q] = buffers[q]
           /\ Full => \A i \in Live : buffers'[Target][i % Cardinality(DOMAIN buffers'[Target])] = item[i]
           /\ Cardinality(DOMAIN buffers'[Target]) \in Nat \ {0}
           /\ Limit + 1 - top <= Cardinality(DOMAIN buffers'[Target])
           /\ Cardinality(DOMAIN buffers'[Target])
                 = IF Full THEN 2 * Capacity(ownBuffer) ELSE Capacity(ownBuffer)
<1> USE DEF Deque
<1> DEFINE c == Capacity(ownBuffer)
           g == Grown(top, ownBottom)
<1>1. buffers \in Seq(Rows) /\ ownBuffer = Len(buffers) /\ owner.at = "idle"
  BY DEF Typed, Push
<1>2. c \in Nat \ {0} /\ ownBuffer \in Nat /\ ownBuffer \in 1..ownBuffer
  BY OwnCapacity
<1>3. top \in Nat /\ ownBottom \in Int /\ Limit = ownBottom /\ Limit - top <= c
  BY <1>1, IndexType DEF Limit, Bounded
<1>4. CASE ~ Full
  <2>1. buffers' = buffers /\ Target = ownBuffer /\ ownBuffer' = ownBuffer /\ ~(ownBottom - top >= c)
    BY <1>4 DEF Push, Full, Target
  <2>2. Cardinality(DOMAIN buffers'[Target]) = c
    BY <2>1 DEF Capacity
  <2> HIDE DEF c
  <2>3. Limit + 1 - top <= c
    BY <1>2, <1>3, <2>1
  <2> QED
    BY <1>1, <1>2, <1>4, <2>1, <2>2, <2>3 DEF c
<1>5. CASE Full
  <2>1. buffers' = Append(buffers, g) /\ Target = ownBuffer + 1 /\ ownBuffer' = ownBuffer + 1
    BY <1>1, <1>5 DEF Push, Full, Target
  <2>2. /\ 2 * c \in Nat \ {0} /\ g \in [0..(2 * c - 1) -> Nat]
        /\ \A i \in Live : g[i % (2 * c)] = item[i]
    BY <1>1, GrownRow
  <2> HIDE DEF c, g
  <2>3. g \in Rows /\ Cardinality(DOMAIN g) = 2 * c
    BY <2>2, RowOf
  <2>4. buffers' \in Seq(Rows) /\ Len(buffers') = ownBuffer + 1
    BY <1>1, <2>1, <2>3, AppendProperties
  <2>5. (\A q \in 1..ownBuffer : buffers'[q] = buffers[q]) /\ buffers'[Target] = g
    BY <1>1, <2>1, <2>3, AppendProperties
  <2>6. Limit + 1 - top <= 2 * c
    BY <1>2, <1>3
  <2> QED
    BY <1>5, <2>1, <2>2, <2>3, <2>4, <2>5, <2>6 DEF c
<1> QED
  BY <1>4, <1>5

(* What follows a sequence to which two elements are added. *)
LEMMA AddTwo ==
    ASSUME NEW S, NEW a \in Seq(S), NEW x \in S, NEW y \in S
    PROVE  /\ a \o <<x, y>> \in Seq(S) /\ Len(a \o <<x, y>>) = Len(a) + 2
           /\ \A n \in 1..Len(a) : (a \o <<x, y>>)[n] = a[n]
           /\ (a \o <<x, y>>)[Len(a) + 1] = x /\ (a \o <<x, y>>)[Len(a) + 2] = y
<1> DEFINE e == <<x, y>>
<1>1. e \in Seq(S) /\ Len(e) = 2 /\ e[1] = x /\ e[2] = y
  OBVIOUS
<1>2. PICK l \in Nat : l = Len(a)
  OBVIOUS
<1> HIDE DEF e
<1>3. a \o e \in Seq(S) /\ Len(a \o e) = l + 2
  <2>1. a \o e \in Seq(S) /\ Len(a \o e) = Len(a) + Len(e)
    BY <1>1, ConcatProperties, Zenon
  <2> QED
    BY <1>1, <1>2, <2>1, Zenon
<1>4. \A i \in 1..(l + 2) : (a \o e)[i] = IF i <= l THEN a[i] ELSE e[i - l]
  <2>1. \A i \in 1..(Len(a) + Len(e)) : (a \o e)[i] = IF i <= Len(a) THEN a[i] ELSE e[i - Len(a)]
    BY <1>1, ConcatProperties, Zenon
  <2> QED
    BY <1>1, <1>2, <2>1, Zenon
<1> DEFINE r == a \o e
<1> HIDE DEF r
<1>5. \A i \in 1..(l + 2) : r[i] = IF i <= l THEN a[i] ELSE e[i - l]
  BY <1>4 DEF r
<1>6. \A n \in 1..l : r[n] = a[n]
  BY <1>5
<1>7. r[l + 1] = x /\ r[l + 2] = y
  <2>1. l + 1 \in 1..(l + 2) /\ ~(l + 1 <= l) /\ l + 1 - l = 1
    OBVIOUS
  <2>2. l + 2 \in 1..(l + 2) /\ ~(l + 2 <= l) /\ l + 2 - l = 2
    OBVIOUS
  <2>3. r[l + 1] = e[1]
    BY <1>5, <2>1
  <2>4. r[l + 2] = e[2]
    BY <1>5, <2>2
  <2> QED
    BY <1>1, <2>3, <2>4, Zenon
<1> QED
  BY <1>2, <1>3, <1>6, <1>7 DEF e, r

(* The store buffer after a push. *)
LEMMA PushedStores ==
    ASSUME NEW item \in [Nat -> Nat], Deque(item), Push
    PROVE  /\ stores' \in Seq(Stores) /\ Len(stores') = Place + 1 /\ Place \in Nat
           /\ Place > Len(stores)
           /\ \A n \in 1..Len(stores) : stores'[n] = stores[n]
           /\ stores'[Place] = StoreSlot(Target, ownBottom % Cardinality(DOMAIN buffers'[Target]), pushed + 1)
           /\ stores'[Place + 1] = StoreBottom(ownBottom + 1)
           /\ Full => Place = Len(stores) + 2 /\ stores'[Len(stores) + 1] = StoreBuffer(Target)
           /\ ~ Full => Place = Len(stores) + 1
<1> USE DEF Deque
<1> DEFINE x == StoreSlot(Target, ownBottom % Cardinality(DOMAIN buffers'[Target]), pushed + 1)
           y == StoreBottom(ownBottom + 1)
           z == StoreBuffer(Target)
<1>1. Target \in Nat /\ ownBuffer = Len(buffers)
  BY OwnCapacity DEF Target, Typed
<1>2. /\ Cardinality(DOMAIN buffers'[Target]) \in Nat \ {0}
      /\ Cardinality(DOMAIN buffers'[Target]) = IF Full THEN 2 * Capacity(ownBuffer) ELSE Capacity(ownBuffer)
  BY PushedBuffers
<1>3. ownBottom \in Int /\ pushed \in Nat
  BY DEF Typed
<1>4. x \in Stores
  <2> DEFINE c == Cardinality(DOMAIN buffers'[Target])
  <2>1. c \in Nat \ {0}
    BY <1>2
  <2> HIDE DEF c
  <2>2. ownBottom % c \in Nat /\ pushed + 1 \in Int
    BY <1>3, <2>1
  <2> QED
    BY <1>1, <2>2 DEF StoreSlot, Stores, c
<1>5. y \in Stores /\ z \in Stores
  BY <1>1, <1>3 DEF StoreBottom, StoreBuffer, Stores
<1>6. stores \in Seq(Stores) /\ Len(stores) \in Nat
  BY IndexType DEF Typed
<1>7. stores' = stores \o (IF Full THEN <<z>> ELSE <<>>) \o <<x, y>>
  BY <1>1, <1>2 DEF Push, Full, Target
<1> HIDE DEF x, y, z
<1>8. PICK l \in Nat : l = Len(stores)
  BY <1>6
<1>9. CASE ~ Full
  <2>1. stores' = stores \o <<x, y>>
    <3>1. stores' = stores \o <<>> \o <<x, y>>
      BY <1>7, <1>9, Zenon
    <3>2. stores \o <<>> = stores
      BY <1>6, ConcatEmptySeq, Zenon
    <3> QED
      BY <3>1, <3>2, Zenon
  <2>2. stores' \in Seq(Stores) /\ Len(stores') = Len(stores) + 2
    <3>1. /\ (stores \o <<x, y>>) \in Seq(Stores) /\ Len((stores \o <<x, y>>)) = Len(stores) + 2
          /\ \A n \in 1..Len(stores) : (stores \o <<x, y>>)[n] = stores[n]
          /\ (stores \o <<x, y>>)[Len(stores) + 1] = x /\ (stores \o <<x, y>>)[Len(stores) + 2] = y
      BY <1>4, <1>5, <1>6, AddTwo
    <3> QED
      BY <2>1, <3>1
  <2>3. /\ \A n \in 1..Len(stores) : stores'[n] = stores[n]
        /\ stores'[Len(stores) + 1] = x /\ stores'[Len(stores) + 2] = y
    <3>1. /\ (stores \o <<x, y>>) \in Seq(Stores) /\ Len((stores \o <<x, y>>)) = Len(stores) + 2
          /\ \A n \in 1..Len(stores) : (stores \o <<x, y>>)[n] = stores[n]
          /\ (stores \o <<x, y>>)[Len(stores) + 1] = x /\ (stores \o <<x, y>>)[Len(stores) + 2] = y
      BY <1>4, <1>5, <1>6, AddTwo
    <3> QED
      BY <2>1, <3>1
  <2>4. Place = l + 1 /\ l + 1 > l /\ l + 1 + 1 = l + 2
    BY <1>8, <1>9 DEF Place
  <2> QED
    <3>1. /\ stores' \in Seq(Stores) /\ Len(stores') = Place + 1 /\ Place \in Nat
          /\ Place > Len(stores) /\ Place = Len(stores) + 1
      BY <1>8, <2>2, <2>4
    <3>2. /\ \A n \in 1..Len(stores) : stores'[n] = stores[n]
          /\ stores'[Place] = x /\ stores'[Place + 1] = y
      BY <1>8, <2>3, <2>4
    <3> QED
      BY <1>9, <3>1, <3>2 DEF x, y
<1>10. CASE Full
  <2> DEFINE h == Append(stores, z)
  <2>1. stores' = h \o <<x, y>>
    <3>1. stores' = stores \o <<z>> \o <<x, y>>
      BY <1>7, <1>10, Zenon
    <3>2. stores \o <<z>> = h
      BY <1>5, <1>6, AppendIsConcat, Zenon
    <3> QED
      BY <3>1, <3>2, Zenon
  <2>2. h \in Seq(Stores) /\ Len(h) = l + 1
    BY <1>5, <1>6, <1>8, AppendProperties
  <2>3. (\A n \in 1..l : h[n] = stores[n]) /\ h[l + 1] = z
    BY <1>5, <1>6, <1>8, AppendProperties
  <2> HIDE DEF h
  <2>4. stores' \in Seq(Stores) /\ Len(stores') = Len(h) + 2
    <3>1. /\ (h \o <<x, y>>) \in Seq(Stores) /\ Len((h \o <<x, y>>)) = Len(h) + 2
          /\ \A n \in 1..Len(h) : (h \o <<x, y>>)[n] = h[n]
          /\ (h \o <<x, y>>)[Len(h) + 1] = x /\ (h \o <<x, y>>)[Len(h) + 2] = y
      <4>1. h \in Seq(Stores) /\ x \in Stores /\ y \in Stores
        BY <1>4, <1>5, <2>2
      <4> QED
        BY <4>1, AddTwo
    <3> QED
      BY <2>1, <3>1
  <2>5. /\ \A n \in 1..Len(h) : stores'[n] = h[n]
        /\ stores'[Len(h) + 1] = x /\ stores'[Len(h) + 2] = y
    <3>1. /\ (h \o <<x, y>>) \in Seq(Stores) /\ Len((h \o <<x, y>>)) = Len(h) + 2
          /\ \A n \in 1..Len(h) : (h \o <<x, y>>)[n] = h[n]
          /\ (h \o <<x, y>>)[Len(h) + 1] = x /\ (h \o <<x, y>>)[Len(h) + 2] = y
      <4>1. h \in Seq(Stores) /\ x \in Stores /\ y \in Stores
        BY <1>4, <1>5, <2>2
      <4> QED
        BY <4>1, AddTwo
    <3> QED
      BY <2>1, <3>1
  <2>6. Place = l + 2 /\ l + 2 > l /\ l + 1 + 1 = l + 2 /\ l + 1 + 2 = l + 3 /\ l + 2 + 1 = l + 3
    BY <1>8, <1>10 DEF Place
  <2>7. \A n \in 1..l : n \in 1..(l + 1)
    OBVIOUS
  <2>8. (\A n \in 1..l : stores'[n] = stores[n]) /\ stores'[l + 1] = z
    <3>1. l + 1 \in 1..(l + 1)
      OBVIOUS
    <3> QED
      BY <2>2, <2>3, <2>5, <2>7, <3>1, Zenon
  <2>9. stores'[l + 2] = x /\ stores'[l + 3] = y
    BY <2>2, <2>5, <2>6, Zenon
  <2>10. Len(stores') = l + 3
    BY <2>2, <2>4, <2>6, Zenon
  <2> QED
    BY <1>8, <1>10, <2>4, <2>6, <2>8, <2>9, <2>10 DEF x, y, z
<1> QED
  BY <1>9, <1>10

(* The items after a push. *)
LEMMA PushedAccounted ==
    ASSUME NEW item \in [Nat -> Nat], Deque(item), NEW it \in [Nat -> Nat], Limit \in Nat,
           it[Limit] = pushed + 1, \A i \in Nat : i # Limit => it[i] = item[i],
           pushed' = pushed + 1, Live' = Live \cup {Limit}, UNCHANGED <<popped, stolen>>
    PROVE  Accounted(it)'
<1> USE DEF Deque
<1> DEFINE b == Limit
<1>1. pushed \in Nat /\ popped \in Seq(Nat) /\ stolen \in Seq(Nat)
  BY DEF Typed
<1>2. ASSUME NEW i \in Live PROVE i \in Nat /\ i < b /\ it[i] = item[i] /\ item[i] \in 1..pushed
  <2>1. i \in Nat /\ i < b
    BY IndexType
  <2>2. i # b
    BY <2>1
  <2> QED
    BY <2>1, <2>2 DEF Accounted
<1> DEFINE v == pushed + 1
<1>3. \A x \in 1..pushed : x \in 1..v /\ x < v /\ x \in Nat
  BY <1>1
<1>4. v \in 1..v /\ \A x \in 1..v : x = v \/ x \in 1..pushed
  BY <1>1
<1>5. \A i \in Live' : i = b \/ i \in Live
  OBVIOUS
<1>6. \A i, j \in Live' : i < j => it[i] < it[j]
  <2> SUFFICES ASSUME NEW i \in Live', NEW j \in Live', i < j PROVE it[i] < it[j]
    OBVIOUS
  <2>1. CASE i \in Live /\ j \in Live
    BY <1>2, <2>1 DEF Accounted
  <2>2. CASE i \in Live /\ j = b
    BY <1>2, <1>3, <2>2
  <2>3. CASE i = b
    <3>1. j # b /\ ~(j < b)
      BY <1>5, <2>3, <1>2
    <3> QED
      BY <1>2, <1>5, <3>1
  <2> QED
    BY <1>5, <2>1, <2>2, <2>3
<1> HIDE DEF v
<1>7. \A i \in Live' : /\ it[i] \in 1..v
                       /\ \A n \in DOMAIN popped : popped[n] # it[i]
                       /\ \A n \in DOMAIN stolen : stolen[n] < it[i]
  <2> SUFFICES ASSUME NEW i \in Live'
               PROVE  /\ it[i] \in 1..v
                      /\ \A n \in DOMAIN popped : popped[n] # it[i]
                      /\ \A n \in DOMAIN stolen : stolen[n] < it[i]
    OBVIOUS
  <2>1. CASE i \in Live
    BY <1>2, <1>3, <2>1 DEF Accounted
  <2>2. CASE i = b
    <3>1. it[i] = v
      BY <2>2 DEF v
    <3>2. \A n \in DOMAIN popped : popped[n] \in 1..pushed
      BY DEF Accounted
    <3>3. \A n \in DOMAIN stolen : stolen[n] \in 1..pushed
      BY DEF Accounted
    <3>4. \A x \in 1..pushed : x # v /\ x < v
      BY <1>1 DEF v
    <3> QED
      BY <1>4, <3>1, <3>2, <3>3, <3>4
  <2> QED
    BY <1>5, <2>1, <2>2
<1>8. /\ \A n \in DOMAIN popped : popped[n] \in 1..v
      /\ \A n \in DOMAIN stolen : stolen[n] \in 1..v
  BY <1>3 DEF Accounted
<1>9. \A x \in 1..v : \/ \E i \in Live' : it[i] = x
                      \/ \E n \in DOMAIN popped : popped[n] = x
                      \/ \E n \in DOMAIN stolen : stolen[n] = x
  <2> SUFFICES ASSUME NEW x \in 1..v
               PROVE  \/ \E i \in Live' : it[i] = x
                      \/ \E n \in DOMAIN popped : popped[n] = x
                      \/ \E n \in DOMAIN stolen : stolen[n] = x
    OBVIOUS
  <2>1. CASE x = v
    BY <2>1 DEF v
  <2>2. CASE x \in 1..pushed
    <3>1. \/ \E i \in Live : item[i] = x
          \/ \E n \in DOMAIN popped : popped[n] = x
          \/ \E n \in DOMAIN stolen : stolen[n] = x
      BY <2>2 DEF Accounted
    <3> QED
      BY <1>2, <3>1
  <2> QED
    BY <1>4, <2>1, <2>2
<1>10. pushed' = v
  BY DEF v
<1> QED
  BY <1>6, <1>7, <1>8, <1>9, <1>10 DEF Accounted

(* push. *)
LEMMA PushStep ==
    ASSUME NEW item \in [Nat -> Nat], Deque(item), Push
    PROVE  \E it \in [Nat -> Nat] : Deque(it)'
<1> USE DEF Deque
<1>1. /\ owner.at = "idle" /\ pushed < MaxPushes /\ pushed' = pushed + 1 /\ ownBottom' = ownBottom + 1
      /\ UNCHANGED <<top, bottom, buffer, owner, thief, popped, stolen>>
  BY DEF Push
<1>2. /\ top \in Nat /\ bottom \in Int /\ buffer \in Nat /\ ownBuffer \in Nat
      /\ buffer >= 1 /\ buffer <= ownBuffer /\ Limit \in Int
  BY IndexType
<1>3. /\ Limit = ownBottom /\ Limit' = Limit + 1 /\ top <= Limit /\ bottom <= Limit
      /\ Limit <= pushed /\ pushed \in Nat
  BY <1>1 DEF Limit, Bounded, Typed
<1>4. PICK b \in Nat : b = Limit
  BY <1>2, <1>3
<1>5. PICK it \in [Nat -> Nat] : it[b] = pushed + 1 /\ \A i \in Nat : i # b => it[i] = item[i]
  <2>1. [item EXCEPT ![b] = pushed + 1] \in [Nat -> Nat]
    BY <1>3
  <2> QED
    BY <2>1
<1>6. Live' = Live \cup {b}
  <2>1. Live' = top..b /\ Live = top..(b - 1) /\ top <= b
    BY <1>1, <1>2, <1>3, <1>4 DEF Live
  <2>2. \A t \in Nat : t <= b => t..b = (t..(b - 1)) \cup {b}
    OBVIOUS
  <2> QED
    BY <1>2, <2>1, <2>2
<1>7. PICK l \in Nat : l = Len(stores) /\ DOMAIN stores = 1..l
  BY IndexType
<1>8. PICK N \in Nat : N = Place
  BY PushedStores
<1>9. PICK k \in Nat : k = Target
  BY <1>2 DEF Target
<1>10. PICK c \in Nat \ {0} : c = Cardinality(DOMAIN buffers'[Target])
  BY PushedBuffers
<1>11. /\ buffers' \in Seq(Rows) /\ Len(buffers') = k /\ ownBuffer' = k
       /\ \A q \in 1..ownBuffer : buffers'[q] = buffers[q]
       /\ Cardinality(DOMAIN buffers'[k]) = c
  BY <1>9, <1>10, PushedBuffers
<1>12. Full => \A i \in Live : buffers'[k][i % c] = item[i]
  BY <1>9, <1>10, PushedBuffers
<1>13. b + 1 - top <= c
  BY <1>4, <1>9, <1>10, PushedBuffers
<1>14. /\ stores' \in Seq(Stores) /\ Len(stores') = N + 1 /\ N > l
       /\ \A n \in 1..l : stores'[n] = stores[n]
       /\ stores'[N] = StoreSlot(k, b % c, pushed + 1) /\ stores'[N + 1] = StoreBottom(b + 1)
  BY <1>3, <1>4, <1>7, <1>8, <1>9, <1>10, PushedStores
<1>15. /\ Full => N = l + 2 /\ k = ownBuffer + 1 /\ stores'[l + 1] = StoreBuffer(k)
       /\ ~ Full => N = l + 1 /\ k = ownBuffer
  BY <1>7, <1>8, <1>9, PushedStores DEF Target
<1>16. /\ stores'[N].var = "slot" /\ stores'[N].k = k /\ stores'[N].i = b % c /\ stores'[N].v = pushed + 1
       /\ stores'[N + 1].var = "bottom" /\ stores'[N + 1].v = b + 1
       /\ Full => stores'[l + 1].var = "buffer" /\ stores'[l + 1].v = k
  <2>1. /\ stores'[N].var = "slot" /\ stores'[N].k = k /\ stores'[N].i = b % c
        /\ stores'[N].v = pushed + 1
    BY <1>14 DEF StoreSlot
  <2>2. stores'[N + 1].var = "bottom" /\ stores'[N + 1].v = b + 1
    BY <1>14 DEF StoreBottom
  <2>3. Full => stores'[l + 1].var = "buffer" /\ stores'[l + 1].v = k
    BY <1>15 DEF StoreBuffer
  <2> QED
    BY <2>1, <2>2, <2>3
<1>17. DOMAIN stores' = 1..(N + 1)
  BY <1>14, LenProperties
<1>18. /\ \A n \in DOMAIN stores : n \in DOMAIN stores' /\ stores'[n] = stores[n] /\ n \in Nat /\ n < N
       /\ N \in DOMAIN stores' /\ N + 1 \in DOMAIN stores'
       /\ \A n \in DOMAIN stores' : n \in DOMAIN stores \/ n = N \/ n = N + 1 \/ (Full /\ n = l + 1)
  <2>1. \A n \in 1..l : n \in 1..(N + 1) /\ n \in Nat /\ n < N
    BY <1>14
  <2>2. N \in 1..(N + 1) /\ N + 1 \in 1..(N + 1)
    BY <1>14
  <2>3. \A n \in 1..(N + 1) : n \in 1..l \/ n = N \/ n = N + 1 \/ (Full /\ n = l + 1)
    <3>1. CASE Full
      BY <1>15, <3>1
    <3>2. CASE ~ Full
      BY <1>15, <3>2
    <3> QED
      BY <3>1, <3>2
  <2> QED
    BY <1>7, <1>14, <1>17, <2>1, <2>2, <2>3
<1>19. ownBuffer <= k
  BY <1>2, <1>15
<1>20. \A q \in 1..ownBuffer : Capacity(q)' = Capacity(q) /\ \A i \in Int : Slot(i, q)' = Slot(i, q)
  BY <1>11 DEF Slot, Capacity
<1>21. \A n \in DOMAIN stores : stores[n].var = "slot" => OfSlot(n)' /\ Index(n)' = Index(n)
  <2> SUFFICES ASSUME NEW n \in DOMAIN stores, stores[n].var = "slot"
               PROVE  OfSlot(n)' /\ Index(n)' = Index(n)
    OBVIOUS
  <2>1. n + 1 \in DOMAIN stores
    BY SlotIndex DEF SlotStore
  <2>2. stores'[n + 1] = stores[n + 1] /\ stores'[n] = stores[n] /\ n \in DOMAIN stores'
    BY <1>18, <2>1
  <2> QED
    BY <2>2 DEF OfSlot, Index
<1>22. OfSlot(N)' /\ Index(N)' = b
  <2>1. stores'[N + 1].v - 1 = b
    BY <1>16
  <2> QED
    BY <1>16, <1>18, <2>1 DEF OfSlot, Index
<1>23. \A i \in Live : i \in Nat /\ i < b /\ it[i] = item[i]
  <2>1. \A i \in Live : i \in Nat /\ i < b
    BY <1>4, IndexType
  <2> QED
    BY <1>5, <2>1
<1>24. Typed'
  <2>1. ownBottom' \in Int /\ pushed' \in 0..MaxPushes
    BY <1>1, <1>2, <1>3, DequeAssumption
  <2>2. buffer' \in 1..ownBuffer'
    BY <1>1, <1>2, <1>11, <1>19
  <2> QED
    BY <1>1, <1>11, <1>14, <2>1, <2>2 DEF Typed
<1>25. Bounded'
  <2>1. \A n \in DOMAIN stores' : stores'[n].var = "bottom" => stores'[n].v <= b + 1
    <3> SUFFICES ASSUME NEW n \in DOMAIN stores', stores'[n].var = "bottom" PROVE stores'[n].v <= b + 1
      OBVIOUS
    <3>1. CASE n \in DOMAIN stores
      <4>1. stores[n].v <= b /\ stores[n].v \in Int /\ stores'[n] = stores[n]
        BY <1>4, <1>18, <3>1, IndexType DEF Bounded, Stores
      <4> QED
        BY <4>1
    <3>2. CASE n = N + 1
      BY <1>16, <3>2
    <3>3. CASE n = N \/ (Full /\ n = l + 1)
      BY <1>16, <3>3
    <3> QED
      BY <1>18, <3>1, <3>2, <3>3
  <2>2. Limit' = b + 1 /\ top <= b + 1 /\ bottom <= b + 1 /\ b + 1 <= pushed + 1
    BY <1>2, <1>3, <1>4
  <2>3. Capacity(ownBuffer)' = c
    BY <1>11 DEF Capacity
  <2>4. top' <= Limit' /\ Limit' <= pushed' /\ Limit' - top' <= Capacity(ownBuffer)' /\ bottom' <= Limit'
    <3>1. top' = top /\ bottom' = bottom /\ pushed' = pushed + 1
      BY <1>1
    <3>2. Limit' - top' <= c
      <4>1. Limit' = b + 1 /\ top' = top
        BY <2>2, <3>1
      <4>2. \A x, y : x = b + 1 /\ y = top => x - y <= c
        BY <1>2, <1>13
      <4> QED
        BY <4>1, <4>2
    <3>3. Limit' - top' <= Capacity(ownBuffer)'
      BY <2>3, <3>2
    <3> QED
      BY <2>2, <3>1, <3>3, Zenon
  <2>5. \A n \in DOMAIN stores' : stores'[n].var = "bottom" => stores'[n].v <= Limit'
    BY <2>1, <2>2
  <2>6. owner'.at = "idle"
    BY <1>1
  <2> QED
    BY <2>4, <2>5, <2>6 DEF Bounded
<1>26. Newest'
  <2>1. stores' # <<>> /\ stores'[Len(stores')] = stores'[N + 1]
    BY <1>14, EmptySeq
  <2>2. stores'[N + 1].v = ownBottom'
    BY <1>1, <1>3, <1>4, <1>16
  <2>3. \/ buffer' = ownBuffer'
        \/ \E n \in DOMAIN stores' : stores'[n].var = "buffer" /\ stores'[n].v = ownBuffer'
    <3>1. CASE Full
      <4>1. l + 1 \in DOMAIN stores'
        BY <1>15, <1>17, <3>1
      <4> QED
        BY <1>11, <1>16, <3>1, <4>1
    <3>2. CASE ~ Full
      <4>1. k = ownBuffer
        BY <1>15, <3>2
      <4> QED
        BY <1>1, <1>11, <1>18, <4>1 DEF Newest
    <3> QED
      BY <3>1, <3>2
  <2> QED
    BY <1>16, <2>1, <2>2, <2>3 DEF Newest
<1>27. ASSUME NEW n \in DOMAIN stores, stores[n].var = "slot" PROVE SlotStore(it, n)'
  <2>1. /\ SlotStore(item, n) /\ Index(n) \in Nat /\ Index(n) \in Live
        /\ stores[n].k \in 1..ownBuffer /\ stores[n].k \in Nat
    BY <1>27, SlotIndex
  <2>2. /\ n + 1 \in DOMAIN stores /\ stores[n + 1].var = "bottom" /\ stores[n].k \in buffer..ownBuffer
        /\ stores[n].v = item[Index(n)] /\ stores[n].i = Index(n) % Capacity(stores[n].k)
        /\ Index(n) - top < Capacity(stores[n].k) /\ bottom <= Index(n)
    BY <2>1 DEF SlotStore
  <2>3. /\ stores'[n] = stores[n] /\ stores'[n + 1] = stores[n + 1] /\ n + 1 \in DOMAIN stores'
        /\ Index(n)' = Index(n)
    BY <1>18, <1>21, <1>27, <2>2
  <2>4. \A m \in 1..(n - 1) : stores'[m] = stores[m]
    <3>1. \A m \in 1..(n - 1) : m \in 1..l
      <4>1. n \in 1..l
        BY <1>7
      <4> QED
        BY <4>1
    <3> QED
      BY <1>14, <3>1
  <2>5. \A i \in Index(n)..b : \E m \in DOMAIN stores' : OfSlot(m)' /\ Index(m)' = i
    <3> SUFFICES ASSUME NEW i \in Index(n)..b
                 PROVE  \E m \in DOMAIN stores' : OfSlot(m)' /\ Index(m)' = i
      OBVIOUS
    <3>1. CASE i = b
      BY <1>18, <1>22, <3>1
    <3>2. CASE i # b
      <4>1. i \in Index(n)..(Limit - 1)
        <5>1. \A a \in Nat : \A j \in a..b : j # b => j \in a..(b - 1)
          OBVIOUS
        <5> QED
          BY <1>4, <2>1, <3>2, <5>1
      <4>2. PICK m \in DOMAIN stores : OfSlot(m) /\ Index(m) = i
        BY <2>1, <4>1 DEF SlotStore
      <4> QED
        BY <1>18, <1>21, <4>2 DEF OfSlot
    <3> QED
      BY <3>1, <3>2
  <2>6. stores[n].k \in buffer..k
    <3>1. \A q \in buffer..ownBuffer : q \in buffer..k
      BY <1>2, <1>19
    <3> QED
      BY <2>2, <3>1
  <2> DEFINE e == Cardinality(DOMAIN buffers'[stores'[n].k])
  <2>7. e = Capacity(stores[n].k)
    BY <1>11, <2>1, <2>3 DEF Capacity
  <2>8. it[Index(n)] = item[Index(n)]
    BY <1>23, <2>1
  <2>9. /\ n + 1 \in DOMAIN stores' /\ stores'[n + 1].var = "bottom"
        /\ Index(n)' \in Live' /\ stores'[n].v = it[Index(n)']
        /\ stores'[n].k \in buffer'..ownBuffer'
    BY <1>1, <1>6, <1>11, <2>1, <2>2, <2>3, <2>6, <2>8
  <2>10. stores'[n].i = Index(n)' % e /\ Index(n)' - top' < e /\ bottom' <= Index(n)'
    BY <1>1, <2>2, <2>3, <2>7
  <2>11. Limit' - 1 = b
    BY <1>3, <1>4
  <2>12. /\ \A m \in 1..(n - 1) : stores'[m].var = "bottom" => stores'[m].v <= Index(n)'
         /\ \/ stores'[n].k = buffer'
            \/ \E m \in 1..(n - 1) : stores'[m].var = "buffer" /\ stores'[m].v = stores'[n].k
         /\ \A m \in 1..(n - 1) : stores'[m].var = "buffer" => stores'[m].v <= stores'[n].k
    BY <1>1, <2>1, <2>3, <2>4 DEF SlotStore
  <2>13. \A i \in Index(n)'..(Limit' - 1) : \E m \in DOMAIN stores' : OfSlot(m)' /\ Index(m)' = i
    BY <2>3, <2>5, <2>11
  <2> QED
    BY <2>9, <2>10, <2>12, <2>13 DEF SlotStore, Capacity
<1>28. ASSUME NEW m \in DOMAIN stores
       PROVE  /\ stores[m].var = "bottom" => stores[m].v <= b
              /\ stores[m].var = "slot" => stores[m].k \in Nat /\ stores[m].k <= ownBuffer
              /\ stores[m].var = "buffer" => stores[m].v \in Nat /\ stores[m].v <= ownBuffer
  <2>1. stores[m].var = "bottom" => stores[m].v <= b
    BY <1>4 DEF Bounded
  <2>2. ASSUME stores[m].var = "slot" PROVE stores[m].k \in Nat /\ stores[m].k <= ownBuffer
    BY <1>2, <2>2, SlotIndex
  <2>3. ASSUME stores[m].var = "buffer" PROVE stores[m].v \in Nat /\ stores[m].v <= ownBuffer
    <3>1. stores[m].v \in (buffer + 1)..ownBuffer
      BY <2>3 DEF Pending, BufferStore
    <3> QED
      BY <1>2, <3>1
  <2> QED
    BY <2>1, <2>2, <2>3
<1>29. \A m \in 1..(N - 1) : \/ m \in DOMAIN stores /\ stores'[m] = stores[m]
                             \/ Full /\ m = l + 1
  <2>1. \A m \in 1..(N - 1) : m \in DOMAIN stores' /\ m # N /\ m # N + 1
    BY <1>17
  <2>2. ASSUME NEW m \in 1..(N - 1)
        PROVE  (m \in DOMAIN stores /\ stores'[m] = stores[m]) \/ (Full /\ m = l + 1)
    <3>1. m \in DOMAIN stores \/ (Full /\ m = l + 1)
      BY <1>18, <2>1
    <3> QED
      BY <1>18, <3>1
  <2> QED
    BY <2>2, Zenon
<1>30. SlotStore(it, N)'
  <2> DEFINE e == Cardinality(DOMAIN buffers'[stores'[N].k])
  <2>1. e = c /\ stores'[N].k = k
    BY <1>11, <1>16
  <2>2. N + 1 \in DOMAIN stores' /\ Index(N)' \in Live' /\ stores'[N].v = it[Index(N)']
    BY <1>5, <1>6, <1>16, <1>18, <1>22
  <2>3. k \in buffer'..ownBuffer'
    BY <1>1, <1>2, <1>11, <1>19
  <2>4. b - top < c
    BY <1>2, <1>13
  <2>5. \A m \in 1..(N - 1) : stores'[m].var = "bottom" => stores'[m].v <= b
    BY <1>16, <1>28, <1>29
  <2>6. \A i \in b..b : \E m \in DOMAIN stores' : OfSlot(m)' /\ Index(m)' = i
    BY <1>18, <1>22
  <2>7. \/ k = buffer'
        \/ \E m \in 1..(N - 1) : stores'[m].var = "buffer" /\ stores'[m].v = k
    <3>1. CASE Full
      <4>1. l + 1 \in 1..(N - 1)
        BY <1>15, <3>1
      <4> QED
        BY <1>16, <3>1, <4>1
    <3>2. CASE ~ Full
      <4>1. k = ownBuffer /\ N - 1 = l
        BY <1>15, <3>2
      <4>2. \/ buffer = k
            \/ \E m \in DOMAIN stores : stores[m].var = "buffer" /\ stores[m].v = k
        BY <4>1 DEF Newest
      <4> QED
        BY <1>1, <1>7, <1>14, <4>1, <4>2
    <3> QED
      BY <3>1, <3>2
  <2>8. \A m \in 1..(N - 1) : stores'[m].var = "buffer" => stores'[m].v <= k
    <3> SUFFICES ASSUME NEW m \in 1..(N - 1), stores'[m].var = "buffer" PROVE stores'[m].v <= k
      OBVIOUS
    <3>1. CASE Full /\ m = l + 1
      BY <1>16, <3>1
    <3>2. CASE m \in DOMAIN stores /\ stores'[m] = stores[m]
      <4>1. stores'[m].v \in Nat /\ stores'[m].v <= ownBuffer
        BY <1>28, <3>2
      <4> QED
        BY <1>2, <1>19, <4>1
    <3> QED
      BY <1>29, <3>1, <3>2
  <2>9. Limit' - 1 = b /\ bottom' <= b
    BY <1>1, <1>3, <1>4
  <2>10. /\ stores'[N + 1].var = "bottom" /\ stores'[N].k \in buffer'..ownBuffer'
         /\ stores'[N].i = Index(N)' % e /\ Index(N)' - top' < e /\ bottom' <= Index(N)'
    BY <1>1, <1>16, <1>22, <2>1, <2>3, <2>4, <2>9
  <2>11. \A i \in Index(N)'..(Limit' - 1) : \E m \in DOMAIN stores' : OfSlot(m)' /\ Index(m)' = i
    BY <1>22, <2>6, <2>9
  <2>12. /\ \A m \in 1..(N - 1) : stores'[m].var = "bottom" => stores'[m].v <= Index(N)'
         /\ \/ stores'[N].k = buffer'
            \/ \E m \in 1..(N - 1) : stores'[m].var = "buffer" /\ stores'[m].v = stores'[N].k
         /\ \A m \in 1..(N - 1) : stores'[m].var = "buffer" => stores'[m].v <= stores'[N].k
    BY <1>16, <1>22, <2>5, <2>7, <2>8
  <2> QED
    BY <2>2, <2>10, <2>11, <2>12 DEF SlotStore, Capacity
<1>31. ASSUME NEW n \in DOMAIN stores', stores'[n].var = "buffer" PROVE BufferStore(n)'
  <2>1. CASE n \in DOMAIN stores
    <3>1. stores'[n] = stores[n] /\ BufferStore(n)
      BY <1>18, <1>31, <2>1 DEF Pending
    <3>2. \A m \in 1..(n - 1) : stores'[m] = stores[m]
      <4>1. \A m \in 1..(n - 1) : m \in 1..l
        <5>1. n \in 1..l
          BY <1>7, <2>1
        <5> QED
          BY <5>1
      <4> QED
        BY <1>14, <4>1
    <3>3. \A q \in (buffer + 1)..ownBuffer : q \in (buffer + 1)..k
      BY <1>2, <1>19
    <3> QED
      BY <1>1, <1>11, <3>1, <3>2, <3>3 DEF BufferStore
  <2>2. CASE Full /\ n = l + 1
    <3>1. stores'[n].v = k /\ k = ownBuffer + 1
      BY <1>15, <1>16, <2>2
    <3>2. k \in (buffer + 1)..k
      BY <1>2, <3>1
    <3>3. \A m \in 1..(n - 1) : m \in DOMAIN stores /\ stores'[m] = stores[m]
      <4>1. n - 1 = l
        BY <2>2
      <4> QED
        BY <1>7, <1>14, <4>1
    <3>4. \A m \in 1..(n - 1) : /\ stores'[m].var = "slot" => stores'[m].k < k
                                /\ stores'[m].var = "buffer" => stores'[m].v < k
      <4>1. \A q \in Nat : q <= ownBuffer => q < k
        BY <1>2, <3>1
      <4> QED
        BY <1>28, <3>3, <4>1
    <3> QED
      BY <1>1, <1>11, <3>1, <3>2, <3>4 DEF BufferStore
  <2> QED
    BY <1>16, <1>18, <1>31, <2>1, <2>2
<1>32. Pending(it)'
  <2> SUFFICES ASSUME NEW n \in DOMAIN stores', stores'[n].var = "slot" PROVE SlotStore(it, n)'
    BY <1>31 DEF Pending
  <2>1. CASE n \in DOMAIN stores
    BY <1>18, <1>27, <2>1
  <2> QED
    BY <1>16, <1>18, <1>30, <2>1
<1>33. Valid(it)'
  <2> SUFFICES ASSUME NEW q \in buffer..k, NEW i \in Live'
               PROVE  \/ \E n \in DOMAIN stores' : OfSlot(n)' /\ Index(n)' = i /\ stores'[n].k >= q
                      \/ buffers'[q][Slot(i, q)'] = it[i]
    BY <1>1, <1>11 DEF Valid
  <2>1. q \in Nat /\ q <= k /\ q >= buffer
    BY <1>2
  <2>2. CASE i = b
    BY <1>16, <1>18, <1>22, <2>1, <2>2
  <2>3. CASE i \in Live /\ q <= ownBuffer
    <3>1. q \in buffer..ownBuffer /\ q \in 1..ownBuffer
      BY <1>2, <2>1, <2>3
    <3>2. buffers'[q] = buffers[q] /\ Slot(i, q)' = Slot(i, q) /\ it[i] = item[i]
      <4>1. buffers'[q] = buffers[q]
        BY <1>11, <3>1
      <4>2. i \in Int /\ it[i] = item[i]
        BY <1>23, <2>3
      <4>3. Slot(i, q)' = Slot(i, q)
        BY <1>20, <3>1, <4>2
      <4> QED
        BY <4>1, <4>2, <4>3
    <3>3. CASE \E n \in DOMAIN stores : OfSlot(n) /\ Index(n) = i /\ stores[n].k >= q
      BY <1>18, <1>21, <3>3 DEF OfSlot
    <3>4. CASE buffers[q][Slot(i, q)] = item[i]
      BY <3>2, <3>4
    <3> QED
      BY <2>3, <3>1, <3>3, <3>4 DEF Valid
  <2>4. CASE i \in Live /\ ~(q <= ownBuffer)
    <3>1. Full /\ q = k
      BY <1>2, <1>15, <2>1, <2>4
    <3>2. Slot(i, q)' = i % c
      BY <1>11, <3>1 DEF Slot, Capacity
    <3> QED
      BY <1>12, <1>23, <2>4, <3>1, <3>2
  <2> QED
    BY <1>6, <2>2, <2>3, <2>4
<1>34. ASSUME NEW w \in Thieves PROVE Robber(it, w)'
  <2>1. Robber(item, w)
    OBVIOUS
  <2>2. thief[w].t <= top /\ (thief[w].at = "slot" => thief[w].buf \in 1..buffer)
    BY <2>1 DEF Robber
  <2>3. ASSUME thief[w].at \in {"buffer", "slot", "cas"}, thief[w].t = top
        PROVE  /\ top < Limit'
               /\ \A n \in DOMAIN stores' : stores'[n].var = "slot" => top < Index(n)'
               /\ thief[w].at = "slot" => buffers'[thief[w].buf][Slot(top, thief[w].buf)'] = it[top]
               /\ thief[w].at = "cas" => thief[w].value = it[top]
    <3>1. /\ top < Limit
          /\ \A n \in DOMAIN stores : stores[n].var = "slot" => top < Index(n)
          /\ thief[w].at = "slot" => buffers[thief[w].buf][Slot(top, thief[w].buf)] = item[top]
          /\ thief[w].at = "cas" => thief[w].value = item[top]
      BY <2>1, <2>3 DEF Robber
    <3>2. top < Limit' /\ it[top] = item[top] /\ top < b
      BY <1>2, <1>3, <1>4, <1>5, <3>1
    <3>3. \A n \in DOMAIN stores' : stores'[n].var = "slot" => top < Index(n)'
      BY <1>16, <1>18, <1>21, <1>22, <3>1, <3>2
    <3>4. ASSUME thief[w].at = "slot"
          PROVE  buffers'[thief[w].buf][Slot(top, thief[w].buf)'] = it[top]
      <4>1. \A q \in 1..buffer : q \in 1..ownBuffer
        BY <1>2
      <4>2. thief[w].buf \in 1..ownBuffer /\ top \in Int
        BY <1>2, <2>2, <3>4, <4>1
      <4>3. PICK q \in 1..ownBuffer : q = thief[w].buf
        BY <4>2
      <4>4. buffers'[q] = buffers[q] /\ Capacity(q)' = Capacity(q)
        BY <1>11, <1>20
      <4> QED
        BY <1>1, <3>1, <3>2, <3>4, <4>3, <4>4 DEF Slot, Capacity
    <3> QED
      BY <3>1, <3>2, <3>3, <3>4
  <2>4. owner'.at # "take"
    BY <1>1
  <2> QED
    BY <1>1, <2>2, <2>3, <2>4 DEF Robber, Slot, Capacity
<1>35. Accounted(it)'
  <2>1. /\ Limit \in Nat /\ it[Limit] = pushed + 1 /\ \A i \in Nat : i # Limit => it[i] = item[i]
        /\ Live' = Live \cup {Limit}
    BY <1>4, <1>5, <1>6
  <2> QED
    BY <1>1, <2>1, PushedAccounted
<1> QED
  BY <1>24, <1>25, <1>26, <1>32, <1>33, <1>34, <1>35

-----------------------------------------------------------------------------
(* The invariant. *)

LEMMA InvInit ==
    ASSUME Init
    PROVE  DequeInv
<1> DEFINE row == [i \in 0..(InitialCapacity - 1) |-> 0]
           item == [i \in Nat |-> 0]
<1>1. InitialCapacity \in Nat \ {0}
  BY DequeAssumption
<1>2. row \in [0..(InitialCapacity - 1) -> Nat]
  OBVIOUS
<1> HIDE DEF row
<1>3. row \in Rows /\ Cardinality(DOMAIN row) = InitialCapacity
  BY <1>1, <1>2, RowOf
<1>4. /\ top = 0 /\ bottom = 0 /\ buffer = 1 /\ buffers = <<row>> /\ stores = <<>>
      /\ ownBottom = 0 /\ ownBuffer = 1 /\ owner = Idle /\ thief = [w \in Thieves |-> NoSteal]
      /\ pushed = 0 /\ popped = <<>> /\ stolen = <<>>
  BY DEF Init, row
<1>5. owner.at = "idle" /\ Limit = 0 /\ Live = {}
  BY <1>4 DEF Idle, Limit, Live
<1>6. Typed
  <2>1. buffers \in Seq(Rows) /\ Len(buffers) = 1
    BY <1>3, <1>4
  <2>2. owner \in Owners
    BY <1>4 DEF Idle, Owners
  <2>3. thief \in [Thieves -> Robbers]
    BY <1>4 DEF NoSteal, Robbers
  <2>4. stores \in Seq(Stores) /\ popped \in Seq(Nat) /\ stolen \in Seq(Nat) /\ pushed \in 0..MaxPushes
    BY <1>4, DequeAssumption
  <2> QED
    BY <1>4, <2>1, <2>2, <2>3, <2>4 DEF Typed
<1>7. DOMAIN stores = {} /\ DOMAIN popped = {} /\ DOMAIN stolen = {}
  BY <1>4
<1>8. Capacity(ownBuffer) = InitialCapacity
  BY <1>3, <1>4 DEF Capacity
<1>9. Bounded
  BY <1>1, <1>4, <1>5, <1>7, <1>8 DEF Bounded
<1>10. Newest /\ Pending(item) /\ Valid(item)
  BY <1>4, <1>5, <1>7 DEF Newest, Pending, Valid
<1>11. \A w \in Thieves : Robber(item, w)
  BY <1>4 DEF Robber, NoSteal
<1>12. Accounted(item)
  BY <1>4, <1>5, <1>7 DEF Accounted
<1>13. item \in [Nat -> Nat]
  OBVIOUS
<1> QED
  BY <1>6, <1>9, <1>10, <1>11, <1>12, <1>13 DEF DequeInv, Deque

LEMMA InvStep ==
    ASSUME DequeInv, [Next]_vars
    PROVE  DequeInv'
<1>1. PICK item \in [Nat -> Nat] : Deque(item)
  BY DEF DequeInv
<1>2. ASSUME Deque(item)' PROVE DequeInv'
  BY <1>2 DEF DequeInv
<1>3. CASE Drain
  BY <1>1, <1>2, <1>3, DrainStep
<1>4. CASE Push
  <2>1. \E it \in [Nat -> Nat] : Deque(it)'
    BY <1>1, <1>4, PushStep
  <2> QED
    BY <2>1 DEF DequeInv
<1>5. CASE Pop
  BY <1>1, <1>2, <1>5, PopReserveStep, PopLoadStep, PopManyStep, PopLastStep, PopRestoreStep DEF Pop
<1>6. ASSUME NEW w \in Thieves, Steal(w) PROVE DequeInv'
  BY <1>1, <1>2, <1>6, StealTopStep, StealBottomStep, StealBufferStep, StealSlotStep, StealCasStep
     DEF Steal
<1>7. CASE UNCHANGED vars
  <2> USE DEF Deque
  <2>1. /\ top' = top /\ bottom' = bottom /\ buffer' = buffer /\ buffers' = buffers
        /\ stores' = stores /\ ownBottom' = ownBottom /\ ownBuffer' = ownBuffer
        /\ owner' = owner /\ thief' = thief /\ pushed' = pushed
        /\ popped' = popped /\ stolen' = stolen
    BY <1>7 DEF vars
  <2>2. Limit' = Limit /\ Live' = Live
    BY <2>1 DEF Limit, Live
  <2>3. Typed' /\ Newest'
    BY <1>1, <2>1 DEF Typed, Newest
  <2>4. Bounded'
    BY <1>1, <2>1, <2>2 DEF Bounded, Capacity
  <2>5. Pending(item)'
    <3>1. ASSUME NEW n \in DOMAIN stores, stores[n].var = "slot" PROVE SlotStore(item, n)'
      <4>1. SlotStore(item, n)
        BY <1>1, <3>1 DEF Pending
      <4> QED
        BY <2>1, <2>2, <4>1 DEF SlotStore, Index, OfSlot, Capacity
    <3>2. ASSUME NEW n \in DOMAIN stores, stores[n].var = "buffer" PROVE BufferStore(n)'
      BY <1>1, <2>1, <3>2 DEF Pending, BufferStore
    <3> QED
      BY <2>1, <3>1, <3>2 DEF Pending
  <2>6. Valid(item)'
    BY <1>1, <2>1, <2>2, ValidKeeps
  <2>7. \A w \in Thieves : Robber(item, w)'
    BY <1>1, <2>1, <2>2 DEF Robber, Index, Slot, Capacity
  <2>8. Accounted(item)'
    BY <1>1, <2>1, <2>2, AccountedKeeps
  <2> QED
    BY <1>2, <2>3, <2>4, <2>5, <2>6, <2>7, <2>8
<1> QED
  BY <1>3, <1>4, <1>5, <1>6, <1>7 DEF Next

(* pop writes the index before the first, and nothing smaller. *)
Low ==
    /\ bottom >= -1
    /\ \A n \in DOMAIN stores : stores[n].var = "bottom" => stores[n].v >= -1

LEMMA LowStep ==
    ASSUME DequeInv, Low, [Next]_vars
    PROVE  Low'
<1>1. PICK item \in [Nat -> Nat] : Deque(item)
  BY DEF DequeInv
<1>2. /\ Typed /\ Bounded /\ Pending(item) /\ stores \in Seq(Stores) /\ top \in Nat /\ ownBottom \in Int
      /\ Len(stores) \in Nat
  BY <1>1, IndexType DEF Deque, Typed
<1>3. ASSUME NEW b \in Int, b >= -1, stores' = Append(stores, StoreBottom(b)), bottom' = bottom
      PROVE  Low'
  <2> DEFINE x == StoreBottom(b)
  <2>1. x \in Stores /\ x.v = b /\ stores' = Append(stores, x)
    BY <1>3 DEF StoreBottom, Stores
  <2> HIDE DEF x
  <2>2. PICK l \in Nat : l = Len(stores)
    BY <1>2
  <2>3. stores' \in Seq(Stores) /\ Len(stores') = l + 1
    BY <1>2, <2>1, <2>2, AppendProperties
  <2>4. (\A n \in 1..l : stores'[n] = stores[n]) /\ stores'[l + 1] = x
    BY <1>2, <2>1, <2>2, AppendProperties
  <2>5. DOMAIN stores' = 1..(l + 1) /\ DOMAIN stores = 1..l
    BY <1>2, <2>2, <2>3, LenProperties
  <2>6. \A n \in 1..(l + 1) : n \in 1..l \/ n = l + 1
    OBVIOUS
  <2> QED
    BY <1>3, <2>1, <2>4, <2>5, <2>6 DEF Low
<1>4. CASE Drain
  <2>1. /\ 1 \in DOMAIN stores /\ Head(stores) = stores[1] /\ stores' = Tail(stores)
        /\ \A n \in DOMAIN stores' : n + 1 \in DOMAIN stores /\ stores'[n] = stores[n + 1]
    <3>1. stores # <<>> /\ stores' = Tail(stores)
      BY <1>4 DEF Drain
    <3> QED
      BY <1>2, <3>1, Shifted
  <2>2. bottom' = bottom \/ (stores[1].var = "bottom" /\ bottom' = stores[1].v)
    BY <1>4, <2>1 DEF Drain
  <2> QED
    BY <2>1, <2>2 DEF Low
<1>5. CASE Push
  <2>1. bottom' = bottom /\ owner.at = "idle"
    BY <1>5 DEF Push
  <2>2. PICK N \in Nat : N = Place
    BY <1>1, <1>5, PushedStores
  <2>3. PICK l \in Nat : l = Len(stores)
    BY <1>2
  <2>4. stores' \in Seq(Stores) /\ Len(stores') = N + 1 /\ \A n \in 1..l : stores'[n] = stores[n]
    BY <1>1, <1>5, <2>2, <2>3, PushedStores
  <2>5. stores'[N].var = "slot" /\ stores'[N + 1].v = ownBottom + 1
    <3>1. \E i : stores'[N] = StoreSlot(Target, i, pushed + 1)
      BY <1>1, <1>5, <2>2, PushedStores
    <3>2. stores'[N + 1] = StoreBottom(ownBottom + 1)
      BY <1>1, <1>5, <2>2, PushedStores
    <3> QED
      BY <3>1, <3>2 DEF StoreSlot, StoreBottom
  <2>6. (N = l + 2 /\ stores'[l + 1].var = "buffer") \/ N = l + 1
    <3>1. /\ Full => N = l + 2 /\ stores'[l + 1] = StoreBuffer(Target)
          /\ ~ Full => N = l + 1
      BY <1>1, <1>5, <2>2, <2>3, PushedStores
    <3> QED
      BY <3>1 DEF StoreBuffer
  <2>7. ownBottom + 1 >= -1
    <3>1. top <= ownBottom
      BY <1>2, <2>1 DEF Bounded, Limit
    <3> QED
      BY <1>2, <3>1
  <2>8. DOMAIN stores' = 1..(N + 1) /\ DOMAIN stores = 1..l
    BY <1>2, <2>3, <2>4, LenProperties
  <2>9. \A n \in 1..(N + 1) : n \in 1..l \/ n = l + 1 \/ n = N \/ n = N + 1
    BY <2>6
  <2>10. ASSUME NEW n \in DOMAIN stores', stores'[n].var = "bottom" PROVE stores'[n].v >= -1
    <3>1. n \in 1..l \/ n = N + 1
      BY <2>5, <2>6, <2>8, <2>9, <2>10
    <3> QED
      BY <2>4, <2>5, <2>7, <2>8, <2>10, <3>1 DEF Low
  <2> QED
    BY <2>1, <2>10 DEF Low
<1>6. CASE PopReserve
  <2>1. /\ owner.at = "idle" /\ stores' = Append(stores, StoreBottom(ownBottom - 1)) /\ bottom' = bottom
    BY <1>6 DEF PopReserve
  <2>2. top <= ownBottom
    BY <1>2, <2>1 DEF Bounded, Limit
  <2>3. ownBottom - 1 \in Int /\ ownBottom - 1 >= -1
    BY <1>2, <2>2
  <2> QED
    BY <1>3, <2>1, <2>3
<1>7. CASE PopRestore
  <2>1. /\ owner.at = "restore" /\ stores' = Append(stores, StoreBottom(owner.b + 1)) /\ bottom' = bottom
    BY <1>7 DEF PopRestore
  <2>2. owner.b + 1 = top
    BY <1>2, <2>1 DEF Bounded
  <2>3. owner.b + 1 \in Int /\ owner.b + 1 >= -1
    BY <1>2, <2>2, SMTT(30)
  <2> QED
    BY <1>3, <2>1, <2>3
<1>8. CASE UNCHANGED <<bottom, stores>>
  BY <1>8 DEF Low
<1>9. ASSUME PopLoad \/ PopMany \/ PopLast \/ (\E w \in Thieves : Steal(w)) \/ UNCHANGED vars
      PROVE  UNCHANGED <<bottom, stores>>
  BY <1>9 DEF PopLoad, PopMany, PopLast, Steal, StealTop, StealBottom, StealBuffer, StealSlot,
              StealCas, own, vars
<1> QED
  BY <1>4, <1>5, <1>6, <1>7, <1>8, <1>9 DEF Next, Pop

-----------------------------------------------------------------------------
(* The theorems. *)

(* Every variable keeps its type: the indices and the buffers that push,   *)
(* pop and steal work with are in range.                                   *)
THEOREM TypeCorrect == Spec => []TypeOK
<1> DEFINE I == DequeInv /\ Low
<1>1. Init => I
  BY InvInit DEF Init, Low
<1>2. I /\ [Next]_vars => I'
  BY InvStep, LowStep
<1>3. I => TypeOK
  <2> SUFFICES ASSUME DequeInv, Low PROVE TypeOK
    OBVIOUS
  <2>1. PICK item \in [Nat -> Nat] : Deque(item)
    BY DEF DequeInv
  <2>2. Typed /\ Bounded
    BY <2>1 DEF Deque
  <2>3. /\ top \in Nat /\ bottom \in Int /\ ownBottom \in Int /\ Limit \in Int
        /\ buffer \in Nat /\ ownBuffer \in Nat /\ buffer >= 1 /\ buffer <= ownBuffer
    BY <2>2, IndexType
  <2>4. top <= Limit /\ Limit <= pushed /\ pushed \in Nat /\ pushed <= MaxPushes /\ bottom <= Limit
    BY <2>2, DequeAssumption DEF Bounded, Typed
  <2>5. ownBottom = Limit \/ ownBottom = Limit - 1
    <3>1. CASE owner.at = "idle"
      BY <3>1 DEF Limit
    <3>2. CASE owner.at # "idle"
      <4>1. ownBottom = owner.b /\ Limit = owner.b + 1
        BY <2>2, <3>2 DEF Bounded, Limit
      <4> QED
        BY <2>3, <4>1
    <3> QED
      BY <3>1, <3>2
  <2>6. bottom >= -1 /\ MaxPushes \in Nat
    BY DequeAssumption DEF Low
  <2>7. top \in 0..MaxPushes /\ bottom \in -1..MaxPushes /\ ownBottom \in -1..MaxPushes
    BY <2>3, <2>4, <2>5, <2>6
  <2>8. buffer \in 1..ownBuffer /\ ownBuffer \in 1..ownBuffer
    BY <2>3
  <2>9. DOMAIN buffers = 1..ownBuffer
    BY <2>2, LenProperties DEF Typed
  <2>10. /\ owner.at \in {"idle", "fence", "take", "restore"}
         /\ \A w \in Thieves : thief[w].at \in {"idle", "bottom", "buffer", "slot", "cas"}
    BY <2>2 DEF Typed, Owners, Robbers
  <2> QED
    BY <2>7, <2>8, <2>9, <2>10 DEF TypeOK
<1> QED
  BY <1>1, <1>2, <1>3, PTL DEF Spec

(* What has been returned, by its place. *)
LEMMA ReturnedAt ==
    ASSUME NEW item, Deque(item)
    PROVE  /\ \A i \in DOMAIN Returned : \/ \E n \in DOMAIN popped : Returned[i] = popped[n]
                                         \/ \E n \in DOMAIN stolen : Returned[i] = stolen[n]
           /\ \A n \in DOMAIN popped : \E i \in DOMAIN Returned : Returned[i] = popped[n]
           /\ \A n \in DOMAIN stolen : \E i \in DOMAIN Returned : Returned[i] = stolen[n]
           /\ \A i, j \in DOMAIN Returned : Returned[i] = Returned[j] => i = j
<1> USE DEF Deque
<1>1. popped \in Seq(Nat) /\ stolen \in Seq(Nat)
  BY DEF Typed
<1>2. PICK p \in Nat : p = Len(popped) /\ DOMAIN popped = 1..p
  BY <1>1, LenProperties
<1>3. PICK s \in Nat : s = Len(stolen) /\ DOMAIN stolen = 1..s
  BY <1>1, LenProperties
<1>4. /\ Returned \in Seq(Nat) /\ Len(Returned) = p + s
      /\ \A i \in 1..(p + s) : Returned[i] = IF i <= p THEN popped[i] ELSE stolen[i - p]
  <2>1. /\ Returned \in Seq(Nat) /\ Len(Returned) = Len(popped) + Len(stolen)
        /\ \A i \in 1..(Len(popped) + Len(stolen)) :
              Returned[i] = IF i <= Len(popped) THEN popped[i] ELSE stolen[i - Len(popped)]
    BY <1>1, ConcatProperties, Zenon DEF Returned
  <2> QED
    BY <1>2, <1>3, <2>1, Zenon
<1>5. DOMAIN Returned = 1..(p + s)
  BY <1>4, LenProperties
<1>6. \A i \in 1..(p + s) : (i <= p => i \in 1..p) /\ (~(i <= p) => i - p \in 1..s /\ i \in Int)
  OBVIOUS
<1>7. ASSUME NEW i \in DOMAIN Returned
      PROVE  \/ i \in DOMAIN popped /\ Returned[i] = popped[i]
             \/ i - p \in DOMAIN stolen /\ Returned[i] = stolen[i - p] /\ i \in Int
  BY <1>2, <1>3, <1>4, <1>5, <1>6
<1>8. ASSUME NEW i \in DOMAIN Returned, NEW j \in DOMAIN Returned, Returned[i] = Returned[j]
      PROVE  i = j
  <2>1. CASE i \in DOMAIN popped /\ Returned[i] = popped[i]
    <3>1. CASE j \in DOMAIN popped /\ Returned[j] = popped[j]
      BY <1>8, <2>1, <3>1 DEF Accounted
    <3>2. CASE j - p \in DOMAIN stolen /\ Returned[j] = stolen[j - p]
      BY <1>8, <2>1, <3>2 DEF Accounted
    <3> QED
      BY <1>7, <3>1, <3>2
  <2>2. CASE i - p \in DOMAIN stolen /\ Returned[i] = stolen[i - p] /\ i \in Int
    <3>1. CASE j \in DOMAIN popped /\ Returned[j] = popped[j]
      BY <1>8, <2>2, <3>1 DEF Accounted
    <3>2. CASE j - p \in DOMAIN stolen /\ Returned[j] = stolen[j - p] /\ j \in Int
      <4>1. \A m, n \in DOMAIN stolen : m < n => stolen[m] < stolen[n]
        BY DEF Accounted
      <4>2. \A m \in DOMAIN stolen : m \in Int /\ stolen[m] \in Int
        BY <1>1, <1>3, ElementOfSeq
      <4>3. \A m, n \in DOMAIN stolen : stolen[m] = stolen[n] => m = n
        BY <4>1, <4>2
      <4>4. i - p = j - p
        BY <1>8, <2>2, <3>2, <4>3
      <4> QED
        BY <2>2, <3>2, <4>4
    <3> QED
      BY <1>7, <3>1, <3>2
  <2> QED
    BY <1>7, <2>1, <2>2
<1>9. ASSUME NEW n \in DOMAIN popped PROVE \E i \in DOMAIN Returned : Returned[i] = popped[n]
  <2>1. \A m \in 1..p : m \in 1..(p + s) /\ m <= p
    OBVIOUS
  <2> QED
    BY <1>2, <1>4, <1>5, <2>1
<1>10. ASSUME NEW n \in DOMAIN stolen PROVE \E i \in DOMAIN Returned : Returned[i] = stolen[n]
  <2>1. \A m \in 1..s : p + m \in 1..(p + s) /\ ~(p + m <= p) /\ (p + m) - p = m
    OBVIOUS
  <2>2. Returned[p + n] = stolen[n]
    BY <1>3, <1>4, <2>1
  <2> QED
    BY <1>3, <1>5, <2>1, <2>2
<1> QED
  BY <1>7, <1>8, <1>9, <1>10

(* No item is returned twice, made up, or stolen out of order, for any     *)
(* number of thieves and every interleaving of push, pop and steal.        *)
THEOREM ItemsTakenOnce == Spec => []TakenOnce
<1>1. Init => DequeInv
  BY InvInit
<1>2. DequeInv /\ [Next]_vars => DequeInv'
  BY InvStep
<1>3. DequeInv => TakenOnce
  <2> SUFFICES ASSUME NEW item \in [Nat -> Nat], Deque(item) PROVE TakenOnce
    BY DEF DequeInv
  <2>1. Accounted(item)
    BY DEF Deque
  <2>2. \A i \in DOMAIN Returned : Returned[i] \in 1..pushed
    BY <2>1, ReturnedAt DEF Accounted
  <2>3. \A i, j \in DOMAIN Returned : Returned[i] = Returned[j] => i = j
    BY ReturnedAt
  <2> QED
    BY <2>1, <2>2, <2>3 DEF TakenOnce, Accounted
<1> QED
  BY <1>1, <1>2, <1>3, PTL DEF Spec
(* The items of the deque are the ones that have not been returned. *)
LEMMA LiveRemain ==
    ASSUME NEW item \in [Nat -> Nat], Deque(item)
    PROVE  /\ \A i \in Live : item[i] \in Remaining
           /\ Limit - top = Cardinality(Remaining)
<1> USE DEF Deque
<1>1. top \in Nat /\ Limit \in Int /\ top <= Limit /\ \A i \in Live : i \in Nat
  BY IndexType DEF Bounded
<1>2. ASSUME NEW i \in Live PROVE item[i] \in Remaining
  <2>1. /\ item[i] \in 1..pushed /\ item[i] \in Nat
        /\ \A n \in DOMAIN popped : popped[n] # item[i]
        /\ \A n \in DOMAIN stolen : stolen[n] < item[i]
    BY <1>1 DEF Accounted
  <2>2. \A n \in DOMAIN stolen : stolen[n] # item[i]
    <3>1. \A n \in DOMAIN stolen : stolen[n] \in 1..pushed
      BY DEF Accounted
    <3> QED
      BY <2>1, <3>1
  <2> QED
    BY <2>1, <2>2, ReturnedAt DEF Remaining
<1>3. ASSUME NEW v \in Remaining PROVE \E i \in Live : item[i] = v
  <2>1. v \in 1..pushed /\ \A i \in DOMAIN Returned : Returned[i] # v
    BY DEF Remaining
  <2>2. /\ \A n \in DOMAIN popped : popped[n] # v
        /\ \A n \in DOMAIN stolen : stolen[n] # v
    BY <2>1, ReturnedAt
  <2> QED
    BY <2>1, <2>2 DEF Accounted
<1>4. ASSUME NEW i \in Live, NEW j \in Live, item[i] = item[j] PROVE i = j
  <2>1. \A x, y \in Live : x < y => item[x] < item[y]
    BY DEF Accounted
  <2>2. i \in Nat /\ j \in Nat /\ item[i] \in Nat
    BY <1>1
  <2>3. ~(i < j) /\ ~(j < i)
    BY <1>4, <2>1, <2>2
  <2> QED
    BY <2>2, <2>3
<1> DEFINE f == [i \in Live |-> item[i]]
<1>5. f \in Bijection(Live, Remaining)
  <2>1. f \in [Live -> Remaining]
    BY <1>2
  <2>2. \A i, j \in Live : f[i] = f[j] => i = j
    BY <1>4
  <2>3. \A v \in Remaining : \E i \in Live : f[i] = v
    BY <1>3
  <2> QED
    BY <2>1, <2>2, <2>3 DEF Bijection, Injection, Surjection, IsInjective
<1>6. ExistsBijection(Live, Remaining)
  BY <1>5 DEF ExistsBijection
<1>7. IsFiniteSet(Live) /\ Cardinality(Live) = Limit - top
  <2>1. PICK l \in Int : l = Limit - 1
    BY <1>1
  <2>2. Live = top..l /\ top \in Int
    BY <1>1, <2>1 DEF Live
  <2>3. IsFiniteSet(top..l) /\ Cardinality(top..l) = IF top > l THEN 0 ELSE l - top + 1
    BY <2>2, FS_Interval
  <2>4. (IF top > l THEN 0 ELSE l - top + 1) = Limit - top
    BY <1>1, <2>1
  <2> QED
    BY <2>2, <2>3, <2>4
<1>8. Cardinality(Remaining) = Cardinality(Live)
  BY <1>6, <1>7, FS_Bijection
<1> QED
  BY <1>2, <1>7, <1>8

(* No item is lost: when no call is under way, the live range of the       *)
(* current buffer holds exactly the items that have not been returned, in  *)
(* the order in which they were pushed.                                    *)
THEOREM ItemsNotLost == Spec => []NothingLost
<1>1. Init => DequeInv
  BY InvInit
<1>2. DequeInv /\ [Next]_vars => DequeInv'
  BY InvStep
<1>3. DequeInv => NothingLost
  <2> SUFFICES ASSUME NEW item \in [Nat -> Nat], Deque(item), owner.at = "idle", stores = <<>>
               PROVE  /\ bottom - top = Cardinality(Remaining)
                      /\ \A i, j \in top..(bottom - 1) :
                            /\ buffers[buffer][Slot(i, buffer)] \in Remaining
                            /\ i < j => buffers[buffer][Slot(i, buffer)] < buffers[buffer][Slot(j, buffer)]
    BY DEF DequeInv, NothingLost, Quiet
  <2> USE DEF Deque
  <2>1. DOMAIN stores = {}
    OBVIOUS
  <2>2. Limit = bottom /\ Live = top..(bottom - 1) /\ buffer = ownBuffer
    BY <2>1 DEF Newest, Limit, Live
  <2>3. \A i \in Live : buffers[buffer][Slot(i, buffer)] = item[i]
    <3>1. buffer \in buffer..ownBuffer
      BY IndexType
    <3> QED
      BY <2>1, <3>1 DEF Valid
  <2>4. \A i, j \in Live : i < j => item[i] < item[j]
    BY DEF Accounted
  <2>5. (\A i \in Live : item[i] \in Remaining) /\ Limit - top = Cardinality(Remaining)
    BY LiveRemain
  <2> QED
    BY <2>2, <2>3, <2>4, <2>5
<1> QED
  BY <1>1, <1>2, <1>3, PTL DEF Spec

=============================================================================

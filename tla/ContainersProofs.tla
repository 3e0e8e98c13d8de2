-------------------------- MODULE ContainersProofs --------------------------
(***************************************************************************)
(* Proofs about the containers of lib/: the queues for every capacity they *)
(* may be asked for, the ordered buffer for every number of slots, the     *)
(* hash table for every number of buckets and every set of indices.        *)
(*                                                                         *)
(* RoundRobin, first: type correctness is inductive; that the rings are    *)
(* bounded queues then follows step by step.  The indices are counted      *)
(* modulo the size, a divisor no solver knows: the first lemmas say what   *)
(* the remainder is below twice the size, and after them there is only     *)
(* linear arithmetic.                                                      *)
(***************************************************************************)
EXTENDS MCContainers, SequenceTheorems, WellFoundedInduction, TLAPS

LEMMA SmallModulo ==
  ASSUME NEW a \in Int, NEW n \in Int, 0 <= a, a < n
  PROVE  a % n = a
  BY Z3

LEMMA WrappedModulo ==
  ASSUME NEW a \in Int, NEW n \in Int, n <= a, a < 2 * n, n > 0
  PROVE  a % n = a - n
  BY Z3

\* Remainders of what is at most twice the size.
LEMMA Modulo ==
  ASSUME NEW a \in Int, NEW n \in Int, 0 <= a, a < 2 * n
  PROVE  a % n = IF a < n THEN a ELSE a - n
<1>1. CASE a < n
  BY <1>1, SmallModulo
<1>2. CASE a >= n
  BY <1>2, WrappedModulo
<1> QED
  BY <1>1, <1>2

LEMMA AdvanceWraps ==
  ASSUME NEW n \in Nat, NEW i \in Nat, i < n
  PROVE  /\ Advance(n, i) = IF i + 1 < n THEN i + 1 ELSE 0
         /\ Advance(n, i) \in Nat
         /\ Advance(n, i) \in Slots(n)
<1>1. PICK a \in Int : a = i + 1
  OBVIOUS
<1>2. 0 <= a /\ a < 2 * n /\ n \in Int
  BY <1>1
<1>3. a % n = IF a < n THEN a ELSE a - n
  BY <1>2, Modulo
<1>4. Advance(n, i) = a % n
  BY <1>1 DEF Advance
<1> QED
  BY <1>1, <1>3, <1>4 DEF Slots

(***************************************************************************)
(* Type correctness.                                                       *)
(***************************************************************************)
LEMMA StoredTyped ==
  ASSUME TypeOK, NEW r \in Ring, NEW i \in Slots(size[r]), NEW e \in Element
  PROVE  /\ Store(r, i, e) \in [Ring -> Memory]
         /\ \A q \in Ring : DOMAIN Store(r, i, e)[q] = DOMAIN data[q]
         /\ \A q \in Ring \ {r} : Store(r, i, e)[q] = data[q]
         /\ \A k \in DOMAIN data[r] \ {i} : Store(r, i, e)[r][k] = data[r][k]
         /\ Store(r, i, e)[r][i] = e
<1>1. PICK n \in 0 .. SlotBytes : data[r] \in [Slots(n) -> Element]
  BY DEF TypeOK, Memory
<1>2. i \in DOMAIN data[r]
  BY DEF TypeOK
<1>3. [data[r] EXCEPT ![i] = e] \in [Slots(n) -> Element]
  BY <1>1, <1>2
<1>4. [data[r] EXCEPT ![i] = e] \in Memory
  BY <1>1, <1>3 DEF Memory
<1>5. Store(r, i, e) \in [Ring -> Memory]
  BY <1>4 DEF Store, TypeOK
<1>6. Store(r, i, e)[r] = [data[r] EXCEPT ![i] = e]
  BY DEF Store, TypeOK
<1>7. \A q \in Ring \ {r} : Store(r, i, e)[q] = data[q]
  BY DEF Store, TypeOK
<1>8. DOMAIN Store(r, i, e)[r] = DOMAIN data[r]
  BY <1>6
<1>9. \A q \in Ring : DOMAIN Store(r, i, e)[q] = DOMAIN data[q]
  BY <1>7, <1>8
<1> QED
  BY <1>1, <1>2, <1>5, <1>6, <1>7, <1>9

LEMMA InitTyped == Init => TypeOK
<1> SUFFICES ASSUME Init PROVE TypeOK
  OBVIOUS
<1>1. << >> \in [Slots(0) -> Element]
  BY DEF Slots
<1>2. << >> \in Memory
  BY <1>1, SlotBytesAssumption DEF Memory
<1>3. data \in [Ring -> Memory]
  BY <1>2 DEF Init
<1>4. /\ first \in [Ring -> Nat] /\ last \in [Ring -> Nat]
      /\ size \in [Ring -> Nat] /\ overrun \in BOOLEAN
  BY DEF Init
<1>5. Slots(0) = {}
  BY DEF Slots
<1>6. \A r \in Ring : size[r] = 0
  BY DEF Init
<1> QED
  BY <1>3, <1>4, <1>5, <1>6 DEF TypeOK

\* Calls that move the indices of one queue and store in its slots.
LEMMA IndicesTyped ==
  ASSUME TypeOK, NEW r \in Ring, size[r] > 0, UNCHANGED <<size, overrun>>,
         data' \in [Ring -> Memory],
         \A q \in Ring : DOMAIN data'[q] = DOMAIN data[q],
         NEW f \in Nat, f < size[r], NEW l \in Nat, l < size[r],
         first' = [first EXCEPT ![r] = f], last' = [last EXCEPT ![r] = l]
  PROVE  TypeOK'
<1>1. first' \in [Ring -> Nat] /\ last' \in [Ring -> Nat]
  BY DEF TypeOK
<1>2. \A q \in Ring : size'[q] > 0 =>
        first'[q] \in Slots(size'[q]) /\ last'[q] \in Slots(size'[q])
  BY DEF TypeOK, Slots
<1> QED
  BY <1>1, <1>2 DEF TypeOK, Memory, Slots

\* The indices of a queue that is there.
LEMMA InRing ==
  ASSUME TypeOK, NEW r \in Ring, size[r] > 0
  PROVE  /\ size[r] \in Nat
         /\ first[r] \in Nat /\ 0 <= first[r] /\ first[r] < size[r]
         /\ last[r] \in Nat /\ 0 <= last[r] /\ last[r] < size[r]
  BY DEF TypeOK, Slots

LEMMA CreateTyped ==
  ASSUME TypeOK, NEW r \in Ring, NEW n \in Capacity, RR_create(r, n)
  PROVE  TypeOK'
<1>1. n \in Nat /\ n + 1 \in 0 .. SlotBytes
  BY CapacityAssumption, SlotBytesAssumption
<1>2. PICK contents \in [Slots(n + 1) -> Element] :
        data' = [data EXCEPT ![r] = contents]
  BY DEF RR_create
<1>3. contents \in Memory
  BY <1>1 DEF Memory
<1>4. data' \in [Ring -> Memory]
  BY <1>2, <1>3 DEF TypeOK
<1>5. /\ size' \in [Ring -> Nat] /\ first' \in [Ring -> Nat]
      /\ last' \in [Ring -> Nat] /\ overrun' \in BOOLEAN
  BY <1>1 DEF RR_create, Returns, TypeOK
<1>6. ASSUME NEW q \in Ring
      PROVE  /\ Slots(size'[q]) \subseteq DOMAIN data'[q]
             /\ size'[q] > 0 =>
                  first'[q] \in Slots(size'[q]) /\ last'[q] \in Slots(size'[q])
  <2>1. CASE q = r
    <3>1. /\ size'[q] = n + 1 /\ first'[q] = 0 /\ last'[q] = 0
          /\ data'[q] = contents
      BY <1>2, <2>1 DEF RR_create, TypeOK
    <3>2. 0 \in Slots(n + 1)
      BY <1>1 DEF Slots
    <3> QED
      BY <3>1, <3>2
  <2>2. CASE q # r
    <3>1. /\ size'[q] = size[q] /\ first'[q] = first[q] /\ last'[q] = last[q]
          /\ data'[q] = data[q]
      BY <1>2, <2>2 DEF RR_create, TypeOK
    <3> QED
      BY <3>1 DEF TypeOK
  <2> QED
    BY <2>1, <2>2
<1> QED
  BY <1>4, <1>5, <1>6 DEF TypeOK

LEMMA DestroyTyped ==
  ASSUME TypeOK, NEW r \in Ring, RR_destroy(r)
  PROVE  TypeOK'
<1>1. << >> \in [Slots(0) -> Element] /\ Slots(0) = {}
  BY DEF Slots
<1>2. << >> \in Memory
  BY <1>1, SlotBytesAssumption DEF Memory
<1>3. data' \in [Ring -> Memory]
  BY <1>2 DEF RR_destroy, TypeOK
<1>4. /\ size' \in [Ring -> Nat] /\ first' \in [Ring -> Nat]
      /\ last' \in [Ring -> Nat] /\ overrun' \in BOOLEAN
  BY DEF RR_destroy, Returns, TypeOK
<1>5. ASSUME NEW q \in Ring
      PROVE  /\ Slots(size'[q]) \subseteq DOMAIN data'[q]
             /\ size'[q] > 0 =>
                  first'[q] \in Slots(size'[q]) /\ last'[q] \in Slots(size'[q])
  <2>1. CASE q = r
    <3>1. size'[q] = 0
      BY <2>1 DEF RR_destroy, TypeOK
    <3> QED
      BY <1>1, <3>1
  <2>2. CASE q # r
    <3>1. /\ size'[q] = size[q] /\ first'[q] = first[q] /\ last'[q] = last[q]
          /\ data'[q] = data[q]
      BY <2>2 DEF RR_destroy, TypeOK
    <3> QED
      BY <3>1 DEF TypeOK
  <2> QED
    BY <2>1, <2>2
<1> QED
  BY <1>3, <1>4, <1>5 DEF TypeOK

LEMMA PushTyped ==
  ASSUME TypeOK, NEW r \in Ring
  PROVE  /\ \A e \in Element : RR_push_fd(r, e) => TypeOK'
         /\ RR_push(r) => TypeOK'
         /\ \A op \in Pulls : Pull(r, op) => TypeOK'
<1>1. ASSUME NEW e \in Element, RR_push_fd(r, e) PROVE TypeOK'
  <2>1. size[r] > 0
    BY <1>1 DEF RR_push_fd, Usable
  <2>2. /\ Advance(size[r], last[r]) \in Nat
        /\ Advance(size[r], last[r]) < size[r]
        /\ last[r] \in Slots(size[r])
    BY <2>1, InRing, AdvanceWraps DEF Slots
  <2>3. /\ data' \in [Ring -> Memory]
        /\ \A q \in Ring : DOMAIN data'[q] = DOMAIN data[q]
    BY <1>1, <2>2, StoredTyped DEF RR_push_fd
  <2>4. first' = [first EXCEPT ![r] = first[r]]
    BY <1>1 DEF RR_push_fd, TypeOK
  <2> QED
    BY <1>1, <2>1, <2>2, <2>3, <2>4, InRing, IndicesTyped
    DEF RR_push_fd, Returns
<1>2. ASSUME RR_push(r) PROVE TypeOK'
  <2>1. size[r] > 0
    BY <1>2 DEF RR_push, Usable
  <2>2. /\ Advance(size[r], last[r]) \in Nat
        /\ Advance(size[r], last[r]) < size[r]
    BY <2>1, InRing, AdvanceWraps DEF Slots
  <2>3. first' = [first EXCEPT ![r] = first[r]] /\ data' = data
    BY <1>2 DEF RR_push, TypeOK
  <2> QED
    BY <1>2, <2>1, <2>2, <2>3, InRing, IndicesTyped
    DEF RR_push, Returns, TypeOK
<1>3. ASSUME NEW op \in Pulls, Pull(r, op) PROVE TypeOK'
  <2>1. size[r] > 0
    BY <1>3 DEF Pull, Usable
  <2>2. /\ Advance(size[r], first[r]) \in Nat
        /\ Advance(size[r], first[r]) < size[r]
    BY <2>1, InRing, AdvanceWraps DEF Slots
  <2>3. last' = [last EXCEPT ![r] = last[r]] /\ data' = data
    BY <1>3 DEF Pull, TypeOK
  <2> QED
    BY <1>3, <2>1, <2>2, <2>3, InRing, IndicesTyped DEF Pull, Returns, TypeOK
<1> QED
  BY <1>1, <1>2, <1>3

LEMMA CountInRing ==
  ASSUME TypeOK, NEW r \in Ring, size[r] > 0
  PROVE  Count(r) \in Nat /\ 0 <= Count(r) /\ Count(r) < size[r]
  BY InRing DEF Count

\* Where the k-th slot in use is, for any k up to the one behind the last.
LEMMA SlotWraps ==
  ASSUME TypeOK, NEW r \in Ring, size[r] > 0, NEW k \in Nat, k < size[r]
  PROVE  /\ SlotAt(r, k) = IF first[r] + k < size[r] THEN first[r] + k
                           ELSE first[r] + k - size[r]
         /\ SlotAt(r, k) \in Nat /\ SlotAt(r, k) < size[r]
         /\ SlotAt(r, k) \in Slots(size[r])
<1>1. PICK a \in Int : a = first[r] + k
  BY InRing
<1>2. PICK n \in Int : n = size[r]
  BY InRing
<1>3. 0 <= a /\ a < 2 * n
  BY <1>1, <1>2, InRing
<1>4. a % n = IF a < n THEN a ELSE a - n
  BY <1>3, Modulo
<1>5. SlotAt(r, k) = a % n
  BY <1>1, <1>2 DEF SlotAt
<1> QED
  BY <1>1, <1>2, <1>3, <1>4, <1>5, InRing DEF Slots

LEMMA CopyTyped ==
  ASSUME TypeOK, NEW r \in Ring, NEW src \in Ring \ {r}, RR_copy(r, src)
  PROVE  TypeOK'
<1> DEFINE copied == [i \in Allocated(r) |->
                        IF i < size[src] THEN data[src][i] ELSE data[r][i]]
<1>1. /\ data' = [data EXCEPT ![r] = copied]
      /\ Slots(size[src]) \subseteq Allocated(r)
      /\ size[src] > 0
  BY DEF RR_copy, Usable
<1>2. PICK n \in 0 .. SlotBytes : data[r] \in [Slots(n) -> Element]
  BY DEF TypeOK, Memory
<1>3. PICK m \in 0 .. SlotBytes : data[src] \in [Slots(m) -> Element]
  BY DEF TypeOK, Memory
<1>4. Allocated(r) = Slots(n)
  BY <1>2 DEF Allocated
<1>5. ASSUME NEW i \in Slots(n) PROVE copied[i] \in Element
  <2>1. CASE i < size[src]
    <3>1. i \in Slots(size[src])
      BY <2>1, <1>1, InRing DEF Slots
    <3>2. i \in Slots(m)
      BY <3>1, <1>3 DEF TypeOK
    <3> QED
      BY <2>1, <3>2, <1>3, <1>4
  <2>2. CASE ~(i < size[src])
    BY <2>2, <1>2, <1>4
  <2> QED
    BY <2>1, <2>2
<1>6. copied \in [Slots(n) -> Element]
  BY <1>4, <1>5
<1>7. copied \in Memory
  BY <1>2, <1>6 DEF Memory
<1>8. DOMAIN copied = Allocated(r)
  OBVIOUS
<1> HIDE DEF copied
<1>9. data' \in [Ring -> Memory]
  BY <1>1, <1>7 DEF TypeOK
<1>10. /\ size' \in [Ring -> Nat] /\ first' \in [Ring -> Nat]
       /\ last' \in [Ring -> Nat] /\ overrun' \in BOOLEAN
  BY DEF RR_copy, Returns, TypeOK
<1>11. ASSUME NEW q \in Ring
       PROVE  /\ Slots(size'[q]) \subseteq DOMAIN data'[q]
              /\ size'[q] > 0 =>
                   first'[q] \in Slots(size'[q]) /\ last'[q] \in Slots(size'[q])
  <2>1. CASE q = r
    <3>1. /\ size'[q] = size[src] /\ first'[q] = first[src]
          /\ last'[q] = last[src] /\ data'[q] = copied
      BY <1>1, <2>1 DEF RR_copy, TypeOK
    <3> QED
      BY <1>1, <1>8, <3>1 DEF TypeOK
  <2>2. CASE q # r
    <3>1. /\ size'[q] = size[q] /\ first'[q] = first[q] /\ last'[q] = last[q]
          /\ data'[q] = data[q]
      BY <1>1, <2>2 DEF RR_copy, TypeOK
    <3> QED
      BY <3>1 DEF TypeOK
  <2> QED
    BY <2>1, <2>2
<1> QED
  BY <1>9, <1>10, <1>11 DEF TypeOK

LEMMA DeleteTyped ==
  ASSUME TypeOK, NEW r \in Ring, NEW e \in Element, RR_delete(r, e)
  PROVE  TypeOK'
<1>1. size[r] > 0 /\ UNCHANGED <<size, overrun>>
  BY DEF RR_delete, Usable, DeleteAt, Returns
<1>2. PICK k \in 0 .. Count(r) : DeleteAt(r, SlotAt(r, k))
  BY DEF RR_delete
<1>3. k \in Nat /\ k < size[r]
  <2>1. Count(r) \in Nat /\ Count(r) < size[r] /\ size[r] \in Nat
    BY <1>1, CountInRing, InRing
  <2> QED
    BY <2>1
<1>4. PICK i \in Nat : i = SlotAt(r, k) /\ i < size[r]
  BY <1>1, <1>3, SlotWraps
<1>5. DeleteAt(r, i)
  BY <1>2, <1>4
<1> HIDE DEF SlotAt
<1>6. CASE i > last[r]
  <2>1. last[r] + 1 \in Nat /\ last[r] + 1 < size[r]
    BY <1>1, <1>4, <1>6, InRing
  <2>2. last[r] + 1 \in Slots(size[r])
    BY <1>1, <2>1, InRing DEF Slots
  <2>3. PICK x \in Element : data' = Store(r, last[r] + 1, x)
    BY <1>4, <1>5, <1>6, InRing, <1>1 DEF DeleteAt
  <2>4. /\ data' \in [Ring -> Memory]
        /\ \A q \in Ring : DOMAIN data'[q] = DOMAIN data[q]
    BY <2>2, <2>3, StoredTyped
  <2>5. /\ last' = [last EXCEPT ![r] = Advance(size[r], last[r] + 1)]
        /\ first' = [first EXCEPT ![r] = first[r]]
    BY <1>1, <1>4, <1>5, <1>6, InRing DEF DeleteAt, TypeOK
  <2>6. /\ Advance(size[r], last[r] + 1) \in Nat
        /\ Advance(size[r], last[r] + 1) < size[r]
    BY <1>1, <2>1, InRing, AdvanceWraps DEF Slots
  <2> QED
    BY <1>1, <2>4, <2>5, <2>6, InRing, IndicesTyped
<1>7. CASE i <= last[r]
  <2>1. /\ last' = [last EXCEPT ![r] = Advance(size[r], last[r])]
        /\ \/ /\ i < first[r]
              /\ \E x \in Element : data' = Store(r, i, x)
              /\ first' = [first EXCEPT ![r] = first[r] - 1]
           \/ data' = data /\ first' = first
    BY <1>1, <1>4, <1>5, <1>7, InRing DEF DeleteAt
  <2>2. /\ Advance(size[r], last[r]) \in Nat
        /\ Advance(size[r], last[r]) < size[r]
    BY <1>1, InRing, AdvanceWraps DEF Slots
  <2>3. CASE i < first[r] /\ \E x \in Element : data' = Store(r, i, x)
                          /\ first' = [first EXCEPT ![r] = first[r] - 1]
    <3>1. /\ data' \in [Ring -> Memory]
          /\ \A q \in Ring : DOMAIN data'[q] = DOMAIN data[q]
      BY <1>1, <1>4, <2>3, StoredTyped, InRing DEF Slots
    <3>2. first[r] - 1 \in Nat /\ first[r] - 1 < size[r]
      BY <1>1, <1>4, <2>3, InRing
    <3> QED
      BY <1>1, <2>1, <2>2, <2>3, <3>1, <3>2, IndicesTyped
  <2>4. CASE data' = data /\ first' = first
    <3>1. first' = [first EXCEPT ![r] = first[r]]
      BY <2>4 DEF TypeOK
    <3>2. /\ data' \in [Ring -> Memory]
          /\ \A q \in Ring : DOMAIN data'[q] = DOMAIN data[q]
      BY <2>4 DEF TypeOK
    <3> QED
      BY <1>1, <2>1, <2>2, <3>1, <3>2, InRing, IndicesTyped
  <2> QED
    BY <2>1, <2>3, <2>4
<1> QED
  BY <1>1, <1>4, <1>6, <1>7, InRing

LEMMA QuietTyped ==
  ASSUME TypeOK, UNCHANGED <<data, indices>>, overrun' \in BOOLEAN
  PROVE  TypeOK'
  BY DEF indices, TypeOK, Memory, Slots

LEMMA StepTyped == TypeOK /\ [Next]_vars => TypeOK'
<1> SUFFICES ASSUME TypeOK, [Next]_vars PROVE TypeOK'
  OBVIOUS
<1>1. CASE UNCHANGED vars
  BY <1>1, QuietTyped DEF vars, indices, TypeOK
<1>2. ASSUME NEW r \in Ring,
             \/ Refused(r, "push_fd") \/ Refused(r, "push")
             \/ \E op \in Pulls : PullNothing(r, op)
             \/ RR_isEmpty(r)
             \/ \E src \in Ring \ {r} : CopyOutside(r, src)
             \/ \E e \in Element : DeleteNothing(r, e)
             \/ RR_getAll(r)
      PROVE  TypeOK'
  <2>1. UNCHANGED <<data, indices>> /\ overrun' \in BOOLEAN
    BY <1>2 DEF Refused, PullNothing, RR_isEmpty, CopyOutside, DeleteNothing,
                RR_getAll, Returns, TypeOK
  <2> QED
    BY <2>1, QuietTyped
<1>3. ASSUME NEW r \in Ring,
             \/ \E n \in Capacity : RR_create(r, n)
             \/ RR_destroy(r)
             \/ \E e \in Element : RR_push_fd(r, e)
             \/ RR_push(r)
             \/ \E op \in Pulls : Pull(r, op)
             \/ \E src \in Ring \ {r} : RR_copy(r, src)
             \/ \E e \in Element : RR_delete(r, e)
      PROVE  TypeOK'
  BY <1>3, CreateTyped, DestroyTyped, PushTyped, CopyTyped, DeleteTyped
<1> QED
  BY <1>1, <1>2, <1>3 DEF Next

\* The indices of every queue stay in its slots, and the slots in its memory,
\* also after RR_copy between queues of different capacity that fit each other
\* and after every way RR_delete moves the indices.
THEOREM RoundRobinTypeOK == Spec => []TypeOK
  BY InitTyped, StepTyped, PTL DEF Spec

(***************************************************************************)
(* The rings are bounded queues.                                           *)
(***************************************************************************)
LEMMA InSlots ==
  ASSUME TypeOK, NEW r \in Ring, size[r] > 0
  PROVE  \A i \in Slots(size[r]) : data[r][i] \in Element
<1>1. PICK n \in 0 .. SlotBytes : data[r] \in [Slots(n) -> Element]
  BY DEF TypeOK, Memory
<1>2. \A i \in Slots(size[r]) : i \in DOMAIN data[r]
  BY DEF TypeOK
<1> QED
  BY <1>1, <1>2

LEMMA ContentsOf ==
  ASSUME TypeOK, NEW r \in Ring, size[r] > 0
  PROVE  /\ Contents(r) \in Seq(Element)
         /\ Len(Contents(r)) = Count(r)
         /\ \A k \in 1 .. Count(r) :
              Contents(r)[k] = data[r][SlotAt(r, k - 1)]
<1>1. Count(r) \in Nat /\ Count(r) < size[r] /\ size[r] \in Nat
  BY CountInRing, InRing
<1>2. ASSUME NEW k \in 1 .. Count(r) PROVE data[r][SlotAt(r, k - 1)] \in Element
  <2>1. k - 1 \in Nat /\ k - 1 < size[r]
    BY <1>1
  <2> QED
    BY <2>1, SlotWraps, InSlots
<1>3. Contents(r) = [k \in 1 .. Count(r) |-> data[r][SlotAt(r, k - 1)]]
  BY DEF Contents
<1> HIDE DEF Contents
<1> QED
  BY <1>1, <1>2, <1>3, IsASeq

LEMMA ContentsStay ==
  ASSUME NEW r \in Ring, data'[r] = data[r], first'[r] = first[r],
         last'[r] = last[r], size'[r] = size[r]
  PROVE  Contents(r)' = Contents(r)
  BY DEF Contents, Count, SlotAt

CapacityOf(r) == IF size[r] > 0 THEN size[r] - 1 ELSE 0

\* A step of one queue.
LEMMA OneQueueMoves ==
  ASSUME NEW r \in Ring,
         \A q \in Ring \ {r} :
           /\ data'[q] = data[q] /\ first'[q] = first[q]
           /\ last'[q] = last[q] /\ size'[q] = size[q]
  PROVE  /\ Queues' = [Queues EXCEPT ![r] = Contents(r)']
         /\ Capacities' = [Capacities EXCEPT ![r] = CapacityOf(r)']
<1>1. \A q \in Ring \ {r} :
        Contents(q)' = Contents(q) /\ CapacityOf(q)' = CapacityOf(q)
  BY ContentsStay DEF CapacityOf
<1>2. Queues' = [q \in Ring |-> Contents(q)']
  BY DEF Queues
<1>3. Capacities' = [q \in Ring |-> CapacityOf(q)']
  BY DEF Capacities, CapacityOf
<1>4. /\ Queues = [q \in Ring |-> Contents(q)]
      /\ Capacities = [q \in Ring |-> CapacityOf(q)]
  BY DEF Queues, Capacities, CapacityOf
<1> HIDE DEF Contents, CapacityOf, Queues, Capacities
<1>5. Queues' = [Queues EXCEPT ![r] = Contents(r)']
  BY <1>1, <1>2, <1>4
<1>6. Capacities' = [Capacities EXCEPT ![r] = CapacityOf(r)']
  BY <1>1, <1>3, <1>4
<1> QED
  BY <1>5, <1>6

LEMMA NothingMoves ==
  ASSUME UNCHANGED <<data, indices>>
  PROVE  Queues' = Queues /\ Capacities' = Capacities
  BY DEF indices, Queues, Capacities, Contents, Count, SlotAt

LEMMA InitImplements == Init => Abstract!Init
<1> SUFFICES ASSUME Init PROVE Abstract!Init
  OBVIOUS
<1>1. \A r \in Ring : size[r] = 0
  BY DEF Init
<1>2. Queues = [r \in Ring |-> << >>]
  BY <1>1 DEF Queues, Contents
<1>3. Capacities = [r \in Ring |-> 0]
  BY <1>1 DEF Capacities
<1> QED
  BY <1>2, <1>3 DEF Init, Abstract!Init

LEMMA CreateImplements ==
  ASSUME TypeOK, NEW r \in Ring, NEW n \in Capacity, RR_create(r, n)
  PROVE  Abstract!Create(r, n)
<1>1. /\ \A q \in Ring \ {r} :
           /\ data'[q] = data[q] /\ first'[q] = first[q]
           /\ last'[q] = last[q] /\ size'[q] = size[q]
      /\ size'[r] = n + 1 /\ first'[r] = 0 /\ last'[r] = 0
  BY DEF RR_create, TypeOK
<1>2. n \in Nat
  BY CapacityAssumption
<1>3. Count(r)' = 0
  BY <1>1 DEF Count
<1>4. Contents(r)' = << >>
  BY <1>1, <1>2, <1>3 DEF Contents
<1>5. CapacityOf(r)' = n
  BY <1>1, <1>2 DEF CapacityOf
<1> QED
  BY <1>1, <1>4, <1>5, OneQueueMoves
  DEF RR_create, Returns, Abstract!Create, Abstract!Returns

LEMMA DestroyImplements ==
  ASSUME TypeOK, NEW r \in Ring, RR_destroy(r)
  PROVE  Abstract!Destroy(r)
<1>1. /\ \A q \in Ring \ {r} :
           /\ data'[q] = data[q] /\ first'[q] = first[q]
           /\ last'[q] = last[q] /\ size'[q] = size[q]
      /\ size'[r] = 0
  BY DEF RR_destroy, TypeOK
<1>2. Contents(r)' = << >> /\ CapacityOf(r)' = 0
  BY <1>1 DEF Contents, CapacityOf
<1> QED
  BY <1>1, <1>2, OneQueueMoves
  DEF RR_destroy, Returns, Abstract!Destroy, Abstract!Returns

LEMMA FullIsAtCapacity ==
  ASSUME TypeOK, NEW r \in Ring, size[r] > 0
  PROVE  Full(r) <=> Count(r) = size[r] - 1
  BY InRing DEF Full, Count

LEMMA EmptyIsNone ==
  ASSUME TypeOK, NEW r \in Ring, size[r] > 0
  PROVE  /\ Empty(r) <=> Count(r) = 0
         /\ Empty(r) <=> Contents(r) = << >>
<1>1. Empty(r) <=> Count(r) = 0
  BY InRing DEF Empty, Count
<1>2. Count(r) = 0 <=> Contents(r) = << >>
  BY ContentsOf, EmptySeq, CountInRing
<1> QED
  BY <1>1, <1>2

\* The slot at last becomes the queue's last one, whatever is in it.
LEMMA AcceptImplements ==
  ASSUME TypeOK, TypeOK', NEW r \in Ring, size[r] > 0, ~Full(r),
         last' = [last EXCEPT ![r] = Advance(size[r], last[r])],
         UNCHANGED <<first, size>>,
         \A q \in Ring \ {r} : data'[q] = data[q],
         \A i \in Slots(size[r]) \ {last[r]} : data'[r][i] = data[r][i]
  PROVE  Abstract!Accept(r, data'[r][last[r]])
<1> DEFINE e == data'[r][last[r]]
<1>1. /\ size[r] \in Nat /\ first[r] \in Nat /\ first[r] < size[r]
      /\ last[r] \in Nat /\ last[r] < size[r]
      /\ Count(r) \in Nat /\ Count(r) < size[r] - 1
  BY InRing, CountInRing, FullIsAtCapacity
<1>2. /\ size'[r] = size[r] /\ first'[r] = first[r]
      /\ last'[r] = IF last[r] + 1 < size[r] THEN last[r] + 1 ELSE 0
  BY <1>1, AdvanceWraps DEF TypeOK
<1>3. Count(r)' = Count(r) + 1
  BY <1>1, <1>2 DEF Count
<1>4. e \in Element
  <2>1. last[r] \in Slots(size'[r])
    BY <1>1, <1>2 DEF Slots
  <2>2. (TypeOK /\ size[r] > 0 => \A i \in Slots(size[r]) : data[r][i] \in Element)'
    BY InSlots, PTL
  <2> QED
    BY <2>1, <2>2, <1>2
<1>5. ASSUME NEW k \in Nat, k <= Count(r)
      PROVE  /\ SlotAt(r, k)' = SlotAt(r, k)
             /\ SlotAt(r, k) \in Slots(size[r])
             /\ SlotAt(r, k) = last[r] <=> k = Count(r)
  <2>1. SlotAt(r, k)' = SlotAt(r, k)
    BY <1>2 DEF SlotAt
  <2>2. k < size[r]
    BY <1>1, <1>5
  <2>3. SlotAt(r, k) = IF first[r] + k < size[r] THEN first[r] + k
                       ELSE first[r] + k - size[r]
    BY <2>2, SlotWraps
  <2>4. SlotAt(r, k) \in Slots(size[r])
    BY <2>2, SlotWraps
  <2>5. SlotAt(r, k) = last[r] <=> k = Count(r)
    BY <1>1, <1>5, <2>3 DEF Count
  <2> QED
    BY <2>1, <2>4, <2>5
<1>6. /\ Contents(r) \in Seq(Element) /\ Len(Contents(r)) = Count(r)
      /\ \A k \in 1 .. Count(r) : Contents(r)[k] = data[r][SlotAt(r, k - 1)]
  BY ContentsOf
<1>7. /\ Contents(r)' \in Seq(Element) /\ Len(Contents(r)') = Count(r)'
      /\ \A k \in 1 .. Count(r)' :
           Contents(r)'[k] = data'[r][SlotAt(r, k - 1)']
  <2>1. (TypeOK /\ size[r] > 0 =>
           /\ Contents(r) \in Seq(Element) /\ Len(Contents(r)) = Count(r)
           /\ \A k \in 1 .. Count(r) : Contents(r)[k] = data[r][SlotAt(r, k - 1)])'
    BY ContentsOf, PTL
  <2> QED
    BY <2>1, <1>2
<1> DEFINE s == Append(Contents(r), e)
<1> HIDE DEF e
<1>8. /\ s \in Seq(Element) /\ Len(s) = Count(r) + 1
      /\ \A k \in 1 .. Count(r) : s[k] = Contents(r)[k]
      /\ s[Count(r) + 1] = e
  BY <1>4, <1>6, AppendProperties
<1>9. ASSUME NEW k \in 1 .. Count(r) + 1 PROVE Contents(r)'[k] = s[k]
  <2>0. k - 1 \in Nat /\ k - 1 <= Count(r)
    BY <1>1
  <2>1. Contents(r)'[k] = data'[r][SlotAt(r, k - 1)]
    BY <2>0, <1>3, <1>5, <1>7
  <2>2. CASE k = Count(r) + 1
    <3>1. SlotAt(r, k - 1) = last[r]
      BY <2>0, <2>2, <1>1, <1>5
    <3> QED
      BY <2>1, <2>2, <3>1, <1>8 DEF e
  <2>3. CASE k # Count(r) + 1
    <3>1. SlotAt(r, k - 1) # last[r] /\ SlotAt(r, k - 1) \in Slots(size[r])
      BY <2>0, <2>3, <1>1, <1>5
    <3>2. k \in 1 .. Count(r)
      BY <2>3, <1>1
    <3> QED
      BY <2>1, <3>1, <3>2, <1>6, <1>8
  <2> QED
    BY <2>2, <2>3
<1>10. Contents(r)' = s
  BY <1>3, <1>7, <1>8, <1>9, SeqEqual
<1>11. CapacityOf(r)' = CapacityOf(r) /\ CapacityOf(r) = size[r] - 1
  BY <1>1, <1>2 DEF CapacityOf
<1>12. /\ Queues' = [Queues EXCEPT ![r] = s]
       /\ Capacities' = [Capacities EXCEPT ![r] = CapacityOf(r)]
  BY <1>10, <1>11, OneQueueMoves DEF TypeOK
<1>13. /\ Queues[r] = Contents(r) /\ Capacities[r] = size[r] - 1
       /\ Capacities' = Capacities
  BY <1>11, <1>12 DEF Queues, Capacities, CapacityOf
<1> QED
  BY <1>1, <1>6, <1>12, <1>13 DEF Abstract!Accept, e

LEMMA PushImplements ==
  ASSUME TypeOK, TypeOK', NEW r \in Ring
  PROVE  /\ \A e \in Element : RR_push_fd(r, e) => Abstract!Push(r, e)
         /\ RR_push(r) => Abstract!PushAnything(r)
<1>1. ASSUME NEW e \in Element, RR_push_fd(r, e) PROVE Abstract!Push(r, e)
  <2>1. /\ size[r] > 0 /\ ~Full(r) /\ UNCHANGED <<first, size>>
        /\ last' = [last EXCEPT ![r] = Advance(size[r], last[r])]
        /\ data' = Store(r, last[r], e)
    BY <1>1 DEF RR_push_fd, Usable
  <2>2. last[r] \in Slots(size[r])
    BY <2>1 DEF TypeOK
  <2>3. /\ \A q \in Ring \ {r} : data'[q] = data[q]
        /\ \A i \in Slots(size[r]) \ {last[r]} : data'[r][i] = data[r][i]
        /\ data'[r][last[r]] = e
    BY <2>1, <2>2, StoredTyped DEF TypeOK
  <2>4. Abstract!Accept(r, e)
    BY <2>1, <2>3, AcceptImplements
  <2> QED
    BY <1>1, <2>4 DEF RR_push_fd, Returns, Abstract!Push, Abstract!Returns
<1>2. ASSUME RR_push(r) PROVE Abstract!PushAnything(r)
  <2>1. /\ size[r] > 0 /\ ~Full(r) /\ UNCHANGED <<data, first, size>>
        /\ last' = [last EXCEPT ![r] = Advance(size[r], last[r])]
    BY <1>2 DEF RR_push, Usable
  <2>2. Abstract!Accept(r, data'[r][last[r]])
    BY <2>1, AcceptImplements
  <2>3. data'[r][last[r]] \in Element
    BY <2>1, InSlots DEF TypeOK
  <2> QED
    BY <1>2, <2>2, <2>3
    DEF RR_push, Returns, Abstract!PushAnything, Abstract!Returns
<1> QED
  BY <1>1, <1>2

LEMMA RefuseImplements ==
  ASSUME TypeOK, NEW r \in Ring, NEW op, Refused(r, op)
  PROVE  Abstract!Refuse(r, op)
<1>1. size[r] > 0 /\ Full(r) /\ UNCHANGED <<data, indices>>
  BY DEF Refused, Usable
<1>2. Len(Contents(r)) = size[r] - 1
  BY <1>1, FullIsAtCapacity, ContentsOf
<1>3. Queues[r] = Contents(r) /\ Capacities[r] = size[r] - 1
  BY <1>1 DEF Queues, Capacities
<1>4. Queues' = Queues /\ Capacities' = Capacities
  BY <1>1, NothingMoves
<1> QED
  BY <1>2, <1>3, <1>4
  DEF Refused, Returns, Abstract!Refuse, Abstract!Returns, Abstract!Unchanged

LEMMA PullImplements ==
  ASSUME TypeOK, TypeOK', NEW r \in Ring, NEW op, Pull(r, op)
  PROVE  Abstract!Pull(r, op)
<1>1. /\ size[r] > 0 /\ ~Empty(r) /\ UNCHANGED <<data, last, size>>
      /\ first' = [first EXCEPT ![r] = Advance(size[r], first[r])]
  BY DEF Pull, Usable
<1>2. /\ size[r] \in Nat /\ first[r] \in Nat /\ first[r] < size[r]
      /\ last[r] \in Nat /\ last[r] < size[r]
      /\ Count(r) \in Nat /\ 0 < Count(r) /\ Count(r) < size[r]
  BY <1>1, InRing, CountInRing, EmptyIsNone
<1>3. /\ size'[r] = size[r] /\ last'[r] = last[r] /\ data'[r] = data[r]
      /\ first'[r] = IF first[r] + 1 < size[r] THEN first[r] + 1 ELSE 0
  BY <1>1, <1>2, AdvanceWraps DEF TypeOK
<1>4. Count(r)' = Count(r) - 1
  BY <1>1, <1>2, <1>3 DEF Count, Empty
<1>5. /\ Contents(r) \in Seq(Element) /\ Len(Contents(r)) = Count(r)
      /\ \A k \in 1 .. Count(r) : Contents(r)[k] = data[r][SlotAt(r, k - 1)]
  BY <1>1, ContentsOf
<1>6. /\ Contents(r)' \in Seq(Element) /\ Len(Contents(r)') = Count(r)'
      /\ \A k \in 1 .. Count(r)' :
           Contents(r)'[k] = data'[r][SlotAt(r, k - 1)']
  <2>1. (TypeOK /\ size[r] > 0 =>
           /\ Contents(r) \in Seq(Element) /\ Len(Contents(r)) = Count(r)
           /\ \A k \in 1 .. Count(r) : Contents(r)[k] = data[r][SlotAt(r, k - 1)])'
    BY ContentsOf, PTL
  <2> QED
    BY <2>1, <1>1, <1>3
<1>7. ASSUME NEW k \in Nat, k + 1 < size[r]
      PROVE  SlotAt(r, k)' = SlotAt(r, k + 1)
  <2>1. SlotAt(r, k + 1) = IF first[r] + (k + 1) < size[r]
                           THEN first[r] + (k + 1)
                           ELSE first[r] + (k + 1) - size[r]
    BY <1>1, <1>7, SlotWraps
  <2>2. (TypeOK /\ size[r] > 0 /\ k < size[r] =>
           SlotAt(r, k) = IF first[r] + k < size[r] THEN first[r] + k
                          ELSE first[r] + k - size[r])'
    BY SlotWraps, PTL
  <2>3. SlotAt(r, k)' = IF first'[r] + k < size[r] THEN first'[r] + k
                        ELSE first'[r] + k - size[r]
    BY <2>2, <1>1, <1>2, <1>3, <1>7
  <2> QED
    BY <2>1, <2>3, <1>2, <1>3, <1>7
<1>8. Contents(r) # << >>
  BY <1>1, EmptyIsNone
<1>9. /\ Tail(Contents(r)) \in Seq(Element)
      /\ Len(Tail(Contents(r))) = Count(r) - 1
      /\ \A k \in 1 .. Count(r) - 1 : Tail(Contents(r))[k] = Contents(r)[k + 1]
  BY <1>5, <1>8, HeadTailProperties
<1>10. ASSUME NEW k \in 1 .. Count(r) - 1
       PROVE  Contents(r)'[k] = Tail(Contents(r))[k]
  <2>1. k - 1 \in Nat /\ (k - 1) + 1 = k /\ k < size[r] /\ k + 1 \in 1 .. Count(r)
        /\ (k + 1) - 1 = k /\ k \in 1 .. Count(r)'
    BY <1>2, <1>4
  <2>2. SlotAt(r, k - 1)' = SlotAt(r, k)
    <3>1. SlotAt(r, k - 1)' = SlotAt(r, (k - 1) + 1)
      BY <2>1, <1>7
    <3> QED
      BY <3>1, <2>1
  <2>3. Contents(r)'[k] = data[r][SlotAt(r, k)]
    BY <2>1, <2>2, <1>3, <1>6
  <2>4. Contents(r)[k + 1] = data[r][SlotAt(r, k)]
    <3>1. Contents(r)[k + 1] = data[r][SlotAt(r, (k + 1) - 1)]
      BY <2>1, <1>5
    <3> QED
      BY <3>1, <2>1
  <2> QED
    BY <2>3, <2>4, <1>9
<1>11. Contents(r)' = Tail(Contents(r))
  BY <1>4, <1>6, <1>9, <1>10, SeqEqual
<1>12. Head(Contents(r)) = data[r][first[r]]
  <2>1. SlotAt(r, 0) = first[r]
    BY <1>1, <1>2, SlotWraps
  <2>2. Contents(r)[1] = data[r][SlotAt(r, 1 - 1)]
    BY <1>2, <1>5
  <2>3. Head(Contents(r)) = Contents(r)[1]
    BY <1>5, <1>8
  <2> QED
    BY <2>1, <2>2, <2>3
<1>13. CapacityOf(r)' = CapacityOf(r) /\ CapacityOf(r) = Capacities[r]
  BY <1>3 DEF CapacityOf, Capacities
<1>14. /\ Queues' = [Queues EXCEPT ![r] = Tail(Contents(r))]
       /\ Capacities' = [Capacities EXCEPT ![r] = CapacityOf(r)]
  BY <1>1, <1>11, <1>13, OneQueueMoves DEF TypeOK
<1>15. Queues[r] = Contents(r) /\ Capacities' = Capacities
  BY <1>13, <1>14 DEF Queues, Capacities
<1> QED
  BY <1>8, <1>12, <1>14, <1>15
  DEF Pull, Returns, Abstract!Pull, Abstract!Returns

LEMMA AnswersImplement ==
  ASSUME TypeOK, NEW r \in Ring
  PROVE  /\ \A op \in Pulls : PullNothing(r, op) => Abstract!PullNothing(r, op)
         /\ RR_isEmpty(r) => Abstract!IsEmpty(r)
         /\ \A e \in Element : DeleteNothing(r, e) => Abstract!DeleteNothing(r)
<1>1. Queues[r] = Contents(r)
  BY DEF Queues
<1>2. ASSUME NEW op \in Pulls, PullNothing(r, op)
      PROVE  Abstract!PullNothing(r, op)
  <2>1. Contents(r) = << >>
    BY <1>2, EmptyIsNone DEF PullNothing, Usable
  <2>2. Queues' = Queues /\ Capacities' = Capacities
    BY <1>2, NothingMoves DEF PullNothing
  <2>3. \E x \in NoneFor(op) : ret' = [op |-> op, val |-> <<x>>]
    BY <1>2 DEF PullNothing, Returns
  <2>4. NoneFor(op) = Abstract!NoneFor(op)
    BY DEF NoneFor, Abstract!NoneFor
  <2> QED
    BY <1>1, <2>1, <2>2, <2>3, <2>4
    DEF Abstract!PullNothing, Abstract!Returns, Abstract!Unchanged
<1>3. ASSUME RR_isEmpty(r) PROVE Abstract!IsEmpty(r)
  <2>1. Empty(r) <=> Contents(r) = << >>
    BY <1>3, EmptyIsNone DEF RR_isEmpty, Usable
  <2>2. Queues' = Queues /\ Capacities' = Capacities
    BY <1>3, NothingMoves DEF RR_isEmpty
  <2> QED
    BY <1>1, <1>3, <2>1, <2>2
    DEF RR_isEmpty, Returns, Abstract!IsEmpty, Abstract!Returns,
        Abstract!Unchanged
<1>4. ASSUME NEW e \in Element, DeleteNothing(r, e)
      PROVE  Abstract!DeleteNothing(r)
  BY <1>4, NothingMoves
  DEF DeleteNothing, Returns, Abstract!DeleteNothing, Abstract!Returns,
      Abstract!Unchanged
<1> QED
  BY <1>2, <1>3, <1>4

LEMMA CopyImplements ==
  ASSUME TypeOK, NEW r \in Ring, NEW src \in Ring \ {r}, RR_copy(r, src)
  PROVE  Abstract!Copy(r, src)
<1>1. /\ size[src] > 0 /\ Slots(size[src]) \subseteq Allocated(r)
      /\ \A i \in Allocated(r) :
           i < size[src] => data'[r][i] = data[src][i]
  BY DEF RR_copy, Usable, TypeOK
<1>2. /\ \A q \in Ring \ {r} :
           /\ data'[q] = data[q] /\ first'[q] = first[q]
           /\ last'[q] = last[q] /\ size'[q] = size[q]
      /\ size'[r] = size[src] /\ first'[r] = first[src] /\ last'[r] = last[src]
  BY DEF RR_copy, TypeOK
<1>3. Count(r)' = Count(src)
  BY <1>2 DEF Count
<1>4. ASSUME NEW k \in 1 .. Count(src)
      PROVE  data'[r][SlotAt(r, k - 1)'] = data[src][SlotAt(src, k - 1)]
  <2>1. /\ Count(src) \in Nat /\ Count(src) < size[src] /\ size[src] \in Nat
        /\ k - 1 \in Nat /\ k - 1 < size[src]
    BY <1>1, CountInRing, InRing
  <2>2. SlotAt(r, k - 1)' = SlotAt(src, k - 1)
    BY <1>2 DEF SlotAt
  <2>3. SlotAt(src, k - 1) \in Slots(size[src]) /\ SlotAt(src, k - 1) < size[src]
    BY <1>1, <2>1, SlotWraps
  <2> QED
    BY <1>1, <2>2, <2>3
<1>5. Contents(src) = [k \in 1 .. Count(src) |-> data[src][SlotAt(src, k - 1)]]
  BY <1>1, InRing DEF Contents
<1>6. Contents(r)' = [k \in 1 .. Count(src) |-> data'[r][SlotAt(r, k - 1)']]
  BY <1>1, <1>2, <1>3, InRing DEF Contents
<1>7. Contents(r)' = Contents(src)
  BY <1>4, <1>5, <1>6
<1>8. CapacityOf(r)' = Capacities[src]
  BY <1>2 DEF CapacityOf, Capacities
<1>9. Queues[src] = Contents(src)
  BY DEF Queues
<1> QED
  BY <1>2, <1>7, <1>8, <1>9, OneQueueMoves
  DEF RR_copy, Returns, Abstract!Copy, Abstract!Returns

LEMMA DeleteImplements ==
  ASSUME TypeOK, TypeOK', NEW r \in Ring, NEW e \in Element, RR_delete(r, e)
  PROVE  Abstract!Delete(r)
<1>1. /\ size[r] > 0 /\ size' = size
      /\ \E i \in {SlotAt(r, k) : k \in 0 .. Count(r)} : DeleteAt(r, i)
  BY DEF RR_delete, Usable, DeleteAt
<1>2. \A q \in Ring \ {r} :
        /\ data'[q] = data[q] /\ first'[q] = first[q]
        /\ last'[q] = last[q] /\ size'[q] = size[q]
  BY <1>1 DEF DeleteAt, Store, TypeOK
<1>3. /\ Contents(r)' \in Seq(Element) /\ Len(Contents(r)') = Count(r)'
      /\ Count(r)' \in Nat /\ Count(r)' < size'[r]
  <2>1. (TypeOK /\ size[r] > 0 =>
           /\ Contents(r) \in Seq(Element) /\ Len(Contents(r)) = Count(r)
           /\ Count(r) \in Nat /\ Count(r) < size[r])'
    BY ContentsOf, CountInRing, PTL
  <2> QED
    BY <2>1, <1>1
<1>4. /\ Queues' = [Queues EXCEPT ![r] = Contents(r)']
      /\ Capacities' = [Capacities EXCEPT ![r] = CapacityOf(r)']
  BY <1>2, OneQueueMoves
<1>5. CapacityOf(r)' = Capacities[r] /\ Capacities[r] = size[r] - 1
  BY <1>1 DEF CapacityOf, Capacities
<1>6. Capacities' = Capacities
  BY <1>4, <1>5 DEF Capacities
<1>7. Queues'[r] = Contents(r)'
  BY <1>4 DEF Queues
<1>8. Queues' = [Queues EXCEPT ![r] = Queues'[r]]
  BY <1>4, <1>7
<1>9. Len(Queues'[r]) <= Capacities[r] /\ Queues'[r] \in Seq(Element)
  BY <1>1, <1>3, <1>5, <1>7, InRing
<1> QED
  BY <1>6, <1>8, <1>9 DEF RR_delete, Returns, Abstract!Delete, Abstract!Returns

LEMMA GetAllImplements ==
  ASSUME TypeOK, NEW r \in Ring, RR_getAll(r)
  PROVE  Abstract!GetAll(r)
<1>1. size[r] > 0 /\ UNCHANGED <<data, indices>>
  BY DEF RR_getAll, Usable
<1>2. /\ size[r] \in Nat /\ first[r] \in Nat /\ first[r] < size[r]
      /\ Count(r) \in Nat /\ Count(r) < size[r]
  BY <1>1, InRing, CountInRing
<1> DEFINE n == IF first[r] < Count(r) THEN Count(r) - first[r] ELSE 0
<1>3. n \in 0 .. Count(r)
  BY <1>2
<1>4. Queues[r] = Contents(r) /\ Len(Contents(r)) = Count(r)
  BY <1>1, ContentsOf DEF Queues
<1>5. ASSUME NEW k \in 1 .. Count(r)
      PROVE  (IF first[r] + k - 1 < Count(r) THEN data[r][first[r] + k - 1] ELSE 0)
               = (IF k <= n THEN Contents(r)[k] ELSE 0)
  <2>1. k - 1 \in Nat /\ k - 1 < size[r]
    BY <1>2
  <2>2. first[r] + k - 1 < Count(r) <=> k <= n
    BY <1>2
  <2>3. CASE k <= n
    <3>1. first[r] + (k - 1) < size[r] /\ first[r] + (k - 1) = first[r] + k - 1
      BY <1>2, <2>2, <2>3
    <3>2. SlotAt(r, k - 1) = first[r] + (k - 1)
      BY <1>1, <2>1, <3>1, SlotWraps
    <3>3. Contents(r)[k] = data[r][first[r] + k - 1]
      BY <1>1, <3>1, <3>2, ContentsOf
    <3> QED
      BY <2>2, <2>3, <3>3
  <2> QED
    BY <2>2, <2>3
<1> HIDE DEF n
<1>6. ret' = [op |-> "getAll",
              val |-> [k \in 1 .. Count(r) |->
                         IF k <= n THEN Contents(r)[k] ELSE 0]]
  BY <1>5 DEF RR_getAll, Returns
<1>7. Queues' = Queues /\ Capacities' = Capacities
  BY <1>1, NothingMoves
<1> QED
  BY <1>3, <1>4, <1>6, <1>7
  DEF Abstract!GetAll, Abstract!Returns, Abstract!Unchanged

LEMMA StepImplements ==
  TypeOK /\ TypeOK' /\ [Next]_vars => [Abstract!Next]_(Abstract!vars)
<1> SUFFICES ASSUME TypeOK, TypeOK', [Next]_vars
             PROVE  [Abstract!Next]_(Abstract!vars)
  OBVIOUS
<1>1. CASE UNCHANGED vars
  BY <1>1, NothingMoves DEF vars, indices, Abstract!vars
<1>2. ASSUME NEW r \in Ring, NEW src \in Ring \ {r}, CopyOutside(r, src)
      PROVE  UNCHANGED Abstract!vars
  BY <1>2, NothingMoves DEF CopyOutside, Abstract!vars
<1>3. ASSUME NEW r \in Ring, \E n \in Capacity : RR_create(r, n)
      PROVE  Abstract!Next
  BY <1>3, CreateImplements DEF Abstract!Next
<1>4. ASSUME NEW r \in Ring, RR_destroy(r) PROVE Abstract!Next
  BY <1>4, DestroyImplements DEF Abstract!Next
<1>5. ASSUME NEW r \in Ring, Refused(r, "push_fd") \/ Refused(r, "push")
      PROVE  Abstract!Next
  BY <1>5, RefuseImplements DEF Abstract!Next
<1>6. ASSUME NEW r \in Ring,
             RR_push(r) \/ \E e \in Element : RR_push_fd(r, e)
      PROVE  Abstract!Next
  BY <1>6, PushImplements DEF Abstract!Next
<1>7. ASSUME NEW r \in Ring, NEW op \in Pulls, Pull(r, op) \/ PullNothing(r, op)
      PROVE  Abstract!Next
  <2>1. op \in Abstract!Pulls
    BY DEF Pulls, Abstract!Pulls
  <2> QED
    BY <1>7, <2>1, PullImplements, AnswersImplement DEF Abstract!Next
<1>8. ASSUME NEW r \in Ring,
             RR_isEmpty(r) \/ \E e \in Element : DeleteNothing(r, e)
      PROVE  Abstract!Next
  BY <1>8, AnswersImplement DEF Abstract!Next
<1>9. ASSUME NEW r \in Ring, NEW src \in Ring \ {r}, RR_copy(r, src)
      PROVE  Abstract!Next
  BY <1>9, CopyImplements DEF Abstract!Next
<1>10. ASSUME NEW r \in Ring, \E e \in Element : RR_delete(r, e)
       PROVE  Abstract!Next
  BY <1>10, DeleteImplements DEF Abstract!Next
<1>11. ASSUME NEW r \in Ring, RR_getAll(r) PROVE Abstract!Next
  BY <1>11, GetAllImplements DEF Abstract!Next
<1> QED
  BY <1>1, <1>2, <1>3, <1>4, <1>5, <1>6, <1>7, <1>8, <1>9, <1>10, <1>11
  DEF Next

\* Rings of every size are queues: whatever calls are mixed, each gives back
\* what RR_push_fd put into it in that order, up to the capacity it was
\* created for, also after its indices have wrapped.  What RR_push appends and
\* RR_delete leaves may be anything.
THEOREM RingsImplementQueues == Spec => ImplementsQueues
<1>1. TypeOK /\ TypeOK' /\ [Next]_vars => [Abstract!Next]_(Abstract!vars)
  BY StepImplements
<1> QED
  BY <1>1, InitImplements, RoundRobinTypeOK, PTL
  DEF Spec, ImplementsQueues, Abstract!Spec

(***************************************************************************)
(* The ordered buffer.                                                     *)
(***************************************************************************)
Inserters ==
  {"idle", "load", "store", "higher", "compare", "notify", "signal"}

Pullers == {"idle", "block", "wait", "unblock", "take", "load", "store"}

\* A byte of data is told apart by a number, or is one that calloc left.
AnyNumber == [NumberByte -> Byte]

AnyData == [DataByte -> AnyNumber \cup {Zeros}]

OB_Typed ==
  /\ created \in BOOLEAN /\ blocked \in BOOLEAN /\ outside \in BOOLEAN
  /\ disturbed \in BOOLEAN /\ apart \in BOOLEAN /\ missed \in BOOLEAN
  /\ tsn \in [Slot -> AnyNumber]
  /\ payload \in [Slot -> AnyData]
  /\ index \in 0 .. Word - 1
  /\ sem \in Nat
  /\ most \in Nat
  /\ inserter \in [pc : Inserters, tsn : AnyNumber, first : BOOLEAN,
                   loaded : 0 .. Word - 1]
  /\ puller \in [pc : Pullers, tsn : AnyNumber, waited : BOOLEAN,
                 loaded : 0 .. Word - 1, got : AnyData]

ZeroInFront == index > 0 /\ tsn[0] = expected_tsn

\* The buffer as OB_create makes it.
Fresh ==
  /\ index = 0 /\ most = 0 /\ due = {} /\ sem = 0
  /\ inserter = Idle /\ puller = AtRest
  /\ ~blocked /\ ~disturbed

\* What the two threads know of the buffer while neither meets the other
\* halfway: the waiter's signal stands for the element 0 in front of it.
Turns ==
  /\ ~Overlap /\ ~Surplus
  /\ sem = 1 => puller.pc = "wait" /\ ZeroInFront
  /\ puller.pc \in {"wait", "unblock"} => puller.waited
  /\ puller.pc = "unblock" => ZeroInFront
  /\ puller.pc = "take" =>
       IF puller.waited THEN ZeroInFront ELSE tsn[0] = puller.tsn
  /\ inserter.pc # "idle" /\ inserter.first => tsn[0] = inserter.tsn
  /\ inserter.pc \in {"load", "store"} => index < Size
  /\ inserter.pc = "store" => inserter.loaded = index
  /\ inserter.pc \in {"higher", "compare", "notify", "signal"} => index > 0
  /\ inserter.pc \in {"notify", "signal"} => tsn[0] = expected_tsn
  /\ inserter.pc = "signal" => puller.pc = "wait"
  /\ puller.pc \in {"load", "store"} => index <= Size
  /\ puller.pc = "store" => puller.loaded = index

\* How many elements there are, index being behind while a call changes it.
Elements ==
  IF inserter.pc \in {"load", "store"} THEN index + 1
  ELSE IF puller.pc \in {"load", "store"} THEN index - 1
  ELSE IF index <= Size THEN index ELSE 0

\* That the numbers agree above their lowest byte is what lets a pull move
\* them by that byte alone.
Sorted ==
  /\ {tsn[i] : i \in 0 .. Elements - 1} = due
  /\ \A i, j \in 0 .. Elements - 1 :
       i < j => Less(tsn[i], tsn[j]) /\ SameAboveLowest(tsn[i], tsn[j])

\* A pull has got the data of the number it asked for or waited for.
Answered ==
  puller.pc = "idle" \/ (puller.pc \in {"load", "store"} /\ index = 1) =>
    puller.got = DataOf(IF puller.waited THEN expected_tsn ELSE puller.tsn)

Together == Answered /\ (Elements = 1 => payload[0] = DataOf(tsn[0]))

OB_Inv ==
  /\ OB_Typed
  /\ ~created => Fresh
  /\ index <= most
  /\ blocked <=> (puller.pc \in {"wait", "unblock"})
  /\ ~disturbed => /\ Turns
                   /\ most <= 2 /\ ~apart /\ Elements <= 2 => Sorted
                   /\ most <= 1 /\ Elements <= 1 => Together

LEMMA LessDiffers ==
  ASSUME NEW n \in AnyNumber, NEW m \in AnyNumber, Less(n, m)
  PROVE  n # m
<1>1. PICK b \in NumberByte : n[b] < m[b]
  BY DEF Less
<1>2. n[b] \in Nat
  BY BytesAssumption DEF AnyNumber
<1> QED
  BY <1>1, <1>2

LEMMA BufferNumbers ==
  /\ Size \in Nat /\ Size > 0 /\ Word \in Nat /\ Size + 1 < Word /\ 2 < Word
  /\ 0 \in Slot /\ 0 \in 0 .. Word - 1
<1>1. Size \in Nat /\ Size > 0 /\ Word \in Nat /\ 2 * Size < Word
  BY SizeAssumption, WordAssumption
<1>2. Size + 1 < Word /\ 2 < Word
  BY <1>1
<1> QED
  BY <1>1, <1>2 DEF Slot

LEMMA NextIndex ==
  ASSUME NEW i \in 0 .. Word - 1
  PROVE  /\ (i + 1) % Word = IF i + 1 < Word THEN i + 1 ELSE 0
         /\ (i - 1) % Word = IF i > 0 THEN i - 1 ELSE Word - 1
         /\ (i + 1) % Word \in 0 .. Word - 1
         /\ (i - 1) % Word \in 0 .. Word - 1
<1>1. Word \in Nat /\ 2 < Word /\ i \in Nat /\ i < Word
  BY BufferNumbers
<1>2. PICK a \in Int : a = i + 1
  BY <1>1
<1>3. a % Word = IF a < Word THEN a ELSE a - Word
  <2>1. Word \in Int /\ 0 <= a /\ a < 2 * Word
    BY <1>1, <1>2
  <2> QED
    BY <2>1, Modulo
<1>4. PICK b \in Int : b = i - 1
  BY <1>1
<1>5. CASE i > 0
  <2>1. b % Word = b
    BY <1>1, <1>4, <1>5, SmallModulo
  <2> QED
    BY <1>1, <1>2, <1>3, <1>4, <1>5, <2>1
<1>6. CASE i = 0
  <2>1. b = -1 /\ a = 1
    BY <1>2, <1>4, <1>6
  <2>2. (-1) % Word = Word - 1
    BY <1>1, Z3
  <2> QED
    BY <1>1, <1>2, <1>3, <1>4, <1>6, <2>1, <2>2
<1> QED
  BY <1>1, <1>5, <1>6

LEMMA DataTyped ==
  /\ DataOf(Zeros) \in AnyData
  /\ \A n \in AnyNumber : DataOf(n) \in AnyData
  BY DEF DataOf, AnyData

\* Typing of the two calls' own state.
LEMMA CallsTyped ==
  /\ Idle \in [pc : Inserters, tsn : AnyNumber, first : BOOLEAN,
               loaded : 0 .. Word - 1]
  /\ AtRest \in [pc : Pullers, tsn : AnyNumber, waited : BOOLEAN,
                 loaded : 0 .. Word - 1, got : AnyData]
<1>1. expected_tsn \in AnyNumber
  BY BytesAssumption DEF expected_tsn, AnyNumber
<1>2. DataOf(expected_tsn) \in AnyData
  BY <1>1, DataTyped
<1> QED
  BY <1>1, <1>2, BufferNumbers DEF Idle, AtRest, Inserters, Pullers

LEMMA EmptyTyped ==
  /\ [i \in Slot |-> expected_tsn] \in [Slot -> AnyNumber]
  /\ [i \in Slot |-> DataOf(Zeros)] \in [Slot -> AnyData]
<1>1. expected_tsn \in AnyNumber
  BY BytesAssumption DEF expected_tsn, AnyNumber
<1>2. DataOf(Zeros) \in AnyData
  BY DataTyped
<1> QED
  BY <1>1, <1>2

LEMMA OB_InitHolds == OB_Init => OB_Inv
<1> SUFFICES ASSUME OB_Init PROVE OB_Inv
  OBVIOUS
<1>1. Fresh
  BY DEF OB_Init, Fresh
<1>2. OB_Typed
  <2>1. tsn \in [Slot -> AnyNumber] /\ payload \in [Slot -> AnyData]
    BY EmptyTyped DEF OB_Init
  <2> QED
    BY <2>1, BufferNumbers, CallsTyped DEF OB_Init, OB_Typed
<1>3. Turns
  BY <1>1 DEF Fresh, Turns, Overlap, Surplus, Idle, AtRest
<1>4. Elements = 0
  BY <1>1, BufferNumbers DEF Fresh, Elements, Idle, AtRest
<1>5. Sorted
  BY <1>1, <1>4 DEF Fresh, Sorted
<1>6. Together
  BY <1>1, <1>4 DEF Fresh, Together, Answered, AtRest, expected_tsn
<1> QED
  BY <1>1, <1>2, <1>3, <1>5, <1>6 DEF OB_Inv, Fresh, AtRest

\* The history variables, by themselves.
LEMMA HistoryHolds ==
  ASSUME OB_Inv, History, created' \in BOOLEAN, index' \in 0 .. Word - 1
  PROVE  /\ disturbed' \in BOOLEAN /\ most' \in Nat /\ index' <= most'
         /\ apart' \in BOOLEAN /\ missed' \in BOOLEAN
         /\ created' => most' >= most
         /\ created' /\ ~disturbed' => ~disturbed /\ ~Overlap' /\ ~Surplus'
         /\ created' /\ ~disturbed' /\ ~apart' => ~apart
<1>1. apart' \in BOOLEAN /\ missed' \in BOOLEAN
  BY DEF History
<1>2. created' /\ ~disturbed' /\ ~apart' => ~apart
  BY DEF History
<1> QED
  BY <1>1, <1>2, BufferNumbers DEF OB_Inv, OB_Typed, History

LEMMA DueKept ==
  ASSUME History, created', ~Begins, ~(puller.pc = "take" /\ puller'.pc = "load")
  PROVE  ~disturbed' => due' = due
  BY DEF History

LEMMA DueGrows ==
  ASSUME History, created', Begins, UNCHANGED puller
  PROVE  ~disturbed' => due' = due \cup {inserter'.tsn}
<1>1. ~(puller.pc = "take" /\ puller'.pc = "load")
  OBVIOUS
<1> QED
  BY <1>1 DEF History

\* A number that comes in keeps to those it finds.
LEMMA NotApart ==
  ASSUME History, created', Begins, ~disturbed', ~apart'
  PROVE  \A n \in due : SameAboveLowest(n, inserter'.tsn)
  BY DEF History

LEMMA CreateHolds ==
  ASSUME OB_Inv, History, OB_create
  PROVE  OB_Inv'
<1>1. Fresh /\ UNCHANGED <<tsn, payload, index, sync, inserter, puller, outside>>
  BY DEF OB_Inv, OB_create
<1>2. Overlap' = FALSE /\ Surplus' = FALSE
  BY <1>1 DEF Fresh, Overlap, Surplus, Idle, AtRest, sync
<1>3. most' = 0 /\ due' = {} /\ disturbed' = FALSE /\ created'
  <2>1. ~Begins /\ ~(puller.pc = "take" /\ puller'.pc = "load")
    BY <1>1 DEF Begins, Fresh, Idle, AtRest
  <2>2. created' = TRUE /\ ~disturbed /\ index' = 0 /\ most = 0 /\ due = {}
    BY <1>1 DEF OB_create, Fresh
  <2>3. disturbed' = FALSE /\ most' = 0
    BY <1>2, <2>2 DEF History
  <2> QED
    BY <2>1, <2>2, <2>3, DueKept
<1>4. Fresh'
  BY <1>1, <1>3 DEF Fresh, sync
<1>5. OB_Typed'
  <2>1. index' \in 0 .. Word - 1 /\ created' \in BOOLEAN
    BY <1>1, <1>3 DEF OB_Inv, OB_Typed
  <2>2. apart' \in BOOLEAN /\ missed' \in BOOLEAN
    BY <2>1, HistoryHolds
  <2> QED
    BY <1>1, <1>3, <2>2 DEF OB_Inv, OB_Typed, sync
<1>6. Turns'
  BY <1>4 DEF Fresh, Turns, Overlap, Surplus, Idle, AtRest
<1>7. Elements' = 0
  BY <1>4, BufferNumbers DEF Fresh, Elements, Idle, AtRest
<1>8. Sorted'
  BY <1>4, <1>7 DEF Fresh, Sorted
<1>9. Together'
  BY <1>4, <1>7 DEF Fresh, Together, Answered, AtRest, expected_tsn
<1> QED
  BY <1>3, <1>4, <1>5, <1>6, <1>8, <1>9 DEF OB_Inv, Fresh, AtRest

LEMMA DestroyHolds ==
  ASSUME OB_Inv, History, OB_destroy
  PROVE  OB_Inv'
<1>1. ~created' /\ index' = 0 /\ sem' = 0 /\ inserter' = Idle /\ puller' = AtRest
      /\ blocked' = FALSE
  BY DEF OB_destroy
<1>2. Fresh'
  BY <1>1 DEF Fresh, History, OB_Inv
<1>3. OB_Typed'
  <2>1. tsn' \in [Slot -> AnyNumber] /\ payload' \in [Slot -> AnyData]
    BY EmptyTyped DEF OB_destroy
  <2>2. created' \in BOOLEAN /\ outside' \in BOOLEAN
    BY <1>1 DEF OB_destroy, OB_Inv, OB_Typed
  <2>3. disturbed' = FALSE /\ apart' = FALSE /\ missed' = FALSE
    BY <1>1 DEF History
  <2>4. most' \in Nat /\ index' \in 0 .. Word - 1
    BY <1>1, <1>2, BufferNumbers DEF Fresh
  <2> QED
    BY <1>1, <2>1, <2>2, <2>3, <2>4, CallsTyped DEF OB_Typed
<1>6. Turns'
  BY <1>2 DEF Fresh, Turns, Overlap, Surplus, Idle, AtRest
<1>7. Elements' = 0
  BY <1>2, BufferNumbers DEF Fresh, Elements, Idle, AtRest
<1>8. Sorted'
  BY <1>2, <1>7 DEF Fresh, Sorted
<1>9. Together'
  BY <1>2, <1>7 DEF Fresh, Together, Answered, AtRest, expected_tsn
<1> QED
  BY <1>1, <1>2, <1>3, <1>6, <1>8, <1>9 DEF OB_Inv, Fresh, AtRest

LEMMA InsertFirstHolds ==
  ASSUME OB_Inv, History, NEW n \in Number, InsertFirst(n)
  PROVE  OB_Inv'
<1>1. /\ created /\ index = 0 /\ inserter.pc = "idle" /\ n \in AnyNumber
      /\ tsn' = [tsn EXCEPT ![0] = n]
      /\ payload' = [payload EXCEPT ![0] = DataOf(n)]
      /\ inserter' = [Idle EXCEPT !.pc = "load", !.tsn = n, !.first = TRUE]
      /\ UNCHANGED <<created, index, sync, puller, outside>>
  BY NumberAssumption DEF InsertFirst, Inserting, AnyNumber
<1>2. OB_Typed
  BY DEF OB_Inv
<1>3. /\ inserter'.pc = "load" /\ inserter'.tsn = n /\ inserter'.first = TRUE
      /\ inserter'.loaded = 0
  BY <1>1 DEF Idle
<1>4. /\ inserter' \in [pc : Inserters, tsn : AnyNumber, first : BOOLEAN,
                        loaded : 0 .. Word - 1]
      /\ tsn'[0] = n /\ payload'[0] = DataOf(n)
      /\ tsn' \in [Slot -> AnyNumber] /\ payload' \in [Slot -> AnyData]
  <2>1. inserter' = [pc |-> "load", tsn |-> n, first |-> TRUE, loaded |-> 0]
    BY <1>1 DEF Idle
  <2>2. "load" \in Inserters /\ 0 \in 0 .. Word - 1 /\ DataOf(n) \in AnyData
    BY <1>1, BufferNumbers, DataTyped DEF Inserters
  <2>3. tsn \in [Slot -> AnyNumber] /\ payload \in [Slot -> AnyData] /\ 0 \in Slot
    BY <1>2, BufferNumbers DEF OB_Typed
  <2>4. /\ tsn'[0] = n /\ payload'[0] = DataOf(n)
        /\ tsn' \in [Slot -> AnyNumber] /\ payload' \in [Slot -> AnyData]
    BY <1>1, <2>2, <2>3
  <2>5. inserter' \in [pc : Inserters, tsn : AnyNumber, first : BOOLEAN,
                      loaded : 0 .. Word - 1]
    <3>1. n \in AnyNumber
      BY <1>1
    <3> QED
      BY <2>1, <2>2, <3>1
  <2> QED
    BY <2>4, <2>5
<1>5. /\ disturbed' \in BOOLEAN /\ most' \in Nat /\ index' <= most'
      /\ most' >= most /\ apart' \in BOOLEAN /\ missed' \in BOOLEAN
      /\ ~disturbed' => ~disturbed /\ ~Overlap' /\ ~Surplus'
      /\ ~disturbed' /\ ~apart' => ~apart
  BY <1>1, <1>2, HistoryHolds DEF OB_Typed
<1>6. OB_Typed'
  BY <1>1, <1>2, <1>4, <1>5 DEF OB_Typed, sync
<1>7. ~disturbed' => due' = due \cup {n}
  BY <1>1, <1>3, DueGrows DEF Begins
<1>8. ASSUME ~disturbed'
      PROVE  /\ Turns'
             /\ most' <= 2 /\ ~apart' /\ Elements' <= 2 => Sorted'
             /\ most' <= 1 /\ Elements' <= 1 => Together'
  <2>1. /\ Turns /\ most' >= most /\ ~Overlap' /\ ~Surplus'
        /\ most <= 2 /\ ~apart /\ Elements <= 2 => Sorted
        /\ most <= 1 /\ Elements <= 1 => Together
    BY <1>5, <1>8 DEF OB_Inv
  <2>2. puller.pc \in {"idle", "wait"} /\ puller' = puller
    BY <1>1, <1>3, <2>1 DEF Overlap
  <2>3. sem # 1 /\ sem' = sem
    BY <1>1, <2>1 DEF Turns, ZeroInFront, sync
  <2>4. Turns'
    BY <1>1, <1>3, <1>4, <2>1, <2>2, <2>3, BufferNumbers DEF Turns
  <2>5. Elements = 0 /\ Elements' = 1
    BY <1>1, <1>3, <2>2, BufferNumbers DEF Elements
  <2>6. most' <= 2 /\ ~apart' => Sorted'
    <3>1. most' <= 2 /\ ~apart' => due = {}
      BY <1>2, <1>5, <1>8, <2>1, <2>5 DEF Sorted, OB_Typed
    <3>2. 0 .. Elements' - 1 = {0} /\ due' = due \cup {n}
      BY <1>7, <1>8, <2>5
    <3> QED
      BY <1>4, <3>1, <3>2 DEF Sorted
  <2>7. most' <= 1 => Together'
    <3>1. most' <= 1 => Together
      BY <1>2, <1>5, <2>1, <2>5 DEF OB_Typed
    <3> QED
      BY <1>4, <2>2, <3>1 DEF Together, Answered
  <2> QED
    BY <2>4, <2>6, <2>7
<1> QED
  BY <1>1, <1>3, <1>5, <1>6, <1>8 DEF OB_Inv, sync

\* The place behind which an element goes is that of one with a smaller number.
LEMMA GreatestExists ==
  ASSUME NEW S, S # {}, NEW b \in Nat, S \subseteq 0 .. b
  PROVE  \E m \in S : \A j \in S : j <= m
<1> DEFINE R == {ss \in Nat \X Nat : ss[1] < ss[2]}
           D == {k \in Nat : \A j \in S : j <= k}
<1>1. IsWellFoundedOn(R, Nat)
  BY NatLessThanWellFounded DEF OpToRel
<1>2. D \subseteq Nat /\ b \in D
  OBVIOUS
<1> HIDE DEF R
<1>3. PICK m \in D : \A y \in D : ~ (<<y, m>> \in R)
  <2>1. D # {}
    BY <1>2
  <2> HIDE DEF D
  <2> QED
    BY <1>1, <1>2, <2>1, WFMin
<1>4. m \in S
  <2> SUFFICES ASSUME m \notin S PROVE FALSE
    OBVIOUS
  <2>1. m \in Nat /\ \A j \in S : j <= m
    BY <1>3
  <2>2. \A j \in S : j \in Nat /\ j <= m /\ j # m
    BY <2>1
  <2>3. PICK k \in S : TRUE
    OBVIOUS
  <2>4. m - 1 \in Nat /\ m - 1 < m
    BY <2>1, <2>2, <2>3
  <2>5. \A j \in S : j <= m - 1
    BY <2>1, <2>2
  <2>6. m - 1 \in D
    BY <2>4, <2>5
  <2>7. <<m - 1, m>> \in R
    BY <2>1, <2>4 DEF R
  <2> QED
    BY <1>3, <2>6, <2>7
<1> QED
  BY <1>3, <1>4

LEMMA LastSmallerIs ==
  ASSUME OB_Typed, NEW n \in AnyNumber, index <= Size, Smaller(n) # {}
  PROVE  /\ LastSmaller(n) \in 0 .. index - 1 /\ index > 0
         /\ Less(tsn[LastSmaller(n)], n)
<1>1. index \in Nat /\ Held = 0 .. index - 1
  BY BufferNumbers DEF OB_Typed, Held
<1>2. Smaller(n) \subseteq 0 .. index - 1 /\ Smaller(n) \subseteq 0 .. index
  BY <1>1 DEF Smaller
<1>3. \E m \in Smaller(n) : \A j \in Smaller(n) : j <= m
  BY <1>1, <1>2, GreatestExists
<1>4. LastSmaller(n) \in Smaller(n)
  BY <1>3 DEF LastSmaller
<1> QED
  BY <1>1, <1>2, <1>4 DEF Smaller

\* A product with a positive factor.
LEMMA TimesAtLeast ==
  ASSUME NEW a \in Nat, NEW e \in Nat, e > 0
  PROVE  a * e \in Nat /\ a <= a * e
<1>1. PICK d \in Nat : e = d + 1
  <2>1. e - 1 \in Nat /\ e = (e - 1) + 1
    OBVIOUS
  <2> QED
    BY <2>1
<1>2. a * d \in Nat /\ a * e = a * d + a
  BY <1>1, Z3
<1> QED
  BY <1>2

\* What memmove leaves in the slots: bytes of numbers and data, and in the
\* slots in front of those it moves to what was there.
LEMMA MovedTyped ==
  ASSUME OB_Typed, NEW to \in Nat, NEW from \in Nat, NEW bytes \in Nat,
         \A s \in Slot, b \in Nat : Covers(to, bytes, s, b) => s - to + from \in Slot
  PROVE  /\ MovedNumbers(to, from, bytes) \in [Slot -> AnyNumber]
         /\ MovedData(to, from, bytes) \in [Slot -> AnyData]
         /\ \A s \in Slot : s < to => /\ MovedNumbers(to, from, bytes)[s] = tsn[s]
                                    /\ MovedData(to, from, bytes)[s] = payload[s]
<1>1. tsn \in [Slot -> AnyNumber] /\ payload \in [Slot -> AnyData]
  BY DEF OB_Typed
<1>2. \A b \in NumberByte : b \in Nat
  BY BytesAssumption DEF NumberByte
<1>3. \A d \in DataByte : NumberBytes + d \in Nat
  BY BytesAssumption DEF DataByte
<1>4. ASSUME NEW s \in Slot, NEW b \in NumberByte
      PROVE  (IF Covers(to, bytes, s, b) THEN tsn[s - to + from][b] ELSE tsn[s][b])
               \in Byte
  <2>1. CASE Covers(to, bytes, s, b)
    <3>1. s - to + from \in Slot
      BY <1>2, <2>1
    <3> QED
      BY <1>1, <2>1, <3>1 DEF AnyNumber
  <2>2. CASE ~Covers(to, bytes, s, b)
    BY <1>1, <2>2 DEF AnyNumber
  <2> QED
    BY <2>1, <2>2
<1>5. ASSUME NEW s \in Slot, NEW d \in DataByte
      PROVE  (IF Covers(to, bytes, s, NumberBytes + d) THEN payload[s - to + from][d]
              ELSE payload[s][d]) \in AnyNumber \cup {Zeros}
  <2>1. CASE Covers(to, bytes, s, NumberBytes + d)
    <3>1. s - to + from \in Slot
      BY <1>3, <2>1
    <3> QED
      BY <1>1, <2>1, <3>1 DEF AnyData
  <2>2. CASE ~Covers(to, bytes, s, NumberBytes + d)
    BY <1>1, <2>2 DEF AnyData
  <2> QED
    BY <2>1, <2>2
<1>6. MovedNumbers(to, from, bytes) \in [Slot -> AnyNumber]
  BY <1>4 DEF MovedNumbers, AnyNumber
<1>7. MovedData(to, from, bytes) \in [Slot -> AnyData]
  BY <1>5 DEF MovedData, AnyData
<1>8. ASSUME NEW s \in Slot, s < to
      PROVE  /\ MovedNumbers(to, from, bytes)[s] = tsn[s]
             /\ MovedData(to, from, bytes)[s] = payload[s]
  <2>1. s \in Int
    BY DEF Slot
  <2>2. \A b : ~Covers(to, bytes, s, b)
    BY <1>8, <2>1 DEF Covers
  <2>3. MovedNumbers(to, from, bytes)[s] = [b \in NumberByte |-> tsn[s][b]]
    BY <2>2 DEF MovedNumbers
  <2>4. MovedData(to, from, bytes)[s] = [d \in DataByte |-> payload[s][d]]
    BY <2>2 DEF MovedData
  <2>5. tsn[s] \in [NumberByte -> Byte] /\ payload[s] \in AnyData
    BY <1>1 DEF AnyNumber
  <2> QED
    BY <2>3, <2>4, <2>5 DEF AnyData
<1> QED
  BY <1>6, <1>7, <1>8

LEMMA InsertBehindHolds ==
  ASSUME OB_Inv, History, NEW n \in Number, InsertBehind(n)
  PROVE  OB_Inv'
<1>1. /\ created /\ index # 0 /\ index # Size /\ inserter.pc = "idle"
      /\ n \in AnyNumber /\ Smaller(n) # {}
      /\ LET i == LastSmaller(n) IN
           /\ tsn' = [MovedNumbers(i + 2, i + 1, BytesBehind(i)) EXCEPT ![i + 1] = n]
           /\ payload' =
                [MovedData(i + 2, i + 1, BytesBehind(i)) EXCEPT ![i + 1] = DataOf(n)]
      /\ inserter' = [Idle EXCEPT !.pc = "load", !.tsn = n]
      /\ UNCHANGED <<created, index, sync, puller, outside>>
  BY NumberAssumption DEF InsertBehind, Inserting, AnyNumber
<1>2. OB_Typed
  BY DEF OB_Inv
<1>3. /\ inserter'.pc = "load" /\ inserter'.tsn = n /\ inserter'.first = FALSE
      /\ inserter' \in [pc : Inserters, tsn : AnyNumber, first : BOOLEAN,
                        loaded : 0 .. Word - 1]
  <2>1. inserter' = [pc |-> "load", tsn |-> n, first |-> FALSE, loaded |-> 0]
    BY <1>1 DEF Idle
  <2>2. "load" \in Inserters /\ 0 \in 0 .. Word - 1 /\ n \in AnyNumber
    BY <1>1, BufferNumbers DEF Inserters
  <2> QED
    BY <2>1, <2>2
<1>4. index \in Nat /\ 0 < index /\ index < Size /\ Size \in Nat
  <2>1. index <= Size
    BY <1>1 DEF Smaller, Held
  <2> QED
    BY <1>1, <1>2, <2>1, BufferNumbers DEF OB_Typed
<1>5. PICK i \in 0 .. index - 1 :
        /\ i = LastSmaller(n) /\ Less(tsn[i], n)
        /\ i \in Slot /\ i + 1 \in Slot
  BY <1>1, <1>2, <1>4, LastSmallerIs DEF Slot
<1> DEFINE to == i + 2  from == i + 1  bytes == BytesBehind(i)
<1>6. /\ MovedNumbers(to, from, bytes) \in [Slot -> AnyNumber]
      /\ MovedData(to, from, bytes) \in [Slot -> AnyData]
      /\ \A k \in Slot : k < to => /\ MovedNumbers(to, from, bytes)[k] = tsn[k]
                                 /\ MovedData(to, from, bytes)[k] = payload[k]
  <2>1. to \in Nat /\ from \in Nat /\ bytes \in Nat
    BY <1>4 DEF BytesBehind
  <2>2. \A k \in Slot, b \in Nat : Covers(to, bytes, k, b) => k - to + from \in Slot
    BY <1>4 DEF Covers, Slot
  <2> HIDE DEF to, from, bytes
  <2> QED
    BY <1>2, <2>1, <2>2, MovedTyped
<1>7. /\ tsn' = [MovedNumbers(to, from, bytes) EXCEPT ![i + 1] = n]
      /\ payload' = [MovedData(to, from, bytes) EXCEPT ![i + 1] = DataOf(n)]
  BY <1>1, <1>5
<1>8. /\ tsn' \in [Slot -> AnyNumber] /\ payload' \in [Slot -> AnyData]
      /\ tsn'[i + 1] = n /\ tsn'[0] = tsn[0]
  <2>1. 0 # i + 1 /\ 0 < to /\ 0 \in Slot /\ i + 1 \in Slot
    BY <1>5, BufferNumbers
  <2>2. DataOf(n) \in AnyData /\ n \in AnyNumber
    BY <1>1, DataTyped
  <2> HIDE DEF to, from, bytes
  <2>3. MovedNumbers(to, from, bytes)[0] = tsn[0]
    BY <1>6, <2>1
  <2> QED
    BY <1>6, <1>7, <2>1, <2>2, <2>3
<1>9. /\ disturbed' \in BOOLEAN /\ most' \in Nat /\ index' <= most'
      /\ most' >= most /\ apart' \in BOOLEAN /\ missed' \in BOOLEAN
      /\ ~disturbed' => ~disturbed /\ ~Overlap' /\ ~Surplus'
      /\ ~disturbed' /\ ~apart' => ~apart
  BY <1>1, <1>2, HistoryHolds DEF OB_Typed
<1>10. OB_Typed'
  BY <1>1, <1>2, <1>3, <1>8, <1>9 DEF OB_Typed, sync
<1>11. ~disturbed' => due' = due \cup {n}
  BY <1>1, <1>3, DueGrows DEF Begins
<1>12. ~disturbed' /\ ~apart' => \A m \in due : SameAboveLowest(m, n)
  BY <1>1, <1>3, NotApart DEF Begins
<1>13. ASSUME ~disturbed'
       PROVE  /\ Turns'
              /\ most' <= 2 /\ ~apart' /\ Elements' <= 2 => Sorted'
              /\ most' <= 1 /\ Elements' <= 1 => Together'
  <2>1. /\ Turns /\ most' >= most /\ ~Overlap' /\ ~Surplus'
        /\ most <= 2 /\ ~apart /\ Elements <= 2 => Sorted
    BY <1>9, <1>13 DEF OB_Inv
  <2>2. puller.pc \in {"idle", "wait"} /\ puller' = puller
    BY <1>1, <1>3, <2>1 DEF Overlap
  <2>3. sem' = sem /\ index' = index
    BY <1>1 DEF sync
  <2>4. Turns'
    BY <1>3, <1>4, <1>8, <2>1, <2>2, <2>3 DEF Turns, ZeroInFront
  <2>5. Elements = index /\ Elements' = index + 1
    BY <1>1, <1>3, <1>4, <2>2, <2>3 DEF Elements
  <2>6. ASSUME most' <= 2, ~apart', Elements' <= 2
        PROVE  Sorted'
    <3>1. index = 1 /\ i = 0 /\ Elements = 1
      BY <1>4, <2>5, <2>6
    <3>2. Sorted
      BY <1>2, <1>9, <1>13, <2>1, <2>6, <3>1 DEF OB_Typed
    <3>3. 0 .. Elements - 1 = {0} /\ 0 .. Elements' - 1 = {0, 1}
      BY <2>5, <3>1
    <3>4. due = {tsn[0]}
      BY <3>2, <3>3 DEF Sorted
    <3>5. tsn'[1] = n /\ tsn'[0] = tsn[0] /\ Less(tsn[0], n)
          /\ SameAboveLowest(tsn[0], n)
      BY <1>5, <1>8, <1>12, <1>13, <2>6, <3>1, <3>4
    <3>6. {tsn'[k] : k \in {0, 1}} = due'
      BY <1>11, <1>13, <3>4, <3>5
    <3> QED
      BY <3>3, <3>5, <3>6 DEF Sorted
  <2> QED
    BY <1>4, <2>4, <2>5, <2>6
<1> QED
  BY <1>1, <1>3, <1>9, <1>10, <1>13 DEF OB_Inv, sync

\* What the steps have in common that neither put an element nor take one.
LEMMA QuietStep ==
  ASSUME OB_Inv, History, OB_Typed', created, created',
         UNCHANGED <<tsn, payload>>, ~Begins,
         ~(puller.pc = "take" /\ puller'.pc = "load"),
         blocked' <=> (puller'.pc \in {"wait", "unblock"}),
         ~disturbed /\ ~disturbed' /\ Turns /\ ~Overlap' /\ ~Surplus' =>
           /\ Turns'
           /\ Elements' = Elements \/ (Elements \in {-1, 0} /\ Elements' = 0)
           /\ most' <= 1 /\ Together => Answered'
  PROVE  OB_Inv'
<1>1. created' \in BOOLEAN /\ index' \in 0 .. Word - 1
  BY DEF OB_Typed
<1>2. /\ disturbed' \in BOOLEAN /\ most' \in Nat /\ index' <= most'
      /\ most' >= most /\ most \in Nat
      /\ ~disturbed' => ~disturbed /\ ~Overlap' /\ ~Surplus'
      /\ ~disturbed' /\ ~apart' => ~apart
      /\ ~disturbed' => due' = due
  BY <1>1, HistoryHolds, DueKept DEF OB_Inv, OB_Typed
<1>3. ASSUME ~disturbed'
      PROVE  /\ Turns'
             /\ most' <= 2 /\ ~apart' /\ Elements' <= 2 => Sorted'
             /\ most' <= 1 /\ Elements' <= 1 => Together'
  <2>1. /\ Turns
        /\ most <= 2 /\ ~apart /\ Elements <= 2 => Sorted
        /\ most <= 1 /\ Elements <= 1 => Together
    BY <1>2, <1>3 DEF OB_Inv
  <2>2. /\ Turns'
        /\ Elements' = Elements \/ (Elements \in {-1, 0} /\ Elements' = 0)
        /\ most' <= 1 /\ Together => Answered'
    BY <1>2, <1>3, <2>1
  <2>3. /\ most' <= 2 /\ ~apart' => most <= 2 /\ ~apart
        /\ most' <= 1 => most <= 1
        /\ due' = due
    BY <1>2, <1>3
  <2>4. CASE Elements' = Elements
    <3>1. Sorted => Sorted'
      BY <2>3, <2>4 DEF Sorted
    <3>2. most' <= 1 /\ Together => Together'
      BY <2>2, <2>4 DEF Together
    <3> QED
      BY <2>1, <2>2, <2>3, <2>4, <3>1, <3>2
  <2>5. CASE Elements \in {-1, 0} /\ Elements' = 0
    <3>1. 0 .. Elements - 1 = {} /\ 0 .. Elements' - 1 = {} /\ Elements' # 1
          /\ Elements <= 2 /\ Elements <= 1
      BY <2>5
    <3>2. Sorted => Sorted'
      BY <2>3, <3>1 DEF Sorted
    <3>3. most' <= 1 /\ Together => Together'
      BY <2>2, <3>1 DEF Together
    <3> QED
      BY <2>1, <2>2, <2>3, <3>1, <3>2, <3>3
  <2> QED
    BY <2>2, <2>4, <2>5
<1> QED
  BY <1>2, <1>3 DEF OB_Inv

\* An insertion is alone with the buffer while no puller is halfway.
LEMMA InsertStepTyped ==
  ASSUME OB_Inv, History, created, UNCHANGED <<created, tsn, payload, blocked, puller>>,
         outside' \in BOOLEAN, index' \in 0 .. Word - 1, sem' \in Nat,
         inserter' \in [pc : Inserters, tsn : AnyNumber, first : BOOLEAN,
                        loaded : 0 .. Word - 1]
  PROVE  OB_Typed'
<1>1. created' \in BOOLEAN
  BY DEF OB_Inv, OB_Typed
<1>2. /\ disturbed' \in BOOLEAN /\ most' \in Nat
      /\ apart' \in BOOLEAN /\ missed' \in BOOLEAN
  BY <1>1, HistoryHolds
<1> QED
  BY <1>1, <1>2 DEF OB_Inv, OB_Typed

LEMMA InsertStepQuiet ==
  ASSUME OB_Inv, History, created, UNCHANGED <<created, tsn, payload, blocked, puller>>,
         OB_Typed', inserter.pc # "idle",
         Turns /\ puller.pc \in {"idle", "wait"} /\ ~Overlap' /\ ~Surplus' =>
           Turns' /\ Elements' = Elements
  PROVE  OB_Inv'
<1>1. ~Begins /\ ~(puller.pc = "take" /\ puller'.pc = "load")
  BY DEF Begins
<1>2. blocked' <=> (puller'.pc \in {"wait", "unblock"})
  BY DEF OB_Inv
<1>3. ASSUME Turns, ~Overlap', ~Surplus'
      PROVE  Turns' /\ Elements' = Elements /\ (Together => Answered')
  <2>1. puller.pc \in {"idle", "wait"}
    <3>1. puller.pc \in Pullers
      BY DEF OB_Inv, OB_Typed
    <3> QED
      BY <1>3, <3>1 DEF Turns, Overlap, Pullers
  <2> QED
    BY <1>3, <2>1 DEF Together, Answered
<1> QED
  BY <1>1, <1>2, <1>3, QuietStep

LEMMA InsertIndexHolds ==
  ASSUME OB_Inv, History, InsertLoad \/ InsertStore
  PROVE  OB_Inv'
<1>1. /\ created /\ OB_Typed /\ index \in 0 .. Word - 1
      /\ UNCHANGED <<created, tsn, payload, blocked, puller, sem, outside>>
  BY DEF OB_Inv, OB_Typed, InsertLoad, InsertStore, Inserting, buffer, sync
<1>2. sem' \in Nat /\ outside' \in BOOLEAN
  BY <1>1 DEF OB_Typed
<1>3. CASE InsertLoad
  <2>1. /\ inserter.pc = "load" /\ index' = index
        /\ inserter' = [inserter EXCEPT !.pc = "store", !.loaded = index]
    BY <1>3 DEF InsertLoad, Inserting, buffer
  <2>2. /\ inserter'.pc = "store" /\ inserter'.tsn = inserter.tsn
        /\ inserter'.first = inserter.first /\ inserter'.loaded = index
        /\ inserter' \in [pc : Inserters, tsn : AnyNumber, first : BOOLEAN,
                          loaded : 0 .. Word - 1]
    <3>1. "store" \in Inserters
      BY DEF Inserters
    <3> QED
      BY <1>1, <2>1, <3>1 DEF OB_Typed
  <2>3. OB_Typed'
    BY <1>1, <1>2, <2>1, <2>2, InsertStepTyped
  <2>4. ASSUME Turns, puller.pc \in {"idle", "wait"}, ~Overlap', ~Surplus'
        PROVE  Turns' /\ Elements' = Elements
    <3>1. Turns'
      BY <1>1, <2>1, <2>2, <2>4 DEF Turns, ZeroInFront
    <3> QED
      BY <2>1, <2>2, <3>1 DEF Elements
  <2> QED
    BY <1>1, <2>1, <2>3, <2>4, InsertStepQuiet
<1>4. CASE InsertStore
  <2>1. /\ inserter.pc = "store" /\ index' = (inserter.loaded + 1) % Word
        /\ inserter' = [inserter EXCEPT !.pc = "higher"]
    BY <1>4 DEF InsertStore, Inserting
  <2>2. /\ inserter'.pc = "higher" /\ inserter'.tsn = inserter.tsn
        /\ inserter'.first = inserter.first /\ inserter.loaded \in 0 .. Word - 1
        /\ inserter' \in [pc : Inserters, tsn : AnyNumber, first : BOOLEAN,
                          loaded : 0 .. Word - 1]
    <3>1. "higher" \in Inserters
      BY DEF Inserters
    <3> QED
      BY <1>1, <2>1, <3>1 DEF OB_Typed
  <2>3. /\ index' \in 0 .. Word - 1
        /\ index' = IF inserter.loaded + 1 < Word THEN inserter.loaded + 1 ELSE 0
    BY <2>1, <2>2, NextIndex
  <2>4. OB_Typed'
    BY <1>1, <1>2, <2>1, <2>2, <2>3, InsertStepTyped
  <2>5. ASSUME Turns, puller.pc \in {"idle", "wait"}, ~Overlap', ~Surplus'
        PROVE  Turns' /\ Elements' = Elements
    <3>1. /\ index' = index + 1 /\ 0 < index' /\ index' <= Size
          /\ index \in Nat
      BY <1>1, <2>1, <2>3, <2>5, BufferNumbers DEF Turns
    <3>2. Turns'
      BY <1>1, <2>1, <2>2, <2>5, <3>1 DEF Turns, ZeroInFront
    <3> QED
      BY <1>1, <2>1, <2>2, <2>5, <3>1, <3>2 DEF Elements
  <2> QED
    BY <1>1, <2>1, <2>4, <2>5, InsertStepQuiet
<1> QED
  BY <1>3, <1>4

\* Looking at the number in front of the index changes nothing, inside of the
\* slots or outside of them.
LEMMA InsertHigherHolds ==
  ASSUME OB_Inv, History, InsertHigher \/ InsertOutside
  PROVE  OB_Inv'
<1>1. /\ created /\ OB_Typed /\ index' \in 0 .. Word - 1 /\ inserter.pc = "higher"
      /\ UNCHANGED <<created, tsn, payload, blocked, puller, index, sem>>
      /\ inserter' = inserter \/ inserter' = [inserter EXCEPT !.pc = "compare"]
  BY DEF OB_Inv, OB_Typed, InsertHigher, InsertOutside, Inserting, buffer, sync
<1>2. /\ inserter'.pc \in {"higher", "compare"} /\ inserter'.tsn = inserter.tsn
      /\ inserter'.first = inserter.first
      /\ inserter' \in [pc : Inserters, tsn : AnyNumber, first : BOOLEAN,
                        loaded : 0 .. Word - 1]
  <2>1. inserter.pc \in Inserters /\ "compare" \in Inserters
    BY <1>1 DEF Inserters
  <2> QED
    BY <1>1, <2>1 DEF OB_Typed
<1>3. sem' \in Nat /\ outside' \in BOOLEAN
  BY <1>1 DEF OB_Typed, InsertHigher, InsertOutside
<1>4. OB_Typed'
  BY <1>1, <1>2, <1>3, InsertStepTyped
<1>5. ASSUME Turns, puller.pc \in {"idle", "wait"}, ~Overlap', ~Surplus'
      PROVE  Turns' /\ Elements' = Elements
  <2>1. Turns'
    BY <1>1, <1>2, <1>5 DEF Turns, ZeroInFront
  <2> QED
    BY <1>1, <1>2, <2>1 DEF Elements
<1> QED
  BY <1>1, <1>4, <1>5, InsertStepQuiet

\* The signal is sent to one who waits for the element in front.
LEMMA InsertNotifyHolds ==
  ASSUME OB_Inv, History, InsertCompare \/ InsertNotify \/ InsertSignal
  PROVE  OB_Inv'
<1>1. /\ created /\ OB_Typed /\ index' = index /\ index \in 0 .. Word - 1
      /\ UNCHANGED <<created, tsn, payload, blocked, puller, outside>>
      /\ sem \in Nat /\ outside' \in BOOLEAN
  BY DEF OB_Inv, OB_Typed, InsertCompare, InsertNotify, InsertSignal, Inserting,
         buffer, sync
<1>2. Idle.pc = "idle"
  BY DEF Idle
<1>3. CASE InsertCompare
  <2>1. /\ inserter.pc = "compare" /\ sem' = sem
        /\ inserter' = IF Notified THEN [inserter EXCEPT !.pc = "notify"] ELSE Idle
    BY <1>3 DEF InsertCompare, Inserting, sync
  <2>2. inserter' \in [pc : Inserters, tsn : AnyNumber, first : BOOLEAN,
                       loaded : 0 .. Word - 1]
    <3>1. "notify" \in Inserters
      BY DEF Inserters
    <3> QED
      BY <1>1, <2>1, <3>1, CallsTyped DEF OB_Typed
  <2>3. \/ inserter'.pc = "idle"
        \/ inserter'.pc = "notify" /\ inserter'.tsn = inserter.tsn
           /\ inserter'.first = inserter.first /\ Notified
    BY <1>1, <1>2, <2>1 DEF OB_Typed
  <2>4. OB_Typed'
    BY <1>1, <2>1, <2>2, InsertStepTyped
  <2>5. ASSUME Turns, puller.pc \in {"idle", "wait"}, ~Overlap', ~Surplus'
        PROVE  Turns' /\ Elements' = Elements
    <3>1. Notified => tsn[0] = expected_tsn
      BY <2>1, <2>5 DEF Notified, NumberNotified, Turns
    <3>2. Turns'
      BY <1>1, <2>1, <2>3, <2>5, <3>1 DEF Turns, ZeroInFront
    <3> QED
      BY <1>1, <2>1, <2>3, <2>5, <3>2 DEF Elements
  <2> QED
    BY <1>1, <2>1, <2>4, <2>5, InsertStepQuiet
<1>4. CASE InsertNotify
  <2>1. /\ inserter.pc = "notify" /\ sem' = sem
        /\ inserter' = IF blocked THEN [inserter EXCEPT !.pc = "signal"] ELSE Idle
    BY <1>4 DEF InsertNotify, Inserting, sync
  <2>2. inserter' \in [pc : Inserters, tsn : AnyNumber, first : BOOLEAN,
                       loaded : 0 .. Word - 1]
    <3>1. "signal" \in Inserters
      BY DEF Inserters
    <3> QED
      BY <1>1, <2>1, <3>1, CallsTyped DEF OB_Typed
  <2>3. \/ inserter'.pc = "idle"
        \/ inserter'.pc = "signal" /\ inserter'.tsn = inserter.tsn
           /\ inserter'.first = inserter.first /\ blocked
    BY <1>1, <1>2, <2>1 DEF OB_Typed
  <2>4. OB_Typed'
    BY <1>1, <2>1, <2>2, InsertStepTyped
  <2>5. ASSUME Turns, puller.pc \in {"idle", "wait"}, ~Overlap', ~Surplus'
        PROVE  Turns' /\ Elements' = Elements
    <3>1. blocked => puller.pc = "wait"
      BY <2>5 DEF OB_Inv
    <3>2. Turns'
      BY <1>1, <2>1, <2>3, <2>5, <3>1 DEF Turns, ZeroInFront
    <3> QED
      BY <1>1, <2>1, <2>3, <2>5, <3>2 DEF Elements
  <2> QED
    BY <1>1, <2>1, <2>4, <2>5, InsertStepQuiet
<1>5. CASE InsertSignal
  <2>1. inserter.pc = "signal" /\ SEM_signal /\ inserter' = Idle
    BY <1>5 DEF InsertSignal, Inserting
  <2>2. sem' \in Nat
    BY <1>1, <2>1 DEF SEM_signal
  <2>3. OB_Typed'
    BY <1>1, <2>1, <2>2, CallsTyped, InsertStepTyped
  <2>4. ASSUME Turns, puller.pc \in {"idle", "wait"}, ~Overlap', ~Surplus'
        PROVE  Turns' /\ Elements' = Elements
    <3>1. puller.pc = "wait" /\ ZeroInFront
      BY <2>1, <2>4 DEF Turns, ZeroInFront
    <3>2. Turns'
      BY <1>1, <1>2, <2>1, <2>4, <3>1 DEF Turns, ZeroInFront
    <3> QED
      BY <1>1, <1>2, <2>1, <3>1, <3>2 DEF Elements
  <2> QED
    BY <1>1, <2>1, <2>3, <2>4, InsertStepQuiet
<1> QED
  BY <1>3, <1>4, <1>5

\* What every step of a pull leaves, and what it knows of the other thread.
LEMMA PullTyped ==
  ASSUME OB_Inv, History, created, created',
         tsn' \in [Slot -> AnyNumber], index' \in 0 .. Word - 1, sem' \in Nat,
         payload' \in [Slot -> AnyData], UNCHANGED inserter, blocked' \in BOOLEAN,
         outside' \in BOOLEAN,
         puller' \in [pc : Pullers, tsn : AnyNumber, waited : BOOLEAN,
                      loaded : 0 .. Word - 1, got : AnyData]
  PROVE  OB_Typed'
<1>1. /\ disturbed' \in BOOLEAN /\ most' \in Nat
      /\ apart' \in BOOLEAN /\ missed' \in BOOLEAN
  BY HistoryHolds
<1> QED
  BY <1>1 DEF OB_Inv, OB_Typed

LEMMA PullCompareHolds ==
  ASSUME OB_Inv, History, NEW n \in Number, PullCompare(n)
  PROVE  OB_Inv'
<1>1. /\ created /\ puller.pc = "idle" /\ n \in AnyNumber
      /\ UNCHANGED <<created, tsn, payload, index, blocked, sem, inserter, outside>>
      /\ puller' = [AtRest EXCEPT !.tsn = n,
                      !.pc = IF tsn[0] = n THEN "take" ELSE "block"]
  BY NumberAssumption DEF PullCompare, Pulling, buffer, sync, AnyNumber
<1>2. OB_Typed
  BY DEF OB_Inv
<1>3. /\ puller'.pc = (IF tsn[0] = n THEN "take" ELSE "block")
      /\ puller'.tsn = n /\ puller'.waited = FALSE
      /\ puller' \in [pc : Pullers, tsn : AnyNumber, waited : BOOLEAN,
                      loaded : 0 .. Word - 1, got : AnyData]
  <2>1. PICK p \in Pullers : p = IF tsn[0] = n THEN "take" ELSE "block"
    BY DEF Pullers
  <2>2. puller' = [pc |-> p, tsn |-> n, waited |-> FALSE, loaded |-> 0,
                  got |-> DataOf(expected_tsn)]
    BY <1>1, <2>1 DEF AtRest
  <2>3. 0 \in 0 .. Word - 1 /\ DataOf(expected_tsn) \in AnyData /\ n \in AnyNumber
    BY <1>1, BufferNumbers, CallsTyped DEF AtRest
  <2>4. puller' \in [pc : Pullers, tsn : AnyNumber, waited : BOOLEAN,
                     loaded : 0 .. Word - 1, got : AnyData]
    BY <2>2, <2>3
  <2> QED
    BY <2>1, <2>2, <2>4
<1>4. OB_Typed'
  BY <1>1, <1>2, <1>3, PullTyped DEF OB_Typed
<1>5. ~Begins /\ ~(puller.pc = "take" /\ puller'.pc = "load")
  BY <1>1 DEF Begins
<1>6. blocked' <=> (puller'.pc \in {"wait", "unblock"})
  BY <1>1, <1>3 DEF OB_Inv
<1>7. ASSUME Turns, ~Overlap', ~Surplus'
      PROVE  Turns' /\ Elements' = Elements /\ Answered'
  <2>1. inserter.pc = "idle"
    BY <1>1, <1>3, <1>7 DEF Overlap
  <2>2. Turns'
    BY <1>1, <1>3, <1>7, <2>1 DEF Turns
  <2> QED
    BY <1>1, <1>3, <2>1, <2>2 DEF Elements, Answered
<1> QED
  BY <1>1, <1>4, <1>5, <1>6, <1>7, QuietStep

LEMMA PullWaitHolds ==
  ASSUME OB_Inv, History, PullBlock \/ PullWait \/ PullUnblock
  PROVE  OB_Inv'
<1>1. /\ created /\ UNCHANGED <<created, tsn, payload, index, inserter, outside>>
  BY DEF PullBlock, PullWait, PullUnblock, Pulling, buffer
<1>2. OB_Typed
  BY DEF OB_Inv
<1>3. "wait" \in Pullers /\ "unblock" \in Pullers /\ "take" \in Pullers
  BY DEF Pullers
<1>4. ~Begins
  BY <1>1 DEF Begins
<1>5. CASE PullBlock
  <2>1. /\ puller.pc = "block" /\ blocked' = TRUE /\ sem' = sem
        /\ puller' = [puller EXCEPT !.pc = "wait", !.waited = TRUE]
    BY <1>5 DEF PullBlock, Pulling
  <2>2. /\ puller'.pc = "wait" /\ puller'.waited = TRUE
        /\ puller' \in [pc : Pullers, tsn : AnyNumber, waited : BOOLEAN,
                        loaded : 0 .. Word - 1, got : AnyData]
    BY <1>2, <1>3, <2>1 DEF OB_Typed
  <2>3. OB_Typed'
    BY <1>1, <1>2, <2>1, <2>2, PullTyped DEF OB_Typed
  <2>4. ~Begins /\ ~(puller.pc = "take" /\ puller'.pc = "load")
    BY <1>4, <2>1
  <2>5. ASSUME Turns, ~Overlap', ~Surplus'
        PROVE  Turns' /\ Elements' = Elements /\ Answered'
    <3>1. inserter.pc = "idle" /\ sem # 1
      BY <2>1, <2>5 DEF Turns, Overlap
    <3>2. Turns'
      BY <1>1, <2>1, <2>2, <2>5, <3>1 DEF Turns
    <3> QED
      BY <1>1, <2>1, <2>2, <3>1, <3>2 DEF Elements, Answered
  <2> QED
    BY <1>1, <2>1, <2>2, <2>3, <2>4, <2>5, QuietStep
<1>6. CASE PullWait
  <2>1. /\ puller.pc = "wait" /\ blocked' = blocked /\ sem > 0 /\ sem' = sem - 1
        /\ puller' = [puller EXCEPT !.pc = "unblock"]
    BY <1>6 DEF PullWait, Pulling, SEM_wait
  <2>2. /\ puller'.pc = "unblock" /\ puller'.waited = puller.waited
        /\ puller' \in [pc : Pullers, tsn : AnyNumber, waited : BOOLEAN,
                        loaded : 0 .. Word - 1, got : AnyData]
    BY <1>2, <1>3, <2>1 DEF OB_Typed
  <2>3. sem \in Nat /\ sem' \in Nat
    BY <1>2, <2>1 DEF OB_Typed
  <2>4. OB_Typed'
    BY <1>1, <1>2, <2>1, <2>2, <2>3, PullTyped DEF OB_Typed
  <2>5. ~Begins /\ ~(puller.pc = "take" /\ puller'.pc = "load")
    BY <1>4, <2>1
  <2>6. blocked' <=> (puller'.pc \in {"wait", "unblock"})
    BY <2>1, <2>2 DEF OB_Inv
  <2>7. ASSUME Turns, ~Overlap', ~Surplus'
        PROVE  Turns' /\ Elements' = Elements /\ Answered'
    <3>1. inserter.pc = "idle"
      BY <1>1, <2>2, <2>7 DEF Overlap
    <3>2. sem = 1 /\ sem' = 0 /\ ZeroInFront
      BY <2>1, <2>3, <2>7 DEF Turns, Surplus
    <3>3. Turns'
      BY <1>1, <2>1, <2>2, <2>7, <3>1, <3>2 DEF Turns, ZeroInFront
    <3> QED
      BY <1>1, <2>1, <2>2, <3>1, <3>3 DEF Elements, Answered
  <2> QED
    BY <1>1, <2>4, <2>5, <2>6, <2>7, QuietStep
<1>7. CASE PullUnblock
  <2>1. /\ puller.pc = "unblock" /\ blocked' = FALSE /\ sem' = sem
        /\ puller' = [puller EXCEPT !.pc = "take"]
    BY <1>7 DEF PullUnblock, Pulling
  <2>2. /\ puller'.pc = "take" /\ puller'.waited = puller.waited
        /\ puller' \in [pc : Pullers, tsn : AnyNumber, waited : BOOLEAN,
                        loaded : 0 .. Word - 1, got : AnyData]
    BY <1>2, <1>3, <2>1 DEF OB_Typed
  <2>3. OB_Typed'
    BY <1>1, <1>2, <2>1, <2>2, PullTyped DEF OB_Typed
  <2>4. ~Begins /\ ~(puller.pc = "take" /\ puller'.pc = "load")
    BY <1>4, <2>1
  <2>5. ASSUME Turns, ~Overlap', ~Surplus'
        PROVE  Turns' /\ Elements' = Elements /\ Answered'
    <3>1. inserter.pc = "idle" /\ sem # 1
      BY <2>1, <2>5 DEF Turns, Overlap
    <3>2. Turns'
      BY <1>1, <2>1, <2>2, <2>5, <3>1 DEF Turns, ZeroInFront
    <3> QED
      BY <1>1, <2>1, <2>2, <3>1, <3>2 DEF Elements, Answered
  <2> QED
    BY <1>1, <2>1, <2>2, <2>3, <2>4, <2>5, QuietStep
<1> QED
  BY <1>5, <1>6, <1>7

\* Of a second element a pull moves the lowest byte of the number.
LEMMA MovedDown ==
  ASSUME OB_Typed, index <= Size
  PROVE  /\ MovedNumbers(0, 1, BytesPulled) \in [Slot -> AnyNumber]
         /\ MovedData(0, 1, BytesPulled) \in [Slot -> AnyData]
         /\ index = 2 /\ SameAboveLowest(tsn[0], tsn[1]) =>
              MovedNumbers(0, 1, BytesPulled)[0] = tsn[1]
<1>1. index \in Nat /\ Size \in Nat /\ 0 \in Slot /\ Size > 0
  BY BufferNumbers DEF OB_Typed
<1>2. BytesPulled \in Nat /\ (index = 2 => BytesPulled = 1)
      /\ BytesPulled <= Size - 1
  BY <1>1 DEF BytesPulled
<1>3. ElementSize \in Nat /\ ElementSize > 0
  BY BytesAssumption DEF ElementSize
<1>4. ASSUME NEW s \in Slot, NEW b \in Nat, Covers(0, BytesPulled, s, b)
      PROVE  s - 0 + 1 \in Slot
  <2>1. s \in Nat /\ s - 0 = s
    BY DEF Slot
  <2>2. s * ElementSize \in Nat /\ s <= s * ElementSize
    BY <1>3, <2>1, TimesAtLeast
  <2>3. s * ElementSize + b < BytesPulled
    BY <1>4, <2>1 DEF Covers
  <2>4. s < Size - 1
    BY <1>1, <1>2, <2>1, <2>2, <2>3
  <2> QED
    BY <1>1, <2>1, <2>4 DEF Slot
<1>5. ASSUME index = 2, SameAboveLowest(tsn[0], tsn[1])
      PROVE  MovedNumbers(0, 1, BytesPulled)[0] = tsn[1]
  <2>1. BytesPulled = 1 /\ 1 \in Slot
    BY <1>1, <1>2, <1>5 DEF Slot
  <2>2. \A b \in NumberByte : b \in Nat /\ (Covers(0, 1, 0, b) <=> b = 0)
    <3>1. (0 - 0) * ElementSize = 0
      BY <1>3, Z3
    <3> QED
      BY <3>1, BytesAssumption DEF Covers, NumberByte
  <2>3. MovedNumbers(0, 1, 1)[0] =
          [b \in NumberByte |-> IF b = 0 THEN tsn[1][b] ELSE tsn[0][b]]
    <3>1. MovedNumbers(0, 1, 1)[0] =
            [b \in NumberByte |->
               IF Covers(0, 1, 0, b) THEN tsn[0 - 0 + 1][b] ELSE tsn[0][b]]
      BY <1>1 DEF MovedNumbers
    <3>2. 0 - 0 + 1 = 1
      OBVIOUS
    <3> QED
      BY <2>2, <3>1, <3>2
  <2>4. \A b \in NumberByte : b # 0 => tsn[0][b] = tsn[1][b]
    BY <1>5 DEF SameAboveLowest
  <2>5. tsn[1] \in [NumberByte -> Byte]
    BY <2>1 DEF OB_Typed, AnyNumber
  <2>6. MovedNumbers(0, 1, 1)[0] = [b \in NumberByte |-> tsn[1][b]]
    BY <2>3, <2>4
  <2> QED
    BY <2>1, <2>5, <2>6
<1>6. /\ MovedNumbers(0, 1, BytesPulled) \in [Slot -> AnyNumber]
      /\ MovedData(0, 1, BytesPulled) \in [Slot -> AnyData]
  <2>1. 0 \in Nat /\ 1 \in Nat
    OBVIOUS
  <2> QED
    BY <1>2, <1>4, <2>1, MovedTyped
<1> QED
  BY <1>5, <1>6

\* The element in front goes, and the one behind it comes in its place.
LEMMA PullTakeHolds ==
  ASSUME OB_Inv, History, PullTake
  PROVE  OB_Inv'
<1>1. /\ created /\ puller.pc = "take" /\ index <= Size
      /\ tsn' = MovedNumbers(0, 1, BytesPulled)
      /\ payload' = MovedData(0, 1, BytesPulled)
      /\ puller' = [puller EXCEPT !.pc = "load", !.got = payload[0]]
      /\ UNCHANGED <<created, index, blocked, sem, inserter, outside>>
  BY DEF PullTake, Pulling, sync
<1>2. OB_Typed /\ index \in Nat /\ index <= most /\ most \in Nat
  BY BufferNumbers DEF OB_Inv, OB_Typed
<1>3. /\ puller'.pc = "load" /\ puller'.got = payload[0]
      /\ puller'.tsn = puller.tsn /\ puller'.waited = puller.waited
      /\ puller' \in [pc : Pullers, tsn : AnyNumber, waited : BOOLEAN,
                      loaded : 0 .. Word - 1, got : AnyData]
  <2>1. payload[0] \in AnyData /\ "load" \in Pullers
    BY <1>2, BufferNumbers DEF OB_Typed, Pullers
  <2> QED
    BY <1>1, <1>2, <2>1 DEF OB_Typed
<1>4. /\ tsn' \in [Slot -> AnyNumber] /\ payload' \in [Slot -> AnyData]
      /\ index = 2 /\ SameAboveLowest(tsn[0], tsn[1]) => tsn'[0] = tsn[1]
  BY <1>1, <1>2, MovedDown
<1>5. OB_Typed'
  BY <1>1, <1>2, <1>3, <1>4, PullTyped DEF OB_Typed
<1>6. ~disturbed' => due' = due \ {tsn[0]}
  BY <1>1, <1>3 DEF History
<1>7. blocked' <=> (puller'.pc \in {"wait", "unblock"})
  BY <1>1, <1>3 DEF OB_Inv
<1>8. /\ disturbed' \in BOOLEAN /\ most' \in Nat /\ index' <= most'
      /\ most' >= most /\ apart' \in BOOLEAN /\ missed' \in BOOLEAN
      /\ ~disturbed' => ~disturbed /\ ~Overlap' /\ ~Surplus'
      /\ ~disturbed' /\ ~apart' => ~apart
  BY <1>1, <1>2, HistoryHolds DEF OB_Typed
<1>9. ASSUME ~disturbed'
      PROVE  /\ Turns'
             /\ most' <= 2 /\ ~apart' /\ Elements' <= 2 => Sorted'
             /\ most' <= 1 /\ Elements' <= 1 => Together'
  <2>1. /\ Turns /\ ~Overlap' /\ ~Surplus'
        /\ most <= 2 /\ ~apart /\ Elements <= 2 => Sorted
        /\ most <= 1 /\ Elements <= 1 => Together
    BY <1>8, <1>9 DEF OB_Inv
  <2>2. inserter.pc = "idle" /\ sem # 1
    BY <1>1, <2>1 DEF Turns, Overlap
  <2>3. Turns'
    BY <1>1, <1>3, <2>1, <2>2 DEF Turns
  <2>4. Elements = index /\ Elements' = index - 1
    BY <1>1, <1>3, <2>2 DEF Elements
  <2>5. ASSUME most' <= 2, ~apart'
        PROVE  Sorted'
    <3>1. index \in {0, 1, 2}
      BY <1>1, <1>2, <1>8, <2>5
    <3>2. Sorted /\ due' = due \ {tsn[0]}
      BY <1>2, <1>6, <1>8, <1>9, <2>1, <2>4, <2>5, <3>1
    <3>3. CASE index = 0
      <4>1. 0 .. Elements - 1 = {} /\ 0 .. Elements' - 1 = {}
        BY <2>4, <3>3
      <4>2. due = {}
        BY <3>2, <4>1 DEF Sorted
      <4> QED
        BY <3>2, <4>1, <4>2 DEF Sorted
    <3>4. CASE index = 1
      <4>1. 0 .. Elements - 1 = {0} /\ 0 .. Elements' - 1 = {}
        BY <2>4, <3>4
      <4>2. due = {tsn[0]}
        BY <3>2, <4>1 DEF Sorted
      <4> QED
        BY <3>2, <4>1, <4>2 DEF Sorted
    <3>5. CASE index = 2
      <4>1. 0 .. Elements - 1 = {0, 1} /\ 0 .. Elements' - 1 = {0}
        BY <2>4, <3>5
      <4>2. /\ due = {tsn[0], tsn[1]} /\ Less(tsn[0], tsn[1])
            /\ SameAboveLowest(tsn[0], tsn[1])
        BY <3>2, <4>1 DEF Sorted
      <4>3. tsn[0] # tsn[1]
        <5>1. 0 \in Slot /\ 1 \in Slot
          BY <1>1, <3>5, BufferNumbers DEF Slot
        <5>2. tsn[0] \in AnyNumber /\ tsn[1] \in AnyNumber
          BY <1>2, <5>1 DEF OB_Typed
        <5> QED
          BY <4>2, <5>2, LessDiffers
      <4>4. due' = {tsn[1]} /\ tsn'[0] = tsn[1]
        BY <1>4, <3>2, <3>5, <4>2, <4>3
      <4> QED
        BY <4>1, <4>4 DEF Sorted
    <3> QED
      BY <3>1, <3>3, <3>4, <3>5
  <2>6. ASSUME most' <= 1
        PROVE  Together'
    <3>1. index <= 1 /\ Elements' # 1
      BY <1>1, <1>2, <1>8, <2>4, <2>6
    <3>2. Together
      BY <1>2, <1>8, <2>1, <2>4, <2>6, <3>1
    <3>3. index = 1 => payload[0] = DataOf(tsn[0])
      BY <2>4, <3>2 DEF Together
    <3>4. tsn[0] = IF puller.waited THEN expected_tsn ELSE puller.tsn
      BY <1>1, <2>1 DEF Turns, ZeroInFront
    <3>5. Answered'
      BY <1>1, <1>3, <3>3, <3>4 DEF Answered
    <3> QED
      BY <3>1, <3>5 DEF Together
  <2> QED
    BY <2>3, <2>5, <2>6
<1> QED
  BY <1>1, <1>5, <1>7, <1>8, <1>9 DEF OB_Inv

LEMMA PullEndHolds ==
  ASSUME OB_Inv, History, PullLoad \/ PullStore
  PROVE  OB_Inv'
<1>1. /\ created
      /\ UNCHANGED <<created, tsn, payload, blocked, sem, inserter, outside>>
  BY DEF PullLoad, PullStore, Pulling, buffer, sync
<1>2. OB_Typed /\ index \in Nat /\ index \in 0 .. Word - 1
  BY BufferNumbers DEF OB_Inv, OB_Typed
<1>3. "store" \in Pullers /\ "idle" \in Pullers
  BY DEF Pullers
<1>4. ~Begins
  BY <1>1 DEF Begins
<1>5. CASE PullLoad
  <2>1. /\ puller.pc = "load" /\ index' = index
        /\ puller' = [puller EXCEPT !.pc = "store", !.loaded = index]
    BY <1>5 DEF PullLoad, Pulling, buffer
  <2>2. /\ puller'.pc = "store" /\ puller'.loaded = index
        /\ puller'.tsn = puller.tsn /\ puller'.waited = puller.waited
        /\ puller'.got = puller.got
        /\ puller' \in [pc : Pullers, tsn : AnyNumber, waited : BOOLEAN,
                        loaded : 0 .. Word - 1, got : AnyData]
    BY <1>2, <1>3, <2>1 DEF OB_Typed
  <2>3. OB_Typed'
    BY <1>1, <1>2, <2>1, <2>2, PullTyped DEF OB_Typed
  <2>4. ~Begins /\ ~(puller.pc = "take" /\ puller'.pc = "load")
    BY <1>4, <2>1
  <2>5. blocked' <=> (puller'.pc \in {"wait", "unblock"})
    BY <1>1, <2>1, <2>2 DEF OB_Inv
  <2>6. ASSUME Turns, ~Overlap', ~Surplus'
        PROVE  Turns' /\ Elements' = Elements /\ (Together => Answered')
    <3>1. inserter.pc = "idle" /\ sem # 1
      BY <2>1, <2>6 DEF Turns, Overlap
    <3>2. Turns'
      BY <1>1, <2>1, <2>2, <2>6, <3>1 DEF Turns
    <3> QED
      BY <1>1, <2>1, <2>2, <3>1, <3>2 DEF Elements, Together, Answered
  <2> QED
    BY <1>1, <2>3, <2>4, <2>5, <2>6, QuietStep
<1>6. CASE PullStore
  <2>1. /\ puller.pc = "store" /\ index' = (puller.loaded - 1) % Word
        /\ puller' = [puller EXCEPT !.pc = "idle", !.loaded = 0]
    BY <1>6 DEF PullStore, Pulling
  <2>2. /\ puller'.pc = "idle" /\ puller.loaded \in 0 .. Word - 1
        /\ puller'.tsn = puller.tsn /\ puller'.waited = puller.waited
        /\ puller'.got = puller.got
        /\ puller' \in [pc : Pullers, tsn : AnyNumber, waited : BOOLEAN,
                        loaded : 0 .. Word - 1, got : AnyData]
    <3>1. 0 \in 0 .. Word - 1
      BY BufferNumbers
    <3> QED
      BY <1>2, <1>3, <2>1, <3>1 DEF OB_Typed
  <2>3. /\ index' \in 0 .. Word - 1
        /\ index' = IF puller.loaded > 0 THEN puller.loaded - 1 ELSE Word - 1
    BY <2>1, <2>2, NextIndex
  <2>4. OB_Typed'
    BY <1>1, <1>2, <2>1, <2>2, <2>3, PullTyped DEF OB_Typed
  <2>5. ~Begins /\ ~(puller.pc = "take" /\ puller'.pc = "load")
    BY <1>4, <2>1
  <2>6. blocked' <=> (puller'.pc \in {"wait", "unblock"})
    BY <1>1, <2>1, <2>2 DEF OB_Inv
  <2>7. /\ most' \in Nat /\ index' <= most' /\ most' >= most
        /\ index <= most /\ most \in Nat
    BY <1>1, <1>2, <2>3, HistoryHolds DEF OB_Typed, OB_Inv
  <2>8. ASSUME Turns, ~Overlap', ~Surplus'
        PROVE  /\ Turns'
               /\ Elements' = Elements \/ (Elements \in {-1, 0} /\ Elements' = 0)
               /\ most' <= 1 /\ Together => Answered'
    <3>1. inserter.pc = "idle" /\ sem # 1 /\ index <= Size
          /\ puller.loaded = index
      BY <2>1, <2>8 DEF Turns, Overlap
    <3>2. Turns'
      BY <1>1, <2>1, <2>2, <2>8, <3>1 DEF Turns
    <3>3. Elements = index - 1
      BY <2>1, <3>1 DEF Elements
    <3>4. Elements' = IF index' <= Size THEN index' ELSE 0
      BY <1>1, <2>2, <3>1 DEF Elements
    <3>5. Elements' = Elements \/ (Elements \in {-1, 0} /\ Elements' = 0)
      <4>1. CASE index > 0
        BY <1>2, <2>3, <3>1, <3>3, <3>4, <4>1, BufferNumbers
      <4>2. CASE index = 0
        BY <1>2, <2>3, <3>1, <3>3, <3>4, <4>2, BufferNumbers
      <4> QED
        BY <1>2, <4>1, <4>2
    <3>6. most' <= 1 => index = 1
      BY <1>2, <2>3, <2>7, <3>1, BufferNumbers
    <3>7. most' <= 1 /\ Together => Answered'
      BY <2>1, <2>2, <3>6 DEF Together, Answered
    <3> QED
      BY <3>2, <3>5, <3>7
  <2> QED
    BY <1>1, <2>4, <2>5, <2>6, <2>8, QuietStep
<1> QED
  BY <1>5, <1>6

LEMMA PullOutsideHolds ==
  ASSUME OB_Inv, History, PullOutside
  PROVE  OB_Inv'
<1>1. /\ created /\ puller.pc = "take" /\ outside' = TRUE
      /\ UNCHANGED <<created, tsn, payload, index, blocked, sem, inserter, puller>>
  BY DEF PullOutside, Pulling, buffer, sync
<1>2. OB_Typed
  BY DEF OB_Inv
<1>3. OB_Typed'
  BY <1>1, <1>2, PullTyped DEF OB_Typed
<1>4. ~Begins /\ ~(puller.pc = "take" /\ puller'.pc = "load")
  BY <1>1 DEF Begins
<1>5. blocked' <=> (puller'.pc \in {"wait", "unblock"})
  BY <1>1 DEF OB_Inv
<1>6. ASSUME Turns, ~Overlap', ~Surplus'
      PROVE  Turns' /\ Elements' = Elements /\ (Together => Answered')
  BY <1>1, <1>6 DEF Turns, ZeroInFront, Overlap, Elements, Together, Answered
<1> QED
  BY <1>1, <1>3, <1>4, <1>5, <1>6, QuietStep

LEMMA OB_StepHolds == OB_Inv /\ [OB_Next]_OB_vars => OB_Inv'
<1> SUFFICES ASSUME OB_Inv, [OB_Next]_OB_vars PROVE OB_Inv'
  OBVIOUS
<1>1. CASE UNCHANGED OB_vars
  BY <1>1
  DEF OB_vars, buffer, sync, OB_Inv, OB_Typed, Fresh, Turns, Overlap, Surplus,
      ZeroInFront, Sorted, Together, Answered, Elements
<1>2. CASE OB_Next
  <2>1. History
    BY <1>2 DEF OB_Next
  <2>2. CASE InsertCall
    BY <2>1, <2>2, InsertFirstHolds, InsertBehindHolds DEF InsertCall
  <2>5. CASE InsertStep
    BY <2>1, <2>5, InsertIndexHolds, InsertHigherHolds, InsertNotifyHolds
    DEF InsertStep
  <2>3. CASE PullCall
    BY <2>1, <2>3, PullCompareHolds DEF PullCall
  <2>4. CASE PullStep
    BY <2>1, <2>4, PullWaitHolds, PullTakeHolds, PullEndHolds, PullOutsideHolds
    DEF PullStep
  <2> QED
    BY <1>2, <2>1, <2>2, <2>3, <2>4, <2>5, CreateHolds, DestroyHolds
    DEF OB_Next
<1> QED
  BY <1>1, <1>2

LEMMA OB_Always == OB_Spec => []OB_Inv
<1> QED
  BY OB_InitHolds, OB_StepHolds, PTL DEF OB_Spec

\* Between calls what is held is what is due, in order: a single element, or
\* two that agree above the lowest byte of their numbers; with the data of its
\* number while there is one.
THEOREM BufferHeldInOrder == OB_Spec => []HeldInOrder
<1>1. OB_Inv => HeldInOrder
  <2> SUFFICES ASSUME OB_Inv, ~disturbed, inserter.pc = "idle",
                      puller.pc \in {"idle", "wait"}
               PROVE  /\ most <= 2 /\ ~apart =>
                           /\ {tsn[i] : i \in Held} = due
                           /\ \A i, j \in Held : i < j => Less(tsn[i], tsn[j])
                      /\ most <= 1 => \A i \in Held : payload[i] = DataOf(tsn[i])
                      /\ most <= 1 /\ puller.pc = "idle" =>
                           puller.got =
                             DataOf(IF puller.waited THEN expected_tsn ELSE puller.tsn)
    BY DEF HeldInOrder
  <2>1. /\ index \in Nat /\ index <= most /\ most \in Nat
        /\ most <= 2 /\ ~apart /\ Elements <= 2 => Sorted
        /\ most <= 1 /\ Elements <= 1 => Together
    BY BufferNumbers DEF OB_Inv, OB_Typed
  <2>2. Elements = IF index <= Size THEN index ELSE 0
    BY DEF Elements
  <2>3. Held = 0 .. Elements - 1 /\ Elements <= index /\ Elements \in Nat
    BY <2>1, <2>2, BufferNumbers DEF Held
  <2>4. most <= 2 /\ ~apart => Sorted
    BY <2>1, <2>3
  <2>5. most <= 1 => Together /\ Elements \in {0, 1}
    BY <2>1, <2>3
  <2>6. ASSUME most <= 1
        PROVE  \A i \in Held : payload[i] = DataOf(tsn[i])
    <3>1. \A i \in Held : i = 0 /\ Elements = 1
      BY <2>3, <2>5, <2>6
    <3> QED
      BY <2>5, <2>6, <3>1 DEF Together
  <2> QED
    BY <2>3, <2>4, <2>5, <2>6 DEF Sorted, Together, Answered
<1> QED
  BY <1>1, OB_Always, PTL

\* A pull that has waited finds element 0 in front, as long as the calls of
\* the two threads take turns and each signal is waited for.
THEOREM BufferWokenByZero == OB_Spec => []WokenByZero
<1>1. OB_Inv => WokenByZero
  BY DEF OB_Inv, Turns, ZeroInFront, WokenByZero
<1> QED
  BY <1>1, OB_Always, PTL

(***************************************************************************)
(* Flattened sequences.  That the recursive functions on an interval, here *)
(* and on the nodes of the hash table, are there is shown by induction, in *)
(* the form of sets of numbers.                                            *)
(***************************************************************************)
LEMMA NaturalInduction ==
  ASSUME NEW T, 0 \in T, \A k \in Nat : k \in T => k + 1 \in T
  PROVE  Nat \subseteq T
<1> DEFINE R == {ss \in Nat \X Nat : ss[1] < ss[2]}
<1>1. IsWellFoundedOn(R, Nat)
  BY NatLessThanWellFounded DEF OpToRel
<1>2. SUFFICES ASSUME Nat \ T # {} PROVE FALSE
  OBVIOUS
<1> HIDE DEF R
<1>3. PICK x \in Nat \ T : \A y \in Nat \ T : ~ (<<y, x>> \in R)
  <2>1. Nat \ T \subseteq Nat
    OBVIOUS
  <2> QED
    BY <1>1, <1>2, <2>1, WFMin
<1>4. x - 1 \in Nat /\ x - 1 < x /\ x - 1 + 1 = x
  BY <1>3
<1>5. x - 1 \in T
  BY <1>3, <1>4 DEF R
<1> QED
  BY <1>3, <1>4, <1>5

\* f is what FlattenSeq computes of the first n members of s.
Flattens(f, s, n) ==
  f = [i \in 1 .. n |-> IF i = 1 THEN s[i] ELSE f[i - 1] \o s[i]]

LEMMA FlattensExists ==
  ASSUME NEW s
  PROVE  \A n \in Nat : \E f : Flattens(f, s, n)
<1> DEFINE T == {n \in Nat : \E f : Flattens(f, s, n)}
<1>1. 0 \in T
  <2>1. Flattens([i \in 1 .. 0 |-> << >>], s, 0)
    BY DEF Flattens
  <2> QED
    BY <2>1
<1>2. ASSUME NEW n \in Nat, n \in T
      PROVE  n + 1 \in T
  <2>1. PICK f : Flattens(f, s, n)
    BY <1>2
  <2> DEFINE g == [i \in 1 .. n + 1 |->
                     IF i = n + 1 THEN IF n = 0 THEN s[1] ELSE f[n] \o s[n + 1]
                     ELSE f[i]]
  <2>2. \A i \in 1 .. n : f[i] = IF i = 1 THEN s[i] ELSE f[i - 1] \o s[i]
    BY <2>1 DEF Flattens
  <2>3. ASSUME NEW i \in 1 .. n + 1
        PROVE  g[i] = IF i = 1 THEN s[i] ELSE g[i - 1] \o s[i]
    <3>1. CASE i = n + 1 /\ n = 0
      BY <3>1
    <3>2. CASE i = n + 1 /\ n # 0
      <4>1. n \in 1 .. n + 1 /\ n # n + 1 /\ i - 1 = n /\ i # 1
        BY <3>2
      <4>2. g[i] = f[n] \o s[i] /\ g[i - 1] = f[n]
        BY <3>2, <4>1
      <4> QED
        BY <4>1, <4>2
    <3>3. CASE i # n + 1
      <4>1. i \in 1 .. n /\ (i # 1 => i - 1 \in 1 .. n /\ i - 1 \in 1 .. n + 1)
        BY <3>3
      <4> QED
        BY <2>2, <3>3, <4>1
    <3> QED
      BY <3>1, <3>2, <3>3
  <2>4. Flattens(g, s, n + 1)
    BY <2>3 DEF Flattens
  <2> QED
    BY <2>4
<1> HIDE DEF T
<1>3. Nat \subseteq T
  BY <1>1, <1>2, NaturalInduction
<1> QED
  BY <1>3 DEF T

LEMMA FlattenIs ==
  ASSUME NEW s, Len(s) \in Nat \ {0}
  PROVE  \E f : Flattens(f, s, Len(s)) /\ FlattenSeq(s) = f[Len(s)]
<1> DEFINE f == CHOOSE g : Flattens(g, s, Len(s))
<1>1. Flattens(f, s, Len(s))
  BY FlattensExists
<1>2. FlattenSeq(s) = f[Len(s)]
  BY DEF FlattenSeq, Flattens
<1> QED
  BY <1>1, <1>2

LEMMA FlattensAgree ==
  ASSUME NEW s, NEW t, NEW n \in Nat, n > 0, NEW m \in Nat, n <= m,
         \A i \in 1 .. n : s[i] = t[i],
         NEW f, NEW g, Flattens(f, s, n), Flattens(g, t, m)
  PROVE  f[n] = g[n]
<1> DEFINE T == {k \in Nat : 0 < k /\ k <= n => f[k] = g[k]}
<1>1. \A i \in 1 .. n : f[i] = IF i = 1 THEN s[i] ELSE f[i - 1] \o s[i]
  BY DEF Flattens
<1>2. \A i \in 1 .. m : g[i] = IF i = 1 THEN t[i] ELSE g[i - 1] \o t[i]
  BY DEF Flattens
<1>3. 0 \in T
  OBVIOUS
<1>4. ASSUME NEW k \in Nat, k \in T
      PROVE  k + 1 \in T
  <2> SUFFICES ASSUME k + 1 <= n PROVE f[k + 1] = g[k + 1]
    OBVIOUS
  <2>1. k + 1 \in 1 .. n /\ k + 1 \in 1 .. m /\ s[k + 1] = t[k + 1]
    OBVIOUS
  <2>2. CASE k = 0
    BY <1>1, <1>2, <2>1, <2>2
  <2>3. CASE k > 0
    <3>1. k + 1 # 1 /\ (k + 1) - 1 = k /\ f[k] = g[k]
      BY <1>4, <2>3
    <3>2. f[k + 1] = f[(k + 1) - 1] \o s[k + 1]
      BY <1>1, <2>1, <3>1
    <3>3. g[k + 1] = g[(k + 1) - 1] \o t[k + 1]
      BY <1>2, <2>1, <3>1
    <3> QED
      BY <2>1, <3>1, <3>2, <3>3
  <2> QED
    BY <2>2, <2>3
<1> HIDE DEF T
<1>5. Nat \subseteq T
  BY <1>3, <1>4, NaturalInduction
<1> QED
  BY <1>5 DEF T

LEMMA FlattenAppend ==
  ASSUME NEW V, NEW s \in Seq(Seq(V)), NEW x \in Seq(V)
  PROVE  FlattenSeq(Append(s, x)) = FlattenSeq(s) \o x
<1>1. PICK t \in Seq(Seq(V)) : t = Append(s, x)
  BY AppendProperties
<1>2. /\ Len(s) \in Nat /\ Len(t) = Len(s) + 1 /\ t[Len(s) + 1] = x
      /\ \A i \in 1 .. Len(s) : s[i] = t[i]
  BY <1>1, AppendProperties, LenProperties
<1>3. PICK g : Flattens(g, t, Len(t)) /\ FlattenSeq(t) = g[Len(t)]
  <2>1. Len(t) \in Nat \ {0}
    BY <1>2
  <2> QED
    BY <2>1, FlattenIs
<1>4. \A i \in 1 .. Len(t) : g[i] = IF i = 1 THEN t[i] ELSE g[i - 1] \o t[i]
  BY <1>3 DEF Flattens
<1>5. CASE Len(s) = 0
  <2>1. s = << >> /\ FlattenSeq(s) = << >>
    <3>1. s = << >>
      BY <1>5, EmptySeq
    <3> QED
      BY <1>5, <3>1 DEF FlattenSeq
  <2>2. FlattenSeq(t) = x
    BY <1>2, <1>3, <1>4, <1>5
  <2>3. << >> \o x = x
    BY ConcatEmptySeq
  <2> QED
    BY <1>1, <2>1, <2>2, <2>3
<1>6. CASE Len(s) > 0
  <2>1. Len(s) \in Nat \ {0}
    BY <1>2, <1>6
  <2>2. PICK f : Flattens(f, s, Len(s)) /\ FlattenSeq(s) = f[Len(s)]
    BY <2>1, FlattenIs
  <2>3. f[Len(s)] = g[Len(s)]
    <3>1. PICK n \in Nat : n = Len(s)
      BY <1>2
    <3>2. PICK m \in Nat : m = Len(t)
      BY <1>2
    <3>3. /\ Flattens(f, s, n) /\ Flattens(g, t, m) /\ n > 0 /\ n <= m
          /\ \A i \in 1 .. n : s[i] = t[i]
      BY <1>2, <1>3, <1>6, <2>2, <3>1, <3>2
    <3>4. f[n] = g[n]
      BY <3>3, FlattensAgree
    <3> QED
      BY <3>1, <3>4
  <2>4. Len(t) \in 1 .. Len(t) /\ Len(t) # 1 /\ Len(t) - 1 = Len(s)
    BY <1>2, <1>6
  <2>5. g[Len(t)] = g[Len(t) - 1] \o t[Len(t)]
    BY <1>4, <2>4
  <2> QED
    BY <1>1, <1>2, <1>3, <2>2, <2>3, <2>4, <2>5
<1> QED
  BY <1>2, <1>5, <1>6

LEMMA FlattenTyped ==
  ASSUME NEW V
  PROVE  /\ FlattenSeq(<< >>) = << >>
         /\ \A s \in Seq(Seq(V)) : FlattenSeq(s) \in Seq(V)
<1>1. FlattenSeq(<< >>) = << >>
  <2>1. Len(<< >>) = 0
    BY EmptySeq
  <2> QED
    BY <2>1 DEF FlattenSeq
<1> DEFINE T == {n \in Nat : \A s \in Seq(Seq(V)) :
                               Len(s) = n => FlattenSeq(s) \in Seq(V)}
<1>2. 0 \in T
  <2>1. \A s \in Seq(Seq(V)) : Len(s) = 0 => s = << >>
    BY EmptySeq
  <2> QED
    BY <1>1, <2>1, EmptySeq
<1>3. ASSUME NEW n \in Nat, n \in T
      PROVE  n + 1 \in T
  <2> SUFFICES ASSUME NEW s \in Seq(Seq(V)), Len(s) = n + 1
               PROVE  FlattenSeq(s) \in Seq(V)
    OBVIOUS
  <2>1. s # << >>
    BY EmptySeq
  <2>2. PICK t \in Seq(Seq(V)), x \in Seq(V) : s = Append(t, x)
    BY <2>1, SequenceEmptyOrAppend
  <2>3. Len(t) = n
    BY <2>2, AppendProperties, LenProperties
  <2>4. FlattenSeq(t) \in Seq(V)
    BY <1>3, <2>3
  <2>5. FlattenSeq(s) = FlattenSeq(t) \o x
    BY <2>2, FlattenAppend
  <2> QED
    BY <2>4, <2>5, ConcatProperties
<1> HIDE DEF T
<1>4. Nat \subseteq T
  BY <1>2, <1>3, NaturalInduction
<1>5. \A s \in Seq(Seq(V)) : Len(s) \in Nat
  BY LenProperties
<1> QED
  BY <1>1, <1>4, <1>5 DEF T

LEMMA Singleton ==
  ASSUME NEW S, NEW e \in S
  PROVE  <<e>> \in Seq(S) /\ Len(<<e>>) = 1 /\ <<e>>[1] = e
  OBVIOUS

LEMMA FlattenConcat ==
  ASSUME NEW V, NEW s \in Seq(Seq(V))
  PROVE  \A t \in Seq(Seq(V)) :
           FlattenSeq(s \o t) = FlattenSeq(s) \o FlattenSeq(t)
<1> DEFINE T == {n \in Nat : \A t \in Seq(Seq(V)) : Len(t) = n =>
                   FlattenSeq(s \o t) = FlattenSeq(s) \o FlattenSeq(t)}
<1>1. FlattenSeq(s) \in Seq(V) /\ FlattenSeq(<< >>) = << >>
  BY FlattenTyped
<1>2. 0 \in T
  <2>1. \A t \in Seq(Seq(V)) : Len(t) = 0 => t = << >>
    BY EmptySeq
  <2>2. s \o << >> = s /\ FlattenSeq(s) \o << >> = FlattenSeq(s)
    BY <1>1, ConcatEmptySeq
  <2> QED
    BY <1>1, <2>1, <2>2
<1>3. ASSUME NEW n \in Nat, n \in T
      PROVE  n + 1 \in T
  <2> SUFFICES ASSUME NEW t \in Seq(Seq(V)), Len(t) = n + 1
               PROVE  FlattenSeq(s \o t) = FlattenSeq(s) \o FlattenSeq(t)
    OBVIOUS
  <2>1. t # << >>
    BY EmptySeq
  <2>2. PICK u \in Seq(Seq(V)), x \in Seq(V) : t = Append(u, x)
    BY <2>1, SequenceEmptyOrAppend
  <2>3. Len(u) = n
    BY <2>2, AppendProperties, LenProperties
  <2>4. FlattenSeq(s \o u) = FlattenSeq(s) \o FlattenSeq(u)
    BY <1>3, <2>3
  <2>5. s \o u \in Seq(Seq(V)) /\ FlattenSeq(u) \in Seq(V)
    BY ConcatProperties, FlattenTyped
  <2>6. s \o t = Append(s \o u, x)
    <3>1. PICK w \in Seq(Seq(V)) : w = <<x>>
      BY Singleton
    <3>2. t = u \o w
      BY <2>2, <3>1, AppendIsConcat
    <3>3. Append(s \o u, x) = (s \o u) \o w
      BY <2>5, <3>1, AppendIsConcat
    <3> QED
      BY <3>2, <3>3, ConcatAssociative
  <2>7. FlattenSeq(s \o t) = FlattenSeq(s \o u) \o x
    BY <2>5, <2>6, FlattenAppend
  <2>8. FlattenSeq(t) = FlattenSeq(u) \o x
    BY <2>2, FlattenAppend
  <2>9. PICK a \in Seq(V) : a = FlattenSeq(s)
    BY <1>1
  <2>10. PICK b \in Seq(V) : b = FlattenSeq(u)
    BY <2>5
  <2>11. (a \o b) \o x = a \o (b \o x)
    BY ConcatAssociative
  <2> QED
    BY <2>4, <2>7, <2>8, <2>9, <2>10, <2>11
<1> HIDE DEF T
<1>4. Nat \subseteq T
  BY <1>2, <1>3, NaturalInduction
<1>5. \A t \in Seq(Seq(V)) : Len(t) \in Nat
  BY LenProperties
<1> QED
  BY <1>4, <1>5 DEF T

\* Flattening empty sequences gives none.
LEMMA FlattenNothing ==
  ASSUME NEW V
  PROVE  \A s \in Seq(Seq(V)) :
           (\A k \in 1 .. Len(s) : s[k] = << >>) => FlattenSeq(s) = << >>
<1> DEFINE Nothing(s) == \A k \in 1 .. Len(s) : s[k] = << >>
           T == {n \in Nat : \A s \in Seq(Seq(V)) :
                   Len(s) = n /\ Nothing(s) => FlattenSeq(s) = << >>}
<1>1. 0 \in T
  <2>1. \A s \in Seq(Seq(V)) : Len(s) = 0 => s = << >>
    BY EmptySeq
  <2> QED
    BY <2>1, FlattenTyped
<1>2. ASSUME NEW n \in Nat, n \in T
      PROVE  n + 1 \in T
  <2> SUFFICES ASSUME NEW s \in Seq(Seq(V)), Len(s) = n + 1, Nothing(s)
               PROVE  FlattenSeq(s) = << >>
    OBVIOUS
  <2>1. s # << >>
    BY EmptySeq
  <2>2. PICK t \in Seq(Seq(V)), x \in Seq(V) : s = Append(t, x)
    BY <2>1, SequenceEmptyOrAppend
  <2>3. /\ Len(t) = n /\ x = s[n + 1]
        /\ \A k \in 1 .. n : s[k] = t[k]
    BY <2>2, AppendProperties, LenProperties
  <2>4. x = << >> /\ Nothing(t)
    <3>1. \A k \in 1 .. n : k \in 1 .. n + 1
      OBVIOUS
    <3>2. n + 1 \in 1 .. n + 1
      OBVIOUS
    <3> QED
      BY <2>3, <3>1, <3>2
  <2>5. FlattenSeq(t) = << >>
    BY <1>2, <2>3, <2>4
  <2>6. FlattenSeq(s) = << >> \o << >>
    BY <2>2, <2>4, <2>5, FlattenAppend
  <2> QED
    BY <2>6, EmptySeq, ConcatEmptySeq
<1> HIDE DEF T
<1>3. Nat \subseteq T
  BY <1>1, <1>2, NaturalInduction
<1>4. \A s \in Seq(Seq(V)) : Len(s) \in Nat
  BY LenProperties
<1> QED
  BY <1>3, <1>4 DEF T

(***************************************************************************)
(* The hash table.                                                         *)
(***************************************************************************)
Bucket == 0 .. Buckets - 1

\* Every node is nearer to the end of its chain than the ones before it.
Ends(rank) ==
  /\ rank \in [Heap \cup {NULL} -> Nat]
  /\ \A n \in Heap : rank[node[n].next] < rank[n]

HASH_Typed ==
  /\ live \in BOOLEAN
  /\ Heap \subseteq Node
  /\ node \in [Heap -> [index : Index, value : Value, next : Heap \cup {NULL}]]
  /\ DOMAIN head = Bucket
  /\ live => head \in [Bucket -> Heap \cup {NULL}]

\* The chains of a table keep to their buckets, and no node outside leads to
\* one of theirs.
HASH_Inv ==
  /\ HASH_Typed
  /\ \E rank \in [Heap \cup {NULL} -> Nat] : Ends(rank)
  /\ live => \A b \in Bucket : \A n \in ToSet(Chain(b)) :
               hashFunction(node[n].index) = b
  /\ \A n \in Lost : node[n].next \in Lost \cup {NULL}

\* c holds the node n and those behind it.
Path(n, c) ==
  /\ c \in Seq(Node)
  /\ IF n = NULL THEN c = << >> ELSE c # << >> /\ c[1] = n
  /\ \A k \in 1 .. Len(c) :
       /\ c[k] \in Heap
       /\ node[c[k]].next = IF k < Len(c) THEN c[k + 1] ELSE NULL

LEMMA PathBegins ==
  ASSUME HASH_Typed, NEW n, NEW c, NEW d, Path(n, c), Path(n, d)
  PROVE  Len(c) <= Len(d) /\ \A k \in 1 .. Len(c) : c[k] = d[k]
<1> DEFINE T == {k \in Nat : k < Len(c) => k < Len(d) /\ c[k + 1] = d[k + 1]}
<1>1. Len(c) \in Nat /\ Len(d) \in Nat
  BY LenProperties DEF Path
<1>2. NULL \notin Heap
  BY NodeAssumption DEF HASH_Typed
<1>3. 0 \in T
  <2> SUFFICES ASSUME 0 < Len(c) PROVE 0 < Len(d) /\ c[1] = d[1]
    OBVIOUS
  <2>1. c # << >>
    BY EmptySeq
  <2>2. n # NULL /\ c[1] = n
    BY <2>1 DEF Path
  <2>3. d # << >> /\ d[1] = n /\ d \in Seq(Node)
    BY <2>2 DEF Path
  <2> QED
    BY <1>1, <2>2, <2>3, EmptySeq
<1>4. ASSUME NEW k \in Nat, k \in T
      PROVE  k + 1 \in T
  <2> SUFFICES ASSUME k + 1 < Len(c)
               PROVE  k + 1 < Len(d) /\ c[(k + 1) + 1] = d[(k + 1) + 1]
    OBVIOUS
  <2>1. /\ k + 1 \in 1 .. Len(c) /\ (k + 1) + 1 \in 1 .. Len(c)
        /\ k + 1 \in 1 .. Len(d) /\ c[k + 1] = d[k + 1]
    BY <1>1, <1>4
  <2>2. node[c[k + 1]].next = c[(k + 1) + 1] /\ c[(k + 1) + 1] \in Heap
    BY <2>1 DEF Path
  <2>3. node[d[k + 1]].next = IF k + 1 < Len(d) THEN d[(k + 1) + 1] ELSE NULL
    BY <2>1 DEF Path
  <2> QED
    BY <1>2, <2>1, <2>2, <2>3
<1> HIDE DEF T
<1>5. Nat \subseteq T
  BY <1>3, <1>4, NaturalInduction
<1>6. ASSUME NEW k \in 1 .. Len(c)
      PROVE  k <= Len(d) /\ c[k] = d[k]
  <2>1. k - 1 \in Nat /\ k - 1 < Len(c) /\ (k - 1) + 1 = k
    BY <1>1
  <2>2. k - 1 < Len(d) /\ c[(k - 1) + 1] = d[(k - 1) + 1]
    BY <1>5, <2>1 DEF T
  <2> QED
    BY <1>1, <2>1, <2>2
<1>7. Len(c) <= Len(d)
  <2>1. CASE Len(c) = 0
    BY <1>1, <2>1
  <2>2. CASE Len(c) # 0
    <3>1. Len(c) \in 1 .. Len(c)
      BY <1>1, <2>2
    <3> QED
      BY <1>6, <3>1
  <2> QED
    BY <2>1, <2>2
<1> QED
  BY <1>6, <1>7

LEMMA PathUnique ==
  ASSUME HASH_Typed, NEW n, NEW c, NEW d, Path(n, c), Path(n, d)
  PROVE  c = d
<1>1. Len(c) <= Len(d) /\ Len(d) <= Len(c) /\ \A k \in 1 .. Len(c) : c[k] = d[k]
  BY PathBegins
<1>2. c \in Seq(Node) /\ d \in Seq(Node) /\ Len(c) \in Nat /\ Len(d) \in Nat
  BY LenProperties DEF Path
<1>3. Len(c) = Len(d)
  BY <1>1, <1>2
<1> QED
  BY <1>1, <1>2, <1>3, SeqEqual

LEMMA PathOfNull == Path(NULL, << >>)
<1>1. << >> \in Seq(Node) /\ Len(<< >>) = 0
  BY EmptySeq
<1>2. 1 .. Len(<< >>) = {}
  BY <1>1
<1> QED
  BY <1>1, <1>2 DEF Path

LEMMA PathBehind ==
  ASSUME HASH_Typed, NEW n \in Heap, NEW d, Path(node[n].next, d)
  PROVE  Path(n, <<n>> \o d)
<1>1. n \in Node /\ n # NULL /\ d \in Seq(Node) /\ Len(d) \in Nat
  BY NodeAssumption, LenProperties DEF HASH_Typed, Path
<1>2. PICK s \in Seq(Node) : s = <<n>> /\ Len(s) = 1 /\ s[1] = n
  BY <1>1, Singleton
<1>3. PICK c \in Seq(Node) : c = s \o d
  BY <1>1, ConcatProperties
<1>4. /\ Len(c) = 1 + Len(d)
      /\ \A i \in 1 .. 1 + Len(d) : c[i] = IF i <= 1 THEN s[i] ELSE d[i - 1]
  BY <1>1, <1>2, <1>3, ConcatProperties
<1>5. c[1] = n /\ c # << >>
  <2>1. 1 \in 1 .. 1 + Len(d) /\ Len(c) # 0
    BY <1>1, <1>4
  <2> QED
    BY <1>2, <1>4, <2>1, EmptySeq
<1>6. ASSUME NEW k \in 1 .. Len(c)
      PROVE  /\ c[k] \in Heap
             /\ node[c[k]].next = IF k < Len(c) THEN c[k + 1] ELSE NULL
  <2>1. CASE k = 1
    <3>1. CASE node[n].next = NULL
      <4>1. Len(d) = 0
        BY <3>1, EmptySeq DEF Path
      <4> QED
        BY <1>4, <1>5, <2>1, <3>1, <4>1
    <3>2. CASE node[n].next # NULL
      <4>1. d # << >> /\ d[1] = node[n].next
        BY <3>2 DEF Path
      <4>2. Len(d) > 0
        BY <1>1, <4>1, EmptySeq
      <4>3. 2 \in 1 .. 1 + Len(d) /\ 1 < Len(c) /\ k + 1 = 2
        BY <1>1, <1>4, <2>1, <4>2
      <4>4. c[2] = d[1]
        <5>1. c[2] = d[2 - 1]
          BY <1>4, <4>3
        <5> QED
          BY <5>1
      <4> QED
        BY <1>5, <2>1, <4>1, <4>3, <4>4
    <3> QED
      BY <3>1, <3>2
  <2>2. CASE k # 1
    <3>1. k - 1 \in 1 .. Len(d) /\ k \in 1 .. 1 + Len(d) /\ ~ (k <= 1)
      BY <1>1, <1>4, <2>2
    <3>2. c[k] = d[k - 1]
      BY <1>4, <3>1
    <3>3. /\ d[k - 1] \in Heap
          /\ node[d[k - 1]].next =
               IF k - 1 < Len(d) THEN d[(k - 1) + 1] ELSE NULL
      BY <3>1 DEF Path
    <3>4. CASE k - 1 < Len(d)
      <4>1. k + 1 \in 1 .. 1 + Len(d) /\ ~ (k + 1 <= 1) /\ (k + 1) - 1 = (k - 1) + 1
            /\ k < Len(c)
        BY <1>1, <1>4, <3>1, <3>4
      <4>2. c[k + 1] = d[(k + 1) - 1]
        BY <1>4, <4>1
      <4> QED
        BY <3>2, <3>3, <3>4, <4>1, <4>2
    <3>5. CASE ~ (k - 1 < Len(d))
      <4>1. ~ (k < Len(c))
        BY <1>1, <1>4, <3>1, <3>5
      <4> QED
        BY <3>2, <3>3, <3>5, <4>1
    <3> QED
      BY <3>4, <3>5
  <2> QED
    BY <2>1, <2>2
<1>7. Path(n, c)
  BY <1>1, <1>5, <1>6 DEF Path
<1> QED
  BY <1>2, <1>3, <1>7

LEMMA PathsExist ==
  ASSUME HASH_Typed, NEW rank, Ends(rank)
  PROVE  \A n \in Heap \cup {NULL} : \E c : Path(n, c)
<1> DEFINE T == {k \in Nat : \A n \in Heap \cup {NULL} :
                               rank[n] < k => \E c : Path(n, c)}
<1>1. \A n \in Heap \cup {NULL} : rank[n] \in Nat
  BY DEF Ends
<1>2. 0 \in T
  BY <1>1
<1>3. ASSUME NEW k \in Nat, k \in T
      PROVE  k + 1 \in T
  <2> SUFFICES ASSUME NEW n \in Heap \cup {NULL}, rank[n] < k + 1
               PROVE  \E c : Path(n, c)
    OBVIOUS
  <2>1. CASE n = NULL
    BY <2>1, PathOfNull
  <2>2. CASE n \in Heap
    <3>1. node[n].next \in Heap \cup {NULL} /\ rank[node[n].next] < rank[n]
      BY <2>2 DEF HASH_Typed, Ends
    <3>2. rank[node[n].next] < k
      BY <1>1, <2>2, <3>1
    <3>3. PICK d : Path(node[n].next, d)
      BY <1>3, <3>1, <3>2
    <3>4. Path(n, <<n>> \o d)
      BY <2>2, <3>3, PathBehind
    <3> QED
      BY <3>4
  <2> QED
    BY <2>1, <2>2
<1> HIDE DEF T
<1>4. Nat \subseteq T
  BY <1>2, <1>3, NaturalInduction
<1>5. \A n \in Heap \cup {NULL} : rank[n] + 1 \in Nat /\ rank[n] < rank[n] + 1
  BY <1>1
<1> QED
  BY <1>4, <1>5 DEF T

LEMMA FromIs ==
  ASSUME HASH_Typed, NEW rank, Ends(rank)
  PROVE  \A n \in Heap \cup {NULL} : Path(n, From[n])
<1> DEFINE Follows(f) ==
             f = [n \in Heap \cup {NULL} |->
                    IF n = NULL THEN << >> ELSE <<n>> \o f[node[n].next]]
           g == [n \in Heap \cup {NULL} |-> CHOOSE c : Path(n, c)]
<1>1. \A n \in Heap \cup {NULL} : Path(n, g[n])
  BY PathsExist
<1>2. \A n \in Heap : node[n].next \in Heap \cup {NULL}
  BY DEF HASH_Typed
<1>3. Follows(g)
  <2>1. g[NULL] = << >>
    BY <1>1 DEF Path
  <2>2. ASSUME NEW n \in Heap
        PROVE  g[n] = <<n>> \o g[node[n].next]
    <3>1. Path(n, g[n]) /\ Path(node[n].next, g[node[n].next])
      BY <1>1, <1>2
    <3> HIDE DEF g
    <3>2. Path(n, <<n>> \o g[node[n].next])
      BY <3>1, PathBehind
    <3> QED
      BY <3>1, <3>2, PathUnique
  <2>3. \A n \in Heap \cup {NULL} :
          g[n] = IF n = NULL THEN << >> ELSE <<n>> \o g[node[n].next]
    <3> HIDE DEF g
    <3> QED
      BY <2>1, <2>2
  <2>4. g = [n \in Heap \cup {NULL} |-> g[n]]
    OBVIOUS
  <2> HIDE DEF g
  <2> QED
    BY <2>3, <2>4
<1> HIDE DEF g
<1>4. From = CHOOSE f : Follows(f)
  BY DEF From
<1>5. Follows(From)
  BY <1>3, <1>4
<1>6. /\ From[NULL] = << >>
      /\ \A n \in Heap : From[n] = <<n>> \o From[node[n].next]
  <2>1. NULL \notin Heap
    BY NodeAssumption DEF HASH_Typed
  <2> QED
    BY <1>5, <2>1
<1> HIDE DEF Follows
<1> DEFINE T == {k \in Nat : \A n \in Heap \cup {NULL} :
                               rank[n] < k => Path(n, From[n])}
<1>7. \A n \in Heap \cup {NULL} : rank[n] \in Nat
  BY DEF Ends
<1>8. 0 \in T
  BY <1>7
<1>9. ASSUME NEW k \in Nat, k \in T
      PROVE  k + 1 \in T
  <2> SUFFICES ASSUME NEW n \in Heap \cup {NULL}, rank[n] < k + 1
               PROVE  Path(n, From[n])
    OBVIOUS
  <2>1. CASE n = NULL
    BY <1>6, <2>1, PathOfNull
  <2>2. CASE n \in Heap
    <3>1. node[n].next \in Heap \cup {NULL} /\ rank[node[n].next] < rank[n]
      BY <2>2 DEF HASH_Typed, Ends
    <3>2. rank[node[n].next] < k
      BY <1>7, <2>2, <3>1
    <3>3. Path(node[n].next, From[node[n].next])
      BY <1>9, <3>1, <3>2
    <3>4. Path(n, <<n>> \o From[node[n].next])
      BY <2>2, <3>3, PathBehind
    <3> QED
      BY <1>6, <2>2, <3>4
  <2> QED
    BY <2>1, <2>2
<1> HIDE DEF T
<1>10. Nat \subseteq T
  BY <1>8, <1>9, NaturalInduction
<1>11. \A n \in Heap \cup {NULL} : rank[n] + 1 \in Nat /\ rank[n] < rank[n] + 1
  BY <1>7
<1> QED
  BY <1>10, <1>11 DEF T

\* No node comes twice in a chain.
LEMMA PathDistinct ==
  ASSUME HASH_Typed, NEW rank, Ends(rank), NEW n, NEW c, Path(n, c)
  PROVE  \A j, k \in 1 .. Len(c) : c[j] = c[k] => j = k
<1>1. Len(c) \in Nat
  BY LenProperties DEF Path
<1>2. \A k \in 1 .. Len(c) : c[k] \in Heap /\ rank[c[k]] \in Nat
  BY DEF Path, Ends
<1> DEFINE T == {d \in Nat : \A j \in 1 .. Len(c) :
                   j + d < Len(c) => rank[c[j + d + 1]] < rank[c[j]]}
<1>3. \A k \in 1 .. Len(c) : k < Len(c) => rank[c[k + 1]] < rank[c[k]]
  BY <1>2 DEF Path, Ends
<1>4. 0 \in T
  <2>1. \A j \in 1 .. Len(c) : j + 0 + 1 = j + 1 /\ j + 0 = j
    BY <1>1
  <2> QED
    BY <1>3, <2>1
<1>5. ASSUME NEW d \in Nat, d \in T
      PROVE  d + 1 \in T
  <2> SUFFICES ASSUME NEW j \in 1 .. Len(c), j + (d + 1) < Len(c)
               PROVE  rank[c[j + (d + 1) + 1]] < rank[c[j]]
    OBVIOUS
  <2>1. /\ j + d < Len(c) /\ j + d + 1 \in 1 .. Len(c) /\ j + d + 1 < Len(c)
        /\ j + (d + 1) + 1 = (j + d + 1) + 1
        /\ (j + d + 1) + 1 \in 1 .. Len(c)
    BY <1>1
  <2>2. rank[c[j + d + 1]] < rank[c[j]]
    BY <1>5, <2>1
  <2>3. rank[c[(j + d + 1) + 1]] < rank[c[j + d + 1]]
    BY <1>3, <2>1
  <2>4. /\ rank[c[j]] \in Nat /\ rank[c[j + d + 1]] \in Nat
        /\ rank[c[(j + d + 1) + 1]] \in Nat
    BY <1>2, <2>1
  <2> QED
    BY <2>1, <2>2, <2>3, <2>4
<1> HIDE DEF T
<1>6. Nat \subseteq T
  BY <1>4, <1>5, NaturalInduction
<1>7. ASSUME NEW j \in 1 .. Len(c), NEW k \in 1 .. Len(c), j < k
      PROVE  c[j] # c[k]
  <2>1. /\ k - j - 1 \in Nat /\ j + (k - j - 1) < Len(c)
        /\ j + (k - j - 1) + 1 = k
    BY <1>1, <1>7
  <2>2. rank[c[j + (k - j - 1) + 1]] < rank[c[j]]
    BY <1>6, <2>1 DEF T
  <2>3. rank[c[k]] < rank[c[j]] /\ rank[c[j]] \in Nat
    BY <1>2, <2>1, <2>2
  <2> QED
    BY <2>3
<1> QED
  BY <1>1, <1>7

LEMMA HashInBucket ==
  ASSUME NEW i \in Index
  PROVE  hashFunction(i) \in Bucket
<1>1. i \in Int /\ Buckets \in Int /\ Buckets > 0
  BY IndexAssumption, BucketsAssumption
<1>2. i % Buckets \in 0 .. Buckets - 1
  BY <1>1, Z3
<1> QED
  BY <1>2 DEF hashFunction, Bucket

Members(chains) == UNION {ToSet(chains[b]) : b \in Bucket}

\* chains are those of the table, and what is known of them.
View(chains) ==
  /\ chains \in [Bucket -> Seq(Node)]
  /\ \A b \in Bucket :
       /\ Chain(b) = chains[b]
       /\ Path(head[b], chains[b])
       /\ head[b] \in Heap \cup {NULL}
       /\ \A k \in 1 .. Len(chains[b]) : hashFunction(node[chains[b][k]].index) = b
       /\ \A j, k \in 1 .. Len(chains[b]) : chains[b][j] = chains[b][k] => j = k
  /\ InChains = Members(chains)
  /\ \A n \in Heap \ Members(chains) :
       node[n].next \in (Heap \ Members(chains)) \cup {NULL}

LEMMA MemberIs ==
  ASSUME NEW chains \in [Bucket -> Seq(Node)]
  PROVE  \A n : n \in Members(chains) <=>
           \E b \in Bucket : \E k \in 1 .. Len(chains[b]) : n = chains[b][k]
<1>1. \A b \in Bucket : DOMAIN chains[b] = 1 .. Len(chains[b])
  BY LenProperties
<1> QED
  BY <1>1 DEF Members, ToSet

LEMMA TableView ==
  ASSUME HASH_Inv, live
  PROVE  \E chains : View(chains)
<1>1. PICK rank : Ends(rank)
  BY DEF HASH_Inv
<1>2. HASH_Typed /\ \A b \in Bucket : head[b] \in Heap \cup {NULL}
  BY DEF HASH_Inv, HASH_Typed
<1>3. \A b \in Bucket : Path(head[b], Chain(b))
  BY <1>1, <1>2, FromIs DEF Chain
<1> DEFINE ch == [b \in Bucket |-> Chain(b)]
<1>4. ch \in [Bucket -> Seq(Node)] /\ \A b \in Bucket : ch[b] = Chain(b)
  BY <1>3 DEF Path
<1> HIDE DEF ch
<1>5. InChains = Members(ch)
  BY <1>2, <1>4 DEF InChains, Members, HASH_Typed
<1>6. \A n \in Heap \ Members(ch) :
        node[n].next \in (Heap \ Members(ch)) \cup {NULL}
  BY <1>5 DEF HASH_Inv, Lost
<1>7. ASSUME NEW b \in Bucket
      PROVE  /\ \A k \in 1 .. Len(ch[b]) : hashFunction(node[ch[b][k]].index) = b
             /\ \A j, k \in 1 .. Len(ch[b]) : ch[b][j] = ch[b][k] => j = k
  <2>1. Path(head[b], ch[b]) /\ ch[b] \in Seq(Node)
    BY <1>3, <1>4
  <2>2. DOMAIN ch[b] = 1 .. Len(ch[b])
    BY <2>1, LenProperties
  <2>3. \A k \in 1 .. Len(ch[b]) : ch[b][k] \in ToSet(Chain(b))
    BY <1>4, <2>2 DEF ToSet
  <2> QED
    BY <1>1, <1>2, <2>1, <2>3, PathDistinct DEF HASH_Inv
<1>8. View(ch)
  BY <1>2, <1>3, <1>4, <1>5, <1>6, <1>7 DEF View
<1> QED
  BY <1>8

\* A path from the head of a bucket is its chain.
PathsAreChains ==
  HASH_Typed /\ live /\ (\E r : Ends(r)) =>
    \A b \in Bucket : \A c : Path(head[b], c) => Chain(b) = c

LEMMA ChainIs == PathsAreChains
<1> SUFFICES ASSUME HASH_Typed, live, NEW rank, Ends(rank), NEW b \in Bucket,
                    NEW c, Path(head[b], c)
             PROVE  Chain(b) = c
  BY DEF PathsAreChains
<1>1. head[b] \in Heap \cup {NULL}
  BY DEF HASH_Typed
<1>2. Path(head[b], Chain(b))
  BY <1>1, FromIs DEF Chain
<1> QED
  BY <1>2, PathUnique

\* The invariant after a call, from the chains that are the table's then.
LEMMA Rebuilt ==
  ASSUME HASH_Typed', live', NEW rank, Ends(rank)',
         NEW chains \in [Bucket -> Seq(Node)],
         \A b \in Bucket :
           /\ Path(head[b], chains[b])'
           /\ \A k \in 1 .. Len(chains[b]) :
                hashFunction(node'[chains[b][k]].index) = b,
         \A n \in Heap' \ Members(chains) :
           node'[n].next \in (Heap' \ Members(chains)) \cup {NULL}
  PROVE  /\ HASH_Inv'
         /\ \A b \in Bucket : Chain(b)' = chains[b]
         /\ InChains' = Members(chains)
<1>1. PathsAreChains'
  BY ChainIs, PTL
<1>2. \A b \in Bucket : Chain(b)' = chains[b]
  BY <1>1 DEF PathsAreChains
<1>3. DOMAIN head' = Bucket
  BY DEF HASH_Typed
<1>4. InChains' = Members(chains)
  BY <1>2, <1>3 DEF InChains, Members
<1>5. rank \in [Heap' \cup {NULL} -> Nat]
  BY DEF Ends
<1>6. Lost' = Heap' \ Members(chains)
  BY <1>4 DEF Lost
<1>7. ASSUME NEW b \in Bucket, NEW n \in ToSet(Chain(b)')
      PROVE  hashFunction(node'[n].index) = b
  <2>1. DOMAIN chains[b] = 1 .. Len(chains[b])
    BY LenProperties
  <2> QED
    BY <1>2, <1>7, <2>1 DEF ToSet
<1>8. HASH_Inv'
  BY <1>5, <1>6, <1>7 DEF HASH_Inv, hashFunction
<1> QED
  BY <1>2, <1>4, <1>8

LEMMA CreateTable ==
  ASSUME HASH_Inv, HASH_create
  PROVE  /\ HASH_Inv' /\ live'
         /\ \A b \in Bucket : Chain(b)' = << >>
         /\ Lost' \subseteq Lost
<1>1. /\ ~live /\ live' = TRUE /\ node' = node /\ Heap' = Heap
      /\ head' = [b \in Bucket |-> NULL]
  BY DEF HASH_create, Bucket, Heap
<1>2. HASH_Typed'
  BY <1>1 DEF HASH_Inv, HASH_Typed
<1>3. PICK rank : Ends(rank)'
  BY <1>1 DEF HASH_Inv, Ends
<1>4. PICK ch \in [Bucket -> Seq(Node)] : \A b \in Bucket : ch[b] = << >>
  <2>1. [b \in Bucket |-> << >>] \in [Bucket -> Seq(Node)]
    BY EmptySeq
  <2> QED
    BY <2>1
<1>5. \A b \in Bucket : Path(head[b], ch[b])' /\ 1 .. Len(ch[b]) = {}
  BY <1>1, <1>4, EmptySeq DEF Path
<1>6. Members(ch) = {}
  BY <1>5, MemberIs
<1>7. Lost = Heap
  BY <1>1 DEF Lost
<1>8. \A n \in Heap' \ Members(ch) :
        node'[n].next \in (Heap' \ Members(ch)) \cup {NULL}
  BY <1>1, <1>6, <1>7 DEF HASH_Inv
<1>9. HASH_Inv' /\ \A b \in Bucket : Chain(b)' = ch[b]
  BY <1>1, <1>2, <1>3, <1>5, <1>8, Rebuilt
<1> QED
  BY <1>1, <1>4, <1>7, <1>9 DEF Lost

LEMMA InsertedTable ==
  ASSUME HASH_Inv, NEW i \in Index, NEW v \in Value, HASH_insert(i, v)
  PROVE  /\ HASH_Inv' /\ Lost' = Lost
         /\ \E n \in Node \ Heap :
              /\ node'[n].index = i /\ node'[n].value = v
              /\ \A m \in Heap : /\ node'[m].index = node[m].index
                                 /\ node'[m].value = node[m].value
              /\ \A b \in Bucket :
                   Chain(b)' = IF b = hashFunction(i) THEN Append(Chain(b), n)
                               ELSE Chain(b)
<1>1. live /\ Heap # Node /\ Heap \subseteq Node /\ live' /\ HASH_Typed
  BY DEF HASH_insert, HASH_Inv, HASH_Typed
<1>2. PICK n \in Node \ Heap : n = malloc
  BY <1>1 DEF malloc
<1>3. PICK b \in Bucket : b = hashFunction(i)
  BY HashInBucket
<1>4. PICK ch : View(ch)
  BY <1>1, TableView
<1>5. PICK c \in Seq(Node) : c = ch[b]
  BY <1>4 DEF View
<1>6. /\ Path(head[b], c) /\ Len(c) \in Nat /\ Chain(b) = c
      /\ \A k \in 1 .. Len(c) : c[k] \in Heap
      /\ \A j, k \in 1 .. Len(c) : c[j] = c[k] => j = k
  BY <1>4, <1>5, LenProperties DEF View, Path
<1>7. NULL \notin Heap /\ n # NULL
  BY <1>1, NodeAssumption
<1> DEFINE rear == IF c = << >> THEN NULL ELSE c[Len(c)]
<1>8. searchFor(0, b) = rear
  BY <1>6 DEF searchFor, Last
<1>9. rear # NULL => rear \in Heap /\ c # << >>
  <2>1. c # << >> => Len(c) \in 1 .. Len(c)
    BY <1>6, EmptySeq
  <2> QED
    BY <1>6, <2>1
<1>10. /\ Linked(i, v, n) \in
            [Heap \cup {n} -> [index : Index, value : Value,
                               next : Heap \cup {n, NULL}]]
       /\ Linked(i, v, n)[n] = [index |-> i, value |-> v, next |-> NULL]
       /\ \A m \in Heap : Linked(i, v, n)[m] = node[m]
  BY <1>1, <1>2 DEF Linked, HASH_Typed
<1>11. /\ node' \in [Heap \cup {n} -> [index : Index, value : Value,
                                       next : Heap \cup {n, NULL}]]
       /\ node'[n] = [index |-> i, value |-> v, next |-> NULL]
       /\ \A m \in Heap :
            /\ node'[m].index = node[m].index
            /\ node'[m].value = node[m].value
            /\ node'[m].next = IF m = rear THEN n ELSE node[m].next
       /\ head' = IF c = << >> THEN [head EXCEPT ![b] = n] ELSE head
  <2>1. CASE rear # NULL
    <3>1. node' = [Linked(i, v, n) EXCEPT ![rear].next = n] /\ head' = head
      BY <1>2, <1>3, <1>8, <2>1 DEF HASH_insert
    <3>2. rear \in Heap /\ rear # n
      BY <1>2, <1>9, <2>1
    <3> HIDE DEF rear
    <3>3. PICK w : w = Linked(i, v, n)
      OBVIOUS
    <3>4. node' = [w EXCEPT ![rear] = [w[rear] EXCEPT !.next = n]]
      BY <3>1, <3>3
    <3>5. /\ w[rear] \in [index : Index, value : Value,
                          next : Heap \cup {n, NULL}]
          /\ DOMAIN w = Heap \cup {n}
      BY <1>10, <3>2, <3>3
    <3>6. PICK x \in [index : Index, value : Value, next : Heap \cup {n, NULL}] :
            /\ x = [w[rear] EXCEPT !.next = n] /\ x.next = n
            /\ x.index = w[rear].index /\ x.value = w[rear].value
      <4>1. PICK q \in [index : Index, value : Value,
                        next : Heap \cup {n, NULL}] : q = w[rear]
        BY <3>5
      <4>2. [q EXCEPT !.next = n] =
              [index |-> q.index, value |-> q.value, next |-> n]
        BY <4>1
      <4>3. q.index \in Index /\ q.value \in Value
        BY <4>1
      <4>4. [index |-> q.index, value |-> q.value, next |-> n] \in
              [index : Index, value : Value, next : Heap \cup {n, NULL}]
        BY <4>3
      <4> QED
        BY <4>1, <4>2, <4>4
    <3>7. node' = [w EXCEPT ![rear] = x]
      BY <3>4, <3>6
    <3>8. /\ node' \in [Heap \cup {n} -> [index : Index, value : Value,
                                          next : Heap \cup {n, NULL}]]
          /\ node'[rear] = x /\ \A m \in (Heap \cup {n}) \ {rear} : node'[m] = w[m]
      BY <1>10, <3>2, <3>3, <3>7
    <3>9. c # << >>
      BY <1>9, <2>1
    <3> QED
      BY <1>10, <3>1, <3>2, <3>3, <3>6, <3>8, <3>9
  <2>2. CASE rear = NULL
    <3>1. node' = Linked(i, v, n) /\ head' = [head EXCEPT ![b] = n]
      BY <1>2, <1>3, <1>8, <2>2 DEF HASH_insert
    <3>2. c = << >>
      <4>1. c # << >> => Len(c) \in 1 .. Len(c)
        BY <1>6, EmptySeq
      <4> QED
        BY <1>6, <1>7, <2>2, <4>1
    <3>3. \A m \in Heap : m # rear
      BY <1>7, <2>2
    <3> HIDE DEF rear
    <3> QED
      BY <1>10, <3>1, <3>2, <3>3
  <2> QED
    BY <2>1, <2>2
<1>12. Heap' = Heap \cup {n}
  BY <1>11 DEF Heap
<1>13. /\ head' \in [Bucket -> Heap' \cup {NULL}] /\ DOMAIN head' = Bucket
       /\ \A d \in Bucket : head'[d] = IF d = b /\ c = << >> THEN n ELSE head[d]
  BY <1>1, <1>3, <1>11, <1>12 DEF HASH_Typed
<1>14. HASH_Typed'
  BY <1>1, <1>2, <1>11, <1>12, <1>13 DEF HASH_Typed
<1>15. PICK rank : Ends(rank)
  BY DEF HASH_Inv
<1>16. PICK r \in [Heap' \cup {NULL} -> Nat] :
         r[NULL] = 0 /\ r[n] = 1 /\ \A m \in Heap : r[m] = rank[m] + 2
  <2>1. \A m \in Heap : rank[m] \in Nat
    BY <1>15 DEF Ends
  <2>2. [m \in Heap' \cup {NULL} |->
           IF m = NULL THEN 0 ELSE IF m = n THEN 1 ELSE rank[m] + 2]
          \in [Heap' \cup {NULL} -> Nat]
    BY <1>12, <2>1
  <2> QED
    BY <1>2, <1>7, <1>12, <2>2
<1>17. Ends(r)'
  <2>1. \A m \in Heap : /\ node[m].next \in Heap \cup {NULL}
                        /\ rank[node[m].next] < rank[m]
                        /\ rank[m] \in Nat
    BY <1>1, <1>15 DEF Ends, HASH_Typed
  <2>2. ASSUME NEW m \in Heap'
        PROVE  r[node'[m].next] < r[m]
    <3>1. CASE m = n
      BY <1>11, <1>16, <3>1
    <3>2. CASE m \in Heap /\ m = rear
      BY <1>11, <1>16, <2>1, <3>2
    <3>3. CASE m \in Heap /\ m # rear
      <4>1. node'[m].next = node[m].next
        BY <1>11, <3>3
      <4>2. CASE node[m].next = NULL
        BY <1>16, <2>1, <3>3, <4>1, <4>2
      <4>3. CASE node[m].next \in Heap
        BY <1>16, <2>1, <3>3, <4>1, <4>3
      <4> QED
        BY <2>1, <3>3, <4>2, <4>3
    <3> QED
      BY <1>12, <3>1, <3>2, <3>3
  <2> QED
    BY <1>16, <2>2 DEF Ends
<1>18. PICK e \in Seq(Node) : e = Append(c, n)
  BY AppendProperties
<1>19. /\ Len(e) = Len(c) + 1 /\ e[Len(c) + 1] = n /\ e # << >>
       /\ \A k \in 1 .. Len(c) : e[k] = c[k]
  BY <1>18, AppendProperties
<1>20. PICK new \in [Bucket -> Seq(Node)] :
         /\ new[b] = e
         /\ \A d \in Bucket \ {b} : new[d] = ch[d]
  <2>1. [ch EXCEPT ![b] = e] \in [Bucket -> Seq(Node)]
    BY <1>4, <1>18 DEF View
  <2> QED
    BY <1>4, <2>1 DEF View
<1>21. Path(head[b], e)'
  <2>1. c = << >> <=> Len(c) = 0
    BY <1>6, EmptySeq
  <2>2. head'[b] # NULL /\ e[1] = head'[b]
    <3>1. CASE c = << >>
      BY <1>7, <1>13, <1>19, <2>1, <3>1
    <3>2. CASE c # << >>
      <4>1. head[b] # NULL /\ c[1] = head[b] /\ 1 \in 1 .. Len(c)
        BY <1>6, <2>1, <3>2 DEF Path
      <4> QED
        BY <1>13, <1>19, <3>2, <4>1
    <3> QED
      BY <3>1, <3>2
  <2>3. ASSUME NEW k \in 1 .. Len(e)
        PROVE  /\ e[k] \in Heap'
               /\ node'[e[k]].next = IF k < Len(e) THEN e[k + 1] ELSE NULL
    <3>1. CASE k = Len(c) + 1
      BY <1>6, <1>11, <1>12, <1>19, <3>1
    <3>2. CASE k = Len(c)
      <4>1. c[k] = rear /\ c[k] \in Heap /\ e[k] = c[k]
        BY <1>6, <1>19, <2>1, <2>3, <3>2
      <4> QED
        BY <1>6, <1>11, <1>12, <1>19, <3>2, <4>1
    <3>3. CASE k < Len(c)
      <4>1. /\ k \in 1 .. Len(c) /\ k + 1 \in 1 .. Len(c) /\ k < Len(e)
            /\ Len(c) \in 1 .. Len(c)
        BY <1>6, <1>19, <2>3, <3>3
      <4>2. c[k] # rear
        BY <1>6, <2>1, <3>3, <4>1
      <4>3. node[c[k]].next = c[k + 1] /\ c[k] \in Heap
        BY <1>6, <3>3, <4>1 DEF Path
      <4> QED
        BY <1>11, <1>12, <1>19, <4>1, <4>2, <4>3
    <3> QED
      BY <1>6, <1>19, <2>3, <3>1, <3>2, <3>3
  <2> QED
    BY <1>18, <1>19, <2>2, <2>3 DEF Path
<1>22. ASSUME NEW d \in Bucket, d # b
       PROVE  Path(head[d], ch[d])'
  <2>1. Path(head[d], ch[d]) /\ head'[d] = head[d]
    BY <1>4, <1>13, <1>22 DEF View
  <2>2. ASSUME NEW k \in 1 .. Len(ch[d])
        PROVE  ch[d][k] \in Heap /\ ch[d][k] # rear
    <3>1. ch[d][k] \in Heap /\ hashFunction(node[ch[d][k]].index) = d
      BY <1>4 DEF View, Path
    <3>2. CASE c = << >>
      BY <1>7, <3>1, <3>2
    <3>3. CASE c # << >>
      <4>1. Len(c) \in 1 .. Len(c)
        BY <1>6, <3>3, EmptySeq
      <4>2. hashFunction(node[c[Len(c)]].index) = b
        BY <1>4, <1>5, <4>1 DEF View
      <4> QED
        BY <1>22, <3>1, <3>3, <4>2
    <3> QED
      BY <3>2, <3>3
  <2> HIDE DEF rear
  <2> QED
    BY <1>11, <1>12, <2>1, <2>2 DEF Path
<1> HIDE DEF rear
<1>23. ASSUME NEW d \in Bucket
       PROVE  /\ Path(head[d], new[d])'
              /\ \A k \in 1 .. Len(new[d]) :
                   hashFunction(node'[new[d][k]].index) = d
  <2>1. CASE d = b
    <3>1. Path(head[d], new[d])'
      BY <1>20, <1>21, <2>1 DEF Path
    <3>2. \A k \in 1 .. Len(c) : /\ hashFunction(node[c[k]].index) = b
                                 /\ c[k] \in Heap
      BY <1>4, <1>5, <1>6 DEF View
    <3>3. \A k \in 1 .. Len(e) : hashFunction(node'[e[k]].index) = b
      <4> SUFFICES ASSUME NEW k \in 1 .. Len(e)
                   PROVE  hashFunction(node'[e[k]].index) = b
        OBVIOUS
      <4>1. CASE k = Len(c) + 1
        BY <1>3, <1>11, <1>19, <4>1
      <4>2. CASE k \in 1 .. Len(c)
        BY <1>11, <1>19, <3>2, <4>2
      <4> QED
        BY <1>6, <1>19, <4>1, <4>2
    <3> QED
      BY <1>20, <2>1, <3>1, <3>3
  <2>2. CASE d # b
    <3>1. new[d] = ch[d]
      BY <1>20, <2>2
    <3>2. Path(head[d], new[d])'
      BY <1>22, <2>2, <3>1 DEF Path
    <3>3. \A k \in 1 .. Len(ch[d]) : /\ hashFunction(node[ch[d][k]].index) = d
                                     /\ ch[d][k] \in Heap
      BY <1>4 DEF View, Path
    <3> QED
      BY <1>11, <3>1, <3>2, <3>3
  <2> QED
    BY <2>1, <2>2
<1>24. Members(new) = Members(ch) \cup {n}
  <2>1. ch \in [Bucket -> Seq(Node)]
    BY <1>4 DEF View
  <2>2. ASSUME NEW x \in Members(new)
        PROVE  x \in Members(ch) \cup {n}
    <3>1. PICK d \in Bucket : \E k \in 1 .. Len(new[d]) : x = new[d][k]
      BY <1>20, <2>2, MemberIs
    <3>2. PICK k \in 1 .. Len(new[d]) : x = new[d][k]
      BY <3>1
    <3>3. CASE d = b /\ k = Len(c) + 1
      BY <1>19, <1>20, <3>2, <3>3
    <3>4. CASE d = b /\ k # Len(c) + 1
      <4>1. k \in 1 .. Len(c) /\ x = ch[b][k] /\ c = ch[b]
        BY <1>5, <1>6, <1>19, <1>20, <3>2, <3>4
      <4> QED
        BY <2>1, <4>1, MemberIs
    <3>5. CASE d # b
      BY <1>20, <2>1, <3>2, <3>5, MemberIs
    <3> QED
      BY <3>3, <3>4, <3>5
  <2>3. ASSUME NEW x \in Members(ch)
        PROVE  x \in Members(new)
    <3>1. \E d \in Bucket : \E k \in 1 .. Len(ch[d]) : x = ch[d][k]
      <4>1. \A y : y \in Members(ch) <=>
              \E d \in Bucket : \E k \in 1 .. Len(ch[d]) : y = ch[d][k]
        BY <2>1, MemberIs
      <4> QED
        BY <2>3, <4>1
    <3>2. PICK d \in Bucket : \E k \in 1 .. Len(ch[d]) : x = ch[d][k]
      BY <3>1
    <3>3. PICK k \in 1 .. Len(ch[d]) : x = ch[d][k]
      BY <3>2
    <3>4. CASE d = b
      <4>1. k \in 1 .. Len(e) /\ x = e[k]
        BY <1>5, <1>6, <1>19, <3>3, <3>4
      <4> QED
        BY <1>20, <4>1, MemberIs
    <3>5. CASE d # b
      BY <1>20, <3>3, <3>5, MemberIs
    <3> QED
      BY <3>4, <3>5
  <2>4. n \in Members(new)
    <3>1. Len(c) + 1 \in 1 .. Len(e)
      BY <1>6, <1>19
    <3> QED
      BY <1>19, <1>20, <3>1, MemberIs
  <2> QED
    BY <2>2, <2>3, <2>4
<1>25. Heap' \ Members(new) = Heap \ Members(ch)
  BY <1>2, <1>12, <1>24
<1>26. \A m \in Heap' \ Members(new) :
         node'[m].next \in (Heap' \ Members(new)) \cup {NULL}
  <2> SUFFICES ASSUME NEW m \in Heap \ Members(ch)
               PROVE  node'[m].next \in (Heap \ Members(ch)) \cup {NULL}
    BY <1>25
  <2>1. m # rear
    <3>1. CASE c = << >>
      BY <1>7, <3>1 DEF rear
    <3>2. CASE c # << >>
      <4>1. Len(c) \in 1 .. Len(c) /\ c = ch[b] /\ ch \in [Bucket -> Seq(Node)]
        BY <1>4, <1>5, <1>6, <3>2, EmptySeq DEF View
      <4>2. c[Len(c)] \in Members(ch)
        BY <4>1, MemberIs
      <4> QED
        BY <3>2, <4>2 DEF rear
    <3> QED
      BY <3>1, <3>2
  <2>2. node[m].next \in (Heap \ Members(ch)) \cup {NULL}
    BY <1>4 DEF View
  <2> QED
    BY <1>11, <2>1, <2>2
<1>27. /\ HASH_Inv' /\ \A d \in Bucket : Chain(d)' = new[d]
       /\ InChains' = Members(new)
  BY <1>1, <1>14, <1>17, <1>20, <1>23, <1>26, Rebuilt
<1>28. \A d \in Bucket : Chain(d)' = IF d = hashFunction(i)
                                     THEN Append(Chain(d), n) ELSE Chain(d)
  BY <1>3, <1>4, <1>5, <1>18, <1>20, <1>27 DEF View
<1>29. Lost' = Lost
  BY <1>1, <1>4, <1>25, <1>27 DEF Lost, View
<1> QED
  BY <1>2, <1>11, <1>27, <1>28, <1>29

LEMMA FirstIsLeast ==
  ASSUME NEW S, S \subseteq Nat, S # {}
  PROVE  First(S) \in S /\ \A m \in S : First(S) <= m
<1> DEFINE T == {k \in Nat : \A m \in 0 .. k : m \notin S}
<1>1. \E k \in S : \A m \in S : k <= m
  <2> SUFFICES ASSUME \A k \in S : \E m \in S : m < k
               PROVE  FALSE
    OBVIOUS
  <2>1. 0 \in T
    OBVIOUS
  <2>2. \A k \in Nat : k \in T => k + 1 \in T
    OBVIOUS
  <2>3. \A k \in T : k \notin S
    OBVIOUS
  <2> HIDE DEF T
  <2>4. Nat \subseteq T
    BY <2>1, <2>2, NaturalInduction
  <2> QED
    BY <2>3, <2>4
<1> QED
  BY <1>1 DEF First

\* Only the node before another one in its chain leads to it.
LEMMA Predecessor ==
  ASSUME HASH_Typed, NEW ch, View(ch), NEW m \in Heap, NEW b \in Bucket,
         NEW k \in 1 .. Len(ch[b]), node[m].next = ch[b][k]
  PROVE  k > 1 /\ m = ch[b][k - 1]
<1>1. ch \in [Bucket -> Seq(Node)]
  BY DEF View
<1>2. /\ Len(ch[b]) \in Nat
      /\ ch[b][k] \in Heap /\ ch[b][k] # NULL
      /\ hashFunction(node[ch[b][k]].index) = b
  BY NodeAssumption, LenProperties DEF View, Path, HASH_Typed
<1>3. \A n : n \in Members(ch) <=>
        \E d \in Bucket : \E j \in 1 .. Len(ch[d]) : n = ch[d][j]
  BY <1>1, MemberIs
<1>4. m \in Members(ch)
  <2>1. ch[b][k] \in Members(ch)
    BY <1>3
  <2> QED
    BY <1>2, <2>1 DEF View
<1>5. PICK d \in Bucket : \E j \in 1 .. Len(ch[d]) : m = ch[d][j]
  BY <1>3, <1>4
<1>6. PICK j \in 1 .. Len(ch[d]) : m = ch[d][j]
  BY <1>5
<1>7. Len(ch[d]) \in Nat /\ Path(head[d], ch[d])
  BY <1>1, LenProperties DEF View
<1>8. j < Len(ch[d]) /\ ch[d][j + 1] = ch[b][k]
  BY <1>2, <1>6, <1>7 DEF Path
<1>9. j + 1 \in 1 .. Len(ch[d])
  BY <1>7, <1>8
<1>10. hashFunction(node[ch[d][j + 1]].index) = d
  BY <1>9 DEF View
<1>11. d = b
  BY <1>2, <1>8, <1>10
<1>12. j + 1 = k
  BY <1>8, <1>9, <1>11 DEF View
<1> QED
  BY <1>6, <1>11, <1>12

LEMMA WithoutFirst ==
  ASSUME HASH_Inv, NEW i \in Index, DeleteFirst(i)
  PROVE  /\ HASH_Inv' /\ live'
         /\ \E b \in Bucket :
              /\ b = hashFunction(i) /\ head[b] \notin DOMAIN node'
              /\ Lost' \ Lost = ToSet(Chain(b)) \ {head[b]}
         /\ \E k \in 1 .. Len(Chain(hashFunction(i))) :
              node[Chain(hashFunction(i))[k]].index = i
         /\ \A m \in Heap' : node'[m] = node[m]
         /\ \A b \in Bucket :
              Chain(b)' = IF b = hashFunction(i) THEN << >> ELSE Chain(b)
<1>1. live /\ live' /\ HASH_Typed
  BY DEF DeleteFirst, HASH_Inv
<1>2. PICK b \in Bucket : b = hashFunction(i)
  BY HashInBucket
<1>3. PICK ch : View(ch)
  BY <1>1, TableView
<1>4. PICK c \in Seq(Node) : c = ch[b]
  BY <1>3 DEF View
<1>5. /\ Path(head[b], c) /\ Len(c) \in Nat /\ Chain(b) = c
      /\ \A k \in 1 .. Len(c) : c[k] \in Heap
      /\ \A j, k \in 1 .. Len(c) : c[j] = c[k] => j = k
      /\ DOMAIN c = 1 .. Len(c)
  BY <1>3, <1>4, LenProperties DEF View, Path
<1>6. PICK h : h = head[b]
  OBVIOUS
<1>7. h # NULL /\ node[h].index = i
  BY <1>2, <1>6 DEF DeleteFirst
<1>8. 1 \in 1 .. Len(c) /\ c[1] = h /\ h \in Heap
  <2>1. c # << >> /\ c[1] = h
    BY <1>5, <1>6, <1>7 DEF Path
  <2>2. Len(c) # 0
    BY <2>1, EmptySeq
  <2> QED
    BY <1>5, <2>1, <2>2
<1>9. /\ node' = [n \in Heap \ {h} |-> node[n]]
      /\ head' = [head EXCEPT ![b] = NULL]
  BY <1>2, <1>6 DEF DeleteFirst, Freed, BucketWithoutFirst
<1>10. Heap' = Heap \ {h} /\ \A n \in Heap' : node'[n] = node[n]
  BY <1>9 DEF Heap
<1>11. \A m \in Heap : node[m].next # h
  BY <1>1, <1>3, <1>4, <1>8, Predecessor
<1>12. HASH_Typed'
  <2>1. \A m \in Heap' : node[m] \in [index : Index, value : Value,
                                      next : Heap' \cup {NULL}]
    BY <1>1, <1>10, <1>11 DEF HASH_Typed
  <2>2. node' \in [Heap' -> [index : Index, value : Value,
                             next : Heap' \cup {NULL}]]
    BY <1>9, <1>10, <2>1
  <2>3. \A d \in Bucket : head[d] = h => d = b
    <3> SUFFICES ASSUME NEW d \in Bucket, head[d] = h
                 PROVE  d = b
      OBVIOUS
    <3>1. ch[d] # << >> /\ ch[d][1] = h /\ ch[d] \in Seq(Node)
      BY <1>3, <1>7 DEF View, Path
    <3>2. 1 \in 1 .. Len(ch[d])
      BY <3>1, EmptySeq, LenProperties
    <3> QED
      BY <1>3, <1>4, <1>8, <3>1, <3>2 DEF View
  <2>4. head' \in [Bucket -> Heap' \cup {NULL}]
    BY <1>1, <1>9, <1>10, <2>3 DEF HASH_Typed
  <2> QED
    BY <1>1, <1>10, <2>2, <2>4 DEF HASH_Typed
<1>13. PICK rank : Ends(rank)
  BY DEF HASH_Inv
<1>14. PICK r \in [Heap' \cup {NULL} -> Nat] :
         \A m \in Heap' \cup {NULL} : r[m] = rank[m]
  <2>1. [m \in Heap' \cup {NULL} |-> rank[m]] \in [Heap' \cup {NULL} -> Nat]
    BY <1>10, <1>13 DEF Ends
  <2> QED
    BY <2>1
<1>15. Ends(r)'
  <2>1. \A m \in Heap' : node'[m].next \in Heap' \cup {NULL}
    BY <1>12 DEF HASH_Typed
  <2> QED
    BY <1>10, <1>13, <1>14, <2>1 DEF Ends
<1>16. PICK new \in [Bucket -> Seq(Node)] :
         /\ new[b] = << >>
         /\ \A d \in Bucket \ {b} : new[d] = ch[d]
  <2>1. [ch EXCEPT ![b] = << >>] \in [Bucket -> Seq(Node)]
    BY <1>3, EmptySeq DEF View
  <2> QED
    BY <1>3, <2>1 DEF View
<1>17. ASSUME NEW d \in Bucket
       PROVE  /\ Path(head[d], new[d])'
              /\ \A k \in 1 .. Len(new[d]) :
                   hashFunction(node'[new[d][k]].index) = d
  <2>1. CASE d = b
    <3>1. head'[d] = NULL
      BY <1>1, <1>9, <2>1 DEF HASH_Typed
    <3>2. new[d] = << >> /\ 1 .. Len(new[d]) = {} /\ << >> \in Seq(Node)
      BY <1>16, <2>1, EmptySeq
    <3> QED
      BY <3>1, <3>2 DEF Path
  <2>2. CASE d # b
    <3>1. new[d] = ch[d] /\ Path(head[d], ch[d]) /\ head'[d] = head[d]
      BY <1>1, <1>3, <1>9, <1>16, <2>2 DEF View, HASH_Typed
    <3>2. \A k \in 1 .. Len(ch[d]) :
            /\ hashFunction(node[ch[d][k]].index) = d
            /\ ch[d][k] \in Heap
      BY <1>3 DEF View, Path
    <3>3. hashFunction(node[h].index) = b
      BY <1>2, <1>7
    <3>4. \A k \in 1 .. Len(ch[d]) : ch[d][k] \in Heap'
      BY <1>10, <2>2, <3>2, <3>3
    <3>5. Path(head[d], ch[d])'
      BY <1>10, <3>1, <3>4 DEF Path
    <3>6. Path(head[d], new[d])'
      BY <3>1, <3>5 DEF Path
    <3> QED
      BY <1>10, <3>1, <3>2, <3>4, <3>6
  <2> QED
    BY <2>1, <2>2
<1>18. /\ \A x : x \in Members(new) <=>
                 \E d \in Bucket : \E k \in 1 .. Len(new[d]) : x = new[d][k]
       /\ \A x : x \in Members(ch) <=>
                 \E d \in Bucket : \E k \in 1 .. Len(ch[d]) : x = ch[d][k]
  <2>1. ch \in [Bucket -> Seq(Node)]
    BY <1>3 DEF View
  <2> QED
    BY <1>16, <2>1, MemberIs
<1>19. \A x : x \in ToSet(c) <=> \E k \in 1 .. Len(c) : x = c[k]
  BY <1>5 DEF ToSet
<1>20. \A x \in ToSet(c) : x \notin Members(new)
  <2> SUFFICES ASSUME NEW k \in 1 .. Len(c), c[k] \in Members(new)
               PROVE  FALSE
    BY <1>19
  <2>1. PICK d \in Bucket : \E j \in 1 .. Len(new[d]) : c[k] = new[d][j]
    BY <1>18
  <2>2. PICK j \in 1 .. Len(new[d]) : c[k] = new[d][j]
    BY <2>1
  <2>3. d # b
    BY <1>16, <2>2, EmptySeq
  <2>4. j \in 1 .. Len(ch[d]) /\ c[k] = ch[d][j]
    BY <1>16, <2>2, <2>3
  <2>5. /\ hashFunction(node[ch[d][j]].index) = d
        /\ hashFunction(node[c[k]].index) = b
    BY <1>3, <1>4, <2>4 DEF View
  <2> QED
    BY <2>3, <2>4, <2>5
<1>21. Members(ch) = Members(new) \cup ToSet(c)
  <2>1. ASSUME NEW x \in Members(ch)
        PROVE  x \in Members(new) \cup ToSet(c)
    <3>1. PICK d \in Bucket : \E k \in 1 .. Len(ch[d]) : x = ch[d][k]
      BY <1>18
    <3>2. CASE d = b
      BY <1>4, <1>19, <3>1, <3>2
    <3>3. CASE d # b
      <4>1. new[d] = ch[d]
        BY <1>16, <3>3
      <4> QED
        BY <1>18, <3>1, <4>1
    <3> QED
      BY <3>2, <3>3
  <2>2. ASSUME NEW x \in Members(new)
        PROVE  x \in Members(ch)
    <3>1. PICK d \in Bucket : \E j \in 1 .. Len(new[d]) : x = new[d][j]
      BY <1>18
    <3>2. PICK j \in 1 .. Len(new[d]) : x = new[d][j]
      BY <3>1
    <3>3. d # b
      BY <1>16, <3>2, EmptySeq
    <3> QED
      BY <1>16, <1>18, <3>2, <3>3
  <2>3. ToSet(c) \subseteq Members(ch)
    BY <1>4, <1>18, <1>19
  <2> QED
    BY <2>1, <2>2, <2>3
<1>22. Heap' \ Members(new) = (Heap \ Members(ch)) \cup (ToSet(c) \ {h})
  <2>1. ToSet(c) \subseteq Heap /\ h \in ToSet(c)
    BY <1>5, <1>8, <1>19
  <2> QED
    BY <1>10, <1>20, <1>21, <2>1
<1>23. \A n \in Heap' \ Members(new) :
         node'[n].next \in (Heap' \ Members(new)) \cup {NULL}
  <2>1. ASSUME NEW n \in Heap \ Members(ch), n # h
        PROVE  node'[n].next \in (Heap \ Members(ch)) \cup {NULL}
    BY <1>3, <1>10, <2>1 DEF View
  <2>2. ASSUME NEW k \in 1 .. Len(c), c[k] # h
        PROVE  node'[c[k]].next \in (ToSet(c) \ {h}) \cup {NULL}
    <3>1. node'[c[k]] = node[c[k]]
      BY <1>5, <1>10, <2>2
    <3>2. CASE k < Len(c)
      <4>1. k + 1 \in 1 .. Len(c) /\ k + 1 # 1
        BY <1>5, <3>2
      <4>2. node[c[k]].next = c[k + 1]
        BY <1>5, <3>2 DEF Path
      <4>3. c[k + 1] # h
        BY <1>5, <1>8, <4>1
      <4> QED
        BY <1>19, <3>1, <4>1, <4>2, <4>3
    <3>3. CASE ~(k < Len(c))
      BY <1>5, <3>1, <3>3 DEF Path
    <3> QED
      BY <3>2, <3>3
  <2>3. h \in Members(ch)
    BY <1>8, <1>19, <1>21
  <2> QED
    BY <1>19, <1>22, <2>1, <2>2, <2>3
<1>24. /\ HASH_Inv' /\ \A d \in Bucket : Chain(d)' = new[d]
       /\ InChains' = Members(new)
  BY <1>1, <1>12, <1>15, <1>17, <1>23, Rebuilt
<1>25. \A d \in Bucket :
         Chain(d)' = IF d = hashFunction(i) THEN << >> ELSE Chain(d)
  BY <1>2, <1>3, <1>16, <1>24 DEF View
<1>26. Lost' \ Lost = ToSet(Chain(b)) \ {head[b]}
  <2>1. Lost = Heap \ Members(ch) /\ Lost' = Heap' \ Members(new)
    BY <1>1, <1>3, <1>24 DEF Lost, View
  <2> QED
    BY <1>5, <1>6, <1>21, <1>22, <2>1
<1>27. head[b] \notin DOMAIN node'
  BY <1>6, <1>9
<1> QED
  BY <1>1, <1>2, <1>5, <1>7, <1>8, <1>10, <1>24, <1>25, <1>26, <1>27

\* e is c without its p-th member.
Without(c, p, e) ==
  /\ Len(e) = Len(c) - 1
  /\ \A j \in 1 .. Len(e) : e[j] = IF j < p THEN c[j] ELSE c[j + 1]

LEMMA Shortened ==
  ASSUME NEW S, NEW c \in Seq(S), NEW p \in 1 .. Len(c)
  PROVE  \E e \in Seq(S) : Without(c, p, e)
<1>1. Len(c) \in Nat /\ Len(c) > 0
  BY LenProperties
<1>2. PICK m \in Nat : m = Len(c) - 1
  BY <1>1
<1>3. \A j \in 1 .. m : /\ j \in 1 .. Len(c) /\ j + 1 \in 1 .. Len(c)
                        /\ c[j] \in S /\ c[j + 1] \in S
  BY <1>1, <1>2, ElementOfSeq
<1>4. PICK e : e = [j \in 1 .. m |-> IF j < p THEN c[j] ELSE c[j + 1]]
  OBVIOUS
<1>5. e \in Seq(S) /\ Len(e) = m
  BY <1>3, <1>4, IsASeq
<1> QED
  BY <1>2, <1>4, <1>5 DEF Without

LEMMA WithoutLater ==
  ASSUME HASH_Inv, NEW i \in Index, DeleteLater(i)
  PROVE  /\ HASH_Inv' /\ live' /\ Lost' = Lost
         /\ \A m \in Heap' : /\ node'[m].index = node[m].index
                             /\ node'[m].value = node[m].value
         /\ \E c, e \in Seq(Node), p \in Nat :
              /\ c = Chain(hashFunction(i)) /\ e = Chain(hashFunction(i))'
              /\ p \in 1 .. Len(c) /\ node[c[p]].index = i
              /\ \A j \in 1 .. Len(c) : j < p => node[c[j]].index # i
              /\ Without(c, p, e)
         /\ \A b \in Bucket : b # hashFunction(i) => Chain(b)' = Chain(b)
<1>1. live /\ live' /\ HASH_Typed
  BY DEF DeleteLater, HASH_Inv
<1>2. PICK b \in Bucket : b = hashFunction(i)
  BY HashInBucket
<1>3. PICK ch : View(ch)
  BY <1>1, TableView
<1>4. PICK c \in Seq(Node) : c = ch[b]
  BY <1>3 DEF View
<1>5. /\ Path(head[b], c) /\ Len(c) \in Nat /\ Chain(b) = c
      /\ \A k \in 1 .. Len(c) : c[k] \in Heap
      /\ \A j, k \in 1 .. Len(c) : c[j] = c[k] => j = k
  BY <1>3, <1>4, LenProperties DEF View, Path
<1>6. PICK p \in Places(c, i) :
        p = First(Places(c, i)) /\ \A m \in Places(c, i) : p <= m
  <2>1. Places(c, i) # {}
    BY <1>2, <1>5 DEF DeleteLater
  <2>2. Places(c, i) \subseteq Nat
    BY DEF Places
  <2> QED
    BY <2>1, <2>2, FirstIsLeast
<1>7. /\ p \in 1 .. Len(c) /\ node[c[p]].index = i
      /\ \A j \in 1 .. Len(c) : j < p => node[c[j]].index # i
  <2>1. p \in 1 .. Len(c) /\ node[c[p]].index = i
    BY DEF Places
  <2>2. ASSUME NEW j \in 1 .. Len(c), j < p, node[c[j]].index = i
        PROVE  FALSE
    <3>1. j \in Places(c, i)
      BY <2>2 DEF Places
    <3> QED
      BY <1>5, <1>6, <2>1, <2>2, <3>1
  <2> QED
    BY <2>1, <2>2
<1>8. p # 1
  BY <1>2, <1>5 DEF DeleteLater
<1>9. PICK k \in Nat : k = p - 1
  BY <1>5, <1>7, <1>8
<1>10. k \in 1 .. Len(c) /\ k < Len(c) /\ k + 1 = p /\ k < p /\ p \in Nat
  BY <1>5, <1>7, <1>8, <1>9
<1>11. PICK d : d = c[p]
  OBVIOUS
<1>12. PICK q : q = c[k]
  OBVIOUS
<1>13. /\ d \in Heap /\ q \in Heap /\ q # d
       /\ node[q].next = d
       /\ node[d].next = IF p < Len(c) THEN c[p + 1] ELSE NULL
       /\ node[d].next \in Heap \cup {NULL}
  <2>1. d \in Heap /\ q \in Heap /\ q # d
    BY <1>5, <1>7, <1>10, <1>11, <1>12
  <2>2. /\ node[q].next = d
        /\ node[d].next = IF p < Len(c) THEN c[p + 1] ELSE NULL
    BY <1>5, <1>7, <1>10, <1>11, <1>12 DEF Path
  <2> QED
    BY <1>1, <2>1, <2>2 DEF HASH_Typed
<1>14. /\ node' = [n \in Heap \ {d} |->
                     IF n = q THEN [node[n] EXCEPT !.next = node[d].next]
                     ELSE node[n]]
       /\ head' = head
  <2>1. First(Places(c, i)) - 1 = k /\ c[k + 1] = d
    BY <1>6, <1>9, <1>10, <1>11
  <2> QED
    BY <1>2, <1>5, <1>12, <2>1 DEF DeleteLater, Bypassed
<1>15. PICK x \in [index : Index, value : Value, next : Heap \cup {NULL}] :
         /\ x = [node[q] EXCEPT !.next = node[d].next]
         /\ x.next = node[d].next
         /\ x.index = node[q].index /\ x.value = node[q].value
  <2>1. PICK y \in [index : Index, value : Value, next : Heap \cup {NULL}] :
          y = node[q]
    BY <1>1, <1>13 DEF HASH_Typed
  <2>2. [y EXCEPT !.next = node[d].next] =
          [index |-> y.index, value |-> y.value, next |-> node[d].next]
    OBVIOUS
  <2>3. [index |-> y.index, value |-> y.value, next |-> node[d].next] \in
          [index : Index, value : Value, next : Heap \cup {NULL}]
    BY <1>13
  <2> QED
    BY <2>1, <2>2, <2>3
<1>16. PICK rank : Ends(rank)
  BY DEF HASH_Inv
<1>17. /\ \A n \in Heap : rank[node[n].next] < rank[n]
       /\ \A n \in Heap \cup {NULL} : rank[n] \in Nat
  BY <1>16 DEF Ends
<1>18. node[d].next # d
  BY <1>13, <1>17
<1>19. \A m \in Heap : node[m].next = d => m = q
  BY <1>1, <1>3, <1>4, <1>7, <1>9, <1>11, <1>12, Predecessor
<1>20. /\ Heap' = Heap \ {d}
       /\ \A n \in Heap' :
            /\ node'[n].index = node[n].index
            /\ node'[n].value = node[n].value
            /\ node'[n].next = IF n = q THEN node[d].next ELSE node[n].next
  <2>1. Heap' = Heap \ {d}
    BY <1>14 DEF Heap
  <2>2. \A n \in Heap' : node'[n] = IF n = q THEN x ELSE node[n]
    BY <1>14, <1>15, <2>1
  <2> QED
    BY <1>15, <2>1, <2>2
<1>21. HASH_Typed'
  <2>1. \A n \in Heap' : (IF n = q THEN x ELSE node[n]) \in
             [index : Index, value : Value, next : Heap' \cup {NULL}]
    <3>1. \A n \in Heap' : n # q =>
            node[n] \in [index : Index, value : Value, next : Heap' \cup {NULL}]
      BY <1>1, <1>19, <1>20 DEF HASH_Typed
    <3>2. x \in [index : Index, value : Value, next : Heap' \cup {NULL}]
      BY <1>13, <1>15, <1>18, <1>20
    <3> QED
      BY <3>1, <3>2
  <2>2. node' = [n \in Heap' |-> IF n = q THEN x ELSE node[n]]
    BY <1>14, <1>15, <1>20
  <2>3. node' \in [Heap' -> [index : Index, value : Value,
                             next : Heap' \cup {NULL}]]
    BY <2>1, <2>2
  <2>4. \A a \in Bucket : head[a] # d
    <3> SUFFICES ASSUME NEW a \in Bucket, head[a] = d
                 PROVE  FALSE
      OBVIOUS
    <3>1. d # NULL
      BY <1>1, <1>13, NodeAssumption DEF HASH_Typed
    <3>2. ch[a] # << >> /\ ch[a][1] = d /\ ch[a] \in Seq(Node)
      BY <1>3, <3>1 DEF View, Path
    <3>3. 1 \in 1 .. Len(ch[a])
      BY <3>2, EmptySeq, LenProperties
    <3>4. /\ hashFunction(node[ch[a][1]].index) = a
          /\ hashFunction(node[ch[b][p]].index) = b
      BY <1>3, <1>4, <1>7, <3>3 DEF View
    <3>5. a = b
      BY <1>4, <1>11, <3>2, <3>4
    <3> QED
      BY <1>4, <1>5, <1>7, <1>8, <1>11, <3>2, <3>3, <3>5
  <2>5. head' \in [Bucket -> Heap' \cup {NULL}]
    BY <1>1, <1>14, <1>20, <2>4 DEF HASH_Typed
  <2> QED
    BY <1>1, <1>20, <2>3, <2>5 DEF HASH_Typed
<1>22. PICK r \in [Heap' \cup {NULL} -> Nat] :
         \A m \in Heap' \cup {NULL} : r[m] = rank[m]
  <2>1. [m \in Heap' \cup {NULL} |-> rank[m]] \in [Heap' \cup {NULL} -> Nat]
    BY <1>17, <1>20
  <2> QED
    BY <2>1
<1>23. Ends(r)'
  <2>1. \A m \in Heap' : node'[m].next \in Heap' \cup {NULL}
    BY <1>21 DEF HASH_Typed
  <2>2. \A m \in Heap' : rank[node'[m].next] < rank[m]
    <3>1. rank[node[d].next] < rank[q]
      BY <1>13, <1>17
    <3> QED
      BY <1>17, <1>20, <3>1
  <2> QED
    BY <1>22, <2>1, <2>2 DEF Ends
<1>24. PICK e \in Seq(Node) : Without(c, p, e)
  BY <1>7, Shortened
<1>25. /\ Len(e) = Len(c) - 1
       /\ \A j \in 1 .. Len(e) : e[j] = IF j < p THEN c[j] ELSE c[j + 1]
  BY <1>24 DEF Without
<1>26. PICK new \in [Bucket -> Seq(Node)] :
         /\ new[b] = e
         /\ \A a \in Bucket \ {b} : new[a] = ch[a]
  <2>1. [ch EXCEPT ![b] = e] \in [Bucket -> Seq(Node)]
    BY <1>3 DEF View
  <2> QED
    BY <1>3, <2>1 DEF View
<1>27. Path(head[b], e)'
  <2>1. head[b] # NULL /\ c[1] = head[b]
    <3>1. Len(c) # 0
      BY <1>5, <1>7
    <3> QED
      BY <1>5, <3>1, EmptySeq DEF Path
  <2>2. e # << >> /\ e[1] = head[b] /\ 1 \in 1 .. Len(e)
    <3>1. 1 \in 1 .. Len(e) /\ 1 < p
      BY <1>5, <1>7, <1>8, <1>10, <1>25
    <3>2. e[1] = c[1]
      BY <1>25, <3>1
    <3>3. e # << >>
      BY <3>1, EmptySeq
    <3> QED
      BY <2>1, <3>1, <3>2, <3>3
  <2>3. ASSUME NEW j \in 1 .. Len(e)
        PROVE  /\ e[j] \in Heap'
               /\ node'[e[j]].next = IF j < Len(e) THEN e[j + 1] ELSE NULL
    <3>1. /\ j \in Nat /\ j \in 1 .. Len(c) /\ j + 1 \in 1 .. Len(c)
          /\ j < Len(e) => j + 1 \in 1 .. Len(e)
      BY <1>5, <1>25, <2>3
    <3>2. CASE j = k
      <4>1. e[j] = q
        BY <1>10, <1>12, <1>25, <2>3, <3>2
      <4>2. node'[e[j]].next = node[d].next /\ e[j] \in Heap'
        BY <1>13, <1>20, <4>1
      <4>3. p < Len(c) <=> j < Len(e)
        BY <1>5, <1>10, <1>25, <3>2
      <4>4. j < Len(e) => e[j + 1] = c[p + 1]
        <5> SUFFICES ASSUME j < Len(e)
                     PROVE  e[j + 1] = c[p + 1]
          OBVIOUS
        <5>1. p \in 1 .. Len(e) /\ j + 1 = p /\ ~(p < p)
          BY <1>10, <3>1, <3>2
        <5>2. e[p] = c[p + 1]
          BY <1>10, <1>25, <5>1
        <5> QED
          BY <5>1, <5>2
      <4> QED
        BY <1>13, <4>2, <4>3, <4>4
    <3>3. CASE j < k
      <4>1. e[j] = c[j]
        BY <1>10, <1>25, <3>1, <3>3
      <4>2. c[j] # d /\ c[j] # q /\ c[j] \in Heap
        BY <1>5, <1>7, <1>10, <1>11, <1>12, <3>1, <3>3
      <4>3. node[c[j]].next = c[j + 1]
        BY <1>5, <1>10, <3>1, <3>3 DEF Path
      <4>4. j < Len(e) /\ j + 1 < p
        BY <1>5, <1>10, <1>25, <3>1, <3>3
      <4>5. e[j + 1] = c[j + 1]
        BY <1>25, <3>1, <4>4
      <4> QED
        BY <1>20, <4>1, <4>2, <4>3, <4>4, <4>5
    <3>4. CASE j > k
      <4>1. e[j] = c[j + 1]
        <5>1. ~(j < p)
          BY <1>10, <3>1, <3>4
        <5> QED
          BY <1>25, <2>3, <5>1
      <4>2. c[j + 1] # d /\ c[j + 1] # q /\ c[j + 1] \in Heap
        BY <1>5, <1>7, <1>10, <1>11, <1>12, <3>1, <3>4
      <4>3. j + 1 < Len(c) <=> j < Len(e)
        BY <1>5, <1>25, <3>1
      <4>4. j < Len(e) => e[j + 1] = c[(j + 1) + 1]
        <5> SUFFICES ASSUME j < Len(e)
                     PROVE  e[j + 1] = c[(j + 1) + 1]
          OBVIOUS
        <5>1. j + 1 \in 1 .. Len(e) /\ ~(j + 1 < p)
          BY <1>10, <3>1, <3>4
        <5> QED
          BY <1>25, <5>1
      <4>5. node[c[j + 1]].next =
              IF j + 1 < Len(c) THEN c[(j + 1) + 1] ELSE NULL
        BY <1>5, <3>1 DEF Path
      <4> QED
        BY <1>20, <4>1, <4>2, <4>3, <4>4, <4>5
    <3> QED
      BY <1>10, <3>1, <3>2, <3>3, <3>4
  <2> QED
    BY <1>14, <1>25, <2>1, <2>2, <2>3 DEF Path
<1>28. /\ \A x1 : x1 \in Members(new) <=>
                 \E a \in Bucket : \E j \in 1 .. Len(new[a]) : x1 = new[a][j]
       /\ \A x1 : x1 \in Members(ch) <=>
                 \E a \in Bucket : \E j \in 1 .. Len(ch[a]) : x1 = ch[a][j]
  <2>1. ch \in [Bucket -> Seq(Node)]
    BY <1>3 DEF View
  <2> QED
    BY <1>26, <2>1, MemberIs
<1>29. \A j \in 1 .. Len(e) : \E m \in 1 .. Len(c) : e[j] = c[m] /\ m # p
  <2> SUFFICES ASSUME NEW j \in 1 .. Len(e)
               PROVE  \E m \in 1 .. Len(c) : e[j] = c[m] /\ m # p
    OBVIOUS
  <2>1. j \in 1 .. Len(c) /\ j + 1 \in 1 .. Len(c)
    BY <1>5, <1>25
  <2>2. CASE j < p
    BY <1>10, <1>25, <2>1, <2>2
  <2>3. CASE ~(j < p)
    <3>1. e[j] = c[j + 1] /\ j + 1 # p
      BY <1>10, <1>25, <2>1, <2>3
    <3> QED
      BY <2>1, <3>1
  <2> QED
    BY <2>2, <2>3
<1>30. \A m \in 1 .. Len(c) : m # p => \E j \in 1 .. Len(e) : c[m] = e[j]
  <2> SUFFICES ASSUME NEW m \in 1 .. Len(c), m # p
               PROVE  \E j \in 1 .. Len(e) : c[m] = e[j]
    OBVIOUS
  <2>1. CASE m < p
    <3>1. m \in 1 .. Len(e) /\ e[m] = c[m]
      BY <1>5, <1>7, <1>25, <2>1
    <3> QED
      BY <3>1
  <2>2. CASE m > p
    <3>1. PICK j \in Nat : j = m - 1
      BY <1>5
    <3>2. j \in 1 .. Len(e) /\ ~(j < p) /\ j + 1 = m
      BY <1>5, <1>7, <1>25, <2>2, <3>1
    <3>3. e[j] = c[m]
      BY <1>25, <3>2
    <3> QED
      BY <3>2, <3>3
  <2>3. m < p \/ m > p
    <3>1. m \in Nat /\ p \in Nat
      BY <1>5, <1>10
    <3> QED
      BY <3>1
  <2> QED
    BY <2>1, <2>2, <2>3
<1>31. ASSUME NEW a \in Bucket
       PROVE  /\ Path(head[a], new[a])'
              /\ \A j \in 1 .. Len(new[a]) :
                   hashFunction(node'[new[a][j]].index) = a
  <2>1. CASE a = b
    <3>1. Path(head[a], new[a])'
      BY <1>26, <1>27, <2>1 DEF Path
    <3>2. \A j \in 1 .. Len(e) :
            hashFunction(node[e[j]].index) = b /\ e[j] \in Heap'
      <4>1. \A m \in 1 .. Len(c) : /\ hashFunction(node[c[m]].index) = b
                                   /\ m # p => c[m] # d
        BY <1>3, <1>4, <1>5, <1>7, <1>11 DEF View
      <4> QED
        BY <1>5, <1>20, <1>29, <4>1
    <3> QED
      BY <1>20, <1>26, <2>1, <3>1, <3>2
  <2>2. CASE a # b
    <3>1. new[a] = ch[a] /\ Path(head[a], ch[a])
      BY <1>3, <1>26, <2>2 DEF View
    <3>2. \A j \in 1 .. Len(ch[a]) :
            /\ hashFunction(node[ch[a][j]].index) = a
            /\ ch[a][j] \in Heap
      BY <1>3 DEF View, Path
    <3>3. hashFunction(node[d].index) = b /\ hashFunction(node[q].index) = b
      BY <1>3, <1>4, <1>7, <1>10, <1>11, <1>12 DEF View
    <3>4. \A j \in 1 .. Len(ch[a]) : ch[a][j] \in Heap' /\ ch[a][j] # q
      BY <1>20, <2>2, <3>2, <3>3
    <3>5. Path(head[a], ch[a])'
      BY <1>14, <1>20, <3>1, <3>4 DEF Path
    <3>6. Path(head[a], new[a])'
      BY <3>1, <3>5 DEF Path
    <3> QED
      BY <1>20, <3>1, <3>2, <3>4, <3>6
  <2> QED
    BY <2>1, <2>2
<1>32. Members(ch) = Members(new) \cup {d} /\ d \notin Members(new)
  <2>1. ASSUME NEW y \in Members(ch), y # d
        PROVE  y \in Members(new)
    <3>1. PICK a \in Bucket : \E j \in 1 .. Len(ch[a]) : y = ch[a][j]
      BY <1>28, <2>1
    <3>2. PICK j \in 1 .. Len(ch[a]) : y = ch[a][j]
      BY <3>1
    <3>3. CASE a = b
      <4>1. j \in 1 .. Len(c) /\ y = c[j] /\ j # p
        BY <1>4, <1>11, <2>1, <3>2, <3>3
      <4> QED
        BY <1>26, <1>28, <1>30, <4>1
    <3>4. CASE a # b
      <4>1. new[a] = ch[a]
        BY <1>26, <3>4
      <4> QED
        BY <1>28, <3>2, <4>1
    <3> QED
      BY <3>3, <3>4
  <2>2. ASSUME NEW y \in Members(new)
        PROVE  y \in Members(ch) /\ y # d
    <3>1. PICK a \in Bucket : \E j \in 1 .. Len(new[a]) : y = new[a][j]
      BY <1>28, <2>2
    <3>2. PICK j \in 1 .. Len(new[a]) : y = new[a][j]
      BY <3>1
    <3>3. CASE a = b
      <4>1. PICK m \in 1 .. Len(c) : y = c[m] /\ m # p
        BY <1>26, <1>29, <3>2, <3>3
      <4>2. y # d
        BY <1>5, <1>7, <1>11, <4>1
      <4> QED
        BY <1>4, <1>28, <4>1, <4>2
    <3>4. CASE a # b
      <4>1. new[a] = ch[a]
        BY <1>26, <3>4
      <4>2. /\ hashFunction(node[ch[a][j]].index) = a
            /\ hashFunction(node[d].index) = b
        BY <1>3, <1>4, <1>7, <1>11, <3>2, <4>1 DEF View
      <4> QED
        BY <1>28, <3>2, <3>4, <4>1, <4>2
    <3> QED
      BY <3>3, <3>4
  <2>3. d \in Members(ch)
    BY <1>4, <1>7, <1>11, <1>28
  <2> QED
    BY <2>1, <2>2, <2>3
<1>33. Heap' \ Members(new) = Heap \ Members(ch)
  BY <1>20, <1>32
<1>34. \A n \in Heap' \ Members(new) :
         node'[n].next \in (Heap' \ Members(new)) \cup {NULL}
  <2>1. q \in Members(ch)
    BY <1>4, <1>10, <1>12, <1>28
  <2>2. \A n \in Heap \ Members(ch) :
          node[n].next \in (Heap \ Members(ch)) \cup {NULL}
    BY <1>3 DEF View
  <2> QED
    BY <1>20, <1>33, <2>1, <2>2
<1>35. /\ HASH_Inv' /\ \A a \in Bucket : Chain(a)' = new[a]
       /\ InChains' = Members(new)
  BY <1>1, <1>21, <1>23, <1>31, <1>34, Rebuilt
<1>36. \A a \in Bucket : a # hashFunction(i) => Chain(a)' = Chain(a)
  BY <1>2, <1>3, <1>26, <1>35 DEF View
<1>37. Lost' = Lost
  BY <1>1, <1>3, <1>33, <1>35 DEF Lost, View
<1>38. c = Chain(hashFunction(i)) /\ e = Chain(hashFunction(i))'
  <2>1. Chain(b)' = e
    BY <1>26, <1>35
  <2> QED
    BY <1>2, <1>5, <2>1
<1> QED
  BY <1>1, <1>7, <1>10, <1>20, <1>24, <1>35, <1>36, <1>37, <1>38

LEMMA DestroyedTable ==
  ASSUME HASH_Inv, HASH_destroy
  PROVE  HASH_Inv' /\ ~live' /\ Lost' = Lost
<1>1. live /\ live' = FALSE /\ head' = head /\ HASH_Typed
  BY DEF HASH_destroy, HASH_Inv
<1>2. node' = [n \in Heap \ InChains |-> node[n]]
  BY DEF HASH_destroy, Freed
<1>3. Heap' = Lost /\ Lost' = Lost /\ \A n \in Lost : node'[n] = node[n]
  BY <1>1, <1>2 DEF Heap, Lost
<1>4. \A n \in Lost : n \in Heap /\ node[n].next \in Lost \cup {NULL}
  BY <1>1 DEF HASH_Inv, Lost
<1>5. HASH_Typed'
  <2>1. \A n \in Lost : node[n] \in [index : Index, value : Value,
                                     next : Lost \cup {NULL}]
    BY <1>1, <1>4 DEF HASH_Typed
  <2>2. node' = [n \in Lost |-> node[n]]
    BY <1>1, <1>2 DEF Lost
  <2>3. node' \in [Heap' -> [index : Index, value : Value,
                             next : Heap' \cup {NULL}]]
    BY <1>3, <2>1, <2>2
  <2>4. Heap' \subseteq Node
    BY <1>1, <1>3, <1>4 DEF HASH_Typed
  <2> QED
    BY <1>1, <2>3, <2>4 DEF HASH_Typed
<1>6. PICK rank : Ends(rank)
  BY DEF HASH_Inv
<1>7. PICK r \in [Heap' \cup {NULL} -> Nat] :
        \A m \in Heap' \cup {NULL} : r[m] = rank[m]
  <2>1. [m \in Heap' \cup {NULL} |-> rank[m]] \in [Heap' \cup {NULL} -> Nat]
    BY <1>3, <1>4, <1>6 DEF Ends
  <2> QED
    BY <2>1
<1>8. Ends(r)'
  BY <1>3, <1>4, <1>6, <1>7 DEF Ends
<1> QED
  BY <1>1, <1>3, <1>4, <1>5, <1>7, <1>8 DEF HASH_Inv

LEMMA SameTable ==
  ASSUME HASH_Inv, UNCHANGED <<head, node, live>>
  PROVE  /\ HASH_Inv' /\ Lost' = Lost
         /\ \A b \in Bucket : Chain(b)' = Chain(b)
<1>1. Heap' = Heap /\ HASH_Typed'
  BY DEF Heap, HASH_Inv, HASH_Typed
<1>2. PICK rank : Ends(rank)
  BY DEF HASH_Inv
<1>3. Ends(rank)'
  BY <1>1, <1>2 DEF Ends
<1>4. CASE live
  <2>1. live'
    BY <1>4
  <2>2. PICK ch : View(ch)
    BY <1>4, TableView
  <2>3. ch \in [Bucket -> Seq(Node)]
    BY <2>2 DEF View
  <2>4. \A b \in Bucket :
          /\ Path(head[b], ch[b])'
          /\ \A k \in 1 .. Len(ch[b]) : hashFunction(node'[ch[b][k]].index) = b
    BY <1>1, <2>2 DEF View, Path
  <2>5. \A n \in Heap' \ Members(ch) :
          node'[n].next \in (Heap' \ Members(ch)) \cup {NULL}
    BY <1>1, <2>2 DEF View
  <2>6. /\ HASH_Inv' /\ \A b \in Bucket : Chain(b)' = ch[b]
        /\ InChains' = Members(ch)
    BY <1>1, <1>3, <2>1, <2>3, <2>4, <2>5, Rebuilt
  <2> QED
    BY <1>1, <1>4, <2>2, <2>6 DEF View, Lost
<1>5. CASE ~live
  <2>1. Lost' = Lost
    BY <1>1, <1>5 DEF Lost
  <2>2. HASH_Inv'
    BY <1>1, <1>2, <1>3, <1>5, <2>1 DEF HASH_Inv, Ends
  <2> QED
    BY <2>1, <2>2 DEF Chain, From, Heap
<1> QED
  BY <1>4, <1>5

LEMMA HASH_Begins ==
  ASSUME HASH_Init
  PROVE  HASH_Inv
<1>1. head = [b \in Bucket |-> NULL] /\ node = << >> /\ live = FALSE
  BY DEF HASH_Init, Bucket
<1>2. Heap = {}
  BY <1>1 DEF Heap
<1>3. HASH_Typed
  <2>1. node \in [Heap -> [index : Index, value : Value,
                           next : Heap \cup {NULL}]]
    BY <1>1, <1>2
  <2> QED
    BY <1>1, <1>2, <2>1 DEF HASH_Typed
<1>4. \E rank \in [Heap \cup {NULL} -> Nat] : Ends(rank)
  <2>1. [n \in {NULL} |-> 0] \in [Heap \cup {NULL} -> Nat]
    BY <1>2
  <2> QED
    BY <1>2, <2>1 DEF Ends
<1> QED
  BY <1>1, <1>2, <1>3, <1>4 DEF HASH_Inv, Lost

LEMMA HASH_Step ==
  ASSUME HASH_Inv, [HASH_Next]_HASH_vars
  PROVE  HASH_Inv'
<1>1. CASE HASH_create
  BY <1>1, CreateTable
<1>2. CASE HASH_destroy
  BY <1>2, DestroyedTable
<1>3. ASSUME NEW i \in Index, NEW v \in Value, HASH_insert(i, v)
      PROVE  HASH_Inv'
  BY <1>3, InsertedTable
<1>4. ASSUME NEW i \in Index, DeleteFirst(i)
      PROVE  HASH_Inv'
  BY <1>4, WithoutFirst
<1>5. ASSUME NEW i \in Index, DeleteLater(i)
      PROVE  HASH_Inv'
  BY <1>5, WithoutLater
<1>6. ASSUME NEW i \in Index, HASH_get(i) \/ DeleteNone(i)
      PROVE  HASH_Inv'
  BY <1>6, SameTable DEF HASH_get, DeleteNone
<1>7. CASE UNCHANGED HASH_vars
  BY <1>7, SameTable DEF HASH_vars
<1> QED
  BY <1>1, <1>2, <1>3, <1>4, <1>5, <1>6, <1>7 DEF HASH_Next

LEMMA HASH_Always == HASH_Spec => []HASH_Inv
<1>1. HASH_Init => HASH_Inv
  BY HASH_Begins
<1>2. HASH_Inv /\ [HASH_Next]_HASH_vars => HASH_Inv'
  BY HASH_Step
<1> QED
  BY <1>1, <1>2, PTL DEF HASH_Spec

\* The action of LostOnlyBehindFirst.
LosesBehindFirst ==
  Lost' \subseteq Lost \/ \E b \in DOMAIN head :
    /\ call'.op = "delete" /\ live
    /\ Lost' \ Lost = ToSet(Chain(b)) \ {head[b]}
    /\ head[b] \notin DOMAIN node'

\* Of whatever HASH_insert allocates, in a table of any size, nothing is lost
\* but what is chained behind a first node when HASH_delete takes that one.
THEOREM TableLosesBehindFirst == HASH_Spec => LostOnlyBehindFirst
<1>1. ASSUME HASH_Inv, HASH_Next
      PROVE  LosesBehindFirst
  <2>1. CASE HASH_create
    BY <1>1, <2>1, CreateTable DEF LosesBehindFirst
  <2>2. CASE HASH_destroy
    BY <1>1, <2>2, DestroyedTable DEF LosesBehindFirst
  <2>3. ASSUME NEW i \in Index, NEW v \in Value, HASH_insert(i, v)
        PROVE  LosesBehindFirst
    BY <1>1, <2>3, InsertedTable DEF LosesBehindFirst
  <2>4. ASSUME NEW i \in Index, DeleteFirst(i)
        PROVE  LosesBehindFirst
    <3>1. PICK b \in Bucket : /\ head[b] \notin DOMAIN node'
                              /\ Lost' \ Lost = ToSet(Chain(b)) \ {head[b]}
      BY <1>1, <2>4, WithoutFirst
    <3>2. call'.op = "delete" /\ live
      BY <2>4 DEF DeleteFirst, Answers
    <3>3. b \in DOMAIN head
      BY <1>1 DEF HASH_Inv, HASH_Typed
    <3> QED
      BY <3>1, <3>2, <3>3 DEF LosesBehindFirst
  <2>5. ASSUME NEW i \in Index, DeleteLater(i)
        PROVE  LosesBehindFirst
    BY <1>1, <2>5, WithoutLater DEF LosesBehindFirst
  <2>6. ASSUME NEW i \in Index, HASH_get(i) \/ DeleteNone(i)
        PROVE  LosesBehindFirst
    BY <1>1, <2>6, SameTable DEF HASH_get, DeleteNone, LosesBehindFirst
  <2> QED
    BY <1>1, <2>1, <2>2, <2>3, <2>4, <2>5, <2>6 DEF HASH_Next
<1>2. HASH_Inv /\ [HASH_Next]_HASH_vars => [LosesBehindFirst]_HASH_vars
  BY <1>1
<1>3. HASH_Spec => [][LosesBehindFirst]_HASH_vars
  BY <1>2, HASH_Always, PTL DEF HASH_Spec
<1> QED
  BY <1>3 DEF LostOnlyBehindFirst, LosesBehindFirst

\* s in two parts around its p-th member, and t without it.
Parts(S, s, p, t) ==
  \E A, R \in Seq(S) :
    /\ s = Append(A, s[p]) \o R
    /\ t = A \o R
    /\ \A k \in 1 .. Len(A) : k \in 1 .. Len(s) /\ k < p /\ A[k] = s[k]

LEMMA FunctionIsSeq ==
  ASSUME NEW S, NEW n \in Nat, NEW e \in [1 .. n -> S]
  PROVE  e \in Seq(S) /\ Len(e) = n
  OBVIOUS

LEMMA CutAround ==
  ASSUME NEW S, NEW s \in Seq(S), NEW p \in 1 .. Len(s),
         NEW t \in Seq(S), Len(t) = Len(s) - 1,
         \A j \in 1 .. Len(t) : t[j] = IF j < p THEN s[j] ELSE s[j + 1]
  PROVE  Parts(S, s, p, t)
<1>1. Len(s) \in Nat /\ p \in Nat /\ s[p] \in S /\ 1 <= p /\ p <= Len(s)
  <2>1. Len(s) \in Nat
    BY LenProperties
  <2>2. s[p] \in S
    BY ElementOfSeq
  <2> QED
    BY <2>1, <2>2
<1>2. PICK m \in Nat : m = p - 1
  BY <1>1
<1>3. PICK n \in Nat : n = Len(s) - p
  <2>1. PICK l \in Nat : l = Len(s)
    BY <1>1
  <2>2. l - p \in Nat
    BY <1>1, <2>1
  <2> QED
    BY <2>1, <2>2
<1>4. /\ \A k \in 1 .. m : k \in 1 .. Len(s) /\ s[k] \in S
      /\ \A k \in 1 .. n : k + p \in 1 .. Len(s) /\ s[k + p] \in S
  <2>1. \A k \in 1 .. m : k \in 1 .. Len(s)
    BY <1>1, <1>2
  <2>2. \A k \in 1 .. n : k + p \in 1 .. Len(s)
    BY <1>1, <1>3
  <2> QED
    BY <2>1, <2>2, ElementOfSeq
<1>5. PICK A \in Seq(S) : Len(A) = m /\ \A k \in 1 .. m : A[k] = s[k]
  <2>1. PICK e : e = [k \in 1 .. m |-> s[k]]
    OBVIOUS
  <2>2. e \in Seq(S) /\ Len(e) = m
    BY <1>4, <2>1, IsASeq
  <2> QED
    BY <2>1, <2>2
<1>6. PICK R \in Seq(S) : Len(R) = n /\ \A k \in 1 .. n : R[k] = s[k + p]
  <2>1. PICK e : e = [k \in 1 .. n |-> s[k + p]]
    OBVIOUS
  <2>2. e \in [1 .. n -> S] /\ \A k \in 1 .. n : e[k] = s[k + p]
    BY <1>4, <2>1
  <2>3. e \in Seq(S) /\ Len(e) = n
    BY <2>2, FunctionIsSeq
  <2> QED
    BY <2>2, <2>3
<1>7. PICK B \in Seq(S) : B = Append(A, s[p])
  BY <1>1, AppendProperties
<1>8. Len(B) = p /\ \A k \in 1 .. p : B[k] = s[k]
  <2>1. /\ Len(B) = Len(A) + 1 /\ B[Len(A) + 1] = s[p]
        /\ \A k \in 1 .. Len(A) : B[k] = A[k]
    BY <1>1, <1>7, AppendProperties
  <2>2. m + 1 = p
    BY <1>1, <1>2
  <2>3. \A k \in 1 .. p : k \in 1 .. m \/ k = p
    BY <1>1, <1>2
  <2> QED
    BY <1>5, <2>1, <2>2, <2>3
<1>9. s = B \o R
  <2>1. PICK w \in Seq(S) :
          /\ w = B \o R /\ Len(w) = Len(B) + Len(R)
          /\ \A k \in 1 .. Len(B) + Len(R) :
               w[k] = IF k <= Len(B) THEN B[k] ELSE R[k - Len(B)]
    <3>1. PICK w \in Seq(S) : w = B \o R
      BY ConcatProperties
    <3>2. Len(w) = Len(B) + Len(R)
      BY <3>1, ConcatProperties
    <3>3. \A k \in 1 .. Len(B) + Len(R) :
            w[k] = IF k <= Len(B) THEN B[k] ELSE R[k - Len(B)]
      BY <3>1, ConcatProperties
    <3> QED
      BY <3>1, <3>2, <3>3
  <2>2. ASSUME NEW k \in 1 .. Len(s)
        PROVE  w[k] = s[k]
    <3>1. k \in 1 .. Len(B) + Len(R) /\ k \in Nat
      BY <1>1, <1>3, <1>6, <1>8
    <3>2. CASE k <= p
      <4>1. k \in 1 .. p
        BY <1>1, <3>1, <3>2
      <4> QED
        BY <1>8, <2>1, <3>1, <3>2, <4>1
    <3>3. CASE k > p
      <4>1. k - p \in 1 .. n /\ (k - p) + p = k /\ ~(k <= p)
        BY <1>1, <1>3, <3>3
      <4>2. R[k - p] = s[k]
        BY <1>6, <4>1
      <4> QED
        BY <1>8, <2>1, <3>1, <4>1, <4>2
    <3>4. k <= p \/ k > p
      BY <1>1, <3>1
    <3> QED
      BY <3>2, <3>3, <3>4
  <2>3. Len(s) = Len(w)
    BY <1>1, <1>3, <1>6, <1>8, <2>1
  <2> QED
    BY <2>1, <2>2, <2>3, SeqEqual
<1>10. t = A \o R
  <2>1. PICK w \in Seq(S) :
          /\ w = A \o R /\ Len(w) = Len(A) + Len(R)
          /\ \A k \in 1 .. Len(A) + Len(R) :
               w[k] = IF k <= Len(A) THEN A[k] ELSE R[k - Len(A)]
    <3>1. PICK w \in Seq(S) : w = A \o R
      BY ConcatProperties
    <3>2. Len(w) = Len(A) + Len(R)
      BY <3>1, ConcatProperties
    <3>3. \A k \in 1 .. Len(A) + Len(R) :
            w[k] = IF k <= Len(A) THEN A[k] ELSE R[k - Len(A)]
      BY <3>1, ConcatProperties
    <3> QED
      BY <3>1, <3>2, <3>3
  <2>2. ASSUME NEW k \in 1 .. Len(t)
        PROVE  w[k] = t[k]
    <3>1. k \in 1 .. Len(A) + Len(R) /\ k \in Nat
      BY <1>1, <1>2, <1>3, <1>5, <1>6
    <3>2. CASE k <= m
      <4>1. k \in 1 .. m /\ k < p
        BY <1>1, <1>2, <3>1, <3>2
      <4>2. t[k] = s[k]
        BY <2>2, <4>1
      <4> QED
        BY <1>5, <2>1, <3>1, <3>2, <4>1, <4>2
    <3>3. CASE k > m
      <4>1. /\ k - m \in 1 .. n /\ (k - m) + p = k + 1
            /\ ~(k < p) /\ ~(k <= m)
        BY <1>1, <1>2, <1>3, <3>1, <3>3
      <4>2. R[k - m] = s[k + 1]
        BY <1>6, <4>1
      <4>3. t[k] = s[k + 1]
        BY <4>1
      <4> QED
        BY <1>5, <2>1, <3>1, <4>1, <4>2, <4>3
    <3>4. k <= m \/ k > m
      BY <3>1
    <3> QED
      BY <3>2, <3>3, <3>4
  <2>3. Len(t) = Len(w)
    BY <1>1, <1>2, <1>3, <1>5, <1>6, <2>1
  <2> QED
    BY <2>1, <2>2, <2>3, SeqEqual
<1>11. \A k \in 1 .. Len(A) : k \in 1 .. Len(s) /\ k < p /\ A[k] = s[k]
  BY <1>1, <1>2, <1>4, <1>5
<1> QED
  BY <1>7, <1>9, <1>10, <1>11 DEF Parts

\* What flattening s gives, and t without its p-th member.
FlatParts(V, s, p, t) ==
  \E a, r \in Seq(V) :
    /\ FlattenSeq(s) = (a \o s[p]) \o r
    /\ FlattenSeq(t) = a \o r
    /\ (\A k \in 1 .. Len(s) : k < p => s[k] = << >>) => a = << >>

LEMMA FlattenWithout ==
  ASSUME NEW V, NEW s \in Seq(Seq(V)), NEW p \in 1 .. Len(s),
         NEW t \in Seq(Seq(V)), Without(s, p, t)
  PROVE  FlatParts(V, s, p, t)
<1>1. s[p] \in Seq(V)
  BY ElementOfSeq
<1>2. PICK A, R \in Seq(Seq(V)) :
        /\ s = Append(A, s[p]) \o R
        /\ t = A \o R
        /\ \A k \in 1 .. Len(A) : k \in 1 .. Len(s) /\ k < p /\ A[k] = s[k]
  <2>1. Parts(Seq(V), s, p, t)
    <3>1. /\ Len(t) = Len(s) - 1
          /\ \A j \in 1 .. Len(t) : t[j] = IF j < p THEN s[j] ELSE s[j + 1]
      BY DEF Without
    <3> QED
      BY <3>1, CutAround
  <2> QED
    BY <2>1 DEF Parts
<1>3. PICK B \in Seq(Seq(V)) : B = Append(A, s[p])
  BY <1>1, AppendProperties
<1>4. PICK a, r \in Seq(V) : a = FlattenSeq(A) /\ r = FlattenSeq(R)
  BY FlattenTyped
<1>5. FlattenSeq(B) = a \o s[p]
  BY <1>1, <1>3, <1>4, FlattenAppend
<1>6. FlattenSeq(s) = (a \o s[p]) \o r
  BY <1>2, <1>3, <1>4, <1>5, FlattenConcat
<1>7. FlattenSeq(t) = a \o r
  BY <1>2, <1>4, FlattenConcat
<1>8. (\A k \in 1 .. Len(s) : k < p => s[k] = << >>) => a = << >>
  BY <1>2, <1>4, FlattenNothing
<1> QED
  BY <1>6, <1>7, <1>8 DEF FlatParts

(***************************************************************************)
(* The table implements the dictionary.                                    *)
(***************************************************************************)
\* What the nodes of chain c, in heap nd, hold under index i.
Pieces(c, nd, i) ==
  [k \in 1 .. Len(c) |->
     IF nd[c[k]].index = i THEN <<nd[c[k]].value>> ELSE << >>]

LEMMA PiecesTyped ==
  ASSUME NEW c \in Seq(Node), NEW nd, NEW i,
         \A k \in 1 .. Len(c) : nd[c[k]].value \in Value
  PROVE  /\ Pieces(c, nd, i) \in Seq(Seq(Value))
         /\ Len(Pieces(c, nd, i)) = Len(c)
         /\ \A k \in 1 .. Len(c) : Pieces(c, nd, i)[k] =
              IF nd[c[k]].index = i THEN <<nd[c[k]].value>> ELSE << >>
         /\ FlattenSeq(Pieces(c, nd, i)) \in Seq(Value)
<1>1. Len(c) \in Nat
  BY LenProperties
<1>2. PICK e : e = Pieces(c, nd, i)
  OBVIOUS
<1>3. e = [k \in 1 .. Len(c) |->
             IF nd[c[k]].index = i THEN <<nd[c[k]].value>> ELSE << >>]
  BY <1>2 DEF Pieces
<1>4. \A k \in 1 .. Len(c) :
        (IF nd[c[k]].index = i THEN <<nd[c[k]].value>> ELSE << >>) \in Seq(Value)
  <2> SUFFICES ASSUME NEW k \in 1 .. Len(c)
               PROVE  /\ <<nd[c[k]].value>> \in Seq(Value)
                      /\ << >> \in Seq(Value)
    OBVIOUS
  <2> QED
    BY Singleton, EmptySeq
<1>5. e \in Seq(Seq(Value)) /\ Len(e) = Len(c)
  BY <1>1, <1>3, <1>4, IsASeq
<1> QED
  BY <1>2, <1>3, <1>5, FlattenTyped

PiecesAre(c, nd, i) ==
  /\ Pieces(c, nd, i) \in Seq(Seq(Value))
  /\ Len(Pieces(c, nd, i)) = Len(c)
  /\ \A k \in 1 .. Len(c) : Pieces(c, nd, i)[k] =
       IF nd[c[k]].index = i THEN <<nd[c[k]].value>> ELSE << >>

LEMMA PiecesNamed ==
  ASSUME NEW c \in Seq(Node), NEW nd, NEW i,
         \A k \in 1 .. Len(c) : nd[c[k]].value \in Value
  PROVE  PiecesAre(c, nd, i)
  BY PiecesTyped DEF PiecesAre

\* Two heaps that agree on a chain hold the same there.
LEMMA PiecesAgree ==
  ASSUME NEW c, NEW nd, NEW nd2, NEW i,
         \A k \in 1 .. Len(c) : /\ nd[c[k]].index = nd2[c[k]].index
                                /\ nd[c[k]].value = nd2[c[k]].value
  PROVE  Pieces(c, nd, i) = Pieces(c, nd2, i)
  BY DEF Pieces

ValuesOfChains ==
  /\ ~live => \A i \in Index : ValuesOf(i) = << >>
  /\ live => \A b \in Bucket, i \in Index : \A c : Chain(b) = c =>
       (hashFunction(i) = b => ValuesOf(i) = FlattenSeq(Pieces(c, node, i)))

LEMMA ValuesAre == ValuesOfChains
  BY DEF ValuesOfChains, ValuesOf, Under, Pieces

\* The chain of every index, with the values that its nodes hold.
ChainsHold ==
  \A i \in Index : \E c \in Seq(Node) :
    /\ c = Chain(hashFunction(i)) /\ Len(c) \in Nat
    /\ \A k \in 1 .. Len(c) :
         /\ c[k] \in Heap
         /\ node[c[k]].value \in Value /\ node[c[k]].index \in Index
         /\ hashFunction(node[c[k]].index) = hashFunction(i)
    /\ \A j \in Index : hashFunction(j) = hashFunction(i) =>
         ValuesOf(j) = FlattenSeq(Pieces(c, node, j))

LEMMA ValuesInChains == HASH_Inv /\ live => ChainsHold
<1> SUFFICES ASSUME HASH_Inv, live, NEW i \in Index
             PROVE  \E c \in Seq(Node) :
               /\ c = Chain(hashFunction(i)) /\ Len(c) \in Nat
               /\ \A k \in 1 .. Len(c) :
                    /\ c[k] \in Heap
                    /\ node[c[k]].value \in Value /\ node[c[k]].index \in Index
                    /\ hashFunction(node[c[k]].index) = hashFunction(i)
               /\ \A j \in Index : hashFunction(j) = hashFunction(i) =>
                    ValuesOf(j) = FlattenSeq(Pieces(c, node, j))
  BY DEF ChainsHold
<1>1. PICK b \in Bucket : b = hashFunction(i)
  BY HashInBucket
<1>2. PICK ch : View(ch)
  BY TableView
<1>3. PICK c \in Seq(Node) : c = ch[b]
  BY <1>2 DEF View
<1>4. /\ Chain(b) = c /\ Path(head[b], c)
      /\ \A k \in 1 .. Len(c) : hashFunction(node[c[k]].index) = b
  BY <1>2, <1>3 DEF View
<1>5. \A k \in 1 .. Len(c) : c[k] \in Heap
  BY <1>4 DEF Path
<1>6. \A k \in 1 .. Len(c) : node[c[k]].value \in Value /\ node[c[k]].index \in Index
  BY <1>5 DEF HASH_Inv, HASH_Typed
<1>7. \A j \in Index : hashFunction(j) = b =>
        ValuesOf(j) = FlattenSeq(Pieces(c, node, j))
  BY <1>4, ValuesAre DEF ValuesOfChains
<1>8. Len(c) \in Nat
  BY LenProperties
<1> QED
  BY <1>1, <1>4, <1>5, <1>6, <1>7, <1>8

LEMMA ValuesTyped ==
  ASSUME HASH_Inv
  PROVE  \A i \in Index : ValuesOf(i) \in Seq(Value)
<1> SUFFICES ASSUME NEW i \in Index
             PROVE  ValuesOf(i) \in Seq(Value)
  OBVIOUS
<1>1. CASE live
  <2>1. PICK c \in Seq(Node) :
          /\ \A k \in 1 .. Len(c) : node[c[k]].value \in Value
          /\ \A j \in Index : hashFunction(j) = hashFunction(i) =>
               ValuesOf(j) = FlattenSeq(Pieces(c, node, j))
    BY <1>1, ValuesInChains DEF ChainsHold
  <2>2. FlattenSeq(Pieces(c, node, i)) \in Seq(Value)
    BY <2>1, PiecesTyped
  <2> QED
    BY <2>1, <2>2
<1>2. CASE ~live
  BY <1>2, ValuesAre, EmptySeq DEF ValuesOfChains
<1> QED
  BY <1>1, <1>2, Zenon DEF HASH_Inv, HASH_Typed

\* A chain that stays keeps what it holds.
LEMMA ChainKept ==
  ASSUME HASH_Inv, live, HASH_Inv', live', NEW j \in Index,
         Chain(hashFunction(j))' = Chain(hashFunction(j)),
         \A m \in Heap' : m \in Heap => /\ node'[m].index = node[m].index
                                        /\ node'[m].value = node[m].value
  PROVE  ValuesOf(j)' = ValuesOf(j)
<1>1. PICK c \in Seq(Node) :
        /\ c = Chain(hashFunction(j))
        /\ \A k \in 1 .. Len(c) : c[k] \in Heap
        /\ ValuesOf(j) = FlattenSeq(Pieces(c, node, j))
  BY ValuesInChains DEF ChainsHold
<1>2. ChainsHold'
  BY ValuesInChains, PTL
<1>3. PICK d \in Seq(Node) :
        /\ d = Chain(hashFunction(j))'
        /\ \A k \in 1 .. Len(d) : d[k] \in Heap'
        /\ ValuesOf(j)' = FlattenSeq(Pieces(d, node', j))
  BY <1>2 DEF ChainsHold, hashFunction
<1>4. c = d
  BY <1>1, <1>3
<1>5. Pieces(c, node', j) = Pieces(c, node, j)
  BY <1>1, <1>3, <1>4, PiecesAgree
<1> QED
  BY <1>1, <1>3, <1>4, <1>5

LEMMA ImplementsInit ==
  ASSUME HASH_Init
  PROVE  Dict!Init
<1>1. live = FALSE
  BY DEF HASH_Init
<1>2. \A i \in Index : ValuesOf(i) = << >>
  BY <1>1, ValuesAre DEF ValuesOfChains
<1> QED
  BY <1>1, <1>2 DEF HASH_Init, Dict!Init

LEMMA ImplementsCreate ==
  ASSUME HASH_Inv, HASH_create
  PROVE  Dict!Create
<1>1. ~live /\ live' = TRUE /\ call' = [op |-> "create", val |-> 1]
  BY DEF HASH_create, Answers
<1>2. HASH_Inv' /\ \A b \in Bucket : Chain(b)' = << >>
  BY CreateTable
<1>3. ValuesOfChains'
  BY ValuesAre, PTL
<1>4. ASSUME NEW i \in Index
      PROVE  ValuesOf(i)' = << >>
  <2>1. PICK b \in Bucket : b = hashFunction(i)
    BY HashInBucket
  <2>2. PICK e \in Seq(Node) : e = << >> /\ Len(e) = 0
    BY EmptySeq
  <2>3. ValuesOf(i)' = FlattenSeq(Pieces(e, node', i))
    BY <1>1, <1>2, <1>3, <2>1, <2>2 DEF ValuesOfChains, hashFunction
  <2>4. \A k \in 1 .. Len(e) : FALSE
    BY <2>2
  <2>5. PICK q \in Seq(Seq(Value)) :
          q = Pieces(e, node', i) /\ \A k \in 1 .. Len(q) : FALSE
    <3>1. \A k \in 1 .. Len(e) : node'[e[k]].value \in Value
      BY <2>4
    <3> QED
      BY <2>4, <3>1, PiecesTyped
  <2>6. FlattenSeq(q) = << >>
    BY <2>5, FlattenNothing
  <2> QED
    BY <2>3, <2>5, <2>6
<1> QED
  BY <1>1, <1>4 DEF Dict!Create, Dict!Returns

LEMMA ImplementsDestroy ==
  ASSUME HASH_Inv, HASH_destroy
  PROVE  Dict!Destroy
<1>1. live /\ live' = FALSE /\ call' = [op |-> "destroy", val |-> 1]
  BY DEF HASH_destroy, Answers
<1>2. ValuesOfChains'
  BY ValuesAre, PTL
<1>3. \A i \in Index : ValuesOf(i)' = << >>
  BY <1>1, <1>2 DEF ValuesOfChains
<1> QED
  BY <1>1, <1>3 DEF Dict!Destroy, Dict!Returns

LEMMA ImplementsInsert ==
  ASSUME HASH_Inv, NEW i \in Index, NEW v \in Value, HASH_insert(i, v)
  PROVE  Dict!Insert(i, v)
<1>1. live /\ live' /\ live' = live /\ call' = [op |-> "insert", val |-> 1]
  BY DEF HASH_insert, Answers
<1>2. HASH_Inv'
  BY InsertedTable
<1>3. PICK n \in Node \ Heap :
        /\ node'[n].index = i /\ node'[n].value = v
        /\ \A m \in Heap : /\ node'[m].index = node[m].index
                           /\ node'[m].value = node[m].value
        /\ \A b \in Bucket :
             Chain(b)' = IF b = hashFunction(i) THEN Append(Chain(b), n)
                         ELSE Chain(b)
  BY InsertedTable
<1>4. PICK b \in Bucket : b = hashFunction(i)
  BY HashInBucket
<1>5. PICK c \in Seq(Node) :
        /\ c = Chain(b) /\ Len(c) \in Nat
        /\ \A k \in 1 .. Len(c) : c[k] \in Heap /\ node[c[k]].value \in Value
        /\ \A j \in Index : hashFunction(j) = b =>
             ValuesOf(j) = FlattenSeq(Pieces(c, node, j))
  BY <1>1, <1>4, ValuesInChains DEF ChainsHold
<1>6. PICK e \in Seq(Node) : e = Append(c, n)
  BY AppendProperties
<1>7. /\ Len(e) = Len(c) + 1 /\ e[Len(c) + 1] = n
      /\ \A k \in 1 .. Len(c) : e[k] = c[k]
  BY <1>6, AppendProperties
<1>8. \A k \in 1 .. Len(e) : node'[e[k]].value \in Value
  <2> SUFFICES ASSUME NEW k \in 1 .. Len(e)
               PROVE  node'[e[k]].value \in Value
    OBVIOUS
  <2>1. k \in 1 .. Len(c) \/ k = Len(c) + 1
    BY <1>5, <1>7
  <2> QED
    BY <1>3, <1>5, <1>7, <2>1
<1>9. ValuesOfChains'
  BY ValuesAre, PTL
<1>10. \A j \in Index : hashFunction(j) = b =>
         ValuesOf(j)' = FlattenSeq(Pieces(e, node', j))
  <2>1. Chain(b)' = e
    BY <1>3, <1>4, <1>5, <1>6
  <2> QED
    BY <1>1, <1>9, <2>1 DEF ValuesOfChains, hashFunction
<1>11. ASSUME NEW j \in Index, hashFunction(j) = b
       PROVE  ValuesOf(j)' = IF j = i THEN Append(ValuesOf(i), v) ELSE ValuesOf(j)
  <2>1. PICK s \in Seq(Seq(Value)) :
          /\ s = Pieces(c, node, j) /\ Len(s) = Len(c)
          /\ \A k \in 1 .. Len(c) : s[k] =
               IF node[c[k]].index = j THEN <<node[c[k]].value>> ELSE << >>
    BY <1>5, PiecesTyped
  <2>2. PICK t \in Seq(Seq(Value)) :
          /\ t = Pieces(e, node', j) /\ Len(t) = Len(e)
          /\ \A k \in 1 .. Len(e) : t[k] =
               IF node'[e[k]].index = j THEN <<node'[e[k]].value>> ELSE << >>
    BY <1>8, PiecesTyped
  <2>3. PICK x \in Seq(Value) : x = IF i = j THEN <<v>> ELSE << >>
    BY Singleton, EmptySeq
  <2>4. PICK u \in Seq(Seq(Value)) : u = Append(s, x)
    BY AppendProperties
  <2>5. /\ Len(u) = Len(s) + 1 /\ u[Len(s) + 1] = x
        /\ \A k \in 1 .. Len(s) : u[k] = s[k]
    BY <2>4, AppendProperties
  <2>6. ASSUME NEW k \in 1 .. Len(t)
        PROVE  t[k] = u[k]
    <3>1. k \in 1 .. Len(e) /\ (k \in 1 .. Len(c) \/ k = Len(c) + 1)
      BY <1>5, <1>7, <2>2
    <3>2. CASE k \in 1 .. Len(c)
      <4>1. e[k] = c[k] /\ c[k] \in Heap
        BY <1>5, <1>7, <3>2
      <4>2. t[k] = IF node'[c[k]].index = j THEN <<node'[c[k]].value>>
                   ELSE << >>
        BY <2>2, <3>1, <4>1
      <4>3. /\ node'[c[k]].index = node[c[k]].index
            /\ node'[c[k]].value = node[c[k]].value
        BY <1>3, <4>1
      <4>4. u[k] = IF node[c[k]].index = j THEN <<node[c[k]].value>>
                   ELSE << >>
        BY <2>1, <2>5, <3>2
      <4> QED
        BY <4>2, <4>3, <4>4
    <3>3. CASE k = Len(c) + 1
      <4>1. e[k] = n /\ u[k] = x
        BY <1>7, <2>1, <2>5, <3>3
      <4> QED
        BY <1>3, <2>2, <2>3, <3>1, <4>1
    <3> QED
      BY <3>1, <3>2, <3>3
  <2>7. t = u
    <3>1. Len(t) = Len(u)
      BY <1>7, <2>1, <2>2, <2>5
    <3> QED
      BY <2>6, <3>1, SeqEqual
  <2>8. FlattenSeq(t) = FlattenSeq(s) \o x
    BY <2>4, <2>7, FlattenAppend
  <2>9. ValuesOf(j) = FlattenSeq(s) /\ ValuesOf(j)' = FlattenSeq(t)
    BY <1>5, <1>10, <1>11, <2>1, <2>2
  <2>10. PICK y \in Seq(Value) : y = ValuesOf(j)
    BY ValuesTyped
  <2>11. y \o << >> = y /\ Append(y, v) = y \o <<v>>
    BY ConcatEmptySeq, AppendIsConcat
  <2> QED
    BY <2>3, <2>8, <2>9, <2>10, <2>11
<1>12. ASSUME NEW j \in Index, hashFunction(j) # b
       PROVE  ValuesOf(j)' = ValuesOf(j)
  <2>1. PICK d \in Bucket : d = hashFunction(j)
    BY HashInBucket
  <2>2. Chain(hashFunction(j))' = Chain(hashFunction(j))
    <3>1. Chain(d)' = Chain(d)
      BY <1>3, <1>4, <1>12, <2>1
    <3> QED
      BY <2>1, <3>1 DEF hashFunction
  <2> QED
    BY <1>1, <1>2, <1>3, <2>2, ChainKept
<1>13. PICK f \in [Index -> Seq(Value)] : f = [j \in Index |-> ValuesOf(j)]
  BY ValuesTyped
<1>14. PICK g : g = [j \in Index |-> ValuesOf(j)]'
  OBVIOUS
<1>15. g = [j \in Index |-> ValuesOf(j)']
  BY <1>14
<1>16. \A j \in Index : ValuesOf(j)' = IF j = i THEN Append(f[i], v) ELSE f[j]
  BY <1>4, <1>11, <1>12, <1>13
<1>17. g = [f EXCEPT ![i] = Append(f[i], v)]
  BY <1>13, <1>15, <1>16
<1> QED
  BY <1>1, <1>13, <1>14, <1>17 DEF Dict!Insert, Dict!Returns

LEMMA ValuesKept ==
  ASSUME HASH_Inv, UNCHANGED <<head, node, live>>
  PROVE  [j \in Index |-> ValuesOf(j)]' = [j \in Index |-> ValuesOf(j)]
<1>1. HASH_Inv' /\ \A b \in Bucket : Chain(b)' = Chain(b)
  BY SameTable
<1>2. ASSUME NEW j \in Index
      PROVE  ValuesOf(j)' = ValuesOf(j)
  <2>1. CASE live
    <3>1. PICK b \in Bucket : b = hashFunction(j)
      BY HashInBucket
    <3>2. Chain(hashFunction(j))' = Chain(hashFunction(j))
      BY <1>1, <3>1 DEF hashFunction
    <3>3. \A m \in Heap' : m \in Heap => /\ node'[m].index = node[m].index
                                         /\ node'[m].value = node[m].value
      OBVIOUS
    <3> QED
      BY <1>1, <2>1, <3>2, <3>3, ChainKept
  <2>2. CASE ~live
    <3>1. ValuesOfChains'
      BY ValuesAre, PTL
    <3> QED
      BY <2>2, <3>1, ValuesAre DEF ValuesOfChains
  <2> QED
    BY <2>1, <2>2, Zenon DEF HASH_Inv, HASH_Typed
<1> QED
  BY <1>2

\* Looking for an index in its chain: there is a first node with it, and its
\* value is the first one of the index, or it has no values.
LEMMA FirstValue ==
  ASSUME HASH_Inv, live, NEW i \in Index
  PROVE  LET c == Chain(hashFunction(i)) IN
         /\ Places(c, i) = {} => ValuesOf(i) = << >>
         /\ Places(c, i) # {} =>
              /\ c # << >> /\ c[First(Places(c, i))] # NULL
              /\ ValuesOf(i) # << >>
              /\ Head(ValuesOf(i)) = node[c[First(Places(c, i))]].value
<1>1. PICK c \in Seq(Node) :
        /\ c = Chain(hashFunction(i)) /\ Len(c) \in Nat
        /\ \A k \in 1 .. Len(c) : c[k] \in Heap /\ node[c[k]].value \in Value
        /\ ValuesOf(i) = FlattenSeq(Pieces(c, node, i))
  BY ValuesInChains DEF ChainsHold
<1>2. PICK s \in Seq(Seq(Value)) :
        /\ s = Pieces(c, node, i) /\ Len(s) = Len(c)
        /\ \A k \in 1 .. Len(c) : s[k] =
             IF node[c[k]].index = i THEN <<node[c[k]].value>> ELSE << >>
  BY <1>1, PiecesTyped
<1>3. CASE Places(c, i) = {}
  <2>1. \A k \in 1 .. Len(s) : s[k] = << >>
    BY <1>2, <1>3 DEF Places
  <2>2. ValuesOf(i) = << >>
    BY <1>1, <1>2, <2>1, FlattenNothing
  <2> QED
    BY <1>1, <1>3, <2>2
<1>4. CASE Places(c, i) # {}
  <2>1. PICK p \in Places(c, i) :
          p = First(Places(c, i)) /\ \A m \in Places(c, i) : p <= m
    <3>1. Places(c, i) \subseteq Nat
      BY DEF Places
    <3> QED
      BY <1>4, <3>1, FirstIsLeast
  <2>2. p \in 1 .. Len(c) /\ node[c[p]].index = i /\ p \in Nat
    BY DEF Places
  <2>3. \A k \in 1 .. Len(c) : k < p => node[c[k]].index # i
    <3> SUFFICES ASSUME NEW k \in 1 .. Len(c), k < p, node[c[k]].index = i
                 PROVE  FALSE
      OBVIOUS
    <3>1. k \in Places(c, i)
      BY DEF Places
    <3> QED
      BY <2>1, <2>2, <3>1
  <2>4. PICK v \in Value : v = node[c[p]].value
    BY <1>1, <2>2
  <2>5. PICK x \in Seq(Value) : x = <<v>> /\ Len(x) = 1 /\ x[1] = v
    BY Singleton
  <2>6. s[p] = x /\ \A k \in 1 .. Len(s) : k < p => s[k] = << >>
    BY <1>2, <2>2, <2>3, <2>4, <2>5
  <2>7. PICK t \in Seq(Seq(Value)) : Without(s, p, t)
    BY <1>2, <2>2, Shortened
  <2>8. PICK r \in Seq(Value) : ValuesOf(i) = x \o r
    <3>1. p \in 1 .. Len(s)
      BY <1>2, <2>2
    <3>2. FlatParts(Value, s, p, t)
      BY <2>7, <3>1, FlattenWithout
    <3>3. PICK a, r \in Seq(Value) :
            FlattenSeq(s) = (a \o s[p]) \o r /\ a = << >>
      BY <2>6, <3>2 DEF FlatParts
    <3>4. << >> \o x = x
      BY ConcatEmptySeq
    <3> QED
      BY <1>1, <1>2, <2>6, <3>3, <3>4
  <2>9. ValuesOf(i) # << >> /\ Head(ValuesOf(i)) = v
    <3>1. PICK w \in Seq(Value) : w = x \o r
      BY ConcatProperties
    <3>2. Len(w) = Len(x) + Len(r) /\ Len(r) \in Nat
      BY <3>1, ConcatProperties, LenProperties
    <3>3. \A k \in 1 .. Len(x) + Len(r) :
            w[k] = IF k <= Len(x) THEN x[k] ELSE r[k - Len(x)]
      BY <3>1, ConcatProperties
    <3>4. Len(w) # 0 /\ w[1] = v
      BY <2>5, <3>2, <3>3
    <3>5. w # << >>
      BY <3>4, EmptySeq
    <3>6. Head(w) = w[1]
      BY <3>5
    <3> QED
      BY <2>8, <3>1, <3>4, <3>5, <3>6
  <2>10. c # << >>
    BY <1>1, <2>2, EmptySeq
  <2>11. c[p] # NULL
    BY <1>1, <2>2, NodeAssumption DEF HASH_Inv, HASH_Typed
  <2> QED
    BY <1>1, <1>4, <2>1, <2>4, <2>9, <2>10, <2>11
<1> QED
  BY <1>1, <1>3, <1>4

LEMMA ImplementsGet ==
  ASSUME HASH_Inv, NEW i \in Index, i # 0, HASH_get(i)
  PROVE  Dict!Get(i)
<1>1. live /\ UNCHANGED <<head, node, live>>
  BY DEF HASH_get
<1>2. PICK c : c = Chain(hashFunction(i))
  OBVIOUS
<1>3. PICK n : n = searchFor(i, hashFunction(i))
  OBVIOUS
<1>4. call' = [op |-> "get", val |-> IF n = NULL THEN NULL ELSE node[n].value]
  BY <1>3 DEF HASH_get, Answers
<1>5. n = IF c = << >> THEN NULL
          ELSE IF Places(c, i) = {} THEN NULL ELSE c[First(Places(c, i))]
  BY <1>2, <1>3 DEF searchFor
<1>6. /\ Places(c, i) = {} => ValuesOf(i) = << >>
      /\ Places(c, i) # {} =>
           /\ c # << >> /\ c[First(Places(c, i))] # NULL
           /\ ValuesOf(i) # << >>
           /\ Head(ValuesOf(i)) = node[c[First(Places(c, i))]].value
  BY <1>1, <1>2, FirstValue
<1>7. call'.val = IF ValuesOf(i) = << >> THEN NULL ELSE Head(ValuesOf(i))
  BY <1>4, <1>5, <1>6
<1> QED
  BY <1>1, <1>4, <1>6, <1>7, ValuesKept DEF Dict!Get, Dict!Returns, Dict!NULL, NULL

\* The last node of a bucket holds the last value of its own index.
LEMMA ImplementsGetOfZero ==
  ASSUME HASH_Inv, 0 \in Index, HASH_get(0)
  PROVE  Dict!GetOfZero
<1>1. live /\ UNCHANGED <<head, node, live>>
  BY DEF HASH_get
<1>2. PICK c \in Seq(Node) :
        /\ c = Chain(hashFunction(0)) /\ Len(c) \in Nat
        /\ \A k \in 1 .. Len(c) :
             /\ c[k] \in Heap
             /\ node[c[k]].value \in Value /\ node[c[k]].index \in Index
             /\ hashFunction(node[c[k]].index) = hashFunction(0)
        /\ \A j \in Index : hashFunction(j) = hashFunction(0) =>
             ValuesOf(j) = FlattenSeq(Pieces(c, node, j))
  BY <1>1, ValuesInChains DEF ChainsHold
<1>3. PICK n : n = searchFor(0, hashFunction(0))
  OBVIOUS
<1>4. call' = [op |-> "get", val |-> IF n = NULL THEN NULL ELSE node[n].value]
  BY <1>3 DEF HASH_get, Answers
<1>5. n = IF c = << >> THEN NULL ELSE c[Len(c)]
  BY <1>2, <1>3 DEF searchFor, Last
<1>6. PICK f \in [Index -> Seq(Value)] : f = [j \in Index |-> ValuesOf(j)]
  BY ValuesTyped
<1>7. PICK bucket :
        bucket = {j \in Index : Dict!Collide(j, 0) /\ f[j] # << >>}
  OBVIOUS
<1>8. \A j \in Index : Dict!Collide(j, 0) <=> hashFunction(j) = hashFunction(0)
  BY DEF Dict!Collide, hashFunction
<1>9. CASE c = << >>
  <2>1. \A j \in Index : Dict!Collide(j, 0) => f[j] = << >>
    <3> SUFFICES ASSUME NEW j \in Index, hashFunction(j) = hashFunction(0)
                 PROVE  f[j] = << >>
      BY <1>8
    <3>1. Len(c) = 0 /\ \A k \in 1 .. Len(c) : FALSE
      BY <1>9, EmptySeq
    <3>2. PICK s \in Seq(Seq(Value)) :
            s = Pieces(c, node, j) /\ \A k \in 1 .. Len(s) : FALSE
      <4>1. \A k \in 1 .. Len(c) : node[c[k]].value \in Value
        BY <1>2
      <4> QED
        BY <3>1, <4>1, PiecesTyped
    <3>3. FlattenSeq(s) = << >>
      BY <3>2, FlattenNothing
    <3> QED
      BY <1>2, <1>6, <3>2, <3>3
  <2>2. bucket = {}
    BY <1>7, <2>1
  <2>3. call' = [op |-> "get", val |-> "null"]
    BY <1>4, <1>5, <1>9 DEF NULL
  <2> QED
    BY <1>1, <1>6, <1>7, <2>2, <2>3, ValuesKept
    DEF Dict!GetOfZero, Dict!Returns, Dict!NULL
<1>10. CASE c # << >>
  <2>1. Len(c) \in 1 .. Len(c)
    BY <1>2, <1>10, EmptySeq
  <2>2. /\ n = c[Len(c)] /\ n \in Heap /\ node[n].value \in Value
        /\ node[n].index \in Index
        /\ hashFunction(node[n].index) = hashFunction(0)
    BY <1>2, <1>5, <1>10, <2>1
  <2>3. n # NULL
    BY <2>2, NodeAssumption DEF HASH_Inv, HASH_Typed
  <2>4. PICK j \in Index : j = node[n].index
    BY <2>2
  <2>5. PICK v \in Value : v = node[n].value
    BY <2>2
  <2>6. PICK s \in Seq(Seq(Value)) :
          /\ s = Pieces(c, node, j) /\ Len(s) = Len(c)
          /\ \A k \in 1 .. Len(c) : s[k] =
               IF node[c[k]].index = j THEN <<node[c[k]].value>> ELSE << >>
    <3>1. \A k \in 1 .. Len(c) : node[c[k]].value \in Value
      BY <1>2
    <3> QED
      BY <3>1, PiecesTyped
  <2>7. s[Len(s)] = <<v>>
    BY <2>1, <2>2, <2>4, <2>5, <2>6
  <2>8. PICK u \in Seq(Seq(Value)), x \in Seq(Value) : s = Append(u, x)
    <3>1. s # << >>
      BY <2>1, <2>6, EmptySeq
    <3> QED
      BY <3>1, SequenceEmptyOrAppend
  <2>9. x = <<v>>
    <3>1. Len(s) = Len(u) + 1 /\ s[Len(u) + 1] = x
      BY <2>8, AppendProperties
    <3> QED
      BY <2>7, <3>1
  <2>10. PICK y \in Seq(Value) : y = FlattenSeq(u)
    BY FlattenTyped
  <2>11. f[j] = Append(y, v)
    <3>1. FlattenSeq(s) = y \o x
      BY <2>8, <2>10, FlattenAppend
    <3>2. Append(y, v) = y \o <<v>>
      BY AppendIsConcat
    <3> QED
      BY <1>2, <1>6, <2>2, <2>4, <2>6, <2>9, <3>1, <3>2
  <2>12. f[j] # << >> /\ f[j][Len(f[j])] = v
    <3>1. PICK z \in Seq(Value) : z = Append(y, v)
      BY AppendProperties
    <3>2. Len(z) = Len(y) + 1 /\ z[Len(y) + 1] = v /\ Len(y) \in Nat
      BY <3>1, AppendProperties, LenProperties
    <3>3. z # << >>
      BY <3>2, EmptySeq
    <3> QED
      BY <2>11, <3>1, <3>2, <3>3
  <2>13. j \in bucket
    BY <1>7, <1>8, <2>2, <2>4, <2>12
  <2>14. call' = [op |-> "get", val |-> f[j][Len(f[j])]]
    BY <1>4, <2>3, <2>5, <2>12
  <2>15. /\ bucket # {}
         /\ \E i \in bucket : call' = [op |-> "get", val |-> f[i][Len(f[i])]]
    BY <2>13, <2>14
  <2> QED
    BY <1>1, <1>6, <1>7, <2>15, ValuesKept
    DEF Dict!GetOfZero, Dict!Returns
<1> QED
  BY <1>9, <1>10

LEMMA ImplementsDeleteNone ==
  ASSUME HASH_Inv, NEW i \in Index, DeleteNone(i)
  PROVE  Dict!DeleteNothing(i)
<1>1. /\ live /\ UNCHANGED <<head, node, live>>
      /\ call' = [op |-> "delete", val |-> 0]
      /\ Places(Chain(hashFunction(i)), i) = {}
  BY DEF DeleteNone, Answers
<1>2. ValuesOf(i) = << >>
  BY <1>1, FirstValue
<1> QED
  BY <1>1, <1>2, ValuesKept DEF Dict!DeleteNothing, Dict!Returns

LEMMA ImplementsDeleteFirst ==
  ASSUME HASH_Inv, NEW i \in Index, DeleteFirst(i)
  PROVE  Dict!Delete(i)
<1>1. live /\ live' /\ live' = live /\ call' = [op |-> "delete", val |-> 1]
  BY DEF DeleteFirst, Answers
<1>2. HASH_Inv'
  BY WithoutFirst
<1>3. PICK b \in Bucket : b = hashFunction(i)
  BY HashInBucket
<1>4. /\ \A m \in Heap' : node'[m] = node[m]
      /\ \A d \in Bucket : Chain(d)' = IF d = b THEN << >> ELSE Chain(d)
  BY <1>3, WithoutFirst
<1>5. ValuesOf(i) # << >>
  <2>1. PICK c : c = Chain(hashFunction(i))
    OBVIOUS
  <2>2. Places(c, i) # {}
    BY <2>1, WithoutFirst DEF Places
  <2> QED
    BY <1>1, <2>1, <2>2, FirstValue
<1>6. ValuesOfChains'
  BY ValuesAre, PTL
<1>7. ASSUME NEW j \in Index, hashFunction(j) = b
      PROVE  ValuesOf(j)' = << >>
  <2>1. PICK e \in Seq(Node) : e = << >> /\ Len(e) = 0
    BY EmptySeq
  <2>2. ValuesOf(j)' = FlattenSeq(Pieces(e, node', j))
    <3>1. Chain(b)' = e
      BY <1>4, <2>1
    <3> QED
      BY <1>1, <1>6, <1>7, <3>1 DEF ValuesOfChains, hashFunction
  <2>3. \A k \in 1 .. Len(e) : FALSE
    BY <2>1
  <2>4. PICK q \in Seq(Seq(Value)) :
          q = Pieces(e, node', j) /\ \A k \in 1 .. Len(q) : FALSE
    <3>1. \A k \in 1 .. Len(e) : node'[e[k]].value \in Value
      BY <2>3
    <3> QED
      BY <2>3, <3>1, PiecesTyped
  <2>5. FlattenSeq(q) = << >>
    BY <2>4, FlattenNothing
  <2> QED
    BY <2>2, <2>4, <2>5
<1>8. ASSUME NEW j \in Index, hashFunction(j) # b
      PROVE  ValuesOf(j)' = ValuesOf(j)
  <2>1. PICK d \in Bucket : d = hashFunction(j)
    BY HashInBucket
  <2>2. Chain(hashFunction(j))' = Chain(hashFunction(j))
    <3>1. Chain(d)' = Chain(d)
      BY <1>4, <1>8, <2>1
    <3> QED
      BY <2>1, <3>1 DEF hashFunction
  <2> QED
    BY <1>1, <1>2, <1>4, <2>2, ChainKept
<1>9. PICK f \in [Index -> Seq(Value)] : f = [j \in Index |-> ValuesOf(j)]
  BY ValuesTyped
<1>10. PICK g : g = [j \in Index |-> ValuesOf(j)]'
  OBVIOUS
<1>11. g = [j \in Index |-> ValuesOf(j)']
  BY <1>10
<1>12. \A j \in Index :
         ValuesOf(j)' = IF Dict!Collide(i, j) THEN << >> ELSE f[j]
  BY <1>3, <1>7, <1>8, <1>9 DEF Dict!Collide, hashFunction
<1>13. g = [j \in Index |-> IF Dict!Collide(i, j) THEN << >> ELSE f[j]]
  BY <1>11, <1>12
<1>14. f[i] # << >>
  BY <1>5, <1>9
<1> QED
  BY <1>1, <1>9, <1>10, <1>13, <1>14 DEF Dict!Delete, Dict!Returns

LEMMA ImplementsDeleteLater ==
  ASSUME HASH_Inv, NEW i \in Index, DeleteLater(i)
  PROVE  Dict!Delete(i)
<1>1. live /\ live' /\ live' = live /\ call' = [op |-> "delete", val |-> 1]
  BY DEF DeleteLater, Answers
<1>2. HASH_Inv' /\ \A m \in Heap' : /\ node'[m].index = node[m].index
                                    /\ node'[m].value = node[m].value
  BY WithoutLater
<1>3. PICK b \in Bucket : b = hashFunction(i)
  BY HashInBucket
<1>4. PICK c \in Seq(Node), e \in Seq(Node), p \in Nat :
        /\ c = Chain(b) /\ e = Chain(b)'
        /\ p \in 1 .. Len(c) /\ node[c[p]].index = i
        /\ \A j \in 1 .. Len(c) : j < p => node[c[j]].index # i
        /\ Without(c, p, e)
  BY <1>3, WithoutLater DEF hashFunction
<1>5. \A d \in Bucket : d # b => Chain(d)' = Chain(d)
  BY <1>3, WithoutLater
<1>6. /\ Len(c) \in Nat
      /\ \A k \in 1 .. Len(c) : node[c[k]].value \in Value
      /\ \A j \in Index : hashFunction(j) = b =>
           ValuesOf(j) = FlattenSeq(Pieces(c, node, j))
  BY <1>1, <1>3, <1>4, ValuesInChains DEF ChainsHold
<1>7. /\ Len(e) \in Nat
      /\ \A k \in 1 .. Len(e) : e[k] \in Heap' /\ node'[e[k]].value \in Value
      /\ \A j \in Index : hashFunction(j) = b =>
           ValuesOf(j)' = FlattenSeq(Pieces(e, node', j))
  <2>1. ChainsHold'
    BY <1>1, <1>2, ValuesInChains, PTL
  <2> QED
    BY <1>3, <1>4, <2>1 DEF ChainsHold, hashFunction
<1>8. /\ Len(e) = Len(c) - 1
      /\ \A k \in 1 .. Len(e) : e[k] = IF k < p THEN c[k] ELSE c[k + 1]
  BY <1>4 DEF Without
<1>9. ASSUME NEW j \in Index, hashFunction(j) = b
      PROVE  \E s, t \in Seq(Seq(Value)) :
               /\ ValuesOf(j) = FlattenSeq(s) /\ ValuesOf(j)' = FlattenSeq(t)
               /\ Without(s, p, t) /\ Len(s) = Len(c)
               /\ \A k \in 1 .. Len(c) : s[k] =
                    IF node[c[k]].index = j THEN <<node[c[k]].value>> ELSE << >>
  <2>1. PICK s \in Seq(Seq(Value)) :
          /\ s = Pieces(c, node, j) /\ Len(s) = Len(c)
          /\ \A k \in 1 .. Len(c) : s[k] =
               IF node[c[k]].index = j THEN <<node[c[k]].value>> ELSE << >>
    BY <1>6, PiecesTyped
  <2>2. PICK t \in Seq(Seq(Value)) :
          /\ t = Pieces(e, node', j) /\ Len(t) = Len(e)
          /\ \A k \in 1 .. Len(e) : t[k] =
               IF node'[e[k]].index = j THEN <<node'[e[k]].value>> ELSE << >>
    <3>1. PICK nd : nd = node'
      OBVIOUS
    <3>2. \A k \in 1 .. Len(e) : nd[e[k]].value \in Value
      BY <1>7, <3>1
    <3>3. PiecesAre(e, nd, j)
      BY <3>2, PiecesNamed
    <3> QED
      BY <3>1, <3>3 DEF PiecesAre
  <2>3. ASSUME NEW k \in 1 .. Len(e)
        PROVE  t[k] = IF k < p THEN s[k] ELSE s[k + 1]
    <3>1. PICK m : m = e[k]
      OBVIOUS
    <3>2. t[k] = IF node[m].index = j THEN <<node[m].value>> ELSE << >>
      <4>1. t[k] = IF node'[m].index = j THEN <<node'[m].value>> ELSE << >>
        BY <2>2, <3>1
      <4>2. node'[m].index = node[m].index /\ node'[m].value = node[m].value
        BY <1>2, <1>7, <3>1
      <4> QED
        BY <4>1, <4>2
    <3>3. k \in 1 .. Len(c) /\ k + 1 \in 1 .. Len(c)
      BY <1>6, <1>7, <1>8
    <3>4. CASE k < p
      BY <1>8, <2>1, <3>1, <3>2, <3>3, <3>4
    <3>5. CASE ~(k < p)
      <4>1. m = c[k + 1]
        BY <1>8, <3>1, <3>5
      <4> QED
        BY <2>1, <3>2, <3>3, <3>5, <4>1
    <3> QED
      BY <3>4, <3>5
  <2>4. Without(s, p, t)
    BY <1>8, <2>1, <2>2, <2>3 DEF Without
  <2> QED
    BY <1>6, <1>7, <1>9, <2>1, <2>2, <2>4
<1>10. /\ ValuesOf(i) # << >> /\ ValuesOf(i)' = Tail(ValuesOf(i))
  <2>1. PICK s \in Seq(Seq(Value)), t \in Seq(Seq(Value)) :
          /\ ValuesOf(i) = FlattenSeq(s) /\ ValuesOf(i)' = FlattenSeq(t)
          /\ Without(s, p, t) /\ Len(s) = Len(c)
          /\ \A k \in 1 .. Len(c) : s[k] =
               IF node[c[k]].index = i THEN <<node[c[k]].value>> ELSE << >>
    BY <1>3, <1>9
  <2>2. PICK v \in Value : v = node[c[p]].value
    BY <1>4, <1>6
  <2>3. PICK x \in Seq(Value) : x = <<v>> /\ Len(x) = 1 /\ x[1] = v
    BY Singleton
  <2>4. s[p] = x /\ \A k \in 1 .. Len(s) : k < p => s[k] = << >>
    BY <1>4, <2>1, <2>2, <2>3
  <2>5. FlatParts(Value, s, p, t)
    <3>1. p \in 1 .. Len(s)
      BY <1>4, <2>1
    <3> QED
      BY <2>1, <3>1, FlattenWithout
  <2>6. PICK a \in Seq(Value), r \in Seq(Value) :
          /\ FlattenSeq(s) = (a \o s[p]) \o r
          /\ FlattenSeq(t) = a \o r
          /\ a = << >>
    BY <2>4, <2>5 DEF FlatParts
  <2>7. << >> \o x = x /\ << >> \o r = r
    BY ConcatEmptySeq
  <2>8. ValuesOf(i) = x \o r /\ ValuesOf(i)' = r
    BY <2>1, <2>4, <2>6, <2>7
  <2>9. x \o r # << >> /\ Tail(x \o r) = r
    <3>1. PICK w \in Seq(Value) : w = x \o r
      BY ConcatProperties
    <3>2. Len(w) = Len(x) + Len(r) /\ Len(r) \in Nat
      BY <3>1, ConcatProperties, LenProperties
    <3>3. \A k \in 1 .. Len(x) + Len(r) :
            w[k] = IF k <= Len(x) THEN x[k] ELSE r[k - Len(x)]
      BY <3>1, ConcatProperties
    <3>4. w # << >>
      BY <2>3, <3>2, EmptySeq
    <3>5. PICK z \in Seq(Value) :
            /\ z = Tail(w) /\ Len(z) = Len(w) - 1
            /\ \A k \in 1 .. Len(z) : z[k] = w[k + 1]
      BY <3>4, HeadTailProperties
    <3>6. ASSUME NEW k \in 1 .. Len(z)
          PROVE  z[k] = r[k]
      <4>1. /\ k + 1 \in 1 .. Len(x) + Len(r) /\ ~(k + 1 <= Len(x))
            /\ (k + 1) - Len(x) = k
        BY <2>3, <3>2, <3>5
      <4> QED
        BY <3>3, <3>5, <4>1
    <3>7. z = r
      <4>1. Len(z) = Len(r)
        BY <2>3, <3>2, <3>5
      <4> QED
        BY <3>6, <4>1, SeqEqual
    <3> QED
      BY <3>1, <3>4, <3>5, <3>7
  <2> QED
    BY <2>8, <2>9
<1>11. ASSUME NEW j \in Index, j # i
       PROVE  ValuesOf(j)' = ValuesOf(j)
  <2>1. CASE hashFunction(j) = b
    <3>1. PICK s \in Seq(Seq(Value)), t \in Seq(Seq(Value)) :
            /\ ValuesOf(j) = FlattenSeq(s) /\ ValuesOf(j)' = FlattenSeq(t)
            /\ Without(s, p, t) /\ Len(s) = Len(c)
            /\ \A k \in 1 .. Len(c) : s[k] =
                 IF node[c[k]].index = j THEN <<node[c[k]].value>> ELSE << >>
      BY <1>9, <2>1
    <3>2. s[p] = << >>
      BY <1>4, <1>11, <3>1
    <3>3. FlatParts(Value, s, p, t)
      <4>1. p \in 1 .. Len(s)
        BY <1>4, <3>1
      <4> QED
        BY <3>1, <4>1, FlattenWithout
    <3>4. PICK a \in Seq(Value), r \in Seq(Value) :
            /\ FlattenSeq(s) = (a \o s[p]) \o r
            /\ FlattenSeq(t) = a \o r
      BY <3>3 DEF FlatParts
    <3>5. a \o << >> = a
      BY ConcatEmptySeq
    <3> QED
      BY <3>1, <3>2, <3>4, <3>5
  <2>2. CASE hashFunction(j) # b
    <3>1. PICK d \in Bucket : d = hashFunction(j)
      BY HashInBucket
    <3>2. Chain(hashFunction(j))' = Chain(hashFunction(j))
      <4>1. Chain(d)' = Chain(d)
        BY <1>5, <2>2, <3>1
      <4> QED
        BY <3>1, <4>1 DEF hashFunction
    <3> QED
      BY <1>1, <1>2, <3>2, ChainKept
  <2> QED
    BY <2>1, <2>2
<1>12. PICK f \in [Index -> Seq(Value)] : f = [j \in Index |-> ValuesOf(j)]
  BY ValuesTyped
<1>13. PICK g : g = [j \in Index |-> ValuesOf(j)]'
  OBVIOUS
<1>14. g = [j \in Index |-> ValuesOf(j)']
  BY <1>13
<1>15. \A j \in Index : ValuesOf(j)' = IF j = i THEN Tail(f[i]) ELSE f[j]
  BY <1>10, <1>11, <1>12
<1>16. g = [f EXCEPT ![i] = Tail(f[i])]
  BY <1>12, <1>14, <1>15
<1>17. f[i] # << >>
  BY <1>10, <1>12
<1> QED
  BY <1>1, <1>12, <1>13, <1>16, <1>17 DEF Dict!Delete, Dict!Returns

LEMMA ImplementsStep ==
  ASSUME HASH_Inv, [HASH_Next]_HASH_vars
  PROVE  [Dict!Next]_Dict!vars
<1>1. CASE HASH_create
  BY <1>1, ImplementsCreate DEF Dict!Next
<1>2. CASE HASH_destroy
  BY <1>2, ImplementsDestroy DEF Dict!Next
<1>3. ASSUME NEW i \in Index, NEW v \in Value, HASH_insert(i, v)
      PROVE  Dict!Next
  BY <1>3, ImplementsInsert DEF Dict!Next
<1>4. ASSUME NEW i \in Index, HASH_get(i)
      PROVE  Dict!Next
  <2>1. CASE i = 0
    BY <1>4, <2>1, ImplementsGetOfZero DEF Dict!Next
  <2>2. CASE i # 0
    BY <1>4, <2>2, ImplementsGet DEF Dict!Next
  <2> QED
    BY <2>1, <2>2
<1>5. ASSUME NEW i \in Index, DeleteFirst(i)
      PROVE  Dict!Next
  BY <1>5, ImplementsDeleteFirst DEF Dict!Next
<1>6. ASSUME NEW i \in Index, DeleteLater(i)
      PROVE  Dict!Next
  BY <1>6, ImplementsDeleteLater DEF Dict!Next
<1>7. ASSUME NEW i \in Index, DeleteNone(i)
      PROVE  Dict!Next
  BY <1>7, ImplementsDeleteNone DEF Dict!Next
<1>8. CASE UNCHANGED HASH_vars
  BY <1>8, ValuesKept DEF HASH_vars, Dict!vars
<1> QED
  BY <1>1, <1>2, <1>3, <1>4, <1>5, <1>6, <1>7, <1>8 DEF HASH_Next

\* Whatever is called on a table, of any number of buckets, with any indices:
\* it gives back the values of an index in the order of their insertion, and
\* drops others only where Dictionary says it may.
THEOREM TableImplementsDictionary == HASH_Spec => ImplementsDictionary
<1>1. HASH_Init => Dict!Init
  BY ImplementsInit
<1>2. HASH_Inv /\ [HASH_Next]_HASH_vars => [Dict!Next]_Dict!vars
  BY ImplementsStep
<1> QED
  BY <1>1, <1>2, HASH_Always, PTL DEF HASH_Spec, ImplementsDictionary, Dict!Spec
=============================================================================

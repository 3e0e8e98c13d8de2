----------------------------- MODULE RoundRobin -----------------------------
(***************************************************************************)
(* The queues of lib/roundRobin.c: an array of one slot more than the      *)
(* capacity, of which the slots from first up to last, modulo size, are in *)
(* use.  Any sequence of calls is considered that a program can make on    *)
(* queues it has created and not yet destroyed.                            *)
(*                                                                         *)
(* memmove is given a number of slots where it takes one of bytes: it      *)
(* copies that many bytes of one slot over its neighbour.  What the        *)
(* neighbour then holds is any element; no ring is as large as a slot has  *)
(* bytes, so that no other slot is touched.                                *)
(***************************************************************************)
EXTENDS Integers, Sequences

CONSTANTS
  Ring,      \* the queues
  Element,   \* what a slot may hold
  Capacity,  \* the sizes RR_create is asked for
  SlotBytes  \* sizeof(RR_element)

ASSUME ElementAssumption == Element \subseteq Nat /\ Element # {}
ASSUME CapacityAssumption ==
  Capacity \subseteq Nat /\ \A n \in Capacity : n < SlotBytes
ASSUME SlotBytesAssumption == SlotBytes \in Nat

VARIABLES
  data,              \* of each queue, the slots that were allocated;
  first, last, size, \* size is 0 while there is no queue
  overrun,           \* memory behind a queue's slots was written
  ret                \* the last call and what it returned

indices == <<first, last, size>>
vars == <<data, first, last, size, overrun, ret>>

Slots(n) == 0 .. n - 1

Memory == UNION {[Slots(n) -> Element] : n \in 0 .. SlotBytes}

TypeOK ==
  /\ data \in [Ring -> Memory]
  /\ first \in [Ring -> Nat]
  /\ last \in [Ring -> Nat]
  /\ size \in [Ring -> Nat]
  /\ overrun \in BOOLEAN
  /\ \A r \in Ring :
       /\ Slots(size[r]) \subseteq DOMAIN data[r]
       /\ size[r] > 0 =>
            first[r] \in Slots(size[r]) /\ last[r] \in Slots(size[r])

Init ==
  /\ data = [r \in Ring |-> << >>]
  /\ first = [r \in Ring |-> 0]
  /\ last = [r \in Ring |-> 0]
  /\ size = [r \in Ring |-> 0]
  /\ overrun = FALSE
  /\ ret = [op |-> "none", val |-> << >>]

-----------------------------------------------------------------------------
Usable(r) == ~overrun /\ size[r] > 0

Advance(n, i) == (i + 1) % n

Returns(op, val) == ret' = [op |-> op, val |-> val] /\ UNCHANGED overrun

\* The slots are malloc's: they hold anything.
RR_create(r, n) ==
  /\ ~overrun
  /\ size[r] = 0
  /\ \E contents \in [Slots(n + 1) -> Element] :
       data' = [data EXCEPT ![r] = contents]
  /\ size' = [size EXCEPT ![r] = n + 1]
  /\ first' = [first EXCEPT ![r] = 0]
  /\ last' = [last EXCEPT ![r] = 0]
  /\ Returns("create", << >>)

RR_destroy(r) ==
  /\ Usable(r)
  /\ data' = [data EXCEPT ![r] = << >>]
  /\ size' = [size EXCEPT ![r] = 0]
  /\ first' = [first EXCEPT ![r] = 0]
  /\ last' = [last EXCEPT ![r] = 0]
  /\ Returns("destroy", <<1>>)

FullUnwrapped(r) == last[r] = first[r] - 1

Full(r) ==
  \/ last[r] = first[r] - 1
  \/ last[r] = size[r] - 1 /\ first[r] = 0

Refused(r, op) ==
  /\ Usable(r)
  /\ Full(r)
  /\ Returns(op, <<0>>)
  /\ UNCHANGED <<data, indices>>

Store(r, i, e) == [data EXCEPT ![r] = [data[r] EXCEPT ![i] = e]]

RR_push_fd(r, e) ==
  /\ Usable(r)
  /\ ~Full(r)
  /\ data' = Store(r, last[r], e)
  /\ last' = [last EXCEPT ![r] = Advance(size[r], last[r])]
  /\ Returns("push_fd", <<1>>)
  /\ UNCHANGED <<first, size>>

\* sizeof(*e) is that of void, which is none of the cases: nothing is stored.
RR_push(r) ==
  /\ Usable(r)
  /\ ~Full(r)
  /\ last' = [last EXCEPT ![r] = Advance(size[r], last[r])]
  /\ Returns("push", <<1>>)
  /\ UNCHANGED <<data, first, size>>

Empty(r) == first[r] = last[r]

\* RR_pull and RR_pull_fd, RR_pull_pthread_t, RR_pull_sockadrr_in.
Pulls == {"pull_fd", "pull_thread", "pull_address"}

Pull(r, op) ==
  /\ Usable(r)
  /\ ~Empty(r)
  /\ Returns(op, <<data[r][first[r]]>>)
  /\ first' = [first EXCEPT ![r] = Advance(size[r], first[r])]
  /\ UNCHANGED <<data, last, size>>

\* -1; no thread; an address that was never set.
NoneFor(op) ==
  CASE op = "pull_fd" -> {-1}
    [] op = "pull_thread" -> {0}
    [] op = "pull_address" -> Element

PullNothing(r, op) ==
  /\ Usable(r)
  /\ Empty(r)
  /\ \E x \in NoneFor(op) : Returns(op, <<x>>)
  /\ UNCHANGED <<data, indices>>

RR_isEmpty(r) ==
  /\ Usable(r)
  /\ Returns("isEmpty", <<IF Empty(r) THEN 1 ELSE 0>>)
  /\ UNCHANGED <<data, indices>>

-----------------------------------------------------------------------------
Allocated(r) == DOMAIN data[r]

\* The size of the source is copied, however much memory the copy has.
RR_copy(dst, src) ==
  /\ Usable(dst) /\ Usable(src)
  /\ Slots(size[src]) \subseteq Allocated(dst)
  /\ data' = [data EXCEPT ![dst] =
                [i \in Allocated(dst) |->
                   IF i < size[src] THEN data[src][i] ELSE data[dst][i]]]
  /\ first' = [first EXCEPT ![dst] = first[src]]
  /\ last' = [last EXCEPT ![dst] = last[src]]
  /\ size' = [size EXCEPT ![dst] = size[src]]
  /\ Returns("copy", <<1>>)

CopyOutside(dst, src) ==
  /\ Usable(dst) /\ Usable(src)
  /\ ~(Slots(size[src]) \subseteq Allocated(dst))
  /\ overrun' = TRUE
  /\ UNCHANGED <<data, indices, ret>>

\* The number of elements, as RR_getAll computes it.
Count(r) ==
  IF first[r] <= last[r] THEN last[r] - first[r]
  ELSE size[r] - first[r] + last[r]

\* The slot k places behind the first one in use.
SlotAt(r, k) == (first[r] + k) % size[r]

\* The search of RR_delete ends k places on: at an element e, or at last.
SearchEnds(r, e, k) ==
  /\ \A m \in 0 .. k - 1 : data[r][SlotAt(r, m)] # e
  /\ k < Count(r) => data[r][SlotAt(r, k)] = e

\* last is looked at too; it is not in use.
NotThere(r, e) ==
  /\ SearchEnds(r, e, Count(r))
  /\ data[r][last[r]] # e

DeleteNothing(r, e) ==
  /\ Usable(r)
  /\ Empty(r) \/ NotThere(r, e)
  /\ Returns("delete", <<0>>)
  /\ UNCHANGED <<data, indices>>

\* i is where the search ended.  last advances, whatever was moved.
DeleteAt(r, i) ==
  /\ \/ /\ i > last[r]
        /\ \E x \in Element : data' = Store(r, last[r] + 1, x)
        /\ last' = [last EXCEPT ![r] = Advance(size[r], last[r] + 1)]
        /\ UNCHANGED first
     \/ /\ i <= last[r] /\ i < first[r]
        /\ \E x \in Element : data' = Store(r, i, x)
        /\ first' = [first EXCEPT ![r] = first[r] - 1]
        /\ last' = [last EXCEPT ![r] = Advance(size[r], last[r])]
     \/ /\ i <= last[r] /\ i >= first[r]
        /\ last' = [last EXCEPT ![r] = Advance(size[r], last[r])]
        /\ UNCHANGED <<data, first>>
  /\ UNCHANGED size

RR_delete(r, e) ==
  /\ Usable(r)
  /\ ~Empty(r)
  /\ ~NotThere(r, e)
  /\ \E k \in 0 .. Count(r) : SearchEnds(r, e, k) /\ DeleteAt(r, SlotAt(r, k))
  /\ Returns("delete", <<1>>)

\* The loop runs from first while it is below the number of elements: only of
\* a queue that starts at slot 0 does it copy all of them.
RR_getAll(r) ==
  /\ Usable(r)
  /\ Returns("getAll",
       [k \in 1 .. Count(r) |->
          IF first[r] + k - 1 < Count(r) THEN data[r][first[r] + k - 1] ELSE 0])
  /\ UNCHANGED <<data, indices>>

Next ==
  \E r \in Ring :
    \/ \E n \in Capacity : RR_create(r, n)
    \/ RR_destroy(r)
    \/ Refused(r, "push_fd")
    \/ Refused(r, "push")
    \/ \E e \in Element : RR_push_fd(r, e)
    \/ RR_push(r)
    \/ \E op \in Pulls : Pull(r, op) \/ PullNothing(r, op)
    \/ RR_isEmpty(r)
    \/ \E src \in Ring \ {r} : RR_copy(r, src) \/ CopyOutside(r, src)
    \/ \E e \in Element : DeleteNothing(r, e) \/ RR_delete(r, e)
    \/ RR_getAll(r)

Spec == Init /\ [][Next]_vars

-----------------------------------------------------------------------------
(***************************************************************************)
(* Properties                                                              *)
(***************************************************************************)

Contents(r) ==
  IF size[r] = 0 THEN << >>
  ELSE [k \in 1 .. Count(r) |-> data[r][SlotAt(r, k - 1)]]

Queues == [r \in Ring |-> Contents(r)]

Capacities == [r \in Ring |-> IF size[r] > 0 THEN size[r] - 1 ELSE 0]

Abstract == INSTANCE BoundedQueues
  WITH queue <- Queues, capacity <- Capacities

\* Whatever calls are mixed, a queue gives back what RR_push_fd put into it in
\* that order, accepts as many elements as it was created for and reports 0
\* for any further one, also when its indices have wrapped and after RR_copy.
\* RR_push takes a place with some element, whatever it was given, and
\* RR_delete may leave any elements, no more than the capacity: of these calls
\* only that what is pushed with RR_push_fd later comes back behind their
\* result.  Elements that stood in the queue at an RR_delete are not promised.
ImplementsQueues == Abstract!Spec
=============================================================================

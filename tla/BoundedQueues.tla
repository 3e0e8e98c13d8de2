--------------------------- MODULE BoundedQueues ---------------------------
(***************************************************************************)
(* What lib/roundRobin.c promises of its queues: first in, first out, up   *)
(* to the capacity asked for at RR_create.  What RR_push appends is not    *)
(* promised, nor is what RR_delete leaves, except that it is a queue again *)
(* of at most that capacity.                                               *)
(***************************************************************************)
EXTENDS Integers, Sequences

CONSTANTS
  Ring,      \* the queues
  Element,   \* what can be put into them
  Capacity   \* how many elements a queue may be asked to hold

VARIABLES
  queue,     \* of each queue, its elements
  capacity,  \* and how many it can hold
  ret        \* the last call and what it returned

vars == <<queue, capacity, ret>>

Init ==
  /\ queue = [r \in Ring |-> << >>]
  /\ capacity = [r \in Ring |-> 0]
  /\ ret = [op |-> "none", val |-> << >>]

Returns(op, val) == ret' = [op |-> op, val |-> val]

Unchanged == UNCHANGED <<queue, capacity>>

\* The functions that pull, and what each may answer of an empty queue.
Pulls == {"pull_fd", "pull_thread", "pull_address"}

NoneFor(op) ==
  CASE op = "pull_fd" -> {-1}
    [] op = "pull_thread" -> {0}
    [] op = "pull_address" -> Element

Create(r, n) ==
  /\ queue' = [queue EXCEPT ![r] = << >>]
  /\ capacity' = [capacity EXCEPT ![r] = n]
  /\ Returns("create", << >>)

Destroy(r) ==
  /\ queue' = [queue EXCEPT ![r] = << >>]
  /\ capacity' = [capacity EXCEPT ![r] = 0]
  /\ Returns("destroy", <<1>>)

Accept(r, e) ==
  /\ Len(queue[r]) < capacity[r]
  /\ queue' = [queue EXCEPT ![r] = Append(queue[r], e)]
  /\ UNCHANGED capacity

Push(r, e) == Accept(r, e) /\ Returns("push_fd", <<1>>)

PushAnything(r) == (\E e \in Element : Accept(r, e)) /\ Returns("push", <<1>>)

Refuse(r, op) ==
  /\ Len(queue[r]) = capacity[r]
  /\ Returns(op, <<0>>)
  /\ Unchanged

Pull(r, op) ==
  /\ queue[r] # << >>
  /\ Returns(op, <<Head(queue[r])>>)
  /\ queue' = [queue EXCEPT ![r] = Tail(queue[r])]
  /\ UNCHANGED capacity

PullNothing(r, op) ==
  /\ queue[r] = << >>
  /\ \E x \in NoneFor(op) : Returns(op, <<x>>)
  /\ Unchanged

IsEmpty(r) ==
  /\ Returns("isEmpty", <<IF queue[r] = << >> THEN 1 ELSE 0>>)
  /\ Unchanged

Copy(dst, src) ==
  /\ queue' = [queue EXCEPT ![dst] = queue[src]]
  /\ capacity' = [capacity EXCEPT ![dst] = capacity[src]]
  /\ Returns("copy", <<1>>)

DeleteNothing(r) == Returns("delete", <<0>>) /\ Unchanged

Delete(r) ==
  /\ queue'[r] \in Seq(Element)
  /\ Len(queue'[r]) <= capacity[r]
  /\ queue' = [queue EXCEPT ![r] = queue'[r]]
  /\ Returns("delete", <<1>>)
  /\ UNCHANGED capacity

\* As many values as the queue has, of which the first are the queue's from
\* some place on, and the others 0.
GetAll(r) ==
  /\ \E n \in 0 .. Len(queue[r]) :
       Returns("getAll", [k \in 1 .. Len(queue[r]) |->
                            IF k <= n THEN queue[r][k] ELSE 0])
  /\ Unchanged

Next ==
  \E r \in Ring :
    \/ \E n \in Capacity : Create(r, n)
    \/ Destroy(r)
    \/ \E e \in Element : Push(r, e)
    \/ PushAnything(r)
    \/ Refuse(r, "push_fd")
    \/ Refuse(r, "push")
    \/ \E op \in Pulls : Pull(r, op) \/ PullNothing(r, op)
    \/ IsEmpty(r)
    \/ \E src \in Ring \ {r} : Copy(r, src)
    \/ DeleteNothing(r)
    \/ Delete(r)
    \/ GetAll(r)

Spec == Init /\ [][Next]_vars
=============================================================================

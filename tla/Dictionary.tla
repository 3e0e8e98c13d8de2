----------------------------- MODULE Dictionary -----------------------------
(***************************************************************************)
(* What lib/hashtable.c promises: the values stored under an index come    *)
(* back in the order of their insertion, one HASH_delete each.  What it    *)
(* does not promise shows in Delete, which may drop all the indices that   *)
(* collide with the one asked for, and in GetOfZero: 0 is taken for a      *)
(* request of the last value in its bucket, whatever index that has.       *)
(***************************************************************************)
EXTENDS Integers, Sequences

CONSTANTS
  Index,     \* the indices
  Value,     \* the values
  Buckets    \* how many buckets the table has

VARIABLES
  values,    \* of each index, the values stored under it, oldest first
  live,      \* there is a table
  ret        \* the last call and what it returned

vars == <<values, live, ret>>

\* HASH_get's answer when there is no value.
NULL == "null"

Collide(i, j) == i % Buckets = j % Buckets

Returns(op, val) == ret' = [op |-> op, val |-> val]

Init ==
  /\ values = [i \in Index |-> << >>]
  /\ live = FALSE
  /\ ret = [op |-> "none", val |-> "nothing"]

Create ==
  /\ ~live
  /\ live' = TRUE
  /\ values' = [i \in Index |-> << >>]
  /\ Returns("create", 1)

Insert(i, v) ==
  /\ live
  /\ values' = [values EXCEPT ![i] = Append(values[i], v)]
  /\ Returns("insert", 1)
  /\ UNCHANGED live

Get(i) ==
  /\ live
  /\ i # 0
  /\ Returns("get", IF values[i] = << >> THEN NULL ELSE Head(values[i]))
  /\ UNCHANGED <<values, live>>

GetOfZero ==
  /\ live
  /\ LET bucket == {i \in Index : Collide(i, 0) /\ values[i] # << >>}
     IN  IF bucket = {} THEN Returns("get", NULL)
         ELSE \E i \in bucket : Returns("get", values[i][Len(values[i])])
  /\ UNCHANGED <<values, live>>

Delete(i) ==
  /\ live
  /\ values[i] # << >>
  /\ \/ values' = [values EXCEPT ![i] = Tail(values[i])]
     \/ values' = [j \in Index |-> IF Collide(i, j) THEN << >> ELSE values[j]]
  /\ Returns("delete", 1)
  /\ UNCHANGED live

DeleteNothing(i) ==
  /\ live
  /\ values[i] = << >>
  /\ Returns("delete", 0)
  /\ UNCHANGED <<values, live>>

Destroy ==
  /\ live
  /\ live' = FALSE
  /\ values' = [i \in Index |-> << >>]
  /\ Returns("destroy", 1)

Next ==
  \/ Create
  \/ GetOfZero
  \/ Destroy
  \/ \E i \in Index :
       \/ \E v \in Value : Insert(i, v)
       \/ Get(i)
       \/ Delete(i)
       \/ DeleteNothing(i)

Spec == Init /\ [][Next]_vars
=============================================================================

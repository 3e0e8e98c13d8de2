---------------------------- MODULE MCContainers ----------------------------
(***************************************************************************)
(* The queues, the hash table and the ordered buffer of lib/.  They share  *)
(* nothing, so that a behaviour of one of them, the subject, with the      *)
(* others left as they were before their first call, stands for all.       *)
(*                                                                         *)
(* Two queues of one or two elements, in rings of two or three slots, all  *)
(* of whose indices wrap; a table of two buckets with two colliding        *)
(* indices each and at most three nodes, so that a chain has a first, a    *)
(* middle and a last one; a buffer of three slots for numbers of two bytes *)
(* of which one is 0, one differs from it in its lowest byte and one above *)
(* it, with an index that wraps and a semaphore that counts beyond 1.      *)
(***************************************************************************)
EXTENDS RoundRobin, Hashtable, OrderedBuffer

VARIABLE subject   \* whose calls are made

\* The numbers 0, 1 and (for bytes of two values) 2.
MCNumber == { [b \in 0 .. 1 |-> n[b + 1]] : n \in {<<0, 0>>, <<1, 0>>, <<0, 1>>} }

Subjects == {"queues", "table", "buffer"}

ContainersInit ==
  /\ subject \in Subjects
  /\ Init
  /\ HASH_Init
  /\ OB_Init

QueueCall ==
  subject = "queues" /\ Next /\ UNCHANGED <<subject, HASH_vars, OB_vars>>

TableCall ==
  subject = "table" /\ HASH_Next /\ UNCHANGED <<subject, vars, OB_vars>>

BufferStep ==
  subject = "buffer" /\ OB_Next /\ UNCHANGED <<subject, vars, HASH_vars>>

ContainersNext == QueueCall \/ TableCall \/ BufferStep

ContainersSpec ==
  /\ ContainersInit
  /\ [][ContainersNext]_<<subject, vars, HASH_vars, OB_vars>>
  /\ Fairness
=============================================================================

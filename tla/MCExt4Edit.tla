----------------------------- MODULE MCExt4Edit -----------------------------
(***************************************************************************)
(* Instances of Ext4Edit: three invocations on the files with the inodes 1 *)
(* and 2, which are neighbours, and 5, which has the index of 1 in another *)
(* group.  A day has five ticks, a word 64 values: they are 12 whole days. *)
(***************************************************************************)
EXTENDS Ext4Edit, TLC

MCRequest(op, target, value, date) ==
  [op |-> op, target |-> target, value |-> value, date |-> date]

MCRequests ==
  { MCRequest("ronly", n, v, BadDate) : n \in {1, 2}, v \in BOOLEAN }
  \cup { MCRequest("date", 1, TRUE, d) : d \in Date \cup {BadDate} }
  \cup { MCRequest("ronly", 5, TRUE, BadDate), MCRequest("date", 5, TRUE, 0),
         MCRequest("ronly", Absent, TRUE, BadDate) }

MCTableStart == [g \in 0 .. 2 |-> g * 2 * 64]

\* The invocations differ in their requests only.
ProcessSymmetry == Permutations(Process)

\* A time of day at each end of the day, and values out of it.
MCClock == {-1, 0, 4, 7}
=============================================================================

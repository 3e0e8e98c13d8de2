---------------------------- MODULE MCExtentTree ----------------------------
(***************************************************************************)
(* Instances of ExtentTree: trees of up to three levels on seven nodes of  *)
(* two entries, with up to eight extents and an array of five.  Slots that  *)
(* are not in use hold what was there before: an extent that is no longer  *)
(* the file's, or a child that is another node of the tree.                *)
(***************************************************************************)
EXTENDS ExtentTree

MCEntry(f, c) == [first |-> f, length |-> 1, child |-> c]

\* The nodes of a complete binary tree: below n come 2n and 2n + 1.
Child(n, i) == 2 * n + i - 1

Wrap(n) == IF n \in Node THEN n ELSE Root

\* A node at the given depth; extents are numbered from left to right.
MCNode(n, depth, count) ==
  [depth |-> depth, count |-> count,
   slots |-> [i \in 1 .. 2 |-> MCEntry(Child(n, i), Wrap(Child(n, i)))]]

Level == [n \in 1 .. 7 |-> IF n = 1 THEN 0 ELSE IF n < 4 THEN 1 ELSE 2]

\* Trees of each depth, with 0 to 2 entries in use in each node.
Regular ==
  { [n \in Node |-> MCNode(n, IF d > Level[n] THEN d - Level[n] ELSE 0, c[n])] :
      d \in 0 .. 2, c \in [Node -> 0 .. 2] }

\* Trees in which a child is its own ancestor.
Looping ==
  { [n \in Node |-> [MCNode(n, 1, c) EXCEPT !.slots = <<MCEntry(1, 1),
                                                       MCEntry(1, 2)>>]] :
      c \in 1 .. 2 }

MCTrees == Regular \cup Looping
=============================================================================

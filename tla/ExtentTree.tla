----------------------------- MODULE ExtentTree -----------------------------
(***************************************************************************)
(* traverseExtentTree of fs_utils/ext4.c: collects the extents of a file   *)
(* from the tree that starts in its inode.  All calls of the recursion     *)
(* read through one file offset, which a call leaves wherever its subtree  *)
(* ended: the caller has to find its own place again.                      *)
(*                                                                         *)
(* An offset is a node and the number of the node's entries before it.     *)
(* One step of this machine is one entry, or the return from a call.  The  *)
(* array of extents has a fixed size and no bound is looked at: a store    *)
(* behind it is undefined behaviour, and the machine stops as "overrun".   *)
(* Where the process' stack is exhausted it stops as "stray".              *)
(***************************************************************************)
EXTENDS Integers, Sequences

CONSTANTS
  Node,       \* the blocks that may hold a node of a tree
  Root,       \* the node in the inode
  MaxRanges,  \* MAX_RANGES
  MaxDepth,   \* the calls the process' stack has room for
  Trees       \* the trees traversed

(***************************************************************************)
(* An entry of a node.  Which of its fields count is up to the depth in    *)
(* the header of its node: a leaf's entry is the extent of length blocks   *)
(* from logical block first of the file, an index's names a child.         *)
(***************************************************************************)
Entry == [first : Nat, length : Nat, child : Node]

\* slots are what the node has room for, count says how many are in use.
TreeNode == [depth : Nat, count : Nat, slots : Seq(Entry)]

ASSUME RootAssumption == Root \in Node
ASSUME RangesAssumption == MaxRanges \in Nat
ASSUME DepthAssumption == MaxDepth \in Nat \ {0}
ASSUME TreesAssumption ==
  /\ Trees \subseteq [Node -> TreeNode]
  /\ \A t \in Trees, n \in Node : t[n].count <= Len(t[n].slots)

Extent == [first : Nat, length : Nat]

VARIABLES
  tree,
  stack,   \* the calls: a node and how many of its entries are done with
  pos,     \* the file offset
  blocks,  \* the extents collected, blocks->count is the length
  pc

vars == <<tree, stack, pos, blocks, pc>>

Frame == [node : Node, i : Nat]

Offset == [node : Node, i : Nat]

TypeOK ==
  /\ tree \in Trees
  /\ stack \in Seq(Frame)
  /\ pos \in Offset
  /\ blocks \in Seq(Extent) /\ Len(blocks) <= MaxRanges
  /\ pc \in {"walk", "done", "overrun", "stray"}

-----------------------------------------------------------------------------
Call(n) == [node |-> n, i |-> 0]

Top == stack[Len(stack)]

Header == tree[Top.node]

\* The array has no room for a further extent.
FullLate == Len(blocks) > MaxRanges

Full == Len(blocks) >= MaxRanges

\* The entry that is read at the file offset.
EntryRead == tree[pos.node].slots[pos.i + 1]

EntriesLeft == pc = "walk" /\ Top.i < Header.count

NextEntry == [stack EXCEPT ![Len(stack)] = [node |-> Top.node, i |-> Top.i + 1]]

Init ==
  /\ tree \in Trees
  /\ stack = <<Call(Root)>>
  /\ pos = Call(Root)
  /\ blocks = << >>
  /\ pc = "walk"

\* A leaf's entries are read one after the other.
StoreExtent ==
  /\ EntriesLeft
  /\ Header.depth = 0
  /\ ~Full
  /\ blocks' = Append(blocks, [first |-> EntryRead.first,
                               length |-> EntryRead.length])
  /\ stack' = NextEntry
  /\ pos' = [node |-> pos.node, i |-> pos.i + 1]
  /\ UNCHANGED <<tree, pc>>

\* As StoreOutside, were the rest of the extents left out.
StopAtLimit ==
  /\ EntriesLeft
  /\ Header.depth = 0
  /\ Full
  /\ pc' = "done"
  /\ UNCHANGED <<tree, stack, pos, blocks>>

StoreOutside ==
  /\ EntriesLeft
  /\ Header.depth = 0
  /\ Full
  /\ pc' = "overrun"
  /\ UNCHANGED <<tree, stack, pos, blocks>>

\* As Descend, were the loop's counter not advanced before the call.
DescendFirst ==
  /\ EntriesLeft
  /\ Header.depth # 0
  /\ Len(stack) < MaxDepth
  /\ stack' = Append(stack, Call(tree[Top.node].slots[1].child))
  /\ pos' = Call(tree[Top.node].slots[1].child)
  /\ UNCHANGED <<tree, blocks, pc>>

Descend ==
  /\ EntriesLeft
  /\ Header.depth # 0
  /\ Len(stack) < MaxDepth
  /\ stack' = Append(NextEntry, Call(EntryRead.child))
  /\ pos' = Call(EntryRead.child)
  /\ UNCHANGED <<tree, blocks, pc>>

NoRoom ==
  /\ EntriesLeft
  /\ Header.depth # 0
  /\ Len(stack) >= MaxDepth
  /\ pc' = "stray"
  /\ UNCHANGED <<tree, stack, pos, blocks>>

\* Where the caller's loop goes on: behind the entries it has done.
OffsetKept(caller) == pos

ResumeAt(caller) == [node |-> caller.node, i |-> caller.i]

Return ==
  /\ pc = "walk"
  /\ Top.i >= Header.count
  /\ Len(stack) > 1
  /\ stack' = SubSeq(stack, 1, Len(stack) - 1)
  /\ pos' = ResumeAt(stack[Len(stack) - 1])
  /\ UNCHANGED <<tree, blocks, pc>>

Finish ==
  /\ pc = "walk"
  /\ Top.i >= Header.count
  /\ Len(stack) = 1
  /\ pc' = "done"
  /\ UNCHANGED <<tree, stack, pos, blocks>>

Next ==
  \/ StoreExtent
  \/ StoreOutside
  \/ Descend
  \/ NoRoom
  \/ Return
  \/ Finish

Spec == Init /\ [][Next]_vars /\ WF_vars(Next)

-----------------------------------------------------------------------------
(***************************************************************************)
(* Properties                                                              *)
(***************************************************************************)

\* Each call reads its own node, at the entry that its loop counter says, and
\* never one behind those in use: also after subtrees of any depth.
ReadsOwnEntry ==
  EntriesLeft => /\ pos = [node |-> Top.node, i |-> Top.i]
                 /\ pos.i < Len(tree[pos.node].slots)

\* The first n of the sequences s, one behind the other.
Joined(s, n) ==
  LET upTo[k \in 0 .. n] == IF k = 0 THEN << >> ELSE upTo[k - 1] \o s[k]
  IN upTo[n]

\* The extents that a node's own entries are.
Own(t, n) ==
  [k \in 1 .. t[n].count |-> [first |-> t[n].slots[k].first,
                              length |-> t[n].slots[k].length]]

\* Those below each entry of a node, given those below every node.
Branches(t, n, below) ==
  [k \in 1 .. t[n].count |-> below[t[n].slots[k].child]]

LevelUp(t, below) ==
  [n \in Node |-> IF t[n].depth = 0 THEN Own(t, n)
                  ELSE Joined(Branches(t, n, below), t[n].count)]

\* The extents in d levels of the tree below each node, from left to right.
LeavesTo(t, d) ==
  LET level[k \in 0 .. d] ==
        IF k = 0 THEN [n \in Node |-> << >>] ELSE LevelUp(t, level[k - 1])
  IN level[d]

LeavesOf(t, n) == LeavesTo(t, t[n].depth + 1)[n]

Leaves(t) == LeavesOf(t, Root)

\* A tree as the file system writes it: each child is one level lower, and
\* the stack has room for its levels.
WellFormed(t) ==
  /\ t[Root].depth < MaxDepth
  /\ \A n \in Node : t[n].depth # 0 =>
       \A i \in 1 .. t[n].count :
         t[t[n].slots[i].child].depth = t[n].depth - 1

\* The traversal gives all extents of the tree, in the order of its leaves,
\* exactly when the array has room for them; otherwise it leaves the array.
AllLeavesInOrder ==
  WellFormed(tree) =>
    /\ pc = "done" => blocks = Leaves(tree)
    /\ pc = "overrun" => Len(Leaves(tree)) > MaxRanges

\* The recursion ends on every tree a file system writes.
TraversalEnds == WellFormed(tree) ~> pc \in {"done", "overrun"}
=============================================================================

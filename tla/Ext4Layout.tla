----------------------------- MODULE Ext4Layout -----------------------------
(***************************************************************************)
(* Where fs_utils/ext4.c looks for an inode: in the table of its block     *)
(* group, of which eight bits are kept.                                    *)
(***************************************************************************)
EXTENDS Integers

CONSTANTS
  InodesPerGroup,  \* globals.inodesPerGroup
  Groups,          \* the block groups of the volume
  GroupMod         \* the values of the uint8_t that a group's number is cast to

ASSUME GroupsAssumption ==
  /\ InodesPerGroup \in Nat \ {0}
  /\ Groups \in Nat \ {0}
  /\ GroupMod \in Nat \ {0}

Group == 0 .. Groups - 1

Index == 0 .. InodesPerGroup - 1

\* Inodes are numbered from 1.
InodeNumber == 1 .. Groups * InodesPerGroup

\* The group an inode belongs to, and its place in that group's table.
GroupOf(n) == (n - 1) \div InodesPerGroup

IndexFromOne(n) == n % InodesPerGroup

IndexOf(n) == (n - 1) % InodesPerGroup

\* The group in whose table the code looks.
CastGroup(n) == GroupOf(n) % GroupMod

\* Volumes on which the cast does no harm.
GroupsFit == Groups <= GroupMod
=============================================================================

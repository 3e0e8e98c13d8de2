---------------------------- MODULE MCFileBlocks ----------------------------
(***************************************************************************)
(* Where a file's clusters are and what is printed of its blocks.  Neither *)
(* machine looks at the other's state, so that a behaviour of one of them, *)
(* the subject, with the other one before its first step, stands for all.  *)
(*                                                                         *)
(* ClusterList with six clusters (EntryMod = 14 puts the threshold at 5)   *)
(* and arrays of four entries, so that Capacity is five: a chain of six    *)
(* clusters and every loop run over it.                                    *)
(*                                                                         *)
(* FileContent with blocks of two bytes: FAT32 files of up to four         *)
(* clusters, and EXT4 files of up to two extents of two blocks with or     *)
(* without a hole before each extent; sizes that fit the blocks or not;    *)
(* volumes that have every block, or end in or before one of them.         *)
(***************************************************************************)
EXTENDS ClusterList, FileContent

VARIABLE subject   \* the machine that takes steps

\* What the FAT may say of cluster c: its successor, the same with reserved
\* bits set, back to cluster 1, or the end of the chain.
MCFats ==
  { [c \in 0 .. 5 |-> << c + 1, 14 + c + 1, 1, 13 >>[k[c]]] :
      k \in [0 .. 5 -> 1 .. 4] }

MCFirstClusters == {0, 1, 3, 6}

MCSizes == 0 .. 8

\* Of which blocks (in the order of the file) the volume has how much: all,
\* or all but one, of which it has nothing or its first byte.
Cuts == [at : 1 .. 4, there : {0, 1}] \cup {[at |-> 0, there |-> 0]}

\* Blocks from logical block l on, the k-th of which starts with 0 iff z[k];
\* o blocks of the file stand before them.
Extent(l, n, z, o, cut) ==
  [b \in 1 .. n |->
     [logical |-> l + b - 1, zero |-> z[b],
      there |-> IF o + b = cut.at THEN cut.there ELSE BlockSize]]

MCFat32 ==
  UNION { { [fs |-> "FAT32", size |-> s,
             extents |-> <<Extent(0, n, z, 0, c)>>] :
              s \in MCSizes, z \in [1 .. n -> BOOLEAN], c \in Cuts } : n \in 0 .. 4 }

MCExt4 ==
  { [fs |-> "EXT4", size |-> s, extents |-> << >>] : s \in MCSizes }
    \cup
  { [fs |-> "EXT4", size |-> s, extents |-> <<Extent(h, n, z, 0, c)>>] :
      s \in MCSizes, h \in {0, 1}, n \in {1, 2}, z \in [1 .. 2 -> BOOLEAN],
      c \in Cuts }
    \cup
  { [fs |-> "EXT4", size |-> s,
     extents |-> <<Extent(h[1], n[1], z, 0, c),
                   Extent(h[1] + n[1] + h[2], n[2], z, n[1], c)>>] :
      s \in MCSizes, h \in {0, 1} \X {0, 1}, n \in {1, 2} \X {1, 2},
      z \in [1 .. 2 -> BOOLEAN], c \in Cuts }

MCFiles == MCFat32 \cup MCExt4

ListInit ==
  /\ subject = "list"
  /\ file = CHOOSE f \in Files : f.fs = "FAT32"
  /\ terminal = FALSE
  /\ CL_Init
  /\ Init

ContentInit ==
  /\ subject = "content"
  /\ fat = CHOOSE f \in Fats : TRUE
  /\ first = CHOOSE c \in FirstClusters : TRUE
  /\ CL_Init
  /\ Init

ListStep == subject = "list" /\ CL_Next /\ UNCHANGED <<subject, vars>>

ContentStep == subject = "content" /\ Next /\ UNCHANGED <<subject, CL_vars>>

BlocksSpec ==
  /\ ListInit \/ ContentInit
  /\ [][ListStep \/ ContentStep]_<<subject, CL_vars, vars>>
  /\ WF_CL_vars(ListStep)
=============================================================================

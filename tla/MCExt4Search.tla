---------------------------- MODULE MCExt4Search ----------------------------
(***************************************************************************)
(* Instances of Ext4Search: three groups of two inodes of which two groups *)
(* can be told apart, so inode 5 is read as 1 and inode 6 as the root;     *)
(* four blocks of up to three entries; two calls below the root's.         *)
(***************************************************************************)
EXTENDS Ext4Search

MCEntry(inode, length, type, name, dot) ==
  [inode |-> inode, length |-> length, type |-> type, name |-> name,
   dot |-> dot]

File(inode, name) == MCEntry(inode, 1, "file", name, FALSE)
Directory(inode) == MCEntry(inode, 1, "directory", "a", FALSE)
Dot == MCEntry(Root, 1, "directory", "d", TRUE)
HiddenFile == MCEntry(6, 1, "file", "a", TRUE)
Link == MCEntry(6, 1, "other", "a", FALSE)
Removed == MCEntry(Erased, 1, "file", "a", FALSE)
Unending == MCEntry(1, 0, "file", "b", FALSE)

Longer(e, length) == [e EXCEPT !.length = length]

Fill(x, y, z) == [o \in 0 .. 2 |-> <<x, y, z>>[o + 1]]

\* The entry e has the block to itself; what was there before still is.
Alone(e) == Fill(Longer(e, 3), File(6, "a"), Directory(4))

RootEntries ==
  {File(1, "a"), File(5, "b"), Directory(3), Directory(4), Dot, HiddenFile,
   Removed}

RootBlocks ==
  { Fill(x, y, z) : x, y \in RootEntries, z \in {File(1, "a"), Directory(3)} }
  \cup { Fill(x, Longer(y, 2), File(6, "a")) : x, y \in RootEntries }
  \cup { Alone(e) : e \in {Directory(5), Directory(6), Link, Unending} }

MoreRootBlocks ==
  { Alone(File(4, "a")), Fill(Removed, File(4, "a"), Directory(4)) }

\* Directory 3 comes first, also for inode 5.
ThirdBlocks ==
  { Fill(Dot, Dot, File(6, "a")), Fill(Dot, Longer(File(1, "b"), 2), Link),
    Fill(Dot, Directory(4), File(5, "a")), Alone(Removed) }

FourthBlocks == { Alone(Dot), Fill(Dot, File(3, "a"), Directory(3)) }

\* The inodes' blocks, in the order of their numbers.
Tables ==
  { [g \in 0 .. 2 |-> [i \in 0 .. 1 |-> t[2 * g + i + 1]]] :
      t \in { << << >>, <<1>>, <<3>>, <<4>>, <<4>>, << >> >>,
              << <<3>>, <<1, 2>>, <<3>>, <<4>>, << >>, <<4>> >> } }

MCVolumes ==
  { [table |-> t, block |-> <<b1, b2, b3, b4>>] :
      t \in Tables, b1 \in RootBlocks, b2 \in MoreRootBlocks,
      b3 \in ThirdBlocks, b4 \in FourthBlocks }
=============================================================================

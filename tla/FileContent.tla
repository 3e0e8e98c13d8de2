---------------------------- MODULE FileContent ----------------------------
(***************************************************************************)
(* What -show prints of a file it has found: showFileFAT and showFileEXT   *)
(* of functionalities.c, catFAT32File of fs_utils/fat32.c, catEXT4File of  *)
(* fs_utils/ext4.c.  The announcement is printed with fprintf and waits in *)
(* stdio's buffer where standard output is no terminal.  The content is    *)
(* read block after block into one buffer, which is written to descriptor  *)
(* 1 at once, of the last block only size modulo the block size bytes.     *)
(*                                                                         *)
(* Bytes are named by their offset in the file.  Of the data itself only   *)
(* one thing matters: whether a block's first byte is 0.  A FAT32 file has *)
(* one extent here, its cluster list.  A volume may end inside or before a *)
(* block: then read brings fewer bytes, and no one looks at its result.    *)
(***************************************************************************)
EXTENDS Integers, Sequences

CONSTANTS
  BlockSize,  \* clusterSize or blockSize
  Files       \* the files considered

\* Where a block belongs in the file, whether it starts with a 0 byte, and
\* how many of its bytes the volume still has.
Block == [logical : Nat, zero : BOOLEAN, there : 0 .. BlockSize]

File == [fs : {"FAT32", "EXT4"}, extents : Seq(Seq(Block)), size : Nat]

ASSUME BlockSizeAssumption == BlockSize \in Nat \ {0}
ASSUME FilesAssumption ==
  Files \subseteq File /\ \A f \in Files : f.fs = "FAT32" => Len(f.extents) = 1

Unset == -1  \* a byte of the buffer that no read has filled

VARIABLES
  file,      \* the file the search has found
  terminal,  \* whether standard output is one
  i,         \* the extent,
  j,         \* and in it the block that comes next
  buffer,    \* the block buffer: which byte of the file stands in each place
  zero,      \* whether the byte in its first place is 0
  out,       \* the bytes written to descriptor 1 so far
  announced, \* how many of them stand before the announcement; Unset while
             \* it is not printed or waits in stdio's buffer
  pc

reading == <<file, terminal, i, j>>
vars == <<file, terminal, i, j, buffer, zero, out, announced, pc>>

Positions(f) ==
  UNION { {e} \X (1 .. Len(f.extents[e])) : e \in 1 .. Len(f.extents) }

BlocksOf(f) == { f.extents[p[1]][p[2]] : p \in Positions(f) }

TypeOK ==
  /\ file \in Files
  /\ terminal \in BOOLEAN
  /\ i \in 1 .. Len(file.extents) + 1
  /\ j \in Nat \ {0}
  /\ buffer \in [1 .. BlockSize -> Nat \cup {Unset}]
  /\ zero \in BOOLEAN
  /\ out \in Seq(Nat \cup {Unset})
  /\ announced \in 0 .. Len(out) \cup {Unset}
  /\ pc \in {"found", "read", "write", "exit", "done"}

-----------------------------------------------------------------------------
InExtent == i <= Len(file.extents) /\ j <= Len(file.extents[i])

ExtentsLeft == i <= Len(file.extents)

\* readBlock, were the block's place in its extent left out.
FirstOfExtent(e, b) == file.extents[e][1]

BlockAt(e, b) == file.extents[e][b]

LastByIndex(e, b) == e = Len(file.extents) /\ b = Len(file.extents[e]) + 1

IsLast(e, b) == e = Len(file.extents) /\ b = Len(file.extents[e])

\* lastBlockUsedSize
UsedOfLast == file.size % BlockSize

Written(e, b) == IF IsLast(e, b) THEN UsedOfLast ELSE BlockSize

\* calloc clears the buffer of catFAT32File; the one of catEXT4File comes
\* from malloc, and its first byte may be anything.
Init ==
  /\ file \in Files
  /\ terminal \in BOOLEAN
  /\ i = 1
  /\ j = 1
  /\ buffer = [n \in 1 .. BlockSize |-> Unset]
  /\ zero \in {TRUE, file.fs = "FAT32"}
  /\ out = << >>
  /\ announced = Unset
  /\ pc = "found"

\* The announcement, had it no line end.
FlushedOnlyAtExit == FALSE

\* It ends a line: a terminal's buffer is emptied, any other one keeps it.
FlushedAtOnce == terminal

Announce ==
  /\ pc = "found"
  /\ announced' = IF FlushedAtOnce THEN Len(out) ELSE Unset
  /\ pc' = "read"
  /\ UNCHANGED <<reading, buffer, zero, out>>

\* The buffer's places that read fills with the block's first bytes.
Filled(block, place) == place <= block.there

ReadBlock ==
  /\ pc = "read"
  /\ InExtent
  /\ LET block == BlockAt(i, j) IN
       /\ buffer' = [n \in 1 .. BlockSize |->
                       IF Filled(block, n) THEN block.logical * BlockSize + n - 1
                       ELSE buffer[n]]
       /\ zero' = IF Filled(block, 1) THEN block.zero ELSE zero
  /\ pc' = "write"
  /\ UNCHANGED <<reading, out, announced>>

\* catFAT32File writes no buffer that starts with a 0 byte, wherever in the
\* file; catEXT4File returns when the first one does.
Skipped == zero /\ file.fs = "FAT32"
GivesUp == zero /\ file.fs = "EXT4" /\ i = 1 /\ j = 1

SkipZero ==
  /\ pc = "write"
  /\ Skipped
  /\ j' = j + 1
  /\ pc' = "read"
  /\ UNCHANGED <<file, terminal, i, buffer, zero, out, announced>>

GiveUp ==
  /\ pc = "write"
  /\ GivesUp
  /\ pc' = "exit"
  /\ UNCHANGED <<reading, buffer, zero, out, announced>>

WriteBlock ==
  /\ pc = "write"
  /\ ~Skipped /\ ~GivesUp
  /\ out' = out \o SubSeq(buffer, 1, Written(i, j))
  /\ j' = j + 1
  /\ pc' = "read"
  /\ UNCHANGED <<file, terminal, i, buffer, zero, announced>>

NextExtentGoOn ==
  /\ pc = "read"
  /\ ~InExtent
  /\ ExtentsLeft
  /\ i' = i + 1
  /\ UNCHANGED <<file, terminal, j, buffer, zero, out, announced, pc>>

NextExtent ==
  /\ pc = "read"
  /\ ~InExtent
  /\ ExtentsLeft
  /\ i' = i + 1
  /\ j' = 1
  /\ UNCHANGED <<file, terminal, buffer, zero, out, announced, pc>>

Finish ==
  /\ pc = "read"
  /\ ~ExtentsLeft
  /\ pc' = "exit"
  /\ UNCHANGED <<reading, buffer, zero, out, announced>>

\* main returns, and stdio's buffer is emptied behind all that was written.
Exit ==
  /\ pc = "exit"
  /\ announced' = IF announced = Unset THEN Len(out) ELSE announced
  /\ pc' = "done"
  /\ UNCHANGED <<reading, buffer, zero, out>>

Next ==
  \/ Announce
  \/ ReadBlock
  \/ SkipZero
  \/ GiveUp
  \/ WriteBlock
  \/ NextExtent
  \/ Finish
  \/ Exit

Spec == Init /\ [][Next]_vars

-----------------------------------------------------------------------------
(***************************************************************************)
(* Properties                                                              *)
(***************************************************************************)

Before(p, q) == p[1] < q[1] \/ (p[1] = q[1] /\ p[2] < q[2])

\* A file system lists a file's blocks in the order of its bytes.
Ordered(f) ==
  \A p, q \in Positions(f) :
    Before(p, q) => f.extents[p[1]][p[2]].logical < f.extents[q[1]][q[2]].logical

\* The blocks that the size calls for.
Needed(f) == 0 .. (f.size + BlockSize - 1) \div BlockSize - 1

Logicals(f) == { block.logical : block \in BlocksOf(f) }

\* No block is missing, none lies beyond the size.
Dense(f) == Logicals(f) = Needed(f)

\* What is the last block is told by the last extent.
NoEmptyExtent(f) == \A e \in 2 .. Len(f.extents) : f.extents[e] # << >>

\* The volume has had every block read so far in full.
Place == IF pc = "read" THEN <<i, j>> ELSE <<i, j + 1>>

WholeSoFar ==
  \A p \in Positions(file) :
    Before(p, Place) => file.extents[p[1]][p[2]].there = BlockSize

\* Bytes are printed in the order of the file, each of them once at most,
\* across extents, skipped clusters and holes, up to the first block that the
\* volume does not have in full.
InOrder ==
  Ordered(file) /\ WholeSoFar =>
    \A a, b \in 1 .. Len(out) : a < b => out[a] < out[b]

\* What a volume's blocks hold behind the end of a file is not shown, where
\* no block lies entirely beyond it; nor do the earlier blocks' bytes that
\* stay in the buffer when the volume ends show any of it.
NothingBeyondSize ==
  Ordered(file) /\ Logicals(file) \subseteq Needed(file) /\ NoEmptyExtent(file) =>
    \A a \in 1 .. Len(out) : out[a] < file.size

\* A file is printed from its first byte to its last where it has all blocks
\* in order, the last extent holds the last of them, which is filled in part,
\* and none of them begins with 0.
\* Where the volume ends inside such a file its length is printed all the
\* same, provided that the first block begins before that end: the bytes that
\* are missing are earlier ones of the file.
PrintedWhole ==
  pc = "done" /\ Ordered(file) /\ Dense(file) /\ NoEmptyExtent(file)
    /\ UsedOfLast # 0 /\ (\A block \in BlocksOf(file) : ~block.zero) =>
      /\ file.extents[1][1].there > 0 => Len(out) = file.size
      /\ WholeSoFar => out = [n \in 1 .. file.size |-> n - 1]

\* On a terminal the announcement stands in front of the content, and it is
\* never lost; only where standard output is a file does it come behind.
AnnouncedFirst ==
  /\ terminal /\ out # << >> => announced = 0
  /\ pc = "done" => announced \in {0, Len(out)}

-----------------------------------------------------------------------------
\* functionalities.c announces "Showing content": of a file with all its
\* blocks, none of which begins with 0, that is every byte.
ContentShown ==
  pc = "done" /\ Ordered(file) /\ Dense(file) /\ WholeSoFar
    /\ (\A block \in BlocksOf(file) : ~block.zero)
      => Len(out) = file.size
=============================================================================

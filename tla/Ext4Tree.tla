------------------------------ MODULE Ext4Tree ------------------------------
(***************************************************************************)
(* What the directories of an EXT4 volume say, independently of how        *)
(* fs_utils/ext4.c walks them: the reference its searches are compared     *)
(* with.                                                                   *)
(*                                                                         *)
(* A block is seen as what would be read as an entry at each offset of it, *)
(* in units of the shortest entry: an entry's slack may hold what was      *)
(* removed there.  A directory's blocks are those of its extents, one      *)
(* after the other (module ExtentTree).                                    *)
(***************************************************************************)
EXTENDS Ext4Layout, Sequences

CONSTANTS
  BlockSize,  \* globals.blockSize
  Block,      \* the blocks that directories may have
  Name        \* the names of entries

ASSUME BlockSizeAssumption == BlockSize \in Nat \ {0}

Root == 2     \* ROOT_DIR_INODE

Erased == 0   \* INODE_ZERO

Type == {"file", "directory", "other"}  \* DE_FILE, DE_DIRECTORY, the rest

\* dot says that the name starts with HIDDEN_FILE_PREFIX.
DirectoryEntry ==
  [inode : InodeNumber \cup {Erased}, length : Nat, type : Type, name : Name,
   dot : BOOLEAN]

Offset == 0 .. BlockSize - 1

Volume ==
  [table : [Group -> [Index -> Seq(Block)]],
   block : [Block -> [Offset -> DirectoryEntry]]]

ASSUME RootAssumption == Root \in InodeNumber

-----------------------------------------------------------------------------
BlocksOf(v, n) == v.table[GroupOf(n)][IndexOf(n)]

\* The length of an entry leads to the next one, or to the block's end.
Proper(v, b, o) ==
  LET n == v.block[b][o].length IN n > 0 /\ o + n <= BlockSize

\* Whether the offsets O are the first and all that their entries lead to.
HoldsEntries(v, b, O) ==
  /\ 0 \in O
  /\ \A o \in O : LET next == o + v.block[b][o].length IN
       Proper(v, b, o) /\ next < BlockSize => next \in O

\* The offsets of a block's entries.
EntryOffsets(v, b) ==
  { o \in Offset : \A O \in SUBSET Offset : HoldsEntries(v, b, O) => o \in O }

IsVisible(e) == e.inode # Erased /\ ~e.dot

IsVisibleDirectory(e) == IsVisible(e) /\ e.type = "directory"

IsVisibleFile(e) == IsVisible(e) /\ e.type = "file"

Entries(v, n) ==
  UNION { { v.block[b][o] : o \in EntryOffsets(v, b) } :
            b \in { BlocksOf(v, n)[i] : i \in 1 .. Len(BlocksOf(v, n)) } }

Subdirectories(v, n) ==
  { e.inode : e \in { d \in Entries(v, n) : IsVisibleDirectory(d) } }

\* The directories that are d levels below the root.
Level(v, d) ==
  LET below[k \in 0 .. d] ==
        IF k = 0 THEN {Root}
        ELSE UNION { Subdirectories(v, n) : n \in below[k - 1] }
  IN below[d]

Directories(v, depth) == UNION { Level(v, d) : d \in 0 .. depth }

\* The first n of the sequences s, one behind the other.
Joined(s, n) ==
  LET upTo[k \in 0 .. n] == IF k = 0 THEN << >> ELSE upTo[k - 1] \o s[k]
  IN upTo[n]

\* The files an entry leads to, given those of each directory.
FilesOfEntry(e, files) ==
  IF IsVisibleFile(e) THEN <<e>>
  ELSE IF IsVisibleDirectory(e) THEN files[e.inode] ELSE << >>

FilesOfBlock(v, b, files) ==
  Joined([k \in 1 .. BlockSize |->
            IF k - 1 \in EntryOffsets(v, b)
            THEN FilesOfEntry(v.block[b][k - 1], files) ELSE << >>],
         BlockSize)

FilesOfDirectory(v, n, files) ==
  LET bs == BlocksOf(v, n) IN
  Joined([i \in 1 .. Len(bs) |-> FilesOfBlock(v, bs[i], files)], Len(bs))

\* The files of each directory and of d - 1 levels below it: a directory's
\* files come where its entry is.
FilesTo(v, d) ==
  LET to[k \in 0 .. d] ==
        IF k = 0 THEN [n \in InodeNumber |-> << >>]
        ELSE [n \in InodeNumber |-> FilesOfDirectory(v, n, to[k - 1])]
  IN to[d]

\* The visible files at most depth levels below the root.
Listing(v, depth) == FilesTo(v, depth + 1)[Root]

-----------------------------------------------------------------------------
(***************************************************************************)
(* Volumes a driver can have written.                                      *)
(***************************************************************************)
WellFormedBlock(v, b) == \A o \in EntryOffsets(v, b) : Proper(v, b, o)

BlocksOfDirectories(v, depth) ==
  UNION { { BlocksOf(v, n)[i] : i \in 1 .. Len(BlocksOf(v, n)) } :
            n \in Directories(v, depth) }

\* Directories are nested less than depth levels deep, and hold proper blocks.
WellFormed(v, depth) ==
  /\ \A b \in BlocksOfDirectories(v, depth) : WellFormedBlock(v, b)
  /\ Level(v, depth) = {}

\* In no block an entry without an inode stands before one that has one.
ErasedLast(v, depth) ==
  \A b \in BlocksOfDirectories(v, depth) : \A o, p \in EntryOffsets(v, b) :
    o < p /\ v.block[b][o].inode = Erased => v.block[b][p].inode = Erased

\* The inodes of all directories are in groups whose number is kept whole.
InodesFit(v, depth) ==
  \A n \in Directories(v, depth) : GroupOf(n) < GroupMod
=============================================================================

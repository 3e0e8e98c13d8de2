# A verification development for soa_ragnarok

`ragnarok` is a command line program that looks into FAT32 and EXT4 volumes
(files or devices) without mounting them: it detects the file system, shows
its parameters, searches files by name, prints them, and edits a few bytes of
their metadata in place. Every invocation is one sequential process; nothing
locks the volume against another invocation. This directory holds TLA+ modules
of its logic, the TLC configurations that check them, and proofs that TLAPS
checks.

## 1. The system

| component | state | operations | talks to |
|---|---|---|---|
| command line (`main.c`, `shell/commands.c`) | argv | `assertArgs`, `__isValidCommand`, `__checkForVolumeAvailability`, `executeCommand` | the file system of the host (`access`), the dispatch |
| dispatch (`functionalities/functionalities.c`) | file descriptor, detected file system | one function per command and file system, texts | detection, searches, edits, content |
| opening and detection (`fs_utils/common.c`, `isExt`, `getExtVersion`, `isFAT`) | file descriptor | `initVolume`, `detectSupportedFileSystem` | boot sector, superblock |
| FAT32 cluster lists (`readFatEntry`, `getClusterList`) | heap array, count, size | follow a chain | FAT on the volume |
| FAT32 directories (`getFAT32File`, `processLongFileName`, the searches) | file offset (shared by all calls of the recursion), loop counters, recursion | read an entry, search the root, search the volume | cluster lists |
| FAT32 edits (`FAT32_SetHiddenFlag`, `..SetRonlyFlag`, `..SetCreationDate`) | attribute byte and date read by the search | search, then write | searches, volume |
| file content (`showFileFAT`, `showFileEXT`, `catFAT32File`, `catEXT4File`) | block buffer, stdio's buffer | announce, read block, write it to 1 | cluster list, extents |
| FAT32 and EXT4 geometry and information (`FAT32_init`, `EXT4_init`, `get*Info`) | globals set once | copy fields | boot sector, superblock |
| EXT4 inodes and extent trees (`getInodeInfo`, `traverseExtentTree`) | file offset, array of extents | locate inode, walk tree | group descriptors |
| EXT4 searches | block buffer, offset in it, recursion | search root, volume | inodes |
| EXT4 edits | inode flags, creation time | read, change, write | searches |
| round robin queues (`lib/roundRobin.c`) | array of slots, two indices | create, destroy, push, pull, copy, delete, list | – |
| hash table (`lib/hashtable.c`) | buckets, chains of nodes on the heap | create, destroy, insert, get, delete | – |
| ordered buffer (`lib/orderedBuffer.c`, `lib/semaphore.c`) | slots, number of elements, `blocked`, a semaphore | insert by number, pull by number | threads that share it |
| process tree, tools, string utilities (`lib/processTree.c`, `tools.c`, `stringUtils.c`) | nodes and children; none | tree operations; sockets, terminal, formatting | – |

Who calls whom: `main` → `assertArgs` → `executeCommand` → a function of
`functionalities.c` → `initVolume`, `detectSupportedFileSystem` → `*_init` → a
search → an edit or the printing of the file. Control returns in that order or
leaves through `exit`, whose status (`lib/exitCodes.h`) is part of the
interface. Of `lib/` the program uses `exitCodes.h` alone; the makefile does not
link the rest. What calls a program makes of those containers is therefore open,
and they are modelled under any sequence of calls.

What is hard here, and hardly reached by tests (there are none in the
repository):

- one file offset is moved by every helper and every level of the recursion;
- the loops over directory clusters count slots, while entries take any number
  of them (long names), in chain order or in volume order;
- the array of a cluster list is grown once, by the wrong amount;
- edits write back what a search has read earlier, without a lock;
- dates are packed into four bytes and written over a field of two;
- the volume's path is validated, checked and opened by different code, with
  time between the calls, and `-d` orders its arguments differently;
- sizes that are multiples of a block, blocks that start with a 0 byte;
- corrupt volumes: looping chains, unset pointers, unterminated names;
- volumes that end inside a file: no one looks at what `read` returns;
- two ways to standard output, one with a buffer and one without;
- containers whose `memmove` counts slots where it should count bytes, whose
  indices wrap, and whose nodes can be cut off: what is wrong shows some calls
  later;
- a buffer that two threads use without a lock, with a flag that tells an
  insertion whether to signal.

`PROJECT.json` lists each of these as a hazard at its line, with the properties
that would catch it going wrong. What makes the components correct, in short:

- *cluster lists*: the list is the FAT's chain, within the memory owned;
- *searches*: the file returned is one the directories list, none that they
  list is missed, the scan stays where it should, and it ends;
- *edits*: each changes what it names, of one file, at one moment;
- *content*: all bytes, once, in order, none behind the end, and after the
  announcement;
- *invocation*: the volume opened is the one checked, only the edit asked for
  is made, the exit status names the first thing that is wrong;
- *queues and table*: what was put in comes back in its order, for whatever
  sequence of calls, and memory is given back;
- *ordered buffer*: the element asked for is the one that comes, and a waiter is
  woken when, and only when, its element is there.

## 2. Modules

| module | models | extends / uses |
|---|---|---|
| `Invocation` | one run of the program from `main` to its exit status | – |
| `ClusterList` | `getClusterList` as a loop with its allocation | – |
| `Fat32Layout` | what `getFAT32File` makes of the slots at a position (pure operators) | – |
| `Fat32Tree` | reference: what the directories of a volume mean | `Fat32Layout` |
| `Fat32Search` | the three searches as a machine with an explicit call stack | `Fat32Tree` |
| `VolumeEdits` | abstract: an edit is one step | – |
| `Fat32Edit` | the three edits by concurrent invocations | instance of `VolumeEdits` |
| `FileContent` | `catFAT32File`, `catEXT4File` | – |
| `ExtentTree` | `traverseExtentTree` with an explicit call stack | – |
| `Ext4Layout` | which group and index an inode number stands for (pure operators) | – |
| `Ext4Tree` | reference: what the directories of an EXT4 volume list | `Ext4Layout` |
| `Ext4Search` | the two searches as a machine with an explicit call stack | `Ext4Tree` |
| `InodeEdits` | abstract: an edit of an inode is one step | – |
| `Ext4Edit` | the two edits by concurrent invocations, on the words of the disk | `Ext4Layout`, instance of `InodeEdits` |
| `BoundedQueues` | abstract: first in, first out, up to a capacity | – |
| `RoundRobin` | every function of `roundRobin.c`, on several queues | instance of `BoundedQueues` |
| `Dictionary` | abstract: the values of each index, oldest first | – |
| `Hashtable` | every function of `hashtable.c`, with its nodes | instance of `Dictionary` |
| `OrderedBuffer` | `OB_insert` and `OB_pull` by two threads, with the semaphore and the bytes that are moved | – |
| `FileContentProofs` | theorems | `FileContent`, `ClusterList` |
| `ContainersProofs` | theorems | `MCContainers`, and so `RoundRobin`, `Hashtable`, `OrderedBuffer` |
| `Fat32SearchProofs`, `Fat32EditProofs`, `InvocationProofs`, `ExtentTreeProofs`, `Ext4SearchProofs`, `Ext4EditProofs` | theorems | the module of their name |
| `MCContainers` | instance for TLC of the queues, the table and the ordered buffer, which share nothing | `RoundRobin`, `Hashtable`, `OrderedBuffer` |
| `MCFileBlocks` | instance for TLC of the cluster lists and the printing, which share nothing | `ClusterList`, `FileContent` |
| other `MC*` | instances for TLC | the module of their name |

Where the theorems about several modules stand in one module, those modules share
its scope. `ClusterList`, `Hashtable` and `OrderedBuffer` therefore have `CL_`,
`HASH_` and `OB_` in front of the names every machine has (`Init`, `Next`,
`Spec`, `TypeOK`, `vars`), and variables that no other one has.

Operators named `...Late`, `...Kept`, `Not...` and the like (`UnmaskedFatEntry`,
`PositionKept`, `MatchesLabelsToo`, `NoBytes`, ...) are
variants a plausible slip would produce. No behaviour uses them: they are what
`PROJECT.json` names as mutants, one for every property.

### State and actions against the code

**Invocation.** `args` is argv without the program's name (`argv(argc)` is
NULL); `disk` the file at each path, with its permissions, how far it reaches
and the marks detection reads; `checked` and `opened` are the arguments
`access` and `open` got. Actions in the code's order: `RejectCount`,
`RejectCommand`, `CheckExists` (`F_OK`), `CheckReadable` (`R_OK`), `Open`,
`Detect`, then the command: `ShowInfo`, `RefuseHidden`, `Search`,
`ReportNotFound`, `Show`, `RejectDate`, `Edit`. `Change` is the environment,
which replaces, protects or removes a file before it is opened. A read behind
the end of the file leaves its variable uninitialised: `MarksRead` is then any
value. `Search` may crash when the target is the null pointer that ends argv.
Opening always asks for reading and writing, also for `-info`.

**ClusterList.** `clusters` and `allocated` are the array's entries and bytes.
One step is one iteration: read the FAT word, mask it, compare with the
threshold, store, count, grow. A store outside the array is undefined
behaviour: the machine stops in `overrun`. `EntryMod` and `ReallocSize` stand
for `0x10000000` and 1000.

**Fat32Layout / Fat32Search.** A position counts 32 byte slots of the data
area, in volume order: that is how the file offset moves. A slot keeps what the
code looks at (first byte, attributes, sequence number, first cluster, length
of the extension) and a piece of text for its characters; a name is the
sequence of its pieces. A long name has room for `NameSlots` pieces, which stands
for the 20 pieces of 13 characters that the buffer of 261 bytes holds; a name of
more is undefined behaviour, and the search goes astray. `getFAT32File` is the whole function: what it returns
and where it leaves the offset. The stack of `Fat32Search` holds each call's
cluster list, loop counters and `currentPosition`. One step reads one entry
(`SkipEntry`, `EndCluster`, `Descend`, `PassOver`, `Match`), starts a cluster,
or returns from a call (`LeaveDirectory`, which restores the caller's offset;
`ReportMissing` for the outermost). Where the code would read behind the
volume, follow an unset pointer or exhaust its stack it ends in `stray`. The
cluster list of each first cluster is a function of the volume (`chain`):
computing it is `ClusterList`'s subject, and the searches never write.

**Fat32Edit.** Each invocation finds its target (which reads the attribute
byte, `seen`) and writes later: one byte for an attribute, four for a date. The
two 16 bit words that the date's four bytes cover are `cdate` and `adate`;
arithmetic is modulo 2^32 as in the code. `since` is a history variable: who
wrote the file's attributes since p's search. Reading the byte and the whole
search are one step (`Find`): the value that is used later is read once. In `VolumeEdits` an
edit whose `since` is not empty is `Disturbed`: it may set or clear any editable
attribute of its file, once.

**FileContent.** `i` and `j` are the two loops of `catEXT4File`; a FAT32 file
has one extent, its cluster list. Bytes are named by their place in the file:
`buffer` says which of them stands in each place of the block buffer, `zero`
whether the byte in its first place is 0 (the code takes such a block for
unused), `out` is the sequence of bytes written. `Announce` is the `fprintf` in
front of the content: on a terminal it comes out at once, else it waits in
stdio's buffer until `Exit`; `announced` says in front of which byte it came.
A block knows how many bytes of it the volume has (`there`): where that is less
than a block, `ReadBlock` leaves the rest of the buffer as it is, and at the
end of the volume all of it. `malloc`'s first byte in `catEXT4File` may be
anything, hence the choice of `zero` in `Init`.

**ExtentTree.** `stack` holds each call's node and loop counter, `pos` the file
offset (a node, and the entries before it), `blocks` the array of extents. One
step is one entry (`StoreExtent`, `Descend`) or the return from a call
(`Return`, with the `lseek` behind it; `Finish` for the outermost). A header is
read where the call starts and kept by the call: `tree` does not change while
it is traversed. A store behind the array is undefined behaviour, and the
machine stops as `overrun`; where the process' stack is used up it stops as
`stray`. A node has slots that are not in use; what they hold is arbitrary.

**Ext4Layout / Ext4Search.** An inode number is turned into a group and an
index; the group goes through a `uint8_t`, which is `CastGroup` (`GroupMod`
stands for 256). A directory's blocks are those its inode has; a block has
entries at the offsets that their lengths lead to, what lies between is what
earlier entries left. A frame of the stack is a call's blocks, how many it has
begun, and `initialPos` (`at`) in the last of them: unlike the FAT32 searches
every call has a block buffer of its own, so that nothing has to be restored
when a call returns. One step reads one entry (`EndBlock` at inode 0, `Match`,
`PassOver`, `Descend`), begins a block or returns. Each level of the recursion
has an array of extents on the process' stack; where there is no room for
another one the machine stops as `stray` (`NoRoom`). An entry of length 0 is
read again and again, as in the code.

**Ext4Edit.** `disk` maps positions to words of four bytes. `Position` is what
`seekToInodeField` computes; `OwnPosition` is where the volume has the field:
they differ where a group's number is cut. `CREATION_TIME` is 144 bytes into
the inode, behind the end of one of 128 bytes, hence in its neighbour: inodes
have 32 or 64 words in the runs. Searching (`Find`) and reading the flags
(`ReadFlags`) are separate steps, since `EXT4_SetRonlyFlag` reads them anew;
`WriteFlags` writes what was read with one bit changed. `WriteDate` writes
`mktime`'s value cut to 32 bits; `clock` is what the `struct tm` holds besides
the date, which is never set, and the time zone.

**RoundRobin.** A queue is `first`, `last`, `size` and the slots `data` that
were allocated; `size` is 0 while there is no queue. A new queue's slots hold
anything. `RR_push` looks at the size of a `void` and stores nothing, but `last`
advances; `RR_delete` gives `memmove` a number of slots where it takes bytes, so
one slot is overwritten in part (it then holds any element), and `last` advances
as well. `RR_copy` takes the size of the source: it may write behind the slots
of the target, which is undefined behaviour (`CopyOutside`, after which nothing
is called). `Pull` stands for the three functions that pull, `ret` for what the
last call returned. `SlotBytes` is the size of a slot; no ring has as many
slots, so a `memmove` stays within one slot.

**Hashtable.** `head` is the array of buckets, `node` the heap: of each node its
index, value and successor. `Chain` follows the successors. `HASH_insert` goes to
the last node of the chain (the search for index 0), `HASH_delete` has two ways:
of a first node it empties the bucket (`DeleteFirst`), of a later one it links
around it (`DeleteLater`). Insertions stop when `Node` is used up.

**OrderedBuffer.** Two threads, one in `OB_insert` and one in `OB_pull`, each
with its own place in its call. Every access to what they share is a step:
loading and storing the number of elements (`index++` and `index--` are two
steps each), the look at the first element, `blocked`, and the semaphore. The
insertion goes on after counting with `higher_tsn`, for which it reads `index`
anew (`InsertHigher`): where a pull has emptied the buffer by then, it reads
`data[2^32 - 1]`, and the machine stops (`InsertOutside`). Then it compares the
number (`InsertCompare`), looks at `blocked` (`InsertNotify`) and signals
(`InsertSignal`). The expected number is written by `OB_create` only, and is 0.
`memmove` is again given elements for bytes, and elements are modelled as what
they are made of: a number is a function from its bytes (`NumberByte`, the lowest
one is 0) to their values, and behind it are the bytes of data, each told
apart by the number it came with. `MovedNumbers` and `MovedData` move the
bytes that `memmove` moves, `index - 1` (`BytesPulled`) or `index - 1 - i`
(`BytesBehind`) of them, wherever in an element they end. `index` is unsigned
and wraps at `Word`, which stands for 2^32; the next pull then runs over memory
(`PullOutside`). Refused insertions change nothing and are no steps. History
variables: `disturbed` (two calls have met halfway, or a signal came before the
one before was taken), `most` (the most elements there have been), `due` (which
numbers are in), `apart` (two of them differed above their lowest byte), and
`missed` (the last insertion to look at `blocked` looked between a pull's
comparison and its setting of `blocked`: that wake-up is lost).

## 3. Runs

| run | instance and bounds | shows |
|---|---|---|
| `file_blocks` | all 4^6 FATs in which each of six clusters links to its successor (with or without reserved bits), back to cluster 1, or to the end; array of 4 entries, so Capacity is 5. Or FAT32 files of up to four clusters, EXT4 files of up to two extents with holes; blocks of two bytes, sizes 0..8; volumes with all blocks, or that end in or before one of them; a terminal or not (197 158 states) | list = chain; array left at exactly 5/4 of its size; no list for a looping chain; the walk ends. Order, end, completeness, place of the announcement |
| `fat32_search` | three clusters of four slots; roots of up to three entries from nine kinds in one or two (not neighbouring) clusters, eight contents of a subdirectory, two levels; well-formed volumes, and some with a long name of more slots than names have | scans stay in clusters that have room; what is found is the first of the listing; what is missed; an answer at the end |
| `fat32_overrun` | same, expected to fail | a scan reads where no entry of the directory is |
| `fat32_edit` | three invocations, any mix of twelve requests on two files and a missing one; dates at and beside both ends of the range | edits are lost only by overlap; dates read back; refinement of `VolumeEdits` |
| `invocation` | every command line of up to four words from four words; eleven kinds of file; one change of a file | volume checked = opened; only asked edits; exit status |
| `invocation_formats` | same, expected to fail | volumes of documented formats are refused as not supported |
| `invocation_usage` | same, expected to fail | `-d` opens another argument than its usage says |
| `file_content_whole` | the instance of `file_blocks`, expected to fail | the last block of full files is not printed |
| `extent_tree` | complete binary trees of up to three levels, each of seven nodes with 0..2 entries in use, and two trees that loop; array of 5, stack of 4 calls | every call goes on at its own entry; all extents, in order, unless the array is left; an end |
| `ext4_search` | three groups of two inodes of which two can be told apart (inode 5 is read as 1, 6 as the root); four blocks of up to three entries of seven kinds, with erased, hidden, stale and unending ones; three calls | the answer is the first file of the listing if no erased entry stands in front of others; an answer at the end |
| `ext4_edit` | three invocations, any mix of eight requests on three inodes, of which two are neighbours; inodes of 128 and 256 bytes; words of 64 values and days of five ticks, so that 12 whole days and a part of one fit; times of day at both ends of a day and outside it | only the named field changes; edits of flags are exact; the time stored is of a day asked for; refinement of `InodeEdits` |
| `containers` | two queues for one or two of two elements; or a table of two buckets with two indices each, two values and three nodes; or a buffer of three slots for three numbers of two bytes, 0, one that differs from it in its lowest byte and one above that byte, an index modulo 16, a semaphore of up to 2 (751 488 states) | refinement of `BoundedQueues` and of `Dictionary`; which call loses nodes; how far the buffer's order holds; what a woken thread finds; when a waiter is served |

Why the bounds are enough: the array needs one more cluster than its capacity
and a loop; a scan needs one cluster that is left, one that follows on the
volume but not in the directory, and a directory to return from; lost edits
need two invocations, and a third to interfere with both; a size needs to be
below, at and above a multiple of the block size; a tree needs an inner node
with a second child to return to, one level below another, and more leaves'
extents than the array holds; an inode edit needs a neighbour to overwrite and
an inode of another group; a ring needs two slots to wrap and three for a
`memmove` between neighbours, and two queues of different sizes to copy; a chain
needs a first, a middle and a last node and an index that collides; the ordered
buffer needs a second element for the order, a third for what `memmove` leaves
behind, numbers that differ in their lowest byte and above it, and a semaphore
that counts beyond 1; a date one value on each side of its day and of the
last day that fits. Sizes of chains, clusters, volumes, inodes and words, and
the number of invocations are then left to the proofs. The invocations of
`ext4_edit` differ only in what `req` and `clock` give them, which start from
all values: permuting them is sound. No liveness is checked under symmetry.

`CHECK_DEADLOCK FALSE` is in every configuration: each machine is a program
that terminates, but for the containers, which stop where memory they do not own
was written, and where no call is left that succeeds.

**Fairness.** `ClusterList`, `Fat32Search`, `Ext4Search` and `ExtentTree` have
weak fairness on their whole next-state relation: one sequential process that
is scheduled takes its next step, and its only calls are `read` and `lseek` on
a regular file or device, which return. `OrderedBuffer` has weak fairness on the
steps of a call that has begun, one for each thread, and none on beginning a
call: a thread that runs goes on, also after the semaphore has let it pass,
since no other thread takes its signal. That is what `WaiterServed` needs: it is
about a pull that has found another number, while an insertion is under way whose
number to compare is 0, and says nothing of a waiter for whom nobody inserts. `Fat32Edit`, `Ext4Edit`,
`Invocation`, `FileContent`, `RoundRobin` and `Hashtable` assume none and check
no liveness.

**Findings** (runs expected to fail; the texts are quoted in `PROJECT.json`):

1. `fat32.c:219`/`251`: the loops count one slot per entry, so after long names
   they read behind the cluster (`AtDirectoryEntry`). `RoomyScanInCluster`,
   `FoundIsFirst` and `NothingMissed` say where that is harmless.
2. Files whose size is a multiple of the block size are printed without their
   last block (`ContentShown`).
3. `src/README.md` lists EXT2, EXT3 and FAT16 as formats that can be recognised
   and manipulated; they are recognised and refused
   (`DocumentedFormatsServed`). `ExitIsFirstReason` says which status an
   invocation ends with, not that it is right to refuse them.
4. The usage texts (`commands.c:20`, `47`) give `-d` the arguments of the other
   commands; it takes the date in front of the volume (`VolumeAsInUsage`).

Properties that hold but state a limit worth knowing:

- chains over 1250 clusters leave the array (`OverrunOnlyAtCapacity`);
- short names whose extension has one character are not found reliably
  (`NothingMissed` excludes them);
- edits of one FAT32 entry may be lost when two invocations overlap
  (`LostOnlyByOverlap`); those of an inode's flags are not, since they only ever
  change one of them (`FlagEditsExact`);
- on EXT4 a file behind an erased entry of its block is reported as missing
  (`AnswerIsFirst` excludes them): inode 0 ends the block (`ext4.c:226`, `277`);
- the creation time of an EXT4 file is set with hours, minutes and seconds that
  were never initialised and in local time (`ext4.c:378`): `StampOnAskedDay` says
  that the time *stored* is, as of UTC, one of the day asked for if those fields
  happen to hold a time of that day. What `-search` then shows is indeterminate:
  `strftime` gets ten bytes where the date needs eleven, and fails
  (`functionalities.c:119`), so that no property speaks of the date shown;
- years outside 1980..2107 overwrite the date of last access (`DateReadBack`,
  `VolumeEdits!Spill`);
- EXT4 edits are of the file named only where inodes are larger than 144 bytes
  and there are at most 256 groups (`Contained` in `OnlyNamedChange`);
- where a volume ends inside a file, earlier bytes of that file are printed in
  place of the missing ones (`PrintedWhole`, `InOrder` up to there);
- a file is printed whole, and nothing behind its end, if no extent but the first
  is empty (`NoEmptyExtent`): `catEXT4File` knows the last block, of which it
  writes only what the size leaves, as the last one of the last extent;
- what `RR_push` appends is not what it was given, and what `RR_delete` leaves is
  a queue of at most the capacity but not the old one without an element
  (`BoundedQueues!PushAnything`, `Delete`); `RR_getAll` gives a part of a queue
  that does not start at slot 0 (`GetAll`);
- `HASH_delete` of the first node of a bucket drops all indices that collide
  with it, and their nodes are never freed (`LostOnlyBehindFirst`); `HASH_get` of
  0 gives the last value of its bucket (`Dictionary!GetOfZero`);
- an ordered buffer keeps in order a single element, with its data, and two
  elements whose numbers agree above the lowest byte, and only while calls do
  not meet halfway (`HeldInOrder`): a pull moves one byte of the second number,
  so that after 0 and 256 a pull of 0 leaves 0 in front. A thread that waits for
  any number is woken by number 0 (`WokenByZero`);
- a thread that waits on an ordered buffer is served unless the insertion looked
  at `blocked` after the pull's comparison (`:67`) and before the pull had set it
  (`:75`), which loses the wake-up, or a call accesses memory outside of the
  slots: an insertion does if a pull empties the buffer before it reads
  `higher_tsn` (`WaiterServed`);
- an EXT4 search ends where no entry has length 0 (at one it goes on for ever,
  `ext4.c:238`; nothing is claimed of that) and directories are nested no deeper
  than the process' stack allows (`Searchable` in `SearchAnswers`).

`-d <date> <volume>` passes the check for a missing target, and may crash
(`Search`).

## 4. Proofs

All theorems hold for every value of the constants that the named assumptions
of the modules allow; TLC evaluates these assumptions for each instance.

- **Fat32SearchProofs**: `SearchTypeOK` on every volume, corrupt ones included
  (each step keeps the counters in range, and what `getFAT32File` returns is
  typed: lemmas on `LongNameEnd`), and `RoomySearchInCluster`. Its inductive
  invariant `SearchInv` says of *every* frame of the stack, not of the top one
  only, where its saved position stands: at or before the slot its loop counter
  allows, because each entry takes at least one slot and a long name ends
  before the slot that is marked last. Without the part about suspended callers
  the return from a subdirectory could not be shown to land in the caller's
  cluster.
- **Fat32SearchProofs**, about the answers: `SearchMissesNothing` and
  `SearchFindsFirst`, for volumes that can be addressed (`Addressable`, the
  32 bit product of `seekToCluster`) and whose directories are what a driver
  writes (`DirectoriesSound`): no cluster twice in a chain, long names in front of
  their entries, nothing in use behind the slot that ends a directory.
  `AnswerInv` names the directory of each call on the stack (`Walk`) and the
  number of slots, in the directory's order, that the call has read (`Place`):
  either the descriptor is at the next one of them, or those of all clusters
  begun have been read and the loop, whose count runs behind, reads something
  else. Every entry that *begins* in the slots read was looked at in vain
  (`AllVain`); a long name is read from its first slot because the scan never
  begins between two slots of one (`Between`), which is why the premise
  `Unsplit` of `NothingMissed` is needed and why `Roomy` implies it
  (`RoomyUnsplit`). Where the count runs behind, the search may read entries of
  other directories and descend from them. Calls for what is not of the tree
  promise nothing, and the caller needs nothing from them (`Returns`): only the
  position that is restored. `Fat32Tree` states the directories below another
  one as the least set closed under the entries, so that "all below was read in
  vain" splits into the directory and its subdirectories (`FromParts`) without
  an induction on the depth of the tree.
- **Fat32EditProofs**: `EditTypeOK`, `OtherAttributesKept`,
  `LostByOverlapOnly`, `DatesReadBack` and `EditsImplementVolumeEdits`. `EditInv`
  adds what connects the history variable to the volume: an invocation that is
  writing, and whose `since` is empty, has seen the attributes as they are
  (`FreshUnlessWritten`), and the attributes that are never edited as they are
  in any case (`OthersSeen`). In the refinement the first of these makes a write
  the abstract edit, the second makes any other write a `Disturbed` one, which
  leaves the attributes alone that no command names. The arithmetic of dates
  (packing, unpacking, the spilled word) is in lemmas of its own.
- **InvocationProofs**: `InvocationTypeOK`, `OpensWhatWasChecked`,
  `EditsOnlyWhatWasAsked`, `ExitNamesFirstReason`. `InvocationInv` follows the argument that was checked
  to the one that is passed on, and what is known of the descriptor from the
  opening to the edit, for command lines of any length and any number of
  changes of the files. `ReasonInv` says at each place of the program which reasons
  to exit are already excluded, as long as the files are left alone.
- **FileContentProofs**, about cluster lists: `ClusterListTypeOK`,
  `ClusterListIsChain`, `ClusterListOverrun`, `NoLoopReturned`. The invariants of
  the run are nearly inductive. The strengthening (`ChainInv`) ties the bytes
  allocated to the count: 4 * ReallocSize up to that count, 5 * ReallocSize from
  it on. For `NoLoopReturned` the invariant says that from two places with the
  same cluster on a list has the same clusters (`Repeats`): the last one stands
  at an earlier place too, where the FAT links it to another cluster, so that a
  list with a repetition is never at its end.
- **FileContentProofs**, about what is printed: `FileContentTypeOK`,
  `AnnouncementFirst`, `PrintedInOrder`, `NothingPrintedBeyondSize`,
  `WholeFilePrinted`, for every block size, extents, holes, blocks that begin
  with 0, and ends of the volume. `OrderInv` says that every byte printed lies
  before all blocks still to come, and that a full buffer is the block just
  read. `EndInv` bounds what is in the buffer, block after block, also where a
  short read leaves bytes of earlier blocks in it; that the last block's part
  fits the size is a fact about division (`NeededBound`). For `WholeFilePrinted`
  the bytes printed are counted: `WholeInv` names the number of blocks read so
  far by the place the two loops have reached, and says that byte n is n - 1.
- **ContainersProofs**, queues: `RoundRobinTypeOK`, `RingsImplementQueues`: for
  any number of queues and every capacity, each call is a step of
  `BoundedQueues` on the slots from `first` to `last`, or a stutter. The indices
  are counted modulo a size no solver knows; the lemmas on `Modulo` turn that
  into a case distinction, those on `Count` and `SlotAt` say what a call's change
  of an index does to the contents.
- **ContainersProofs**, table: `TableImplementsDictionary`,
  `TableLosesBehindFirst`. A chain is the sequence that follows the successors;
  that there is one, and only one, needs a number for each node that falls along
  the chain (`Ends`), which every call keeps or renews. `HASH_Inv` adds that the
  chains of a table keep to their buckets (so no two buckets share a node) and
  that what was cut off stays cut off. Each call then changes one chain in one
  place.
- **ContainersProofs**, ordered buffer: `BufferHeldInOrder`,
  `BufferWokenByZero`, for every number of slots and of bytes of numbers and data,
  and every range of the semaphore; of `index` it is assumed that it does not wrap
  within twice the number of slots (`SizeAssumption`; 2^31 slots of 9004 bytes do
  not fit into memory). `OB_Inv` follows the two threads through their calls:
  whose turn it is to count, that `blocked` is set exactly while the puller waits,
  and, as long as no two calls met halfway, how many elements there have been at
  most and whether their numbers agree above the lowest byte, on which the order
  depends. `MovedTyped` and `MovedDown` say what a `memmove` of too few bytes
  leaves in the slots.
- **ExtentTreeProofs**: `ExtentTreeTypeOK`, `ExtentTreeReadsOwnEntry`, on every
  tree, looping ones included. `ReadsOwnEntry` alone speaks of calls that have
  entries left; `ExtentTreeInv` says that the offset is the innermost call's
  place whenever the machine walks, also when it is about to return, and that
  there is a call. `ExtentTreeAllLeavesInOrder`: the extents stored, followed by
  those of the leaves still to come for each call on the stack, are at any time
  the extents of the tree. `ExtentTreeStackSuffices`: the levels of the nodes
  fall from call to call, so that the stack is never used up on a tree whose
  levels it has room for.
- **Ext4SearchProofs**: `Ext4SearchTypeOK` on every volume; on those a driver can
  have written `Ext4AnswerIsFirst`, the answer is the first file of the whole
  listing that is asked for, and `Ext4StackSuffices`. `SearchInv` names the
  directory of each call on the stack and says that all the call has read has
  been looked at in vain, down to the deepest subdirectory; of a suspended call it
  says at which entry it descended, so that what the inner call has not found is
  added to what the outer one has read. `Ext4Tree` states the offsets at which
  entries start as the least set that the lengths lead to, and listings by
  recursive functions on the levels: that these functions exist and are what
  their equations say is proved from `CHOOSE` by induction over a set of numbers.
- **Ext4EditProofs**: `Ext4EditTypeOK`, `Ext4OnlyNamedChange`,
  `Ext4FlagEditsExact`, `Ext4StampsOnAskedDay` and
  `Ext4EditsImplementInodeEdits`. What the run cannot show for all sizes is
  that fields do not share a word: `WordsApart` proves it of words `i * s + f`
  of tables that do not overlap, `FieldsApart` of the inodes of a volume, and
  `FlagsApart` that a creation time is never written over flags the code
  reads, *not even* when it is written behind its inode or to another group's
  table. On these rests `EditInv`: flags read stay as they are on the disk but
  for the immutable one (`OthersSeen`); the creation time of a file is that of
  one of the edits done (`TimeIsOneWritten`). Since the immutable flag is the
  only one ever edited, the first is enough for each edit to be exact and for
  the refinement, however invocations overlap. `InodeEdits` promises nothing of
  volumes whose inodes cannot hold a creation time or whose group numbers are
  cut. Numbers of days,
  seconds and groups are divided by parameters: the lemmas at the start of the
  module state the facts of that which are needed.

Only model-checked: liveness (`WalkEnds`, both `SearchAnswers`, `TraversalEnds`,
`WaiterServed`), since it needs fairness and ENABLED; and the four properties
that are expected to fail. `NothingMissed` and `FoundIsFirst` are proved for the
volumes named above only; the run also checks them on volumes with a long name
of more slots than names have.

## 5. Not modelled

- Texts and their layout, and so the buffers of `ctime` and `strftime`
  (`functionalities.c:119` has ten bytes for eleven).
- `FAT32_init`, `EXT4_init` and the information commands, which copy fields to
  variables and to the output; the geometry is a constant of the modules.
- `filenameHasBeenShortened`, which nothing calls.
- `lib/processTree.c`: nothing calls it, and what it does is undefined soon after
  the first calls (`PT_destroy` reads the children's array at -1,
  `addChildToParent` follows a null pointer where the parent is missing), so that
  hardly a behaviour is left about which something could be said.
- `lib/tools.c`, `lib/stringUtils.c`: sockets, terminal input and formatting that
  no linked code calls.
- Of the ordered buffer: the functions that only read, a `semget` that fails,
  and several threads that insert or pull at once.
- The composition of `Invocation` with the searches and the edits. Each of them
  begins where the invocation stops looking: `Invocation` takes what a search
  finds from the volume's description, the searches take the volume as it is, and
  edits take a search as one step. Putting the machines in one another's place
  multiplies their states and adds no behaviour, since nothing but the descriptor
  and the result passes between them; that the descriptor is of the volume
  checked is `OpensWhatItChecked`.

## 6. Plan

Done:

1. `ClusterList`, `Fat32Layout`, `Fat32Tree`, `Fat32Search`; `VolumeEdits`,
   `Fat32Edit`.
2. `Invocation`, `FileContent`.
3. `ExtentTree`, `Ext4Layout`, `Ext4Tree`, `Ext4Search`; `InodeEdits`,
   `Ext4Edit`.
4. Output in `FileContent`: stdio's buffer against `write(1)`, short reads; long
   names beyond their buffer in `Fat32Layout`.
5. `BoundedQueues`, `RoundRobin`; `Dictionary`, `Hashtable`; `OrderedBuffer`.
6. Proofs of all stages.

Left: several inserting threads in `OrderedBuffer`.

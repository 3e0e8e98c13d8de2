---------------------------- MODULE Fat32Layout ----------------------------
(***************************************************************************)
(* How fs_utils/fat32.c reads a directory: the byte positions it seeks to  *)
(* and the file it makes of the directory entries it finds there.  A       *)
(* position counts 32 byte slots (DIR_ENTRY_SIZE) from the start of the    *)
(* data area.                                                              *)
(*                                                                         *)
(* A name is the sequence of its pieces in reading order: a short name is  *)
(* one piece, a long name has one piece for each of its slots.             *)
(***************************************************************************)
EXTENDS Integers, Sequences

CONSTANTS
  SlotsPerCluster,  \* clusterSize / DIR_ENTRY_SIZE
  LastCluster,      \* the clusters of the data area are 2 .. LastCluster
  NameSlots,        \* the long name slots whose pieces fit in a file name
  OffsetMod,        \* 2^32 bytes, in slots: seekToCluster multiplies uint32_t
  Text,             \* the pieces names are made of
  Garbage           \* a piece made of what the stack held

ASSUME SlotsAssumption == SlotsPerCluster \in Nat \ {0}
ASSUME LastClusterAssumption == LastCluster \in Nat /\ LastCluster >= 2
ASSUME NameSlotsAssumption == NameSlots \in Nat \ {0}
ASSUME OffsetAssumption == OffsetMod \in Nat \ {0}
ASSUME GarbageAssumption == Garbage \notin Text

Attr == {"ronly", "hidden", "system", "label", "subdirectory", "archive"}

VFatLongNameFlag == {"ronly", "hidden", "system", "label"}  \* 0x0F

ClusterNumber == 0 .. LastCluster

LastSlot == (LastCluster - 1) * SlotsPerCluster - 1

(***************************************************************************)
(* One slot.  mark is what the first byte of the name says: 0xE5 erased,   *)
(* 0x00 last, a name that is . or .. dot.  seq is the sequence number of a *)
(* long name slot (masked with 0x1F); ext the length of the extension.     *)
(***************************************************************************)
Slot == [mark : {"used", "erased", "last", "dot"}, attrs : SUBSET Attr,
         text : Text, ext : 0 .. 3, seq : 0 .. 31, clus : ClusterNumber]

(***************************************************************************)
(* A volume: its slots, the cluster list getClusterList returns for each   *)
(* first cluster (module ClusterList), and the first cluster of the root.  *)
(***************************************************************************)
Volume == [slot : [0 .. LastSlot -> Slot],
           chain : [ClusterNumber -> Seq(ClusterNumber)],
           root : ClusterNumber]

getClusterList(v, c) == v.chain[c]

\* The product is a uint32_t: it wraps for clusters 4 GiB into the data area.
seekToCluster(c) == ((c - 2) * SlotsPerCluster) % OffsetMod

\* Where the volume has the cluster.
ClusterBase(c) == (c - 2) * SlotsPerCluster

isVFatEntry(v, p) == v.slot[p].attrs = VFatLongNameFlag

(***************************************************************************)
(* processLongFileName calls itself on slot after slot, whatever they are, *)
(* until one has sequence number 1.  None may have it before the volume    *)
(* ends, and then there is no entry after the run either; or before the    *)
(* FAT32_MAX_FILENAME_LEN bytes are full in which the pieces are gathered, *)
(* which nothing checks: twenty pieces of 13 characters and the 0 byte fit.*)
(***************************************************************************)
RunCloses(v, p) ==
  \E q \in p .. LastSlot - 1 : q < p + NameSlots /\ v.slot[q].seq = 1

LongNameEnd(v, p) ==
  CHOOSE q \in p .. LastSlot - 1 :
    /\ v.slot[q].seq = 1
    /\ \A r \in p .. q - 1 : v.slot[r].seq # 1

\* Each slot's piece goes in front of the pieces of the slots before it.
LongNameAppended(v, p) ==
  LET q == LongNameEnd(v, p) IN
  [k \in 1 .. q - p + 1 |-> v.slot[p + k - 1].text]

LongName(v, p) ==
  LET q == LongNameEnd(v, p) IN
  [k \in 1 .. q - p + 1 |-> v.slot[q + 1 - k].text]

\* The loop that ends the extension stops at i > 0: an extension of one
\* character keeps its blanks and whatever the stack holds behind it.
ExtensionEnds(s) == s.ext # 1

ShortName(s) == IF ExtensionEnds(s) THEN <<s.text>> ELSE <<s.text, Garbage>>

IsDotMissed(s) == FALSE

IsDot(s) == s.mark = "dot"

(***************************************************************************)
(* getFAT32File: what it returns (a null pointer, a file with isLast set,  *)
(* or a file), where the file's own entry is and where it leaves the       *)
(* descriptor.  kind is "beyond" when it would read after the volume's end *)
(* or write after the end of the name's buffer.                            *)
(***************************************************************************)
EntryAt(kind, next, home, name, s) ==
  [kind |-> kind, next |-> next, home |-> home, name |-> name,
   attrs |-> s.attrs, clus |-> s.clus]

LongNamedFile(v, p) ==
  LET home == LongNameEnd(v, p) + 1 IN
  EntryAt("file", home + 1, home, LongName(v, p), v.slot[home])

getFAT32File(v, p) ==
  LET s == v.slot[p]
      named == s.mark \notin {"erased", "last"}
  IN CASE s.mark = "erased" -> EntryAt("null", p + 1, p, << >>, s)
       [] s.mark = "last" -> EntryAt("last", p, p, << >>, s)
       [] named /\ isVFatEntry(v, p) /\ RunCloses(v, p) -> LongNamedFile(v, p)
       [] named /\ isVFatEntry(v, p) /\ ~RunCloses(v, p) ->
            EntryAt("beyond", p, p, << >>, s)
       [] named /\ ~isVFatEntry(v, p) /\ IsDot(s) ->
            EntryAt("null", p + 1, p, << >>, s)
       [] named /\ ~isVFatEntry(v, p) /\ ~IsDot(s) ->
            EntryAt("file", p + 1, p, ShortName(s), s)

IsSubdirectory(f) == "subdirectory" \in f.attrs

isFileVisible(f, isSearch) == "hidden" \notin f.attrs \/ ~isSearch

MatchesLabelsToo(f, target, isSearch) ==
  /\ isFileVisible(f, isSearch)
  /\ f.name = target

Matches(f, target, isSearch) ==
  /\ "label" \notin f.attrs
  /\ isFileVisible(f, isSearch)
  /\ f.name = target
=============================================================================

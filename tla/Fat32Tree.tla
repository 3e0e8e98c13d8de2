----------------------------- MODULE Fat32Tree -----------------------------
(***************************************************************************)
(* What the directories of a FAT32 volume say, independently of how        *)
(* fs_utils/fat32.c walks them: the reference its searches are compared    *)
(* with.  A directory is the slots of its clusters in chain order, up to   *)
(* the first one marked last; the slots of a long name stand in front of   *)
(* the entry they name, with descending sequence numbers.                  *)
(***************************************************************************)
EXTENDS Fat32Layout, FiniteSets

\* The position of the k-th slot of a directory.
SlotPosition(list, k) ==
  ClusterBase(list[((k - 1) \div SlotsPerCluster) + 1])
    + ((k - 1) % SlotsPerCluster)

\* The slots of the directory that starts at cluster c, in directory order.
DirectorySlots(v, c) ==
  [k \in 1 .. Len(v.chain[c]) * SlotsPerCluster |->
     v.slot[SlotPosition(v.chain[c], k)]]

IsLongSlot(s) == s.mark \in {"used", "dot"} /\ s.attrs = VFatLongNameFlag

\* The slots before the first one marked last.
Live(slots) ==
  { k \in DOMAIN slots : \A m \in 1 .. k : slots[m].mark # "last" }

\* How many long name slots belong to the entry in slot k.
RunLength(slots, k) ==
  CHOOSE n \in 0 .. k - 1 :
    /\ \A m \in 1 .. n : IsLongSlot(slots[k - m]) /\ slots[k - m].seq = m
    /\ n + 1 < k =>
         ~(IsLongSlot(slots[k - n - 1]) /\ slots[k - n - 1].seq = n + 1)

\* The entries of a directory other than . and .. in their true names.
Homes(slots) ==
  { k \in Live(slots) : slots[k].mark = "used" /\ ~IsLongSlot(slots[k]) }

NameOf(slots, k) ==
  LET n == RunLength(slots, k) IN
  IF n = 0 THEN <<slots[k].text>> ELSE [m \in 1 .. n |-> slots[k - m].text]

\* order is the place in the directory; cut says that the short name ends
\* in an extension of one character, which getFAT32File leaves unterminated.
EntryOf(v, c, k) ==
  LET slots == DirectorySlots(v, c) IN
  [home |-> SlotPosition(v.chain[c], k), name |-> NameOf(slots, k),
   attrs |-> slots[k].attrs, clus |-> slots[k].clus, order |-> k,
   cut |-> RunLength(slots, k) = 0 /\ slots[k].ext = 1]

Entries(v, c) ==
  { EntryOf(v, c, k) : k \in Homes(DirectorySlots(v, c)) }

Subdirectories(v, c) ==
  { e.clus : e \in { f \in Entries(v, c) : "subdirectory" \in f.attrs } }

\* Each directory with each of its subdirectories.
Links(v) == UNION { {d} \X Subdirectories(v, d) : d \in 2 .. LastCluster }

\* The first clusters of the directory that starts at c and of all those
\* below it: the least set that has c, and with a directory its subdirectories.
DirectoriesFrom(v, c) ==
  LET links == Links(v) IN
  { x \in ClusterNumber :
      \A D \in SUBSET ClusterNumber :
        c \in D /\ (\A link \in links : link[1] \in D => link[2] \in D)
          => x \in D }

Directories(v) == DirectoriesFrom(v, v.root)

Files(v, dirs) ==
  UNION { { e \in Entries(v, c) : "subdirectory" \notin e.attrs
                                  /\ "label" \notin e.attrs } : c \in dirs }

-----------------------------------------------------------------------------
(***************************************************************************)
(* Volumes a FAT32 driver can have written.                                *)
(***************************************************************************)

\* The clusters of the directory that starts at c.
ClustersOf(v, c) == { v.chain[c][i] : i \in DOMAIN v.chain[c] }

\* Every long name slot that counts is part of a run that ends in an entry.
RunsComplete(v, c) ==
  LET slots == DirectorySlots(v, c) IN
  \A k \in Live(slots) : IsLongSlot(slots[k]) =>
     /\ slots[k].seq \in 1 .. NameSlots
     /\ k + 1 \in Live(slots)
     /\ slots[k].seq > 1 =>
          IsLongSlot(slots[k + 1]) /\ slots[k + 1].seq = slots[k].seq - 1
     /\ slots[k].seq = 1 =>
          slots[k + 1].mark = "used" /\ ~IsLongSlot(slots[k + 1])

\* Behind a slot marked last there are only such slots.
LastStaysLast(slots) ==
  \A k \in DOMAIN slots \ Live(slots) : slots[k].mark = "last"

WellFormedDirectory(v, c) ==
  /\ v.chain[c] # << >> /\ v.chain[c][1] = c
  /\ ClustersOf(v, c) \subseteq 2 .. LastCluster
  /\ \A i, j \in DOMAIN v.chain[c] : v.chain[c][i] = v.chain[c][j] => i = j
  /\ RunsComplete(v, c)
  /\ LastStaysLast(DirectorySlots(v, c))

DirectoriesSound(v) == \A c \in Directories(v) : WellFormedDirectory(v, c)

\* Directories form a tree: each has one entry, and they share no cluster.
WellFormed(v) ==
  LET dirs == Directories(v)
      links == UNION { { <<c, e.home, e.clus>> :
                           e \in { f \in Entries(v, c) :
                                     "subdirectory" \in f.attrs } } : c \in dirs }
  IN /\ DirectoriesSound(v)
     /\ \A c, d \in dirs :
          c # d => ClustersOf(v, c) \cap ClustersOf(v, d) = {}
     /\ Cardinality(links) = Cardinality(dirs) - 1

(***************************************************************************)
(* Cluster c can be scanned without leaving it: it holds no long name, or  *)
(* its last slot is free and every long name in it is no longer than names *)
(* are and has its entry in it.                                            *)
(***************************************************************************)
SlotIn(v, c, o) == v.slot[ClusterBase(c) + o]

Offset == 0 .. SlotsPerCluster - 1

NoLongName(v, c) == \A o \in Offset : ~IsLongSlot(SlotIn(v, c, o))

ClosedByLast(v, c) ==
  /\ SlotIn(v, c, SlotsPerCluster - 1).mark = "last"
  /\ \A o \in Offset : IsLongSlot(SlotIn(v, c, o)) =>
       \E q \in o .. SlotsPerCluster - 3 :
         q < o + NameSlots /\ SlotIn(v, c, q).seq = 1

Roomy(v) ==
  \A c \in 2 .. LastCluster : NoLongName(v, c) \/ ClosedByLast(v, c)

\* No long name continues in a cluster that is not the next on the volume.
Unsplit(v) ==
  \A c \in Directories(v) :
    LET slots == DirectorySlots(v, c) IN
    \A k \in Live(slots) : IsLongSlot(slots[k]) =>
      SlotPosition(v.chain[c], k + 1) = SlotPosition(v.chain[c], k) + 1

\* Everything a directory entry may lead the search into is in the data area.
InDataArea(v, c) ==
  /\ v.chain[c] # << >>
  /\ \A i \in DOMAIN v.chain[c] : v.chain[c][i] \in 2 .. LastCluster

DirectoriesInData(v) ==
  /\ InDataArea(v, v.root)
  /\ \A p \in 0 .. LastSlot :
       "subdirectory" \in v.slot[p].attrs => InDataArea(v, v.slot[p].clus)
=============================================================================

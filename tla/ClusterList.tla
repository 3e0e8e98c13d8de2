---------------------------- MODULE ClusterList ----------------------------
(***************************************************************************)
(* getClusterList of fs_utils/fat32.c: follows the chain of a file or      *)
(* directory through the FAT and returns the clusters it found in a heap   *)
(* array.  The array starts with ReallocSize entries and is meant to grow. *)
(* It grows once only: the code asks realloc for size + ReallocSize * 4    *)
(* bytes, where size counts entries and is never updated.                  *)
(*                                                                         *)
(* One step of this machine is one iteration of the code's loop.  A store  *)
(* outside the array is undefined behaviour: the machine stops there, in   *)
(* the control state "overrun".                                            *)
(*                                                                         *)
(* CL_ stands before the names that FileContent has too: the proofs about  *)
(* both are in one module.                                                 *)
(***************************************************************************)
EXTENDS Integers, Sequences

CONSTANTS
  EntryMod,      \* FAT32_ENTRY_MASK + 1: what a FAT entry counts modulo
  ReallocSize,   \* CLUSTER_LIST_REALLOC_SIZE
  Fats,          \* the FATs considered: raw 32 bit words, by cluster number
  FirstClusters  \* the first clusters directory entries may name

EocThreshold == EntryMod - 9   \* 0x0FFFFFF7 for EntryMod = 0x10000000
EntrySize == 4                 \* sizeof(uint32_t)

Cluster == 0 .. EocThreshold   \* the numbers the code looks up in the FAT

ASSUME EntryModAssumption == EntryMod \in Nat /\ EntryMod > 9
ASSUME ReallocAssumption == ReallocSize \in Nat \ {0}
ASSUME FatsAssumption == Fats \subseteq [Cluster -> Nat]
ASSUME FirstAssumption == FirstClusters \subseteq Nat

VARIABLES
  fat,        \* the volume's FAT, never written
  first,      \* the argument firstCluster
  clusters,   \* cl.clusters, its length is cl.count
  allocated,  \* the bytes the array has
  progress

CL_vars == <<fat, first, clusters, allocated, progress>>

CL_TypeOK ==
  /\ fat \in [Cluster -> Nat]
  /\ first \in Nat
  /\ clusters \in Seq(Cluster)
  /\ allocated \in Nat
  /\ progress \in {"start", "walk", "empty", "done", "overrun"}

(***************************************************************************)
(* readFatEntry: the upper four bits of a FAT word are reserved and are    *)
(* masked off.                                                             *)
(***************************************************************************)
UnmaskedFatEntry(c) == fat[c]

readFatEntry(c) == fat[c] % EntryMod

EndsChainLate(entry) == entry > EocThreshold + 1

EndsChain(entry) == entry > EocThreshold

CurrentCluster == clusters[Len(clusters)]

\* The entries the array ever has room for.
Capacity == (5 * ReallocSize) \div EntrySize

Fits(count) == count * EntrySize <= allocated

\* The size after one store has made the count what it is: realloc is asked
\* for cl.size + ReallocSize * 4 bytes once the count has reached cl.size.
SizeNeverGrown(count) == allocated

SizeAfterStore(count) ==
  IF count >= ReallocSize THEN ReallocSize + ReallocSize * EntrySize
  ELSE allocated

CL_Init ==
  /\ fat \in Fats
  /\ first \in FirstClusters
  /\ clusters = << >>
  /\ allocated = 0
  /\ progress = "start"

\* A first cluster beyond the threshold: the list is returned with count 0
\* and its array pointer unset.
ReturnEmpty ==
  /\ progress = "start"
  /\ EndsChain(first)
  /\ progress' = "empty"
  /\ UNCHANGED <<fat, first, clusters, allocated>>

Allocate ==
  /\ progress = "start"
  /\ ~EndsChain(first)
  /\ allocated' = ReallocSize * EntrySize
  /\ clusters' = <<first>>
  /\ progress' = "walk"
  /\ UNCHANGED <<fat, first>>

\* As StoreNext, were the count not incremented.
StoreInPlace ==
  /\ progress = "walk"
  /\ LET next == readFatEntry(CurrentCluster) IN
     /\ ~EndsChain(next)
     /\ clusters' = [clusters EXCEPT ![Len(clusters)] = next]
  /\ UNCHANGED <<fat, first, allocated, progress>>

StoreNext ==
  /\ progress = "walk"
  /\ LET next == readFatEntry(CurrentCluster) IN
     /\ ~EndsChain(next)
     /\ Fits(Len(clusters) + 1)
     /\ clusters' = Append(clusters, next)
     /\ allocated' = SizeAfterStore(Len(clusters) + 1)
  /\ UNCHANGED <<fat, first, progress>>

\* As StoreOutside, were a full array returned as it is.
ReturnFullArray ==
  /\ progress = "walk"
  /\ ~EndsChain(readFatEntry(CurrentCluster))
  /\ ~Fits(Len(clusters) + 1)
  /\ progress' = "done"
  /\ UNCHANGED <<fat, first, clusters, allocated>>

StoreOutside ==
  /\ progress = "walk"
  /\ ~EndsChain(readFatEntry(CurrentCluster))
  /\ ~Fits(Len(clusters) + 1)
  /\ progress' = "overrun"
  /\ UNCHANGED <<fat, first, clusters, allocated>>

ReturnList ==
  /\ progress = "walk"
  /\ EndsChain(readFatEntry(CurrentCluster))
  /\ progress' = "done"
  /\ UNCHANGED <<fat, first, clusters, allocated>>

CL_Next ==
  \/ ReturnEmpty
  \/ Allocate
  \/ StoreNext
  \/ StoreOutside
  \/ ReturnList

CL_Spec == CL_Init /\ [][CL_Next]_CL_vars /\ WF_CL_vars(CL_Next)

-----------------------------------------------------------------------------
(***************************************************************************)
(* Properties                                                              *)
(***************************************************************************)

\* What a caller relies on: the list starts at the entry's first cluster,
\* each further cluster is the one the FAT links to the cluster before it,
\* and a returned list stops exactly where the FAT ends the chain.
ListIsChain ==
  /\ progress = "walk" => clusters # << >>
  /\ clusters # << >> => clusters[1] = first
  /\ \A i \in 1 .. Len(clusters) - 1 :
       clusters[i + 1] = fat[clusters[i]] % EntryMod
  /\ progress = "done" =>
       /\ clusters # << >>
       /\ fat[clusters[Len(clusters)]] % EntryMod > EocThreshold

\* The array is left for a store at one length only, Capacity (1250 entries
\* for the code's 1000), and never at a shorter one: every shorter chain is
\* collected inside the memory the code owns.
OverrunOnlyAtCapacity ==
  /\ Len(clusters) <= Capacity
  /\ progress = "overrun" => Len(clusters) = Capacity

\* A list that is returned names no cluster twice: a FAT whose chain loops
\* never yields a list, it runs into the overrun instead.
ReturnedListHasNoLoop ==
  progress = "done" =>
    \A i, j \in 1 .. Len(clusters) : clusters[i] = clusters[j] => i = j

\* Once begun the walk ends on every FAT, looping ones included.
WalkEnds == progress = "walk" ~> progress \in {"done", "overrun"}
=============================================================================

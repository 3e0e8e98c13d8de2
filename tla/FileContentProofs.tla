------------------------- MODULE FileContentProofs --------------------------
(***************************************************************************)
(* Proofs about ClusterList and FileContent: where a file's clusters are   *)
(* and what is printed of them.                                            *)
(*                                                                         *)
(* ClusterList, for every FAT, first cluster and initial array size: what  *)
(* it returns is the chain, and it leaves the array at one length only.    *)
(*                                                                         *)
(* FileContent, for every block size and every set of files:               *)
(* type correctness, where the announcement stands, the order of what is   *)
(* printed, and that it ends where the file does.  The invariant for the   *)
(* order says of each byte printed that it lies before all blocks still to *)
(* come, and of the buffer that it is the block just read; the one for the *)
(* end, that the buffer holds no byte of a later block than that one; the  *)
(* one for completeness counts the blocks read so far.                     *)
(***************************************************************************)
EXTENDS ClusterList, FileContent, SequenceTheorems, TLAPS

(***************************************************************************)
(* The chain of clusters.                                                  *)
(***************************************************************************)
\* What relates the array's size to the number of clusters stored in it.
SizeInv ==
  /\ progress = "start" => clusters = << >> /\ allocated = 0
  /\ progress \in {"walk", "done", "overrun"} =>
       /\ Len(clusters) >= 1
       /\ allocated \in {4 * ReallocSize, 5 * ReallocSize}
       /\ Len(clusters) >= ReallocSize /\ Len(clusters) >= 2
            => allocated = 5 * ReallocSize
  /\ progress = "empty" => clusters = << >>
  /\ Len(clusters) * 4 <= allocated
  /\ progress = "overrun" => (Len(clusters) + 1) * 4 > allocated

ChainInv == CL_TypeOK /\ SizeInv /\ ListIsChain

\* A masked FAT entry that does not end the chain is a cluster number.
LEMMA EntryIsCluster ==
  ASSUME NEW w \in Nat, ~(w % EntryMod > EocThreshold)
  PROVE  w % EntryMod \in Cluster
  BY EntryModAssumption DEF Cluster, EocThreshold

LEMMA ChainInit == CL_Init => ChainInv
<1> SUFFICES ASSUME CL_Init PROVE ChainInv
  OBVIOUS
<1>1. CL_TypeOK
  BY FatsAssumption, FirstAssumption DEF CL_Init, CL_TypeOK
<1>2. SizeInv /\ ListIsChain
  BY DEF CL_Init, SizeInv, ListIsChain
<1> QED
  BY <1>1, <1>2 DEF ChainInv

\* Storing one more cluster keeps the type, the size relation and the chain.
LEMMA StoreNextChainInv ==
  ASSUME ChainInv, StoreNext
  PROVE  ChainInv'
<1> USE DEF ChainInv
<1> DEFINE next == fat[CurrentCluster] % EntryMod
<1>1. /\ progress = "walk" /\ progress' = "walk"
      /\ fat' = fat /\ first' = first
      /\ ~(next > EocThreshold)
      /\ (Len(clusters) + 1) * 4 <= allocated
      /\ clusters' = Append(clusters, next)
      /\ allocated' = IF Len(clusters) + 1 >= ReallocSize
                        THEN ReallocSize + ReallocSize * 4 ELSE allocated
  BY DEF StoreNext, readFatEntry, EndsChain, Fits, EntrySize, SizeAfterStore
<1>2. /\ Len(clusters) \in Nat /\ Len(clusters) >= 1
      /\ CurrentCluster \in Cluster
      /\ fat[CurrentCluster] \in Nat
  BY <1>1 DEF CL_TypeOK, SizeInv, CurrentCluster
<1>3. next \in Cluster
  BY <1>1, <1>2, EntryIsCluster
<1>4. /\ clusters' \in Seq(Cluster)
      /\ Len(clusters') = Len(clusters) + 1
      /\ \A k \in 1 .. Len(clusters) : clusters'[k] = clusters[k]
      /\ clusters'[Len(clusters) + 1] = next
  BY <1>1, <1>2, <1>3 DEF CL_TypeOK
<1>5. CL_TypeOK'
  BY <1>1, <1>4, ReallocAssumption DEF CL_TypeOK
<1>6. SizeInv'
  BY <1>1, <1>2, <1>4, ReallocAssumption DEF SizeInv, CL_TypeOK
<1>7. ListIsChain'
  <2>1. clusters'[1] = first'
    BY <1>1, <1>2, <1>4 DEF ListIsChain, SizeInv
  <2>2. ASSUME NEW k \in 1 .. Len(clusters') - 1
        PROVE  clusters'[k + 1] = fat'[clusters'[k]] % EntryMod
    <3>1. CASE k < Len(clusters)
      <4>1. clusters'[k + 1] = clusters[k + 1] /\ clusters'[k] = clusters[k]
        BY <3>1, <1>2, <1>4
      <4>2. clusters[k + 1] = fat[clusters[k]] % EntryMod
        BY <3>1, <1>2 DEF ListIsChain
      <4> QED
        BY <4>1, <4>2, <1>1
    <3>2. CASE k = Len(clusters)
      BY <3>2, <1>1, <1>2, <1>4 DEF CurrentCluster
    <3> QED
      BY <3>1, <3>2, <1>2, <1>4
  <2>3. clusters' # << >>
    BY <1>2, <1>4
  <2> QED
    BY <1>1, <2>1, <2>2, <2>3 DEF ListIsChain
<1> QED
  BY <1>5, <1>6, <1>7

LEMMA NextChainInv == ChainInv /\ [CL_Next]_CL_vars => ChainInv'
<1> SUFFICES ASSUME ChainInv, [CL_Next]_CL_vars PROVE ChainInv'
  OBVIOUS
<1> USE DEF ChainInv
<1>1. CASE ReturnEmpty
  BY <1>1 DEF ReturnEmpty, CL_TypeOK, SizeInv, ListIsChain
<1>2. CASE Allocate
  <2>1. first \in Cluster
    BY <1>2, EntryModAssumption
    DEF Allocate, EndsChain, Cluster, EocThreshold, CL_TypeOK
  <2>2. CL_TypeOK'
    BY <1>2, <2>1, ReallocAssumption DEF Allocate, CL_TypeOK, EntrySize
  <2>3. SizeInv'
    BY <1>2, <2>1, ReallocAssumption
    DEF Allocate, SizeInv, CL_TypeOK, EntrySize
  <2>4. ListIsChain'
    BY <1>2, <2>1 DEF Allocate, ListIsChain, CL_TypeOK
  <2> QED
    BY <2>2, <2>3, <2>4
<1>3. CASE StoreNext
  BY <1>3, StoreNextChainInv
<1>4. CASE StoreOutside
  <2>1. CL_TypeOK' /\ ListIsChain'
    BY <1>4 DEF StoreOutside, CL_TypeOK, ListIsChain
  <2>2. SizeInv'
    BY <1>4, ReallocAssumption
    DEF StoreOutside, SizeInv, CL_TypeOK, Fits, EntrySize
  <2> QED
    BY <2>1, <2>2
<1>5. CASE ReturnList
  <2>1. CL_TypeOK' /\ SizeInv'
    BY <1>5 DEF ReturnList, CL_TypeOK, SizeInv
  <2>2. ListIsChain'
    BY <1>5
    DEF ReturnList, ListIsChain, EndsChain, readFatEntry, CurrentCluster
  <2> QED
    BY <2>1, <2>2
<1>6. CASE UNCHANGED CL_vars
  BY <1>6 DEF CL_vars, CL_TypeOK, SizeInv, ListIsChain
<1> QED
  BY <1>1, <1>2, <1>3, <1>4, <1>5, <1>6 DEF CL_Next

LEMMA SpecChainInv == CL_Spec => []ChainInv
<1> QED
  BY ChainInit, NextChainInv, PTL DEF CL_Spec

-----------------------------------------------------------------------------

\* The variables of getClusterList keep their types on every FAT: in
\* particular every cluster it looks up or stores is at most the threshold.
THEOREM ClusterListTypeOK == CL_Spec => []CL_TypeOK
<1>1. ChainInv => CL_TypeOK
  BY DEF ChainInv
<1> QED
  BY <1>1, SpecChainInv, PTL

\* The list getClusterList returns is the chain of the file, complete and
\* in order, whatever the FAT holds.
THEOREM ClusterListIsChain == CL_Spec => []ListIsChain
<1>1. ChainInv => ListIsChain
  BY DEF ChainInv
<1> QED
  BY <1>1, SpecChainInv, PTL

\* getClusterList stores outside its array when the chain has more than
\* 5/4 of CLUSTER_LIST_REALLOC_SIZE clusters, and on no shorter chain.
THEOREM ClusterListOverrun == CL_Spec => []OverrunOnlyAtCapacity
<1>1. ChainInv => OverrunOnlyAtCapacity
  <2> SUFFICES ASSUME ChainInv PROVE OverrunOnlyAtCapacity
    OBVIOUS
  <2>1. /\ Len(clusters) \in Nat /\ allocated \in Nat
        /\ ReallocSize \in Nat \ {0}
    BY ReallocAssumption DEF ChainInv, CL_TypeOK
  <2>2. Len(clusters) * 4 <= allocated
    BY DEF ChainInv, SizeInv
  <2>3. CASE progress \in {"start", "empty"}
    <3>1. Len(clusters) = 0
      BY <2>3 DEF ChainInv, SizeInv
    <3> QED
      BY <2>3, <3>1, <2>1 DEF OverrunOnlyAtCapacity, Capacity, EntrySize
  <2>4. CASE progress \in {"walk", "done", "overrun"}
    BY <2>1, <2>2, <2>4
    DEF ChainInv, SizeInv, OverrunOnlyAtCapacity, Capacity, EntrySize
  <2> QED
    BY <2>3, <2>4 DEF ChainInv, CL_TypeOK
<1> QED
  BY <1>1, SpecChainInv, PTL

-----------------------------------------------------------------------------
(***************************************************************************)
(* A chain that comes back to one of its clusters goes round for ever.     *)
(* Said of a list: from two places with the same cluster on it has the     *)
(* same clusters, so that the last one stands at an earlier place too, and *)
(* the FAT links it to another one.                                        *)
(***************************************************************************)
Repeats ==
  \A a, b \in 1 .. Len(clusters) :
    a < b /\ clusters[a] = clusters[b] =>
      clusters[a + (Len(clusters) - b)] = clusters[Len(clusters)]

LEMMA StoreNextRepeats ==
  ASSUME ChainInv, Repeats, StoreNext
  PROVE  Repeats'
<1> DEFINE n == Len(clusters)
           next == fat[clusters[n]] % EntryMod
<1>1. /\ n \in Nat /\ n >= 1 /\ clusters \in Seq(Cluster)
      /\ clusters' = Append(clusters, next)
  BY DEF ChainInv, CL_TypeOK, SizeInv, StoreNext, readFatEntry, CurrentCluster
<1>2. /\ Len(clusters') = n + 1
      /\ \A a \in 1 .. n : clusters'[a] = clusters[a]
      /\ clusters'[n + 1] = next
  BY <1>1
<1> SUFFICES ASSUME NEW a \in 1 .. n + 1, NEW b \in 1 .. n + 1, a < b,
                    clusters'[a] = clusters'[b]
             PROVE  clusters'[a + (n + 1 - b)] = clusters'[n + 1]
  BY <1>2 DEF Repeats
<1>3. CASE b = n + 1
  <2>1. a + (n + 1 - b) = a
    BY <1>1, <1>3
  <2> QED
    BY <1>3, <2>1
<1>4. CASE b # n + 1
  <2>1. a \in 1 .. n /\ b \in 1 .. n /\ clusters[a] = clusters[b]
    BY <1>1, <1>2, <1>4
  <2>2. PICK k \in 1 .. n - 1 : k = a + (n - b)
    <3>1. a + (n - b) \in 1 .. n - 1
      BY <1>1, <2>1
    <3> QED
      BY <3>1
  <2>3. clusters[k] = clusters[n]
    BY <2>1, <2>2 DEF Repeats
  <2>4. clusters[k + 1] = fat[clusters[k]] % EntryMod
    BY <2>2 DEF ChainInv, ListIsChain
  <2>5. a + (n + 1 - b) = k + 1 /\ k + 1 \in 1 .. n
    BY <1>1, <2>1, <2>2
  <2> HIDE DEF n
  <2> QED
    BY <1>2, <2>3, <2>4, <2>5
<1> QED
  BY <1>3, <1>4

LEMMA NextRepeats == ChainInv /\ Repeats /\ [CL_Next]_CL_vars => Repeats'
<1> SUFFICES ASSUME ChainInv, Repeats, [CL_Next]_CL_vars PROVE Repeats'
  OBVIOUS
<1>1. CASE StoreNext
  BY <1>1, StoreNextRepeats
<1>2. CASE Allocate
  <2>1. clusters' = <<first>> /\ Len(clusters') = 1
    BY <1>2 DEF Allocate
  <2> QED
    BY <2>1 DEF Repeats
<1>3. CASE ReturnEmpty \/ StoreOutside \/ ReturnList \/ UNCHANGED CL_vars
  BY <1>3 DEF ReturnEmpty, StoreOutside, ReturnList, CL_vars, Repeats
<1> QED
  BY <1>1, <1>2, <1>3 DEF CL_Next

LEMMA NoLoopInList ==
  ASSUME ChainInv, Repeats
  PROVE  ReturnedListHasNoLoop
<1> DEFINE n == Len(clusters)
<1> SUFFICES ASSUME progress = "done", NEW a \in 1 .. n, NEW b \in 1 .. n,
                    a < b, clusters[a] = clusters[b]
             PROVE  FALSE
  <2>1. n \in Nat
    BY DEF ChainInv, CL_TypeOK
  <2> QED
    BY <2>1 DEF ReturnedListHasNoLoop
<1>1. n \in Nat /\ clusters \in Seq(Cluster)
  BY DEF ChainInv, CL_TypeOK
<1>2. PICK k \in 1 .. n - 1 : k = a + (n - b)
  <2>1. a + (n - b) \in 1 .. n - 1
    BY <1>1
  <2> QED
    BY <2>1
<1>3. clusters[k] = clusters[n]
  BY <1>2 DEF Repeats
<1>4. clusters[k + 1] = fat[clusters[n]] % EntryMod
  BY <1>2, <1>3 DEF ChainInv, ListIsChain
<1>5. clusters[k + 1] \in Cluster
  BY <1>1, <1>2
<1>6. fat[clusters[n]] % EntryMod > EocThreshold
  BY DEF ChainInv, ListIsChain
<1> QED
  BY <1>4, <1>5, <1>6, EntryModAssumption DEF Cluster, EocThreshold

\* Whatever loops the FAT has, a list that getClusterList returns names no
\* cluster twice: on a loop it goes on until it leaves its array.
THEOREM NoLoopReturned == CL_Spec => []ReturnedListHasNoLoop
<1>1. CL_Init => Repeats
  BY DEF CL_Init, Repeats
<1>2. CL_Spec => [](ChainInv /\ Repeats)
  BY <1>1, ChainInit, NextChainInv, NextRepeats, PTL DEF CL_Spec
<1> QED
  BY <1>2, NoLoopInList, PTL

(***************************************************************************)
(* What is printed of a file.                                              *)
(***************************************************************************)

LEMMA FileParts ==
  ASSUME NEW f \in Files
  PROVE  /\ f.fs \in {"FAT32", "EXT4"} /\ f.size \in Nat
         /\ f.extents \in Seq(Seq(Block))
         /\ Len(f.extents) \in Nat
         /\ \A e \in 1 .. Len(f.extents) :
              f.extents[e] \in Seq(Block) /\ Len(f.extents[e]) \in Nat
<1>1. f \in File
  BY FilesAssumption
<1>2. f.extents \in Seq(Seq(Block)) /\ f.size \in Nat /\ f.fs \in {"FAT32", "EXT4"}
  BY <1>1 DEF File
<1>3. /\ Len(f.extents) \in Nat
      /\ \A e \in 1 .. Len(f.extents) : f.extents[e] \in Seq(Block)
  BY <1>2, ElementOfSeq, LenProperties
<1>4. \A e \in 1 .. Len(f.extents) : Len(f.extents[e]) \in Nat
  BY <1>3, LenProperties
<1> QED
  BY <1>2, <1>3, <1>4

LEMMA BlockTyped ==
  ASSUME NEW f \in Files, NEW e \in 1 .. Len(f.extents),
         NEW b \in 1 .. Len(f.extents[e])
  PROVE  /\ f.extents[e][b] \in Block
         /\ f.extents[e][b].logical \in Nat
         /\ f.extents[e][b].zero \in BOOLEAN
         /\ f.extents[e][b].there \in 0 .. BlockSize
<1>1. f.extents[e][b] \in Block
  BY FileParts, ElementOfSeq
<1> QED
  BY <1>1 DEF Block

LEMMA InExtentTyped ==
  ASSUME TypeOK, InExtent
  PROVE  /\ i \in 1 .. Len(file.extents) /\ j \in 1 .. Len(file.extents[i])
         /\ file \in Files
         /\ BlockAt(i, j).logical \in Nat /\ BlockAt(i, j).zero \in BOOLEAN
         /\ BlockAt(i, j).there \in 0 .. BlockSize
<1>1. file \in Files /\ i \in 1 .. Len(file.extents) + 1 /\ j \in Nat \ {0}
  BY DEF TypeOK
<1>2. Len(file.extents) \in Nat
  BY <1>1, FileParts
<1>3. i \in 1 .. Len(file.extents)
  BY <1>1, <1>2 DEF InExtent
<1>4. Len(file.extents[i]) \in Nat
  BY <1>1, <1>3, FileParts
<1>5. j \in 1 .. Len(file.extents[i])
  BY <1>1, <1>4 DEF InExtent
<1> QED
  BY <1>1, <1>3, <1>5, BlockTyped DEF BlockAt

LEMMA UsedBelow ==
  ASSUME NEW s \in Nat, NEW b \in Nat \ {0}
  PROVE  s % b \in Nat /\ s % b < b
  BY Z3

LEMMA WrittenTyped ==
  ASSUME TypeOK, NEW e, NEW b
  PROVE  Written(e, b) \in 0 .. BlockSize
<1>1. file.size \in Nat
  BY FileParts DEF TypeOK
<1>2. UsedOfLast \in Nat /\ UsedOfLast < BlockSize
  BY <1>1, UsedBelow, BlockSizeAssumption DEF UsedOfLast
<1> QED
  BY <1>2, BlockSizeAssumption DEF Written

Byte == Nat \cup {Unset}

LEMMA WriteTyped ==
  ASSUME TypeOK, WriteBlock
  PROVE  /\ SubSeq(buffer, 1, Written(i, j)) \in Seq(Byte)
         /\ Len(SubSeq(buffer, 1, Written(i, j))) = Written(i, j)
         /\ \A n \in 1 .. Written(i, j) :
              SubSeq(buffer, 1, Written(i, j))[n] = buffer[n]
         /\ out' \in Seq(Byte)
<1>1. buffer \in [1 .. BlockSize -> Byte] /\ out \in Seq(Byte)
  BY DEF TypeOK, Byte
<1>2. Written(i, j) \in 0 .. BlockSize
  BY WrittenTyped
<1>3. buffer \in Seq(Byte) /\ Len(buffer) = BlockSize
  BY <1>1, BlockSizeAssumption
<1>4. /\ SubSeq(buffer, 1, Written(i, j)) \in Seq(Byte)
      /\ Len(SubSeq(buffer, 1, Written(i, j))) = Written(i, j)
      /\ \A n \in 1 .. Written(i, j) :
           SubSeq(buffer, 1, Written(i, j))[n] = buffer[n]
  BY <1>2, <1>3, BlockSizeAssumption, SubSeqProperties
<1>5. out' \in Seq(Byte)
  BY <1>1, <1>4, ConcatProperties DEF WriteBlock
<1> QED
  BY <1>4, <1>5

(***************************************************************************)
(* Types, and where the announcement stands.                               *)
(***************************************************************************)
Announced ==
  /\ pc = "found" => out = << >> /\ announced = Unset
  /\ pc \in {"read", "write", "exit"} =>
       announced = IF terminal THEN 0 ELSE Unset
  /\ pc = "done" => announced \in {0, Len(out)} /\ (terminal => announced = 0)

FileInv ==
  /\ TypeOK
  /\ pc = "write" => InExtent
  /\ Announced

LEMMA InitFile == Init => FileInv
<1> SUFFICES ASSUME Init PROVE FileInv
  OBVIOUS
<1>1. file \in Files /\ Len(file.extents) \in Nat
  BY FileParts DEF Init
<1>2. out \in Seq(Nat \cup {Unset})
  BY DEF Init
<1>3. buffer \in [1 .. BlockSize -> Nat \cup {Unset}]
  BY DEF Init
<1>4. i \in 1 .. Len(file.extents) + 1 /\ j \in Nat \ {0}
  BY <1>1 DEF Init
<1>5. zero \in BOOLEAN /\ terminal \in BOOLEAN
  BY Zenon DEF Init
<1>6. announced \in 0 .. Len(out) \cup {Unset}
  BY DEF Init
<1>7. TypeOK
  BY <1>1, <1>2, <1>3, <1>4, <1>5, <1>6 DEF Init, TypeOK
<1> QED
  BY <1>7 DEF Init, FileInv, Announced

LEMMA ReadTyped ==
  ASSUME FileInv, ReadBlock
  PROVE  FileInv'
<1>1. /\ BlockAt(i, j).logical \in Nat /\ BlockAt(i, j).zero \in BOOLEAN
      /\ BlockSize \in Nat
  BY InExtentTyped, BlockSizeAssumption DEF FileInv, ReadBlock
<1>2. ASSUME NEW n \in 1 .. BlockSize
      PROVE  BlockAt(i, j).logical * BlockSize + n - 1 \in Nat
  <2>1. BlockAt(i, j).logical * BlockSize \in Nat
    BY <1>1
  <2> QED
    BY <2>1
<1>3. buffer' \in [1 .. BlockSize -> Nat \cup {Unset}]
  BY <1>2 DEF ReadBlock, FileInv, TypeOK
<1>4. zero' \in BOOLEAN
  BY <1>1 DEF ReadBlock, FileInv, TypeOK
<1>5. InExtent'
  BY DEF ReadBlock, InExtent, reading
<1>6. TypeOK'
  BY <1>3, <1>4 DEF ReadBlock, reading, FileInv, TypeOK
<1>7. Announced'
  BY DEF ReadBlock, reading, FileInv, Announced
<1> QED
  BY <1>5, <1>6, <1>7 DEF FileInv

LEMMA WriteFile ==
  ASSUME FileInv, WriteBlock
  PROVE  FileInv'
<1>1. out' \in Seq(Nat \cup {Unset})
  BY WriteTyped DEF FileInv, Byte
<1>2. j' \in Nat \ {0} /\ pc' = "read" /\ pc = "write"
  BY DEF WriteBlock, FileInv, TypeOK
<1>3. announced' = IF terminal THEN 0 ELSE Unset
  BY <1>2 DEF WriteBlock, FileInv, Announced
<1>4. announced' \in 0 .. Len(out') \cup {Unset}
  BY <1>1, <1>3, LenProperties
<1>5. TypeOK'
  BY <1>1, <1>2, <1>4 DEF WriteBlock, FileInv, TypeOK
<1>6. Announced'
  BY <1>2, <1>3 DEF WriteBlock, Announced
<1> QED
  BY <1>2, <1>5, <1>6 DEF FileInv

LEMMA QuietFile ==
  ASSUME FileInv,
         Announce \/ SkipZero \/ GiveUp \/ NextExtent \/ Finish \/ Exit
           \/ UNCHANGED vars
  PROVE  FileInv'
<1>1. Len(file.extents) \in Nat /\ Len(out) \in Nat
  BY FileParts, LenProperties DEF FileInv, TypeOK
<1>2. CASE Announce
  <2>1. out = << >> /\ Len(out) = 0
    BY <1>2 DEF Announce, FileInv, Announced
  <2> QED
    BY <1>2, <2>1 DEF Announce, FlushedAtOnce, reading, FileInv, TypeOK, Announced
<1>3. CASE SkipZero
  BY <1>3 DEF SkipZero, FileInv, TypeOK, Announced
<1>4. CASE GiveUp
  BY <1>4 DEF GiveUp, reading, FileInv, TypeOK, Announced
<1>5. CASE NextExtent
  <2>1. i' \in 1 .. Len(file'.extents) + 1
    BY <1>1, <1>5 DEF NextExtent, ExtentsLeft, FileInv, TypeOK
  <2> QED
    BY <1>5, <2>1 DEF NextExtent, FileInv, TypeOK, Announced
<1>6. CASE Finish
  BY <1>6 DEF Finish, reading, FileInv, TypeOK, Announced
<1>7. CASE Exit
  BY <1>1, <1>7 DEF Exit, reading, FileInv, TypeOK, Announced, Unset
<1>8. CASE UNCHANGED vars
  BY <1>8 DEF vars, FileInv, TypeOK, Announced, InExtent
<1> QED
  BY <1>2, <1>3, <1>4, <1>5, <1>6, <1>7, <1>8

LEMMA NextFile == FileInv /\ [Next]_vars => FileInv'
  BY ReadTyped, WriteFile, QuietFile DEF Next

LEMMA SpecFile == Spec => []FileInv
  BY InitFile, NextFile, PTL DEF Spec

\* The place in the extents, the block buffer and what is printed are always
\* what the loops of catFAT32File and catEXT4File can have there.
THEOREM FileContentTypeOK == Spec => []TypeOK
<1>1. FileInv => TypeOK
  BY DEF FileInv
<1> QED
  BY <1>1, SpecFile, PTL

\* On a terminal the announcement stands in front of the content of every
\* file; elsewhere it comes in front of it or behind, and always comes.
THEOREM AnnouncementFirst == Spec => []AnnouncedFirst
<1>1. FileInv => AnnouncedFirst
  <2> SUFFICES ASSUME FileInv PROVE AnnouncedFirst
    OBVIOUS
  <2>1. pc \in {"found", "read", "write", "exit", "done"}
    BY DEF FileInv, TypeOK
  <2> QED
    BY <2>1 DEF FileInv, Announced, AnnouncedFirst
<1> QED
  BY <1>1, SpecFile, PTL

(***************************************************************************)
(* The order of what is printed.                                           *)
(***************************************************************************)
Logical(p) == file.extents[p[1]][p[2]].logical

\* The numbers printed grow, each of them lies before every block that is
\* still to come, and a block about to be written fills the buffer.
OrderInv ==
  Ordered(file) /\ WholeSoFar =>
    /\ \A a, b \in 1 .. Len(out) : a < b => out[a] < out[b]
    /\ pc \in {"read", "write"} =>
         \A p \in Positions(file) :
           ~Before(p, <<i, j>>) =>
             \A a \in 1 .. Len(out) : out[a] < Logical(p) * BlockSize
    /\ pc = "write" =>
         \A n \in 1 .. BlockSize :
           buffer[n] = BlockAt(i, j).logical * BlockSize + n - 1

LEMMA PositionTyped ==
  ASSUME NEW f \in Files, NEW p \in Positions(f)
  PROVE  /\ p = <<p[1], p[2]>>
         /\ p[1] \in 1 .. Len(f.extents) /\ p[1] \in Int
         /\ p[2] \in 1 .. Len(f.extents[p[1]]) /\ p[2] \in Int
         /\ f.extents[p[1]][p[2]].logical \in Nat
<1>1. PICK e \in 1 .. Len(f.extents) :
        p \in {e} \X (1 .. Len(f.extents[e]))
  BY DEF Positions
<1>2. p = <<p[1], p[2]>> /\ p[1] = e /\ p[2] \in 1 .. Len(f.extents[e])
  BY <1>1
<1>3. f.extents[p[1]][p[2]].logical \in Nat
  BY <1>2, BlockTyped
<1>4. Len(f.extents) \in Nat /\ Len(f.extents[e]) \in Nat
  BY FileParts
<1> QED
  BY <1>2, <1>3, <1>4

LEMMA PlaceIsPosition ==
  ASSUME TypeOK, InExtent
  PROVE  <<i, j>> \in Positions(file)
<1>1. i \in 1 .. Len(file.extents) /\ j \in 1 .. Len(file.extents[i])
  BY InExtentTyped
<1>2. <<i, j>> \in {i} \X (1 .. Len(file.extents[i]))
  BY <1>1
<1> QED
  BY <1>1, <1>2 DEF Positions

LEMMA BlockBelow ==
  ASSUME NEW x \in Nat, NEW y \in Nat, x < y, NEW b \in Nat \ {0},
         NEW n \in 1 .. b
  PROVE  x * b + n - 1 < y * b
<1>1. PICK d \in Nat : y = x + 1 + d
  <2>1. y - x - 1 \in Nat /\ y = x + 1 + (y - x - 1)
    OBVIOUS
  <2> QED
    BY <2>1
<1>2. y * b = x * b + b + d * b
  BY <1>1, Z3
<1>3. d * b \in Nat /\ x * b \in Nat
  BY <1>1
<1> QED
  BY <1>2, <1>3

\* Where all extents but the first have blocks, a block that is not the last
\* by IsLast has another one behind it.
LEMMA LaterPlace ==
  ASSUME TypeOK, InExtent, NoEmptyExtent(file), ~IsLast(i, j)
  PROVE  \E q \in Positions(file) : Before(<<i, j>>, q)
<1>1. /\ i \in 1 .. Len(file.extents) /\ j \in 1 .. Len(file.extents[i])
      /\ i \in Int /\ j \in Int /\ file \in Files
  BY InExtentTyped, FileParts
<1>2. /\ Len(file.extents) \in Nat /\ Len(file.extents[i]) \in Nat
      /\ \A e \in 1 .. Len(file.extents) : /\ Len(file.extents[e]) \in Nat
                                          /\ file.extents[e] \in Seq(Block)
  BY <1>1, FileParts
<1>3. \A e \in 1 .. Len(file.extents) :
        \A b \in 1 .. Len(file.extents[e]) : <<e, b>> \in Positions(file)
  BY DEF Positions
<1>4. CASE j < Len(file.extents[i])
  <2>1. j + 1 \in 1 .. Len(file.extents[i]) /\ Before(<<i, j>>, <<i, j + 1>>)
    BY <1>1, <1>2, <1>4 DEF Before
  <2> QED
    BY <1>1, <1>3, <2>1
<1>5. CASE j = Len(file.extents[i])
  <2>1. i + 1 \in 2 .. Len(file.extents) /\ Before(<<i, j>>, <<i + 1, 1>>)
    BY <1>1, <1>2, <1>5 DEF IsLast, Before
  <2>2. file.extents[i + 1] # << >> /\ file.extents[i + 1] \in Seq(Block)
    BY <1>2, <2>1 DEF NoEmptyExtent
  <2>3. 1 \in 1 .. Len(file.extents[i + 1])
    BY <2>2
  <2> QED
    BY <1>2, <1>3, <2>1, <2>3
<1> QED
  BY <1>1, <1>2, <1>4, <1>5

\* Going on to the next extent passes no block by.
LEMMA ExtentPassed ==
  ASSUME TypeOK, ~InExtent, NEW p \in Positions(file)
  PROVE  Before(p, <<i + 1, 1>>) <=> Before(p, <<i, j>>)
<1>1. file \in Files /\ j \in Nat \ {0} /\ i \in Int
  BY FileParts DEF TypeOK
<1>2. /\ p[1] \in 1 .. Len(file.extents) /\ p[1] \in Int
      /\ p[2] \in 1 .. Len(file.extents[p[1]]) /\ p[2] \in Int
      /\ Len(file.extents) \in Nat /\ Len(file.extents[p[1]]) \in Nat
  BY <1>1, PositionTyped, FileParts
<1>3. ASSUME p[1] = i
      PROVE  p[2] < j
  <2>1. i <= Len(file.extents)
    BY <1>2, <1>3
  <2>2. ~(j <= Len(file.extents[i]))
    BY <2>1 DEF InExtent
  <2> QED
    BY <1>1, <1>2, <1>3, <2>2
<1> QED
  BY <1>1, <1>2, <1>3 DEF Before

\* With each block read there is one more that the volume must have in full.
LEMMA WholeStays ==
  ASSUME TypeOK, file' = file, i' = i, j' = j, WholeSoFar', pc' # "read"
  PROVE  WholeSoFar
<1>1. file \in Files /\ i \in Int /\ j \in Int
  BY FileParts DEF TypeOK
<1>2. \A p \in Positions(file) :
        Before(p, <<i, j>>) => Before(p, <<i, j + 1>>)
  BY <1>1, PositionTyped DEF Before
<1>3. Place' = <<i, j + 1>> /\ Place \in {<<i, j>>, <<i, j + 1>>}
  BY DEF Place
<1> QED
  BY <1>2, <1>3 DEF WholeSoFar, Positions, Before

LEMMA ReadOrder ==
  ASSUME FileInv, OrderInv, ReadBlock
  PROVE  OrderInv'
<1> SUFFICES ASSUME Ordered(file), WholeSoFar'
             PROVE  /\ \A a, b \in 1 .. Len(out) : a < b => out[a] < out[b]
                    /\ \A p \in Positions(file) :
                         ~Before(p, <<i, j>>) =>
                           \A a \in 1 .. Len(out) :
                             out[a] < Logical(p) * BlockSize
                    /\ \A n \in 1 .. BlockSize :
                         buffer'[n] = BlockAt(i, j).logical * BlockSize + n - 1
  BY DEF ReadBlock, reading, OrderInv, Ordered, Positions, Before, Logical,
         BlockAt
<1>1. /\ file \in Files /\ i \in Int /\ j \in Int /\ pc = "read"
      /\ pc' = "write" /\ i' = i /\ j' = j /\ file' = file
  BY FileParts DEF FileInv, TypeOK, ReadBlock, reading
<1>2. Place = <<i, j>> /\ Place' = <<i, j + 1>>
  BY <1>1 DEF Place
<1>3. \A p \in Positions(file) :
        Before(p, <<i, j>>) => Before(p, <<i, j + 1>>)
  BY <1>1, PositionTyped DEF Before
<1>4. \A p \in Positions(file) :
        Before(p, <<i, j + 1>>) => file.extents[p[1]][p[2]].there = BlockSize
  BY <1>1, <1>2 DEF WholeSoFar
<1>5. WholeSoFar
  BY <1>2, <1>3, <1>4 DEF WholeSoFar
<1>6. <<i, j>> \in Positions(file)
  BY PlaceIsPosition DEF FileInv, ReadBlock
<1>7. Before(<<i, j>>, <<i, j + 1>>)
  BY <1>1 DEF Before
<1>8. BlockAt(i, j).there = BlockSize
  BY <1>4, <1>6, <1>7 DEF BlockAt
<1>9. \A n \in 1 .. BlockSize :
        buffer'[n] = BlockAt(i, j).logical * BlockSize + n - 1
  BY <1>8, BlockSizeAssumption DEF ReadBlock, Filled
<1> QED
  BY <1>1, <1>5, <1>9 DEF OrderInv

LEMMA WriteOrder ==
  ASSUME FileInv, OrderInv, WriteBlock
  PROVE  OrderInv'
<1> DEFINE w == Written(i, j)
           new == SubSeq(buffer, 1, w)
           here == BlockAt(i, j).logical
<1> SUFFICES ASSUME Ordered(file), WholeSoFar'
             PROVE  /\ \A a, b \in 1 .. Len(out') : a < b => out'[a] < out'[b]
                    /\ \A p \in Positions(file) :
                         ~Before(p, <<i, j + 1>>) =>
                           \A a \in 1 .. Len(out') :
                             out'[a] < Logical(p) * BlockSize
  BY DEF WriteBlock, OrderInv, Ordered, Positions, Before, Logical
<1>1. /\ file \in Files /\ i \in Int /\ j \in Int /\ pc = "write"
      /\ pc' = "read" /\ i' = i /\ j' = j + 1 /\ file' = file /\ InExtent
      /\ out' = out \o new
  BY FileParts DEF FileInv, TypeOK, WriteBlock
<1>2. WholeSoFar
  BY <1>1 DEF Place, WholeSoFar
<1>3. <<i, j>> \in Positions(file) /\ here \in Nat
  BY <1>1, PlaceIsPosition, InExtentTyped DEF FileInv
<1>4. here = Logical(<<i, j>>)
  BY DEF Logical, BlockAt
<1>5. /\ w \in 0 .. BlockSize /\ Len(new) = w /\ new \in Seq(Byte)
      /\ \A n \in 1 .. w : new[n] = buffer[n]
  BY WrittenTyped, WriteTyped DEF FileInv
<1>6. \A n \in 1 .. w : new[n] = here * BlockSize + n - 1 /\ n \in 1 .. BlockSize
  BY <1>1, <1>2, <1>5, BlockSizeAssumption DEF OrderInv
<1>7. /\ out \in Seq(Byte) /\ Len(out) \in Nat
      /\ \A a \in 1 .. Len(out) : out[a] \in Int
  <2>1. out \in Seq(Byte)
    BY DEF FileInv, TypeOK, Byte
  <2> QED
    BY <2>1, LenProperties, ElementOfSeq DEF Byte, Unset
<1>8. \A a \in 1 .. Len(out) : out[a] < here * BlockSize
  <2>1. ~Before(<<i, j>>, <<i, j>>)
    BY <1>1 DEF Before
  <2> QED
    BY <1>1, <1>2, <1>3, <1>4, <2>1 DEF OrderInv
<1>9. /\ Len(out') = Len(out) + w
      /\ \A a \in 1 .. Len(out) : out'[a] = out[a]
      /\ \A n \in 1 .. w : out'[Len(out) + n] = new[n]
  BY <1>1, <1>5, <1>7, ConcatProperties
<1>10. ASSUME NEW a \in 1 .. Len(out')
       PROVE  \/ a \in 1 .. Len(out) /\ out'[a] = out[a]
              \/ /\ a - Len(out) \in 1 .. w
                 /\ out'[a] = here * BlockSize + (a - Len(out)) - 1
  <2>1. CASE a <= Len(out)
    BY <1>7, <1>9, <2>1
  <2>2. CASE a > Len(out)
    <3>1. PICK n \in 1 .. w : a = Len(out) + n /\ n = a - Len(out)
      <4>1. a - Len(out) \in 1 .. w /\ a = Len(out) + (a - Len(out))
        BY <1>5, <1>7, <1>9, <2>2
      <4> QED
        BY <4>1
    <3> QED
      BY <1>6, <1>9, <3>1
  <2> QED
    BY <1>5, <1>7, <1>9, <2>1, <2>2
<1>11. \A a, b \in 1 .. Len(out') : a < b => out'[a] < out'[b]
  <2> SUFFICES ASSUME NEW a \in 1 .. Len(out'), NEW b \in 1 .. Len(out'), a < b
               PROVE  out'[a] < out'[b]
    OBVIOUS
  <2>1. here * BlockSize \in Nat
    BY <1>3, BlockSizeAssumption
  <2>2. \A c, d \in 1 .. Len(out) : c < d => out[c] < out[d]
    BY <1>2 DEF OrderInv
  <2>3. PICK h \in Nat : h = here * BlockSize
    BY <2>1
  <2>4. \A c \in 1 .. Len(out') :
          \/ c \in 1 .. Len(out) /\ out'[c] = out[c] /\ out[c] < h
          \/ c > Len(out) /\ out'[c] = h + (c - Len(out)) - 1
    BY <1>5, <1>7, <1>8, <1>10, <2>3
  <2> HIDE DEF here, w, new
  <2>5. CASE b \in 1 .. Len(out)
    BY <1>7, <1>9, <2>2, <2>5
  <2>6. CASE b > Len(out)
    <3>1. out'[b] = h + (b - Len(out)) - 1
      BY <1>7, <2>4, <2>6
    <3>2. CASE a \in 1 .. Len(out) /\ out'[a] = out[a] /\ out[a] < h
      BY <1>7, <1>9, <2>3, <2>6, <3>1, <3>2
    <3>3. CASE a > Len(out) /\ out'[a] = h + (a - Len(out)) - 1
      BY <1>7, <1>9, <2>3, <2>6, <3>1, <3>3
    <3> QED
      BY <2>4, <3>2, <3>3
  <2> QED
    BY <2>4, <2>5, <2>6
<1>12. ASSUME NEW p \in Positions(file), ~Before(p, <<i, j + 1>>),
              NEW a \in 1 .. Len(out')
       PROVE  out'[a] < Logical(p) * BlockSize
  <2>1. /\ p = <<p[1], p[2]>> /\ p[1] \in Int /\ p[2] \in Int
        /\ Logical(p) \in Nat
    BY <1>1, PositionTyped DEF Logical
  <2>2. Before(<<i, j>>, p) /\ ~Before(p, <<i, j>>)
    BY <1>1, <1>12, <2>1 DEF Before
  <2>3. here < Logical(p)
    BY <1>3, <1>4, <2>2 DEF Ordered, Logical
  <2>4. \A n \in 1 .. w : here * BlockSize + n - 1 < Logical(p) * BlockSize
    BY <1>3, <1>6, <2>1, <2>3, BlockBelow, BlockSizeAssumption
  <2>5. \A c \in 1 .. Len(out) : out[c] < Logical(p) * BlockSize
    BY <1>1, <1>2, <2>2 DEF OrderInv
  <2> HIDE DEF here, w, new
  <2> QED
    BY <1>10, <2>4, <2>5
<1> QED
  BY <1>11, <1>12

LEMMA QuietOrder ==
  ASSUME FileInv, OrderInv,
         Announce \/ SkipZero \/ GiveUp \/ NextExtent \/ Finish \/ Exit
           \/ UNCHANGED vars
  PROVE  OrderInv'
<1>1. /\ file \in Files /\ file' = file /\ i \in Int /\ j \in Int
      /\ out' = out /\ j \in Nat \ {0}
  BY FileParts
  DEF FileInv, TypeOK, Announce, SkipZero, GiveUp, NextExtent, Finish, Exit,
      reading, vars
<1>2. CASE Announce
  <2>1. out' = << >> /\ pc' = "read"
    BY <1>2 DEF Announce, FileInv, Announced
  <2>2. Len(out') = 0 /\ 1 .. Len(out') = {}
    BY <2>1
  <2> QED
    BY <2>1, <2>2 DEF OrderInv
<1>3. CASE SkipZero
  <2>1. pc = "write" /\ pc' = "read" /\ i' = i /\ j' = j + 1
    BY <1>3 DEF SkipZero
  <2>2. Place' = Place
    BY <2>1 DEF Place
  <2>3. \A p \in Positions(file) :
          ~Before(p, <<i, j + 1>>) => ~Before(p, <<i, j>>)
    BY <1>1, PositionTyped DEF Before
  <2> QED
    BY <1>1, <2>1, <2>2, <2>3
    DEF OrderInv, WholeSoFar, Ordered, Positions, Before, Logical
<1>4. CASE NextExtent
  <2>1. pc = "read" /\ pc' = "read" /\ i' = i + 1 /\ j' = 1 /\ ~InExtent
    BY <1>4 DEF NextExtent
  <2>2. \A p \in Positions(file) :
          Before(p, <<i + 1, 1>>) <=> Before(p, <<i, j>>)
    BY <2>1, ExtentPassed DEF FileInv
  <2>3. Place = <<i, j>> /\ Place' = <<i + 1, 1>>
    BY <2>1 DEF Place
  <2> QED
    BY <1>1, <2>1, <2>2, <2>3
    DEF OrderInv, WholeSoFar, Ordered, Positions, Before, Logical
<1>5. CASE GiveUp \/ Finish \/ Exit
  <2>1. /\ i' = i /\ j' = j /\ pc' \in {"exit", "done"}
        /\ pc \in {"read", "write", "exit"}
    BY <1>5 DEF GiveUp, Finish, Exit, reading
  <2>2. WholeSoFar' => WholeSoFar
    BY <1>1, <2>1, WholeStays DEF FileInv
  <2> QED
    BY <1>1, <2>1, <2>2 DEF OrderInv, Ordered, Positions, Before
<1>6. CASE UNCHANGED vars
  BY <1>6 DEF vars, OrderInv, WholeSoFar, Place, Ordered, Positions, Before,
              Logical, BlockAt
<1> QED
  BY <1>2, <1>3, <1>4, <1>5, <1>6

LEMMA InitOrder == Init => OrderInv
<1> SUFFICES ASSUME Init PROVE OrderInv
  OBVIOUS
<1>1. out = << >> /\ pc = "found"
  BY DEF Init
<1>2. 1 .. Len(out) = {}
  BY <1>1
<1> QED
  BY <1>1, <1>2 DEF OrderInv

LEMMA NextOrder == FileInv /\ OrderInv /\ [Next]_vars => OrderInv'
  BY ReadOrder, WriteOrder, QuietOrder DEF Next

\* Whatever the extents, the skipped clusters and the blocks that begin with
\* a 0 byte, the bytes printed come in the order of the file and none comes
\* twice, up to the first block that the volume does not have in full.
THEOREM PrintedInOrder == Spec => []InOrder
<1>1. Spec => [](FileInv /\ OrderInv)
  BY InitFile, NextFile, InitOrder, NextOrder, PTL DEF Spec
<1>2. FileInv /\ OrderInv => InOrder
  BY DEF OrderInv, InOrder
<1> QED
  BY <1>1, <1>2, PTL

(***************************************************************************)
(* What lies behind the end of the file.                                   *)
(***************************************************************************)
Regular ==
  Ordered(file) /\ Logicals(file) \subseteq Needed(file) /\ NoEmptyExtent(file)

\* The buffer never holds a byte of a later block than those to come, and
\* nothing printed lies beyond the size.
EndInv ==
  Regular =>
    /\ \A a \in 1 .. Len(out) : out[a] < file.size
    /\ pc \in {"found", "read", "write"} =>
         \A p \in Positions(file) :
           ~Before(p, <<i, j>>) =>
             \A n \in 1 .. BlockSize : buffer[n] <= Logical(p) * BlockSize + n - 1

LEMMA DivMod ==
  ASSUME NEW s \in Nat, NEW b \in Nat \ {0}
  PROVE  /\ s \div b \in Nat /\ s % b \in Nat /\ s % b < b
         /\ s = b * (s \div b) + (s % b)
  BY Z3

\* The bounds that the division gives, without the division.
LEMMA LastPlace ==
  ASSUME NEW s \in Nat, NEW b \in Nat \ {0}, NEW d \in Nat, NEW q \in Nat,
         NEW r \in Nat, NEW x \in Nat,
         b * d <= s + b - 1, s = b * q + r, r < b, x + 1 <= d
  PROVE  x * b + r <= s
<1>1. b * (x + 1) <= b * d
  BY Z3
<1>2. b * (x + 1) = b * x + b /\ b * x \in Nat /\ b * d \in Nat /\ b * q \in Nat
  BY Z3
<1>3. b * x < b * q + b
  BY <1>1, <1>2
<1>4. x <= q
  <2>1. SUFFICES ASSUME q + 1 <= x PROVE FALSE
    OBVIOUS
  <2>2. b * (q + 1) <= b * x
    BY <2>1, Z3
  <2>3. b * (q + 1) = b * q + b
    BY Z3
  <2> QED
    BY <1>2, <1>3, <2>2, <2>3
<1>5. b * x <= b * q /\ x * b = b * x
  BY <1>4, Z3
<1> QED
  BY <1>2, <1>5

LEMMA NeededBound ==
  ASSUME NEW s \in Nat, NEW b \in Nat \ {0}, NEW x \in 0 .. (s + b - 1) \div b - 1
  PROVE  x * b + (s % b) <= s
<1>1. PICK t \in Nat : t = s + b - 1
  OBVIOUS
<1>2. /\ t \div b \in Nat /\ t % b \in Nat
      /\ t = b * (t \div b) + (t % b)
  BY DivMod
<1>3. PICK d \in Nat : d = t \div b
  BY <1>2
<1>4. b * d \in Nat /\ b * d <= s + b - 1
  <2>1. b * d \in Nat
    BY Z3
  <2> QED
    BY <1>1, <1>2, <1>3, <2>1
<1>5. PICK q \in Nat : q = s \div b
  BY DivMod
<1>6. PICK r \in Nat : r = s % b
  BY DivMod
<1>7. r < b /\ s = b * q + r
  BY <1>5, <1>6, DivMod
<1>8. x \in Nat /\ x + 1 <= d
  BY <1>1, <1>3
<1>9. x * b + r <= s
  BY <1>4, <1>7, <1>8, LastPlace
<1> QED
  BY <1>6, <1>9

\* No byte of what WriteBlock takes from the buffer lies beyond the size.
LEMMA WrittenWithin ==
  ASSUME FileInv, EndInv, Regular, WriteBlock, NEW n \in 1 .. Written(i, j)
  PROVE  buffer[n] < file.size
<1> DEFINE here == BlockAt(i, j).logical
<1>1. /\ file \in Files /\ InExtent /\ pc = "write" /\ file.size \in Nat
      /\ buffer[n] \in Int
  <2>1. n \in 1 .. BlockSize
    BY WrittenTyped, BlockSizeAssumption DEF FileInv
  <2>2. /\ file \in Files /\ InExtent /\ pc = "write"
        /\ buffer \in [1 .. BlockSize -> Nat \cup {Unset}]
    BY DEF FileInv, TypeOK, WriteBlock
  <2>3. file.size \in Nat
    BY <2>2, FileParts
  <2>4. buffer[n] \in Nat \cup {Unset}
    BY <2>1, <2>2
  <2> HIDE DEF here
  <2> QED
    BY <2>2, <2>3, <2>4 DEF Unset
<1>2. /\ i \in 1 .. Len(file.extents) /\ j \in 1 .. Len(file.extents[i])
      /\ i \in Int /\ j \in Int /\ here \in Nat /\ <<i, j>> \in Positions(file)
  BY <1>1, InExtentTyped, PlaceIsPosition, FileParts DEF FileInv
<1>3. n \in 1 .. BlockSize /\ buffer[n] <= here * BlockSize + n - 1
  <2>1. n \in 1 .. BlockSize
    BY WrittenTyped, BlockSizeAssumption DEF FileInv
  <2>2. ~Before(<<i, j>>, <<i, j>>) /\ here = Logical(<<i, j>>)
    BY <1>2 DEF Before, BlockAt, Logical
  <2> QED
    BY <1>1, <1>2, <2>1, <2>2 DEF EndInv
<1>4. \A p \in Positions(file) : Logical(p) * BlockSize + UsedOfLast <= file.size
  <2> SUFFICES ASSUME NEW p \in Positions(file)
               PROVE  Logical(p) * BlockSize + UsedOfLast <= file.size
    OBVIOUS
  <2>1. Logical(p) \in Logicals(file)
    BY DEF Logical, Logicals, BlocksOf
  <2>2. Logical(p) \in 0 .. (file.size + BlockSize - 1) \div BlockSize - 1
    BY <2>1 DEF Regular, Needed
  <2> QED
    BY <1>1, <2>2, NeededBound, BlockSizeAssumption DEF UsedOfLast
<1>5. UsedOfLast \in Nat
  BY <1>1, UsedBelow, BlockSizeAssumption DEF UsedOfLast
<1>6. CASE IsLast(i, j)
  <2>1. n \in Int /\ n <= UsedOfLast
    BY <1>3, <1>5, <1>6 DEF Written
  <2>2. here * BlockSize + UsedOfLast <= file.size
    BY <1>2, <1>4 DEF Logical, BlockAt
  <2>3. here * BlockSize \in Nat
    BY <1>2, BlockSizeAssumption
  <2> HIDE DEF here
  <2> QED
    BY <1>1, <1>3, <1>5, <2>1, <2>2, <2>3
<1>7. CASE ~IsLast(i, j)
  <2>1. PICK q \in Positions(file) : Before(<<i, j>>, q)
    BY <1>1, <1>7, LaterPlace DEF FileInv, Regular
  <2>2. here < Logical(q) /\ Logical(q) \in Nat
    BY <1>1, <1>2, <2>1, PositionTyped DEF Regular, Ordered, Logical, BlockAt
  <2>3. here * BlockSize + n - 1 < Logical(q) * BlockSize
    BY <1>2, <1>3, <2>2, BlockBelow, BlockSizeAssumption
  <2>4. Logical(q) * BlockSize + UsedOfLast <= file.size
    BY <1>4
  <2>5. here * BlockSize \in Nat /\ Logical(q) * BlockSize \in Nat
    BY <1>2, <2>2, BlockSizeAssumption
  <2> HIDE DEF here
  <2> QED
    BY <1>1, <1>3, <1>5, <2>3, <2>4, <2>5
<1> QED
  BY <1>6, <1>7

LEMMA ReadEnd ==
  ASSUME FileInv, EndInv, ReadBlock
  PROVE  EndInv'
<1>1. /\ file' = file /\ i' = i /\ j' = j /\ out' = out /\ pc = "read"
      /\ file \in Files /\ InExtent /\ i \in Int /\ j \in Int
      /\ buffer \in [1 .. BlockSize -> Nat \cup {Unset}]
  BY FileParts DEF ReadBlock, reading, FileInv, TypeOK
<1> SUFFICES ASSUME Regular, NEW p \in Positions(file), ~Before(p, <<i, j>>),
                    NEW n \in 1 .. BlockSize
             PROVE  buffer'[n] <= Logical(p) * BlockSize + n - 1
  BY <1>1
  DEF EndInv, Regular, Ordered, Logicals, BlocksOf, Needed, NoEmptyExtent,
      Positions, Before, Logical
<1>2. /\ BlockAt(i, j).logical \in Nat /\ <<i, j>> \in Positions(file)
      /\ Logical(p) \in Nat
      /\ p = <<p[1], p[2]>> /\ p[1] \in Int /\ p[2] \in Int
  BY <1>1, InExtentTyped, PlaceIsPosition, PositionTyped DEF FileInv, Logical
<1>3. BlockAt(i, j).logical <= Logical(p)
  <2>1. CASE p = <<i, j>>
    BY <1>2, <2>1 DEF Logical, BlockAt
  <2>2. CASE p # <<i, j>>
    <3>1. Before(<<i, j>>, p)
      BY <1>1, <1>2, <2>2 DEF Before
    <3> QED
      BY <1>2, <3>1 DEF Regular, Ordered, Logical, BlockAt
  <2> QED
    BY <2>1, <2>2
<1>4. BlockAt(i, j).logical * BlockSize <= Logical(p) * BlockSize
  BY <1>2, <1>3, BlockSizeAssumption, Z3
<1>5. /\ BlockAt(i, j).logical * BlockSize \in Nat
      /\ Logical(p) * BlockSize \in Nat
  BY <1>2, BlockSizeAssumption
<1>6. buffer'[n] = IF Filled(BlockAt(i, j), n)
                     THEN BlockAt(i, j).logical * BlockSize + n - 1
                     ELSE buffer[n]
  BY DEF ReadBlock
<1>7. buffer[n] <= Logical(p) * BlockSize + n - 1
  BY <1>1 DEF EndInv
<1> QED
  BY <1>4, <1>5, <1>6, <1>7

LEMMA WriteEnd ==
  ASSUME FileInv, EndInv, WriteBlock
  PROVE  EndInv'
<1>1. /\ file' = file /\ i' = i /\ j' = j + 1 /\ buffer' = buffer
      /\ pc = "write" /\ file \in Files /\ i \in Int /\ j \in Int
      /\ out' = out \o SubSeq(buffer, 1, Written(i, j))
  BY FileParts DEF WriteBlock, FileInv, TypeOK
<1> SUFFICES ASSUME Regular
             PROVE  /\ \A a \in 1 .. Len(out') : out'[a] < file.size
                    /\ \A p \in Positions(file) :
                         ~Before(p, <<i, j + 1>>) =>
                           \A n \in 1 .. BlockSize :
                             buffer[n] <= Logical(p) * BlockSize + n - 1
  <2>1. Regular' <=> Regular
    BY <1>1 DEF Regular, Ordered, Logicals, BlocksOf, Needed, NoEmptyExtent,
      Positions, Before
  <2>2. Positions(file)' = Positions(file)
    BY <1>1 DEF Positions
  <2>3. \A p : Logical(p)' = Logical(p)
    BY <1>1 DEF Logical
  <2>4. \A p : Before(p, <<i, j>>)' <=> Before(p, <<i, j + 1>>)
    BY <1>1 DEF Before
  <2> HIDE DEF Before, Regular
  <2> QED
    BY <1>1, <2>1, <2>2, <2>3, <2>4 DEF EndInv
<1>2. \A p \in Positions(file) :
        ~Before(p, <<i, j + 1>>) => ~Before(p, <<i, j>>)
  BY <1>1, PositionTyped DEF Before
<1>3. \A p \in Positions(file) :
        ~Before(p, <<i, j + 1>>) =>
          \A n \in 1 .. BlockSize : buffer[n] <= Logical(p) * BlockSize + n - 1
  BY <1>1, <1>2 DEF EndInv
<1>4. ASSUME NEW a \in 1 .. Len(out')
      PROVE  out'[a] < file.size
  <2> DEFINE w == Written(i, j)
             new == SubSeq(buffer, 1, w)
  <2>1. /\ new \in Seq(Byte) /\ Len(new) = w /\ w \in Nat
        /\ \A n \in 1 .. w : new[n] = buffer[n]
    BY WriteTyped, WrittenTyped, BlockSizeAssumption DEF FileInv
  <2>2. out \in Seq(Byte) /\ Len(out) \in Nat
    BY LenProperties DEF FileInv, TypeOK, Byte
  <2>3. /\ Len(out') = Len(out) + w
        /\ \A c \in 1 .. Len(out) : out'[c] = out[c]
        /\ \A n \in 1 .. w : out'[Len(out) + n] = new[n]
    BY <1>1, <2>1, <2>2, ConcatProperties
  <2>4. CASE a <= Len(out)
    <3>1. a \in 1 .. Len(out)
      BY <2>2, <2>3, <2>4
    <3> QED
      BY <2>3, <3>1 DEF EndInv
  <2>5. CASE a > Len(out)
    <3>1. PICK n \in 1 .. w : a = Len(out) + n
      <4>1. a - Len(out) \in 1 .. w /\ a = Len(out) + (a - Len(out))
        BY <2>1, <2>2, <2>3, <2>5
      <4> QED
        BY <4>1
    <3>2. out'[a] = buffer[n]
      BY <2>1, <2>3, <3>1
    <3> QED
      BY <3>2, WrittenWithin
  <2> QED
    BY <2>1, <2>2, <2>3, <2>4, <2>5
<1> QED
  BY <1>3, <1>4

LEMMA QuietEnd ==
  ASSUME FileInv, EndInv,
         Announce \/ SkipZero \/ GiveUp \/ NextExtent \/ Finish \/ Exit
           \/ UNCHANGED vars
  PROVE  EndInv'
<1>1. /\ file \in Files /\ file' = file /\ i \in Int /\ j \in Int
      /\ out' = out /\ buffer' = buffer
  BY FileParts
  DEF FileInv, TypeOK, Announce, SkipZero, GiveUp, NextExtent, Finish, Exit,
      reading, vars
<1> SUFFICES ASSUME Regular, pc' \in {"found", "read", "write"}
             PROVE  /\ pc \in {"found", "read", "write"}
                    /\ \A p \in Positions(file) :
                         ~Before(p, <<i', j'>>) => ~Before(p, <<i, j>>)
  BY <1>1
  DEF EndInv, Regular, Ordered, Logicals, BlocksOf, Needed, NoEmptyExtent,
      Positions, Before, Logical
<1>2. CASE Announce \/ UNCHANGED vars
  BY <1>2 DEF Announce, reading, vars
<1>3. CASE SkipZero
  <2>1. \A p \in Positions(file) :
          ~Before(p, <<i, j + 1>>) => ~Before(p, <<i, j>>)
    BY <1>1, PositionTyped DEF Before
  <2> QED
    BY <1>3, <2>1 DEF SkipZero
<1>4. CASE NextExtent
  <2>1. \A p \in Positions(file) :
          Before(p, <<i, j>>) => Before(p, <<i + 1, 1>>)
    BY <1>1, PositionTyped DEF Before
  <2> QED
    BY <1>4, <2>1 DEF NextExtent
<1>5. CASE GiveUp \/ Finish \/ Exit
  BY <1>5 DEF GiveUp, Finish, Exit
<1> QED
  BY <1>2, <1>3, <1>4, <1>5

LEMMA InitEnd == Init => EndInv
<1> SUFFICES ASSUME Init, Regular PROVE EndInv
  BY DEF EndInv
<1>1. /\ 1 .. Len(out) = {} /\ file \in Files
      /\ buffer = [n \in 1 .. BlockSize |-> -1]
  BY DEF Init, Unset
<1>2. ASSUME NEW p \in Positions(file), NEW n \in 1 .. BlockSize
      PROVE  buffer[n] <= Logical(p) * BlockSize + n - 1
  <2>1. Logical(p) * BlockSize \in Nat /\ buffer[n] = -1
    BY <1>1, PositionTyped, BlockSizeAssumption DEF Logical
  <2> QED
    BY <2>1
<1> QED
  BY <1>1, <1>2 DEF EndInv

LEMMA NextEnd == FileInv /\ EndInv /\ [Next]_vars => EndInv'
  BY ReadEnd, WriteEnd, QuietEnd DEF Next

\* No byte that a volume's blocks hold behind the end of a file is printed,
\* whether or not the volume has all of them.
THEOREM NothingPrintedBeyondSize == Spec => []NothingBeyondSize
<1>1. Spec => [](FileInv /\ EndInv)
  BY InitFile, NextFile, InitEnd, NextEnd, PTL DEF Spec
<1>2. FileInv /\ EndInv => NothingBeyondSize
  BY DEF EndInv, Regular, NothingBeyondSize
<1> QED
  BY <1>1, <1>2, PTL

(***************************************************************************)
(* That all of a file is printed.                                          *)
(***************************************************************************)
Printable ==
  /\ Ordered(file) /\ Dense(file) /\ NoEmptyExtent(file) /\ UsedOfLast # 0
  /\ \A block \in BlocksOf(file) : ~block.zero
  /\ <<1, 1>> \in Positions(file) => file.extents[1][1].there > 0

\* The blocks of the file, and the length of the first b of them.
Blocks == (file.size + BlockSize - 1) \div BlockSize
Bytes(b) == IF b = Blocks THEN file.size ELSE b * BlockSize

\* The first b blocks are those that have been read.
Reached(b) ==
  \A p \in Positions(file) : Before(p, <<i, j>>) <=> Logical(p) < b

\* The bytes printed are those of the blocks read, none of which was taken
\* for one that begins with 0; where no read fell short, byte n is n - 1.
WholeInv ==
  Printable =>
    /\ pc = "found" => i = 1 /\ j = 1 /\ out = << >>
    /\ pc \in {"read", "write"} =>
         \E b \in 0 .. Blocks : Reached(b) /\ Len(out) = Bytes(b)
    /\ <<1, 1>> \in Positions(file) /\ (pc = "write" \/ <<i, j>> # <<1, 1>>) =>
         ~zero
    /\ pc \in {"exit", "done"} => Len(out) = file.size
    /\ WholeSoFar => \A n \in 1 .. Len(out) : out[n] = n - 1

LEMMA QuotientUnique ==
  ASSUME NEW b \in Nat \ {0}, NEW d \in Nat, NEW c \in Nat,
         NEW e \in Nat, NEW f \in Nat, e < b, f < b, b * d + e = b * c + f
  PROVE  d = c
<1>1. ASSUME NEW x \in Nat, NEW y \in Nat, NEW v \in Nat, NEW w \in Nat,
             v < b, b * x + v = b * y + w
      PROVE  y <= x
  <2>1. SUFFICES ASSUME x + 1 <= y PROVE FALSE
    OBVIOUS
  <2>2. b * (x + 1) <= b * y
    BY <2>1, Z3
  <2>3. b * (x + 1) = b * x + b /\ b * x \in Nat /\ b * y \in Nat
    BY Z3
  <2> QED
    BY <1>1, <2>2, <2>3
<1>2. d <= c /\ c <= d
  BY <1>1
<1> QED
  BY <1>2

\* Where the last block is filled in part there is one more than the whole
\* division gives.
LEMMA BlockCount ==
  ASSUME NEW s \in Nat, NEW b \in Nat \ {0}, s % b # 0
  PROVE  /\ (s + b - 1) \div b \in Nat \ {0}
         /\ s = ((s + b - 1) \div b - 1) * b + (s % b)
<1>1. PICK q \in Nat : q = s \div b
  BY DivMod
<1>2. PICK r \in Nat : r = s % b
  BY DivMod
<1>3. s = b * q + r /\ r < b /\ r # 0
  BY <1>1, <1>2, DivMod
<1>4. PICK t \in Nat : t = s + b - 1
  OBVIOUS
<1>5. PICK d \in Nat : d = t \div b
  BY DivMod
<1>6. PICK e \in Nat : e = t % b
  BY DivMod
<1>7. t = b * d + e /\ e < b
  BY <1>5, <1>6, DivMod
<1>8. PICK c \in Nat : c = q + 1
  OBVIOUS
<1>9. PICK f \in Nat : f = r - 1
  BY <1>3
<1>10. b * c = b * q + b /\ b * q \in Nat /\ b * c \in Nat /\ b * d \in Nat
  BY <1>8, Z3
<1>11. b * d + e = b * c + f /\ f < b
  BY <1>3, <1>4, <1>7, <1>9, <1>10
<1>12. d = c
  BY <1>7, <1>11, QuotientUnique
<1>13. s = (d - 1) * b + r /\ d # 0
  BY <1>3, <1>8, <1>12, Z3
<1> QED
  BY <1>2, <1>4, <1>5, <1>13

LEMMA BlocksTyped ==
  ASSUME FileInv, Printable
  PROVE  /\ file \in Files /\ i \in Nat \ {0} /\ j \in Nat \ {0}
         /\ file.size \in Nat /\ Len(file.extents) \in Nat
         /\ Blocks \in Nat \ {0} /\ UsedOfLast \in Nat
         /\ file.size = (Blocks - 1) * BlockSize + UsedOfLast
         /\ out \in Seq(Byte) /\ Len(out) \in Nat
<1>1. /\ file \in Files /\ i \in 1 .. Len(file.extents) + 1 /\ j \in Nat \ {0}
      /\ out \in Seq(Byte)
  BY DEF FileInv, TypeOK, Byte
<1>2. file.size \in Nat /\ Len(file.extents) \in Nat /\ Len(out) \in Nat
  BY <1>1, FileParts, LenProperties
<1>3. file.size % BlockSize # 0
  BY DEF Printable, UsedOfLast
<1>4. /\ Blocks \in Nat \ {0} /\ UsedOfLast \in Nat
      /\ file.size = (Blocks - 1) * BlockSize + UsedOfLast
  BY <1>2, <1>3, BlockCount, DivMod, BlockSizeAssumption DEF Blocks, UsedOfLast
<1> QED
  BY <1>1, <1>2, <1>4

\* A block of a file that has all of them stands at a place of its own.
LEMMA BlocksFound ==
  ASSUME FileInv, Printable
  PROVE  /\ \A p \in Positions(file) : Logical(p) \in 0 .. Blocks - 1
         /\ \A b \in 0 .. Blocks - 1 : \E p \in Positions(file) : Logical(p) = b
         /\ <<1, 1>> \in Positions(file) \/ file.fs = "EXT4"
<1>1. Logicals(file) = 0 .. Blocks - 1
  BY DEF Printable, Dense, Needed, Blocks
<1>2. \A p \in Positions(file) : Logical(p) \in Logicals(file)
  BY DEF Logical, Logicals, BlocksOf
<1>3. ASSUME NEW b \in Logicals(file)
      PROVE  \E p \in Positions(file) : Logical(p) = b
  BY DEF Logical, Logicals, BlocksOf
<1>4. ASSUME file.fs # "EXT4"
      PROVE  <<1, 1>> \in Positions(file)
  <2>1. file \in Files /\ Len(file.extents) = 1
    BY <1>4, BlocksTyped, FileParts, FilesAssumption
  <2>2. PICK p \in Positions(file) : Logical(p) = 0
    BY <1>1, <1>3, BlocksTyped
  <2>3. p[1] = 1 /\ p[2] \in 1 .. Len(file.extents[1]) /\ p[2] \in Int
    BY <2>1, PositionTyped
  <2>4. Len(file.extents[1]) \in Nat
    BY <2>1, FileParts
  <2>5. 1 \in 1 .. Len(file.extents[1]) /\ 1 \in 1 .. Len(file.extents)
    BY <2>1, <2>3, <2>4
  <2>6. <<1, 1>> \in {1} \X (1 .. Len(file.extents[1]))
    BY <2>5
  <2> QED
    BY <2>5, <2>6 DEF Positions
<1> QED
  BY <1>1, <1>2, <1>3, <1>4

\* The block that WriteBlock writes is the next one in the order of the file.
LEMMA BlockHere ==
  ASSUME FileInv, Printable, InExtent, NEW b \in 0 .. Blocks, Reached(b)
  PROVE  Logical(<<i, j>>) = b /\ b < Blocks
<1>1. /\ <<i, j>> \in Positions(file) /\ i \in Int /\ j \in Int
      /\ Blocks \in Nat /\ file \in Files
  BY PlaceIsPosition, BlocksTyped DEF FileInv
<1>2. Logical(<<i, j>>) \in 0 .. Blocks - 1
  BY <1>1, BlocksFound
<1>3. ~Before(<<i, j>>, <<i, j>>)
  BY <1>1 DEF Before
<1>4. ~(Logical(<<i, j>>) < b)
  BY <1>1, <1>3 DEF Reached
<1>5. b < Blocks /\ b \in 0 .. Blocks - 1
  BY <1>1, <1>2, <1>4
<1>6. PICK p \in Positions(file) : Logical(p) = b
  BY <1>5, BlocksFound
<1>7. ~Before(p, <<i, j>>)
  BY <1>6 DEF Reached
<1>8. p = <<p[1], p[2]>> /\ p[1] \in Int /\ p[2] \in Int
  BY <1>1, PositionTyped
<1>9. CASE p = <<i, j>>
  BY <1>5, <1>6, <1>9
<1>10. CASE p # <<i, j>>
  <2>1. Before(<<i, j>>, p)
    BY <1>1, <1>7, <1>8, <1>10 DEF Before
  <2>2. Logical(<<i, j>>) < b
    BY <1>1, <1>6, <2>1 DEF Printable, Ordered, Logical
  <2> QED
    BY <1>4, <2>2
<1> QED
  BY <1>9, <1>10

LEMMA ReadWhole ==
  ASSUME FileInv, WholeInv, ReadBlock
  PROVE  WholeInv'
<1>1. /\ file' = file /\ i' = i /\ j' = j /\ out' = out /\ pc = "read"
      /\ pc' = "write" /\ InExtent
      /\ zero' = IF Filled(BlockAt(i, j), 1) THEN BlockAt(i, j).zero ELSE zero
  BY DEF ReadBlock, reading
<1>2. Printable' <=> Printable
  BY <1>1 DEF Printable, Ordered, Dense, NoEmptyExtent, UsedOfLast, BlocksOf,
              Positions, Before, Needed, Logicals
<1> SUFFICES ASSUME Printable
             PROVE  /\ \E b \in 0 .. Blocks : Reached(b) /\ Len(out) = Bytes(b)
                    /\ <<1, 1>> \in Positions(file) => ~zero'
                    /\ WholeSoFar' => \A n \in 1 .. Len(out) : out[n] = n - 1
  BY <1>1, <1>2
  DEF WholeInv, Blocks, Bytes, Reached, Positions, Logical, Before
<1>3. \E b \in 0 .. Blocks : Reached(b) /\ Len(out) = Bytes(b)
  BY <1>1 DEF WholeInv
<1>4. ASSUME <<1, 1>> \in Positions(file)
      PROVE  ~zero'
  <2>1. <<i, j>> \in Positions(file) /\ BlockAt(i, j) \in BlocksOf(file)
    BY <1>1, PlaceIsPosition DEF FileInv, BlocksOf, BlockAt
  <2>2. ~BlockAt(i, j).zero
    BY <2>1 DEF Printable
  <2>3. CASE Filled(BlockAt(i, j), 1)
    BY <1>1, <2>2, <2>3
  <2>4. CASE ~Filled(BlockAt(i, j), 1)
    <3>1. /\ BlockAt(i, j).there \in 0 .. BlockSize /\ BlockSize \in Nat
          /\ ~(1 <= BlockAt(i, j).there)
      BY <1>1, <2>4, InExtentTyped, BlockSizeAssumption DEF Filled, FileInv
    <3>2. ~(BlockAt(i, j).there > 0)
      BY <3>1
    <3>3. <<i, j>> # <<1, 1>>
      BY <1>4, <3>2 DEF Printable, BlockAt
    <3>4. ~zero
      BY <1>4, <3>3 DEF WholeInv
    <3> QED
      BY <1>1, <2>4, <3>4
  <2> QED
    BY <2>3, <2>4
<1>5. WholeSoFar' => WholeSoFar
  <2>1. i \in Int /\ j \in Int /\ file \in Files
    BY BlocksTyped
  <2>2. Place = <<i, j>> /\ Place' = <<i, j + 1>>
    BY <1>1 DEF Place
  <2>3. \A p \in Positions(file) :
          Before(p, <<i, j>>) => Before(p, <<i, j + 1>>)
    BY <2>1, PositionTyped DEF Before
  <2> QED
    BY <1>1, <2>2, <2>3 DEF WholeSoFar, Positions, Before
<1>6. WholeSoFar => \A n \in 1 .. Len(out) : out[n] = n - 1
  BY DEF WholeInv
<1> QED
  BY <1>3, <1>4, <1>5, <1>6

\* After the last block there is none, after every other one there is.
LEMMA LastBlock ==
  ASSUME FileInv, Printable, InExtent, NEW b \in 0 .. Blocks, Reached(b)
  PROVE  IsLast(i, j) <=> b + 1 = Blocks
<1>1. /\ i \in 1 .. Len(file.extents) /\ j \in 1 .. Len(file.extents[i])
      /\ file \in Files /\ i \in Int /\ j \in Int
      /\ Len(file.extents) \in Nat /\ Len(file.extents[i]) \in Nat
      /\ <<i, j>> \in Positions(file) /\ Blocks \in Nat
  BY InExtentTyped, FileParts, PlaceIsPosition, BlocksTyped DEF FileInv
<1>2. Logical(<<i, j>>) = b /\ b < Blocks
  BY BlockHere
<1>3. ASSUME IsLast(i, j), b + 1 # Blocks
      PROVE  FALSE
  <2>1. b + 1 \in 0 .. Blocks - 1
    BY <1>1, <1>2, <1>3
  <2>2. PICK p \in Positions(file) : Logical(p) = b + 1
    BY <2>1, BlocksFound
  <2>3. /\ p = <<p[1], p[2]>> /\ p[1] \in 1 .. Len(file.extents) /\ p[1] \in Int
        /\ p[2] \in 1 .. Len(file.extents[p[1]]) /\ p[2] \in Int
    BY <1>1, PositionTyped
  <2>4. p = <<i, j>> \/ Before(p, <<i, j>>)
    BY <1>1, <1>3, <2>3 DEF IsLast, Before
  <2>5. Logical(p) = b \/ Logical(p) < b
    BY <1>2, <2>4 DEF Reached
  <2> QED
    BY <1>1, <2>2, <2>5
<1>4. ASSUME ~IsLast(i, j), b + 1 = Blocks
      PROVE  FALSE
  <2>1. PICK q \in Positions(file) : Before(<<i, j>>, q)
    BY <1>4, LaterPlace DEF Printable, FileInv
  <2>2. b < Logical(q)
    BY <1>1, <1>2, <2>1 DEF Printable, Ordered, Logical
  <2>3. Logical(q) \in 0 .. Blocks - 1
    BY BlocksFound
  <2> QED
    BY <1>1, <1>4, <2>2, <2>3
<1> QED
  BY <1>3, <1>4

LEMMA WriteWhole ==
  ASSUME FileInv, OrderInv, WholeInv, WriteBlock
  PROVE  WholeInv'
<1> DEFINE w == Written(i, j)
           new == SubSeq(buffer, 1, w)
<1>1. /\ file' = file /\ i' = i /\ j' = j + 1 /\ zero' = zero /\ pc = "write"
      /\ pc' = "read" /\ InExtent /\ out' = out \o new
  BY DEF WriteBlock, FileInv
<1>2. Printable' <=> Printable
  BY <1>1 DEF Printable, Ordered, Dense, NoEmptyExtent, UsedOfLast, BlocksOf,
              Positions, Before, Needed, Logicals
<1> SUFFICES ASSUME Printable
             PROVE  /\ \E b \in 0 .. Blocks :
                         /\ \A p \in Positions(file) :
                              Before(p, <<i, j + 1>>) <=> Logical(p) < b
                         /\ Len(out') = Bytes(b)
                    /\ <<1, 1>> \in Positions(file) => ~zero
                    /\ WholeSoFar' => \A n \in 1 .. Len(out') : out'[n] = n - 1
  BY <1>1, <1>2
  DEF WholeInv, Blocks, Bytes, Reached, Positions, Logical, Before
<1>3. /\ file \in Files /\ i \in Int /\ j \in Int /\ file.size \in Nat
      /\ Blocks \in Nat \ {0} /\ UsedOfLast \in Nat
      /\ file.size = (Blocks - 1) * BlockSize + UsedOfLast
      /\ out \in Seq(Byte) /\ Len(out) \in Nat /\ <<i, j>> \in Positions(file)
  BY <1>1, BlocksTyped, PlaceIsPosition DEF FileInv
<1>4. PICK b \in 0 .. Blocks : Reached(b) /\ Len(out) = Bytes(b)
  BY <1>1 DEF WholeInv
<1>5. /\ Logical(<<i, j>>) = b /\ b < Blocks
      /\ IsLast(i, j) <=> b + 1 = Blocks
  BY <1>1, <1>4, BlockHere, LastBlock
<1>6. b \in Nat /\ b + 1 \in 0 .. Blocks
  BY <1>3, <1>5
<1>7. Len(out) = b * BlockSize /\ b * BlockSize \in Nat /\ BlockSize \in Nat
  BY <1>3, <1>4, <1>5, <1>6, BlockSizeAssumption DEF Bytes
<1>8. /\ w \in 0 .. BlockSize /\ Len(new) = w /\ new \in Seq(Byte)
      /\ \A n \in 1 .. w : new[n] = buffer[n]
  BY WrittenTyped, WriteTyped DEF FileInv
<1>9. /\ Len(out') = Len(out) + w
      /\ \A n \in 1 .. Len(out) : out'[n] = out[n]
      /\ \A n \in 1 .. w : out'[Len(out) + n] = new[n]
  BY <1>1, <1>3, <1>8, ConcatProperties
<1>10. Len(out') = Bytes(b + 1)
  <2>1. CASE b + 1 = Blocks
    <3>1. w = UsedOfLast /\ b = Blocks - 1
      BY <1>3, <1>5, <1>6, <2>1 DEF Written
    <3> HIDE DEF w
    <3> QED
      BY <1>3, <1>7, <1>9, <2>1, <3>1 DEF Bytes
  <2>2. CASE b + 1 # Blocks
    <3>1. w = BlockSize
      BY <1>5, <2>2 DEF Written
    <3>2. (b + 1) * BlockSize = b * BlockSize + BlockSize
      BY <1>6, <1>7, Z3
    <3> HIDE DEF w
    <3> QED
      BY <1>7, <1>9, <2>2, <3>1, <3>2 DEF Bytes
  <2> QED
    BY <2>1, <2>2
<1>11. ASSUME NEW p \in Positions(file)
       PROVE  Before(p, <<i, j + 1>>) <=> Logical(p) < b + 1
  <2>1. /\ p = <<p[1], p[2]>> /\ p[1] \in Int /\ p[2] \in Int
        /\ Logical(p) \in Nat
    BY <1>3, PositionTyped DEF Logical
  <2>2. Before(p, <<i, j>>) <=> Logical(p) < b
    BY <1>4 DEF Reached
  <2>3. Before(p, <<i, j + 1>>) <=> Before(p, <<i, j>>) \/ p = <<i, j>>
    BY <1>3, <2>1 DEF Before
  <2>4. p # <<i, j>> => Before(p, <<i, j>>) \/ Before(<<i, j>>, p)
    BY <1>3, <2>1 DEF Before
  <2>5. Before(<<i, j>>, p) => b < Logical(p)
    BY <1>3, <1>5 DEF Printable, Ordered, Logical
  <2> QED
    BY <1>5, <1>6, <2>1, <2>2, <2>3, <2>4, <2>5
<1>12. <<1, 1>> \in Positions(file) => ~zero
  BY <1>1 DEF WholeInv
<1>13. ASSUME WholeSoFar', NEW n \in 1 .. Len(out')
       PROVE  out'[n] = n - 1
  <2>1. WholeSoFar
    BY <1>1, <1>13 DEF Place, WholeSoFar, Positions, Before
  <2>2. \A m \in 1 .. Len(out) : out[m] = m - 1
    BY <2>1 DEF WholeInv
  <2>3. \A m \in 1 .. BlockSize : buffer[m] = b * BlockSize + m - 1
    <3>1. BlockAt(i, j).logical = b
      BY <1>5 DEF BlockAt, Logical
    <3> QED
      BY <1>1, <2>1, <3>1 DEF OrderInv, Printable
  <2>4. CASE n <= Len(out)
    <3>1. n \in 1 .. Len(out)
      BY <1>3, <1>8, <1>9, <2>4
    <3> QED
      BY <1>9, <2>2, <3>1
  <2>5. CASE n > Len(out)
    <3>1. PICK m \in 1 .. w : n = Len(out) + m
      <4>1. n - Len(out) \in 1 .. w /\ n = Len(out) + (n - Len(out))
        BY <1>3, <1>8, <1>9, <2>5
      <4> QED
        BY <4>1
    <3>2. m \in 1 .. BlockSize /\ m \in Int
      BY <1>7, <1>8, <3>1
    <3>3. out'[n] = b * BlockSize + m - 1
      BY <1>8, <1>9, <2>3, <3>1, <3>2
    <3> HIDE DEF w, new
    <3> QED
      BY <1>7, <3>1, <3>2, <3>3
  <2> QED
    BY <1>3, <1>8, <1>9, <2>4, <2>5
<1> QED
  BY <1>6, <1>10, <1>11, <1>12, <1>13

LEMMA QuietWhole ==
  ASSUME FileInv, WholeInv,
         Announce \/ SkipZero \/ GiveUp \/ NextExtent \/ Finish \/ Exit
           \/ UNCHANGED vars
  PROVE  WholeInv'
<1>1. file' = file /\ out' = out /\ zero' = zero
  BY DEF Announce, SkipZero, GiveUp, NextExtent, Finish, Exit, reading, vars
<1>2. Printable' <=> Printable
  BY <1>1 DEF Printable, Ordered, Dense, NoEmptyExtent, UsedOfLast, BlocksOf,
              Positions, Before, Needed, Logicals
<1> SUFFICES ASSUME Printable
             PROVE  WholeInv'
  BY <1>2 DEF WholeInv
<1>3. /\ file \in Files /\ i \in Nat \ {0} /\ j \in Nat \ {0}
      /\ Len(file.extents) \in Nat /\ Blocks \in Nat \ {0}
  BY BlocksTyped
<1>4. CASE Announce
  <2>1. /\ pc = "found" /\ pc' = "read" /\ i' = i /\ j' = j
        /\ i = 1 /\ j = 1 /\ out = << >>
    BY <1>4 DEF Announce, reading, WholeInv
  <2>2. 0 \in 0 .. Blocks /\ Bytes(0) = 0 /\ Len(out) = 0 /\ 1 .. Len(out) = {}
    BY <1>3, <2>1, BlockSizeAssumption DEF Bytes
  <2>3. Reached(0)
    <3>1. \A p \in Positions(file) : ~(Logical(p) < 0)
      BY <1>3, BlocksFound
    <3>2. \A p \in Positions(file) : ~Before(p, <<1, 1>>)
      BY <1>3, PositionTyped DEF Before
    <3> QED
      BY <2>1, <3>1, <3>2 DEF Reached
  <2> QED
    BY <1>1, <2>1, <2>2, <2>3
    DEF WholeInv, Blocks, Bytes, Reached, Positions, Logical, Before
<1>5. CASE SkipZero \/ GiveUp
  <2>1. pc = "write" /\ InExtent
    BY <1>5 DEF SkipZero, GiveUp, FileInv
  <2>2. <<i, j>> \in Positions(file) /\ zero
    BY <1>5, <2>1, PlaceIsPosition
    DEF FileInv, SkipZero, GiveUp, Skipped, GivesUp
  <2>3. <<1, 1>> \in Positions(file)
    <3>1. CASE SkipZero
      BY <3>1, BlocksFound DEF SkipZero, Skipped
    <3>2. CASE GiveUp
      BY <2>2, <3>2 DEF GiveUp, GivesUp
    <3> QED
      BY <1>5, <3>1, <3>2
  <2> QED
    BY <2>1, <2>2, <2>3 DEF WholeInv
<1>6. CASE NextExtent
  <2>1. /\ pc = "read" /\ pc' = "read" /\ i' = i + 1 /\ j' = 1 /\ ~InExtent
    BY <1>6 DEF NextExtent
  <2>2. \A p \in Positions(file) :
          Before(p, <<i + 1, 1>>) <=> Before(p, <<i, j>>)
    BY <2>1, ExtentPassed DEF FileInv
  <2>3. \E b \in 0 .. Blocks : /\ \A p \in Positions(file) :
                                   Before(p, <<i + 1, 1>>) <=> Logical(p) < b
                              /\ Len(out) = Bytes(b)
    BY <2>1, <2>2 DEF WholeInv, Reached
  <2>4. <<1, 1>> \in Positions(file) => ~zero
    <3>1. <<i, j>> = <<1, 1>> => <<1, 1>> \notin Positions(file)
      <4>1. SUFFICES ASSUME i = 1, j = 1, <<1, 1>> \in Positions(file)
                     PROVE  FALSE
        OBVIOUS
      <4>2. 1 \in 1 .. Len(file.extents) /\ 1 \in 1 .. Len(file.extents[1])
        BY <1>3, <4>1, PositionTyped
      <4>3. Len(file.extents[1]) \in Nat
        BY <1>3, <4>2, FileParts
      <4> QED
        BY <1>3, <2>1, <4>1, <4>2, <4>3 DEF InExtent
    <3> QED
      BY <3>1 DEF WholeInv
  <2>5. WholeSoFar' => WholeSoFar
    <3>1. Place = <<i, j>> /\ Place' = <<i + 1, 1>>
      BY <2>1 DEF Place
    <3> QED
      BY <1>1, <2>2, <3>1 DEF WholeSoFar, Positions, Before
  <2> QED
    BY <1>1, <2>1, <2>3, <2>4, <2>5
    DEF WholeInv, Blocks, Bytes, Reached, Positions, Logical, Before
<1>7. CASE Finish
  <2>1. /\ pc = "read" /\ pc' = "exit" /\ i' = i /\ j' = j /\ ~ExtentsLeft
    BY <1>7 DEF Finish, reading
  <2>2. PICK b \in 0 .. Blocks : Reached(b) /\ Len(out) = Bytes(b)
    BY <2>1 DEF WholeInv
  <2>3. \A p \in Positions(file) : Before(p, <<i, j>>)
    BY <1>3, <2>1, PositionTyped DEF ExtentsLeft, Before
  <2>4. b = Blocks
    <3>1. SUFFICES ASSUME b # Blocks PROVE FALSE
      OBVIOUS
    <3>2. b \in 0 .. Blocks - 1
      BY <1>3, <3>1
    <3>3. PICK p \in Positions(file) : Logical(p) = b
      BY <3>2, BlocksFound
    <3> QED
      BY <2>2, <2>3, <3>2, <3>3 DEF Reached
  <2>5. Len(out) = file.size
    BY <2>2, <2>4 DEF Bytes
  <2>6. <<1, 1>> \in Positions(file) /\ <<i, j>> # <<1, 1>> => ~zero
    BY DEF WholeInv
  <2>7. WholeSoFar' => \A n \in 1 .. Len(out) : out[n] = n - 1
    BY <1>1, <1>3, <2>1, WholeStays DEF WholeInv, FileInv
  <2> QED
    BY <1>1, <2>1, <2>5, <2>6, <2>7 DEF WholeInv, Positions
<1>8. CASE Exit
  <2>1. pc = "exit" /\ pc' = "done" /\ i' = i /\ j' = j
    BY <1>8 DEF Exit, reading
  <2>2. WholeSoFar' => WholeSoFar
    BY <1>1, <2>1 DEF WholeSoFar, Place, Positions, Before
  <2> QED
    BY <1>1, <2>1, <2>2 DEF WholeInv, Positions
<1>9. CASE UNCHANGED vars
  BY <1>9
  DEF vars, WholeInv, Printable, Blocks, Bytes, Reached, Positions, Logical,
      Before, WholeSoFar, Place
<1> QED
  BY <1>4, <1>5, <1>6, <1>7, <1>8, <1>9

LEMMA InitWhole == Init => WholeInv
<1> SUFFICES ASSUME Init PROVE WholeInv
  OBVIOUS
<1>1. out = << >> /\ pc = "found" /\ i = 1 /\ j = 1
  BY DEF Init
<1>2. 1 .. Len(out) = {}
  BY <1>1
<1> QED
  BY <1>1, <1>2 DEF WholeInv

LEMMA NextWhole ==
  FileInv /\ OrderInv /\ WholeInv /\ [Next]_vars => WholeInv'
  BY ReadWhole, WriteWhole, QuietWhole DEF Next

\* A file with all its blocks in order, the last of them in the last extent
\* and filled in part, is printed from the first byte to the last: in full
\* length as soon as the volume has the first byte of all, and byte for byte
\* where the volume has all of them.
THEOREM WholeFilePrinted == Spec => []PrintedWhole
<1>1. Spec => [](FileInv /\ OrderInv /\ WholeInv)
  BY InitFile, NextFile, InitOrder, NextOrder, InitWhole, NextWhole, PTL DEF Spec
<1>2. FileInv /\ WholeInv => PrintedWhole
  <2> SUFFICES ASSUME FileInv, WholeInv,
                      pc = "done", Ordered(file), Dense(file),
                      NoEmptyExtent(file), UsedOfLast # 0,
                      \A block \in BlocksOf(file) : ~block.zero
               PROVE  /\ file.extents[1][1].there > 0 => Len(out) = file.size
                      /\ WholeSoFar => out = [n \in 1 .. file.size |-> n - 1]
    BY DEF PrintedWhole
  <2>1. file.extents[1][1].there > 0 => Printable
    BY DEF Printable
  <2>2. file.extents[1][1].there > 0 => Len(out) = file.size
    BY <2>1 DEF WholeInv
  <2>3. ASSUME WholeSoFar
        PROVE  out = [n \in 1 .. file.size |-> n - 1]
    <3>1. /\ file \in Files /\ i \in 1 .. Len(file.extents) + 1
          /\ j \in Nat \ {0} /\ out \in Seq(Byte)
      BY DEF FileInv, TypeOK, Byte
    <3>2. Len(file.extents) \in Nat /\ i \in Nat \ {0}
      BY <3>1, FileParts
    <3>3. Place = <<i, j + 1>> /\ Before(<<1, 1>>, <<i, j + 1>>)
      BY <3>1, <3>2 DEF Place, Before
    <3>4. <<1, 1>> \in Positions(file) => file.extents[1][1].there = BlockSize
      BY <2>3, <3>3 DEF WholeSoFar
    <3>5. Printable
      BY <3>4, BlockSizeAssumption DEF Printable
    <3>6. Len(out) = file.size /\ \A n \in 1 .. Len(out) : out[n] = n - 1
      BY <2>3, <3>5 DEF WholeInv
    <3>7. out = [n \in 1 .. Len(out) |-> out[n]]
      BY <3>1
    <3> QED
      BY <3>6, <3>7
  <2> QED
    BY <2>2, <2>3
<1> QED
  BY <1>1, <1>2, PTL
=============================================================================

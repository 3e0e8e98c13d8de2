---------------------------- MODULE Fat32Search ----------------------------
(***************************************************************************)
(* The searches of fs_utils/fat32.c over the directories of a volume:      *)
(* FAT32_searchInDirectory (mode "root"), FAT32_searchRecursivelyInDirectory *)
(* for -deepsearch and -show (mode "volume", isSearch true) and for the    *)
(* commands that edit (mode "edit", isSearch false).                       *)
(*                                                                         *)
(* The recursion's activation records are the stack; one step reads one    *)
(* directory entry, or starts the next cluster, or returns from a call.    *)
(* Where the code goes on to read outside the volume, to follow a pointer  *)
(* it never set or to exhaust its stack, the machine stops as "stray".     *)
(***************************************************************************)
EXTENDS Fat32Tree

CONSTANTS
  Volumes,   \* the volumes searched
  Targets,   \* the names searched for
  MaxDepth   \* the calls the process' stack has room for

ASSUME VolumesAssumption == Volumes \subseteq Volume
ASSUME TargetsAssumption == Targets \subseteq Seq(Text)
ASSUME MaxDepthAssumption == MaxDepth \in Nat \ {0}

Mode == {"root", "volume", "edit"}

VARIABLES
  vol, target, mode,  \* the arguments: the searches never write the volume
  stack,   \* the calls: cluster list, loop counters, currentPosition
  pos,     \* the position of the file descriptor
  pc,
  found    \* the position of the entry returned

arguments == <<vol, target, mode>>
vars == <<vol, target, mode, stack, pos, pc, found>>

(***************************************************************************)
(* i is the number of clusters started; j counts the entries read in the   *)
(* current one, and is SlotsPerCluster between clusters.  back is the      *)
(* position the caller restores when the call returns null.                *)
(***************************************************************************)
Frame == [list : Seq(ClusterNumber), i : Nat, j : 0 .. SlotsPerCluster,
          back : Nat]

TypeOK ==
  /\ vol \in Volume
  /\ target \in Targets
  /\ mode \in Mode
  /\ stack \in Seq(Frame)
  /\ pos \in Nat
  /\ pc \in {"scan", "found", "missing", "stray"}
  /\ found \in Nat

isSearch == mode # "edit"

Top == stack[Len(stack)]

\* The value of j at which the inner loop is left.
ClusterOvershot == SlotsPerCluster + 1

ClusterDone == SlotsPerCluster

Call(c, position) ==
  [list |-> getClusterList(vol, c), i |-> 0, j |-> ClusterDone,
   back |-> position]

Init ==
  /\ vol \in Volumes
  /\ target \in Targets
  /\ mode \in Mode
  /\ stack = <<Call(vol.root, 0)>>
  /\ pos = 0
  /\ pc = "scan"
  /\ found = 0

\* The frame f with its loop counters at i and j.
Counting(f, i, j) ==
  [list |-> f.list, i |-> i, j |-> j, back |-> f.back]

SetTop(f) == [stack EXCEPT ![Len(stack)] = f]

-----------------------------------------------------------------------------
(***************************************************************************)
(* The loop over the clusters of the directory.                            *)
(***************************************************************************)
BetweenClusters == pc = "scan" /\ Top.j = SlotsPerCluster

NextCluster ==
  /\ BetweenClusters
  /\ Top.i < Len(Top.list)
  /\ stack' = SetTop(Counting(Top, Top.i + 1, 0))
  /\ pos' = seekToCluster(Top.list[Top.i + 1])
  /\ UNCHANGED <<arguments, pc, found>>

PositionKept(frame) == pos
PositionRestored(frame) == frame.back

LeaveDirectory ==
  /\ BetweenClusters
  /\ Top.i = Len(Top.list)
  /\ Len(stack) > 1
  /\ pos' = PositionRestored(Top)
  /\ stack' = SubSeq(stack, 1, Len(stack) - 1)
  /\ UNCHANGED <<arguments, pc, found>>

ReportMissing ==
  /\ BetweenClusters
  /\ Top.i = Len(Top.list)
  /\ Len(stack) = 1
  /\ pc' = "missing"
  /\ UNCHANGED <<arguments, stack, pos, found>>

-----------------------------------------------------------------------------
(***************************************************************************)
(* The loop over the entries of a cluster.                                 *)
(***************************************************************************)
Reading == pc = "scan" /\ Top.j < SlotsPerCluster /\ pos \in 0 .. LastSlot

File == getFAT32File(vol, pos)

GoesDown(f) == mode # "root" /\ IsSubdirectory(f)

IsMatch(f) ==
  /\ mode = "root" => ~IsSubdirectory(f)
  /\ Matches(f, target, isSearch)

\* The entry is done with: the for loop counts one slot, whatever the number
\* of slots the entry takes.
Advance ==
  /\ stack' = SetTop(Counting(Top, Top.i, Top.j + 1))
  /\ pos' = File.next
  /\ UNCHANGED <<arguments, pc, found>>

SkipEntry == Reading /\ File.kind = "null" /\ Advance

EndCluster ==
  /\ Reading
  /\ File.kind = "last"
  /\ stack' = SetTop(Counting(Top, Top.i, ClusterDone))
  /\ UNCHANGED <<arguments, pos, pc, found>>

Descend ==
  /\ Reading
  /\ File.kind = "file"
  /\ GoesDown(File)
  /\ getClusterList(vol, File.clus) # << >>
  /\ Len(stack) < MaxDepth
  /\ stack' = Append(SetTop(Counting(Top, Top.i, Top.j + 1)),
                     Call(File.clus, File.next))
  /\ pos' = File.next
  /\ UNCHANGED <<arguments, pc, found>>

PassOver ==
  /\ Reading
  /\ File.kind = "file"
  /\ ~GoesDown(File)
  /\ ~IsMatch(File)
  /\ Advance

Match ==
  /\ Reading
  /\ File.kind = "file"
  /\ ~GoesDown(File)
  /\ IsMatch(File)
  /\ pc' = "found"
  /\ found' = File.home
  /\ UNCHANGED <<arguments, stack, pos>>

NothingToCall ==
  /\ File.kind = "file"
  /\ GoesDown(File)
  /\ getClusterList(vol, File.clus) = << >> \/ Len(stack) = MaxDepth

GoesAstray ==
  pos \in 0 .. LastSlot => File.kind = "beyond" \/ NothingToCall

Stray ==
  /\ pc = "scan"
  /\ Top.j < SlotsPerCluster
  /\ GoesAstray
  /\ pc' = "stray"
  /\ UNCHANGED <<arguments, stack, pos, found>>

Next ==
  \/ NextCluster
  \/ LeaveDirectory
  \/ ReportMissing
  \/ SkipEntry
  \/ EndCluster
  \/ Descend
  \/ PassOver
  \/ Match
  \/ Stray

Spec == Init /\ [][Next]_vars /\ WF_vars(Next)

-----------------------------------------------------------------------------
(***************************************************************************)
(* Properties                                                              *)
(***************************************************************************)

\* The data area is small enough for seekToCluster's 32 bit product.
Addressable == (LastCluster - 1) * SlotsPerCluster <= OffsetMod

CurrentCluster == Top.list[Top.i]

InCurrentCluster ==
  /\ Top.i \in 1 .. Len(Top.list)
  /\ pos >= ClusterBase(CurrentCluster)
  /\ pos < ClusterBase(CurrentCluster) + SlotsPerCluster

ReadingEntry == pc = "scan" /\ Top.j < SlotsPerCluster

\* On a volume whose long names leave room in their clusters the searches
\* never read outside the cluster they are in: the loop's count of one slot
\* for each entry does no harm there, nor does the position restored after
\* a subdirectory.
RoomyScanInCluster ==
  Addressable /\ Roomy(vol) /\ DirectoriesInData(vol) /\ ReadingEntry
    => InCurrentCluster

\* What the comment on getFAT32File assumes of the descriptor: it is at an
\* entry of the directory that is being searched.
AtDirectoryEntry ==
  ReadingEntry =>
    pos \in { SlotPosition(Top.list, k) :
                k \in 1 .. Len(Top.list) * SlotsPerCluster }

Wanted == IF mode = "root" THEN {vol.root} ELSE Directories(vol)

Candidates ==
  { e \in Files(vol, Wanted) : e.name = target
                               /\ (isSearch => "hidden" \notin e.attrs) }

\* No file that is listed under the name, and that may be shown, is missed,
\* also where the scan reads on into the next cluster: except files whose
\* short name has an extension of one character, and on volumes where a long
\* name is split between clusters that are not neighbours.
NothingMissed ==
  pc = "missing" /\ Unsplit(vol) => \A e \in Candidates : e.cut

\* A file that is found is one a directory lists under the name asked for: no
\* directory, no label, no erased entry, none that a search of visible files
\* should not show, none of another directory's leftovers.  Of several in that
\* directory it is the first, so a command always reads and edits the same.
FoundIsFirst ==
  Roomy(vol) /\ pc = "found" =>
    \E c \in Wanted : \E e \in Candidates \cap Entries(vol, c) :
      /\ e.home = found
      /\ \A f \in Candidates \cap Entries(vol, c) : ~f.cut => e.order <= f.order

\* Every search of a volume with room in its clusters ends with an answer.
SearchAnswers == Roomy(vol) ~> pc \in {"found", "missing"}
=============================================================================

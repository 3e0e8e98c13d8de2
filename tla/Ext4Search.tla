----------------------------- MODULE Ext4Search -----------------------------
(***************************************************************************)
(* searchInDirectory (-search, mode "root") and searchRecursivelyInDirectory *)
(* (the other commands, mode "volume") of fs_utils/ext4.c.  Every call has *)
(* a block buffer of its own, so what it reads of a block stays what it is *)
(* while subdirectories are searched.                                      *)
(*                                                                         *)
(* One step reads one entry, starts the next block or returns from a call; *)
(* where the process' stack is exhausted the machine stops as "stray".     *)
(***************************************************************************)
EXTENDS Ext4Tree

CONSTANTS
  Volumes,    \* the volumes searched
  Targets,    \* the names searched for
  MaxDepth    \* the calls the process' stack has room for

ASSUME VolumesAssumption == Volumes \subseteq Volume
ASSUME DepthAssumption == MaxDepth \in Nat \ {0}

Mode == {"root", "volume"}

\* A call: its directory's blocks, those begun, and initialPos in the last.
Frame == [blocks : Seq(Block), i : Nat, at : Nat]

VARIABLES
  vol, target, mode,  \* the arguments: the searches never write the volume
  stack,
  pc,
  found               \* the inode of the file returned

arguments == <<vol, target, mode>>
vars == <<vol, target, mode, stack, pc, found>>

TypeOK ==
  /\ vol \in Volumes
  /\ target \in Targets
  /\ mode \in Mode
  /\ stack \in Seq(Frame)
  /\ \A k \in 1 .. Len(stack) : stack[k].i <= Len(stack[k].blocks)
  /\ pc \in {"scan", "found", "missing", "stray"}
  /\ found \in InodeNumber

-----------------------------------------------------------------------------
getInodeInfo(n) == vol.table[CastGroup(n)][IndexOf(n)]

\* at is BlockSize between blocks.
Call(n) == [blocks |-> getInodeInfo(n), i |-> 0, at |-> BlockSize]

Top == stack[Len(stack)]

SetTop(i, at) ==
  [stack EXCEPT ![Len(stack)] = [blocks |-> Top.blocks, i |-> i, at |-> at]]

Init ==
  /\ vol \in Volumes
  /\ target \in Targets
  /\ mode \in Mode
  /\ stack = <<Call(Root)>>
  /\ pc = "scan"
  /\ found = Root

BetweenBlocks == pc = "scan" /\ Top.at >= BlockSize

\* The last block is begun when its number is reached.
BlockLeftLate == Top.i <= Len(Top.blocks)

BlockLeft == Top.i < Len(Top.blocks)

ReadNextBlock ==
  /\ BetweenBlocks
  /\ BlockLeft
  /\ stack' = SetTop(Top.i + 1, 0)
  /\ UNCHANGED <<arguments, pc, found>>

LeaveDirectory ==
  /\ BetweenBlocks
  /\ ~BlockLeft
  /\ Len(stack) > 1
  /\ stack' = SubSeq(stack, 1, Len(stack) - 1)
  /\ UNCHANGED <<arguments, pc, found>>

ReportMissing ==
  /\ BetweenBlocks
  /\ ~BlockLeft
  /\ Len(stack) = 1
  /\ pc' = "missing"
  /\ UNCHANGED <<arguments, stack, found>>

-----------------------------------------------------------------------------
Reading == pc = "scan" /\ Top.at < BlockSize

Entry == vol.block[Top.blocks[Top.i]][Top.at]

EntryUsed == Reading /\ Entry.inode # Erased

Matches(e) == e.type = "file" /\ ~e.dot /\ e.name = target

GoesDownEverywhere(e) == mode = "volume" /\ e.type = "directory"

GoesDown(e) == mode = "volume" /\ e.type = "directory" /\ ~e.dot

\* An entry without an inode ends the block, whatever follows it.
EndBlock ==
  /\ Reading
  /\ Entry.inode = Erased
  /\ stack' = SetTop(Top.i, BlockSize)
  /\ UNCHANGED <<arguments, pc, found>>

Match ==
  /\ EntryUsed
  /\ Matches(Entry)
  /\ pc' = "found"
  /\ found' = Entry.inode
  /\ UNCHANGED <<arguments, stack>>

PassOver ==
  /\ EntryUsed
  /\ ~Matches(Entry)
  /\ ~GoesDown(Entry)
  /\ stack' = SetTop(Top.i, Top.at + Entry.length)
  /\ UNCHANGED <<arguments, pc, found>>

\* As Descend, were the rest of the block left out.
DescendAtLast ==
  /\ EntryUsed
  /\ GoesDown(Entry)
  /\ Len(stack) < MaxDepth
  /\ stack' = Append(SetTop(Top.i, BlockSize), Call(Entry.inode))
  /\ UNCHANGED <<arguments, pc, found>>

Descend ==
  /\ EntryUsed
  /\ GoesDown(Entry)
  /\ Len(stack) < MaxDepth
  /\ stack' = Append(SetTop(Top.i, Top.at + Entry.length), Call(Entry.inode))
  /\ UNCHANGED <<arguments, pc, found>>

NoRoom ==
  /\ EntryUsed
  /\ GoesDown(Entry)
  /\ Len(stack) = MaxDepth
  /\ pc' = "stray"
  /\ UNCHANGED <<arguments, stack, found>>

Next ==
  \/ ReadNextBlock
  \/ LeaveDirectory
  \/ ReportMissing
  \/ EndBlock
  \/ Match
  \/ PassOver
  \/ Descend
  \/ NoRoom

Spec == Init /\ [][Next]_vars /\ WF_vars(Next)

-----------------------------------------------------------------------------
(***************************************************************************)
(* Properties                                                              *)
(***************************************************************************)

\* Directories are nested no deeper than the stack allows for.
Searchable == WellFormed(vol, MaxDepth) /\ InodesFit(vol, MaxDepth)

\* The files that the search may return, in the order of the listing.
Candidates == Listing(vol, IF mode = "root" THEN 0 ELSE MaxDepth)

\* A file that is found is one that a visible directory lists: a regular file
\* of that name, none that was removed, and none from another directory's
\* inode.  Where no block has an erased entry in front of others it is the
\* first of the listing, after any subdirectories before it have been searched
\* in vain, and a file is reported as missing only where there is none.
AnswerIsFirst ==
  pc \in {"found", "missing"} /\ Searchable =>
    LET place == 1 .. Len(Candidates)
        Asked == { i \in place : Candidates[i].name = target }
    IN /\ pc = "found" => \E i \in Asked : Candidates[i].inode = found
       /\ ErasedLast(vol, MaxDepth) =>
            IF Asked = {} THEN pc = "missing"
            ELSE /\ pc = "found"
                 /\ \E i \in Asked : /\ Candidates[i].inode = found
                                    /\ \A j \in Asked : i <= j

\* Every search of a well-formed volume ends with an answer.
SearchAnswers == Searchable ~> pc \in {"found", "missing"}
=============================================================================

------------------------------ MODULE Ext4Edit ------------------------------
(***************************************************************************)
(* EXT4_SetRonlyFlag and EXT4_SetCreationDate of fs_utils/ext4.c, run by   *)
(* several invocations of the program on the same volume: nothing in the   *)
(* code locks it.  Each finds the inode of its target (module Ext4Search)  *)
(* and writes one word of it; the flags are read anew before that.         *)
(*                                                                         *)
(* The disk is seen as words of four bytes, those of the inode fields that *)
(* matter.  A field's position is computed from the inode's number: the    *)
(* creation time's is beyond the end of an inode of 128 bytes.             *)
(***************************************************************************)
EXTENDS Ext4Layout

CONSTANTS
  Process,     \* the invocations
  File,        \* the inodes of the files the search finds
  Absent,      \* a target it does not find
  Date,        \* the days of the dates strptime accepts, from 1970
  BadDate,     \* a text it does not accept
  Clock,       \* what tm_crDate may hold besides the date
  Requests,    \* what an invocation may be asked to do
  InodeSizes,  \* the sizes of inodes, in words
  TableStart,  \* where each group's inode table starts
  FirstWords,  \* what the words of the disk hold at first
  DayLength,   \* the seconds of a day
  WordMod      \* the values of a uint32_t

Flags == 8           \* INODE_FLAGS
CreationTime == 36   \* CREATION_TIME
ModificationTime == 4

Field == {ModificationTime, Flags, CreationTime}

Operation == {"ronly", "date"}

Request == [op : Operation, target : File \cup {Absent}, value : BOOLEAN,
            date : Date \cup {BadDate}]

Word == 0 .. WordMod - 1

TableLength(size) == InodesPerGroup * size

ASSUME FileAssumption == File \subseteq InodeNumber /\ Absent \notin File
ASSUME DateAssumption == Date \subseteq Int /\ BadDate \notin Date
ASSUME ClockAssumption == Clock \subseteq Int
ASSUME RequestsAssumption == Requests \subseteq Request
ASSUME WordAssumption == WordMod \in Nat /\ WordMod % 32 = 0 /\ WordMod > 0
ASSUME DayAssumption == DayLength \in Nat \ {0}
ASSUME SizeAssumption == \A s \in InodeSizes : s \in Nat /\ s > CreationTime - Flags
ASSUME FirstWordsAssumption == FirstWords \subseteq Word
ASSUME TableAssumption ==
  /\ TableStart \in [Group -> Nat]
  /\ \A s \in InodeSizes, g, h \in Group :
       g < h => TableStart[g] + TableLength(s) <= TableStart[h]

VARIABLES
  inodeSize,  \* globals.inodeSize
  disk,       \* the words of the disk
  req,        \* of each invocation, what its arguments ask for
  clock,      \* the hours, minutes and seconds strptime leaves as they were
  pc,
  seen        \* the flags it has read

vars == <<inodeSize, disk, req, clock, pc, seen>>

-----------------------------------------------------------------------------
\* As Position below, were inodes numbered from 0.
PositionFromZero(n, field) ==
  TableStart[CastGroup(n)] + IndexFromOne(n) * inodeSize + field

\* seekToInodeField: the position of a field of inode n.
Position(n, field) ==
  TableStart[CastGroup(n)] + IndexOf(n) * inodeSize + field

\* Where the volume has the field.
OwnPosition(n, field) ==
  TableStart[GroupOf(n)] + IndexOf(n) * inodeSize + field

Positions ==
  { Position(n, f) : n \in File, f \in Field }
    \cup { OwnPosition(n, f) : n \in File, f \in Field }

TypeOK ==
  /\ inodeSize \in InodeSizes
  /\ disk \in [Positions -> Word]
  /\ req \in [Process -> Requests]
  /\ clock \in [Process -> Clock]
  /\ pc \in [Process -> {"ready", "found", "read", "done", "notfound",
                         "baddate"}]
  /\ seen \in [Process -> Word]

Init ==
  /\ inodeSize \in InodeSizes
  /\ \E w \in FirstWords : disk = [a \in Positions |-> w]
  /\ req \in [Process -> Requests]
  /\ clock \in [Process -> Clock]
  /\ pc = [p \in Process |-> "ready"]
  /\ seen = [p \in Process |-> 0]

Find(p) ==
  /\ pc[p] = "ready"
  /\ req[p].target # Absent
  /\ pc' = [pc EXCEPT ![p] = "found"]
  /\ UNCHANGED <<inodeSize, disk, req, clock, seen>>

ReportNotFound(p) ==
  /\ pc[p] = "ready"
  /\ req[p].target = Absent
  /\ pc' = [pc EXCEPT ![p] = "notfound"]
  /\ UNCHANGED <<inodeSize, disk, req, clock, seen>>

FlagsOf(p) == Position(req[p].target, Flags)

ReadFlags(p) ==
  /\ pc[p] = "found"
  /\ req[p].op = "ronly"
  /\ seen' = [seen EXCEPT ![p] = disk[FlagsOf(p)]]
  /\ pc' = [pc EXCEPT ![p] = "read"]
  /\ UNCHANGED <<inodeSize, disk, req, clock>>

Bit(w) == (w \div 16) % 2

OnlyImmutable(w, value) == IF value THEN 16 ELSE 0

StickyImmutable(w, value) == IF value THEN w - 16 * Bit(w) + 16 ELSE w

\* (w & IMMUTABLE_FLAG_MASK) | (value << BYTE_NIBBLE_OFFSET)
WithImmutable(w, value) == w - 16 * Bit(w) + (IF value THEN 16 ELSE 0)

WriteFlags(p) ==
  /\ pc[p] = "read"
  /\ disk' = [disk EXCEPT ![FlagsOf(p)] = WithImmutable(seen[p], req[p].value)]
  /\ pc' = [pc EXCEPT ![p] = "done"]
  /\ UNCHANGED <<inodeSize, req, clock, seen>>

UncutTime(day, rest) == day * DayLength + rest

\* (uint32_t) mktime(&tm_crDate): hours, minutes, seconds and the flag of the
\* daylight saving time, which were never set, and the local time zone count.
crDate(day, rest) == (day * DayLength + rest) % WordMod

WriteDate(p) ==
  /\ pc[p] = "found"
  /\ req[p].op = "date"
  /\ req[p].date # BadDate
  /\ disk' = [disk EXCEPT ![Position(req[p].target, CreationTime)] =
                crDate(req[p].date, clock[p])]
  /\ pc' = [pc EXCEPT ![p] = "done"]
  /\ UNCHANGED <<inodeSize, req, clock, seen>>

RejectDate(p) ==
  /\ pc[p] = "found"
  /\ req[p].op = "date"
  /\ req[p].date = BadDate
  /\ pc' = [pc EXCEPT ![p] = "baddate"]
  /\ UNCHANGED <<inodeSize, disk, req, clock, seen>>

Step(p) ==
  \/ Find(p)
  \/ ReportNotFound(p)
  \/ ReadFlags(p)
  \/ WriteFlags(p)
  \/ WriteDate(p)
  \/ RejectDate(p)

Next == \E p \in Process : Step(p)

Spec == Init /\ [][Next]_vars

-----------------------------------------------------------------------------
(***************************************************************************)
(* Properties                                                              *)
(***************************************************************************)

\* The inodes hold a creation time, and their groups' numbers are kept whole.
Contained ==
  inodeSize > CreationTime /\ \A n \in File : GroupOf(n) < GroupMod

\* p's step may change the field of inode n.
Names(p, n, field) ==
  /\ pc'[p] = "done" /\ pc[p] # "done"
  /\ req[p].target = n
  /\ field = IF req[p].op = "ronly" THEN Flags ELSE CreationTime

\* Whatever the interleaving, an edit changes the field it names of the inode
\* it names, and of the flags only the immutable one: if all inodes are large
\* enough for a creation time and no group's number is cut.
OnlyNamedChange ==
  [][Contained =>
       \A n \in File, field \in Field :
         LET old == disk[OwnPosition(n, field)]
             new == disk'[OwnPosition(n, field)]
         IN old # new =>
              /\ \E p \in Process : Names(p, n, field)
              /\ field = Flags => new - 16 * Bit(new) = old - 16 * Bit(old)]_vars

\* The immutable flag ends as asked and the other flags as they are at the
\* moment of the write, although they were read before it and written as a
\* whole: on every volume, also where dates are written behind their inodes.
FlagEditsExact ==
  [][\A p \in Process :
       pc[p] = "read" /\ pc'[p] = "done" =>
         LET old == disk[FlagsOf(p)]
             new == disk'[FlagsOf(p)]
         IN /\ Bit(new) = IF req[p].value THEN 1 ELSE 0
            /\ new - 16 * Bit(new) = old - 16 * Bit(old)]_vars

\* The day that a stored time stamp falls on, counted from 1970 as of UTC.
StampDay(t) == t \div DayLength

\* The dates that invocations have set file n to.
Setters(n) ==
  { p \in Process : pc[p] = "done" /\ req[p].op = "date" /\ req[p].target = n }

AskedDates(n) == { req[p].date : p \in Setters(n) }

\* Where tm_crDate happens to hold a time of day, the time stamp stored in the
\* file's own inode falls on a day that it was set to, up to the last whole day
\* of 32 bits, however many invocations set it.  This is about the stamp alone:
\* what the program shows of it is indeterminate (functionalities.c:119-121
\* give strftime ten bytes for the eleven of a date, and it fails).
StampOnAskedDay ==
  Contained =>
    \A n \in File :
      /\ Setters(n) # {}
      /\ \A p \in Setters(n) :
           /\ clock[p] \in 0 .. DayLength - 1
           /\ req[p].date \in 0 .. (WordMod \div DayLength) - 1
      => StampDay(disk[OwnPosition(n, CreationTime)]) \in AskedDates(n)

Abstract == INSTANCE InodeEdits
  WITH immutable <- [n \in File |-> Bit(disk[OwnPosition(n, Flags)]) = 1],
       created <- [n \in File |-> disk[OwnPosition(n, CreationTime)]],
       others <-
         [n \in File |->
            LET w == disk[OwnPosition(n, Flags)] IN
            [flags |-> w - 16 * Bit(w),
             mtime |-> disk[OwnPosition(n, ModificationTime)]]],
       whole <- Contained

\* However invocations overlap, each makes its whole edit at one moment, or
\* none, on a volume whose inodes and groups' numbers the code can hold.
ImplementsInodeEdits == Abstract!Spec
=============================================================================

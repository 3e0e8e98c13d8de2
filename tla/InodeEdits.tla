----------------------------- MODULE InodeEdits -----------------------------
(***************************************************************************)
(* What the commands that edit an EXT4 inode promise: each edit changes    *)
(* what it names, of one file, at one moment.  On volumes that are not     *)
(* whole nothing is promised.                                              *)
(***************************************************************************)
EXTENDS Integers

CONSTANTS
  File,      \* the files of the volume
  Date,      \* the days a command can be given, counted from 1970
  Clock,     \* where a time may lie from the start of its day
  DayLength, \* the seconds of a day
  WordMod    \* the values of a time stamp

Stamp(day, clock) == (day * DayLength + clock) % WordMod

VARIABLES
  immutable,  \* of each file, whether it may not be changed
  created,    \* its time stamp of creation
  others,     \* its other flags and its time of modification
  whole       \* whether inodes have room for the fields, and numbers for groups

vars == <<immutable, created, others, whole>>

Init ==
  /\ immutable \in [File -> BOOLEAN]
  /\ created \in [File -> 0 .. WordMod - 1]
  /\ others \in [File -> [flags : 0 .. WordMod - 1, mtime : 0 .. WordMod - 1]]
  /\ whole \in BOOLEAN

SetImmutable(f, value) ==
  /\ immutable' = [immutable EXCEPT ![f] = value]
  /\ UNCHANGED <<created, others, whole>>

SetCreationDate(f, day) ==
  /\ \E c \in Clock : created' = [created EXCEPT ![f] = Stamp(day, c)]
  /\ UNCHANGED <<immutable, others, whole>>

Edit ==
  \E f \in File :
    \/ \E value \in BOOLEAN : SetImmutable(f, value)
    \/ \E day \in Date : SetCreationDate(f, day)

Next ==
  \/ whole /\ Edit
  \/ ~whole /\ UNCHANGED whole

Spec == Init /\ [][Next]_vars
=============================================================================

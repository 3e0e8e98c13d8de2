---------------------------- MODULE VolumeEdits ----------------------------
(***************************************************************************)
(* What the commands that edit a FAT32 directory entry promise: each edit  *)
(* changes what it names, of one file, at one moment.  An edit of          *)
(* attributes that others disturb may also set or clear further editable   *)
(* ones.  A creation date is kept modulo 128 years; setting it also sets   *)
(* the date of last access, to the number of times 128 years went into the *)
(* year.                                                                   *)
(***************************************************************************)
EXTENDS Integers

CONSTANTS
  Process,  \* who edits the volume
  File,     \* the files of the volume
  Attr,     \* the attributes of an entry
  Editable, \* the attributes a command can set
  Date      \* the dates a command can be given

Stored(d) ==
  [day |-> d.day, month |-> d.month, year |-> 1980 + ((d.year - 1980) % 128)]

Spill(d) == ((d.year - 1980) \div 128) % 65536

\* The attribute set s with attribute a present or absent.
With(s, a, present) == (s \ {a}) \cup (IF present THEN {a} ELSE {})

Word == { n \in Nat : n < 65536 }

\* What the five, four and seven bits of a stored date can say.
StoredDate == [day : 0 .. 31, month : 0 .. 15, year : 1980 .. 2107]

VARIABLES
  attrs,     \* of each file, its attributes
  created,   \* its creation date
  accessed,  \* the word with its date of last access
  disturbed  \* whose edits were

vars == <<attrs, created, accessed, disturbed>>

Init ==
  /\ attrs \in [File -> SUBSET Attr]
  /\ created \in [File -> StoredDate]
  /\ accessed \in [File -> Word]
  /\ disturbed = {}

SetAttribute(f, a, present) ==
  /\ attrs' = [attrs EXCEPT ![f] = With(@, a, present)]
  /\ UNCHANGED <<created, accessed, disturbed>>

Disturbed(f, p) ==
  /\ p \notin disturbed
  /\ disturbed' = disturbed \cup {p}
  /\ \E s \in SUBSET Editable :
       attrs' = [attrs EXCEPT ![f] = (@ \ Editable) \cup s]
  /\ UNCHANGED <<created, accessed>>

SetCreationDate(f, d) ==
  /\ created' = [created EXCEPT ![f] = Stored(d)]
  /\ accessed' = [accessed EXCEPT ![f] = Spill(d)]
  /\ UNCHANGED <<attrs, disturbed>>

Next ==
  \E f \in File :
    \/ \E a \in Editable, present \in BOOLEAN : SetAttribute(f, a, present)
    \/ \E p \in Process : Disturbed(f, p)
    \/ \E d \in Date : SetCreationDate(f, d)

Spec == Init /\ [][Next]_vars
=============================================================================

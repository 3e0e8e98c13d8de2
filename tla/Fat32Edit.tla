----------------------------- MODULE Fat32Edit -----------------------------
(***************************************************************************)
(* FAT32_SetHiddenFlag, FAT32_SetRonlyFlag and FAT32_SetCreationDate of    *)
(* fs_utils/fat32.c, run by several invocations of the program on the same *)
(* volume: nothing in the code locks it.  Each of them searches for its    *)
(* target (module Fat32Search), which reads the attributes of the entry,   *)
(* and writes some bytes of the entry afterwards.                          *)
(*                                                                         *)
(* Months count from 0, as in struct tm.                                   *)
(***************************************************************************)
EXTENDS Integers

CONSTANTS
  Process,   \* the invocations
  File,      \* the files the search finds
  Absent,    \* a target it does not find
  Attr,      \* the attributes of an entry
  Date,      \* the dates strptime accepts
  BadDate,   \* a text it does not accept
  Words,     \* the words that date fields hold at first
  Requests   \* what an invocation may be asked to do

Operation == {"hidden", "ronly", "date"}

Editable == {"hidden", "ronly"}

Target == File \cup {Absent}

Request == [op : Operation, target : Target, value : BOOLEAN,
            date : Date \cup {BadDate}]

DateRecord == [day : 1 .. 31, month : 0 .. 11, year : Int]

Word == { n \in Nat : n < 65536 }

ASSUME AbsentAssumption == Absent \notin File
ASSUME AttrAssumption == Editable \subseteq Attr
ASSUME DateAssumption == Date \subseteq DateRecord /\ BadDate \notin Date
ASSUME WordsAssumption == Words \subseteq Word
ASSUME RequestsAssumption == Requests \subseteq Request

VARIABLES
  attrs,  \* of each file, the byte at FILE_ATTRS
  cdate,  \* the word at CDATE_BASE, the creation date
  adate,  \* the word behind it, the date of last access
  req,    \* of each invocation, what its arguments ask for
  pc,
  seen,   \* the attributes its search read
  since   \* who has written attributes of its target since that search

volume == <<attrs, cdate, adate>>
vars == <<attrs, cdate, adate, req, pc, seen, since>>

TypeOK ==
  /\ attrs \in [File -> SUBSET Attr]
  /\ cdate \in [File -> Word]
  /\ adate \in [File -> Word]
  /\ req \in [Process -> Requests]
  /\ pc \in [Process -> {"ready", "writing", "done", "notfound", "baddate"}]
  /\ seen \in [Process -> SUBSET Attr]
  /\ since \in [Process -> SUBSET Process]

-----------------------------------------------------------------------------
(***************************************************************************)
(* FAT dates.  A date is 32 bits: mday, tm_mon << 5 and (tm_year - 80) << 9 *)
(* added up in uint32_t.  All four bytes are written at CDATE_BASE.        *)
(***************************************************************************)
YearsSinceBase(d) == d.year - 1980

PackedSum(d) == d.day + d.month * 32 + YearsSinceBase(d) * 512

UncutWord(d) == PackedSum(d)

LowWord(d) == PackedSum(d) % 65536

HighWord(d) == (PackedSum(d) \div 65536) % 65536

\* What getFAT32File reads of the word at CDATE_BASE.
NarrowMonthOf(w) == (w \div 32) % 8

MonthOf(w) == (w \div 32) % 16

DecodedDate(w) ==
  [day |-> w % 32, month |-> MonthOf(w), year |-> 1980 + (w \div 512)]

-----------------------------------------------------------------------------
\* The volume may start with any attributes that are not edited.
Init ==
  /\ attrs \in [File -> SUBSET Attr]
  /\ \E w \in Words : cdate = [f \in File |-> w] /\ adate = [f \in File |-> w]
  /\ req \in [Process -> Requests]
  /\ pc = [p \in Process |-> "ready"]
  /\ seen = [p \in Process |-> {}]
  /\ since = [p \in Process |-> {}]

Find(p) ==
  /\ pc[p] = "ready"
  /\ req[p].target \in File
  /\ pc' = [pc EXCEPT ![p] = "writing"]
  /\ seen' = [seen EXCEPT ![p] = attrs[req[p].target]]
  /\ UNCHANGED <<volume, req, since>>

ReportNotFound(p) ==
  /\ pc[p] = "ready"
  /\ req[p].target \notin File
  /\ pc' = [pc EXCEPT ![p] = "notfound"]
  /\ UNCHANGED <<volume, req, seen, since>>

OnlyFlag(s, a, present) == IF present THEN {a} ELSE {}

StickyFlag(s, a, present) == s \cup (IF present THEN {a} ELSE {})

\* The attribute set s with attribute a present or absent.
WithFlag(s, a, present) == (s \ {a}) \cup (IF present THEN {a} ELSE {})

\* One byte is written: what the search read, with one bit set or cleared.
WriteAttributes(p) ==
  LET r == req[p] IN
  /\ pc[p] = "writing"
  /\ r.op \in Editable
  /\ attrs' = [attrs EXCEPT ![r.target] = WithFlag(seen[p], r.op, r.value)]
  /\ pc' = [pc EXCEPT ![p] = "done"]
  /\ since' = [q \in Process |->
                 IF q # p /\ pc[q] = "writing" /\ req[q].target = r.target
                   THEN since[q] \cup {p} ELSE since[q]]
  /\ UNCHANGED <<cdate, adate, req, seen>>

WriteDate(p) ==
  LET r == req[p] IN
  /\ pc[p] = "writing"
  /\ r.op = "date"
  /\ r.date # BadDate
  /\ cdate' = [cdate EXCEPT ![r.target] = LowWord(r.date)]
  /\ adate' = [adate EXCEPT ![r.target] = HighWord(r.date)]
  /\ pc' = [pc EXCEPT ![p] = "done"]
  /\ UNCHANGED <<attrs, req, seen, since>>

\* The date is looked at after the search: exit(INVALID_DATE_FORMAT).
RejectDate(p) ==
  /\ pc[p] = "writing"
  /\ req[p].op = "date"
  /\ req[p].date = BadDate
  /\ pc' = [pc EXCEPT ![p] = "baddate"]
  /\ UNCHANGED <<volume, req, seen, since>>

Step(p) ==
  \/ Find(p)
  \/ ReportNotFound(p)
  \/ WriteAttributes(p)
  \/ WriteDate(p)
  \/ RejectDate(p)

Next == \E p \in Process : Step(p)

Spec == Init /\ [][Next]_vars

-----------------------------------------------------------------------------
(***************************************************************************)
(* Properties                                                              *)
(***************************************************************************)

Abstract == INSTANCE VolumeEdits
  WITH created <- [f \in File |-> DecodedDate(cdate[f])],
       accessed <- adate,
       disturbed <- { p \in Process : pc[p] = "done" /\ req[p].op \in Editable
                                       /\ since[p] # {} }

\* The attributes no command names (system, directory, archive) survive every
\* interleaving, although the whole byte is written from an earlier read.
OtherAttrsKept ==
  [][\A f \in File : attrs'[f] \ Editable = attrs[f] \ Editable]_vars

\* A write whose file no other invocation has written since the search read
\* it changes nothing but the bit that was asked for: an edit gets lost only
\* where two invocations overlap.
LostOnlyByOverlap ==
  [][\A p \in Process :
       pc[p] = "writing" /\ pc'[p] = "done" /\ req[p].op \in Editable
       /\ since[p] = {}
         => attrs'[req[p].target]
              = Abstract!With(attrs[req[p].target], req[p].op, req[p].value)]_vars

\* An invocation that is done with an edit of f.
DoneWith(p, f) == pc[p] = "done" /\ req[p].target = f

\* A creation date that was written can be read again, for every year that
\* the seven bits of the field hold: what is stored is one of the dates asked
\* for, in all its parts, and the word behind it is 0.
InRange(d) == d.year \in 1980 .. 2107

DateReadBack ==
  \A f \in File :
    LET asked == { req[p].date : p \in { q \in Process : DoneWith(q, f)
                                                     /\ req[q].op = "date" } }
    IN asked # {} /\ (\A d \in asked : InRange(d))
         => DecodedDate(cdate[f]) \in asked /\ adate[f] = 0

\* Every invocation makes its whole edit at one moment, or none; only where
\* another one has written the file's attributes since its search may it also
\* bring back what they were, and never those that no command names.
ImplementsVolumeEdits == Abstract!Spec
=============================================================================

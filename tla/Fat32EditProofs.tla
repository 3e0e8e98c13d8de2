-------------------------- MODULE Fat32EditProofs --------------------------
(***************************************************************************)
(* What the edits of directory entries keep, for any number of concurrent  *)
(* invocations, files, attributes and dates; and that they implement       *)
(* VolumeEdits.                                                            *)
(***************************************************************************)
EXTENDS Fat32Edit, TLAPS

\* Quotient and remainder are unique; for the three divisors of a date.
LEMMA Divide65536 ==
  ASSUME NEW a \in Int, NEW b \in Int, 0 <= b, b < 65536,
         NEW x \in Int, x = 65536 * a + b
  PROVE  x % 65536 = b /\ x \div 65536 = a
<1> DEFINE q == x \div 65536
           r == x % 65536
<1>1. q \in Int /\ r \in Int /\ 0 <= r /\ r < 65536 /\ x = 65536 * q + r
  OBVIOUS
<1> HIDE DEF q, r
<1>2. q = a /\ r = b
  BY <1>1
<1> QED
  BY <1>2 DEF q, r

LEMMA Divide512 ==
  ASSUME NEW a \in Int, NEW b \in Int, 0 <= b, b < 512,
         NEW x \in Int, x = 512 * a + b
  PROVE  x % 512 = b /\ x \div 512 = a
<1> DEFINE q == x \div 512
           r == x % 512
<1>1. q \in Int /\ r \in Int /\ 0 <= r /\ r < 512 /\ x = 512 * q + r
  OBVIOUS
<1> HIDE DEF q, r
<1>2. q = a /\ r = b
  BY <1>1
<1> QED
  BY <1>2 DEF q, r

LEMMA Divide32 ==
  ASSUME NEW a \in Int, NEW b \in Int, 0 <= b, b < 32,
         NEW x \in Int, x = 32 * a + b
  PROVE  x % 32 = b /\ x \div 32 = a
<1> DEFINE q == x \div 32
           r == x % 32
<1>1. q \in Int /\ r \in Int /\ 0 <= r /\ r < 32 /\ x = 32 * q + r
  OBVIOUS
<1> HIDE DEF q, r
<1>2. q = a /\ r = b
  BY <1>1
<1> QED
  BY <1>2 DEF q, r

LEMMA Modulo16 ==
  ASSUME NEW a \in Int, NEW b \in Int, 0 <= b, b < 16,
         NEW x \in Int, x = 16 * a + b
  PROVE  x % 16 = b
<1> DEFINE q == x \div 16
           r == x % 16
<1>1. q \in Int /\ r \in Int /\ 0 <= r /\ r < 16 /\ x = 16 * q + r
  OBVIOUS
<1> HIDE DEF q, r
<1>2. r = b
  BY <1>1
<1> QED
  BY <1>2 DEF r

\* The packed date splits into its words as 128 years do.
LEMMA PackedWords ==
  ASSUME NEW low \in 0 .. 511, NEW y \in Int
  PROVE  /\ (low + y * 512) % 65536 = low + (y % 128) * 512
         /\ (low + y * 512) \div 65536 = y \div 128
<1> DEFINE q == y \div 128
           r == y % 128
<1>1. q \in Int /\ r \in 0 .. 127 /\ y = 128 * q + r
  OBVIOUS
<1> HIDE DEF q, r
<1>2. low + y * 512 = 65536 * q + (low + r * 512)
  BY <1>1
<1>3. /\ low + r * 512 \in Int /\ low + y * 512 \in Int
      /\ 0 <= low + r * 512 /\ low + r * 512 < 65536
  BY <1>1
<1>4. /\ (low + y * 512) % 65536 = low + r * 512
      /\ (low + y * 512) \div 65536 = q
  BY <1>1, <1>2, <1>3, Divide65536
<1> QED
  BY <1>4 DEF q, r

\* The fields of the word can be told apart.
LEMMA FieldsOfWord ==
  ASSUME NEW day \in Int, 1 <= day, day < 32,
         NEW month \in Int, 0 <= month, month < 12,
         NEW y \in Int, 0 <= y, y < 128,
         NEW w \in Int, w = day + month * 32 + y * 512
  PROVE  w % 32 = day /\ (w \div 32) % 16 = month /\ w \div 512 = y
<1>1. w % 32 = day /\ w \div 32 = month + y * 16
  <2>1. w = 32 * (month + y * 16) + day /\ month + y * 16 \in Int
    OBVIOUS
  <2> QED
    BY <2>1, Divide32
<1>2. (month + y * 16) % 16 = month
  <2>1. month + y * 16 = 16 * y + month
    OBVIOUS
  <2> QED
    BY <2>1, Modulo16
<1>3. w \div 512 = y
  <2>1. w = 512 * y + (day + month * 32) /\ day + month * 32 \in 0 .. 511
    OBVIOUS
  <2> QED
    BY <2>1, Divide512
<1> QED
  BY <1>1, <1>2, <1>3

LEMMA DateFields ==
  ASSUME NEW d \in Date
  PROVE  /\ d.day \in 1 .. 31 /\ d.month \in 0 .. 11 /\ d.year \in Int
         /\ d.day + d.month * 32 \in 0 .. 511
  BY DateAssumption DEF DateRecord

\* What SetCreationDate writes is read back as the date it was given, with
\* the year modulo 128; the word behind it counts the multiples of 128 years.
LEMMA DateRoundTrip ==
  ASSUME NEW d \in Date
  PROVE  /\ LowWord(d) \in Word /\ HighWord(d) \in Word
         /\ DecodedDate(LowWord(d)) = Abstract!Stored(d)
         /\ HighWord(d) = Abstract!Spill(d)
<1> DEFINE low == d.day + d.month * 32
           y == d.year - 1980
           r == y % 128
<1>1. low \in 0 .. 511 /\ y \in Int /\ r \in 0 .. 127
  BY DateFields
<1>2. LowWord(d) = low + r * 512 /\ HighWord(d) = (y \div 128) % 65536
  <2>1. PackedSum(d) = low + y * 512
    BY DEF PackedSum, YearsSinceBase
  <2> HIDE DEF low, y
  <2>2. /\ PackedSum(d) % 65536 = low + (y % 128) * 512
        /\ PackedSum(d) \div 65536 = y \div 128
    BY <1>1, <2>1, PackedWords
  <2> QED
    BY <2>2 DEF LowWord, HighWord
<1>3. /\ LowWord(d) % 32 = d.day
      /\ (LowWord(d) \div 32) % 16 = d.month
      /\ LowWord(d) \div 512 = r
  <2>1. LowWord(d) = d.day + d.month * 32 + r * 512
    BY <1>2
  <2>2. d.day \in 1 .. 31 /\ d.month \in 0 .. 11
    BY DateFields
  <2>3. r \in 0 .. 127
    BY <1>1
  <2> DEFINE day == d.day
             month == d.month
             w == LowWord(d)
  <2>4. /\ day \in Int /\ 1 <= day /\ day < 32
        /\ month \in Int /\ 0 <= month /\ month < 12
        /\ r \in Int /\ 0 <= r /\ r < 128
        /\ w \in Int /\ w = day + month * 32 + r * 512
    BY <2>1, <2>2, <2>3
  <2> HIDE DEF r, day, month, w
  <2>5. w % 32 = day /\ (w \div 32) % 16 = month /\ w \div 512 = r
    BY <2>4, FieldsOfWord
  <2> QED
    BY <2>5 DEF day, month, w
<1>4. DecodedDate(LowWord(d)) = Abstract!Stored(d)
  BY <1>3 DEF DecodedDate, MonthOf, Abstract!Stored
<1>5. HighWord(d) = Abstract!Spill(d)
  BY <1>2 DEF Abstract!Spill
<1>6. HighWord(d) \in Word
  <2> DEFINE z == y \div 128
  <2>1. z \in Int
    BY <1>1
  <2>2. HighWord(d) = z % 65536
    BY <1>2
  <2> HIDE DEF z
  <2> QED
    BY <2>1, <2>2 DEF Word
<1>7. LowWord(d) \in Word
  <2> HIDE DEF r, low
  <2> QED
    BY <1>1, <1>2 DEF Word
<1> QED
  BY <1>4, <1>5, <1>6, <1>7

-----------------------------------------------------------------------------
\* Who is about to write has found its file, and has read of it what nobody
\* changes, or all of it if nobody has written since.
FoundBefore ==
  \A p \in Process : pc[p] = "writing" => req[p].target \in File

OthersSeen ==
  \A p \in Process :
    pc[p] = "writing" => seen[p] \ Editable = attrs[req[p].target] \ Editable

FreshUnlessWritten ==
  \A p \in Process :
    pc[p] = "writing" /\ since[p] = {} => seen[p] = attrs[req[p].target]

\* The creation date of a file is that of one of the edits done.
DateIsOneWritten ==
  \A f \in File :
    (\E p \in Process : DoneWith(p, f) /\ req[p].op = "date")
      => \E p \in Process :
           /\ DoneWith(p, f) /\ req[p].op = "date" /\ req[p].date \in Date
           /\ cdate[f] = LowWord(req[p].date)
           /\ adate[f] = HighWord(req[p].date)

EditInv ==
  TypeOK /\ FoundBefore /\ OthersSeen /\ FreshUnlessWritten /\ DateIsOneWritten

LEMMA RequestFields ==
  ASSUME TypeOK, NEW p \in Process
  PROVE  /\ req[p].op \in Operation
         /\ req[p].target \in Target
         /\ req[p].value \in BOOLEAN
         /\ req[p].date \in Date \cup {BadDate}
  BY RequestsAssumption DEF TypeOK, Request

LEMMA FlagOfAttr ==
  ASSUME NEW s \in SUBSET Attr, NEW a \in Editable, NEW present
  PROVE  /\ WithFlag(s, a, present) \in SUBSET Attr
         /\ WithFlag(s, a, present) \ Editable = s \ Editable
         /\ WithFlag(s, a, present) = Abstract!With(s, a, present)
  BY AttrAssumption DEF WithFlag, Abstract!With

LEMMA InitEdit == Init => EditInv
<1> SUFFICES ASSUME Init PROVE EditInv
  OBVIOUS
<1>1. TypeOK
  BY WordsAssumption DEF Init, TypeOK
<1>2. FoundBefore /\ OthersSeen /\ FreshUnlessWritten
  BY DEF Init, FoundBefore, OthersSeen, FreshUnlessWritten
<1>3. DateIsOneWritten
  BY DEF Init, DateIsOneWritten, DoneWith
<1> QED
  BY <1>1, <1>2, <1>3 DEF EditInv

LEMMA StepKeepsType ==
  ASSUME EditInv, NEW p \in Process, Step(p)
  PROVE  TypeOK'
<1> USE DEF volume
<1>0. TypeOK /\ FoundBefore
  BY DEF EditInv
<1>1. CASE Find(p)
  BY <1>0, <1>1 DEF Find, TypeOK
<1>2. CASE ReportNotFound(p)
  BY <1>0, <1>2 DEF ReportNotFound, TypeOK
<1>3. CASE WriteAttributes(p)
  <2>1. WithFlag(seen[p], req[p].op, req[p].value) \in SUBSET Attr
    BY <1>0, <1>3, FlagOfAttr DEF TypeOK, WriteAttributes
  <2>2. attrs' \in [File -> SUBSET Attr]
    BY <1>0, <1>3, <2>1 DEF TypeOK, WriteAttributes
  <2>3. since' \in [Process -> SUBSET Process]
    BY <1>0, <1>3 DEF TypeOK, WriteAttributes
  <2> QED
    BY <1>0, <1>3, <2>2, <2>3 DEF TypeOK, WriteAttributes
<1>4. CASE WriteDate(p)
  <2>1. req[p].date \in Date
    BY <1>0, <1>4, RequestFields DEF WriteDate
  <2>2. LowWord(req[p].date) \in Word /\ HighWord(req[p].date) \in Word
    BY <2>1, DateRoundTrip
  <2> QED
    BY <1>0, <1>4, <2>2 DEF TypeOK, WriteDate
<1>5. CASE RejectDate(p)
  BY <1>0, <1>5 DEF RejectDate, TypeOK
<1> QED
  BY <1>1, <1>2, <1>3, <1>4, <1>5 DEF Step

LEMMA StepKeepsReads ==
  ASSUME EditInv, NEW p \in Process, Step(p)
  PROVE  FoundBefore' /\ OthersSeen' /\ FreshUnlessWritten'
<1> USE DEF volume
<1>0. TypeOK /\ FoundBefore /\ OthersSeen /\ FreshUnlessWritten
  BY DEF EditInv
<1>1. CASE Find(p)
  BY <1>0, <1>1
  DEF Find, TypeOK, FoundBefore, OthersSeen, FreshUnlessWritten
<1>2. CASE ReportNotFound(p)
  BY <1>0, <1>2
  DEF ReportNotFound, TypeOK, FoundBefore, OthersSeen, FreshUnlessWritten
<1>3. CASE WriteAttributes(p)
  <2> DEFINE f == req[p].target
             written == WithFlag(seen[p], req[p].op, req[p].value)
  <2>1. /\ pc[p] = "writing" /\ req' = req /\ seen' = seen /\ f \in File
        /\ pc' = [pc EXCEPT ![p] = "done"]
        /\ attrs' = [attrs EXCEPT ![f] = written]
    BY <1>0, <1>3 DEF WriteAttributes, FoundBefore
  <2>2. FoundBefore'
    BY <1>0, <2>1 DEF FoundBefore, TypeOK
  <2>3. written \ Editable = attrs[f] \ Editable
    BY <1>0, <1>3, <2>1, FlagOfAttr DEF TypeOK, WriteAttributes, OthersSeen
  <2>4. OthersSeen'
    BY <1>0, <2>1, <2>3 DEF OthersSeen, FoundBefore, TypeOK
  <2>5. FreshUnlessWritten'
    <3> SUFFICES ASSUME NEW q \in Process, pc'[q] = "writing", since'[q] = {}
                 PROVE  seen'[q] = attrs'[req'[q].target]
      BY DEF FreshUnlessWritten
    <3>1. q # p /\ pc[q] = "writing"
      BY <1>0, <2>1 DEF TypeOK
    <3>2. req[q].target # f /\ since[q] = {}
      BY <1>0, <1>3, <3>1 DEF TypeOK, WriteAttributes
    <3>3. req[q].target \in File /\ seen[q] = attrs[req[q].target]
      BY <1>0, <3>1, <3>2 DEF FreshUnlessWritten, FoundBefore
    <3> QED
      BY <1>0, <2>1, <3>2, <3>3 DEF TypeOK
  <2> QED
    BY <2>2, <2>4, <2>5
<1>4. CASE WriteDate(p)
  BY <1>0, <1>4
  DEF WriteDate, TypeOK, FoundBefore, OthersSeen, FreshUnlessWritten
<1>5. CASE RejectDate(p)
  BY <1>0, <1>5
  DEF RejectDate, TypeOK, FoundBefore, OthersSeen, FreshUnlessWritten
<1> QED
  BY <1>1, <1>2, <1>3, <1>4, <1>5 DEF Step

LEMMA StepKeepsDates ==
  ASSUME EditInv, NEW p \in Process, Step(p)
  PROVE  DateIsOneWritten'
<1> USE DEF volume
<1>0. TypeOK /\ FoundBefore /\ DateIsOneWritten
  BY DEF EditInv
<1>1. CASE /\ cdate' = cdate /\ adate' = adate /\ req' = req
           /\ \A q \in Process, f \in File :
                req[q].op = "date" => (DoneWith(q, f)' <=> DoneWith(q, f))
  BY <1>0, <1>1 DEF DateIsOneWritten
<1>2. CASE Find(p) \/ ReportNotFound(p) \/ RejectDate(p)
  BY <1>0, <1>1, <1>2
  DEF Find, ReportNotFound, RejectDate, TypeOK, DoneWith
<1>3. CASE WriteAttributes(p)
  BY <1>0, <1>1, <1>3 DEF WriteAttributes, TypeOK, DoneWith, Editable
<1>4. CASE WriteDate(p)
  <2> DEFINE g == req[p].target
             d == req[p].date
  <2>1. /\ pc[p] = "writing" /\ req[p].op = "date" /\ req' = req /\ g \in File
        /\ pc' = [pc EXCEPT ![p] = "done"]
        /\ cdate' = [cdate EXCEPT ![g] = LowWord(d)]
        /\ adate' = [adate EXCEPT ![g] = HighWord(d)]
    BY <1>0, <1>4 DEF WriteDate, FoundBefore
  <2>2. d \in Date
    BY <1>0, <1>4, RequestFields DEF WriteDate
  <2>3. DoneWith(p, g)'
    BY <1>0, <2>1 DEF DoneWith, TypeOK
  <2>4. cdate'[g] = LowWord(d) /\ adate'[g] = HighWord(d)
    BY <1>0, <2>1 DEF TypeOK
  <2> SUFFICES ASSUME NEW f \in File,
                      \E q \in Process : DoneWith(q, f)' /\ req'[q].op = "date"
               PROVE  \E q \in Process :
                        /\ DoneWith(q, f)' /\ req'[q].op = "date"
                        /\ req'[q].date \in Date
                        /\ cdate'[f] = LowWord(req'[q].date)
                        /\ adate'[f] = HighWord(req'[q].date)
    BY DEF DateIsOneWritten
  <2>5. CASE f = g
    BY <2>1, <2>2, <2>3, <2>4, <2>5
  <2>6. CASE f # g
    <3>1. cdate'[f] = cdate[f] /\ adate'[f] = adate[f]
      BY <1>0, <2>1, <2>6 DEF TypeOK
    <3>2. \A q \in Process : DoneWith(q, f)' <=> DoneWith(q, f)
      BY <1>0, <2>1, <2>6 DEF TypeOK, DoneWith
    <3> QED
      BY <1>0, <2>1, <3>1, <3>2 DEF DateIsOneWritten
  <2> QED
    BY <2>5, <2>6
<1> QED
  BY <1>2, <1>3, <1>4, Zenon DEF Step

LEMMA StutterKeepsEdit ==
  ASSUME EditInv, UNCHANGED vars
  PROVE  EditInv'
  BY DEF EditInv, vars, volume, TypeOK, FoundBefore, OthersSeen,
         FreshUnlessWritten, DateIsOneWritten, DoneWith

LEMMA NextKeepsEdit == EditInv /\ [Next]_vars => EditInv'
<1> SUFFICES ASSUME EditInv, [Next]_vars PROVE EditInv'
  OBVIOUS
<1>1. CASE UNCHANGED vars
  BY <1>1, StutterKeepsEdit
<1>2. ASSUME NEW p \in Process, Step(p) PROVE EditInv'
  BY <1>2, StepKeepsType, StepKeepsReads, StepKeepsDates DEF EditInv
<1> QED
  BY <1>1, <1>2 DEF Next

LEMMA EditInvariant == Spec => []EditInv
  BY InitEdit, NextKeepsEdit, PTL DEF Spec

-----------------------------------------------------------------------------
\* The fields of an entry stay within their widths (uint8_t and uint16_t of
\* fat32.h) whatever the invocations write, and no write goes outside a file
\* that was found.
THEOREM EditTypeOK == Spec => []TypeOK
<1>1. EditInv => TypeOK
  BY DEF EditInv
<1> QED
  BY <1>1, EditInvariant, PTL

\* writeToDirectoryEntry writes the whole attribute byte from an earlier read:
\* the attributes that no command names survive every interleaving.
THEOREM OtherAttributesKept == Spec => OtherAttrsKept
<1>1. ASSUME EditInv, [Next]_vars
      PROVE  [\A f \in File : attrs'[f] \ Editable = attrs[f] \ Editable]_vars
  <2>1. CASE UNCHANGED vars
    BY <2>1
  <2>2. ASSUME NEW p \in Process, Step(p), NEW f \in File
        PROVE  attrs'[f] \ Editable = attrs[f] \ Editable
    <3>1. CASE WriteAttributes(p)
      <4> DEFINE written == WithFlag(seen[p], req[p].op, req[p].value)
      <4>1. attrs' = [attrs EXCEPT ![req[p].target] = written]
        BY <3>1 DEF WriteAttributes
      <4>2. written \ Editable = attrs[req[p].target] \ Editable
        BY <1>1, <3>1, FlagOfAttr
        DEF EditInv, TypeOK, WriteAttributes, OthersSeen
      <4> QED
        BY <1>1, <4>1, <4>2 DEF EditInv, TypeOK
    <3>2. CASE ~WriteAttributes(p)
      BY <2>2, <3>2
      DEF Step, Find, ReportNotFound, WriteDate, RejectDate, volume
    <3> QED
      BY <3>1, <3>2
  <2> QED
    BY <1>1, <2>1, <2>2 DEF Next
<1> QED
  BY <1>1, EditInvariant, PTL DEF Spec, OtherAttrsKept

\* A write whose file nobody has written since the search read it changes just
\* the bit that was asked for: what an edit can lose, it loses by overlapping.
THEOREM LostByOverlapOnly == Spec => LostOnlyByOverlap
<1>1. ASSUME EditInv, [Next]_vars
      PROVE  [\A p \in Process :
                pc[p] = "writing" /\ pc'[p] = "done" /\ req[p].op \in Editable
                /\ since[p] = {}
                  => attrs'[req[p].target]
                       = Abstract!With(attrs[req[p].target],
                                       req[p].op, req[p].value)]_vars
  <2>1. CASE UNCHANGED vars
    BY <2>1
  <2>2. ASSUME NEW q \in Process, Step(q), NEW p \in Process,
               pc[p] = "writing", pc'[p] = "done", req[p].op \in Editable,
               since[p] = {}
        PROVE  attrs'[req[p].target]
                 = Abstract!With(attrs[req[p].target], req[p].op, req[p].value)
    <3>1. q = p
      BY <1>1, <2>2
      DEF EditInv, TypeOK, Step, Find, ReportNotFound, WriteAttributes,
          WriteDate, RejectDate
    <3>2. WriteAttributes(p)
      BY <1>1, <2>2, <3>1
      DEF EditInv, TypeOK, Step, Find, ReportNotFound, WriteDate, RejectDate,
          Editable
    <3>3. req[p].target \in File /\ seen[p] = attrs[req[p].target]
      BY <1>1, <2>2 DEF EditInv, FoundBefore, FreshUnlessWritten
    <3>4. attrs'[req[p].target] = WithFlag(seen[p], req[p].op, req[p].value)
      BY <1>1, <3>2, <3>3 DEF EditInv, TypeOK, WriteAttributes
    <3> QED
      BY <3>3, <3>4 DEF WithFlag, Abstract!With
  <2> QED
    BY <1>1, <2>1, <2>2 DEF Next
<1> QED
  BY <1>1, EditInvariant, PTL DEF Spec, LostOnlyByOverlap

\* FAT32_SetCreationDate and getFAT32File agree: within the years that the
\* field holds, what is stored is a date that was asked for.
THEOREM DatesReadBack == Spec => []DateReadBack
<1>1. ASSUME NEW d \in Date, InRange(d)
      PROVE  DecodedDate(LowWord(d)) = d /\ HighWord(d) = 0
  <2>1. d \in DateRecord /\ d.year \in 1980 .. 2107
    BY <1>1, DateAssumption DEF InRange
  <2>2. (d.year - 1980) % 128 = d.year - 1980 /\ (d.year - 1980) \div 128 = 0
    BY <2>1
  <2>3. Abstract!Stored(d) = d
    BY <2>1, <2>2 DEF Abstract!Stored, DateRecord
  <2>4. Abstract!Spill(d) = 0
    BY <2>2 DEF Abstract!Spill
  <2> QED
    BY <2>3, <2>4, DateRoundTrip
<1>2. ASSUME EditInv PROVE DateReadBack
  <2> SUFFICES ASSUME NEW f \in File,
                      NEW asked,
                      asked = { req[p].date : p \in { q \in Process :
                                  DoneWith(q, f) /\ req[q].op = "date" } },
                      asked # {}, \A d \in asked : InRange(d)
               PROVE  DecodedDate(cdate[f]) \in asked /\ adate[f] = 0
    BY DEF DateReadBack
  <2>1. PICK p \in Process : /\ DoneWith(p, f) /\ req[p].op = "date"
                             /\ req[p].date \in Date
                             /\ cdate[f] = LowWord(req[p].date)
                             /\ adate[f] = HighWord(req[p].date)
    BY <1>2 DEF EditInv, DateIsOneWritten
  <2>2. req[p].date \in asked
    BY <2>1
  <2> QED
    BY <1>1, <2>1, <2>2
<1> QED
  BY <1>2, EditInvariant, PTL

-----------------------------------------------------------------------------
(***************************************************************************)
(* The refinement.                                                         *)
(***************************************************************************)
DisturbedEdits ==
  { p \in Process : pc[p] = "done" /\ req[p].op \in Editable /\ since[p] # {} }

LEMMA InitImplements == Init => Abstract!Init
<1> SUFFICES ASSUME Init PROVE Abstract!Init
  OBVIOUS
<1>1. TypeOK
  BY InitEdit DEF EditInv
<1>2. ASSUME NEW w \in Word PROVE DecodedDate(w) \in Abstract!StoredDate
  <2>1. w \in Int /\ 0 <= w /\ w < 65536
    BY DEF Word
  <2>2. w % 32 \in 0 .. 31 /\ (w \div 32) % 16 \in 0 .. 15
    BY <2>1
  <2>3. w \div 512 \in Int /\ 0 <= w \div 512 /\ w \div 512 < 128
    BY <2>1
  <2> QED
    BY <2>2, <2>3 DEF DecodedDate, MonthOf, Abstract!StoredDate
<1> QED
  BY <1>1, <1>2 DEF Init, TypeOK, Abstract!Init, Word, Abstract!Word

LEMMA StepImplements ==
  ASSUME EditInv, NEW p \in Process, Step(p)
  PROVE  [Abstract!Next]_(Abstract!vars)
<1> DEFINE f == req[p].target
           created == [g \in File |-> DecodedDate(cdate[g])]
<1>0. TypeOK /\ FoundBefore /\ OthersSeen /\ FreshUnlessWritten
  BY DEF EditInv
<1>1. CASE Find(p) \/ ReportNotFound(p) \/ RejectDate(p)
  <2>1. DisturbedEdits' = DisturbedEdits
    BY <1>0, <1>1
    DEF Find, ReportNotFound, RejectDate, DisturbedEdits, TypeOK, Editable
  <2>2. UNCHANGED <<attrs, cdate, adate>>
    BY <1>1 DEF Find, ReportNotFound, RejectDate, volume
  <2> QED
    BY <2>1, <2>2 DEF Abstract!vars, DisturbedEdits
<1>2. CASE WriteAttributes(p)
  <2> DEFINE written == WithFlag(seen[p], req[p].op, req[p].value)
  <2>1. /\ f \in File /\ pc[p] = "writing" /\ req[p].op \in Editable
        /\ req[p].value \in BOOLEAN /\ seen[p] \in SUBSET Attr
    BY <1>0, <1>2, RequestFields DEF WriteAttributes, FoundBefore, TypeOK
  <2>2. /\ attrs' = [attrs EXCEPT ![f] = written]
        /\ created' = created /\ adate' = adate
        /\ pc' = [pc EXCEPT ![p] = "done"] /\ req' = req
        /\ \A q \in Process : pc[q] = "done" => since'[q] = since[q]
        /\ since'[p] = since[p]
    BY <1>2 DEF WriteAttributes
  <2>3. CASE since[p] = {}
    <3>1. seen[p] = attrs[f]
      BY <1>0, <2>1, <2>3 DEF FreshUnlessWritten
    <3>2. written = Abstract!With(attrs[f], req[p].op, req[p].value)
      BY <3>1 DEF WithFlag, Abstract!With
    <3>3. DisturbedEdits' = DisturbedEdits
      BY <1>0, <2>1, <2>2, <2>3 DEF DisturbedEdits, TypeOK
    <3>4. Abstract!SetAttribute(f, req[p].op, req[p].value)
      BY <2>2, <3>2, <3>3 DEF Abstract!SetAttribute, DisturbedEdits
    <3> QED
      BY <2>1, <3>4 DEF Abstract!Next
  <2>4. CASE since[p] # {}
    <3>1. /\ p \notin DisturbedEdits
          /\ DisturbedEdits' = DisturbedEdits \cup {p}
      BY <1>0, <2>1, <2>2, <2>4 DEF DisturbedEdits, TypeOK
    <3>2. written = (attrs[f] \ Editable) \cup (written \cap Editable)
      <4>1. written \ Editable = attrs[f] \ Editable
        BY <1>0, <2>1, FlagOfAttr DEF OthersSeen
      <4> QED
        BY <4>1
    <3>3. attrs' = [attrs EXCEPT ![f] =
                      (attrs[f] \ Editable) \cup (written \cap Editable)]
      BY <2>2, <3>2
    <3> HIDE DEF written
    <3>4. \E s \in SUBSET Editable :
            attrs' = [attrs EXCEPT ![f] = (attrs[f] \ Editable) \cup s]
      <4>1. written \cap Editable \in SUBSET Editable
        OBVIOUS
      <4> QED
        BY <3>3, <4>1
    <3>5. Abstract!Disturbed(f, p)
      BY <2>2, <3>1, <3>4 DEF Abstract!Disturbed, DisturbedEdits
    <3> QED
      BY <2>1, <3>5 DEF Abstract!Next
  <2> QED
    BY <2>3, <2>4
<1>3. CASE WriteDate(p)
  <2> DEFINE d == req[p].date
  <2>1. f \in File /\ d \in Date
    BY <1>0, <1>3, RequestFields DEF WriteDate, FoundBefore
  <2>2. /\ cdate' = [cdate EXCEPT ![f] = LowWord(d)]
        /\ adate' = [adate EXCEPT ![f] = HighWord(d)]
        /\ attrs' = attrs
    BY <1>3 DEF WriteDate
  <2>3. /\ DecodedDate(LowWord(d)) = Abstract!Stored(d)
        /\ HighWord(d) = Abstract!Spill(d)
    BY <2>1, DateRoundTrip
  <2>4. created' = [created EXCEPT ![f] = Abstract!Stored(d)]
    BY <1>0, <2>1, <2>2, <2>3 DEF TypeOK
  <2>5. adate' = [adate EXCEPT ![f] = Abstract!Spill(d)]
    BY <2>2, <2>3
  <2>6. DisturbedEdits' = DisturbedEdits
    BY <1>0, <1>3 DEF WriteDate, DisturbedEdits, TypeOK, Editable
  <2>7. Abstract!SetCreationDate(f, d)
    BY <2>2, <2>4, <2>5, <2>6 DEF Abstract!SetCreationDate, DisturbedEdits
  <2> QED
    BY <2>1, <2>7 DEF Abstract!Next
<1> QED
  BY <1>1, <1>2, <1>3 DEF Step

\* FAT32_SetHiddenFlag, FAT32_SetRonlyFlag and FAT32_SetCreationDate, run by any
\* number of invocations without a lock, make each edit at one moment; only
\* an edit of attributes that another one has overtaken may bring back what
\* its search read, and never an attribute that no command names.
THEOREM EditsImplementVolumeEdits == Spec => ImplementsVolumeEdits
<1>1. ASSUME EditInv, [Next]_vars PROVE [Abstract!Next]_(Abstract!vars)
  <2>1. CASE UNCHANGED vars
    BY <2>1 DEF vars, volume, Abstract!vars
  <2> QED
    BY <1>1, <2>1, StepImplements DEF Next
<1> QED
  BY <1>1, EditInvariant, InitImplements, PTL
  DEF Spec, ImplementsVolumeEdits, Abstract!Spec
=============================================================================

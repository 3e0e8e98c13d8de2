--------------------------- MODULE Ext4EditProofs ---------------------------
(***************************************************************************)
(* What the edits of EXT4 inodes keep to, for any number of invocations,   *)
(* files, groups and tables, and for inodes of any size.                   *)
(***************************************************************************)
EXTENDS Ext4Edit, TLAPS

(***************************************************************************)
(* Division with a divisor that is a parameter.                            *)
(***************************************************************************)
LEMMA DivisionUnique ==
  ASSUME NEW a \in Int, NEW c \in Int, NEW b \in Int, b > 0,
         a \div b = c \div b, a % b = c % b
  PROVE  a = c
  BY Z3

LEMMA TimesMonotone ==
  ASSUME NEW x \in Int, NEW y \in Int, NEW s \in Int, s > 0, x < y
  PROVE  x * s + s <= y * s /\ x * s \in Int /\ y * s \in Int
<1>1. (y - x - 1) * s >= 0
  BY Z3
<1>2. (y - x - 1) * s = y * s - x * s - s
  BY Z3
<1> QED
  BY <1>1, <1>2, Z3

LEMMA SmallMod ==
  ASSUME NEW a \in Int, NEW b \in Int, 0 <= a, a < b
  PROVE  a % b = a
  BY Z3

LEMMA ModBelow ==
  ASSUME NEW a \in Int, NEW b \in Int, 0 <= a, b > 0
  PROVE  a % b \in Int /\ 0 <= a % b /\ a % b <= a
  BY Z3

LEMMA QuotientBelow ==
  ASSUME NEW a \in Int, NEW b \in Int, NEW k \in Int, 0 <= a, b > 0, a < k * b
  PROVE  a \div b < k
  BY Z3

LEMMA QuotientOfSum ==
  ASSUME NEW d \in Int, NEW c \in Int, NEW b \in Int, 0 <= c, c < b
  PROVE  (d * b + c) \div b = d
  BY Z3
(***************************************************************************)
(* Positions: no two fields share a word.                                  *)
(***************************************************************************)
LEMMA InodeParts ==
  ASSUME NEW n \in File
  PROVE  /\ n \in Int /\ n >= 1
         /\ GroupOf(n) \in Int /\ GroupOf(n) >= 0
         /\ CastGroup(n) \in Int
         /\ IndexOf(n) \in Int /\ 0 <= IndexOf(n) /\ IndexOf(n) < InodesPerGroup
         /\ GroupOf(n) \in Group /\ CastGroup(n) \in Group
<1>1. /\ n \in Int /\ 1 <= n /\ n <= Groups * InodesPerGroup
      /\ InodesPerGroup \in Int /\ InodesPerGroup > 0
      /\ Groups \in Int /\ Groups > 0
      /\ GroupMod \in Int /\ GroupMod > 0
  <2>1. n \in 1 .. Groups * InodesPerGroup
    BY FileAssumption DEF InodeNumber
  <2>2. Groups * InodesPerGroup \in Int
    BY GroupsAssumption, Z3
  <2> QED
    BY <2>1, <2>2, GroupsAssumption
<1>2. n - 1 \in Int /\ 0 <= n - 1 /\ n - 1 < Groups * InodesPerGroup
  BY <1>1, Z3
<1>3. /\ GroupOf(n) \in Int /\ GroupOf(n) >= 0
      /\ IndexOf(n) \in Int /\ 0 <= IndexOf(n) /\ IndexOf(n) < InodesPerGroup
  BY <1>1, <1>2, Z3 DEF GroupOf, IndexOf
<1>4. GroupOf(n) < Groups
  BY <1>1, <1>2, QuotientBelow DEF GroupOf
<1>5. CastGroup(n) \in Int /\ 0 <= CastGroup(n) /\ CastGroup(n) <= GroupOf(n)
  BY <1>1, <1>3, ModBelow DEF CastGroup
<1> QED
  BY <1>1, <1>3, <1>4, <1>5 DEF Group

\* Words i * s + f and j * s + g of two tables, of which the second starts
\* behind the first one, or of the same table.
LEMMA WordsApart ==
  ASSUME NEW s \in Int, s > 0, NEW m \in Int,
         NEW i \in Int, 0 <= i, i < m, NEW j \in Int, 0 <= j, j < m,
         NEW f \in Int, NEW g \in Int, f - g < s, g - f < s,
         NEW t \in Int, NEW u \in Int, t + m * s <= u \/ u + m * s <= t \/ t = u,
         t + i * s + f = u + j * s + g
  PROVE  t = u /\ i = j /\ f = g
<1>1. i * s \in Int /\ j * s \in Int /\ m * s \in Int
  BY Z3
<1>2. i * s + s <= m * s /\ j * s + s <= m * s /\ 0 <= i * s /\ 0 <= j * s
  <2>1. i * s + s <= m * s /\ j * s + s <= m * s
    BY TimesMonotone
  <2>2. 0 <= i * s /\ 0 <= j * s
    BY Z3
  <2> QED
    BY <2>1, <2>2
<1>3. t = u
  BY <1>1, <1>2
<1>4. i * s + f = j * s + g
  BY <1>1, <1>3
<1>5. ~(i < j) /\ ~(j < i)
  <2>1. i < j => i * s + s <= j * s
    BY TimesMonotone
  <2>2. j < i => j * s + s <= i * s
    BY TimesMonotone
  <2> QED
    BY <1>1, <1>4, <2>1, <2>2
<1>6. i = j
  BY <1>5
<1> QED
  BY <1>1, <1>3, <1>4, <1>6

LEMMA TablesApart ==
  ASSUME inodeSize \in InodeSizes, NEW g \in Group, NEW h \in Group
  PROVE  /\ TableStart[g] \in Int /\ TableStart[h] \in Int
         /\ inodeSize \in Int /\ inodeSize > CreationTime - Flags
         /\ InodesPerGroup \in Int
         /\ g = h \/ TableStart[g] + InodesPerGroup * inodeSize <= TableStart[h]
                  \/ TableStart[h] + InodesPerGroup * inodeSize <= TableStart[g]
<1>1. TableStart[g] \in Int /\ TableStart[h] \in Int
  BY TableAssumption
<1>2. inodeSize \in Int /\ inodeSize > CreationTime - Flags
  BY SizeAssumption
<1>3. g \in Int /\ h \in Int
  BY DEF Group
<1>4. g = h \/ g < h \/ h < g
  BY <1>3
<1> QED
  BY <1>1, <1>2, <1>4, TableAssumption, GroupsAssumption DEF TableLength

\* A creation time, also one that is written behind its inode, is never
\* written where the code looks for flags.
LEMMA FlagsApart ==
  ASSUME inodeSize \in InodeSizes, NEW n \in File, NEW m \in File
  PROVE  Position(n, CreationTime) # Position(m, Flags)
<1>1. /\ IndexOf(n) \in Int /\ 0 <= IndexOf(n) /\ IndexOf(n) < InodesPerGroup
      /\ IndexOf(m) \in Int /\ 0 <= IndexOf(m) /\ IndexOf(m) < InodesPerGroup
      /\ CastGroup(n) \in Group /\ CastGroup(m) \in Group
  BY InodeParts
<1> DEFINE t == TableStart[CastGroup(n)]
           u == TableStart[CastGroup(m)]
<1>2. /\ t \in Int /\ u \in Int /\ inodeSize \in Int /\ InodesPerGroup \in Int
      /\ inodeSize > CreationTime - Flags
      /\ \/ t = u
         \/ t + InodesPerGroup * inodeSize <= u
         \/ u + InodesPerGroup * inodeSize <= t
  BY <1>1, TablesApart
<1> HIDE DEF t, u
<1>3. t + IndexOf(n) * inodeSize + 36 # u + IndexOf(m) * inodeSize + 8
  <2> SUFFICES ASSUME t + IndexOf(n) * inodeSize + 36
                        = u + IndexOf(m) * inodeSize + 8
               PROVE  FALSE
    OBVIOUS
  <2>1. inodeSize > 28
    BY <1>2 DEF CreationTime, Flags
  <2>2. 36 = 8
    BY <1>1, <1>2, <2>1, WordsApart
  <2> QED
    BY <2>2
<1> QED
  BY <1>3 DEF Position, CreationTime, Flags, t, u

\* Inodes that are large enough share no field.
LEMMA FieldsApart ==
  ASSUME inodeSize \in InodeSizes, inodeSize > CreationTime,
         NEW n \in File, NEW m \in File, NEW f \in Field, NEW g \in Field,
         OwnPosition(n, f) = OwnPosition(m, g)
  PROVE  n = m /\ f = g
<1>1. /\ IndexOf(n) \in Int /\ 0 <= IndexOf(n) /\ IndexOf(n) < InodesPerGroup
      /\ IndexOf(m) \in Int /\ 0 <= IndexOf(m) /\ IndexOf(m) < InodesPerGroup
      /\ GroupOf(n) \in Group /\ GroupOf(m) \in Group
      /\ n \in Int /\ m \in Int
  BY InodeParts
<1>2. f \in Int /\ g \in Int /\ f - g < inodeSize /\ g - f < inodeSize
  BY SizeAssumption DEF Field, ModificationTime, Flags, CreationTime
<1> DEFINE t == TableStart[GroupOf(n)]
           u == TableStart[GroupOf(m)]
<1>3. /\ t \in Int /\ u \in Int /\ inodeSize \in Int /\ InodesPerGroup \in Int
      /\ inodeSize > 0 /\ InodesPerGroup > 0
      /\ \/ GroupOf(n) = GroupOf(m)
         \/ t + InodesPerGroup * inodeSize <= u
         \/ u + InodesPerGroup * inodeSize <= t
  BY <1>1, TablesApart, GroupsAssumption DEF CreationTime
<1>4. t + IndexOf(n) * inodeSize + f = u + IndexOf(m) * inodeSize + g
  BY DEF OwnPosition
<1>5. GroupOf(n) = GroupOf(m) => t = u
  OBVIOUS
<1> HIDE DEF t, u
<1>6. t = u /\ IndexOf(n) = IndexOf(m) /\ f = g
  <2>1. \/ t + InodesPerGroup * inodeSize <= u
        \/ u + InodesPerGroup * inodeSize <= t
        \/ t = u
    BY <1>3, <1>5
  <2>2. /\ t \in Int /\ u \in Int /\ inodeSize \in Int /\ InodesPerGroup \in Int
        /\ inodeSize > 0
    BY <1>3
  <2> DEFINE i == IndexOf(n)
             j == IndexOf(m)
  <2>3. /\ i \in Int /\ 0 <= i /\ i < InodesPerGroup
        /\ j \in Int /\ 0 <= j /\ j < InodesPerGroup
    BY <1>1
  <2>4. t + i * inodeSize + f = u + j * inodeSize + g
    BY <1>4
  <2> HIDE DEF i, j
  <2>5. t = u /\ i = j /\ f = g
    BY <1>2, <2>1, <2>2, <2>3, <2>4, WordsApart
  <2> QED
    BY <2>5 DEF i, j
<1>7. GroupOf(n) = GroupOf(m)
  <2>1. InodesPerGroup * inodeSize > 0
    BY <1>3, Z3
  <2>2. InodesPerGroup * inodeSize \in Int
    BY <1>3, Z3
  <2> QED
    BY <1>3, <1>6, <2>1, <2>2
<1>8. n - 1 = m - 1
  BY <1>1, <1>3, <1>6, <1>7, DivisionUnique DEF GroupOf, IndexOf
<1> QED
  BY <1>1, <1>6, <1>8

LEMMA CodeIsOwn ==
  ASSUME Contained, NEW n \in File, NEW f
  PROVE  Position(n, f) = OwnPosition(n, f)
<1>1. GroupOf(n) \in Int /\ GroupOf(n) >= 0 /\ GroupOf(n) < GroupMod
  BY InodeParts DEF Contained
<1>2. CastGroup(n) = GroupOf(n)
  BY <1>1, GroupsAssumption, SmallMod DEF CastGroup
<1> QED
  BY <1>2 DEF Position, OwnPosition

(***************************************************************************)
(* Words.                                                                  *)
(***************************************************************************)
Others(w) == w - 16 * Bit(w)

LEMMA FlagBit ==
  ASSUME NEW w \in Word, NEW value \in BOOLEAN
  PROVE  /\ WithImmutable(w, value) \in Word
         /\ Bit(WithImmutable(w, value)) = IF value THEN 1 ELSE 0
         /\ Others(WithImmutable(w, value)) = Others(w)
<1>1. w \in Int /\ 0 <= w /\ w < WordMod /\ WordMod \in Int /\ WordMod % 32 = 0
  BY WordAssumption DEF Word
<1>2. ASSUME NEW x \in Int, 0 <= x, x < WordMod
      PROVE  /\ x - 16 * ((x \div 16) % 2) \in Int
             /\ 0 <= x - 16 * ((x \div 16) % 2)
             /\ x - 16 * ((x \div 16) % 2) + 16 < WordMod
             /\ ((x - 16 * ((x \div 16) % 2)) \div 16) % 2 = 0
             /\ ((x - 16 * ((x \div 16) % 2) + 16) \div 16) % 2 = 1
  BY <1>1, <1>2, Z3
<1>3. CASE value
  <2>1. WithImmutable(w, value) = w - 16 * ((w \div 16) % 2) + 16
    BY <1>1, <1>3 DEF WithImmutable, Bit
  <2>2. Bit(WithImmutable(w, value)) = 1
    BY <1>1, <1>2, <2>1 DEF Bit
  <2>3. WithImmutable(w, value) \in Word
    BY <1>1, <1>2, <2>1 DEF Word
  <2>4. Others(WithImmutable(w, value)) = w - 16 * ((w \div 16) % 2)
    BY <1>1, <1>2, <2>1, <2>2 DEF Others
  <2> QED
    BY <1>3, <2>2, <2>3, <2>4 DEF Others, Bit
<1>4. CASE ~value
  <2>1. WithImmutable(w, value) = w - 16 * ((w \div 16) % 2)
    BY <1>1, <1>2, <1>4 DEF WithImmutable, Bit
  <2>2. Bit(WithImmutable(w, value)) = 0
    BY <1>1, <1>2, <2>1 DEF Bit
  <2>3. WithImmutable(w, value) \in Word
    BY <1>1, <1>2, <2>1 DEF Word
  <2>4. Others(WithImmutable(w, value)) = w - 16 * ((w \div 16) % 2)
    BY <1>1, <1>2, <2>1, <2>2 DEF Others
  <2> QED
    BY <1>4, <2>2, <2>3, <2>4 DEF Others, Bit
<1> QED
  BY <1>3, <1>4

LEMMA TimeIsWord ==
  ASSUME NEW d \in Int, NEW c \in Int
  PROVE  crDate(d, c) \in Word
<1>1. d * DayLength + c \in Int
  BY DayAssumption, Z3
<1>2. /\ (d * DayLength + c) % WordMod \in Int
      /\ 0 <= (d * DayLength + c) % WordMod
      /\ (d * DayLength + c) % WordMod < WordMod
  BY <1>1, WordAssumption, Z3
<1> QED
  BY <1>2, WordAssumption DEF crDate, Word

\* Up to the last whole day a time of day gives back its day.
LEMMA DayOfTime ==
  ASSUME NEW d \in Int, NEW c \in Int, 0 <= c, c < DayLength,
         0 <= d, d <= (WordMod \div DayLength) - 1
  PROVE  StampDay(crDate(d, c)) = d
<1>1. /\ DayLength \in Int /\ DayLength > 0 /\ WordMod \in Int
      /\ WordMod \div DayLength \in Int
  BY DayAssumption, WordAssumption, Z3
<1>2. d * DayLength + DayLength <= (WordMod \div DayLength) * DayLength
  BY <1>1, TimesMonotone
<1>3. (WordMod \div DayLength) * DayLength <= WordMod
  BY <1>1, Z3
<1>4. d * DayLength \in Int /\ 0 <= d * DayLength
      /\ (WordMod \div DayLength) * DayLength \in Int
  BY <1>1, Z3
<1>5. (d * DayLength + c) % WordMod = d * DayLength + c
  BY <1>1, <1>2, <1>3, <1>4, SmallMod
<1>6. (d * DayLength + c) \div DayLength = d
  BY <1>1, QuotientOfSum
<1> QED
  BY <1>5, <1>6 DEF StampDay, crDate

-----------------------------------------------------------------------------
(***************************************************************************)
(* The invariant.                                                          *)
(***************************************************************************)

\* What is known of an invocation whose search has found its target.
FoundBefore ==
  \A p \in Process :
    /\ pc[p] \in {"found", "read", "done"} => req[p].target \in File
    /\ pc[p] = "read" => req[p].op = "ronly"
    /\ pc[p] = "done" /\ req[p].op = "date" => req[p].date \in Date

\* The flags that are never edited are on the disk as they were read.
OthersSeen ==
  \A p \in Process :
    pc[p] = "read" => Others(seen[p]) = Others(disk[FlagsOf(p)])

\* The creation time of a file is that of one of the edits done.
TimeIsOneWritten ==
  Contained =>
    \A n \in File : Setters(n) # {} =>
      \E p \in Setters(n) :
        disk[OwnPosition(n, CreationTime)] = crDate(req[p].date, clock[p])

EditInv ==
  TypeOK /\ FoundBefore /\ OthersSeen /\ TimeIsOneWritten

LEMMA RequestFields ==
  ASSUME TypeOK, NEW p \in Process
  PROVE  /\ req[p].op \in Operation
         /\ req[p].target \in File \cup {Absent}
         /\ req[p].value \in BOOLEAN
         /\ req[p].date \in Date \cup {BadDate}
         /\ clock[p] \in Int
<1>1. req[p] \in Request /\ clock[p] \in Clock
  BY RequestsAssumption DEF TypeOK
<1>2. clock[p] \in Int
  BY <1>1, ClockAssumption
<1> QED
  BY <1>1, <1>2 DEF Request

\* The layout of the volume never changes.
LEMMA PositionsStay ==
  ASSUME inodeSize' = inodeSize
  PROVE  /\ Positions' = Positions
         /\ \A n, f : Position(n, f)' = Position(n, f)
         /\ \A n, f : OwnPosition(n, f)' = OwnPosition(n, f)
         /\ Contained' <=> Contained
  BY DEF Positions, Position, OwnPosition, Contained

LEMMA InPositions ==
  ASSUME NEW n \in File, NEW f \in Field
  PROVE  Position(n, f) \in Positions /\ OwnPosition(n, f) \in Positions
  BY DEF Positions

LEMMA InitEdit == Init => EditInv
<1> SUFFICES ASSUME Init PROVE EditInv
  OBVIOUS
<1>1. TypeOK
  <2>1. disk \in [Positions -> Word]
    BY FirstWordsAssumption DEF Init
  <2>2. 0 \in Word
    BY WordAssumption DEF Word
  <2> QED
    BY <2>1, <2>2 DEF Init, TypeOK
<1>2. FoundBefore /\ OthersSeen
  BY DEF Init, FoundBefore, OthersSeen
<1>3. TimeIsOneWritten
  BY DEF Init, TimeIsOneWritten, Setters
<1> QED
  BY <1>1, <1>2, <1>3 DEF EditInv

\* The steps that leave the disk as it is.
LEMMA QuietStep ==
  ASSUME EditInv, NEW p \in Process,
         Find(p) \/ ReportNotFound(p) \/ ReadFlags(p) \/ RejectDate(p)
  PROVE  EditInv'
<1>0. TypeOK /\ FoundBefore /\ OthersSeen /\ TimeIsOneWritten
  BY DEF EditInv
<1>1. inodeSize' = inodeSize /\ disk' = disk /\ req' = req /\ clock' = clock
  BY DEF Find, ReportNotFound, ReadFlags, RejectDate
<1>2. /\ Positions' = Positions
      /\ \A q \in Process : FlagsOf(q)' = FlagsOf(q)
      /\ \A n, f : OwnPosition(n, f)' = OwnPosition(n, f)
      /\ Contained' <=> Contained
  BY <1>1, PositionsStay DEF FlagsOf
<1>3. pc' \in [Process -> {"ready", "found", "read", "done", "notfound",
                           "baddate"}]
      /\ \A q \in Process : pc'[q] = "done" <=> pc[q] = "done"
  BY <1>0 DEF Find, ReportNotFound, ReadFlags, RejectDate, TypeOK
<1>4. \A q \in Process :
        pc'[q] = "read" => \/ pc[q] = "read" /\ seen'[q] = seen[q]
                           \/ seen'[q] = disk[FlagsOf(q)]
  BY <1>0 DEF Find, ReportNotFound, ReadFlags, RejectDate, TypeOK
<1>5. FoundBefore'
  BY <1>0, <1>1, RequestFields
  DEF Find, ReportNotFound, ReadFlags, RejectDate, TypeOK, FoundBefore
<1>6. seen' \in [Process -> Word]
  <2>1. CASE ReadFlags(p)
    <3>1. req[p].target \in File
      BY <1>0, <2>1 DEF FoundBefore, ReadFlags
    <3>2. FlagsOf(p) \in Positions
      BY <3>1, InPositions DEF FlagsOf, Field
    <3> QED
      BY <1>0, <2>1, <3>2 DEF ReadFlags, TypeOK
  <2>2. CASE ~ReadFlags(p)
    BY <1>0, <2>2 DEF Find, ReportNotFound, RejectDate, TypeOK
  <2> QED
    BY <2>1, <2>2
<1>7. TypeOK'
  BY <1>0, <1>1, <1>2, <1>3, <1>6 DEF TypeOK
<1>8. OthersSeen'
  BY <1>0, <1>1, <1>2, <1>4 DEF OthersSeen
<1>9. TimeIsOneWritten'
  <2>1. \A n : Setters(n)' = Setters(n)
    BY <1>1, <1>3 DEF Setters
  <2> QED
    BY <1>0, <1>1, <1>2, <2>1 DEF TimeIsOneWritten
<1> QED
  BY <1>5, <1>7, <1>8, <1>9 DEF EditInv

\* A creation time is written over no flags the code reads.
LEMMA DateStep ==
  ASSUME EditInv, NEW p \in Process, WriteDate(p)
  PROVE  EditInv'
<1> DEFINE n == req[p].target
           t == crDate(req[p].date, clock[p])
<1>0. TypeOK /\ FoundBefore /\ OthersSeen /\ TimeIsOneWritten
  BY DEF EditInv
<1>1. /\ inodeSize' = inodeSize /\ req' = req /\ clock' = clock
      /\ seen' = seen
      /\ pc[p] = "found" /\ pc' = [pc EXCEPT ![p] = "done"]
      /\ disk' = [disk EXCEPT ![Position(n, CreationTime)] = t]
      /\ n \in File /\ req[p].op = "date" /\ req[p].date \in Date
  BY <1>0, RequestFields DEF WriteDate, FoundBefore
<1>2. /\ Positions' = Positions
      /\ \A q \in Process : FlagsOf(q)' = FlagsOf(q)
      /\ \A m, f : OwnPosition(m, f)' = OwnPosition(m, f)
      /\ Contained' <=> Contained
  BY <1>1, PositionsStay DEF FlagsOf
<1>3. t \in Word /\ disk' \in [Positions -> Word]
  BY <1>0, <1>1, TimeIsWord, RequestFields, DateAssumption DEF TypeOK
<1>4. TypeOK'
  BY <1>0, <1>1, <1>2, <1>3 DEF TypeOK
<1>5. \A q \in Process : pc'[q] = "read" =>
        /\ pc[q] = "read" /\ req[q].target \in File
        /\ disk'[FlagsOf(q)] = disk[FlagsOf(q)]
  <2> SUFFICES ASSUME NEW q \in Process, pc'[q] = "read"
               PROVE  /\ pc[q] = "read" /\ req[q].target \in File
                      /\ disk'[FlagsOf(q)] = disk[FlagsOf(q)]
    OBVIOUS
  <2>1. pc[q] = "read" /\ req[q].target \in File
    BY <1>0, <1>1 DEF TypeOK, FoundBefore
  <2>2. FlagsOf(q) # Position(n, CreationTime)
    BY <1>0, <1>1, <2>1, FlagsApart DEF FlagsOf, TypeOK
  <2>3. FlagsOf(q) \in Positions
    BY <2>1, InPositions DEF FlagsOf, Field
  <2> QED
    BY <1>0, <1>1, <2>1, <2>2, <2>3 DEF TypeOK
<1>6. OthersSeen'
  BY <1>0, <1>1, <1>2, <1>5 DEF OthersSeen
<1>7. FoundBefore'
  BY <1>0, <1>1 DEF FoundBefore, TypeOK
<1>8. TimeIsOneWritten'
  <2> SUFFICES ASSUME Contained, NEW m \in File, Setters(m)' # {}
               PROVE  \E q \in Setters(m)' :
                        disk'[OwnPosition(m, CreationTime)]
                          = crDate(req[q].date, clock[q])
    BY <1>1, <1>2 DEF TimeIsOneWritten
  <2>1. Position(n, CreationTime) = OwnPosition(n, CreationTime)
    BY <1>1, CodeIsOwn
  <2>2. OwnPosition(m, CreationTime) \in Positions
    BY InPositions DEF Field
  <2>3. CASE m = n
    <3>1. p \in Setters(m)'
      BY <1>0, <1>1, <2>3 DEF Setters, TypeOK
    <3>2. disk'[OwnPosition(m, CreationTime)] = t
      BY <1>0, <1>1, <2>1, <2>2, <2>3 DEF TypeOK
    <3> QED
      BY <3>1, <3>2
  <2>4. CASE m # n
    <3>1. Setters(m)' = Setters(m)
      BY <1>0, <1>1, <2>4 DEF Setters, TypeOK
    <3>2. OwnPosition(m, CreationTime) # OwnPosition(n, CreationTime)
      BY <1>0, <1>1, <2>4, FieldsApart DEF TypeOK, Contained, Field
    <3>3. disk'[OwnPosition(m, CreationTime)] = disk[OwnPosition(m, CreationTime)]
      BY <1>0, <1>1, <2>1, <2>2, <3>2 DEF TypeOK
    <3> QED
      BY <1>0, <3>1, <3>3 DEF TimeIsOneWritten
  <2> QED
    BY <2>3, <2>4
<1> QED
  BY <1>4, <1>6, <1>7, <1>8 DEF EditInv

LEMMA FlagsStep ==
  ASSUME EditInv, NEW p \in Process, WriteFlags(p)
  PROVE  EditInv'
<1> DEFINE n == req[p].target
           w == WithImmutable(seen[p], req[p].value)
<1>0. TypeOK /\ FoundBefore /\ OthersSeen /\ TimeIsOneWritten
  BY DEF EditInv
<1>1. /\ inodeSize' = inodeSize /\ req' = req /\ clock' = clock
      /\ seen' = seen
      /\ pc[p] = "read" /\ pc' = [pc EXCEPT ![p] = "done"]
      /\ disk' = [disk EXCEPT ![FlagsOf(p)] = w]
      /\ n \in File /\ req[p].op = "ronly"
  BY <1>0 DEF WriteFlags, FoundBefore
<1>2. /\ Positions' = Positions
      /\ \A q \in Process : FlagsOf(q)' = FlagsOf(q)
      /\ \A m, f : OwnPosition(m, f)' = OwnPosition(m, f)
      /\ Contained' <=> Contained
  BY <1>1, PositionsStay DEF FlagsOf
<1>3. w \in Word /\ Others(w) = Others(disk[FlagsOf(p)])
  BY <1>0, <1>1, FlagBit, RequestFields DEF TypeOK, OthersSeen
<1>4. FlagsOf(p) \in Positions
  BY <1>1, InPositions DEF FlagsOf, Field
<1>5. TypeOK'
  <2>1. disk' \in [Positions -> Word]
    BY <1>0, <1>1, <1>3, <1>4 DEF TypeOK
  <2> QED
    BY <1>0, <1>1, <1>2, <2>1 DEF TypeOK
<1>6. FoundBefore'
  BY <1>0, <1>1 DEF FoundBefore, TypeOK
<1>7. \A q \in Process : pc'[q] = "read" =>
        /\ q # p /\ pc[q] = "read" /\ FlagsOf(q) \in Positions
  BY <1>0, <1>1, InPositions DEF TypeOK, FoundBefore, FlagsOf, Field
<1>8. OthersSeen'
  BY <1>0, <1>1, <1>2, <1>3, <1>4, <1>7 DEF OthersSeen, TypeOK
<1>9. TimeIsOneWritten'
  <2> SUFFICES ASSUME Contained, NEW m \in File, Setters(m)' # {}
               PROVE  \E q \in Setters(m)' :
                        disk'[OwnPosition(m, CreationTime)]
                          = crDate(req[q].date, clock[q])
    BY <1>1, <1>2 DEF TimeIsOneWritten
  <2>1. Setters(m)' = Setters(m)
    BY <1>0, <1>1 DEF Setters, TypeOK
  <2>2. OwnPosition(m, CreationTime) \in Positions
    BY InPositions DEF Field
  <2>3. OwnPosition(m, CreationTime) # FlagsOf(p)
    BY <1>0, <1>1, CodeIsOwn, FlagsApart DEF FlagsOf, TypeOK
  <2>4. disk'[OwnPosition(m, CreationTime)] = disk[OwnPosition(m, CreationTime)]
    BY <1>0, <1>1, <2>2, <2>3 DEF TypeOK
  <2> QED
    BY <1>0, <2>1, <2>4 DEF TimeIsOneWritten
<1> QED
  BY <1>5, <1>6, <1>8, <1>9 DEF EditInv

LEMMA StutterKeepsEdit ==
  ASSUME EditInv, UNCHANGED vars
  PROVE  EditInv'
<1>1. /\ inodeSize' = inodeSize /\ disk' = disk /\ req' = req /\ clock' = clock
      /\ pc' = pc /\ seen' = seen
  BY DEF vars
<1>2. /\ Positions' = Positions
      /\ \A q \in Process : FlagsOf(q)' = FlagsOf(q)
      /\ \A n, f : OwnPosition(n, f)' = OwnPosition(n, f)
      /\ Contained' <=> Contained
      /\ \A n : Setters(n)' = Setters(n)
  BY <1>1, PositionsStay DEF FlagsOf, Setters
<1> QED
  BY <1>1, <1>2
  DEF EditInv, TypeOK, FoundBefore, OthersSeen, TimeIsOneWritten

LEMMA NextKeepsEdit == EditInv /\ [Next]_vars => EditInv'
<1> SUFFICES ASSUME EditInv, [Next]_vars PROVE EditInv'
  OBVIOUS
<1>1. CASE UNCHANGED vars
  BY <1>1, StutterKeepsEdit
<1>2. ASSUME NEW p \in Process, Step(p) PROVE EditInv'
  BY <1>2, QuietStep, DateStep, FlagsStep DEF Step
<1> QED
  BY <1>1, <1>2 DEF Next

LEMMA EditInvariant == Spec => []EditInv
  BY InitEdit, NextKeepsEdit, PTL DEF Spec

-----------------------------------------------------------------------------
(***************************************************************************)
(* What follows from it.                                                   *)
(***************************************************************************)

\* Whatever the invocations write, every word of the inodes stays one of 32
\* bits and no other word is written: mktime's value is cut, the flags' is not
\* larger than what was read.
THEOREM Ext4EditTypeOK == Spec => []TypeOK
<1>1. EditInv => TypeOK
  BY DEF EditInv
<1> QED
  BY <1>1, EditInvariant, PTL

\* EXT4_SetRonlyFlag writes back flags it read before, at a position computed
\* from the inode's number: for every interleaving, only the word it names of
\* the inode it names changes, and of the flags only the immutable one; and
\* EXT4_SetCreationDate changes the creation time of its file alone.
THEOREM Ext4OnlyNamedChange == Spec => OnlyNamedChange
<1>1. ASSUME EditInv, [Next]_vars
      PROVE  [Contained =>
                \A n \in File, field \in Field :
                  disk[OwnPosition(n, field)] # disk'[OwnPosition(n, field)] =>
                    /\ \E p \in Process : Names(p, n, field)
                    /\ field = Flags =>
                         Others(disk'[OwnPosition(n, field)])
                           = Others(disk[OwnPosition(n, field)])]_vars
  <2>1. CASE UNCHANGED vars
    BY <2>1
  <2>2. ASSUME NEW p \in Process, Step(p), Contained,
               NEW n \in File, NEW field \in Field,
               disk[OwnPosition(n, field)] # disk'[OwnPosition(n, field)]
        PROVE  /\ Names(p, n, field)
               /\ field = Flags =>
                    Others(disk'[OwnPosition(n, field)])
                      = Others(disk[OwnPosition(n, field)])
    <3>0. TypeOK /\ FoundBefore /\ OthersSeen
      BY <1>1 DEF EditInv
    <3>1. inodeSize \in InodeSizes /\ inodeSize > CreationTime
      BY <2>2, <3>0 DEF TypeOK, Contained
    <3>2. CASE WriteFlags(p)
      <4>1. /\ req[p].target \in File /\ req[p].op = "ronly"
            /\ pc[p] = "read" /\ pc'[p] = "done"
        BY <3>0, <3>2 DEF WriteFlags, FoundBefore, TypeOK
      <4>2. FlagsOf(p) = OwnPosition(req[p].target, Flags)
        BY <2>2, <4>1, CodeIsOwn DEF FlagsOf
      <4>3. OwnPosition(n, field) = OwnPosition(req[p].target, Flags)
        BY <2>2, <3>2, <4>2 DEF WriteFlags
      <4>4. n = req[p].target /\ field = Flags
        BY <2>2, <3>1, <4>1, <4>3, FieldsApart DEF Field
      <4>5. FlagsOf(p) \in Positions
        BY <4>1, <4>2, InPositions DEF Field
      <4>6. disk'[FlagsOf(p)] = WithImmutable(seen[p], req[p].value)
        BY <3>0, <3>2, <4>5 DEF WriteFlags, TypeOK
      <4>7. Others(WithImmutable(seen[p], req[p].value)) = Others(seen[p])
        BY <3>0, FlagBit, RequestFields DEF TypeOK
      <4>8. Others(seen[p]) = Others(disk[FlagsOf(p)])
        BY <3>0, <4>1 DEF OthersSeen
      <4> QED
        BY <4>1, <4>2, <4>4, <4>6, <4>7, <4>8 DEF Names
    <3>3. CASE WriteDate(p)
      <4>1. /\ req[p].target \in File /\ req[p].op = "date"
            /\ pc[p] = "found" /\ pc'[p] = "done"
        BY <3>0, <3>3 DEF WriteDate, FoundBefore, TypeOK
      <4>2. Position(req[p].target, CreationTime)
              = OwnPosition(req[p].target, CreationTime)
        BY <2>2, <4>1, CodeIsOwn
      <4>3. OwnPosition(n, field) = OwnPosition(req[p].target, CreationTime)
        BY <2>2, <3>3, <4>2 DEF WriteDate
      <4>4. n = req[p].target /\ field = CreationTime
        BY <2>2, <3>1, <4>1, <4>3, FieldsApart DEF Field
      <4> QED
        BY <4>1, <4>4 DEF Names, Flags, CreationTime
    <3>4. CASE ~WriteFlags(p) /\ ~WriteDate(p)
      BY <2>2, <3>4 DEF Step, Find, ReportNotFound, ReadFlags, RejectDate
    <3> QED
      BY <3>2, <3>3, <3>4
  <2> QED
    BY <1>1, <2>1, <2>2 DEF Next
<1> QED
  BY <1>1, EditInvariant, PTL DEF Spec, OnlyNamedChange, Others

\* EXT4_SetRonlyFlag writes flags it read earlier, and is exact all the same:
\* no other invocation of the program changes any other flag meanwhile, nor
\* does a creation time land on flags, wherever it is written.
THEOREM Ext4FlagEditsExact == Spec => FlagEditsExact
<1>1. ASSUME EditInv, [Next]_vars
      PROVE  [\A p \in Process :
                pc[p] = "read" /\ pc'[p] = "done" =>
                  /\ Bit(disk'[FlagsOf(p)]) = IF req[p].value THEN 1 ELSE 0
                  /\ Others(disk'[FlagsOf(p)]) = Others(disk[FlagsOf(p)])]_vars
  <2>1. CASE UNCHANGED vars
    BY <2>1
  <2>2. ASSUME NEW q \in Process, Step(q), NEW p \in Process,
               pc[p] = "read", pc'[p] = "done"
        PROVE  /\ Bit(disk'[FlagsOf(p)]) = IF req[p].value THEN 1 ELSE 0
               /\ Others(disk'[FlagsOf(p)]) = Others(disk[FlagsOf(p)])
    <3>0. TypeOK /\ FoundBefore /\ OthersSeen
      BY <1>1 DEF EditInv
    <3>1. q = p
      BY <2>2, <3>0
      DEF TypeOK, Step, Find, ReportNotFound, ReadFlags, WriteFlags,
          WriteDate, RejectDate
    <3>2. WriteFlags(p)
      BY <2>2, <3>0, <3>1
      DEF Step, Find, ReportNotFound, ReadFlags, WriteDate, RejectDate
    <3>3. req[p].target \in File /\ Others(seen[p]) = Others(disk[FlagsOf(p)])
      BY <2>2, <3>0 DEF FoundBefore, OthersSeen
    <3>4. FlagsOf(p) \in Positions
      BY <3>3, InPositions DEF FlagsOf, Field
    <3>5. disk'[FlagsOf(p)] = WithImmutable(seen[p], req[p].value)
      BY <3>0, <3>2, <3>4 DEF WriteFlags, TypeOK
    <3>6. /\ Bit(WithImmutable(seen[p], req[p].value))
               = IF req[p].value THEN 1 ELSE 0
          /\ Others(WithImmutable(seen[p], req[p].value)) = Others(seen[p])
      BY <3>0, FlagBit, RequestFields DEF TypeOK
    <3> QED
      BY <3>3, <3>5, <3>6
  <2> QED
    BY <1>1, <2>1, <2>2 DEF Next
<1> QED
  BY <1>1, EditInvariant, PTL DEF Spec, FlagEditsExact, Others

\* The time stamp EXT4_SetCreationDate leaves in a file's inode falls on a day
\* the file was set to, where the fields that strptime leaves alone hold a time
\* of day and the day is one of the 32 bits, whatever the length of a day and
\* the width of a word.
THEOREM Ext4StampsOnAskedDay == Spec => []StampOnAskedDay
<1>1. ASSUME EditInv PROVE StampOnAskedDay
  <2> SUFFICES ASSUME Contained, NEW n \in File, Setters(n) # {},
                      \A p \in Setters(n) :
                        /\ clock[p] \in 0 .. DayLength - 1
                        /\ req[p].date \in 0 .. (WordMod \div DayLength) - 1
               PROVE  StampDay(disk[OwnPosition(n, CreationTime)]) \in AskedDates(n)
    BY DEF StampOnAskedDay
  <2>1. PICK p \in Setters(n) :
          disk[OwnPosition(n, CreationTime)] = crDate(req[p].date, clock[p])
    BY <1>1 DEF EditInv, TimeIsOneWritten
  <2>2. StampDay(crDate(req[p].date, clock[p])) = req[p].date
    <3> DEFINE d == req[p].date
               c == clock[p]
    <3>1. c \in Int /\ 0 <= c /\ c < DayLength
      BY <2>1, DayAssumption
    <3>2. WordMod \div DayLength \in Int
      BY DayAssumption, WordAssumption, Z3
    <3>3. d \in Int /\ 0 <= d /\ d <= (WordMod \div DayLength) - 1
      BY <2>1, <3>2
    <3> HIDE DEF d, c
    <3>4. StampDay(crDate(d, c)) = d
      BY <3>1, <3>3, DayOfTime
    <3> QED
      BY <3>4 DEF d, c
  <2> QED
    BY <2>1, <2>2 DEF AskedDates
<1> QED
  BY <1>1, EditInvariant, PTL

-----------------------------------------------------------------------------
(***************************************************************************)
(* The refinement.                                                         *)
(***************************************************************************)

\* What a volume shows of a file, in the terms of InodeEdits.
Immutable == [n \in File |-> Bit(disk[OwnPosition(n, Flags)]) = 1]

Created == [n \in File |-> disk[OwnPosition(n, CreationTime)]]

Rest ==
  [n \in File |->
     LET w == disk[OwnPosition(n, Flags)] IN
     [flags |-> w - 16 * Bit(w),
      mtime |-> disk[OwnPosition(n, ModificationTime)]]]

LEMMA InitImplements == Init => Abstract!Init
<1> SUFFICES ASSUME Init PROVE Abstract!Init
  OBVIOUS
<1>1. disk \in [Positions -> Word]
  BY InitEdit DEF EditInv, TypeOK
<1>2. ASSUME NEW n \in File, NEW f \in Field
      PROVE  disk[OwnPosition(n, f)] \in Word
  BY <1>1, InPositions
<1>3. ASSUME NEW w \in Word PROVE w - 16 * Bit(w) \in Word
  <2>1. w \in Int /\ 0 <= w /\ w < WordMod /\ WordMod \in Int
    BY WordAssumption DEF Word
  <2>2. /\ w - 16 * ((w \div 16) % 2) \in Int
        /\ 0 <= w - 16 * ((w \div 16) % 2)
        /\ w - 16 * ((w \div 16) % 2) <= w
    BY <2>1, Z3
  <2> QED
    BY <2>1, <2>2 DEF Bit, Word
<1>4. Immutable \in [File -> BOOLEAN]
  BY DEF Immutable
<1>5. Created \in [File -> Word]
  BY <1>2 DEF Created, Field
<1>6. Rest \in [File -> [flags : Word, mtime : Word]]
  BY <1>2, <1>3 DEF Rest, Field
<1>7. Contained \in BOOLEAN
  BY DEF Contained
<1> QED
  BY <1>4, <1>5, <1>6, <1>7 DEF Abstract!Init, Immutable, Created, Rest, Word

LEMMA StepImplements ==
  ASSUME EditInv, Contained, NEW p \in Process, Step(p)
  PROVE  [Abstract!Next]_(Abstract!vars)
<1> DEFINE n == req[p].target
<1>0. TypeOK /\ FoundBefore /\ OthersSeen
  BY DEF EditInv
<1>1. inodeSize' = inodeSize /\ inodeSize \in InodeSizes
      /\ inodeSize > CreationTime
  BY <1>0
  DEF Step, Find, ReportNotFound, ReadFlags, WriteFlags, WriteDate, RejectDate,
      TypeOK, Contained
<1>2. Contained' /\ \A m, f : OwnPosition(m, f)' = OwnPosition(m, f)
  BY <1>1, PositionsStay
<1>3. ASSUME disk' = disk
      PROVE  [Abstract!Next]_(Abstract!vars)
  <2>1. Immutable' = Immutable /\ Created' = Created /\ Rest' = Rest
    BY <1>2, <1>3 DEF Immutable, Created, Rest
  <2> QED
    BY <1>2, <2>1 DEF Abstract!vars, Immutable, Created, Rest
<1>4. CASE Find(p) \/ ReportNotFound(p) \/ ReadFlags(p) \/ RejectDate(p)
  BY <1>3, <1>4 DEF Find, ReportNotFound, ReadFlags, RejectDate
<1>5. CASE WriteFlags(p)
  <2> DEFINE v == req[p].value
             old == disk[OwnPosition(n, Flags)]
             w == WithImmutable(seen[p], v)
  <2>1. n \in File /\ v \in BOOLEAN
    BY <1>0, <1>5, RequestFields DEF WriteFlags, FoundBefore
  <2>2. FlagsOf(p) = OwnPosition(n, Flags) /\ OwnPosition(n, Flags) \in Positions
    BY <2>1, CodeIsOwn, InPositions DEF FlagsOf, Field
  <2>3. seen[p] \in Word /\ Others(seen[p]) = Others(old)
    BY <1>0, <1>5, <2>2 DEF OthersSeen, WriteFlags, TypeOK
  <2>4. disk' = [disk EXCEPT ![OwnPosition(n, Flags)] = w]
    BY <1>5, <2>2 DEF WriteFlags
  <2>5. Bit(w) = (IF v THEN 1 ELSE 0) /\ Others(w) = Others(old)
    BY <2>1, <2>3, FlagBit
  <2>6. disk'[OwnPosition(n, Flags)] = w
    BY <1>0, <2>2, <2>4 DEF TypeOK
  <2>7. ASSUME NEW m \in File, NEW f \in Field, m # n \/ f # Flags
        PROVE  disk'[OwnPosition(m, f)] = disk[OwnPosition(m, f)]
    <3>1. OwnPosition(m, f) # OwnPosition(n, Flags)
      BY <1>1, <2>1, <2>7, FieldsApart DEF Field
    <3>2. OwnPosition(m, f) \in Positions
      BY InPositions
    <3> QED
      BY <1>0, <2>4, <3>1, <3>2 DEF TypeOK
  <2>8. Immutable' = [Immutable EXCEPT ![n] = v]
    <3> SUFFICES ASSUME NEW m \in File
                 PROVE  (Bit(disk'[OwnPosition(m, Flags)]) = 1)
                          = IF m = n THEN v
                            ELSE Bit(disk[OwnPosition(m, Flags)]) = 1
      BY <1>2, <2>1 DEF Immutable
    <3>1. CASE m = n
      BY <2>1, <2>5, <2>6, <3>1
    <3>2. CASE m # n
      BY <2>7, <3>2 DEF Field
    <3> QED
      BY <3>1, <3>2
  <2>9. Created' = Created
    BY <1>2, <2>7 DEF Created, Field, Flags, CreationTime
  <2>10. Rest' = Rest
    <3>1. ASSUME NEW m \in File
          PROVE  /\ Others(disk'[OwnPosition(m, Flags)])
                      = Others(disk[OwnPosition(m, Flags)])
                 /\ disk'[OwnPosition(m, ModificationTime)]
                      = disk[OwnPosition(m, ModificationTime)]
      <4>1. disk'[OwnPosition(m, ModificationTime)]
              = disk[OwnPosition(m, ModificationTime)]
        BY <2>7 DEF Field, Flags, ModificationTime
      <4>2. CASE m = n
        BY <2>5, <2>6, <4>1, <4>2
      <4>3. CASE m # n
        BY <2>7, <4>1, <4>3 DEF Field
      <4> QED
        BY <4>2, <4>3
    <3> QED
      BY <1>2, <3>1 DEF Rest, Others
  <2>11. Abstract!SetImmutable(n, v)
    BY <1>2, <2>8, <2>9, <2>10 DEF Abstract!SetImmutable, Immutable, Created, Rest
  <2> QED
    BY <2>1, <2>11 DEF Abstract!Next, Abstract!Edit
<1>6. CASE WriteDate(p)
  <2> DEFINE d == req[p].date
             t == crDate(d, clock[p])
  <2>1. n \in File /\ d \in Date /\ clock[p] \in Clock
    BY <1>0, <1>6, RequestFields DEF WriteDate, FoundBefore, TypeOK
  <2>2. /\ Position(n, CreationTime) = OwnPosition(n, CreationTime)
        /\ OwnPosition(n, CreationTime) \in Positions
    BY <2>1, CodeIsOwn, InPositions DEF Field
  <2>3. disk' = [disk EXCEPT ![OwnPosition(n, CreationTime)] = t]
    BY <1>6, <2>2 DEF WriteDate
  <2>4. disk'[OwnPosition(n, CreationTime)] = t
    BY <1>0, <2>2, <2>3 DEF TypeOK
  <2>5. ASSUME NEW m \in File, NEW f \in Field, m # n \/ f # CreationTime
        PROVE  disk'[OwnPosition(m, f)] = disk[OwnPosition(m, f)]
    <3>1. OwnPosition(m, f) # OwnPosition(n, CreationTime)
      BY <1>1, <2>1, <2>5, FieldsApart DEF Field
    <3>2. OwnPosition(m, f) \in Positions
      BY InPositions
    <3> QED
      BY <1>0, <2>3, <3>1, <3>2 DEF TypeOK
  <2>6. Immutable' = Immutable
    BY <1>2, <2>5 DEF Immutable, Field, Flags, CreationTime
  <2>7. Rest' = Rest
    BY <1>2, <2>5 DEF Rest, Field, Flags, CreationTime, ModificationTime
  <2>8. Created' = [Created EXCEPT ![n] = t]
    BY <1>2, <2>1, <2>4, <2>5 DEF Created, Field
  <2>9. t = Abstract!Stamp(d, clock[p])
    BY DEF crDate, Abstract!Stamp
  <2>10. Abstract!SetCreationDate(n, d)
    BY <1>2, <2>1, <2>6, <2>7, <2>8, <2>9
    DEF Abstract!SetCreationDate, Immutable, Created, Rest
  <2> QED
    BY <2>1, <2>10 DEF Abstract!Next, Abstract!Edit
<1> QED
  BY <1>4, <1>5, <1>6 DEF Step

\* EXT4_SetRonlyFlag and EXT4_SetCreationDate, run by any number of invocations
\* without a lock, make each edit at one moment, or none: on volumes whose
\* inodes hold a creation time, and whose groups' numbers are not cut.
THEOREM Ext4EditsImplementInodeEdits == Spec => ImplementsInodeEdits
<1>1. ASSUME EditInv, [Next]_vars PROVE [Abstract!Next]_(Abstract!vars)
  <2>1. inodeSize' = inodeSize
    BY <1>1
    DEF vars, Next, Step, Find, ReportNotFound, ReadFlags, WriteFlags,
        WriteDate, RejectDate
  <2>2. /\ Contained' <=> Contained
        /\ \A m, f : OwnPosition(m, f)' = OwnPosition(m, f)
    BY <2>1, PositionsStay
  <2>3. CASE UNCHANGED vars
    <3>1. Immutable' = Immutable /\ Created' = Created /\ Rest' = Rest
      BY <2>2, <2>3 DEF vars, Immutable, Created, Rest
    <3>2. Contained' = Contained
      BY <2>1 DEF Contained
    <3> QED
      BY <3>1, <3>2 DEF Abstract!vars, Immutable, Created, Rest
  <2>4. CASE ~Contained
    <3>1. Contained' = Contained
      BY <2>1 DEF Contained
    <3> QED
      BY <2>4, <3>1 DEF Abstract!Next
  <2> QED
    BY <1>1, <2>3, <2>4, StepImplements DEF Next
<1> QED
  BY <1>1, EditInvariant, InitImplements, PTL
  DEF Spec, ImplementsInodeEdits, Abstract!Spec
=============================================================================

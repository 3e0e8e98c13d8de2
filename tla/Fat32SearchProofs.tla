------------------------- MODULE Fat32SearchProofs -------------------------
(***************************************************************************)
(* The searches of fs_utils/fat32.c, on volumes of any size.               *)
(*                                                                         *)
(* First what they read: where the long names leave room in their          *)
(* clusters, entries of the cluster they are in and no others.  Then what  *)
(* they answer: the slots a call has read are the first n of its directory *)
(* (Place), all entries that begin there were looked at in vain (AllVain), *)
(* and a call that waits for another will have looked at all there is      *)
(* below the entry when that one returns (Returns).                        *)
(***************************************************************************)
EXTENDS Fat32Search, WellFoundedInduction, TLAPS

USE SlotsAssumption, LastClusterAssumption

\* Every nonempty set of naturals has a least element.
LEMMA LeastElement ==
  ASSUME NEW T \in SUBSET Nat, T # {}
  PROVE  \E m \in T : \A k \in T : m <= k
<1> DEFINE R == OpToRel(<, Nat)
<1>1. IsWellFoundedOn(R, Nat)
  BY NatLessThanWellFounded
<1>2. R = { ss \in Nat \X Nat : ss[1] < ss[2] }
  BY DEF OpToRel
<1> HIDE DEF R
<1>3. PICK m \in T : \A y \in T : ~(<<y, m>> \in R)
  BY <1>1, WFMin
<1>4. ASSUME NEW y \in T PROVE m <= y
  <2>1. y \in Nat /\ m \in Nat
    OBVIOUS
  <2>2. <<y, m>> \notin R
    BY <1>3
  <2>3. ~(y < m)
    BY <2>1, <2>2, <1>2
  <2> QED
    BY <2>1, <2>3
<1> QED
  BY <1>4

LEMMA LastSlotNat == LastSlot \in Nat
  BY DEF LastSlot

\* processLongFileName stops at the first slot with sequence number 1.
LEMMA LongNameEndFirst ==
  ASSUME NEW v, NEW p \in Nat, RunCloses(v, p)
  PROVE  /\ LongNameEnd(v, p) \in p .. LastSlot - 1
         /\ v.slot[LongNameEnd(v, p)].seq = 1
         /\ \A r \in p .. LongNameEnd(v, p) - 1 : v.slot[r].seq # 1
<1> DEFINE T == { q \in p .. LastSlot - 1 : v.slot[q].seq = 1 }
<1>1. T \in SUBSET Nat /\ T # {}
  BY LastSlotNat DEF RunCloses
<1>2. PICK m \in T : \A k \in T : m <= k
  BY <1>1, LeastElement
<1>3. \A r \in p .. m - 1 : v.slot[r].seq # 1
  <2> SUFFICES ASSUME NEW r \in p .. m - 1, v.slot[r].seq = 1 PROVE FALSE
    OBVIOUS
  <2>1. m \in p .. LastSlot - 1
    BY <1>2
  <2>2. r \in T
    BY <2>1, LastSlotNat
  <2>3. m <= r
    BY <1>2, <2>2
  <2> QED
    BY <2>1, <2>3, LastSlotNat
<1>4. m \in p .. LastSlot - 1 /\ v.slot[m].seq = 1
  BY <1>2
<1> QED
  BY <1>3, <1>4 DEF LongNameEnd

\* The slots of cluster c.
InCluster(p, c) ==
  p \in Nat /\ p >= ClusterBase(c) /\ p < ClusterBase(c) + SlotsPerCluster

LEMMA ClusterInVolume ==
  ASSUME NEW c \in 2 .. LastCluster
  PROVE  /\ ClusterBase(c) \in Nat
         /\ ClusterBase(c) + SlotsPerCluster - 1 <= LastSlot
<1> DEFINE x == c - 2
           y == LastCluster - 1 - (x + 1)
<1>1. x \in Nat /\ y \in Nat /\ LastCluster - 1 = x + 1 + y
  OBVIOUS
<1>2. (x + 1 + y) * SlotsPerCluster
        = x * SlotsPerCluster + SlotsPerCluster + y * SlotsPerCluster
  BY <1>1
<1>3. x * SlotsPerCluster \in Nat /\ y * SlotsPerCluster \in Nat
  BY <1>1
<1>4. LastSlot = (x + 1 + y) * SlotsPerCluster - 1
  BY <1>1 DEF LastSlot
<1> HIDE DEF x, y
<1>5. x * SlotsPerCluster + SlotsPerCluster - 1 <= LastSlot
  BY <1>2, <1>3, <1>4
<1> USE DEF x
<1> QED
  BY <1>3, <1>5 DEF ClusterBase

\* Below 4 GiB the 32 bit product of seekToCluster does not wrap.
LEMMA SeekExact ==
  ASSUME Addressable, NEW c \in 2 .. LastCluster
  PROVE  seekToCluster(c) = ClusterBase(c)
<1>1. ClusterBase(c) \in Nat /\ ClusterBase(c) <= LastSlot
  BY ClusterInVolume, LastSlotNat
<1>2. LastSlot < OffsetMod
  BY OffsetAssumption DEF Addressable, LastSlot
<1>3. ClusterBase(c) % OffsetMod = ClusterBase(c)
  <2>1. ASSUME NEW a \in Nat, NEW m \in Nat \ {0}, a < m PROVE a % m = a
    BY <2>1
  <2> QED
    BY <1>1, <1>2, <2>1, OffsetAssumption, LastSlotNat
<1> QED
  BY <1>3 DEF seekToCluster, ClusterBase

\* What the scan of a cluster keeps: with f its loop counters, position p is
\* in the cluster, and j slots into it where no entry has a long name.
InPlace(v, f, p) ==
  f.j < SlotsPerCluster =>
    /\ f.i \in 1 .. Len(f.list)
    /\ InCluster(p, f.list[f.i])
    /\ NoLongName(v, f.list[f.i]) => p = ClusterBase(f.list[f.i]) + f.j

\* The five things getFAT32File makes of a slot.
IsFile(v, f, home) ==
  /\ f.kind = "file" /\ f.home = home /\ f.next = home + 1
  /\ f.attrs = v.slot[home].attrs /\ f.clus = v.slot[home].clus

LEMMA EntryShape ==
  ASSUME NEW v \in Volume, NEW p \in 0 .. LastSlot
  PROVE  LET f == getFAT32File(v, p) IN
         \/ f.kind = "null" /\ f.next = p + 1
         \/ f.kind = "last" /\ v.slot[p].mark = "last"
         \/ IsFile(v, f, p)
         \/ /\ IsLongSlot(v.slot[p]) /\ RunCloses(v, p)
            /\ IsFile(v, f, LongNameEnd(v, p) + 1)
         \/ /\ IsLongSlot(v.slot[p]) /\ ~RunCloses(v, p)
            /\ f.kind = "beyond"
<1> DEFINE s == v.slot[p]
           f == getFAT32File(v, p)
<1>1. s.mark \in {"used", "erased", "last", "dot"}
  BY DEF Volume, Slot
<1>2. CASE s.mark = "erased"
  <2>1. f = EntryAt("null", p + 1, p, << >>, s)
    BY <1>2 DEF getFAT32File
  <2> QED
    BY <2>1 DEF EntryAt
<1>3. CASE s.mark = "last"
  <2>1. f = EntryAt("last", p, p, << >>, s)
    BY <1>3 DEF getFAT32File
  <2> QED
    BY <2>1, <1>3 DEF EntryAt
<1>4. CASE s.mark \notin {"erased", "last"} /\ isVFatEntry(v, p)
  <2>1. IsLongSlot(s)
    BY <1>1, <1>4 DEF IsLongSlot, isVFatEntry
  <2>2. CASE RunCloses(v, p)
    <3>1. f = LongNamedFile(v, p)
      BY <1>4, <2>2 DEF getFAT32File
    <3>2. IsFile(v, f, LongNameEnd(v, p) + 1)
      BY <3>1 DEF LongNamedFile, EntryAt, IsFile
    <3> QED
      BY <2>1, <2>2, <3>2
  <2>3. CASE ~RunCloses(v, p)
    <3>1. f = EntryAt("beyond", p, p, << >>, s)
      BY <1>4, <2>3 DEF getFAT32File
    <3> QED
      BY <2>1, <2>3, <3>1 DEF EntryAt
  <2> QED
    BY <2>2, <2>3
<1>5. CASE s.mark \notin {"erased", "last"} /\ ~isVFatEntry(v, p)
  <2>1. CASE IsDot(s)
    <3>1. f = EntryAt("null", p + 1, p, << >>, s)
      BY <1>5, <2>1 DEF getFAT32File
    <3> QED
      BY <3>1 DEF EntryAt
  <2>2. CASE ~IsDot(s)
    <3>1. f = EntryAt("file", p + 1, p, ShortName(s), s)
      BY <1>5, <2>2 DEF getFAT32File
    <3>2. IsFile(v, f, p)
      BY <3>1 DEF EntryAt, IsFile
    <3> QED
      BY <3>2
  <2> QED
    BY <2>1, <2>2
<1> QED
  BY <1>2, <1>3, <1>4, <1>5

\* A long name that starts in a cluster closed by a free slot has its entry
\* in front of that slot.
LEMMA LongNameStays ==
  ASSUME NEW v \in Volume, NEW c \in 2 .. LastCluster, ClosedByLast(v, c),
         NEW p, InCluster(p, c), IsLongSlot(v.slot[p])
  PROVE  /\ RunCloses(v, p)
         /\ LongNameEnd(v, p) \in Nat
         /\ LongNameEnd(v, p) >= p
         /\ LongNameEnd(v, p) + 2 < ClusterBase(c) + SlotsPerCluster
<1> DEFINE base == ClusterBase(c)
<1>1. base \in Nat /\ base + SlotsPerCluster - 1 <= LastSlot
  BY ClusterInVolume
<1> HIDE DEF base
<1>2. PICK o \in Offset : p = base + o
  <2>1. p - base \in Offset /\ p = base + (p - base)
    BY <1>1 DEF Offset, InCluster, base
  <2> QED
    BY <2>1
<1>3. PICK q \in o .. SlotsPerCluster - 3 :
        q < o + NameSlots /\ v.slot[base + q].seq = 1
  BY <1>2 DEF ClosedByLast, SlotIn, base
<1>4. /\ base + q \in p .. LastSlot - 1
      /\ base + q + 2 < base + SlotsPerCluster
      /\ base + q < p + NameSlots
      /\ p \in Nat
  BY <1>1, <1>2, <1>3, LastSlotNat, NameSlotsAssumption DEF Offset
<1>5. RunCloses(v, p)
  BY <1>3, <1>4 DEF RunCloses
<1>6. LongNameEnd(v, p) \in p .. LastSlot - 1
      /\ \A r \in p .. LongNameEnd(v, p) - 1 : v.slot[r].seq # 1
  BY <1>4, <1>5, LongNameEndFirst
<1>7. LongNameEnd(v, p) <= base + q
  BY <1>3, <1>4, <1>6, LastSlotNat
<1> QED
  BY <1>1, <1>4, <1>5, <1>6, <1>7, LastSlotNat DEF base

\* One entry read in a roomy cluster leaves the descriptor in the cluster,
\* and one slot further where the cluster has no long name.
LEMMA EntryStays ==
  ASSUME NEW v \in Volume, NEW c \in 2 .. LastCluster, Roomy(v),
         NEW p, InCluster(p, c),
         getFAT32File(v, p).kind # "last"
  PROVE  LET f == getFAT32File(v, p) IN
         /\ f.kind \in {"null", "file"}
         /\ f.next \in Nat
         /\ NoLongName(v, c) => f.next = p + 1
         /\ ~NoLongName(v, c) => InCluster(f.next, c)
         /\ f.kind = "file" =>
              \E home \in 0 .. LastSlot : IsFile(v, f, home)
<1> DEFINE base == ClusterBase(c)
           f == getFAT32File(v, p)
<1>1. base \in Nat /\ base + SlotsPerCluster - 1 <= LastSlot
  BY ClusterInVolume
<1>2. p \in 0 .. LastSlot /\ p \in Nat
  BY <1>1, LastSlotNat DEF InCluster
<1>3. PICK o \in Offset : p = base + o
  <2>1. p - base \in Offset /\ p = base + (p - base)
    BY <1>1, <1>2 DEF Offset, InCluster
  <2> QED
    BY <2>1
<1>4. NoLongName(v, c) \/ ClosedByLast(v, c)
  BY DEF Roomy
<1>5. IsLongSlot(v.slot[p]) => ~NoLongName(v, c)
  BY <1>3 DEF NoLongName, SlotIn
<1>6. ASSUME v.slot[p].mark # "last", ~NoLongName(v, c)
      PROVE  InCluster(p + 1, c)
  <2>1. o # SlotsPerCluster - 1
    BY <1>3, <1>4, <1>6 DEF ClosedByLast, SlotIn
  <2> QED
    BY <2>1, <1>1, <1>3 DEF InCluster, Offset
<1>7. v.slot[p].mark # "last"
  <2> SUFFICES ASSUME v.slot[p].mark = "last" PROVE f.kind = "last"
    OBVIOUS
  <2>1. f = EntryAt("last", p, p, << >>, v.slot[p])
    BY DEF getFAT32File
  <2> QED
    BY <2>1 DEF EntryAt
<1>8. CASE f.kind = "null" /\ f.next = p + 1
  BY <1>2, <1>6, <1>7, <1>8
<1>9. CASE IsFile(v, f, p)
  BY <1>2, <1>6, <1>7, <1>9 DEF IsFile
<1>10. CASE IsLongSlot(v.slot[p]) /\ IsFile(v, f, LongNameEnd(v, p) + 1)
  <2> DEFINE q == LongNameEnd(v, p)
  <2>1. ~NoLongName(v, c) /\ ClosedByLast(v, c)
    BY <1>4, <1>5, <1>10
  <2>2. q \in Nat /\ q >= p /\ q + 2 < base + SlotsPerCluster
    BY <1>10, <2>1, LongNameStays
  <2> HIDE DEF q
  <2>3. f.kind = "file" /\ f.next = q + 2
    BY <1>10, <2>2 DEF IsFile, q
  <2>4. InCluster(q + 2, c) /\ q + 1 \in 0 .. LastSlot
    BY <2>2, <1>1, <1>2, LastSlotNat DEF InCluster
  <2>5. IsFile(v, f, q + 1)
    BY <1>10 DEF q
  <2> QED
    BY <2>1, <2>2, <2>3, <2>4, <2>5
<1>11. CASE IsLongSlot(v.slot[p]) /\ ~RunCloses(v, p)
  BY <1>4, <1>5, <1>11, LongNameStays
<1> QED
  BY <1>2, <1>8, <1>9, <1>10, <1>11, EntryShape

-----------------------------------------------------------------------------
(***************************************************************************)
(* Types.                                                                  *)
(***************************************************************************)

\* What an entry read anywhere in the volume gives the search to go on with.
LEMMA EntryTyped ==
  ASSUME NEW v \in Volume, NEW p \in 0 .. LastSlot
  PROVE  LET f == getFAT32File(v, p) IN
         /\ f.kind \in {"null", "file"} => f.next \in Nat
         /\ f.kind = "file" => f.home \in 0 .. LastSlot /\ f.clus \in ClusterNumber
<1> DEFINE f == getFAT32File(v, p)
<1>1. \A home \in 0 .. LastSlot : v.slot[home].clus \in ClusterNumber
  BY DEF Volume, Slot
<1>2. p \in Nat
  BY LastSlotNat
<1>3. ASSUME NEW home \in 0 .. LastSlot, IsFile(v, f, home)
      PROVE  /\ f.next \in Nat /\ f.home \in 0 .. LastSlot
             /\ f.clus \in ClusterNumber
  BY <1>1, <1>3, LastSlotNat DEF IsFile
<1>4. RunCloses(v, p) => LongNameEnd(v, p) + 1 \in 0 .. LastSlot
  BY <1>2, LongNameEndFirst, LastSlotNat
<1> HIDE DEF f
<1>5. \/ f.kind = "null" /\ f.next = p + 1
      \/ f.kind = "last"
      \/ \E home \in 0 .. LastSlot : IsFile(v, f, home)
      \/ f.kind = "beyond"
  BY <1>4, EntryShape DEF f
<1>6. CASE f.kind = "null" /\ f.next = p + 1
  BY <1>2, <1>6 DEF f
<1>7. CASE \E home \in 0 .. LastSlot : IsFile(v, f, home)
  BY <1>3, <1>7 DEF f
<1>8. CASE f.kind \in {"last", "beyond"}
  BY <1>8 DEF f
<1> QED
  BY <1>5, <1>6, <1>7, <1>8

\* Replacing the last element of a sequence.
LEMMA LastReplaced ==
  ASSUME NEW S, NEW s \in Seq(S), s # << >>, NEW e \in S
  PROVE  LET t == [s EXCEPT ![Len(s)] = e] IN
         /\ t \in Seq(S) /\ t # << >> /\ Len(t) = Len(s)
         /\ t[Len(t)] = e
         /\ \A k \in 1 .. Len(s) - 1 : t[k] = s[k]
<1> DEFINE t == [s EXCEPT ![Len(s)] = e]
<1>1. Len(s) \in Nat \ {0} /\ s \in [1 .. Len(s) -> S]
  OBVIOUS
<1>2. t \in [1 .. Len(s) -> S]
  BY <1>1
<1>3. t \in Seq(S) /\ Len(t) = Len(s)
  BY <1>1, <1>2
<1>4. t # << >> /\ t[Len(t)] = e
  BY <1>1, <1>3
<1>5. ASSUME NEW k \in 1 .. Len(s) - 1 PROVE t[k] = s[k]
  <2>1. \A n \in Nat : \A i \in 1 .. n - 1 : i \in 1 .. n /\ i # n
    OBVIOUS
  <2> QED
    BY <1>1, <2>1
<1> QED
  BY <1>3, <1>4, <1>5

\* Dropping the last of several elements.
LEMMA AllButLast ==
  ASSUME NEW S, NEW s \in Seq(S), Len(s) > 1
  PROVE  LET t == SubSeq(s, 1, Len(s) - 1) IN
         /\ t \in Seq(S) /\ t # << >> /\ Len(t) = Len(s) - 1
         /\ \A k \in 1 .. Len(s) - 1 : t[k] = s[k]
<1> DEFINE n == Len(s) - 1
           t == SubSeq(s, 1, n)
<1>1. n \in Nat /\ n >= 1 /\ Len(s) = n + 1
  OBVIOUS
<1>2. \A k \in 1 .. n : s[k] \in S
  BY <1>1
<1>3. t = [k \in 1 .. n |-> s[k]]
  BY <1>1
<1> HIDE DEF n, t
<1>4. t \in Seq(S) /\ Len(t) = n
  BY <1>1, <1>2, <1>3
<1>5. t # << >>
  BY <1>1, <1>4
<1> QED
  BY <1>1, <1>3, <1>4, <1>5 DEF n, t

SearchTyped == TypeOK /\ stack # << >>

LEMMA TopTyped ==
  ASSUME SearchTyped
  PROVE  /\ Len(stack) \in Nat \ {0} /\ Top \in Frame
         /\ Top.list \in Seq(ClusterNumber) /\ Top.i \in Nat
         /\ Top.j \in 0 .. SlotsPerCluster /\ Top.back \in Nat
<1>1. Len(stack) \in Nat \ {0} /\ stack[Len(stack)] \in Frame
  BY DEF SearchTyped, TypeOK
<1> QED
  BY <1>1 DEF Top, Frame

\* The top frame with new loop counters.
LEMMA CountingTyped ==
  ASSUME NEW f \in Frame, NEW i \in Nat, NEW j \in 0 .. SlotsPerCluster
  PROVE  Counting(f, i, j) \in Frame
<1>1. f.list \in Seq(ClusterNumber) /\ f.back \in Nat
  BY DEF Frame
<1> QED
  BY <1>1 DEF Frame, Counting

LEMMA CallTyped ==
  ASSUME vol \in Volume, NEW c \in ClusterNumber, NEW p \in Nat
  PROVE  Call(c, p) \in Frame
<1>1. vol.chain[c] \in Seq(ClusterNumber)
  BY DEF Volume
<1> QED
  BY <1>1 DEF Call, Frame, getClusterList, ClusterDone

LEMMA InitTyped == Init => SearchTyped
<1> SUFFICES ASSUME Init PROVE SearchTyped
  OBVIOUS
<1>1. vol \in Volume
  BY VolumesAssumption DEF Init
<1>2. vol.root \in ClusterNumber
  BY <1>1 DEF Volume
<1>3. Call(vol.root, 0) \in Frame
  BY <1>1, <1>2, CallTyped
<1> QED
  BY <1>1, <1>3 DEF Init, SearchTyped, TypeOK

LEMMA AdvanceTyped ==
  ASSUME SearchTyped, Reading, Advance, File.kind \in {"null", "file"}
  PROVE  SearchTyped'
<1> DEFINE e == Counting(Top, Top.i, Top.j + 1)
<1>1. e \in Frame
  <2>1. Top.j + 1 \in 0 .. SlotsPerCluster
    BY TopTyped DEF Reading
  <2> QED
    BY <2>1, TopTyped, CountingTyped
<1>2. stack' \in Seq(Frame) /\ stack' # << >>
  BY <1>1, LastReplaced DEF Advance, SetTop, SearchTyped, TypeOK
<1>3. File.next \in Nat
  BY EntryTyped DEF Reading, File, SearchTyped, TypeOK
<1> QED
  BY <1>2, <1>3 DEF Advance, SearchTyped, TypeOK, arguments

LEMMA NextTyped == SearchTyped /\ [Next]_vars => SearchTyped'
<1> SUFFICES ASSUME SearchTyped, [Next]_vars PROVE SearchTyped'
  OBVIOUS
<1>t. TypeOK /\ stack \in Seq(Frame) /\ stack # << >> /\ vol \in Volume
  BY DEF SearchTyped, TypeOK
<1>1. CASE NextCluster
  <2> DEFINE e == Counting(Top, Top.i + 1, 0)
  <2>1. e \in Frame
    BY TopTyped, CountingTyped
  <2>2. stack' \in Seq(Frame) /\ stack' # << >>
    BY <1>1, <1>t, <2>1, LastReplaced DEF NextCluster, SetTop
  <2>3. Top.list[Top.i + 1] \in ClusterNumber
    BY <1>1, TopTyped DEF NextCluster
  <2>4. seekToCluster(Top.list[Top.i + 1]) \in Nat
    <3>1. ASSUME NEW a \in Int, NEW m \in Nat \ {0} PROVE a % m \in Nat
      OBVIOUS
    <3>2. (Top.list[Top.i + 1] - 2) * SlotsPerCluster \in Int
      BY <2>3 DEF ClusterNumber
    <3> QED
      BY <3>1, <3>2, OffsetAssumption DEF seekToCluster
  <2> QED
    BY <1>1, <1>t, <2>2, <2>4 DEF NextCluster, SearchTyped, TypeOK, arguments
<1>2. CASE LeaveDirectory
  <2>1. /\ SubSeq(stack, 1, Len(stack) - 1) \in Seq(Frame)
        /\ SubSeq(stack, 1, Len(stack) - 1) # << >>
    BY <1>2, <1>t, AllButLast DEF LeaveDirectory
  <2>2. PositionRestored(Top) \in Nat
    BY TopTyped DEF PositionRestored
  <2> QED
    BY <1>2, <1>t, <2>1, <2>2
    DEF LeaveDirectory, SearchTyped, TypeOK, arguments
<1>3. CASE ReportMissing
  BY <1>3, <1>t DEF ReportMissing, SearchTyped, TypeOK, arguments
<1>4. CASE SkipEntry
  BY <1>4, AdvanceTyped DEF SkipEntry
<1>5. CASE EndCluster
  <2>1. Counting(Top, Top.i, ClusterDone) \in Frame
    BY TopTyped, CountingTyped DEF ClusterDone
  <2>2. stack' \in Seq(Frame) /\ stack' # << >>
    BY <1>5, <1>t, <2>1, LastReplaced DEF EndCluster, SetTop
  <2> QED
    BY <1>5, <1>t, <2>2 DEF EndCluster, SearchTyped, TypeOK, arguments
<1>6. CASE Descend
  <2> DEFINE e == Counting(Top, Top.i, Top.j + 1)
             g == Call(File.clus, File.next)
  <2>1. e \in Frame
    BY <1>6, TopTyped, CountingTyped DEF Descend, Reading
  <2>2. File.next \in Nat /\ File.clus \in ClusterNumber
    BY <1>6, <1>t, EntryTyped DEF Descend, Reading, File
  <2>3. g \in Frame
    BY <1>t, <2>2, CallTyped
  <2> HIDE DEF e, g
  <2>4. SetTop(e) \in Seq(Frame)
    BY <1>t, <2>1, LastReplaced DEF SetTop
  <2>5. stack' = Append(SetTop(e), g)
    BY <1>6 DEF Descend, e, g
  <2>6. stack' \in Seq(Frame) /\ stack' # << >>
    BY <2>3, <2>4, <2>5
  <2> QED
    BY <1>6, <1>t, <2>2, <2>6 DEF Descend, SearchTyped, TypeOK, arguments
<1>7. CASE PassOver
  BY <1>7, AdvanceTyped DEF PassOver
<1>8. CASE Match
  <2>1. File.home \in Nat
    BY <1>8, <1>t, EntryTyped, LastSlotNat DEF Match, Reading, File
  <2> QED
    BY <1>8, <1>t, <2>1 DEF Match, SearchTyped, TypeOK, arguments
<1>9. CASE Stray
  BY <1>9, <1>t DEF Stray, SearchTyped, TypeOK, arguments
<1>10. CASE UNCHANGED vars
  BY <1>10, <1>t DEF vars, SearchTyped, TypeOK
<1> QED
  BY <1>1, <1>2, <1>3, <1>4, <1>5, <1>6, <1>7, <1>8, <1>9, <1>10 DEF Next

\* The variables of the search keep their types on every volume, also where
\* the scan leaves its cluster: it stops before it reads outside the volume.
THEOREM SearchTypeOK == Spec => []TypeOK
<1>1. SearchTyped => TypeOK
  BY DEF SearchTyped
<1> QED
  BY <1>1, InitTyped, NextTyped, PTL DEF Spec

-----------------------------------------------------------------------------
(***************************************************************************)
(* The scan of roomy volumes.                                              *)
(***************************************************************************)
Confined == Addressable /\ Roomy(vol) /\ DirectoriesInData(vol)

ListInData(f) ==
  /\ f.i \in 0 .. Len(f.list)
  /\ \A k \in 1 .. Len(f.list) : f.list[k] \in 2 .. LastCluster

\* Every call goes on, when the call above it returns, at a place in its
\* own cluster.
CallsInPlace ==
  /\ \A k \in 1 .. Len(stack) : ListInData(stack[k])
  /\ \A k \in 1 .. Len(stack) - 1 :
       InPlace(vol, stack[k], stack[k + 1].back)

ScanInPlace == CallsInPlace /\ (pc = "scan" => InPlace(vol, Top, pos))

SearchInv == SearchTyped /\ (Confined => ScanInPlace)

LEMMA CountingFields ==
  ASSUME NEW f, NEW i, NEW j
  PROVE  /\ Counting(f, i, j).list = f.list /\ Counting(f, i, j).i = i
         /\ Counting(f, i, j).j = j /\ Counting(f, i, j).back = f.back
  BY DEF Counting

\* A new call starts between clusters, with a list of clusters to read.
LEMMA CallInData ==
  ASSUME vol \in Volume, NEW c \in ClusterNumber, InDataArea(vol, c), NEW p
  PROVE  /\ ListInData(Call(c, p)) /\ Call(c, p).back = p
         /\ Call(c, p).j = SlotsPerCluster
<1>1. vol.chain[c] \in Seq(ClusterNumber)
  BY DEF Volume
<1>2. /\ Call(c, p).list = vol.chain[c] /\ Call(c, p).i = 0
      /\ Call(c, p).j = SlotsPerCluster /\ Call(c, p).back = p
  BY DEF Call, getClusterList, ClusterDone
<1>3. \A k \in 1 .. Len(vol.chain[c]) : vol.chain[c][k] \in 2 .. LastCluster
  BY <1>1 DEF InDataArea
<1> QED
  BY <1>1, <1>2, <1>3 DEF ListInData

\* The loop counters of the top frame may move within its cluster list.
LEMMA TopCounts ==
  ASSUME SearchTyped, CallsInPlace, NEW i \in 0 .. Len(Top.list),
         NEW j \in 0 .. SlotsPerCluster
  PROVE  LET t == SetTop(Counting(Top, i, j)) IN
         /\ t \in Seq(Frame) /\ Len(t) = Len(stack)
         /\ t[Len(t)] = Counting(Top, i, j)
         /\ \A k \in 1 .. Len(t) : ListInData(t[k])
         /\ \A k \in 1 .. Len(t) - 1 : InPlace(vol, t[k], t[k + 1].back)
<1> DEFINE e == Counting(Top, i, j)
           t == SetTop(e)
           n == Len(stack)
<1>1. n \in Nat \ {0} /\ stack \in Seq(Frame) /\ stack # << >>
  BY DEF SearchTyped, TypeOK
<1>2. e \in Frame
  BY TopTyped, CountingTyped
<1>3. /\ t \in Seq(Frame) /\ Len(t) = n /\ t[n] = e
      /\ \A k \in 1 .. n - 1 : t[k] = stack[k]
  BY <1>1, <1>2, LastReplaced DEF SetTop
<1>4. ListInData(e)
  <2>1. \A k \in 1 .. Len(Top.list) : Top.list[k] \in 2 .. LastCluster
    BY <1>1 DEF CallsInPlace, ListInData, Top
  <2> QED
    BY <2>1, CountingFields DEF ListInData
<1>5. e.back = stack[n].back
  BY CountingFields DEF Top
<1> HIDE DEF e, t, n
<1>6. ASSUME NEW k \in 1 .. n PROVE ListInData(t[k])
  <2>1. CASE k = n
    BY <2>1, <1>3, <1>4
  <2>2. CASE k \in 1 .. n - 1
    BY <2>2, <1>3 DEF CallsInPlace, n
  <2> QED
    BY <2>1, <2>2, <1>1
<1>7. ASSUME NEW k \in 1 .. n - 1 PROVE InPlace(vol, t[k], t[k + 1].back)
  <2>1. t[k] = stack[k] /\ InPlace(vol, stack[k], stack[k + 1].back)
    BY <1>3 DEF CallsInPlace, n
  <2>2. t[k + 1].back = stack[k + 1].back
    <3>1. CASE k + 1 = n
      BY <3>1, <1>3, <1>5
    <3>2. CASE k + 1 \in 1 .. n - 1
      BY <3>2, <1>3
    <3> QED
      BY <3>1, <3>2, <1>1
  <2> QED
    BY <2>1, <2>2
<1> QED
  BY <1>3, <1>6, <1>7 DEF e, t, n

\* Reading one entry keeps the scan in its cluster.
LEMMA ReadInPlace ==
  ASSUME SearchTyped, Confined, ScanInPlace, Reading, File.kind # "last"
  PROVE  /\ File.kind \in {"null", "file"}
         /\ InPlace(vol, Counting(Top, Top.i, Top.j + 1), File.next)
         /\ File.kind = "file" /\ IsSubdirectory(File)
              => File.clus \in ClusterNumber /\ InDataArea(vol, File.clus)
<1> DEFINE c == Top.list[Top.i]
           base == ClusterBase(c)
<1>1. vol \in Volume /\ Roomy(vol)
  BY DEF SearchTyped, TypeOK, Confined
<1>2. /\ Top.i \in 1 .. Len(Top.list) /\ InCluster(pos, c)
      /\ NoLongName(vol, c) => pos = base + Top.j
  BY DEF ScanInPlace, InPlace, Reading
<1>3. c \in 2 .. LastCluster
  <2>1. ListInData(Top)
    BY TopTyped DEF ScanInPlace, CallsInPlace, Top
  <2> QED
    BY <2>1, <1>2 DEF ListInData
<1>4. /\ File.kind \in {"null", "file"} /\ File.next \in Nat
      /\ NoLongName(vol, c) => File.next = pos + 1
      /\ ~NoLongName(vol, c) => InCluster(File.next, c)
      /\ File.kind = "file" => \E home \in 0 .. LastSlot : IsFile(vol, File, home)
  BY <1>1, <1>2, <1>3, EntryStays DEF File
<1>5. ASSUME Top.j + 1 < SlotsPerCluster
      PROVE  /\ InCluster(File.next, c)
             /\ NoLongName(vol, c) => File.next = base + (Top.j + 1)
  <2>1. base \in Nat
    BY <1>3, ClusterInVolume
  <2>2. CASE NoLongName(vol, c)
    <3>1. File.next = base + Top.j + 1
      BY <2>2, <1>2, <1>4
    <3> QED
      BY <3>1, <2>1, <1>5, TopTyped DEF InCluster
  <2> QED
    BY <2>2, <1>4
<1>6. InPlace(vol, Counting(Top, Top.i, Top.j + 1), File.next)
  BY <1>2, <1>5, CountingFields DEF InPlace
<1>7. ASSUME File.kind = "file", IsSubdirectory(File)
      PROVE  File.clus \in ClusterNumber /\ InDataArea(vol, File.clus)
  <2>1. PICK home \in 0 .. LastSlot : IsFile(vol, File, home)
    BY <1>4, <1>7
  <2>2. /\ "subdirectory" \in vol.slot[home].attrs
        /\ File.clus = vol.slot[home].clus
    BY <2>1, <1>7 DEF IsFile, IsSubdirectory
  <2>3. vol.slot[home].clus \in ClusterNumber
    BY <1>1 DEF Volume, Slot
  <2> QED
    BY <2>2, <2>3 DEF Confined, DirectoriesInData
<1> QED
  BY <1>4, <1>6, <1>7

LEMMA InitInPlace == Init => SearchInv
<1> SUFFICES ASSUME Init PROVE SearchInv
  OBVIOUS
<1>1. SearchTyped
  BY InitTyped
<1>2. ASSUME Confined PROVE ScanInPlace
  <2>1. vol \in Volume /\ vol.root \in ClusterNumber
    BY <1>1 DEF SearchTyped, TypeOK, Volume
  <2>2. InDataArea(vol, vol.root)
    BY <1>2 DEF Confined, DirectoriesInData
  <2>3. /\ ListInData(Call(vol.root, 0))
        /\ Call(vol.root, 0).j = SlotsPerCluster
    BY <2>1, <2>2, CallInData
  <2>4. Len(stack) = 1 /\ stack[1] = Call(vol.root, 0)
    BY DEF Init
  <2>5. CallsInPlace
    BY <2>3, <2>4 DEF CallsInPlace
  <2>6. InPlace(vol, Top, pos)
    BY <2>3, <2>4 DEF InPlace, Top
  <2> QED
    BY <2>5, <2>6 DEF ScanInPlace
<1> QED
  BY <1>1, <1>2 DEF SearchInv

\* A step that moves the counters of the top frame, and the descriptor.
LEMMA CountStep ==
  ASSUME SearchTyped, ScanInPlace, vol' = vol,
         NEW i \in 0 .. Len(Top.list), NEW j \in 0 .. SlotsPerCluster,
         stack' = SetTop(Counting(Top, i, j)),
         InPlace(vol, Counting(Top, i, j), pos')
  PROVE  ScanInPlace'
<1>1. /\ Len(stack') = Len(stack) /\ stack'[Len(stack')] = Counting(Top, i, j)
      /\ \A k \in 1 .. Len(stack') : ListInData(stack'[k])
      /\ \A k \in 1 .. Len(stack') - 1 :
           InPlace(vol, stack'[k], stack'[k + 1].back)
  BY TopCounts DEF ScanInPlace
<1>2. CallsInPlace'
  BY <1>1 DEF CallsInPlace
<1>3. Top' = Counting(Top, i, j)
  BY <1>1 DEF Top
<1> QED
  BY <1>2, <1>3 DEF ScanInPlace

LEMMA AdvanceStep ==
  ASSUME SearchTyped, Confined, ScanInPlace, Reading, Advance,
         File.kind # "last"
  PROVE  ScanInPlace'
<1>1. Top.i \in 0 .. Len(Top.list)
  BY TopTyped DEF ScanInPlace, CallsInPlace, ListInData, Top
<1>2. Top.j + 1 \in 0 .. SlotsPerCluster
  BY TopTyped DEF Reading
<1>3. InPlace(vol, Counting(Top, Top.i, Top.j + 1), File.next)
  BY ReadInPlace
<1> QED
  BY <1>1, <1>2, <1>3, CountStep DEF Advance, arguments

LEMMA DescendStep ==
  ASSUME SearchTyped, Confined, ScanInPlace, Descend
  PROVE  ScanInPlace'
<1> DEFINE e == Counting(Top, Top.i, Top.j + 1)
           t == SetTop(e)
           g == Call(File.clus, File.next)
           n == Len(stack)
<1>1. Reading /\ File.kind = "file" /\ IsSubdirectory(File)
  BY DEF Descend, GoesDown
<1>2. Top.i \in 0 .. Len(Top.list) /\ Top.j + 1 \in 0 .. SlotsPerCluster
  BY <1>1, TopTyped
  DEF ScanInPlace, CallsInPlace, ListInData, Top, Reading
<1>3. /\ InPlace(vol, e, File.next)
      /\ File.clus \in ClusterNumber /\ InDataArea(vol, File.clus)
  BY <1>1, ReadInPlace
<1>4. /\ t \in Seq(Frame) /\ Len(t) = n /\ t[n] = e
      /\ \A k \in 1 .. n : ListInData(t[k])
      /\ \A k \in 1 .. n - 1 : InPlace(vol, t[k], t[k + 1].back)
  BY <1>2, TopCounts DEF ScanInPlace
<1>5. ListInData(g) /\ g.back = File.next /\ g.j = SlotsPerCluster
  BY <1>3, CallInData DEF SearchTyped, TypeOK
<1>6. stack' = Append(t, g) /\ vol' = vol
  BY DEF Descend, arguments
<1>7. n \in Nat
  BY TopTyped
<1> HIDE DEF e, t, g, n
<1>8. /\ Len(stack') = n + 1 /\ stack'[n + 1] = g
      /\ \A k \in 1 .. n : stack'[k] = t[k]
  BY <1>4, <1>6, <1>7
<1>9. ASSUME NEW k \in 1 .. n + 1 PROVE ListInData(stack'[k])
  <2>1. CASE k = n + 1
    BY <2>1, <1>5, <1>8
  <2>2. CASE k \in 1 .. n
    BY <2>2, <1>4, <1>8
  <2> QED
    BY <2>1, <2>2, <1>7
<1>10. ASSUME NEW k \in 1 .. n
       PROVE  InPlace(vol, stack'[k], stack'[k + 1].back)
  <2>1. CASE k = n
    BY <2>1, <1>3, <1>4, <1>5, <1>8
  <2>2. CASE k \in 1 .. n - 1
    <3>1. k \in 1 .. n /\ k + 1 \in 1 .. n
      BY <2>2, <1>7
    <3> QED
      BY <2>2, <3>1, <1>4, <1>8
  <2> QED
    BY <2>1, <2>2, <1>7
<1>11. CallsInPlace'
  BY <1>6, <1>7, <1>8, <1>9, <1>10 DEF CallsInPlace
<1>12. InPlace(vol', Top', pos')
  BY <1>5, <1>8 DEF Top, InPlace
<1> QED
  BY <1>11, <1>12 DEF ScanInPlace

LEMMA NextInPlace == SearchInv /\ [Next]_vars => SearchInv'
<1> SUFFICES ASSUME SearchInv, [Next]_vars PROVE SearchInv'
  OBVIOUS
<1>1. SearchTyped /\ SearchTyped'
  BY NextTyped DEF SearchInv
<1>2. vol' = vol
  BY DEF Next, NextCluster, LeaveDirectory, ReportMissing, SkipEntry,
         EndCluster, Descend, PassOver, Match, Stray, Advance, arguments, vars
<1> SUFFICES ASSUME Confined, ScanInPlace PROVE ScanInPlace'
  BY <1>1, <1>2 DEF SearchInv, Confined, Addressable
<1>3. CASE NextCluster
  <2> DEFINE c == Top.list[Top.i + 1]
  <2>1. Top.i + 1 \in 1 .. Len(Top.list)
    BY <1>3, <1>1, TopTyped DEF NextCluster
  <2>2. c \in 2 .. LastCluster
    <3>1. ListInData(Top)
      BY <1>1, TopTyped DEF ScanInPlace, CallsInPlace, Top
    <3> QED
      BY <2>1, <3>1 DEF ListInData
  <2>3. pos' = ClusterBase(c) /\ ClusterBase(c) \in Nat
    BY <1>3, <2>2, SeekExact, ClusterInVolume DEF NextCluster, Confined
  <2>4. InPlace(vol, Counting(Top, Top.i + 1, 0), pos')
    BY <2>1, <2>3, CountingFields DEF InPlace, InCluster
  <2> QED
    BY <1>1, <1>2, <1>3, <2>1, <2>4, CountStep DEF NextCluster
<1>4. CASE LeaveDirectory
  <2> DEFINE n == Len(stack) - 1
  <2>1. n \in Nat /\ n >= 1 /\ Len(stack) = n + 1 /\ stack \in Seq(Frame)
    BY <1>4, <1>1 DEF LeaveDirectory, SearchTyped, TypeOK
  <2>2. Len(stack') = n /\ \A k \in 1 .. n : stack'[k] = stack[k]
    BY <1>4, <2>1, AllButLast DEF LeaveDirectory
  <2>3. CallsInPlace'
    <3>1. ASSUME NEW k \in 1 .. n PROVE ListInData(stack'[k])
      BY <2>1, <2>2 DEF ScanInPlace, CallsInPlace
    <3>2. ASSUME NEW k \in 1 .. n - 1
          PROVE  InPlace(vol, stack'[k], stack'[k + 1].back)
      <4>1. k \in 1 .. n /\ k + 1 \in 1 .. n
        BY <2>1
      <4> QED
        BY <4>1, <2>1, <2>2 DEF ScanInPlace, CallsInPlace
    <3> QED
      BY <3>1, <3>2, <1>2, <2>2 DEF CallsInPlace
  <2>4. InPlace(vol', Top', pos')
    <3>1. pos' = stack[n + 1].back
      BY <1>4, <2>1 DEF LeaveDirectory, PositionRestored, Top
    <3>2. Top' = stack[n]
      BY <2>1, <2>2 DEF Top
    <3>3. InPlace(vol, stack[n], stack[n + 1].back)
      BY <2>1 DEF ScanInPlace, CallsInPlace
    <3> QED
      BY <3>1, <3>2, <3>3, <1>2
  <2> QED
    BY <2>3, <2>4 DEF ScanInPlace
<1>5. CASE SkipEntry
  BY <1>1, <1>5, AdvanceStep DEF SkipEntry
<1>6. CASE EndCluster
  <2>1. Top.i \in 0 .. Len(Top.list)
    BY <1>1, TopTyped DEF ScanInPlace, CallsInPlace, ListInData, Top
  <2>2. InPlace(vol, Counting(Top, Top.i, ClusterDone), pos')
    BY CountingFields DEF InPlace, ClusterDone
  <2>3. ClusterDone \in 0 .. SlotsPerCluster
    BY DEF ClusterDone
  <2> QED
    BY <1>1, <1>2, <1>6, <2>1, <2>2, <2>3, CountStep DEF EndCluster
<1>7. CASE Descend
  BY <1>1, <1>7, DescendStep
<1>8. CASE PassOver
  BY <1>1, <1>8, AdvanceStep DEF PassOver
<1>9. CASE ReportMissing \/ Match \/ Stray
  BY <1>2, <1>9
  DEF ReportMissing, Match, Stray, ScanInPlace, CallsInPlace
<1>10. CASE UNCHANGED vars
  BY <1>2, <1>10 DEF vars, ScanInPlace, CallsInPlace, Top
<1> QED
  BY <1>3, <1>4, <1>5, <1>6, <1>7, <1>8, <1>9, <1>10 DEF Next

\* On every volume below 4 GiB whose long names leave room in their clusters
\* a search reads entries of its own cluster only, whatever the directories,
\* the cluster size and the depth of the recursion.
THEOREM RoomySearchInCluster == Spec => []RoomyScanInCluster
<1>1. SearchInv => RoomyScanInCluster
  <2> SUFFICES ASSUME SearchInv, Confined, ReadingEntry
               PROVE  InCurrentCluster
    BY DEF RoomyScanInCluster, Confined
  <2>1. InPlace(vol, Top, pos) /\ Top.j < SlotsPerCluster
    BY DEF SearchInv, ScanInPlace, ReadingEntry
  <2> QED
    BY <2>1 DEF InPlace, InCluster, InCurrentCluster, CurrentCluster
<1> QED
  BY <1>1, InitInPlace, NextInPlace, PTL DEF Spec

-----------------------------------------------------------------------------
(***************************************************************************)
(* The slots of a directory, and the runs of long name slots in it.        *)
(***************************************************************************)
LEMMA PlaceParts ==
  ASSUME NEW d \in Nat \ {0}, NEW a \in Nat, NEW o \in 0 .. d - 1
  PROVE  (a * d + o) \div d = a /\ (a * d + o) % d = o
  BY Z3

LEMMA PlaceOf ==
  ASSUME NEW d \in Nat \ {0}, NEW a \in Nat
  PROVE  /\ a \div d \in Nat /\ a % d \in 0 .. d - 1
         /\ a = ((a \div d) * d) + (a % d)
  BY Z3

LEMMA ProductGrows ==
  ASSUME NEW d \in Nat \ {0}, NEW a \in Nat, NEW b \in Nat, a < b
  PROVE  a * d \in Nat /\ b * d \in Nat /\ a * d + d <= b * d
<1>1. PICK x \in Nat : x = b - a - 1 /\ b = a + 1 + x
  OBVIOUS
<1>2. (a + 1 + x) * d = a * d + d + x * d
  BY <1>1, Z3
<1>3. a * d \in Nat /\ x * d \in Nat /\ b * d \in Nat
  BY <1>1, Z3
<1> QED
  BY <1>1, <1>2, <1>3

-----------------------------------------------------------------------------
(***************************************************************************)
(* Directories: slots, positions, entries.                                 *)
(***************************************************************************)

\* The slot of the directory at offset o of its i-th cluster.
LEMMA SlotAt ==
  ASSUME NEW v \in Volume, NEW c \in ClusterNumber, WellFormedDirectory(v, c),
         NEW i \in 1 .. Len(v.chain[c]), NEW o \in Offset
  PROVE  LET k == (i - 1) * SlotsPerCluster + o + 1 IN
         /\ k \in 1 .. Len(v.chain[c]) * SlotsPerCluster
         /\ SlotPosition(v.chain[c], k) = ClusterBase(v.chain[c][i]) + o
         /\ v.chain[c][i] \in 2 .. LastCluster
         /\ SlotPosition(v.chain[c], k) \in 0 .. LastSlot
<1> DEFINE list == v.chain[c]
           k == (i - 1) * SlotsPerCluster + o + 1
<1>1. list \in Seq(ClusterNumber) /\ Len(list) \in Nat
  BY DEF Volume
<1>2. PICK a \in Nat : a = i - 1 /\ i = a + 1 /\ a < Len(list)
  BY <1>1
<1>3. o \in 0 .. SlotsPerCluster - 1 /\ o \in Nat
  BY DEF Offset
<1>4. /\ (a * SlotsPerCluster + o) \div SlotsPerCluster = a
      /\ (a * SlotsPerCluster + o) % SlotsPerCluster = o
  BY <1>3, PlaceParts
<1>5. /\ a * SlotsPerCluster \in Nat /\ Len(list) * SlotsPerCluster \in Nat
      /\ a * SlotsPerCluster + SlotsPerCluster <= Len(list) * SlotsPerCluster
  BY <1>1, <1>2, ProductGrows
<1>6. k - 1 = a * SlotsPerCluster + o /\ k \in 1 .. Len(list) * SlotsPerCluster
  BY <1>2, <1>3, <1>5
<1>7. SlotPosition(list, k) = ClusterBase(list[i]) + o
  BY <1>2, <1>4, <1>6 DEF SlotPosition
<1>8. list[i] \in 2 .. LastCluster
  BY <1>1 DEF WellFormedDirectory, ClustersOf
<1>9. ClusterBase(list[i]) \in Nat
      /\ ClusterBase(list[i]) + SlotsPerCluster - 1 <= LastSlot
  BY <1>8, ClusterInVolume
<1>10. ClusterBase(list[i]) + o \in 0 .. LastSlot
  BY <1>3, <1>9, LastSlotNat
<1> QED
  BY <1>6, <1>7, <1>8, <1>10

\* Each slot of a directory is at an offset of one of its clusters.
LEMMA SlotPlace ==
  ASSUME NEW v \in Volume, NEW c \in ClusterNumber, WellFormedDirectory(v, c),
         NEW k \in 1 .. Len(v.chain[c]) * SlotsPerCluster
  PROVE  \E i \in 1 .. Len(v.chain[c]) : \E o \in Offset :
           k = (i - 1) * SlotsPerCluster + o + 1
<1> DEFINE list == v.chain[c]
<1>1. list \in Seq(ClusterNumber) /\ Len(list) \in Nat
  BY DEF Volume
<1>2. PICK x \in Nat : x = k - 1 /\ k = x + 1
  BY <1>1
<1>3. /\ x \div SlotsPerCluster \in Nat /\ x % SlotsPerCluster \in Offset
      /\ x = ((x \div SlotsPerCluster) * SlotsPerCluster)
               + (x % SlotsPerCluster)
  BY <1>2, PlaceOf DEF Offset
<1>4. PICK a \in Nat, o \in Offset : x = a * SlotsPerCluster + o
  BY <1>3
<1>5. a < Len(list)
  <2> SUFFICES ASSUME Len(list) <= a PROVE FALSE
    BY <1>1
  <2>1. Len(list) * SlotsPerCluster <= a * SlotsPerCluster
    BY <1>1, ProductGrows
  <2>2. o \in Nat /\ a * SlotsPerCluster \in Nat
        /\ Len(list) * SlotsPerCluster \in Nat
    BY <1>1 DEF Offset
  <2> QED
    BY <1>2, <1>4, <2>1, <2>2
<1>6. a + 1 \in 1 .. Len(list) /\ (a + 1) - 1 = a
  BY <1>1, <1>5
<1>7. k = ((a + 1) - 1) * SlotsPerCluster + o + 1
  BY <1>2, <1>4, <1>6
<1> QED
  BY <1>6, <1>7

\* A directory's slots are slots of the volume.
LEMMA SlotsTyped ==
  ASSUME NEW v \in Volume, NEW c \in ClusterNumber, WellFormedDirectory(v, c)
  PROVE  LET slots == DirectorySlots(v, c)
             n == Len(v.chain[c]) * SlotsPerCluster
         IN /\ n \in Nat /\ DOMAIN slots = 1 .. n
            /\ \A k \in 1 .. n :
                 /\ SlotPosition(v.chain[c], k) \in 0 .. LastSlot
                 /\ slots[k] = v.slot[SlotPosition(v.chain[c], k)]
                 /\ slots[k] \in Slot
<1> DEFINE list == v.chain[c]
           n == Len(list) * SlotsPerCluster
<1>1. list \in Seq(ClusterNumber) /\ Len(list) \in Nat
  BY DEF Volume
<1>2. n \in Nat
  <2>1. \A a, b \in Nat : a * b \in Nat
    BY Z3
  <2> QED
    BY <1>1, <2>1
<1>3. ASSUME NEW k \in 1 .. n
      PROVE  SlotPosition(list, k) \in 0 .. LastSlot
  <2>1. PICK i \in 1 .. Len(list), o \in Offset :
          k = (i - 1) * SlotsPerCluster + o + 1
    BY SlotPlace
  <2> QED
    BY <2>1, SlotAt
<1>4. v.slot \in [0 .. LastSlot -> Slot]
  BY DEF Volume
<1> QED
  BY <1>2, <1>3, <1>4 DEF DirectorySlots

-----------------------------------------------------------------------------
(***************************************************************************)
(* Runs of long name slots.                                                *)
(***************************************************************************)

\* The n slots before slot k belong to it, and the one before these does not.
RunOf(slots, k, n) ==
  /\ n \in 0 .. k - 1
  /\ \A m \in 1 .. n : IsLongSlot(slots[k - m]) /\ slots[k - m].seq = m
  /\ n + 1 < k =>
       ~(IsLongSlot(slots[k - n - 1]) /\ slots[k - n - 1].seq = n + 1)

\* The length of the run in front of an entry, from what the run is.
LEMMA RunLengthIs ==
  ASSUME NEW slots, NEW k \in Nat \ {0}
  PROVE  RunOf(slots, k, RunLength(slots, k))
<1> DEFINE Bars(n) == n + 1 < k =>
             ~(IsLongSlot(slots[k - n - 1]) /\ slots[k - n - 1].seq = n + 1)
           T == { n \in Nat : Bars(n) }
<1>1. PICK z \in Nat : z = k - 1 /\ k = z + 1
  OBVIOUS
<1>2. Bars(z)
  BY <1>1
<1> HIDE DEF Bars
<1>3. PICK n \in T : \A x \in T : n <= x
  BY <1>1, <1>2, LeastElement
<1>4. n \in Nat /\ n <= z /\ Bars(n)
  BY <1>1, <1>2, <1>3
<1>5. ASSUME NEW m \in 1 .. n
      PROVE  IsLongSlot(slots[k - m]) /\ slots[k - m].seq = m
  <2>1. PICK x \in Nat : x = m - 1 /\ m = x + 1 /\ k - x - 1 = k - m
    BY <1>4
  <2>2. x < n /\ x + 1 < k
    BY <1>1, <1>4, <2>1
  <2>3. ~Bars(x)
    BY <1>3, <1>4, <2>2
  <2> QED
    BY <2>1, <2>2, <2>3 DEF Bars
<1>6. n \in 0 .. k - 1
  BY <1>1, <1>4
<1>7. \E y \in 0 .. k - 1 :
        /\ \A m \in 1 .. y : IsLongSlot(slots[k - m]) /\ slots[k - m].seq = m
        /\ y + 1 < k =>
             ~(IsLongSlot(slots[k - y - 1]) /\ slots[k - y - 1].seq = y + 1)
  BY <1>4, <1>5, <1>6 DEF Bars
<1> QED
  BY <1>7 DEF RunOf, RunLength

\* What the run of an entry's slots is, seen from one of its slots.
LEMMA RunSlots ==
  ASSUME NEW slots, NEW h \in Nat \ {0}
  PROVE  /\ RunLength(slots, h) \in 0 .. h - 1
         /\ h - RunLength(slots, h) \in 1 .. h
         /\ \A m \in h - RunLength(slots, h) .. h - 1 :
              IsLongSlot(slots[m]) /\ slots[m].seq = h - m
<1> DEFINE n == RunLength(slots, h)
<1>1. /\ n \in 0 .. h - 1
      /\ \A m \in 1 .. n : IsLongSlot(slots[h - m]) /\ slots[h - m].seq = m
  BY RunLengthIs DEF RunOf
<1> HIDE DEF n
<1>2. ASSUME NEW m \in h - n .. h - 1
      PROVE  IsLongSlot(slots[m]) /\ slots[m].seq = h - m
  <2>1. h - m \in 1 .. n /\ h - (h - m) = m
    BY <1>1
  <2> QED
    BY <1>1, <2>1
<1>3. n \in 0 .. h - 1 /\ h - n \in 1 .. h
  BY <1>1
<1> QED
  BY <1>2, <1>3 DEF n

\* A run that is long name slots from slot k on begins at k or before it, and
\* at k where the slot before k is none.
LEMMA RunBegins ==
  ASSUME NEW slots, NEW h \in Nat \ {0}, NEW k \in 1 .. h,
         \A m \in k .. h - 1 : IsLongSlot(slots[m]) /\ slots[m].seq = h - m
  PROVE  /\ h - RunLength(slots, h) <= k
         /\ k = 1 \/ ~IsLongSlot(slots[k - 1]) => RunLength(slots, h) = h - k
<1> DEFINE n == RunLength(slots, h)
<1>1. RunOf(slots, h, n)
  BY RunLengthIs
<1>2. n \in Nat /\ n < h
  BY <1>1 DEF RunOf
<1>3. h - n <= k
  <2> SUFFICES ASSUME k < h - n PROVE FALSE
    BY <1>2
  <2>1. h - n - 1 \in k .. h - 1 /\ h - (h - n - 1) = n + 1 /\ n + 1 < h
    BY <1>2
  <2> HIDE DEF n
  <2>2. IsLongSlot(slots[h - n - 1]) /\ slots[h - n - 1].seq = n + 1
    BY <2>1
  <2> QED
    BY <1>1, <2>1, <2>2 DEF RunOf
<1>4. ASSUME k = 1 \/ ~IsLongSlot(slots[k - 1]) PROVE n = h - k
  <2> SUFFICES ASSUME h - n < k PROVE FALSE
    BY <1>2, <1>3
  <2>1. k - 1 \in h - n .. h - 1 /\ k # 1
    BY <1>2
  <2> QED
    BY <1>4, <2>1, RunSlots
<1> QED
  BY <1>3, <1>4

\* The slots that count are a beginning of the directory, none marked last.
LEMMA LiveDown ==
  ASSUME NEW slots, NEW n \in Nat, DOMAIN slots = 1 .. n, NEW k \in Live(slots)
  PROVE  /\ k \in 1 .. n /\ slots[k].mark # "last"
         /\ \A m \in 1 .. k : m \in Live(slots)
  BY DEF Live

\* A directory's long name slot leads to the entry of its run, slot by slot.
LEMMA RunLeads ==
  ASSUME NEW v \in Volume, NEW c \in ClusterNumber, WellFormedDirectory(v, c),
         NEW k \in Live(DirectorySlots(v, c)),
         IsLongSlot(DirectorySlots(v, c)[k])
  PROVE  LET slots == DirectorySlots(v, c)
             s == slots[k].seq
         IN /\ s \in 1 .. NameSlots /\ k + s \in Homes(slots)
            /\ \A m \in k .. k + s - 1 :
                 /\ m \in Live(slots) /\ IsLongSlot(slots[m])
                 /\ slots[m].seq = k + s - m
<1> DEFINE slots == DirectorySlots(v, c)
           s == slots[k].seq
           Leads(m) == /\ k + m \in Live(slots) /\ IsLongSlot(slots[k + m])
                       /\ slots[k + m].seq = s - m
           T == { m \in Nat : m < s /\ ~Leads(m) }
<1>1. PICK n \in Nat : DOMAIN slots = 1 .. n
  BY SlotsTyped
<1>2. \A m \in Live(slots) : IsLongSlot(slots[m]) =>
        /\ slots[m].seq \in 1 .. NameSlots
        /\ m + 1 \in Live(slots)
        /\ slots[m].seq > 1 =>
             IsLongSlot(slots[m + 1]) /\ slots[m + 1].seq = slots[m].seq - 1
        /\ slots[m].seq = 1 =>
             slots[m + 1].mark = "used" /\ ~IsLongSlot(slots[m + 1])
  BY DEF WellFormedDirectory, RunsComplete
<1>3. k \in Live(slots) /\ IsLongSlot(slots[k]) /\ k \in Nat
  BY <1>1, LiveDown
<1> HIDE DEF slots
<1>4. s \in 1 .. NameSlots /\ s \in Nat
  BY <1>2, <1>3, NameSlotsAssumption
<1> HIDE DEF s
<1>5. Leads(0)
  BY <1>3, <1>4 DEF s
<1>6. ASSUME NEW m \in Nat, m + 1 < s, Leads(m) PROVE Leads(m + 1)
  <2>1. /\ k + m + 1 \in Live(slots)
        /\ IsLongSlot(slots[k + m + 1]) /\ slots[k + m + 1].seq = s - m - 1
    BY <1>2, <1>3, <1>4, <1>6
  <2>2. k + m + 1 = k + (m + 1) /\ s - m - 1 = s - (m + 1)
    BY <1>3, <1>4
  <2> QED
    BY <2>1, <2>2
<1> HIDE DEF Leads
<1>7. T = {}
  <2> SUFFICES ASSUME T # {} PROVE FALSE
    OBVIOUS
  <2>1. PICK m \in T : \A x \in T : m <= x
    BY LeastElement
  <2>2. m \in Nat /\ m < s /\ ~Leads(m) /\ m # 0
    BY <2>1, <1>5
  <2>3. PICK y \in Nat : m = y + 1
    BY <2>2
  <2>4. Leads(y)
    BY <2>1, <2>2, <2>3, <1>4
  <2> QED
    BY <1>6, <2>2, <2>3, <2>4
<1>8. \A m \in Nat : m < s => Leads(m)
  BY <1>7
<1>9. ASSUME NEW m \in k .. k + s - 1
      PROVE  /\ m \in Live(slots) /\ IsLongSlot(slots[m])
             /\ slots[m].seq = k + s - m
  <2>1. m - k \in Nat /\ m - k < s /\ k + (m - k) = m /\ s - (m - k) = k + s - m
    BY <1>3, <1>4
  <2>2. Leads(m - k)
    BY <1>8, <2>1
  <2> QED
    BY <2>1, <2>2 DEF Leads
<1>10. k + s \in Homes(slots)
  <2>1. k + s - 1 \in k .. k + s - 1 /\ k + s - 1 + 1 = k + s
        /\ k + s - (k + s - 1) = 1
    BY <1>3, <1>4
  <2>2. k + s - 1 \in Live(slots) /\ IsLongSlot(slots[k + s - 1])
        /\ slots[k + s - 1].seq = 1
    BY <2>1, <1>9
  <2> QED
    BY <1>2, <2>1, <2>2 DEF Homes
<1> QED
  BY <1>4, <1>9, <1>10 DEF s, slots

\* The slots of c that continue a long name are neighbours on the volume.
UnsplitIn(v, c) ==
  \A k \in Live(DirectorySlots(v, c)) : IsLongSlot(DirectorySlots(v, c)[k]) =>
    SlotPosition(v.chain[c], k + 1) = SlotPosition(v.chain[c], k) + 1

LEMMA RunPositions ==
  ASSUME NEW v \in Volume, NEW c \in ClusterNumber, WellFormedDirectory(v, c),
         UnsplitIn(v, c),
         NEW k \in Live(DirectorySlots(v, c)), NEW h \in Nat, k <= h,
         \A m \in k .. h - 1 : /\ m \in Live(DirectorySlots(v, c))
                               /\ IsLongSlot(DirectorySlots(v, c)[m])
  PROVE  \A m \in k .. h :
           SlotPosition(v.chain[c], m) = SlotPosition(v.chain[c], k) + (m - k)
<1> DEFINE At(m) == SlotPosition(v.chain[c], m)
                      = SlotPosition(v.chain[c], k) + (m - k)
           T == { m \in Nat : k <= m /\ m <= h /\ ~At(m) }
<1>1. PICK n \in Nat : DOMAIN DirectorySlots(v, c) = 1 .. n
  BY SlotsTyped
<1>2. k \in Nat /\ SlotPosition(v.chain[c], k) \in Nat
  BY LiveDown, SlotsTyped, LastSlotNat
<1>3. At(k)
  BY <1>2
<1>4. ASSUME NEW m \in Nat, k <= m, m < h, At(m) PROVE At(m + 1)
  <2>1. m \in k .. h - 1
    BY <1>2, <1>4
  <2>2. SlotPosition(v.chain[c], m + 1) = SlotPosition(v.chain[c], m) + 1
    BY <2>1 DEF UnsplitIn
  <2> QED
    BY <1>2, <1>4, <2>2
<1> HIDE DEF At
<1>5. T = {}
  <2> SUFFICES ASSUME T # {} PROVE FALSE
    OBVIOUS
  <2>1. PICK m \in T : \A x \in T : m <= x
    BY LeastElement
  <2>2. m \in Nat /\ k <= m /\ m <= h /\ ~At(m) /\ m # k
    BY <2>1, <1>3
  <2>3. PICK y \in Nat : m = y + 1 /\ k <= y /\ y < h
    BY <2>2, <1>2
  <2>4. At(y)
    BY <2>1, <2>2, <2>3
  <2> QED
    BY <1>4, <2>2, <2>3, <2>4
<1>6. \A m \in k .. h : At(m)
  BY <1>2, <1>5
<1> QED
  BY <1>6 DEF At

-----------------------------------------------------------------------------
(***************************************************************************)
(* What getFAT32File makes of the slots of a directory.                    *)
(***************************************************************************)

\* f is read from slots k to h: the entry in slot h, or nothing.
ReadAs(v, c, k, h, f) ==
  LET slots == DirectorySlots(v, c)
      e == EntryOf(v, c, h)
  IN /\ h \in Live(slots) /\ h \in Nat /\ k <= h /\ ~IsLongSlot(slots[h])
     /\ \A m \in k .. h - 1 :
          m \in Live(slots) /\ IsLongSlot(slots[m]) /\ slots[m].seq = h - m
     /\ SlotPosition(v.chain[c], h) = SlotPosition(v.chain[c], k) + (h - k)
     /\ f.next = SlotPosition(v.chain[c], h) + 1
     /\ h \notin Homes(slots) => f.kind = "null"
     /\ h \in Homes(slots) =>
          /\ f.kind = "file" /\ f.home = e.home
          /\ f.attrs = e.attrs /\ f.clus = e.clus
          /\ RunLength(slots, h) = h - k =>
               f.name = IF e.cut THEN <<slots[h].text, Garbage>> ELSE e.name

\* What an entry is.
LEMMA EntryFields ==
  ASSUME NEW v, NEW c, NEW h
  PROVE  LET slots == DirectorySlots(v, c)
             e == EntryOf(v, c, h)
         IN /\ e.home = SlotPosition(v.chain[c], h) /\ e.order = h
            /\ e.name = NameOf(slots, h)
            /\ e.attrs = slots[h].attrs /\ e.clus = slots[h].clus
            /\ e.cut <=> RunLength(slots, h) = 0 /\ slots[h].ext = 1
  BY Zenon DEF EntryOf

\* The slots of a long name are read as one entry, which is that of its run.
LEMMA LongNameRead ==
  ASSUME NEW v \in Volume, NEW c \in ClusterNumber, WellFormedDirectory(v, c),
         UnsplitIn(v, c), NEW k \in Live(DirectorySlots(v, c)),
         IsLongSlot(DirectorySlots(v, c)[k])
  PROVE  \E h : ReadAs(v, c, k, h, getFAT32File(v, SlotPosition(v.chain[c], k)))
<1> DEFINE slots == DirectorySlots(v, c)
           s == slots[k].seq
           h == k + s
           p == SlotPosition(v.chain[c], k)
           f == getFAT32File(v, p)
           At(m) == SlotPosition(v.chain[c], m)
<1>1. PICK n \in Nat : DOMAIN slots = 1 .. n
  BY SlotsTyped
<1>2. /\ k \in Nat /\ k \in 1 .. n /\ s \in Nat /\ s >= 1 /\ s <= NameSlots
      /\ h \in Homes(slots)
      /\ \A m \in k .. h - 1 :
           /\ m \in Live(slots) /\ IsLongSlot(slots[m])
           /\ slots[m].seq = h - m
  BY <1>1, RunLeads, LiveDown, NameSlotsAssumption
<1>3. h \in Live(slots) /\ slots[h].mark = "used" /\ ~IsLongSlot(slots[h])
  BY <1>2 DEF Homes
<1>4. \A m \in k .. h : At(m) = p + (m - k)
  BY <1>2, RunPositions
<1>5. h \in 1 .. n /\ h \in Nat
  BY <1>1, <1>3, LiveDown
<1>6. ASSUME NEW m \in k .. h
      PROVE  At(m) \in 0 .. LastSlot /\ slots[m] = v.slot[At(m)]
  <2>1. m \in 1 .. n
    BY <1>2, <1>5
  <2>2. m \in DOMAIN slots
    BY <2>1, <1>1
  <2> QED
    BY <2>2, SlotsTyped
<1> HIDE DEF At, slots
<1>7. p \in 0 .. LastSlot /\ p \in Nat /\ slots[k] = v.slot[p]
  <2>1. k \in k .. h
    BY <1>2
  <2> QED
    BY <2>1, <1>6, LastSlotNat DEF At
<1>8. h = k + s /\ p + s = At(h) /\ At(h) \in 0 .. LastSlot
      /\ slots[h] = v.slot[p + s]
  <2>1. h \in k .. h /\ h - k = s
    BY <1>2
  <2> QED
    BY <2>1, <1>4, <1>6
<1> HIDE DEF h, p, s
<1>9. ASSUME NEW r \in p .. p + s - 1
      PROVE  /\ v.slot[r].seq = p + s - r /\ r \in 0 .. LastSlot - 1
             /\ v.slot[r] = slots[k + (r - p)]
  <2>1. PICK m \in k .. h - 1 : m = k + (r - p) /\ p + (m - k) = r
                                 /\ h - m = p + s - r
    <3>1. k + (r - p) \in k .. h - 1 /\ p + ((k + (r - p)) - k) = r
          /\ h - (k + (r - p)) = p + s - r
      BY <1>2, <1>7, <1>8
    <3> QED
      BY <3>1
  <2>2. m \in k .. h
    BY <1>2, <1>5
  <2>3. At(m) = r /\ slots[m] = v.slot[r] /\ slots[m].seq = h - m
    BY <2>1, <2>2, <1>2, <1>4, <1>6
  <2>4. r \in 0 .. LastSlot - 1
    BY <1>2, <1>7, <1>8, LastSlotNat
  <2> QED
    BY <2>1, <2>3, <2>4
<1>10. RunCloses(v, p) /\ LongNameEnd(v, p) = p + s - 1
  <2>1. PICK q \in p .. p + s - 1 : q = p + s - 1
    BY <1>2, <1>7
  <2>2. q \in p .. LastSlot - 1 /\ q < p + NameSlots /\ v.slot[q].seq = 1
    BY <2>1, <1>2, <1>7, <1>9, LastSlotNat, NameSlotsAssumption
  <2>3. RunCloses(v, p)
    BY <2>2 DEF RunCloses
  <2>4. PICK e : /\ e = LongNameEnd(v, p) /\ e \in p .. LastSlot - 1
                 /\ v.slot[e].seq = 1
                 /\ \A r \in p .. e - 1 : v.slot[r].seq # 1
    BY <1>7, <2>3, LongNameEndFirst
  <2>5. ~(q < e)
    <3>1. q < e => q \in p .. e - 1
      BY <2>1, <2>4, <1>7
    <3> QED
      BY <3>1, <2>2, <2>4
  <2>6. ~(e < q)
    <3> SUFFICES ASSUME e < q PROVE FALSE
      OBVIOUS
    <3>1. e \in p .. p + s - 1
      BY <2>1, <2>4, <1>2, <1>7, LastSlotNat
    <3>2. 1 = p + s - e
      BY <3>1, <1>9, <2>4
    <3> QED
      BY <3>1, <3>2, <2>1, <1>2, <1>7
  <2>7. e = q
    BY <2>1, <2>4, <2>5, <2>6, <1>2, <1>7, LastSlotNat
  <2> QED
    BY <2>1, <2>3, <2>4, <2>7
<1>11. slots[k].mark \notin {"erased", "last"} /\ isVFatEntry(v, p)
  <2>1. IsLongSlot(v.slot[p])
    BY <1>7 DEF slots
  <2> QED
    BY <2>1, <1>7 DEF IsLongSlot, isVFatEntry
<1>12. f = LongNamedFile(v, p)
  BY <1>7, <1>10, <1>11 DEF getFAT32File
<1>13. LongNameEnd(v, p) + 1 = p + s /\ LongNameEnd(v, p) - p + 1 = s
  BY <1>2, <1>7, <1>10
<1>14. /\ f.kind = "file" /\ f.home = p + s /\ f.next = p + s + 1
       /\ f.attrs = v.slot[p + s].attrs /\ f.clus = v.slot[p + s].clus
       /\ f.name = LongName(v, p)
  BY <1>12, <1>13 DEF LongNamedFile, EntryAt
<1>15. LongName(v, p) = [m \in 1 .. s |-> slots[h - m].text]
  <2>1. LongName(v, p) = [m \in 1 .. s |-> v.slot[p + s - 1 + 1 - m].text]
    BY <1>10, <1>13 DEF LongName
  <2>2. ASSUME NEW m \in 1 .. s
        PROVE  v.slot[p + s - 1 + 1 - m].text = slots[h - m].text
    <3>1. PICK r \in p .. p + s - 1 : r = p + s - m /\ p + s - 1 + 1 - m = r
                                      /\ k + (r - p) = h - m
      <4>1. p + s - m \in p .. p + s - 1 /\ p + s - 1 + 1 - m = p + s - m
            /\ k + ((p + s - m) - p) = h - m
        BY <1>2, <1>7, <1>8
      <4> QED
        BY <4>1
    <3> QED
      BY <3>1, <1>9
  <2> QED
    BY <2>1, <2>2
<1>16. ASSUME RunLength(slots, h) = h - k
       PROVE  f.name = EntryOf(v, c, h).name /\ ~EntryOf(v, c, h).cut
  <2>1. RunLength(slots, h) = s /\ s # 0
    BY <1>2, <1>8, <1>16
  <2>2. NameOf(slots, h) = [m \in 1 .. s |-> slots[h - m].text]
    BY <2>1 DEF NameOf
  <2>3. /\ EntryOf(v, c, h).name = NameOf(slots, h)
        /\ EntryOf(v, c, h).cut <=> RunLength(slots, h) = 0 /\ slots[h].ext = 1
    BY EntryFields DEF slots
  <2>4. ~EntryOf(v, c, h).cut
    BY <2>1, <2>3
  <2>5. f.name = EntryOf(v, c, h).name
    BY <2>2, <2>3, <1>14, <1>15
  <2> QED
    BY <2>4, <2>5
<1>17. /\ f.home = EntryOf(v, c, h).home /\ f.next = At(h) + 1
       /\ f.attrs = EntryOf(v, c, h).attrs /\ f.clus = EntryOf(v, c, h).clus
  BY <1>8, <1>14, EntryFields DEF At, slots
<1>18. At(h) = p + (h - k) /\ k <= h
  BY <1>2, <1>7, <1>8
<1> HIDE DEF f
<1>19. ReadAs(v, c, k, h, f)
  BY <1>2, <1>3, <1>5, <1>14, <1>16, <1>17, <1>18 DEF ReadAs, At, slots, p
<1> QED
  BY <1>19 DEF f, p

\* Any other slot of a directory is read for itself.
LEMMA ShortNameRead ==
  ASSUME NEW v \in Volume, NEW c \in ClusterNumber, WellFormedDirectory(v, c),
         NEW k \in Live(DirectorySlots(v, c)),
         ~IsLongSlot(DirectorySlots(v, c)[k])
  PROVE  ReadAs(v, c, k, k, getFAT32File(v, SlotPosition(v.chain[c], k)))
<1> DEFINE slots == DirectorySlots(v, c)
           p == SlotPosition(v.chain[c], k)
           f == getFAT32File(v, p)
<1>1. PICK n \in Nat : DOMAIN slots = 1 .. n
  BY SlotsTyped
<1>2. k \in 1 .. n /\ k \in Nat /\ slots[k].mark # "last"
  BY <1>1, LiveDown
<1>3. p \in 0 .. LastSlot /\ slots[k] = v.slot[p] /\ slots[k] \in Slot
  <2>1. k \in DOMAIN slots
    BY <1>1, <1>2
  <2> QED
    BY <2>1, SlotsTyped
<1>4. slots[k].mark \in {"used", "erased", "dot"}
  BY <1>2, <1>3 DEF Slot
<1>5. k \in Homes(slots) <=> slots[k].mark = "used"
  BY DEF Homes
<1>6. p \in Nat /\ p = p + (k - k)
  BY <1>2, <1>3, LastSlotNat
<1>7. ASSUME slots[k].mark # "erased" PROVE ~isVFatEntry(v, p)
  BY <1>3, <1>4, <1>7 DEF IsLongSlot, isVFatEntry
<1>8. k \notin Homes(slots) => f.kind = "null" /\ f.next = p + 1
  <2>1. CASE slots[k].mark = "erased"
    <3>1. f = EntryAt("null", p + 1, p, << >>, v.slot[p])
      BY <1>3, <2>1 DEF getFAT32File
    <3> QED
      BY <3>1 DEF EntryAt
  <2>2. CASE slots[k].mark = "dot"
    <3>1. f = EntryAt("null", p + 1, p, << >>, v.slot[p])
      BY <1>3, <1>7, <2>2 DEF getFAT32File, IsDot
    <3> QED
      BY <3>1 DEF EntryAt
  <2> QED
    BY <1>4, <1>5, <2>1, <2>2
<1>9. k \in Homes(slots) =>
        f = EntryAt("file", p + 1, p, ShortName(slots[k]), slots[k])
  <2> SUFFICES ASSUME slots[k].mark = "used"
               PROVE  f = EntryAt("file", p + 1, p, ShortName(slots[k]), slots[k])
    BY <1>5
  <2> QED
    BY <1>3, <1>7 DEF getFAT32File, IsDot
<1>10. ASSUME k \in Homes(slots)
       PROVE  /\ f.kind = "file" /\ f.home = p /\ f.next = p + 1
              /\ f.attrs = slots[k].attrs /\ f.clus = slots[k].clus
              /\ f.name = ShortName(slots[k])
  BY <1>9, <1>10 DEF EntryAt
<1>11. ASSUME RunLength(slots, k) = k - k
       PROVE  ShortName(slots[k]) = IF EntryOf(v, c, k).cut
                                    THEN <<slots[k].text, Garbage>>
                                    ELSE EntryOf(v, c, k).name
  <2>1. RunLength(slots, k) = 0
    BY <1>2, <1>11
  <2>2. NameOf(slots, k) = <<slots[k].text>>
    BY <2>1 DEF NameOf
  <2>3. /\ EntryOf(v, c, k).cut <=> slots[k].ext = 1
        /\ EntryOf(v, c, k).name = <<slots[k].text>>
    BY <2>1, <2>2, EntryFields
  <2> HIDE DEF slots
  <2> QED
    BY <2>3 DEF ShortName, ExtensionEnds
<1>12. /\ EntryOf(v, c, k).home = p /\ EntryOf(v, c, k).attrs = slots[k].attrs
       /\ EntryOf(v, c, k).clus = slots[k].clus
  BY EntryFields
<1>13. \A m \in k .. k - 1 : FALSE
  BY <1>2
<1> HIDE DEF f, p
<1>14. /\ f.next = p + 1
       /\ k \in Homes(slots) =>
            /\ f.kind = "file" /\ f.home = EntryOf(v, c, k).home
            /\ f.attrs = EntryOf(v, c, k).attrs
            /\ f.clus = EntryOf(v, c, k).clus
            /\ RunLength(slots, k) = k - k =>
                 f.name = IF EntryOf(v, c, k).cut
                          THEN <<slots[k].text, Garbage>>
                          ELSE EntryOf(v, c, k).name
  BY <1>8, <1>10, <1>11, <1>12
<1>15. ReadAs(v, c, k, k, f)
  BY <1>2, <1>6, <1>8, <1>13, <1>14 DEF ReadAs, p
<1> QED
  BY <1>15 DEF f, p

-----------------------------------------------------------------------------
(***************************************************************************)
(* The tree of directories.                                                *)
(***************************************************************************)
LEMMA FromTyped ==
  ASSUME NEW v, NEW c \in ClusterNumber
  PROVE  DirectoriesFrom(v, c) \in SUBSET ClusterNumber
         /\ c \in DirectoriesFrom(v, c)
BY DEF DirectoriesFrom

\* It is the least set closed under the links.
LEMMA FromLeast ==
  ASSUME NEW v, NEW c, NEW D \in SUBSET ClusterNumber, c \in D,
         \A link \in Links(v) : link[1] \in D => link[2] \in D
  PROVE  DirectoriesFrom(v, c) \subseteq D
BY DEF DirectoriesFrom

LEMMA LinkParts ==
  ASSUME NEW v, NEW d \in 2 .. LastCluster, NEW x \in Subdirectories(v, d)
  PROVE  <<d, x>> \in Links(v)
BY DEF Links

LEMMA LinksAre ==
  ASSUME NEW v, NEW link \in Links(v)
  PROVE  link[1] \in 2 .. LastCluster /\ link[2] \in Subdirectories(v, link[1])
BY DEF Links

LEMMA FromClosed ==
  ASSUME NEW v, NEW c, NEW d \in DirectoriesFrom(v, c), d \in 2 .. LastCluster,
         NEW x \in Subdirectories(v, d), x \in ClusterNumber
  PROVE  x \in DirectoriesFrom(v, c)
<1>1. PICK link \in Links(v) : link[1] = d /\ link[2] = x
  <2>1. <<d, x>> \in Links(v)
    BY LinkParts
  <2> QED
    BY <2>1
<1>2. ASSUME NEW D \in SUBSET ClusterNumber, c \in D,
             \A l \in Links(v) : l[1] \in D => l[2] \in D
      PROVE  x \in D
  <2>1. d \in D
    BY <1>2 DEF DirectoriesFrom
  <2> QED
    BY <1>1, <1>2, <2>1
<1> QED
  BY <1>2 DEF DirectoriesFrom

\* The entries of a directory of a sound volume.
LEMMA EntriesTyped ==
  ASSUME NEW v \in Volume, NEW c \in ClusterNumber, WellFormedDirectory(v, c)
  PROVE  /\ c \in 2 .. LastCluster
         /\ Subdirectories(v, c) \subseteq ClusterNumber
         /\ \A h \in Homes(DirectorySlots(v, c)) :
              /\ h \in 1 .. Len(v.chain[c]) * SlotsPerCluster
              /\ "subdirectory" \in EntryOf(v, c, h).attrs =>
                   EntryOf(v, c, h).clus \in Subdirectories(v, c)
<1> DEFINE slots == DirectorySlots(v, c)
<1>1. c \in 2 .. LastCluster
  <2>1. v.chain[c] \in Seq(ClusterNumber)
    BY DEF Volume
  <2>2. 1 \in DOMAIN v.chain[c] /\ v.chain[c][1] = c
    BY <2>1 DEF WellFormedDirectory
  <2> QED
    BY <2>2 DEF WellFormedDirectory, ClustersOf
<1>2. ASSUME NEW h \in Homes(slots)
      PROVE  /\ h \in 1 .. Len(v.chain[c]) * SlotsPerCluster
             /\ EntryOf(v, c, h).clus \in ClusterNumber
             /\ EntryOf(v, c, h) \in Entries(v, c)
  <2>1. h \in 1 .. Len(v.chain[c]) * SlotsPerCluster /\ slots[h] \in Slot
    BY SlotsTyped DEF Homes, Live
  <2>2. EntryOf(v, c, h).clus = slots[h].clus
    BY EntryFields
  <2>3. slots[h].clus \in ClusterNumber
    BY <2>1 DEF Slot
  <2> QED
    BY <2>1, <2>2, <2>3 DEF Entries
<1>3. ASSUME NEW x \in Subdirectories(v, c) PROVE x \in ClusterNumber
  <2>1. PICK e \in Entries(v, c) : x = e.clus
    BY DEF Subdirectories
  <2>2. PICK h \in Homes(slots) : e = EntryOf(v, c, h)
    BY DEF Entries
  <2> QED
    BY <2>1, <2>2, <1>2
<1>4. ASSUME NEW h \in Homes(slots),
             "subdirectory" \in EntryOf(v, c, h).attrs
      PROVE  EntryOf(v, c, h).clus \in Subdirectories(v, c)
  BY <1>2, <1>4 DEF Subdirectories
<1> QED
  BY <1>1, <1>2, <1>3, <1>4

\* With a directory its subdirectories, and all below them, are of the tree.
LEMMA TreeClosed ==
  ASSUME NEW v \in Volume, DirectoriesSound(v), NEW c \in Directories(v)
  PROVE  /\ c \in ClusterNumber /\ WellFormedDirectory(v, c)
         /\ Subdirectories(v, c) \subseteq Directories(v)
         /\ DirectoriesFrom(v, c) \subseteq Directories(v)
<1>1. v.root \in ClusterNumber
  BY DEF Volume
<1>2. ASSUME NEW d \in Directories(v)
      PROVE  /\ d \in ClusterNumber /\ WellFormedDirectory(v, d)
             /\ d \in 2 .. LastCluster
             /\ Subdirectories(v, d) \subseteq Directories(v)
  <2>1. d \in ClusterNumber /\ WellFormedDirectory(v, d)
    BY <1>1, FromTyped DEF Directories, DirectoriesSound
  <2>2. d \in 2 .. LastCluster /\ Subdirectories(v, d) \subseteq ClusterNumber
    BY <2>1, EntriesTyped
  <2>3. Subdirectories(v, d) \subseteq Directories(v)
    BY <2>2, FromClosed DEF Directories
  <2> QED
    BY <2>1, <2>2, <2>3
<1>3. Directories(v) \in SUBSET ClusterNumber
  BY <1>1, FromTyped DEF Directories
<1>4. \A link \in Links(v) : link[1] \in Directories(v) =>
                               link[2] \in Directories(v)
  BY <1>2, LinksAre
<1>5. DirectoriesFrom(v, c) \subseteq Directories(v)
  BY <1>3, <1>4, FromLeast
<1> QED
  BY <1>2, <1>5

\* What is at or below a directory is that directory, or at or below one of
\* its subdirectories.
LEMMA FromParts ==
  ASSUME NEW v \in Volume, DirectoriesSound(v), NEW c \in Directories(v),
         NEW d \in DirectoriesFrom(v, c)
  PROVE  d = c \/ \E x \in Subdirectories(v, c) : d \in DirectoriesFrom(v, x)
<1> DEFINE D == {c} \cup UNION { DirectoriesFrom(v, x) :
                                   x \in Subdirectories(v, c) }
<1>1. c \in ClusterNumber /\ Subdirectories(v, c) \subseteq Directories(v)
  BY TreeClosed
<1>2. \A x \in Subdirectories(v, c) :
        /\ x \in ClusterNumber /\ x \in DirectoriesFrom(v, x)
        /\ DirectoriesFrom(v, x) \in SUBSET ClusterNumber
        /\ DirectoriesFrom(v, x) \subseteq Directories(v)
  BY <1>1, TreeClosed, FromTyped
<1>3. D \in SUBSET ClusterNumber /\ c \in D
  BY <1>1, <1>2
<1>4. ASSUME NEW link \in Links(v), link[1] \in D PROVE link[2] \in D
  <2>1. /\ link[1] \in 2 .. LastCluster
        /\ link[2] \in Subdirectories(v, link[1])
    BY LinksAre
  <2>2. CASE link[1] = c
    <3>1. link[2] \in DirectoriesFrom(v, link[2])
      BY <1>2, <2>1, <2>2
    <3> QED
      BY <2>1, <2>2, <3>1
  <2>3. CASE \E x \in Subdirectories(v, c) : link[1] \in DirectoriesFrom(v, x)
    <3>1. PICK x \in Subdirectories(v, c) : link[1] \in DirectoriesFrom(v, x)
      BY <2>3
    <3>2. link[1] \in Directories(v)
      BY <1>2, <3>1
    <3>3. link[2] \in ClusterNumber
      BY <2>1, <3>2, TreeClosed
    <3>4. link[2] \in DirectoriesFrom(v, x)
      BY <2>1, <3>1, <3>3, FromClosed
    <3> QED
      BY <3>4
  <2> QED
    BY <1>4, <2>2, <2>3
<1> HIDE DEF D
<1>5. DirectoriesFrom(v, c) \subseteq D
  BY <1>3, <1>4, FromLeast
<1> QED
  BY <1>5 DEF D

-----------------------------------------------------------------------------
(***************************************************************************)
(* What a search has looked at in vain.                                    *)
(***************************************************************************)
SlotsOf(c) == DirectorySlots(vol, c)

Size(c) == Len(vol.chain[c]) * SlotsPerCluster

\* The slot where the entry in slot h begins.
Start(c, h) == h - RunLength(SlotsOf(c), h)

\* The entry is one of those asked for.
Asked(e) ==
  /\ "subdirectory" \notin e.attrs /\ "label" \notin e.attrs
  /\ e.name = target
  /\ isSearch => "hidden" \notin e.attrs

NoneIn(c) == \A e \in Entries(vol, c) : Asked(e) => e.cut

NoneFrom(c) == \A d \in DirectoriesFrom(vol, c) : NoneIn(d)

\* Neither the entry nor, where the search goes down, anything below it.
Vain(e) ==
  /\ Asked(e) => e.cut
  /\ mode # "root" /\ IsSubdirectory(e) => NoneFrom(e.clus)

\* So are all entries that begin in the first n slots of the directory.
AllVain(c, n) ==
  \A h \in Homes(SlotsOf(c)) : Start(c, h) <= n => Vain(EntryOf(vol, c, h))

Known(c) == c \in Directories(vol)

\* What the search may do with the file f and go on.
PassedOver(f) ==
  IF GoesDown(f) THEN Known(f.clus) => NoneFrom(f.clus) ELSE ~IsMatch(f)

Sound == Addressable /\ DirectoriesSound(vol) /\ Unsplit(vol)

\* What soundness says of a directory of the tree.
LEMMA KnownSound ==
  ASSUME SearchTyped, DirectoriesSound(vol), NEW c, Known(c)
  PROVE  /\ vol \in Volume /\ c \in ClusterNumber
         /\ WellFormedDirectory(vol, c) /\ c \in Directories(vol)
         /\ c \in 2 .. LastCluster
         /\ Size(c) \in Nat /\ DOMAIN SlotsOf(c) = 1 .. Size(c)
         /\ vol.chain[c] \in Seq(ClusterNumber) /\ Len(vol.chain[c]) \in Nat
         /\ \A i \in 1 .. Len(vol.chain[c]) : vol.chain[c][i] \in 2 .. LastCluster
         /\ Unsplit(vol) => UnsplitIn(vol, c)
<1>1. vol \in Volume /\ c \in Directories(vol)
  BY DEF SearchTyped, TypeOK, Known
<1>2. c \in ClusterNumber /\ WellFormedDirectory(vol, c)
  BY <1>1, TreeClosed
<1>3. c \in 2 .. LastCluster
  BY <1>1, <1>2, EntriesTyped
<1>4. Size(c) \in Nat /\ DOMAIN SlotsOf(c) = 1 .. Size(c)
  BY <1>1, <1>2, SlotsTyped DEF Size, SlotsOf
<1>5. vol.chain[c] \in Seq(ClusterNumber)
  BY <1>1, <1>2 DEF Volume
<1>6. \A i \in 1 .. Len(vol.chain[c]) : vol.chain[c][i] \in 2 .. LastCluster
  BY <1>2, <1>5 DEF WellFormedDirectory, ClustersOf
<1>7. Unsplit(vol) => UnsplitIn(vol, c)
  BY <1>1 DEF Unsplit, UnsplitIn
<1> QED
  BY <1>1, <1>2, <1>3, <1>4, <1>5, <1>6, <1>7

\* A home of a directory and the slots of its entry.
LEMMA HomeSlots ==
  ASSUME SearchTyped, DirectoriesSound(vol), NEW c, Known(c),
         NEW h \in Homes(SlotsOf(c))
  PROVE  /\ h \in 1 .. Size(c) /\ h \in Nat /\ h \in Live(SlotsOf(c))
         /\ ~IsLongSlot(SlotsOf(c)[h])
         /\ RunLength(SlotsOf(c), h) \in Nat
         /\ Start(c, h) = h - RunLength(SlotsOf(c), h)
         /\ Start(c, h) \in Nat /\ Start(c, h) \in 1 .. h
         /\ \A m \in Start(c, h) .. h - 1 :
              IsLongSlot(SlotsOf(c)[m]) /\ SlotsOf(c)[m].seq = h - m
<1>1. h \in Live(SlotsOf(c)) /\ ~IsLongSlot(SlotsOf(c)[h])
  BY DEF Homes
<1>2. h \in 1 .. Size(c) /\ h \in Nat \ {0}
  BY <1>1, KnownSound, LiveDown
<1>3. /\ RunLength(SlotsOf(c), h) \in 0 .. h - 1
      /\ h - RunLength(SlotsOf(c), h) \in 1 .. h
      /\ \A m \in h - RunLength(SlotsOf(c), h) .. h - 1 :
           IsLongSlot(SlotsOf(c)[m]) /\ SlotsOf(c)[m].seq = h - m
  BY <1>2, RunSlots
<1> QED
  BY <1>1, <1>2, <1>3 DEF Start

\* An entry that was read as itself, and passed over, was looked at in vain.
LEMMA ReadInVain ==
  ASSUME SearchTyped, DirectoriesSound(vol), NEW c, Known(c),
         NEW k, NEW h, NEW f, ReadAs(vol, c, k, h, f),
         h \in Homes(SlotsOf(c)), RunLength(SlotsOf(c), h) = h - k,
         PassedOver(f)
  PROVE  Vain(EntryOf(vol, c, h))
<1> DEFINE e == EntryOf(vol, c, h)
<1>1. /\ f.kind = "file" /\ f.attrs = e.attrs /\ f.clus = e.clus
      /\ f.name = IF e.cut THEN <<SlotsOf(c)[h].text, Garbage>> ELSE e.name
  BY DEF ReadAs, SlotsOf
<1>2. mode # "root" /\ IsSubdirectory(e) => NoneFrom(e.clus)
  <2> SUFFICES ASSUME mode # "root", IsSubdirectory(e) PROVE NoneFrom(e.clus)
    OBVIOUS
  <2>1. GoesDown(f)
    BY <1>1 DEF GoesDown, IsSubdirectory
  <2>2. Known(e.clus)
    <3>1. e.clus \in Subdirectories(vol, c)
      BY KnownSound, EntriesTyped DEF IsSubdirectory, SlotsOf
    <3> QED
      BY <3>1, KnownSound, TreeClosed DEF Known
  <2> HIDE DEF e
  <2> QED
    BY <1>1, <2>1, <2>2 DEF PassedOver
<1> HIDE DEF e
<1>3. Asked(e) => e.cut
  <2> SUFFICES ASSUME Asked(e), ~e.cut PROVE FALSE
    OBVIOUS
  <2>1. f.name = target /\ f.attrs = e.attrs
    BY <1>1 DEF Asked
  <2>2. ~IsSubdirectory(f)
    BY <2>1 DEF Asked, IsSubdirectory
  <2>3. Matches(f, target, isSearch)
    BY <2>1 DEF Asked, Matches, isFileVisible
  <2>4. IsMatch(f) /\ ~GoesDown(f)
    BY <2>2, <2>3 DEF IsMatch, GoesDown
  <2> QED
    BY <2>4 DEF PassedOver
<1> QED
  BY <1>2, <1>3 DEF Vain, e

\* What is read at slot k adds the entries that begin at k to those that were
\* looked at in vain; no entry begins behind k, before the next read.
LEMMA VainStep ==
  ASSUME SearchTyped, DirectoriesSound(vol), NEW c, Known(c),
         NEW k \in Nat \ {0}, NEW h, NEW f, ReadAs(vol, c, k, h, f),
         AllVain(c, k - 1), f.kind = "file" => PassedOver(f)
  PROVE  AllVain(c, h)
<1>1. /\ h \in Nat /\ k <= h /\ ~IsLongSlot(SlotsOf(c)[h])
      /\ \A m \in k .. h - 1 : IsLongSlot(SlotsOf(c)[m])
                               /\ SlotsOf(c)[m].seq = h - m
  BY DEF ReadAs, SlotsOf
<1> SUFFICES ASSUME NEW g \in Homes(SlotsOf(c)), Start(c, g) <= h
             PROVE  Vain(EntryOf(vol, c, g))
  BY DEF AllVain
<1>2. /\ g \in Nat /\ ~IsLongSlot(SlotsOf(c)[g])
      /\ Start(c, g) \in 1 .. g /\ Start(c, g) \in Nat
      /\ RunLength(SlotsOf(c), g) \in Nat
      /\ Start(c, g) = g - RunLength(SlotsOf(c), g)
      /\ \A m \in Start(c, g) .. g - 1 :
           IsLongSlot(SlotsOf(c)[m]) /\ SlotsOf(c)[m].seq = g - m
  BY HomeSlots
<1>3. CASE Start(c, g) <= k - 1
  BY <1>3 DEF AllVain
<1>4. CASE k <= Start(c, g)
  <2> DEFINE m == Start(c, g)
  <2>1. m \in Nat /\ k <= m /\ m <= h /\ m <= g
    BY <1>2, <1>4
  <2> HIDE DEF m
  <2>2. g = h
    <3>1. CASE m = h
      <4>1. m < g => IsLongSlot(SlotsOf(c)[m])
        BY <1>2, <2>1 DEF m
      <4> QED
        BY <1>1, <1>2, <2>1, <3>1, <4>1
    <3>2. CASE m < h
      <4>1. m \in k .. h - 1
        BY <1>1, <2>1, <3>2
      <4>2. IsLongSlot(SlotsOf(c)[m]) /\ SlotsOf(c)[m].seq = h - m
        BY <1>1, <4>1
      <4>3. m # g
        BY <1>2, <4>2
      <4>4. m \in m .. g - 1
        BY <1>2, <2>1, <4>3
      <4>5. SlotsOf(c)[m].seq = g - m
        BY <1>2, <4>4 DEF m
      <4> QED
        BY <1>1, <1>2, <2>1, <4>2, <4>5
    <3> QED
      BY <1>1, <2>1, <3>1, <3>2
  <2>3. f.kind = "file"
    BY <2>2 DEF ReadAs, SlotsOf
  <2>4. RunLength(SlotsOf(c), h) = h - k
    <3>1. h - RunLength(SlotsOf(c), h) <= k
      BY <1>1, RunBegins
    <3>2. k <= h - RunLength(SlotsOf(c), h) /\ RunLength(SlotsOf(c), h) \in Nat
      BY <1>2, <2>1, <2>2 DEF m
    <3> QED
      BY <1>1, <3>1, <3>2
  <2> QED
    BY <2>2, <2>3, <2>4, ReadInVain
<1> QED
  BY <1>2, <1>3, <1>4

-----------------------------------------------------------------------------
(***************************************************************************)
(* How far a call has got in its directory.                                *)
(***************************************************************************)

\* No long name goes on from slot n to the next one.
Between(c, n) ==
  n + 1 \in Live(SlotsOf(c)) => ~IsLongSlot(SlotsOf(c)[n])

\* The call is about to read the slot after n, which is in its cluster.
AtSlot(f, p, c, n) ==
  /\ f.i \in 1 .. Len(vol.chain[c])
  /\ \E o \in Offset :
       /\ n = (f.i - 1) * SlotsPerCluster + o
       /\ p = ClusterBase(vol.chain[c][f.i]) + o
       /\ f.j <= o
       /\ Roomy(vol) /\ NoLongName(vol, vol.chain[c][f.i]) => o = f.j
       /\ o = 0 \/ Between(c, n)

\* Or it has read the first n slots: those of the clusters it has begun, and
\* reads on behind the last of them.
Place(f, p, c, n) ==
  IF f.j < SlotsPerCluster
  THEN AtSlot(f, p, c, n) \/ (~Roomy(vol) /\ n = f.i * SlotsPerCluster)
  ELSE n = f.i * SlotsPerCluster

Going(f, p, c) == \E n \in 0 .. Size(c) : Place(f, p, c, n) /\ AllVain(c, n)

\* f is a frame of a call for the directory that starts at c.
FrameOf(f, c) ==
  f \in Frame /\ f.list = vol.chain[c] /\ f.i \in 0 .. Len(vol.chain[c])

\* The slot a call is about to read.
LEMMA SlotRead ==
  ASSUME SearchTyped, DirectoriesSound(vol), NEW c, Known(c),
         NEW i \in 1 .. Len(vol.chain[c]), NEW o \in Offset,
         NEW n, n = (i - 1) * SlotsPerCluster + o
  PROVE  /\ n \in Nat /\ n + 1 \in 1 .. Size(c) /\ n + 1 \in Nat \ {0}
         /\ SlotPosition(vol.chain[c], n + 1) = ClusterBase(vol.chain[c][i]) + o
         /\ SlotsOf(c)[n + 1] = vol.slot[ClusterBase(vol.chain[c][i]) + o]
         /\ i * SlotsPerCluster \in 0 .. Size(c)
         /\ n - o = (i - 1) * SlotsPerCluster /\ n - o \in Nat
         /\ n - o + SlotsPerCluster = i * SlotsPerCluster
<1>1. /\ vol \in Volume /\ c \in ClusterNumber /\ WellFormedDirectory(vol, c)
      /\ Len(vol.chain[c]) \in Nat
  BY KnownSound
<1>2. /\ n + 1 \in 1 .. Size(c)
      /\ SlotPosition(vol.chain[c], n + 1) = ClusterBase(vol.chain[c][i]) + o
  BY <1>1, SlotAt DEF Size
<1>3. SlotsOf(c)[n + 1] = vol.slot[SlotPosition(vol.chain[c], n + 1)]
  BY <1>1, <1>2, SlotsTyped DEF SlotsOf, Size
<1>4. PICK a \in Nat : a = i - 1 /\ i = a + 1
  BY <1>1
<1>5. o \in Nat /\ a * SlotsPerCluster \in Nat
      /\ (a + 1) * SlotsPerCluster = a * SlotsPerCluster + SlotsPerCluster
  <2>1. a * SlotsPerCluster \in Nat
    BY ProductGrows
  <2>2. (a + 1) * SlotsPerCluster = a * SlotsPerCluster + SlotsPerCluster
    BY Z3
  <2> QED
    BY <2>1, <2>2 DEF Offset
<1>6. a * SlotsPerCluster + SlotsPerCluster <= Size(c) /\ Size(c) \in Nat
  <2>1. a < Len(vol.chain[c])
    BY <1>1, <1>4
  <2> QED
    BY <2>1, <1>1, ProductGrows, KnownSound DEF Size
<1> QED
  BY <1>2, <1>3, <1>4, <1>5, <1>6

\* Behind the slot that ends a directory there is no entry.
LEMMA NoneBehindEnd ==
  ASSUME SearchTyped, DirectoriesSound(vol), NEW c, Known(c),
         NEW n \in Nat, n + 1 \notin Live(SlotsOf(c)), AllVain(c, n),
         n + 1 <= Size(c), NEW m
  PROVE  AllVain(c, m)
<1> SUFFICES ASSUME NEW h \in Homes(SlotsOf(c)) PROVE Start(c, h) <= n
  BY DEF AllVain
<1>1. h \in Nat /\ h \in Live(SlotsOf(c)) /\ Start(c, h) \in 1 .. h
  BY HomeSlots
<1>2. h <= n
  <2>1. \A x \in 1 .. h : x \in Live(SlotsOf(c))
    BY <1>1, KnownSound, LiveDown
  <2> QED
    BY <2>1, <1>1
<1> QED
  BY <1>1, <1>2

\* What was in vain for n slots was so for fewer.
LEMMA VainBelow ==
  ASSUME SearchTyped, DirectoriesSound(vol), NEW c, Known(c),
         NEW n \in Nat, NEW m \in Nat, m <= n, AllVain(c, n)
  PROVE  AllVain(c, m)
<1> SUFFICES ASSUME NEW h \in Homes(SlotsOf(c)), Start(c, h) <= m
             PROVE  Start(c, h) <= n
  BY DEF AllVain
<1>1. Start(c, h) \in Nat
  BY HomeSlots
<1> QED
  BY <1>1

\* A slot that is read as anything but the end is one of the directory's
\* entries, or of what stands between them.
LEMMA SlotReadAs ==
  ASSUME SearchTyped, DirectoriesSound(vol), Unsplit(vol), NEW c, Known(c),
         NEW k \in 1 .. Size(c), NEW p, p = SlotPosition(vol.chain[c], k),
         SlotsOf(c)[k] = vol.slot[p],
         getFAT32File(vol, p).kind # "last"
  PROVE  /\ k \in Live(SlotsOf(c))
         /\ \E h : ReadAs(vol, c, k, h, getFAT32File(vol, p))
<1>1. vol.slot[p].mark # "last"
  <2> SUFFICES ASSUME vol.slot[p].mark = "last"
               PROVE  getFAT32File(vol, p).kind = "last"
    OBVIOUS
  <2>1. getFAT32File(vol, p) = EntryAt("last", p, p, << >>, vol.slot[p])
    BY DEF getFAT32File
  <2> QED
    BY <2>1 DEF EntryAt
<1>2. k \in Live(SlotsOf(c))
  <2>1. LastStaysLast(SlotsOf(c))
    BY KnownSound DEF WellFormedDirectory, SlotsOf
  <2>2. k \in DOMAIN SlotsOf(c)
    BY KnownSound
  <2> QED
    BY <1>1, <2>1, <2>2 DEF LastStaysLast
<1>3. CASE IsLongSlot(SlotsOf(c)[k])
  BY <1>2, <1>3, KnownSound, LongNameRead DEF SlotsOf
<1>4. CASE ~IsLongSlot(SlotsOf(c)[k])
  BY <1>2, <1>4, KnownSound, ShortNameRead DEF SlotsOf
<1> QED
  BY <1>2, <1>3, <1>4

\* A call that has read an entry, and has not found it, goes on.
LEMMA GoingOn ==
  ASSUME SearchTyped, Sound, NEW c, Known(c), NEW f, FrameOf(f, c),
         f.j < SlotsPerCluster, NEW p \in 0 .. LastSlot, Going(f, p, c),
         getFAT32File(vol, p).kind \in {"null", "file"},
         getFAT32File(vol, p).kind = "file" => PassedOver(getFAT32File(vol, p))
  PROVE  Going(Counting(f, f.i, f.j + 1), getFAT32File(vol, p).next, c)
<1> DEFINE g == Counting(f, f.i, f.j + 1)
           r == getFAT32File(vol, p)
           end == f.i * SlotsPerCluster
<1>1. PICK n \in 0 .. Size(c) : Place(f, p, c, n) /\ AllVain(c, n)
  BY DEF Going
<1>2. g.i = f.i /\ g.j = f.j + 1
  BY CountingFields
<1>3. DirectoriesSound(vol) /\ Unsplit(vol)
  BY DEF Sound
<1>4. f.j \in Nat /\ Size(c) \in Nat /\ n \in Nat
  BY <1>1, <1>3, KnownSound DEF FrameOf, Frame
<1> HIDE DEF g, r
<1>5. CASE ~Roomy(vol) /\ n = end
  <2>1. Place(g, r.next, c, n)
    BY <1>2, <1>5 DEF Place
  <2> QED
    BY <2>1, <1>1 DEF Going, g, r
<1>6. CASE AtSlot(f, p, c, n)
  <2>1. f.i \in 1 .. Len(vol.chain[c])
    BY <1>6 DEF AtSlot
  <2>2. PICK o \in Offset :
          /\ n = (f.i - 1) * SlotsPerCluster + o
          /\ p = ClusterBase(vol.chain[c][f.i]) + o
          /\ f.j <= o
          /\ Roomy(vol) /\ NoLongName(vol, vol.chain[c][f.i]) => o = f.j
          /\ o = 0 \/ Between(c, n)
    BY <1>6 DEF AtSlot
  <2> DEFINE base == ClusterBase(vol.chain[c][f.i])
  <2>3. /\ n + 1 \in 1 .. Size(c) /\ n + 1 \in Nat \ {0}
        /\ SlotPosition(vol.chain[c], n + 1) = p
        /\ SlotsOf(c)[n + 1] = vol.slot[p]
        /\ end \in 0 .. Size(c) /\ n - o + SlotsPerCluster = end
        /\ n - o = (f.i - 1) * SlotsPerCluster
    <3>1. /\ n + 1 \in 1 .. Size(c) /\ n + 1 \in Nat \ {0}
          /\ SlotPosition(vol.chain[c], n + 1) = base + o
          /\ SlotsOf(c)[n + 1] = vol.slot[base + o]
          /\ end \in 0 .. Size(c)
          /\ n - o = (f.i - 1) * SlotsPerCluster
          /\ n - o + SlotsPerCluster = end
      BY <2>1, <2>2, <1>3, SlotRead
    <3> QED
      BY <3>1, <2>2
  <2>4. r.kind # "last"
    BY DEF r
  <2>5. PICK h : ReadAs(vol, c, n + 1, h, r)
    BY <2>3, <2>4, <1>3, SlotReadAs DEF r
  <2>6. AllVain(c, h)
    <3>1. AllVain(c, (n + 1) - 1)
      BY <1>1, <1>4
    <3>2. r.kind = "file" => PassedOver(r)
      BY DEF r
    <3> QED
      BY <3>1, <3>2, <2>3, <2>5, <1>3, VainStep
  <2>7. /\ h \in Live(SlotsOf(c)) /\ h \in Nat /\ n + 1 <= h
        /\ ~IsLongSlot(SlotsOf(c)[h])
        /\ n + 1 < h => IsLongSlot(SlotsOf(c)[n + 1])
        /\ r.next = p + (h - (n + 1)) + 1
    <3>1. n + 1 < h => n + 1 \in (n + 1) .. h - 1
      BY <2>3, <2>5 DEF ReadAs
    <3> QED
      BY <2>3, <2>5, <3>1 DEF ReadAs, SlotsOf
  <2>8. h <= Size(c)
    BY <2>7, <1>3, KnownSound, LiveDown
  <2>9. vol.chain[c][f.i] \in 2 .. LastCluster /\ base \in Nat
    BY <2>1, <1>3, KnownSound, ClusterInVolume
  <2> HIDE DEF end, base
  <2>10. PICK x \in Nat : x = o + (h - n) /\ h = (n - o) + x
                          /\ r.next = base + x /\ f.j < x
    <3>1. o \in Nat
      BY DEF Offset
    <3>2. o + (h - n) \in Nat /\ h = (n - o) + (o + (h - n)) /\ f.j < o + (h - n)
      BY <3>1, <1>4, <2>2, <2>7
    <3>3. r.next = base + (o + (h - n))
      BY <3>1, <1>4, <2>2, <2>7, <2>9 DEF base
    <3> QED
      BY <3>2, <3>3
  <2>11. ASSUME Roomy(vol)
         PROVE  /\ NoLongName(vol, vol.chain[c][f.i]) => x = f.j + 1
                /\ ~NoLongName(vol, vol.chain[c][f.i]) => x < SlotsPerCluster
    <3>1. InCluster(p, vol.chain[c][f.i])
      BY <2>2, <2>9 DEF InCluster, Offset, base
    <3>2. /\ NoLongName(vol, vol.chain[c][f.i]) => r.next = p + 1
          /\ ~NoLongName(vol, vol.chain[c][f.i]) =>
               InCluster(r.next, vol.chain[c][f.i])
      BY <3>1, <2>4, <2>9, <2>11, <1>3, KnownSound, EntryStays DEF r
    <3>3. o \in Nat /\ p = base + o
      BY <2>2 DEF Offset, base
    <3>4. ASSUME NoLongName(vol, vol.chain[c][f.i]) PROVE x = f.j + 1
      <4>1. o = f.j
        BY <2>2, <2>11, <3>4
      <4>2. base + x = base + o + 1
        BY <3>2, <3>3, <3>4, <2>10
      <4> QED
        BY <4>1, <4>2, <3>3, <2>9, <2>10
    <3>5. ASSUME ~NoLongName(vol, vol.chain[c][f.i]) PROVE x < SlotsPerCluster
      <4>1. r.next < base + SlotsPerCluster
        BY <3>2, <3>5 DEF InCluster, base
      <4>2. base + x < base + SlotsPerCluster
        BY <4>1, <2>10
      <4> QED
        BY <4>2, <2>9
    <3> QED
      BY <3>4, <3>5
  <2>12. CASE x < SlotsPerCluster
    <3>1. x \in Offset
      BY <2>12 DEF Offset
    <3>2. Between(c, h)
      BY <2>7 DEF Between
    <3>3. h = (f.i - 1) * SlotsPerCluster + x
      BY <2>3, <2>10
    <3>4. f.j + 1 <= x /\ f.j + 1 < SlotsPerCluster
      BY <1>4, <2>10, <2>12
    <3>5. AtSlot(g, r.next, c, h)
      BY <3>1, <3>2, <3>3, <3>4, <1>2, <2>1, <2>10, <2>11 DEF AtSlot, base
    <3>6. Place(g, r.next, c, h) /\ h \in 0 .. Size(c)
      BY <3>4, <3>5, <1>2, <1>4, <2>7, <2>8 DEF Place
    <3> QED
      BY <3>6, <2>6 DEF Going, g, r
  <2>13. CASE ~(x < SlotsPerCluster)
    <3>1. end <= h /\ end \in Nat
      BY <2>3, <2>10, <2>13, <1>4, <2>2 DEF Offset
    <3>2. AllVain(c, end)
      BY <3>1, <2>6, <2>7, <1>3, VainBelow
    <3>3. f.j + 1 < SlotsPerCluster => ~Roomy(vol)
      BY <2>10, <2>11, <2>13, <1>4
    <3>4. Place(g, r.next, c, end)
      BY <3>3, <1>2 DEF Place, end
    <3> QED
      BY <3>2, <3>4, <2>3 DEF Going, g, r
  <2> QED
    BY <2>12, <2>13
<1> QED
  BY <1>1, <1>5, <1>6 DEF Place

\* A slot marked last ends the directory, or stands behind the cluster.
LEMMA GoingToEnd ==
  ASSUME SearchTyped, Sound, NEW c, Known(c), NEW f, FrameOf(f, c),
         f.j < SlotsPerCluster, NEW p \in 0 .. LastSlot, Going(f, p, c),
         getFAT32File(vol, p).kind = "last", NEW q
  PROVE  Going(Counting(f, f.i, ClusterDone), q, c)
<1> DEFINE g == Counting(f, f.i, ClusterDone)
           end == f.i * SlotsPerCluster
<1>1. PICK n \in 0 .. Size(c) : Place(f, p, c, n) /\ AllVain(c, n)
  BY DEF Going
<1>2. g.i = f.i /\ g.j = SlotsPerCluster
  BY CountingFields DEF ClusterDone
<1>3. DirectoriesSound(vol) /\ vol \in Volume
  BY DEF Sound, SearchTyped, TypeOK
<1> HIDE DEF g
<1>4. Place(g, q, c, end)
  BY <1>2 DEF Place
<1>5. CASE n = end
  BY <1>1, <1>4, <1>5 DEF Going, g
<1>6. CASE AtSlot(f, p, c, n)
  <2>1. f.i \in 1 .. Len(vol.chain[c])
    BY <1>6 DEF AtSlot
  <2>2. PICK o \in Offset :
          /\ n = (f.i - 1) * SlotsPerCluster + o
          /\ p = ClusterBase(vol.chain[c][f.i]) + o
    BY <1>6 DEF AtSlot
  <2>3. /\ n \in Nat /\ n + 1 \in 1 .. Size(c)
        /\ SlotsOf(c)[n + 1] = vol.slot[p]
        /\ end \in 0 .. Size(c)
    <3>1. n = (f.i - 1) * SlotsPerCluster + o
      BY <2>2
    <3> HIDE DEF end
    <3>2. /\ n \in Nat /\ n + 1 \in 1 .. Size(c)
          /\ SlotsOf(c)[n + 1] = vol.slot[ClusterBase(vol.chain[c][f.i]) + o]
      BY <2>1, <3>1, <1>3, SlotRead
    <3>3. f.i * SlotsPerCluster \in 0 .. Size(c)
      BY <2>1, <3>1, <1>3, SlotRead
    <3> QED
      BY <3>2, <3>3, <2>2 DEF end
  <2> HIDE DEF end
  <2>4. vol.slot[p].mark = "last"
    <3>1. \A r, home : IsFile(vol, r, home) => r.kind = "file"
      BY DEF IsFile
    <3> DEFINE r == getFAT32File(vol, p)
    <3>2. \/ r.kind = "null"
          \/ r.kind = "last" /\ vol.slot[p].mark = "last"
          \/ IsFile(vol, r, p)
          \/ IsFile(vol, r, LongNameEnd(vol, p) + 1)
          \/ r.kind = "beyond"
      BY <1>3, EntryShape
    <3> HIDE DEF r
    <3>3. \/ r.kind = "null"
          \/ r.kind = "last" /\ vol.slot[p].mark = "last"
          \/ r.kind = "file"
          \/ r.kind = "beyond"
      BY <3>1, <3>2
    <3>4. r.kind = "last"
      BY DEF r
    <3> QED
      BY <3>3, <3>4
  <2>5. n + 1 \notin Live(SlotsOf(c))
    BY <2>3, <2>4, <1>3, KnownSound, LiveDown
  <2>6. AllVain(c, end)
    BY <2>3, <2>5, <1>1, <1>3, NoneBehindEnd
  <2> QED
    BY <2>3, <2>6, <1>4 DEF Going, g
<1>7. f.j < SlotsPerCluster => AtSlot(f, p, c, n) \/ n = end
  BY <1>1 DEF Place
<1> QED
  BY <1>5, <1>6, <1>7

\* The next cluster is begun with its first slot.
LEMMA GoingToNext ==
  ASSUME SearchTyped, Sound, NEW c, Known(c), NEW f, FrameOf(f, c),
         f.j = SlotsPerCluster, f.i < Len(f.list), NEW p, Going(f, p, c)
  PROVE  Going(Counting(f, f.i + 1, 0), seekToCluster(f.list[f.i + 1]), c)
<1> DEFINE g == Counting(f, f.i + 1, 0)
           x == vol.chain[c][f.i + 1]
<1>1. PICK n \in 0 .. Size(c) : Place(f, p, c, n) /\ AllVain(c, n)
  BY DEF Going
<1>2. g.i = f.i + 1 /\ g.j = 0
  BY CountingFields
<1>3. DirectoriesSound(vol) /\ Addressable
  BY DEF Sound
<1>4. f.i \in Nat /\ f.i + 1 \in 1 .. Len(vol.chain[c]) /\ f.list = vol.chain[c]
  BY <1>3, KnownSound DEF FrameOf
<1>5. x \in 2 .. LastCluster
  BY <1>3, <1>4, KnownSound
<1>6. seekToCluster(x) = ClusterBase(x) /\ ClusterBase(x) \in Nat
  BY <1>3, <1>5, SeekExact, ClusterInVolume
<1>7. n = f.i * SlotsPerCluster
  BY <1>1 DEF Place
<1>8. /\ 0 \in Offset /\ n = ((f.i + 1) - 1) * SlotsPerCluster + 0
      /\ ClusterBase(x) = ClusterBase(x) + 0
  <2>1. (f.i + 1) - 1 = f.i /\ n \in Nat
    BY <1>1, <1>3, <1>4, KnownSound
  <2> QED
    BY <2>1, <1>6, <1>7 DEF Offset
<1> HIDE DEF g
<1>9. AtSlot(g, ClusterBase(x), c, n)
  BY <1>2, <1>4, <1>8 DEF AtSlot
<1>10. Place(g, seekToCluster(x), c, n)
  BY <1>2, <1>6, <1>9 DEF Place
<1> QED
  BY <1>1, <1>4, <1>10 DEF Going, g

\* A call that returns has looked at all that its directory lists, and at all
\* that the directories below it list.
LEMMA GoneThrough ==
  ASSUME SearchTyped, Sound, NEW c, Known(c), NEW f, FrameOf(f, c),
         f.j = SlotsPerCluster, f.i = Len(f.list), NEW p, Going(f, p, c)
  PROVE  NoneIn(c) /\ (mode # "root" => NoneFrom(c))
<1>1. PICK n \in 0 .. Size(c) : Place(f, p, c, n) /\ AllVain(c, n)
  BY DEF Going
<1>2. DirectoriesSound(vol) /\ vol \in Volume
  BY DEF Sound, SearchTyped, TypeOK
<1>3. n = Size(c)
  BY <1>1 DEF Place, FrameOf, Size
<1>4. ASSUME NEW h \in Homes(SlotsOf(c)) PROVE Vain(EntryOf(vol, c, h))
  <2>1. h \in 1 .. Size(c) /\ Start(c, h) \in 1 .. h /\ Size(c) \in Nat
    BY <1>2, HomeSlots, KnownSound
  <2>2. Start(c, h) <= n
    BY <2>1, <1>3
  <2> QED
    BY <2>2, <1>1 DEF AllVain
<1>5. NoneIn(c)
  BY <1>4 DEF NoneIn, Entries, Vain, SlotsOf
<1>6. ASSUME mode # "root", NEW d \in DirectoriesFrom(vol, c) PROVE NoneIn(d)
  <2>1. CASE d = c
    BY <1>5, <2>1
  <2>2. CASE \E x \in Subdirectories(vol, c) : d \in DirectoriesFrom(vol, x)
    <3>1. PICK x \in Subdirectories(vol, c) : d \in DirectoriesFrom(vol, x)
      BY <2>2
    <3>2. PICK e \in Entries(vol, c) : "subdirectory" \in e.attrs /\ x = e.clus
      BY DEF Subdirectories
    <3>3. PICK h \in Homes(SlotsOf(c)) : e = EntryOf(vol, c, h)
      BY DEF Entries, SlotsOf
    <3>4. NoneFrom(x)
      BY <3>2, <3>3, <1>4, <1>6 DEF Vain, IsSubdirectory
    <3> QED
      BY <3>1, <3>4 DEF NoneFrom
  <2> QED
    BY <2>1, <2>2, <1>2, FromParts, KnownSound
<1> QED
  BY <1>5, <1>6 DEF NoneFrom

\* Where clusters have room the last slot of a cluster is of no long name.
LEMMA NoLongAtEnd ==
  ASSUME SearchTyped, DirectoriesSound(vol), Roomy(vol), NEW c, Known(c),
         NEW i \in 1 .. Len(vol.chain[c]), NEW k,
         k = (i - 1) * SlotsPerCluster + (SlotsPerCluster - 1) + 1,
         k \in Live(SlotsOf(c))
  PROVE  ~IsLongSlot(SlotsOf(c)[k])
<1> DEFINE x == vol.chain[c][i]
<1>1. PICK o \in Offset : o = SlotsPerCluster - 1
  BY DEF Offset
<1>2. PICK n : n = (i - 1) * SlotsPerCluster + o
  OBVIOUS
<1>3. k = n + 1
  BY <1>1, <1>2
<1>4. SlotsOf(c)[n + 1] = vol.slot[ClusterBase(x) + o]
  BY <1>2, SlotRead
<1>5. SlotsOf(c)[k] = SlotIn(vol, x, SlotsPerCluster - 1)
  BY <1>1, <1>3, <1>4 DEF SlotIn
<1>6. x \in 2 .. LastCluster
  BY KnownSound
<1>7. SlotsOf(c)[k].mark # "last"
  BY KnownSound, LiveDown
<1>8. NoLongName(vol, x)
  BY <1>5, <1>6, <1>7 DEF Roomy, ClosedByLast
<1> QED
  BY <1>1, <1>5, <1>8 DEF NoLongName

\* So no long name goes on in another cluster.
LEMMA RoomyUnsplit ==
  ASSUME SearchTyped, DirectoriesSound(vol), Roomy(vol)
  PROVE  Unsplit(vol)
<1> SUFFICES ASSUME NEW c \in Directories(vol), NEW k \in Live(SlotsOf(c)),
                    IsLongSlot(SlotsOf(c)[k])
             PROVE  SlotPosition(vol.chain[c], k + 1)
                      = SlotPosition(vol.chain[c], k) + 1
  BY DEF Unsplit, SlotsOf
<1>1. Known(c)
  BY DEF Known
<1>2. /\ vol \in Volume /\ c \in ClusterNumber /\ WellFormedDirectory(vol, c)
      /\ k \in 1 .. Len(vol.chain[c]) * SlotsPerCluster
  BY <1>1, KnownSound, LiveDown DEF Size
<1>3. PICK i \in 1 .. Len(vol.chain[c]), o \in Offset :
        k = (i - 1) * SlotsPerCluster + o + 1
  BY <1>2, SlotPlace
<1>4. o # SlotsPerCluster - 1
  BY <1>1, <1>3, NoLongAtEnd
<1>5. PICK q \in Offset : q = o + 1
  BY <1>4 DEF Offset
<1>6. /\ SlotPosition(vol.chain[c], k) = ClusterBase(vol.chain[c][i]) + o
      /\ vol.chain[c][i] \in 2 .. LastCluster
  BY <1>2, <1>3, SlotAt
<1>7. SlotPosition(vol.chain[c], (i - 1) * SlotsPerCluster + q + 1)
        = ClusterBase(vol.chain[c][i]) + q
  BY <1>2, SlotAt
<1>8. (i - 1) * SlotsPerCluster + q + 1 = k + 1
      /\ ClusterBase(vol.chain[c][i]) \in Nat /\ o \in Nat
  <2>1. (i - 1) * SlotsPerCluster \in Nat
    <3>1. i - 1 \in Nat
      OBVIOUS
    <3> QED
      BY <3>1, ProductGrows
  <2> QED
    BY <2>1, <1>3, <1>5, <1>6, ClusterInVolume DEF Offset
<1>9. ClusterBase(vol.chain[c][i]) + q = ClusterBase(vol.chain[c][i]) + o + 1
  BY <1>5, <1>8
<1> QED
  BY <1>6, <1>7, <1>8, <1>9

\* Of a directory's entries that are asked for, and can be found, the one in
\* slot home is the first.
FirstIn(c, home) ==
  \E e \in Entries(vol, c) :
    /\ Asked(e) /\ e.home = home
    /\ \A f \in Entries(vol, c) : Asked(f) /\ ~f.cut => e.order <= f.order

\* A file that matches is the first that is asked for in the directory that
\* is being read: those before it were in vain, and behind it begins none.
LEMMA MatchIsFirst ==
  ASSUME SearchTyped, Sound, Roomy(vol), NEW c, Known(c),
         NEW f, FrameOf(f, c), f.j < SlotsPerCluster,
         NEW p \in 0 .. LastSlot, Going(f, p, c),
         getFAT32File(vol, p).kind = "file",
         ~GoesDown(getFAT32File(vol, p)), IsMatch(getFAT32File(vol, p))
  PROVE  FirstIn(c, getFAT32File(vol, p).home)
<1> DEFINE r == getFAT32File(vol, p)
<1>1. PICK n \in 0 .. Size(c) : AtSlot(f, p, c, n) /\ AllVain(c, n)
  BY DEF Going, Place
<1>2. DirectoriesSound(vol) /\ Unsplit(vol)
  BY DEF Sound
<1>3. f.i \in 1 .. Len(vol.chain[c])
  BY <1>1 DEF AtSlot
<1>4. PICK o \in Offset :
        /\ n = (f.i - 1) * SlotsPerCluster + o
        /\ p = ClusterBase(vol.chain[c][f.i]) + o
        /\ o = 0 \/ Between(c, n)
  BY <1>1 DEF AtSlot
<1>5. /\ n \in Nat /\ n + 1 \in 1 .. Size(c)
      /\ SlotPosition(vol.chain[c], n + 1) = p
      /\ SlotsOf(c)[n + 1] = vol.slot[p]
  <2>1. /\ n \in Nat /\ n + 1 \in 1 .. Size(c)
        /\ SlotPosition(vol.chain[c], n + 1)
             = ClusterBase(vol.chain[c][f.i]) + o
        /\ SlotsOf(c)[n + 1] = vol.slot[ClusterBase(vol.chain[c][f.i]) + o]
    BY <1>2, <1>3, <1>4, SlotRead
  <2> QED
    BY <2>1, <1>4
<1> HIDE DEF r
<1>6. r.kind = "file" /\ ~GoesDown(r) /\ IsMatch(r)
  BY DEF r
<1>7. /\ n + 1 \in Live(SlotsOf(c))
      /\ \E h : ReadAs(vol, c, n + 1, h, r)
  BY <1>2, <1>5, <1>6, SlotReadAs DEF r
<1>8. PICK h : ReadAs(vol, c, n + 1, h, r)
  BY <1>7
<1>9. h \in Homes(SlotsOf(c)) /\ h \in Nat /\ n + 1 <= h
      /\ \A m \in n + 1 .. h - 1 :
           IsLongSlot(SlotsOf(c)[m]) /\ SlotsOf(c)[m].seq = h - m
  BY <1>6, <1>8 DEF ReadAs, SlotsOf
<1>10. n = 0 \/ ~IsLongSlot(SlotsOf(c)[n])
  <2>1. CASE o # 0
    BY <1>4, <1>7, <2>1 DEF Between
  <2>2. CASE o = 0 /\ f.i = 1
    <3>1. (f.i - 1) * SlotsPerCluster = 0
      BY <2>2, ProductGrows
    <3> QED
      BY <3>1, <2>2, <1>4
  <2>3. CASE o = 0 /\ f.i # 1
    <3>1. PICK i \in 1 .. Len(vol.chain[c]) : i = f.i - 1
      BY <1>3, <2>3, <1>2, KnownSound
    <3>2. n = (i - 1) * SlotsPerCluster + (SlotsPerCluster - 1) + 1
      <4>1. PICK a \in Nat : a = i - 1 /\ i = a + 1
        BY <3>1, <1>2, KnownSound
      <4>2. (a + 1) * SlotsPerCluster = a * SlotsPerCluster + SlotsPerCluster
            /\ a * SlotsPerCluster \in Nat
        BY Z3
      <4>3. n = (a + 1) * SlotsPerCluster
        BY <3>1, <4>1, <4>2, <1>4, <2>3
      <4> QED
        BY <4>1, <4>2, <4>3
    <3>3. n \in 1 .. n + 1
      <4>1. (i - 1) * SlotsPerCluster \in Nat
        <5>1. i - 1 \in Nat
          BY <1>2, KnownSound
        <5> QED
          BY <5>1, ProductGrows
      <4> QED
        BY <3>2, <4>1, <1>5
    <3>4. n \in Live(SlotsOf(c))
      BY <3>3, <1>2, <1>7, KnownSound, LiveDown
    <3> QED
      BY <3>2, <3>4, <1>2, NoLongAtEnd
  <2> QED
    BY <2>1, <2>2, <2>3
<1>11. RunLength(SlotsOf(c), h) = h - (n + 1)
  <2>1. h \in Nat \ {0} /\ n + 1 \in 1 .. h
    BY <1>5, <1>9
  <2>2. n + 1 = 1 \/ ~IsLongSlot(SlotsOf(c)[(n + 1) - 1])
    <3>1. (n + 1) - 1 = n
      BY <1>5
    <3> QED
      BY <3>1, <1>10, <1>5
  <2> QED
    BY <2>1, <2>2, <1>9, RunBegins
<1> DEFINE e == EntryOf(vol, c, h)
<1>12. /\ r.home = e.home /\ r.attrs = e.attrs
       /\ r.name = IF e.cut THEN <<SlotsOf(c)[h].text, Garbage>> ELSE e.name
  BY <1>8, <1>9, <1>11 DEF ReadAs, SlotsOf
<1>13. e \in Entries(vol, c) /\ e.order = h
  BY <1>9, EntryFields DEF Entries, SlotsOf
<1> HIDE DEF e
<1>14. ~e.cut
  <2> SUFFICES ASSUME e.cut PROVE FALSE
    OBVIOUS
  <2>1. target = <<SlotsOf(c)[h].text, Garbage>>
    BY <1>6, <1>12 DEF IsMatch, Matches
  <2>2. target \in Seq(Text)
    BY TargetsAssumption DEF SearchTyped, TypeOK
  <2>3. Len(target) = 2 /\ target[2] = Garbage
    BY <2>1
  <2>4. target[2] \in Text
    <3>1. \A s \in Seq(Text) : \A i \in 1 .. Len(s) : s[i] \in Text
      OBVIOUS
    <3>2. 2 \in 1 .. Len(target)
      BY <2>3
    <3> QED
      BY <3>1, <3>2, <2>2
  <2> QED
    BY <2>3, <2>4, GarbageAssumption
<1>15. Asked(e)
  <2>1. /\ e.name = target /\ "label" \notin e.attrs
        /\ isSearch => "hidden" \notin e.attrs
    BY <1>6, <1>12, <1>14 DEF IsMatch, Matches, isFileVisible
  <2>2. "subdirectory" \notin e.attrs
    BY <1>6, <1>12 DEF IsMatch, GoesDown, IsSubdirectory
  <2> QED
    BY <2>1, <2>2 DEF Asked
<1>16. ASSUME NEW x \in Entries(vol, c), Asked(x), ~x.cut
       PROVE  e.order <= x.order
  <2>1. PICK g \in Homes(SlotsOf(c)) : x = EntryOf(vol, c, g)
    BY DEF Entries, SlotsOf
  <2>2. x.order = g
    BY <2>1, EntryFields
  <2>3. g \in Nat /\ ~IsLongSlot(SlotsOf(c)[g]) /\ Start(c, g) \in Nat
        /\ Start(c, g) <= g
    BY <1>2, HomeSlots
  <2>4. ~(g <= n)
    <3> SUFFICES ASSUME g <= n PROVE FALSE
      OBVIOUS
    <3>1. Start(c, g) <= n
      BY <2>3, <1>5
    <3>2. Vain(x)
      BY <3>1, <1>1, <2>1 DEF AllVain
    <3> QED
      BY <3>2, <1>16 DEF Vain
  <2>5. ~(g \in n + 1 .. h - 1)
    BY <1>9, <2>3
  <2> QED
    BY <2>2, <2>3, <2>4, <2>5, <1>5, <1>9, <1>13
<1>17. e.home = getFAT32File(vol, p).home
  BY <1>12 DEF r
<1> QED
  BY <1>13, <1>15, <1>16, <1>17 DEF FirstIn

\* In a volume with room a subdirectory that is read is one of the tree.
LEMMA ReadsSubdirectory ==
  ASSUME SearchTyped, Sound, Roomy(vol), NEW c, Known(c),
         NEW f, FrameOf(f, c), f.j < SlotsPerCluster,
         NEW p \in 0 .. LastSlot, Going(f, p, c),
         getFAT32File(vol, p).kind = "file",
         IsSubdirectory(getFAT32File(vol, p))
  PROVE  Known(getFAT32File(vol, p).clus)
<1> DEFINE r == getFAT32File(vol, p)
<1>1. PICK n \in 0 .. Size(c) : AtSlot(f, p, c, n)
  BY DEF Going, Place
<1>2. DirectoriesSound(vol) /\ Unsplit(vol) /\ vol \in Volume
  BY DEF Sound, SearchTyped, TypeOK
<1>3. f.i \in 1 .. Len(vol.chain[c])
  BY <1>1 DEF AtSlot
<1>4. PICK o \in Offset :
        /\ n = (f.i - 1) * SlotsPerCluster + o
        /\ p = ClusterBase(vol.chain[c][f.i]) + o
  BY <1>1 DEF AtSlot
<1>5. /\ n + 1 \in 1 .. Size(c)
      /\ SlotPosition(vol.chain[c], n + 1) = p
      /\ SlotsOf(c)[n + 1] = vol.slot[p]
  <2>1. /\ n + 1 \in 1 .. Size(c)
        /\ SlotPosition(vol.chain[c], n + 1)
             = ClusterBase(vol.chain[c][f.i]) + o
        /\ SlotsOf(c)[n + 1] = vol.slot[ClusterBase(vol.chain[c][f.i]) + o]
    BY <1>2, <1>3, <1>4, SlotRead
  <2> QED
    BY <2>1, <1>4
<1> HIDE DEF r
<1>6. r.kind = "file" /\ "subdirectory" \in r.attrs
  BY DEF r, IsSubdirectory
<1>7. \E h : ReadAs(vol, c, n + 1, h, r)
  BY <1>2, <1>5, <1>6, SlotReadAs DEF r
<1>8. PICK h : ReadAs(vol, c, n + 1, h, r)
  BY <1>7
<1>9. /\ h \in Homes(SlotsOf(c))
      /\ r.attrs = EntryOf(vol, c, h).attrs /\ r.clus = EntryOf(vol, c, h).clus
  BY <1>6, <1>8 DEF ReadAs, SlotsOf
<1>10. /\ c \in Directories(vol) /\ c \in ClusterNumber
       /\ WellFormedDirectory(vol, c)
  BY <1>2, KnownSound
<1>11. EntryOf(vol, c, h).clus \in Subdirectories(vol, c)
  BY <1>2, <1>6, <1>9, <1>10, EntriesTyped DEF SlotsOf
<1>12. r.clus \in Directories(vol)
  BY <1>2, <1>9, <1>10, <1>11, TreeClosed
<1> QED
  BY <1>12 DEF Known, r

-----------------------------------------------------------------------------
(***************************************************************************)
(* The calls on the stack.  d names the directory of each; a call that     *)
(* waits for another goes on, when that one has found nothing, as if it    *)
(* had itself read all there is below the entry.                           *)
(***************************************************************************)
Returns(f, back, c, x) ==
  (Known(x) => NoneFrom(x)) => Going(f, back, c)

Calls(s, d) ==
  /\ d \in Seq(ClusterNumber) /\ Len(d) = Len(s) /\ d[1] = vol.root
  /\ \A k \in 1 .. Len(s) : FrameOf(s[k], d[k])
  /\ mode = "root" => Len(s) = 1
  /\ Roomy(vol) => \A k \in 1 .. Len(s) : Known(d[k])
  /\ \A k \in 1 .. Len(s) - 1 :
       Known(d[k]) => Returns(s[k], s[k + 1].back, d[k], d[k + 1])

Walk(s, p, d) ==
  /\ Calls(s, d)
  /\ Known(d[Len(s)]) => Going(s[Len(s)], p, d[Len(s)])

AnswerInv ==
  Sound =>
    /\ pc = "scan" => \E d : Walk(stack, pos, d)
    /\ pc = "missing" =>
         NoneIn(vol.root) /\ (mode # "root" => NoneFrom(vol.root))
    /\ pc = "found" /\ Roomy(vol) =>
         \E c : /\ Known(c) /\ FirstIn(c, found)
                /\ mode = "root" => c = vol.root

LEMMA ArgumentsStay ==
  ASSUME UNCHANGED arguments
  PROVE  /\ vol' = vol /\ target' = target /\ mode' = mode
         /\ Sound' = Sound /\ \A c : Known(c)' = Known(c)
         /\ \A c : NoneIn(c)' = NoneIn(c) /\ NoneFrom(c)' = NoneFrom(c)
         /\ \A c, home : FirstIn(c, home)' = FirstIn(c, home)
<1>1. vol' = vol /\ target' = target /\ mode' = mode
  BY DEF arguments
<1> QED
  BY <1>1 DEF Sound, Addressable, Known, NoneIn, NoneFrom, FirstIn, Asked,
              isSearch

LEMMA WalkKept ==
  ASSUME UNCHANGED arguments, NEW d, Walk(stack', pos', d)
  PROVE  Walk(stack, pos, d)'
<1>1. vol' = vol /\ target' = target /\ mode' = mode
  BY DEF arguments
<1>2. \A c : Known(c)' = Known(c) /\ NoneFrom(c)' = NoneFrom(c)
  BY ArgumentsStay
<1>3. \A c, n : AllVain(c, n)' = AllVain(c, n)
  BY <1>1, <1>2
  DEF AllVain, Vain, Asked, isSearch, Start, SlotsOf
<1>4. \A f, p, c, n : Place(f, p, c, n)' = Place(f, p, c, n)
  BY <1>1 DEF Place, AtSlot, Between, SlotsOf
<1>5. \A f, p, c : Going(f, p, c)' = Going(f, p, c)
  BY <1>1, <1>3, <1>4 DEF Going, Size
<1>6. \A f, c : FrameOf(f, c)' = FrameOf(f, c)
  BY <1>1 DEF FrameOf
<1>7. \A f, back, c, x : Returns(f, back, c, x)' = Returns(f, back, c, x)
  BY <1>2, <1>5 DEF Returns
<1>8. Calls(stack, d)'
  BY <1>1, <1>2, <1>6, <1>7 DEF Calls, Walk
<1> QED
  BY <1>2, <1>5, <1>8 DEF Walk

\* The counters of the last call move.
LEMMA TopMoves ==
  ASSUME SearchTyped, NEW d, Calls(stack, d), NEW i \in 0 .. Len(Top.list),
         NEW j \in 0 .. SlotsPerCluster,
         NEW t, t = SetTop(Counting(Top, i, j))
  PROVE  /\ t \in Seq(Frame) /\ Len(t) = Len(stack)
         /\ t[Len(stack)] = Counting(Top, i, j)
         /\ Calls(t, d)
<1> DEFINE e == Counting(Top, i, j)
           n == Len(stack)
<1>1. n \in Nat \ {0} /\ stack \in Seq(Frame) /\ stack # << >>
  BY DEF SearchTyped, TypeOK
<1>2. i \in Nat /\ e \in Frame
  BY TopTyped, CountingTyped
<1>3. /\ t \in Seq(Frame) /\ Len(t) = n /\ t[n] = e
      /\ \A k \in 1 .. n - 1 : t[k] = stack[k]
  BY <1>1, <1>2, LastReplaced DEF SetTop
<1>4. FrameOf(e, d[n]) /\ e.back = stack[n].back
  <2>1. FrameOf(Top, d[n])
    BY <1>1 DEF Calls, Top
  <2>2. e.list = Top.list /\ e.i = i /\ e.back = Top.back
    BY CountingFields
  <2> HIDE DEF e
  <2> QED
    BY <2>1, <2>2, <1>2 DEF FrameOf, Top
<1> HIDE DEF e, n
<1>5. ASSUME NEW k \in 1 .. n PROVE FrameOf(t[k], d[k])
  <2>1. CASE k = n
    BY <2>1, <1>3, <1>4
  <2>2. CASE k \in 1 .. n - 1
    BY <2>2, <1>3 DEF Calls, n
  <2> QED
    BY <2>1, <2>2, <1>1
<1>6. ASSUME NEW k \in 1 .. n - 1, Known(d[k])
      PROVE  Returns(t[k], t[k + 1].back, d[k], d[k + 1])
  <2>1. Returns(stack[k], stack[k + 1].back, d[k], d[k + 1])
    BY <1>6 DEF Calls, n
  <2>2. t[k + 1].back = stack[k + 1].back
    <3>1. CASE k + 1 = n
      BY <3>1, <1>3, <1>4
    <3>2. CASE k + 1 \in 1 .. n - 1
      BY <3>2, <1>3
    <3> QED
      BY <3>1, <3>2, <1>1
  <2> QED
    BY <2>1, <2>2, <1>3
<1>7. Calls(t, d)
  BY <1>3, <1>5, <1>6 DEF Calls, n
<1> QED
  BY <1>3, <1>7 DEF e, n

LEMMA TopWalk ==
  ASSUME SearchTyped, NEW d, Calls(stack, d), NEW i \in 0 .. Len(Top.list),
         NEW j \in 0 .. SlotsPerCluster, NEW q,
         Known(d[Len(stack)]) => Going(Counting(Top, i, j), q, d[Len(stack)])
  PROVE  Walk(SetTop(Counting(Top, i, j)), q, d)
<1>1. PICK t : t = SetTop(Counting(Top, i, j))
  OBVIOUS
<1>2. /\ Len(t) = Len(stack) /\ t[Len(stack)] = Counting(Top, i, j)
      /\ Calls(t, d)
  BY <1>1, TopMoves
<1> QED
  BY <1>1, <1>2 DEF Walk

\* What the invariant says of the last call.
LEMMA TopWalks ==
  ASSUME SearchTyped, NEW d, Walk(stack, pos, d)
  PROVE  /\ Len(stack) \in Nat \ {0} /\ Calls(stack, d)
         /\ FrameOf(Top, d[Len(stack)]) /\ Top.i \in 0 .. Len(Top.list)
         /\ Known(d[Len(stack)]) => Going(Top, pos, d[Len(stack)])
         /\ Roomy(vol) => Known(d[Len(stack)])
<1>1. Len(stack) \in Nat \ {0}
  BY TopTyped
<1>2. Calls(stack, d) /\ Len(stack) \in 1 .. Len(stack)
  BY <1>1 DEF Walk
<1>3. FrameOf(Top, d[Len(stack)]) /\ (Roomy(vol) => Known(d[Len(stack)]))
  BY <1>2 DEF Calls, Top
<1>4. Known(d[Len(stack)]) => Going(Top, pos, d[Len(stack)])
  BY DEF Walk, Top
<1> QED
  BY <1>1, <1>2, <1>3, <1>4 DEF FrameOf

LEMMA AdvanceWalk ==
  ASSUME SearchTyped, Sound, NEW d, Walk(stack, pos, d), Reading, Advance,
         File.kind \in {"null", "file"}, File.kind = "file" => PassedOver(File)
  PROVE  Walk(stack', pos', d)
<1> DEFINE c == d[Len(stack)]
<1>1. /\ Calls(stack, d) /\ FrameOf(Top, c) /\ Top.i \in 0 .. Len(Top.list)
      /\ Known(c) => Going(Top, pos, c)
  BY TopWalks
<1>2. Top.j < SlotsPerCluster /\ pos \in 0 .. LastSlot
  BY DEF Reading
<1>3. Top.j + 1 \in 0 .. SlotsPerCluster
  BY <1>2, TopTyped
<1> HIDE DEF c
<1>4. Known(c) => Going(Counting(Top, Top.i, Top.j + 1), File.next, c)
  BY <1>1, <1>2, GoingOn DEF File
<1>5. Walk(SetTop(Counting(Top, Top.i, Top.j + 1)), File.next, d)
  BY <1>1, <1>3, <1>4, TopWalk DEF c
<1> QED
  BY <1>5 DEF Advance

LEMMA NextClusterWalk ==
  ASSUME SearchTyped, Sound, NEW d, Walk(stack, pos, d), NextCluster
  PROVE  Walk(stack', pos', d)
<1> DEFINE c == d[Len(stack)]
<1>1. /\ Calls(stack, d) /\ FrameOf(Top, c) /\ Top.i \in 0 .. Len(Top.list)
      /\ Known(c) => Going(Top, pos, c)
  BY TopWalks
<1>2. Top.j = SlotsPerCluster /\ Top.i < Len(Top.list)
  BY DEF NextCluster, BetweenClusters
<1>3. Top.i + 1 \in 0 .. Len(Top.list) /\ 0 \in 0 .. SlotsPerCluster
  BY <1>2, TopTyped
<1> HIDE DEF c
<1>4. Known(c) => Going(Counting(Top, Top.i + 1, 0),
                        seekToCluster(Top.list[Top.i + 1]), c)
  BY <1>1, <1>2, GoingToNext
<1>5. Walk(SetTop(Counting(Top, Top.i + 1, 0)),
           seekToCluster(Top.list[Top.i + 1]), d)
  BY <1>1, <1>3, <1>4, TopWalk DEF c
<1> QED
  BY <1>5 DEF NextCluster

LEMMA EndClusterWalk ==
  ASSUME SearchTyped, Sound, NEW d, Walk(stack, pos, d), EndCluster
  PROVE  Walk(stack', pos', d)
<1> DEFINE c == d[Len(stack)]
<1>1. /\ Calls(stack, d) /\ FrameOf(Top, c) /\ Top.i \in 0 .. Len(Top.list)
      /\ Known(c) => Going(Top, pos, c)
  BY TopWalks
<1>2. /\ Top.j < SlotsPerCluster /\ pos \in 0 .. LastSlot
      /\ getFAT32File(vol, pos).kind = "last"
  BY DEF EndCluster, Reading, File
<1>3. ClusterDone \in 0 .. SlotsPerCluster
  BY DEF ClusterDone
<1> HIDE DEF c
<1>4. Known(c) => Going(Counting(Top, Top.i, ClusterDone), pos, c)
  BY <1>1, <1>2, GoingToEnd
<1>5. Walk(SetTop(Counting(Top, Top.i, ClusterDone)), pos, d)
  BY <1>1, <1>3, <1>4, TopWalk DEF c
<1> QED
  BY <1>5 DEF EndCluster

\* A new call has looked at nothing yet.
LEMMA NewCallGoes ==
  ASSUME SearchTyped, DirectoriesSound(vol), NEW c \in ClusterNumber,
         NEW back \in Nat, NEW p
  PROVE  /\ FrameOf(Call(c, back), c) /\ Call(c, back).back = back
         /\ Known(c) => Going(Call(c, back), p, c)
<1> DEFINE g == Call(c, back)
<1>1. vol \in Volume
  BY DEF SearchTyped, TypeOK
<1>2. vol.chain[c] \in Seq(ClusterNumber) /\ g \in Frame
  BY <1>1, CallTyped DEF Volume
<1>3. /\ g.list = vol.chain[c] /\ g.i = 0 /\ g.j = SlotsPerCluster
      /\ g.back = back
  BY DEF Call, getClusterList, ClusterDone
<1> HIDE DEF g
<1>4. FrameOf(g, c)
  BY <1>2, <1>3 DEF FrameOf
<1>5. ASSUME Known(c) PROVE Going(g, p, c)
  <2>1. 0 \in 0 .. Size(c)
    BY <1>5, KnownSound
  <2>2. Place(g, p, c, 0)
    BY <1>3 DEF Place
  <2>3. AllVain(c, 0)
    <3> SUFFICES ASSUME NEW h \in Homes(SlotsOf(c)), Start(c, h) <= 0
                 PROVE  FALSE
      BY DEF AllVain
    <3>1. Start(c, h) \in 1 .. h /\ Start(c, h) \in Nat
      BY <1>5, HomeSlots
    <3> QED
      BY <3>1
  <2> QED
    BY <2>1, <2>2, <2>3 DEF Going
<1> QED
  BY <1>3, <1>4, <1>5 DEF g

\* The calling frame is left as it goes on should the call find nothing.
LEMMA DescendWalk ==
  ASSUME SearchTyped, Sound, NEW d, Walk(stack, pos, d), Descend
  PROVE  \E x : Walk(stack', pos', x)
<1> DEFINE n == Len(stack)
           e == Counting(Top, Top.i, Top.j + 1)
           t == SetTop(e)
           g == Call(File.clus, File.next)
           x == File.clus
<1>1. /\ n \in Nat \ {0} /\ Calls(stack, d) /\ FrameOf(Top, d[n])
      /\ Top.i \in 0 .. Len(Top.list)
      /\ Known(d[n]) => Going(Top, pos, d[n])
      /\ Roomy(vol) => Known(d[n])
  BY TopWalks
<1>2. /\ Top.j < SlotsPerCluster /\ pos \in 0 .. LastSlot
      /\ File.kind = "file" /\ GoesDown(File) /\ IsSubdirectory(File)
      /\ mode # "root"
  BY DEF Descend, Reading, GoesDown
<1>3. Top.j + 1 \in 0 .. SlotsPerCluster
  BY <1>2, TopTyped
<1>4. vol \in Volume /\ DirectoriesSound(vol)
  BY DEF SearchTyped, TypeOK, Sound
<1>5. File.next \in Nat /\ x \in ClusterNumber
  BY <1>2, <1>4, EntryTyped DEF File
<1>6. t \in Seq(Frame) /\ Len(t) = n /\ t[n] = e /\ Calls(t, d)
  <2>1. PICK u : u = SetTop(Counting(Top, Top.i, Top.j + 1))
    OBVIOUS
  <2>2. /\ u \in Seq(Frame) /\ Len(u) = Len(stack) /\ Calls(u, d)
        /\ u[Len(stack)] = Counting(Top, Top.i, Top.j + 1)
    BY <1>1, <1>3, <2>1, TopMoves
  <2> QED
    BY <2>1, <2>2
<1>7. FrameOf(g, x) /\ g.back = File.next /\ (Known(x) => Going(g, File.next, x))
  BY <1>4, <1>5, NewCallGoes
<1>8. stack' = Append(t, g) /\ pos' = File.next
  BY DEF Descend
<1>9. Roomy(vol) => Known(x)
  BY <1>1, <1>2, ReadsSubdirectory DEF File
<1>10. ASSUME Known(d[n]) PROVE Returns(e, File.next, d[n], x)
  <2> SUFFICES ASSUME Known(x) => NoneFrom(x) PROVE Going(e, File.next, d[n])
    BY DEF Returns
  <2>1. PassedOver(File)
    BY <1>2 DEF PassedOver
  <2> QED
    BY <1>1, <1>2, <1>10, <2>1, GoingOn DEF File
<1> HIDE DEF n, e, t, g, x
<1>11. PICK b : b = Append(d, x)
  OBVIOUS
<1>12. d \in Seq(ClusterNumber) /\ Len(d) = n /\ d[1] = vol.root
  BY <1>1 DEF Calls, n
<1>13. /\ b \in Seq(ClusterNumber) /\ Len(b) = n + 1 /\ b[n + 1] = x
       /\ \A k \in 1 .. n : b[k] = d[k]
  BY <1>1, <1>5, <1>11, <1>12
<1>14. PICK s : s = stack'
  OBVIOUS
<1>15. /\ Len(s) = n + 1 /\ s[n + 1] = g
       /\ \A k \in 1 .. n : s[k] = t[k]
  BY <1>1, <1>6, <1>8, <1>14
<1>16. ASSUME NEW k \in 1 .. n + 1
       PROVE  FrameOf(s[k], b[k]) /\ (Roomy(vol) => Known(b[k]))
  <2>1. CASE k = n + 1
    BY <2>1, <1>7, <1>9, <1>13, <1>15
  <2>2. CASE k \in 1 .. n
    <3>1. FrameOf(t[k], d[k]) /\ (Roomy(vol) => Known(d[k]))
      BY <2>2, <1>6 DEF Calls
    <3> QED
      BY <2>2, <3>1, <1>13, <1>15
  <2> QED
    BY <2>1, <2>2, <1>1
<1>17. ASSUME NEW k \in 1 .. n, Known(b[k])
       PROVE  Returns(s[k], s[k + 1].back, b[k], b[k + 1])
  <2>1. CASE k = n
    BY <2>1, <1>1, <1>6, <1>7, <1>10, <1>13, <1>15, <1>17
  <2>2. CASE k \in 1 .. n - 1
    <3>1. k \in 1 .. n /\ k + 1 \in 1 .. n
      BY <2>2, <1>1
    <3>2. Returns(t[k], t[k + 1].back, d[k], d[k + 1])
      BY <2>2, <3>1, <1>6, <1>13, <1>17 DEF Calls
    <3> QED
      BY <3>1, <3>2, <1>13, <1>15
  <2> QED
    BY <2>1, <2>2, <1>1
<1>18. Calls(s, b)
  <2>1. b[1] = vol.root
    BY <1>1, <1>12, <1>13
  <2>2. Len(s) - 1 = n
    BY <1>1, <1>15
  <2> QED
    BY <2>1, <2>2, <1>2, <1>13, <1>15, <1>16, <1>17 DEF Calls
<1>19. Walk(s, pos', b)
  BY <1>7, <1>8, <1>13, <1>15, <1>18 DEF Walk
<1> QED
  BY <1>14, <1>19

\* The call found nothing below the entry, so its caller goes on.
LEMMA LeaveDirectoryWalk ==
  ASSUME SearchTyped, Sound, NEW d, Walk(stack, pos, d), LeaveDirectory
  PROVE  \E x : Walk(stack', pos', x)
<1>1. PICK m \in Nat : Len(stack) = m + 1 /\ m = Len(stack) - 1 /\ m >= 1
  BY TopTyped DEF LeaveDirectory
<1> DEFINE c == d[m + 1]
<1>2. /\ Calls(stack, d) /\ FrameOf(Top, c) /\ (Known(c) => Going(Top, pos, c))
  BY <1>1, TopWalks
<1>3. /\ Top.j = SlotsPerCluster /\ Top.i = Len(Top.list)
      /\ pos' = stack[m + 1].back /\ stack' = SubSeq(stack, 1, m)
  BY <1>1 DEF LeaveDirectory, BetweenClusters, PositionRestored, Top
<1>4. mode # "root"
  BY <1>1, <1>2 DEF Calls
<1> HIDE DEF c
<1>5. Known(c) => NoneFrom(c)
  BY <1>2, <1>3, <1>4, GoneThrough
<1>6. PICK s : s = stack'
  OBVIOUS
<1>7. Len(s) = m /\ \A k \in 1 .. m : s[k] = stack[k]
  <2>1. stack \in Seq(Frame) /\ Len(stack) > 1
    BY <1>1 DEF SearchTyped, TypeOK
  <2>2. LET t == SubSeq(stack, 1, Len(stack) - 1) IN
        Len(t) = Len(stack) - 1 /\ \A k \in 1 .. Len(stack) - 1 : t[k] = stack[k]
    BY <2>1, AllButLast
  <2> QED
    BY <2>2, <1>1, <1>3, <1>6
<1>8. d \in Seq(ClusterNumber) /\ Len(d) = m + 1 /\ d[1] = vol.root
  BY <1>1, <1>2 DEF Calls
<1>9. PICK b : b = [k \in 1 .. m |-> d[k]]
  OBVIOUS
<1>10. /\ b \in Seq(ClusterNumber) /\ Len(b) = m
       /\ \A k \in 1 .. m : b[k] = d[k]
  BY <1>8, <1>9
<1>11. ASSUME NEW k \in 1 .. m
       PROVE  /\ FrameOf(s[k], b[k]) /\ (Roomy(vol) => Known(b[k]))
              /\ Known(b[k]) => Returns(s[k], stack[k + 1].back, b[k], d[k + 1])
  <2>1. k \in 1 .. Len(stack) /\ k \in 1 .. Len(stack) - 1
    BY <1>1
  <2>2. /\ FrameOf(stack[k], d[k]) /\ (Roomy(vol) => Known(d[k]))
        /\ Known(d[k]) => Returns(stack[k], stack[k + 1].back, d[k], d[k + 1])
    BY <2>1, <1>2 DEF Calls
  <2> QED
    BY <2>2, <1>7, <1>10
<1>12. ASSUME NEW k \in 1 .. m - 1, Known(b[k])
       PROVE  Returns(s[k], s[k + 1].back, b[k], b[k + 1])
  <2>1. k \in 1 .. m /\ k + 1 \in 1 .. m
    OBVIOUS
  <2> QED
    BY <2>1, <1>7, <1>10, <1>11, <1>12
<1>13. Calls(s, b)
  <2>1. b[1] = vol.root
    BY <1>1, <1>8, <1>10
  <2> QED
    BY <2>1, <1>4, <1>7, <1>10, <1>11, <1>12 DEF Calls
<1>14. Known(b[m]) => Going(s[m], pos', b[m])
  <2>1. m \in 1 .. m
    BY <1>1
  <2>2. Known(b[m]) => Returns(s[m], pos', b[m], c)
    BY <2>1, <1>3, <1>11 DEF c
  <2> QED
    BY <2>2, <1>5 DEF Returns
<1>15. Walk(s, pos', b)
  BY <1>7, <1>13, <1>14 DEF Walk
<1> QED
  BY <1>6, <1>15

LEMMA InitAnswers ==
  ASSUME Init
  PROVE  AnswerInv
<1> SUFFICES ASSUME Sound PROVE \E d : Walk(stack, pos, d)
  BY DEF AnswerInv, Init
<1>1. SearchTyped /\ DirectoriesSound(vol)
  BY InitTyped DEF Sound
<1>2. vol.root \in ClusterNumber
  BY <1>1 DEF SearchTyped, TypeOK, Volume
<1> DEFINE g == Call(vol.root, 0)
<1>3. FrameOf(g, vol.root) /\ (Known(vol.root) => Going(g, pos, vol.root))
  BY <1>1, <1>2, NewCallGoes
<1>4. Known(vol.root)
  BY <1>2, FromTyped DEF Known, Directories
<1>5. stack = <<g>>
  BY DEF Init
<1> HIDE DEF g
<1>6. Len(stack) = 1 /\ stack[1] = g
  BY <1>5
<1>7. PICK d : d = <<vol.root>>
  OBVIOUS
<1>8. d \in Seq(ClusterNumber) /\ Len(d) = 1 /\ d[1] = vol.root
  BY <1>2, <1>7
<1>9. Calls(stack, d)
  BY <1>3, <1>4, <1>6, <1>8 DEF Calls
<1> QED
  BY <1>3, <1>6, <1>8, <1>9 DEF Walk

LEMMA NextAnswers ==
  ASSUME SearchTyped, AnswerInv, [Next]_vars
  PROVE  AnswerInv'
<1>1. UNCHANGED arguments
  BY DEF Next, vars, arguments, NextCluster, LeaveDirectory, ReportMissing,
         SkipEntry, EndCluster, Descend, PassOver, Match, Stray, Advance
<1>2. /\ vol' = vol /\ mode' = mode /\ Sound' = Sound
      /\ \A c : Known(c)' = Known(c)
      /\ \A c : NoneIn(c)' = NoneIn(c) /\ NoneFrom(c)' = NoneFrom(c)
      /\ \A c, home : FirstIn(c, home)' = FirstIn(c, home)
  BY <1>1, ArgumentsStay
<1> SUFFICES ASSUME Sound PROVE AnswerInv'
  BY <1>2 DEF AnswerInv
<1>3. ASSUME NEW d, Walk(stack', pos', d), pc' = "scan"
      PROVE  AnswerInv'
  BY <1>1, <1>3, WalkKept DEF AnswerInv
<1>4. CASE UNCHANGED vars
  <2>1. stack' = stack /\ pos' = pos /\ pc' = pc /\ found' = found
    BY <1>4 DEF vars
  <2>2. CASE pc = "scan"
    BY <1>3, <2>1, <2>2 DEF AnswerInv
  <2>3. CASE pc # "scan"
    BY <1>2, <2>1, <2>3 DEF AnswerInv
  <2> QED
    BY <2>2, <2>3
<1>5. CASE Next
  <2>1. pc = "scan"
    BY <1>5
    DEF Next, NextCluster, LeaveDirectory, ReportMissing, SkipEntry,
        EndCluster, Descend, PassOver, Match, Stray, BetweenClusters, Reading
  <2>2. PICK d : Walk(stack, pos, d)
    BY <2>1 DEF AnswerInv
  <2>3. CASE NextCluster
    BY <1>3, <2>1, <2>2, <2>3, NextClusterWalk DEF NextCluster
  <2>4. CASE LeaveDirectory
    <3>1. PICK x : Walk(stack', pos', x)
      BY <2>2, <2>4, LeaveDirectoryWalk
    <3> QED
      BY <1>3, <2>1, <2>4, <3>1 DEF LeaveDirectory
  <2>5. CASE ReportMissing
    <3>1. /\ pc' = "missing" /\ Len(stack) = 1 /\ Top.j = SlotsPerCluster
          /\ Top.i = Len(Top.list)
      BY <2>5 DEF ReportMissing, BetweenClusters
    <3>2. d[1] = vol.root
      BY <2>2 DEF Walk, Calls
    <3>3. Known(vol.root)
      <4>1. vol.root \in ClusterNumber
        BY DEF SearchTyped, TypeOK, Volume
      <4> QED
        BY <4>1, FromTyped DEF Known, Directories
    <3>4. FrameOf(Top, vol.root) /\ Going(Top, pos, vol.root)
      BY <2>2, <3>1, <3>2, <3>3, TopWalks
    <3>5. NoneIn(vol.root) /\ (mode # "root" => NoneFrom(vol.root))
      BY <3>1, <3>3, <3>4, GoneThrough
    <3> QED
      BY <1>2, <3>1, <3>5 DEF AnswerInv
  <2>6. CASE SkipEntry
    <3>1. Walk(stack', pos', d)
      BY <2>2, <2>6, AdvanceWalk DEF SkipEntry
    <3> QED
      BY <1>3, <2>1, <2>6, <3>1 DEF SkipEntry, Advance
  <2>7. CASE EndCluster
    BY <1>3, <2>1, <2>2, <2>7, EndClusterWalk DEF EndCluster
  <2>8. CASE Descend
    <3>1. PICK x : Walk(stack', pos', x)
      BY <2>2, <2>8, DescendWalk
    <3> QED
      BY <1>3, <2>1, <2>8, <3>1 DEF Descend
  <2>9. CASE PassOver
    <3>1. PassedOver(File)
      BY <2>9 DEF PassOver, PassedOver
    <3>2. Walk(stack', pos', d)
      BY <2>2, <2>9, <3>1, AdvanceWalk DEF PassOver
    <3> QED
      BY <1>3, <2>1, <2>9, <3>2 DEF PassOver, Advance
  <2>10. CASE Match
    <3>1. pc' = "found" /\ found' = File.home
      BY <2>10 DEF Match
    <3> SUFFICES ASSUME Roomy(vol)
                 PROVE  \E c : /\ Known(c) /\ FirstIn(c, File.home)
                               /\ mode = "root" => c = vol.root
      BY <1>2, <3>1 DEF AnswerInv
    <3> DEFINE c == d[Len(stack)]
    <3>2. /\ FrameOf(Top, c) /\ Known(c) /\ Going(Top, pos, c)
      BY <2>2, TopWalks
    <3>3. mode = "root" => c = vol.root
      BY <2>2 DEF Walk, Calls
    <3> HIDE DEF c
    <3>4. FirstIn(c, File.home)
      BY <2>10, <3>2, MatchIsFirst DEF Match, Reading, File
    <3> QED
      BY <3>2, <3>3, <3>4
  <2>11. CASE Stray
    BY <2>11 DEF Stray, AnswerInv
  <2> QED
    BY <1>5, <2>3, <2>4, <2>5, <2>6, <2>7, <2>8, <2>9, <2>10, <2>11 DEF Next
<1> QED
  BY <1>4, <1>5

\* The invariant of both answers.
LEMMA AnswersHold == Spec => [](SearchTyped /\ AnswerInv)
<1>1. Init => SearchTyped /\ AnswerInv
  BY InitTyped, InitAnswers
<1>2. SearchTyped /\ AnswerInv /\ [Next]_vars => (SearchTyped /\ AnswerInv)'
  BY NextTyped, NextAnswers
<1> QED
  BY <1>1, <1>2, PTL DEF Spec

\* On every volume below 4 GiB whose directories are what a driver writes, a
\* search that reports no file has missed none: it has read every entry of the
\* root directory, or of the whole tree, also where the loop's count of one
\* slot for each entry makes it read on behind its cluster.
THEOREM SearchMissesNothing ==
  Spec => [](Addressable /\ DirectoriesSound(vol) => NothingMissed)
<1>1. SearchTyped /\ AnswerInv
        => (Addressable /\ DirectoriesSound(vol) => NothingMissed)
  <2> SUFFICES ASSUME SearchTyped, AnswerInv, Addressable,
                      DirectoriesSound(vol), pc = "missing", Unsplit(vol),
                      NEW e \in Candidates
               PROVE  e.cut
    BY DEF NothingMissed
  <2>1. NoneIn(vol.root) /\ (mode # "root" => NoneFrom(vol.root))
    BY DEF AnswerInv, Sound
  <2>2. /\ e \in Files(vol, Wanted) /\ e.name = target
        /\ isSearch => "hidden" \notin e.attrs
    BY DEF Candidates
  <2>3. PICK c \in Wanted : e \in Entries(vol, c) /\ "subdirectory" \notin e.attrs
                            /\ "label" \notin e.attrs
    BY <2>2 DEF Files
  <2>4. NoneIn(c)
    BY <2>1, <2>3 DEF Wanted, NoneFrom, Directories
  <2> QED
    BY <2>2, <2>3, <2>4 DEF NoneIn, Asked
<1> QED
  BY <1>1, AnswersHold, PTL

\* On every such volume whose long names leave room in their clusters, a file
\* that is found is the first that one of the directories searched lists under
\* the name and may show: no label, no directory, nothing of another
\* directory, and none that an earlier entry of that directory comes before.
THEOREM SearchFindsFirst ==
  Spec => [](Addressable /\ DirectoriesSound(vol) => FoundIsFirst)
<1>1. SearchTyped /\ AnswerInv
        => (Addressable /\ DirectoriesSound(vol) => FoundIsFirst)
  <2> SUFFICES ASSUME SearchTyped, AnswerInv, Addressable,
                      DirectoriesSound(vol), Roomy(vol), pc = "found"
               PROVE  \E c \in Wanted : \E e \in Candidates \cap Entries(vol, c) :
                        /\ e.home = found
                        /\ \A f \in Candidates \cap Entries(vol, c) :
                             ~f.cut => e.order <= f.order
    BY DEF FoundIsFirst
  <2>1. Sound
    BY RoomyUnsplit DEF Sound
  <2>2. PICK c : /\ Known(c) /\ FirstIn(c, found)
                 /\ mode = "root" => c = vol.root
    BY <2>1 DEF AnswerInv
  <2>3. c \in Wanted
    BY <2>2 DEF Wanted, Known
  <2>4. \A e \in Entries(vol, c) : e \in Candidates => Asked(e)
    <3>1. ASSUME NEW e \in Candidates PROVE Asked(e)
      BY DEF Candidates, Files, Asked
    <3> QED
      BY <3>1
  <2>5. \A e \in Entries(vol, c) : Asked(e) => e \in Candidates
    <3>1. ASSUME NEW e \in Entries(vol, c), Asked(e) PROVE e \in Candidates
      BY <2>3, <3>1 DEF Candidates, Files, Asked
    <3> QED
      BY <3>1
  <2>6. PICK e \in Entries(vol, c) :
          /\ Asked(e) /\ e.home = found
          /\ \A f \in Entries(vol, c) : Asked(f) /\ ~f.cut => e.order <= f.order
    BY <2>2 DEF FirstIn
  <2> QED
    BY <2>3, <2>4, <2>5, <2>6
<1> QED
  BY <1>1, AnswersHold, PTL
=============================================================================

-------------------------- MODULE Ext4SearchProofs --------------------------
(***************************************************************************)
(* What the searches of fs_utils/ext4.c keep to on any volume, and what    *)
(* they answer on every volume that a driver can have written: the first   *)
(* file of the listing.  The invariant for that names the directory of     *)
(* each call on the stack, and says of each call that all it has read has  *)
(* been looked at in vain, down to the deepest subdirectory.               *)
(***************************************************************************)
EXTENDS Ext4Search, SequenceTheorems, WellFoundedInduction, TLAPS

\* A block has been begun by every call that is within one.
BlockBegun(f) == f.at < BlockSize => f.i > 0

SearchTyped ==
  /\ TypeOK
  /\ Len(stack) > 0
  /\ \A k \in 1 .. Len(stack) : BlockBegun(stack[k])

(***************************************************************************)
(* Where inodes are.                                                       *)
(***************************************************************************)
LEMMA QuotientBelow ==
  ASSUME NEW a \in Int, NEW b \in Int, NEW k \in Int, 0 <= a, b > 0, a < k * b
  PROVE  a \div b < k
  BY Z3

LEMMA ModBelow ==
  ASSUME NEW a \in Int, NEW b \in Int, 0 <= a, b > 0
  PROVE  a % b \in Int /\ 0 <= a % b /\ a % b <= a
  BY Z3

LEMMA SmallMod ==
  ASSUME NEW a \in Int, NEW b \in Int, 0 <= a, a < b
  PROVE  a % b = a
  BY Z3

LEMMA InodeParts ==
  ASSUME NEW n \in InodeNumber
  PROVE  /\ GroupOf(n) \in Group /\ CastGroup(n) \in Group
         /\ IndexOf(n) \in Index
         /\ GroupOf(n) < GroupMod => CastGroup(n) = GroupOf(n)
<1>1. /\ n \in Int /\ 1 <= n /\ n <= Groups * InodesPerGroup
      /\ InodesPerGroup \in Int /\ InodesPerGroup > 0
      /\ Groups \in Int /\ Groups > 0
      /\ GroupMod \in Int /\ GroupMod > 0
  <2>1. Groups * InodesPerGroup \in Int
    BY GroupsAssumption, Z3
  <2> QED
    BY <2>1, GroupsAssumption DEF InodeNumber
<1>2. n - 1 \in Int /\ 0 <= n - 1 /\ n - 1 < Groups * InodesPerGroup
  BY <1>1, Z3
<1>3. /\ GroupOf(n) \in Int /\ GroupOf(n) >= 0
      /\ IndexOf(n) \in Int /\ 0 <= IndexOf(n) /\ IndexOf(n) < InodesPerGroup
  BY <1>1, <1>2, Z3 DEF GroupOf, IndexOf
<1>4. GroupOf(n) < Groups
  BY <1>1, <1>2, QuotientBelow DEF GroupOf
<1>5. CastGroup(n) \in Int /\ 0 <= CastGroup(n) /\ CastGroup(n) <= GroupOf(n)
  BY <1>1, <1>3, ModBelow DEF CastGroup
<1>6. GroupOf(n) < GroupMod => CastGroup(n) = GroupOf(n)
  BY <1>1, <1>3, SmallMod DEF CastGroup
<1> QED
  BY <1>1, <1>3, <1>4, <1>5, <1>6 DEF Group, Index

LEMMA VolumeTyped ==
  ASSUME NEW v \in Volume
  PROVE  /\ \A g \in Group, i \in Index : v.table[g][i] \in Seq(Block)
         /\ \A b \in Block, o \in Offset : v.block[b][o] \in DirectoryEntry
BY DEF Volume

(***************************************************************************)
(* Types.                                                                  *)
(***************************************************************************)
LEMMA CallTyped ==
  ASSUME vol \in Volumes, NEW n \in InodeNumber
  PROVE  /\ Call(n) \in Frame /\ Call(n).i = 0 /\ Call(n).at = BlockSize
         /\ Call(n).blocks = getInodeInfo(n) /\ BlockBegun(Call(n))
<1>1. getInodeInfo(n) \in Seq(Block)
  BY InodeParts, VolumeTyped, VolumesAssumption DEF getInodeInfo
<1> QED
  BY <1>1, BlockSizeAssumption DEF Call, Frame, BlockBegun

LEMMA TopTyped ==
  ASSUME SearchTyped
  PROVE  /\ stack \in Seq(Frame) /\ Len(stack) \in Nat \ {0}
         /\ stack[Len(stack)] = Top /\ Top \in Frame
         /\ Top.blocks \in Seq(Block) /\ Top.i \in Nat /\ Top.at \in Nat
         /\ Top.i <= Len(Top.blocks) /\ BlockBegun(Top)
         /\ vol \in Volumes /\ vol \in Volume
<1>1. stack \in Seq(Frame) /\ vol \in Volumes /\ vol \in Volume
  BY VolumesAssumption DEF SearchTyped, TypeOK
<1>2. Len(stack) \in Nat \ {0} /\ stack[Len(stack)] = Top /\ Top \in Frame
  BY <1>1 DEF SearchTyped, Top
<1>3. Top.i <= Len(Top.blocks) /\ BlockBegun(Top)
  BY <1>2 DEF SearchTyped, TypeOK
<1> QED
  BY <1>1, <1>2, <1>3 DEF Frame

\* What is read is an entry of the block last begun.
LEMMA EntryTyped ==
  ASSUME SearchTyped, Reading
  PROVE  /\ Top.i \in 1 .. Len(Top.blocks) /\ Top.blocks[Top.i] \in Block
         /\ Top.at \in Offset /\ Entry \in DirectoryEntry
         /\ Entry.length \in Nat
         /\ Entry.inode # Erased => Entry.inode \in InodeNumber
<1>1. Top.i \in 1 .. Len(Top.blocks) /\ Top.at \in Offset
  BY TopTyped, BlockSizeAssumption DEF Reading, BlockBegun, Offset
<1>2. Top.blocks[Top.i] \in Block
  BY <1>1, TopTyped
<1>3. Entry \in DirectoryEntry
  BY <1>1, <1>2, TopTyped, VolumeTyped DEF Entry
<1> QED
  BY <1>1, <1>2, <1>3 DEF DirectoryEntry

LEMMA SetTopIs ==
  ASSUME SearchTyped, NEW i \in Nat, NEW at \in Nat
  PROVE  LET f == [blocks |-> Top.blocks, i |-> i, at |-> at] IN
         /\ f \in Frame
         /\ SetTop(i, at) \in Seq(Frame) /\ Len(SetTop(i, at)) = Len(stack)
         /\ SetTop(i, at)[Len(stack)] = f
         /\ \A k \in 1 .. Len(stack) - 1 : SetTop(i, at)[k] = stack[k]
<1>1. [blocks |-> Top.blocks, i |-> i, at |-> at] \in Frame
  BY TopTyped DEF Frame
<1>2. Len(stack) \in 1 .. Len(stack) /\ stack \in Seq(Frame)
  BY TopTyped
<1> QED
  BY <1>1, <1>2, ExceptSeq DEF SetTop

\* A stack of frames that are in order is one of the type.
FramesTyped(s) ==
  /\ s \in Seq(Frame) /\ Len(s) > 0
  /\ \A k \in 1 .. Len(s) : s[k].i <= Len(s[k].blocks) /\ BlockBegun(s[k])

LEMMA SetTopTyped ==
  ASSUME SearchTyped, NEW i \in 0 .. Len(Top.blocks), NEW at \in Nat,
         at < BlockSize => i > 0
  PROVE  FramesTyped(SetTop(i, at))
<1>1. i \in Nat /\ Len(stack) \in Nat \ {0}
  BY TopTyped
<1> DEFINE f == [blocks |-> Top.blocks, i |-> i, at |-> at]
<1>2. /\ SetTop(i, at) \in Seq(Frame) /\ Len(SetTop(i, at)) = Len(stack)
      /\ SetTop(i, at)[Len(stack)] = f
      /\ \A k \in 1 .. Len(stack) - 1 : SetTop(i, at)[k] = stack[k]
  BY <1>1, SetTopIs
<1>3. f.i <= Len(f.blocks) /\ BlockBegun(f)
  BY TopTyped DEF BlockBegun
<1>4. \A k \in 1 .. Len(stack) - 1 :
        stack[k].i <= Len(stack[k].blocks) /\ BlockBegun(stack[k])
  BY DEF SearchTyped, TypeOK
<1>5. \A k \in 1 .. Len(stack) : k = Len(stack) \/ k \in 1 .. Len(stack) - 1
  BY <1>1
<1> QED
  BY <1>1, <1>2, <1>3, <1>4, <1>5 DEF FramesTyped

LEMMA InitTyped == Init => SearchTyped
<1> SUFFICES ASSUME Init PROVE SearchTyped
  OBVIOUS
<1>1. vol \in Volumes /\ stack = <<Call(Root)>> /\ Root \in InodeNumber
  BY RootAssumption DEF Init
<1>2. PICK f \in Frame : /\ f = Call(Root) /\ f.i = 0 /\ BlockBegun(f)
                         /\ f.blocks \in Seq(Block)
  BY <1>1, CallTyped DEF Frame
<1>3. stack \in Seq(Frame) /\ Len(stack) = 1 /\ stack[1] = f
  BY <1>1, <1>2
<1>4. Len(f.blocks) \in Nat
  BY <1>2
<1> QED
  BY <1>1, <1>2, <1>3, <1>4 DEF Init, SearchTyped, TypeOK

LEMMA NextTyped == SearchTyped /\ [Next]_vars => SearchTyped'
<1> SUFFICES ASSUME SearchTyped, [Next]_vars PROVE SearchTyped'
  OBVIOUS
<1>t. TypeOK /\ Top.i \in Nat /\ Top.at \in Nat /\ Len(Top.blocks) \in Nat
      /\ Top.i \in 0 .. Len(Top.blocks) /\ BlockSize \in Nat
      /\ Len(stack) \in Nat \ {0} /\ stack \in Seq(Frame)
  BY TopTyped, BlockSizeAssumption DEF SearchTyped
<1>s. ASSUME FramesTyped(stack'), UNCHANGED <<arguments, pc, found>>
      PROVE  SearchTyped'
  BY <1>s, <1>t DEF FramesTyped, SearchTyped, TypeOK, arguments
<1>1. CASE ReadNextBlock
  <2>1. /\ stack' = SetTop(Top.i + 1, 0) /\ UNCHANGED <<arguments, pc, found>>
        /\ Top.i < Len(Top.blocks)
    BY <1>1 DEF ReadNextBlock, BlockLeft
  <2>2. FramesTyped(SetTop(Top.i + 1, 0))
    BY <1>t, <2>1, SetTopTyped
  <2> QED
    BY <1>s, <2>1, <2>2
<1>2. CASE LeaveDirectory
  <2>1. /\ stack' = SubSeq(stack, 1, Len(stack) - 1) /\ Len(stack) > 1
        /\ UNCHANGED <<arguments, pc, found>>
    BY <1>2 DEF LeaveDirectory
  <2>2. /\ stack' \in Seq(Frame) /\ Len(stack') = Len(stack) - 1
        /\ \A k \in 1 .. Len(stack') : stack'[k] = stack[k]
    BY <1>t, <2>1
  <2>3. FramesTyped(stack')
    BY <1>t, <2>1, <2>2 DEF FramesTyped, SearchTyped, TypeOK
  <2> QED
    BY <1>s, <2>1, <2>3
<1>3. CASE ReportMissing
  BY <1>3, <1>t DEF ReportMissing, SearchTyped, TypeOK, arguments
<1>4. CASE EndBlock
  <2>1. /\ stack' = SetTop(Top.i, BlockSize)
        /\ UNCHANGED <<arguments, pc, found>>
    BY <1>4 DEF EndBlock
  <2>2. FramesTyped(SetTop(Top.i, BlockSize))
    BY <1>t, SetTopTyped
  <2> QED
    BY <1>s, <2>1, <2>2
<1>5. CASE Match
  <2>1. Entry.inode \in InodeNumber
    BY <1>5, EntryTyped DEF Match, EntryUsed
  <2> QED
    BY <1>5, <1>t, <2>1 DEF Match, SearchTyped, TypeOK, arguments
<1>6. CASE PassOver
  <2>1. /\ stack' = SetTop(Top.i, Top.at + Entry.length)
        /\ UNCHANGED <<arguments, pc, found>>
        /\ Top.i > 0 /\ Entry.length \in Nat
    BY <1>6, EntryTyped DEF PassOver, EntryUsed
  <2>2. FramesTyped(SetTop(Top.i, Top.at + Entry.length))
    BY <1>t, <2>1, SetTopTyped
  <2> QED
    BY <1>s, <2>1, <2>2
<1>7. CASE Descend
  <2> DEFINE s == SetTop(Top.i, Top.at + Entry.length)
  <2>1. /\ stack' = Append(s, Call(Entry.inode))
        /\ UNCHANGED <<arguments, pc, found>>
        /\ Top.i > 0 /\ Entry.length \in Nat /\ Entry.inode \in InodeNumber
    BY <1>7, EntryTyped DEF Descend, EntryUsed
  <2>2. FramesTyped(s)
    BY <1>t, <2>1, SetTopTyped
  <2>3. PICK f \in Frame : /\ f = Call(Entry.inode) /\ f.i = 0 /\ BlockBegun(f)
                           /\ f.blocks \in Seq(Block)
    BY <2>1, TopTyped, CallTyped DEF Frame
  <2> HIDE DEF s
  <2>4. /\ stack' \in Seq(Frame) /\ Len(stack') = Len(s) + 1
        /\ stack'[Len(s) + 1] = f
        /\ \A k \in 1 .. Len(s) : stack'[k] = s[k]
        /\ Len(s) \in Nat
    BY <2>1, <2>2, <2>3 DEF FramesTyped
  <2>5. \A k \in 1 .. Len(s) + 1 : k = Len(s) + 1 \/ k \in 1 .. Len(s)
    BY <2>4
  <2>6. f.i <= Len(f.blocks)
    BY <2>3
  <2>7. FramesTyped(stack')
    BY <2>2, <2>3, <2>4, <2>5, <2>6 DEF FramesTyped
  <2> QED
    BY <1>s, <2>1, <2>7
<1>8. CASE NoRoom
  BY <1>8, <1>t DEF NoRoom, SearchTyped, TypeOK, arguments
<1>9. CASE UNCHANGED vars
  BY <1>9, <1>t DEF vars, SearchTyped, TypeOK, arguments
<1> QED
  BY <1>1, <1>2, <1>3, <1>4, <1>5, <1>6, <1>7, <1>8, <1>9 DEF Next

\* The calls of the searches and what they return stay what they are declared
\* to be, on every volume, also on one whose directories loop or whose entries
\* run over the end of their block: no call begins a block that its directory
\* does not have.
THEOREM Ext4SearchTypeOK == Spec => []TypeOK
<1>1. SearchTyped => TypeOK
  BY DEF SearchTyped
<1> QED
  BY <1>1, InitTyped, NextTyped, PTL DEF Spec

(***************************************************************************)
(* What the recursive functions of Ext4Tree come to: Joined, FilesTo and   *)
(* Level.  That there is one, and only one for each interval of numbers,   *)
(* is shown by induction, in the form of sets of numbers.                  *)
(***************************************************************************)
LEMMA Induction ==
  ASSUME NEW T, 0 \in T, \A k \in Nat : k \in T => k + 1 \in T
  PROVE  Nat \subseteq T
<1> DEFINE R == {ss \in Nat \X Nat : ss[1] < ss[2]}
<1>1. IsWellFoundedOn(R, Nat)
  BY NatLessThanWellFounded DEF OpToRel
<1>2. SUFFICES ASSUME Nat \ T # {} PROVE FALSE
  OBVIOUS
<1> HIDE DEF R
<1>3. PICK x \in Nat \ T : \A y \in Nat \ T : ~ (<<y, x>> \in R)
  <2>1. Nat \ T \subseteq Nat
    OBVIOUS
  <2> QED
    BY <1>1, <1>2, <2>1, WFMin
<1>4. x - 1 \in Nat /\ x - 1 < x /\ x - 1 + 1 = x
  BY <1>3
<1>5. x - 1 \in T
  BY <1>3, <1>4 DEF R
<1> QED
  BY <1>3, <1>4, <1>5

\* f is upTo of Joined(s, n).
Joins(f, s, n) ==
  f = [k \in 0 .. n |-> IF k = 0 THEN << >> ELSE f[k - 1] \o s[k]]

LEMMA JoinsExists ==
  ASSUME NEW s
  PROVE  \A n \in Nat : \E f : Joins(f, s, n)
<1> DEFINE T == {n \in Nat : \E f : Joins(f, s, n)}
<1>1. 0 \in T
  <2>1. Joins([k \in 0 .. 0 |-> << >>], s, 0)
    BY DEF Joins
  <2> QED
    BY <2>1
<1>2. ASSUME NEW n \in Nat, n \in T
      PROVE  n + 1 \in T
  <2>1. PICK f : Joins(f, s, n)
    BY <1>2
  <2> DEFINE g == [k \in 0 .. n + 1 |->
                     IF k = n + 1 THEN f[n] \o s[n + 1] ELSE f[k]]
  <2>2. \A k \in 0 .. n : f[k] = IF k = 0 THEN << >> ELSE f[k - 1] \o s[k]
    BY <2>1 DEF Joins
  <2>3. ASSUME NEW k \in 0 .. n + 1
        PROVE  g[k] = IF k = 0 THEN << >> ELSE g[k - 1] \o s[k]
    <3>1. CASE k = n + 1
      <4>1. n \in 0 .. n + 1 /\ n # n + 1 /\ k - 1 = n /\ k # 0
        BY <3>1
      <4>2. g[k] = f[n] \o s[k] /\ g[k - 1] = f[n]
        BY <3>1, <4>1
      <4> QED
        BY <4>1, <4>2
    <3>2. CASE k # n + 1
      <4>1. k \in 0 .. n /\ (k # 0 => k - 1 \in 0 .. n /\ k - 1 \in 0 .. n + 1)
        BY <3>2
      <4> QED
        BY <2>2, <3>2, <4>1
    <3> QED
      BY <3>1, <3>2
  <2>4. Joins(g, s, n + 1)
    BY <2>3 DEF Joins
  <2> QED
    BY <2>4
<1> HIDE DEF T
<1>3. Nat \subseteq T
  BY <1>1, <1>2, Induction
<1> QED
  BY <1>3 DEF T

LEMMA JoinedIs ==
  ASSUME NEW s, NEW n \in Nat
  PROVE  \E f : Joins(f, s, n) /\ Joined(s, n) = f[n]
<1> DEFINE f == CHOOSE g : Joins(g, s, n)
<1>1. Joins(f, s, n)
  BY JoinsExists
<1>2. Joined(s, n) = f[n]
  BY DEF Joined, Joins
<1> QED
  BY <1>1, <1>2

LEMMA JoinsUnique ==
  ASSUME NEW s, NEW n \in Nat, NEW m \in Nat, n <= m, NEW f, NEW g,
         Joins(f, s, n), Joins(g, s, m)
  PROVE  f[n] = g[n]
<1> DEFINE T == {k \in Nat : k <= n => f[k] = g[k]}
<1>1. \A k \in 0 .. n : f[k] = IF k = 0 THEN << >> ELSE f[k - 1] \o s[k]
  BY DEF Joins
<1>2. \A k \in 0 .. m : g[k] = IF k = 0 THEN << >> ELSE g[k - 1] \o s[k]
  BY DEF Joins
<1>3. 0 \in T
  BY <1>1, <1>2
<1>4. ASSUME NEW k \in Nat, k \in T
      PROVE  k + 1 \in T
  BY <1>1, <1>2, <1>4
<1> HIDE DEF T
<1>5. Nat \subseteq T
  BY <1>3, <1>4, Induction
<1> QED
  BY <1>5 DEF T

LEMMA JoinedStep ==
  ASSUME NEW s
  PROVE  /\ Joined(s, 0) = << >>
         /\ \A n \in Nat : Joined(s, n + 1) = Joined(s, n) \o s[n + 1]
<1>1. Joined(s, 0) = << >>
  <2>1. PICK f : Joins(f, s, 0) /\ Joined(s, 0) = f[0]
    BY JoinedIs
  <2> QED
    BY <2>1 DEF Joins
<1>2. ASSUME NEW n \in Nat
      PROVE  Joined(s, n + 1) = Joined(s, n) \o s[n + 1]
  <2>1. PICK f : Joins(f, s, n) /\ Joined(s, n) = f[n]
    BY JoinedIs
  <2>2. n + 1 \in Nat /\ n <= n + 1 /\ n + 1 \in 0 .. n + 1
    OBVIOUS
  <2>3. PICK g : Joins(g, s, n + 1) /\ Joined(s, n + 1) = g[n + 1]
    BY <2>2, JoinedIs
  <2>4. f[n] = g[n]
    BY <2>1, <2>2, <2>3, JoinsUnique
  <2>5. g[n + 1] = g[n] \o s[n + 1]
    BY <2>2, <2>3 DEF Joins
  <2> QED
    BY <2>1, <2>3, <2>4, <2>5
<1> QED
  BY <1>1, <1>2

DirectoryFiles(v, files) ==
  [n \in InodeNumber |-> FilesOfDirectory(v, n, files)]

\* f is to of FilesTo(v, d).
Listings(f, v, d) ==
  f = [k \in 0 .. d |-> IF k = 0 THEN [n \in InodeNumber |-> << >>]
                        ELSE DirectoryFiles(v, f[k - 1])]

LEMMA ListingsExist ==
  ASSUME NEW v
  PROVE  \A d \in Nat : \E f : Listings(f, v, d)
<1> DEFINE T == {d \in Nat : \E f : Listings(f, v, d)}
<1>1. 0 \in T
  <2>1. Listings([k \in 0 .. 0 |-> [n \in InodeNumber |-> << >>]], v, 0)
    BY DEF Listings
  <2> QED
    BY <2>1
<1>2. ASSUME NEW d \in Nat, d \in T
      PROVE  d + 1 \in T
  <2>1. PICK f : Listings(f, v, d)
    BY <1>2
  <2> DEFINE g == [k \in 0 .. d + 1 |->
                     IF k = d + 1 THEN DirectoryFiles(v, f[d]) ELSE f[k]]
  <2>2. \A k \in 0 .. d : f[k] = IF k = 0 THEN [n \in InodeNumber |-> << >>]
                                 ELSE DirectoryFiles(v, f[k - 1])
    BY <2>1 DEF Listings
  <2>3. ASSUME NEW k \in 0 .. d + 1
        PROVE  g[k] = IF k = 0 THEN [n \in InodeNumber |-> << >>]
                      ELSE DirectoryFiles(v, g[k - 1])
    <3>1. CASE k = d + 1
      <4>1. d \in 0 .. d + 1 /\ d # d + 1 /\ k - 1 = d /\ k # 0
        BY <3>1
      <4>2. g[k] = DirectoryFiles(v, f[d]) /\ g[k - 1] = f[d]
        BY <3>1, <4>1
      <4> QED
        BY <4>1, <4>2
    <3>2. CASE k # d + 1
      <4>1. k \in 0 .. d /\ (k # 0 => k - 1 \in 0 .. d /\ k - 1 \in 0 .. d + 1)
        BY <3>2
      <4>2. g[k] = f[k] /\ (k # 0 => g[k - 1] = f[k - 1])
        BY <3>2, <4>1
      <4> QED
        BY <2>2, <4>1, <4>2
    <3> QED
      BY <3>1, <3>2
  <2>4. Listings(g, v, d + 1)
    BY <2>3 DEF Listings
  <2> QED
    BY <2>4
<1> HIDE DEF T
<1>3. Nat \subseteq T
  BY <1>1, <1>2, Induction
<1> QED
  BY <1>3 DEF T

LEMMA FilesToIs ==
  ASSUME NEW v, NEW d \in Nat
  PROVE  \E f : Listings(f, v, d) /\ FilesTo(v, d) = f[d]
<1> DEFINE f == CHOOSE g : Listings(g, v, d)
<1>1. Listings(f, v, d)
  BY ListingsExist
<1>2. FilesTo(v, d) = f[d]
  BY DEF FilesTo, Listings, DirectoryFiles
<1> QED
  BY <1>1, <1>2

LEMMA ListingsUnique ==
  ASSUME NEW v, NEW n \in Nat, NEW m \in Nat, n <= m, NEW f, NEW g,
         Listings(f, v, n), Listings(g, v, m)
  PROVE  f[n] = g[n]
<1> DEFINE T == {k \in Nat : k <= n => f[k] = g[k]}
           none == [x \in InodeNumber |-> << >>]
<1>1. \A k \in 0 .. n : f[k] = IF k = 0 THEN none ELSE DirectoryFiles(v, f[k - 1])
  BY DEF Listings
<1>2. \A k \in 0 .. m : g[k] = IF k = 0 THEN none ELSE DirectoryFiles(v, g[k - 1])
  BY DEF Listings
<1> HIDE DEF none
<1>3. 0 \in T
  BY <1>1, <1>2
<1>4. ASSUME NEW k \in Nat, k \in T
      PROVE  k + 1 \in T
  <2> SUFFICES ASSUME k + 1 <= n PROVE f[k + 1] = g[k + 1]
    OBVIOUS
  <2>1. f[k] = g[k] /\ k + 1 \in 0 .. n /\ k + 1 \in 0 .. m /\ k + 1 - 1 = k
    BY <1>4
  <2> QED
    BY <1>1, <1>2, <2>1
<1> HIDE DEF T
<1>5. Nat \subseteq T
  BY <1>3, <1>4, Induction
<1> QED
  BY <1>5 DEF T

LEMMA FilesToStep ==
  ASSUME NEW v
  PROVE  /\ FilesTo(v, 0) = [n \in InodeNumber |-> << >>]
         /\ \A d \in Nat : FilesTo(v, d + 1) = DirectoryFiles(v, FilesTo(v, d))
<1>1. FilesTo(v, 0) = [n \in InodeNumber |-> << >>]
  <2>1. PICK f : Listings(f, v, 0) /\ FilesTo(v, 0) = f[0]
    BY FilesToIs
  <2> QED
    BY <2>1 DEF Listings
<1>2. ASSUME NEW d \in Nat
      PROVE  FilesTo(v, d + 1) = DirectoryFiles(v, FilesTo(v, d))
  <2>1. PICK f : Listings(f, v, d) /\ FilesTo(v, d) = f[d]
    BY FilesToIs
  <2>2. d + 1 \in Nat /\ d <= d + 1 /\ d + 1 \in 0 .. d + 1 /\ d + 1 - 1 = d
    OBVIOUS
  <2>3. PICK g : Listings(g, v, d + 1) /\ FilesTo(v, d + 1) = g[d + 1]
    BY <2>2, FilesToIs
  <2>4. f[d] = g[d]
    BY <2>1, <2>2, <2>3, ListingsUnique
  <2>5. g[d + 1] = DirectoryFiles(v, g[d])
    BY <2>2, <2>3 DEF Listings
  <2> QED
    BY <2>1, <2>3, <2>4, <2>5
<1> QED
  BY <1>1, <1>2

Subs(v, N) == UNION { Subdirectories(v, n) : n \in N }

\* f is below of Level(v, d).
Below(f, v, d) ==
  f = [k \in 0 .. d |-> IF k = 0 THEN {Root}
                        ELSE Subs(v, f[k - 1])]

LEMMA BelowExist ==
  ASSUME NEW v
  PROVE  \A d \in Nat : \E f : Below(f, v, d)
<1> DEFINE T == {d \in Nat : \E f : Below(f, v, d)}
<1>1. 0 \in T
  <2>1. Below([k \in 0 .. 0 |-> {Root}], v, 0)
    BY DEF Below
  <2> QED
    BY <2>1
<1>2. ASSUME NEW d \in Nat, d \in T
      PROVE  d + 1 \in T
  <2>1. PICK f : Below(f, v, d)
    BY <1>2
  <2> DEFINE g == [k \in 0 .. d + 1 |->
                     IF k = d + 1 THEN Subs(v, f[d]) ELSE f[k]]
  <2>2. \A k \in 0 .. d : f[k] = IF k = 0 THEN {Root}
                                 ELSE Subs(v, f[k - 1])
    BY <2>1 DEF Below
  <2>3. ASSUME NEW k \in 0 .. d + 1
        PROVE  g[k] = IF k = 0 THEN {Root}
                      ELSE Subs(v, g[k - 1])
    <3>1. CASE k = d + 1
      <4>1. d \in 0 .. d + 1 /\ d # d + 1 /\ k - 1 = d /\ k # 0
        BY <3>1
      <4>2. g[k] = Subs(v, f[d]) /\ g[k - 1] = f[d]
        BY <3>1, <4>1
      <4> QED
        BY <4>1, <4>2
    <3>2. CASE k # d + 1
      <4>1. k \in 0 .. d /\ (k # 0 => k - 1 \in 0 .. d /\ k - 1 \in 0 .. d + 1)
        BY <3>2
      <4>2. g[k] = f[k] /\ (k # 0 => g[k - 1] = f[k - 1])
        BY <3>2, <4>1
      <4> QED
        BY <2>2, <4>1, <4>2
    <3> QED
      BY <3>1, <3>2
  <2>4. Below(g, v, d + 1)
    BY <2>3 DEF Below
  <2> QED
    BY <2>4
<1> HIDE DEF T
<1>3. Nat \subseteq T
  BY <1>1, <1>2, Induction
<1> QED
  BY <1>3 DEF T

LEMMA LevelIs ==
  ASSUME NEW v, NEW d \in Nat
  PROVE  \E f : Below(f, v, d) /\ Level(v, d) = f[d]
<1> DEFINE f == CHOOSE g : Below(g, v, d)
<1>1. Below(f, v, d)
  BY BelowExist
<1>2. Level(v, d) = f[d]
  BY DEF Level, Below, Subs
<1> QED
  BY <1>1, <1>2

LEMMA BelowUnique ==
  ASSUME NEW v, NEW n \in Nat, NEW m \in Nat, n <= m, NEW f, NEW g,
         Below(f, v, n), Below(g, v, m)
  PROVE  f[n] = g[n]
<1> DEFINE T == {k \in Nat : k <= n => f[k] = g[k]}
           top == {Root}
<1>1. \A k \in 0 .. n : f[k] = IF k = 0 THEN top ELSE Subs(v, f[k - 1])
  BY DEF Below
<1>2. \A k \in 0 .. m : g[k] = IF k = 0 THEN top ELSE Subs(v, g[k - 1])
  BY DEF Below
<1> HIDE DEF top
<1>3. 0 \in T
  BY <1>1, <1>2
<1>4. ASSUME NEW k \in Nat, k \in T
      PROVE  k + 1 \in T
  <2> SUFFICES ASSUME k + 1 <= n PROVE f[k + 1] = g[k + 1]
    OBVIOUS
  <2>1. f[k] = g[k] /\ k + 1 \in 0 .. n /\ k + 1 \in 0 .. m /\ k + 1 - 1 = k
    BY <1>4
  <2> QED
    BY <1>1, <1>2, <2>1
<1> HIDE DEF T
<1>5. Nat \subseteq T
  BY <1>3, <1>4, Induction
<1> QED
  BY <1>5 DEF T

LEMMA LevelStep ==
  ASSUME NEW v
  PROVE  /\ Level(v, 0) = {Root}
         /\ \A d \in Nat : Level(v, d + 1) = Subs(v, Level(v, d))
<1>1. Level(v, 0) = {Root}
  <2>1. PICK f : Below(f, v, 0) /\ Level(v, 0) = f[0]
    BY LevelIs
  <2> QED
    BY <2>1 DEF Below
<1>2. ASSUME NEW d \in Nat
      PROVE  Level(v, d + 1) = Subs(v, Level(v, d))
  <2>1. PICK f : Below(f, v, d) /\ Level(v, d) = f[d]
    BY LevelIs
  <2>2. d + 1 \in Nat /\ d <= d + 1 /\ d + 1 \in 0 .. d + 1 /\ d + 1 - 1 = d
    OBVIOUS
  <2>3. PICK g : Below(g, v, d + 1) /\ Level(v, d + 1) = g[d + 1]
    BY <2>2, LevelIs
  <2>4. f[d] = g[d]
    BY <2>1, <2>2, <2>3, BelowUnique
  <2>5. g[d + 1] = Subs(v, g[d])
    <3>1. \A k \in 0 .. d + 1 : g[k] = IF k = 0 THEN {Root} ELSE Subs(v, g[k - 1])
      BY <2>3 DEF Below
    <3>2. d + 1 # 0
      OBVIOUS
    <3> QED
      BY <2>2, <3>1, <3>2
  <2> QED
    BY <2>1, <2>3, <2>4, <2>5
<1> QED
  BY <1>1, <1>2

(***************************************************************************)
(* The offsets of a block's entries.                                       *)
(***************************************************************************)
LEMMA LeastElement ==
  ASSUME NEW T \in SUBSET Nat, T # {}
  PROVE  \E m \in T : \A k \in T : m <= k
<1> DEFINE U == {n \in Nat : \A k \in 0 .. n : k \notin T}
<1>1. CASE 0 \in T
  BY <1>1
<1>2. CASE 0 \notin T
  <2>1. 0 \in U
    BY <1>2
  <2>2. PICK n \in Nat : n \in U /\ n + 1 \notin U
    <3>1. SUFFICES ASSUME \A n \in Nat : n \in U => n + 1 \in U PROVE FALSE
      OBVIOUS
    <3> HIDE DEF U
    <3>2. Nat \subseteq U
      BY <2>1, <3>1, Induction
    <3>3. \A n \in Nat : n \notin T
      BY <3>2 DEF U
    <3> QED
      BY <3>3
  <2>3. \A k \in T : n + 1 <= k
    BY <2>2
  <2>4. n + 1 \in T
    BY <2>2
  <2> QED
    BY <2>3, <2>4
<1> QED
  BY <1>1, <1>2

EntryAt(v, b, o) == v.block[b][o]

LEMMA EntryAtTyped ==
  ASSUME NEW v \in Volume, NEW b \in Block, NEW o \in EntryOffsets(v, b)
  PROVE  /\ o \in Offset /\ o \in Nat /\ o < BlockSize
         /\ EntryAt(v, b, o) \in DirectoryEntry
         /\ EntryAt(v, b, o).length \in Nat
<1>1. o \in Offset
  BY DEF EntryOffsets
<1>2. EntryAt(v, b, o) \in DirectoryEntry
  BY <1>1, VolumeTyped DEF EntryAt
<1>3. o \in Nat /\ o < BlockSize
  BY <1>1, BlockSizeAssumption DEF Offset
<1> QED
  BY <1>1, <1>2, <1>3 DEF DirectoryEntry

LEMMA OffsetsBegin ==
  ASSUME NEW v, NEW b
  PROVE  0 \in EntryOffsets(v, b)
<1>1. 0 \in Offset
  BY BlockSizeAssumption DEF Offset
<1> QED
  BY <1>1 DEF EntryOffsets, HoldsEntries

LEMMA OffsetsGoOn ==
  ASSUME NEW v \in Volume, NEW b \in Block, NEW o \in EntryOffsets(v, b),
         Proper(v, b, o), o + EntryAt(v, b, o).length < BlockSize
  PROVE  o + EntryAt(v, b, o).length \in EntryOffsets(v, b)
<1> DEFINE p == o + EntryAt(v, b, o).length
<1>1. p \in Offset
  BY EntryAtTyped, BlockSizeAssumption DEF Offset
<1>2. \A O \in SUBSET Offset : HoldsEntries(v, b, O) => p \in O
  BY DEF HoldsEntries, EntryOffsets, EntryAt
<1> QED
  BY <1>1, <1>2 DEF EntryOffsets

\* The entry before one.
LEMMA OffsetBefore ==
  ASSUME NEW v \in Volume, NEW b \in Block, NEW p \in EntryOffsets(v, b), p # 0
  PROVE  \E o \in EntryOffsets(v, b) :
           Proper(v, b, o) /\ p = o + EntryAt(v, b, o).length
<1>1. SUFFICES ASSUME \A o \in EntryOffsets(v, b) :
                        Proper(v, b, o) => p # o + EntryAt(v, b, o).length
               PROVE  FALSE
  OBVIOUS
<1> DEFINE O == EntryOffsets(v, b) \ {p}
<1>2. O \in SUBSET Offset
  BY DEF EntryOffsets
<1>3. ASSUME NEW o \in O, Proper(v, b, o), o + v.block[b][o].length < BlockSize
      PROVE  o + v.block[b][o].length \in O
  <2>1. o \in EntryOffsets(v, b) /\ EntryAt(v, b, o) = v.block[b][o]
    BY DEF EntryAt
  <2> QED
    BY <1>1, <1>3, <2>1, OffsetsGoOn
<1>4. 0 \in O
  BY OffsetsBegin
<1> HIDE DEF O
<1>5. HoldsEntries(v, b, O)
  BY <1>3, <1>4 DEF HoldsEntries
<1>6. p \in O
  BY <1>2, <1>5 DEF EntryOffsets
<1> QED
  BY <1>6 DEF O

\* Entries do not overlap.
LEMMA OffsetsApart ==
  ASSUME NEW v \in Volume, NEW b \in Block,
         NEW o \in EntryOffsets(v, b), NEW p \in EntryOffsets(v, b), o < p
  PROVE  o + EntryAt(v, b, o).length <= p
<1> DEFINE End(q) == q + EntryAt(v, b, q).length
           Inside == { q \in EntryOffsets(v, b) :
                         \E r \in EntryOffsets(v, b) : r < q /\ q < End(r) }
<1>1. \A q \in EntryOffsets(v, b) : q \in Nat /\ End(q) \in Nat
  BY EntryAtTyped
<1>2. SUFFICES ASSUME p \in Inside PROVE FALSE
  BY <1>1
<1>3. Inside \in SUBSET Nat /\ Inside # {}
  BY <1>1, <1>2
<1>4. PICK q \in Inside : \A k \in Inside : q <= k
  BY <1>3, LeastElement
<1>5. PICK r \in EntryOffsets(v, b) : r < q /\ q < End(r)
  BY <1>4
<1>6. q # 0
  BY <1>1, <1>5
<1>7. PICK s \in EntryOffsets(v, b) : Proper(v, b, s) /\ q = End(s)
  BY <1>4, <1>6, OffsetBefore
<1>8. s < q
  BY <1>1, <1>7, EntryAtTyped DEF Proper, EntryAt
<1> HIDE DEF End
<1>9. CASE s = r
  BY <1>1, <1>5, <1>7, <1>9
<1>10. CASE s < r
  <2>1. r \in Inside
    BY <1>5, <1>7, <1>10
  <2> QED
    BY <1>1, <1>4, <1>5, <2>1
<1>11. CASE r < s
  <2>1. s \in Inside
    BY <1>1, <1>5, <1>8, <1>11
  <2> QED
    BY <1>1, <1>4, <1>8, <2>1
<1> QED
  BY <1>1, <1>9, <1>10, <1>11

(***************************************************************************)
(* What files of the name t there are in a sequence: none, one whose inode *)
(* is x, or one whose inode is x as the first of them.                     *)
(***************************************************************************)
None(s, t) == \A i \in 1 .. Len(s) : s[i].name # t

Has(s, t, x) == \E i \in 1 .. Len(s) : s[i].name = t /\ s[i].inode = x

First(s, t, x) ==
  \E i \in 1 .. Len(s) : /\ s[i].name = t /\ s[i].inode = x
                         /\ \A j \in 1 .. i - 1 : s[j].name # t

LEMMA ConcatAnswers ==
  ASSUME NEW S, NEW a \in Seq(S), NEW b \in Seq(S), NEW t, NEW x
  PROVE  /\ a \o b \in Seq(S)
         /\ None(a, t) /\ None(b, t) => None(a \o b, t)
         /\ Has(a, t, x) \/ Has(b, t, x) => Has(a \o b, t, x)
         /\ First(a, t, x) => First(a \o b, t, x)
         /\ None(a, t) /\ First(b, t, x) => First(a \o b, t, x)
<1>1. Len(a) \in Nat /\ Len(b) \in Nat
  BY LenProperties
<1>2. PICK c : /\ c = a \o b /\ c \in Seq(S) /\ Len(c) = Len(a) + Len(b)
               /\ \A i \in 1 .. Len(a) : c[i] = a[i]
               /\ \A i \in 1 .. Len(b) : c[Len(a) + i] = b[i]
               /\ \A i \in 1 .. Len(c) :
                    i \in 1 .. Len(a) \/ \E k \in 1 .. Len(b) : i = Len(a) + k
  <2>1. PICK c : c = a \o b
    OBVIOUS
  <2>2. /\ c \in Seq(S) /\ Len(c) = Len(a) + Len(b)
        /\ \A i \in 1 .. Len(a) + Len(b) :
             c[i] = IF i <= Len(a) THEN a[i] ELSE b[i - Len(a)]
    BY <2>1, ConcatProperties
  <2>3. \A i \in 1 .. Len(a) : c[i] = a[i]
    BY <1>1, <2>2
  <2>4. ASSUME NEW i \in 1 .. Len(b) PROVE c[Len(a) + i] = b[i]
    <3>1. /\ Len(a) + i \in 1 .. Len(a) + Len(b) /\ ~(Len(a) + i <= Len(a))
          /\ Len(a) + i - Len(a) = i
      BY <1>1
    <3> QED
      BY <2>2, <3>1
  <2>5. ASSUME NEW i \in 1 .. Len(c), i \notin 1 .. Len(a)
        PROVE  \E k \in 1 .. Len(b) : i = Len(a) + k
    <3>1. i - Len(a) \in 1 .. Len(b) /\ i = Len(a) + (i - Len(a))
      BY <1>1, <2>2, <2>5
    <3> QED
      BY <3>1
  <2> QED
    BY <2>1, <2>2, <2>3, <2>4, <2>5
<1>3. /\ \A i \in 1 .. Len(a) : i \in 1 .. Len(c)
      /\ \A i \in 1 .. Len(b) : Len(a) + i \in 1 .. Len(c)
  BY <1>1, <1>2
<1>4. None(a, t) /\ None(b, t) => None(c, t)
  BY <1>2 DEF None
<1>5. Has(a, t, x) \/ Has(b, t, x) => Has(c, t, x)
  <2>1. Has(a, t, x) => Has(c, t, x)
    BY <1>2, <1>3 DEF Has
  <2>2. Has(b, t, x) => Has(c, t, x)
    BY <1>2, <1>3 DEF Has
  <2> QED
    BY <2>1, <2>2
<1>6. First(a, t, x) => First(c, t, x)
  <2> SUFFICES ASSUME First(a, t, x) PROVE First(c, t, x)
    OBVIOUS
  <2>1. PICK i \in 1 .. Len(a) : /\ a[i].name = t /\ a[i].inode = x
                                 /\ \A j \in 1 .. i - 1 : a[j].name # t
    BY DEF First
  <2>2. i \in 1 .. Len(c) /\ \A j \in 1 .. i - 1 : j \in 1 .. Len(a)
    BY <1>1, <1>3
  <2>3. c[i] = a[i] /\ \A j \in 1 .. i - 1 : c[j] = a[j]
    BY <1>2, <2>2
  <2> QED
    BY <2>1, <2>2, <2>3 DEF First
<1>7. None(a, t) /\ First(b, t, x) => First(c, t, x)
  <2> SUFFICES ASSUME None(a, t), First(b, t, x) PROVE First(c, t, x)
    OBVIOUS
  <2>1. PICK i \in 1 .. Len(b) : /\ b[i].name = t /\ b[i].inode = x
                                 /\ \A j \in 1 .. i - 1 : b[j].name # t
    BY DEF First
  <2>2. Len(a) + i \in 1 .. Len(c) /\ c[Len(a) + i] = b[i]
    BY <1>2, <1>3
  <2>3. ASSUME NEW j \in 1 .. Len(a) + i - 1 PROVE c[j].name # t
    <3>1. CASE j \in 1 .. Len(a)
      BY <1>2, <3>1 DEF None
    <3>2. CASE j \notin 1 .. Len(a)
      <4>1. j - Len(a) \in 1 .. i - 1 /\ j - Len(a) \in 1 .. Len(b)
            /\ j = Len(a) + (j - Len(a))
        BY <1>1, <3>2
      <4>2. c[Len(a) + (j - Len(a))] = b[j - Len(a)]
        BY <1>2, <4>1
      <4> QED
        BY <2>1, <4>1, <4>2
    <3> QED
      BY <3>1, <3>2
  <2> QED
    BY <2>1, <2>2, <2>3 DEF First
<1> QED
  BY <1>2, <1>4, <1>5, <1>6, <1>7

\* r has what the first n of the sequences s have, in their order.
Gathers(r, s, n, t, x) ==
  /\ r \in Seq(DirectoryEntry)
  /\ (\A k \in 1 .. n : None(s[k], t)) => None(r, t)
  /\ \A m \in 1 .. n : Has(s[m], t, x) => Has(r, t, x)
  /\ \A m \in 1 .. n :
       First(s[m], t, x) /\ (\A k \in 1 .. m - 1 : None(s[k], t))
         => First(r, t, x)

LEMMA JoinedGathers ==
  ASSUME NEW s, NEW n \in Nat, \A k \in 1 .. n : s[k] \in Seq(DirectoryEntry),
         NEW t, NEW x
  PROVE  Gathers(Joined(s, n), s, n, t, x)
<1> DEFINE T == {k \in Nat : k <= n => Gathers(Joined(s, k), s, k, t, x)}
<1>1. 0 \in T
  <2>1. Joined(s, 0) = << >> /\ << >> \in Seq(DirectoryEntry) /\ Len(<< >>) = 0
    BY JoinedStep, EmptySeq
  <2>2. None(Joined(s, 0), t)
    BY <2>1 DEF None
  <2>3. Gathers(Joined(s, 0), s, 0, t, x)
    <3>1. \A m \in 1 .. 0 : FALSE
      OBVIOUS
    <3> QED
      BY <2>1, <2>2, <3>1 DEF Gathers
  <2> QED
    BY <2>3
<1>2. ASSUME NEW k \in Nat, k \in T
      PROVE  k + 1 \in T
  <2> SUFFICES ASSUME k + 1 <= n
               PROVE  Gathers(Joined(s, k + 1), s, k + 1, t, x)
    OBVIOUS
  <2>1. PICK a : a = Joined(s, k) /\ Gathers(a, s, k, t, x)
    BY <1>2
  <2>2. PICK b \in Seq(DirectoryEntry) : b = s[k + 1]
    <3>1. k + 1 \in 1 .. n
      OBVIOUS
    <3> QED
      BY <3>1
  <2>3. a \in Seq(DirectoryEntry)
    BY <2>1 DEF Gathers
  <2>4. PICK c : /\ c = Joined(s, k + 1) /\ c \in Seq(DirectoryEntry)
                 /\ None(a, t) /\ None(b, t) => None(c, t)
                 /\ Has(a, t, x) \/ Has(b, t, x) => Has(c, t, x)
                 /\ First(a, t, x) => First(c, t, x)
                 /\ None(a, t) /\ First(b, t, x) => First(c, t, x)
    <3>1. Joined(s, k + 1) = a \o b
      BY <2>1, <2>2, JoinedStep
    <3> QED
      BY <2>3, <3>1, ConcatAnswers
  <2>5. /\ \A m \in 1 .. k + 1 : m = k + 1 \/ m \in 1 .. k
        /\ \A m \in 1 .. k : m \in 1 .. k + 1
        /\ k + 1 \in 1 .. k + 1 /\ k + 1 - 1 = k
    OBVIOUS
  <2>6. (\A m \in 1 .. k + 1 : None(s[m], t)) => None(c, t)
    <3>1. (\A m \in 1 .. k : None(s[m], t)) => None(a, t)
      BY <2>1 DEF Gathers
    <3> QED
      BY <2>2, <2>4, <2>5, <3>1
  <2>7. \A m \in 1 .. k + 1 : Has(s[m], t, x) => Has(c, t, x)
    <3>1. \A m \in 1 .. k : Has(s[m], t, x) => Has(a, t, x)
      BY <2>1 DEF Gathers
    <3> QED
      BY <2>2, <2>4, <2>5, <3>1
  <2>8. \A m \in 1 .. k + 1 :
          First(s[m], t, x) /\ (\A i \in 1 .. m - 1 : None(s[i], t))
            => First(c, t, x)
    <3>1. /\ (\A m \in 1 .. k : None(s[m], t)) => None(a, t)
          /\ \A m \in 1 .. k :
               First(s[m], t, x) /\ (\A i \in 1 .. m - 1 : None(s[i], t))
                 => First(a, t, x)
      BY <2>1 DEF Gathers
    <3>2. ASSUME NEW m \in 1 .. k + 1, First(s[m], t, x),
                 \A i \in 1 .. m - 1 : None(s[i], t)
          PROVE  First(c, t, x)
      <4>1. CASE m = k + 1
        BY <2>2, <2>4, <2>5, <3>1, <3>2, <4>1
      <4>2. CASE m \in 1 .. k
        BY <2>4, <3>1, <3>2, <4>2
      <4> QED
        BY <2>5, <4>1, <4>2
    <3> QED
      BY <3>2
  <2> QED
    BY <2>4, <2>6, <2>7, <2>8 DEF Gathers
<1> HIDE DEF T
<1>3. Nat \subseteq T
  BY <1>1, <1>2, Induction
<1> QED
  BY <1>3 DEF T

(***************************************************************************)
(* What there is in a block and in a directory, given what there is below  *)
(* each directory that they name.                                          *)
(***************************************************************************)
Listed == [InodeNumber -> Seq(DirectoryEntry)]

FilesAt(v, b, o, files) == FilesOfEntry(EntryAt(v, b, o), files)

LEMMA FilesAtTyped ==
  ASSUME NEW v \in Volume, NEW b \in Block, NEW o \in EntryOffsets(v, b),
         NEW files \in Listed
  PROVE  FilesAt(v, b, o, files) \in Seq(DirectoryEntry)
<1>1. PICK e \in DirectoryEntry : e = EntryAt(v, b, o)
  BY EntryAtTyped
<1>2. << >> \in Seq(DirectoryEntry) /\ <<e>> \in Seq(DirectoryEntry)
  OBVIOUS
<1>3. IsVisibleDirectory(e) => files[e.inode] \in Seq(DirectoryEntry)
  BY DEF IsVisibleDirectory, IsVisible, DirectoryEntry, Listed
<1> QED
  BY <1>1, <1>2, <1>3 DEF FilesAt, FilesOfEntry

LEMMA BlockAnswers ==
  ASSUME NEW v \in Volume, NEW b \in Block, NEW files \in Listed, NEW t, NEW x
  PROVE  /\ FilesOfBlock(v, b, files) \in Seq(DirectoryEntry)
         /\ (\A o \in EntryOffsets(v, b) : None(FilesAt(v, b, o, files), t))
              => None(FilesOfBlock(v, b, files), t)
         /\ \A o \in EntryOffsets(v, b) :
              Has(FilesAt(v, b, o, files), t, x)
                => Has(FilesOfBlock(v, b, files), t, x)
         /\ \A o \in EntryOffsets(v, b) :
              /\ First(FilesAt(v, b, o, files), t, x)
              /\ \A p \in EntryOffsets(v, b) :
                   p < o => None(FilesAt(v, b, p, files), t)
              => First(FilesOfBlock(v, b, files), t, x)
<1>1. PICK s : s = [k \in 1 .. BlockSize |->
                      IF k - 1 \in EntryOffsets(v, b)
                      THEN FilesOfEntry(v.block[b][k - 1], files) ELSE << >>]
  OBVIOUS
<1>2. FilesOfBlock(v, b, files) = Joined(s, BlockSize)
  BY <1>1 DEF FilesOfBlock
<1>3. \A k \in 1 .. BlockSize :
        /\ k - 1 \in EntryOffsets(v, b) => s[k] = FilesAt(v, b, k - 1, files)
        /\ k - 1 \notin EntryOffsets(v, b) => s[k] = << >>
  BY <1>1 DEF FilesAt, EntryAt
<1>4. \A k \in 1 .. BlockSize : s[k] \in Seq(DirectoryEntry)
  <2>1. << >> \in Seq(DirectoryEntry)
    OBVIOUS
  <2> QED
    BY <1>3, <2>1, FilesAtTyped
<1>5. BlockSize \in Nat
  BY BlockSizeAssumption
<1>6. PICK r : /\ r = FilesOfBlock(v, b, files)
               /\ Gathers(r, s, BlockSize, t, x)
  BY <1>2, <1>4, <1>5, JoinedGathers
<1>7. \A o \in EntryOffsets(v, b) :
        /\ o \in Nat /\ o + 1 \in 1 .. BlockSize /\ o + 1 - 1 = o
        /\ s[o + 1] = FilesAt(v, b, o, files)
  <2> TAKE o \in EntryOffsets(v, b)
  <2>1. o \in Nat /\ o + 1 \in 1 .. BlockSize /\ o + 1 - 1 = o
    BY <1>5, EntryAtTyped
  <2>2. s[o + 1] = FilesAt(v, b, o, files)
    BY <1>3, <2>1
  <2> QED
    BY <2>1, <2>2
<1>8. None(<< >>, t)
  BY DEF None
<1>9. ASSUME \A o \in EntryOffsets(v, b) : None(FilesAt(v, b, o, files), t)
      PROVE  None(r, t)
  <2>1. \A k \in 1 .. BlockSize : None(s[k], t)
    BY <1>3, <1>8, <1>9
  <2> QED
    BY <1>6, <2>1 DEF Gathers
<1>10. ASSUME NEW o \in EntryOffsets(v, b), Has(FilesAt(v, b, o, files), t, x)
       PROVE  Has(r, t, x)
  <2>1. o + 1 \in 1 .. BlockSize /\ Has(s[o + 1], t, x)
    BY <1>7, <1>10
  <2>2. \A m \in 1 .. BlockSize : Has(s[m], t, x) => Has(r, t, x)
    BY <1>6 DEF Gathers
  <2> QED
    BY <2>1, <2>2
<1>11. ASSUME NEW o \in EntryOffsets(v, b), First(FilesAt(v, b, o, files), t, x),
              \A p \in EntryOffsets(v, b) :
                p < o => None(FilesAt(v, b, p, files), t)
       PROVE  First(r, t, x)
  <2>1. o + 1 \in 1 .. BlockSize /\ First(s[o + 1], t, x) /\ o \in Nat
    BY <1>7, <1>11
  <2>2. ASSUME NEW k \in 1 .. (o + 1) - 1 PROVE None(s[k], t)
    <3>1. k \in 1 .. BlockSize /\ k - 1 < o
      BY <1>5, <2>1
    <3>2. CASE k - 1 \in EntryOffsets(v, b)
      <4>1. s[k] = FilesAt(v, b, k - 1, files)
        BY <1>3, <3>1, <3>2
      <4> QED
        BY <1>11, <3>1, <3>2, <4>1
    <3>3. CASE k - 1 \notin EntryOffsets(v, b)
      BY <1>3, <1>8, <3>1, <3>3
    <3> QED
      BY <3>2, <3>3
  <2>3. \A m \in 1 .. BlockSize :
          First(s[m], t, x) /\ (\A k \in 1 .. m - 1 : None(s[k], t))
            => First(r, t, x)
    BY <1>6 DEF Gathers
  <2> QED
    BY <2>1, <2>2, <2>3
<1>12. r \in Seq(DirectoryEntry)
  BY <1>6 DEF Gathers
<1> QED
  BY <1>6, <1>9, <1>10, <1>11, <1>12

LEMMA BlocksTyped ==
  ASSUME NEW v \in Volume, NEW n \in InodeNumber
  PROVE  /\ BlocksOf(v, n) \in Seq(Block) /\ Len(BlocksOf(v, n)) \in Nat
         /\ \A i \in 1 .. Len(BlocksOf(v, n)) : BlocksOf(v, n)[i] \in Block
<1>1. BlocksOf(v, n) \in Seq(Block)
  BY InodeParts, VolumeTyped DEF BlocksOf
<1> QED
  BY <1>1

LEMMA DirectoryAnswers ==
  ASSUME NEW v \in Volume, NEW n \in InodeNumber, NEW files \in Listed,
         NEW t, NEW x
  PROVE  LET bs == BlocksOf(v, n)
             place == 1 .. Len(BlocksOf(v, n))
             all == FilesOfDirectory(v, n, files)
         IN /\ all \in Seq(DirectoryEntry)
            /\ (\A i \in place : None(FilesOfBlock(v, bs[i], files), t))
                 => None(all, t)
            /\ \A i \in place :
                 Has(FilesOfBlock(v, bs[i], files), t, x) => Has(all, t, x)
            /\ \A i \in place :
                 /\ First(FilesOfBlock(v, bs[i], files), t, x)
                 /\ \A j \in 1 .. i - 1 :
                      None(FilesOfBlock(v, bs[j], files), t)
                 => First(all, t, x)
<1>1. PICK bs \in Seq(Block) :
        /\ bs = BlocksOf(v, n) /\ Len(bs) \in Nat
        /\ \A i \in 1 .. Len(bs) : bs[i] \in Block
  BY BlocksTyped
<1>2. PICK s : s = [i \in 1 .. Len(bs) |-> FilesOfBlock(v, bs[i], files)]
  OBVIOUS
<1>3. FilesOfDirectory(v, n, files) = Joined(s, Len(bs))
  BY <1>1, <1>2 DEF FilesOfDirectory
<1>4. \A i \in 1 .. Len(bs) : s[i] = FilesOfBlock(v, bs[i], files)
  BY <1>2
<1>5. \A i \in 1 .. Len(bs) : s[i] \in Seq(DirectoryEntry)
  BY <1>1, <1>4, BlockAnswers
<1>6. Gathers(Joined(s, Len(bs)), s, Len(bs), t, x)
  BY <1>1, <1>5, JoinedGathers
<1>7. PICK r : r = FilesOfDirectory(v, n, files) /\ Gathers(r, s, Len(bs), t, x)
  BY <1>3, <1>6
<1>8. /\ r \in Seq(DirectoryEntry)
      /\ (\A i \in 1 .. Len(bs) : None(FilesOfBlock(v, bs[i], files), t))
           => None(r, t)
      /\ \A i \in 1 .. Len(bs) :
           Has(FilesOfBlock(v, bs[i], files), t, x) => Has(r, t, x)
  BY <1>4, <1>7 DEF Gathers
<1>9. ASSUME NEW i \in 1 .. Len(bs),
             First(FilesOfBlock(v, bs[i], files), t, x),
             \A j \in 1 .. i - 1 : None(FilesOfBlock(v, bs[j], files), t)
      PROVE  First(r, t, x)
  <2>1. First(s[i], t, x)
    BY <1>4, <1>9
  <2>2. \A j \in 1 .. i - 1 : j \in 1 .. Len(bs)
    BY <1>1
  <2>3. \A j \in 1 .. i - 1 : None(s[j], t)
    BY <1>4, <1>9, <2>2
  <2>4. \A m \in 1 .. Len(bs) :
          First(s[m], t, x) /\ (\A k \in 1 .. m - 1 : None(s[k], t))
            => First(r, t, x)
    BY <1>7 DEF Gathers
  <2> QED
    BY <2>1, <2>3, <2>4
<1> QED
  BY <1>1, <1>7, <1>8, <1>9

LEMMA FilesToTyped ==
  ASSUME NEW v \in Volume
  PROVE  \A d \in Nat : FilesTo(v, d) \in Listed
<1> DEFINE T == {d \in Nat : FilesTo(v, d) \in Listed}
<1>1. 0 \in T
  <2>1. << >> \in Seq(DirectoryEntry)
    OBVIOUS
  <2> QED
    BY <2>1, FilesToStep DEF Listed
<1>2. ASSUME NEW d \in Nat, d \in T
      PROVE  d + 1 \in T
  <2>1. PICK files \in Listed : files = FilesTo(v, d)
    BY <1>2
  <2>2. FilesTo(v, d + 1) = DirectoryFiles(v, files)
    BY <2>1, FilesToStep
  <2>3. \A n \in InodeNumber :
          FilesOfDirectory(v, n, files) \in Seq(DirectoryEntry)
    BY DirectoryAnswers
  <2>4. DirectoryFiles(v, files) \in Listed
    BY <2>3 DEF DirectoryFiles, Listed
  <2> QED
    BY <2>2, <2>4
<1> HIDE DEF T
<1>3. Nat \subseteq T
  BY <1>1, <1>2, Induction
<1> QED
  BY <1>3 DEF T

LEMMA FilesToUnfolds ==
  ASSUME NEW v, NEW d \in Nat, NEW n \in InodeNumber
  PROVE  FilesTo(v, d + 1)[n] = FilesOfDirectory(v, n, FilesTo(v, d))
<1>1. FilesTo(v, d + 1) = DirectoryFiles(v, FilesTo(v, d))
  BY FilesToStep
<1> QED
  BY <1>1 DEF DirectoryFiles

(***************************************************************************)
(* Directories and their levels.                                           *)
(***************************************************************************)
LEMMA SubdirectoryIs ==
  ASSUME NEW v \in Volume, NEW n \in InodeNumber,
         NEW i \in 1 .. Len(BlocksOf(v, n)),
         NEW o \in EntryOffsets(v, BlocksOf(v, n)[i]),
         IsVisibleDirectory(EntryAt(v, BlocksOf(v, n)[i], o))
  PROVE  /\ EntryAt(v, BlocksOf(v, n)[i], o).inode \in Subdirectories(v, n)
         /\ EntryAt(v, BlocksOf(v, n)[i], o).inode \in InodeNumber
<1>1. PICK b \in Block : b = BlocksOf(v, n)[i]
  BY BlocksTyped
<1>2. EntryAt(v, b, o) \in Entries(v, n)
  BY <1>1 DEF Entries, EntryAt
<1>3. EntryAt(v, b, o) \in DirectoryEntry
  BY <1>1, EntryAtTyped
<1> QED
  BY <1>1, <1>2, <1>3
  DEF Subdirectories, IsVisibleDirectory, IsVisible, DirectoryEntry

LEMMA LevelBelow ==
  ASSUME NEW v, NEW d \in Nat, NEW n \in Level(v, d),
         NEW m \in Subdirectories(v, n)
  PROVE  m \in Level(v, d + 1)
<1>1. Level(v, d + 1) = Subs(v, Level(v, d))
  BY LevelStep
<1> QED
  BY <1>1 DEF Subs

\* What holds of the directories of a volume that can be searched.
LEMMA LevelSearchable ==
  ASSUME NEW v \in Volume, WellFormed(v, MaxDepth), InodesFit(v, MaxDepth),
         NEW d \in 0 .. MaxDepth, NEW n \in Level(v, d), n \in InodeNumber
  PROVE  /\ v.table[CastGroup(n)][IndexOf(n)] = BlocksOf(v, n)
         /\ d < MaxDepth
         /\ \A i \in 1 .. Len(BlocksOf(v, n)) :
              /\ WellFormedBlock(v, BlocksOf(v, n)[i])
              /\ BlocksOf(v, n)[i] \in BlocksOfDirectories(v, MaxDepth)
<1>1. n \in Directories(v, MaxDepth)
  BY DEF Directories
<1>2. CastGroup(n) = GroupOf(n)
  BY <1>1, InodeParts DEF InodesFit
<1>3. d < MaxDepth
  BY DepthAssumption DEF WellFormed
<1>4. \A i \in 1 .. Len(BlocksOf(v, n)) :
        BlocksOf(v, n)[i] \in BlocksOfDirectories(v, MaxDepth)
  BY <1>1 DEF BlocksOfDirectories
<1> QED
  BY <1>2, <1>3, <1>4 DEF BlocksOf, WellFormed

(***************************************************************************)
(* The invariant.                                                          *)
(***************************************************************************)
Ordered == ErasedLast(vol, MaxDepth)

\* The levels of directories that a search looks into.
Levels == IF mode = "root" THEN 1 ELSE MaxDepth + 1

\* The files there are in and below what the directory of the k-th call names.
Under(k) == FilesTo(vol, Levels - k)

\* No entry of a block in front of o leads to a file of the name asked for.
InVain(b, o, k) ==
  \A q \in EntryOffsets(vol, b) :
    q < o => None(FilesAt(vol, b, q, Under(k)), target)

\* f is the k-th call, and searches directory n.
Searching(f, k, n) ==
  /\ n \in InodeNumber
  /\ n \in Level(vol, k - 1)
  /\ f.blocks = BlocksOf(vol, n)
  /\ f.at < BlockSize => f.at \in EntryOffsets(vol, f.blocks[f.i])
  /\ f.at <= BlockSize
  /\ Ordered => \A i \in 1 .. f.i - 1 : InVain(f.blocks[i], BlockSize, k)

\* It waits for the search of its subdirectory m.
Waiting(f, k, m) ==
  /\ f.i \in 1 .. Len(f.blocks)
  /\ \E o \in EntryOffsets(vol, f.blocks[f.i]) :
       LET e == EntryAt(vol, f.blocks[f.i], o) IN
       /\ f.at = o + e.length
       /\ IsVisibleDirectory(e)
       /\ e.inode = m
       /\ Ordered => InVain(f.blocks[f.i], o, k)

\* It goes on at its place.
GoingOn(f, k) ==
  Ordered /\ f.i > 0 => InVain(f.blocks[f.i], f.at, k)

\* The calls of stack s search the directories p.
Walk(s, p) ==
  /\ Len(s) <= MaxDepth
  /\ mode = "root" => Len(s) = 1
  /\ p[1] = Root
  /\ \A k \in 1 .. Len(s) : Searching(s[k], k, p[k])
  /\ \A k \in 1 .. Len(s) - 1 : Waiting(s[k], k, p[k + 1])
  /\ GoingOn(s[Len(s)], Len(s))

SearchInv ==
  Searchable =>
    /\ pc = "scan" => \E p : Walk(stack, p)
    /\ pc = "found" => /\ Has(Candidates, target, found)
                       /\ Ordered => First(Candidates, target, found)
    /\ pc = "missing" /\ Ordered => None(Candidates, target)
    /\ pc # "stray"

(***************************************************************************)
(* What the place of a search means for the files there are.               *)
(***************************************************************************)
LEMMA LevelsLeft ==
  ASSUME SearchTyped, NEW k \in Nat \ {0}, k <= MaxDepth,
         mode = "root" => k = 1
  PROVE  /\ Levels - k \in Nat /\ Under(k) \in Listed
         /\ \A n \in InodeNumber :
              FilesTo(vol, Levels - k + 1)[n]
                = FilesOfDirectory(vol, n, Under(k))
<1>1. Levels - k \in Nat
  BY DepthAssumption DEF Levels
<1>2. vol \in Volume
  BY TopTyped
<1> QED
  BY <1>1, <1>2, FilesToTyped, FilesToUnfolds DEF Under

\* The files below a subdirectory are those of the search that is in it.
LEMMA UnderSubdirectory ==
  ASSUME SearchTyped, NEW k \in Nat \ {0}, k + 1 <= MaxDepth, mode # "root",
         NEW n \in InodeNumber
  PROVE  Under(k)[n] = FilesOfDirectory(vol, n, Under(k + 1))
<1>1. FilesTo(vol, Levels - (k + 1) + 1)[n] = FilesOfDirectory(vol, n, Under(k + 1))
  BY LevelsLeft
<1>2. Levels - (k + 1) + 1 = Levels - k
  BY DepthAssumption DEF Levels
<1> QED
  BY <1>1, <1>2 DEF Under

LEMMA CandidatesAre ==
  ASSUME SearchTyped
  PROVE  /\ Candidates = FilesOfDirectory(vol, Root, Under(1))
         /\ Candidates \in Seq(DirectoryEntry)
<1>1. 1 <= MaxDepth /\ MaxDepth \in Nat
  BY DepthAssumption
<1>2. /\ Levels - 1 \in Nat /\ Under(1) \in Listed
      /\ FilesTo(vol, Levels - 1 + 1)[Root] = FilesOfDirectory(vol, Root, Under(1))
  BY <1>1, LevelsLeft, RootAssumption
<1>3. Candidates = FilesTo(vol, Levels - 1 + 1)[Root]
  <2>1. mode = "root" => Levels - 1 + 1 = 0 + 1
    BY DEF Levels
  <2>2. mode # "root" => Levels - 1 + 1 = MaxDepth + 1
    BY <1>1 DEF Levels
  <2> QED
    BY <2>1, <2>2 DEF Candidates, Listing
<1>4. FilesOfDirectory(vol, Root, Under(1)) \in Seq(DirectoryEntry)
  BY <1>2, TopTyped, RootAssumption, DirectoryAnswers
<1> QED
  BY <1>2, <1>3, <1>4

LEMMA InVainNext ==
  ASSUME vol \in Volume, NEW b \in Block, NEW o \in EntryOffsets(vol, b), NEW k,
         InVain(b, o, k), None(FilesAt(vol, b, o, Under(k)), target)
  PROVE  InVain(b, o + EntryAt(vol, b, o).length, k)
<1> SUFFICES ASSUME NEW q \in EntryOffsets(vol, b),
                    q < o + EntryAt(vol, b, o).length
             PROVE  None(FilesAt(vol, b, q, Under(k)), target)
  BY DEF InVain
<1>1. /\ o \in Nat /\ q \in Nat /\ EntryAt(vol, b, o).length \in Nat
  BY EntryAtTyped
<1>2. CASE q < o
  BY <1>2 DEF InVain
<1>3. CASE q = o
  BY <1>3
<1>4. CASE o < q
  <2>1. o + EntryAt(vol, b, o).length <= q
    BY <1>4, OffsetsApart
  <2> QED
    BY <1>1, <2>1
<1> QED
  BY <1>1, <1>2, <1>3, <1>4

\* A block that was looked at in vain has no file of that name below it, and a
\* directory none whose blocks were.
LEMMA BlockInVain ==
  ASSUME SearchTyped, NEW k, Under(k) \in Listed, NEW b \in Block,
         InVain(b, BlockSize, k)
  PROVE  None(FilesOfBlock(vol, b, Under(k)), target)
<1>1. \A q \in EntryOffsets(vol, b) : q < BlockSize
  BY EntryAtTyped, TopTyped
<1>2. \A q \in EntryOffsets(vol, b) :
        None(FilesAt(vol, b, q, Under(k)), target)
  BY <1>1 DEF InVain
<1> QED
  BY <1>2, TopTyped, BlockAnswers

LEMMA DirectoryInVain ==
  ASSUME SearchTyped, NEW k, Under(k) \in Listed, NEW n \in InodeNumber,
         \A i \in 1 .. Len(BlocksOf(vol, n)) :
           InVain(BlocksOf(vol, n)[i], BlockSize, k)
  PROVE  None(FilesOfDirectory(vol, n, Under(k)), target)
<1>1. vol \in Volume
  BY TopTyped
<1>2. \A i \in 1 .. Len(BlocksOf(vol, n)) :
        None(FilesOfBlock(vol, BlocksOf(vol, n)[i], Under(k)), target)
  BY <1>1, BlocksTyped, BlockInVain
<1> QED
  BY <1>1, <1>2, DirectoryAnswers

\* What an entry leads to is in its directory, and what it leads to first is
\* the directory's first where all before it is in vain.
LEMMA EntryAnswers ==
  ASSUME SearchTyped, NEW k, Under(k) \in Listed, NEW n \in InodeNumber,
         NEW i \in 1 .. Len(BlocksOf(vol, n)),
         NEW o \in EntryOffsets(vol, BlocksOf(vol, n)[i]), NEW x
  PROVE  LET b == BlocksOf(vol, n)[i]
             all == FilesOfDirectory(vol, n, Under(k))
         IN /\ Has(FilesAt(vol, b, o, Under(k)), target, x)
                 => Has(all, target, x)
            /\ /\ First(FilesAt(vol, b, o, Under(k)), target, x)
               /\ InVain(b, o, k)
               /\ \A j \in 1 .. i - 1 : InVain(BlocksOf(vol, n)[j], BlockSize, k)
               => First(all, target, x)
<1>1. vol \in Volume
  BY TopTyped
<1>2. PICK bs \in Seq(Block) :
        /\ bs = BlocksOf(vol, n) /\ Len(bs) \in Nat
        /\ \A j \in 1 .. Len(bs) : bs[j] \in Block
  BY <1>1, BlocksTyped
<1>3. PICK b \in Block : b = bs[i]
  BY <1>2
<1>4. ASSUME Has(FilesAt(vol, b, o, Under(k)), target, x)
      PROVE  Has(FilesOfDirectory(vol, n, Under(k)), target, x)
  <2>1. Has(FilesOfBlock(vol, b, Under(k)), target, x)
    BY <1>1, <1>2, <1>3, <1>4, BlockAnswers
  <2> QED
    BY <1>1, <1>2, <1>3, <2>1, DirectoryAnswers
<1>5. ASSUME First(FilesAt(vol, b, o, Under(k)), target, x), InVain(b, o, k),
             \A j \in 1 .. i - 1 : InVain(bs[j], BlockSize, k)
      PROVE  First(FilesOfDirectory(vol, n, Under(k)), target, x)
  <2>1. First(FilesOfBlock(vol, b, Under(k)), target, x)
    BY <1>1, <1>2, <1>3, <1>5, BlockAnswers DEF InVain
  <2>2. \A j \in 1 .. i - 1 : j \in 1 .. Len(bs)
    BY <1>2
  <2>3. \A j \in 1 .. i - 1 :
          None(FilesOfBlock(vol, bs[j], Under(k)), target)
    BY <1>2, <1>5, <2>2, BlockInVain
  <2> QED
    BY <1>1, <1>2, <1>3, <2>1, <2>3, DirectoryAnswers
<1> QED
  BY <1>2, <1>3, <1>4, <1>5

(***************************************************************************)
(* The steps.                                                              *)
(***************************************************************************)
LEMMA WalkKept ==
  ASSUME UNCHANGED arguments, NEW p, Walk(stack', p)
  PROVE  Walk(stack, p)'
<1>1. vol' = vol /\ target' = target /\ mode' = mode
  BY DEF arguments
<1> QED
  BY <1>1
  DEF Walk, Searching, Waiting, GoingOn, InVain, Under, Levels, Ordered

LEMMA WalkPlace ==
  ASSUME SearchTyped, Searchable, NEW p, Walk(stack, p)
  PROVE  \E L \in Nat \ {0}, n \in InodeNumber :
           /\ L = Len(stack) /\ n = p[L] /\ L <= MaxDepth /\ L - 1 \in 0 .. MaxDepth
           /\ mode = "root" => L = 1
           /\ n \in Level(vol, L - 1)
           /\ Searching(Top, L, n) /\ GoingOn(Top, L)
           /\ Top.blocks = BlocksOf(vol, n)
           /\ Under(L) \in Listed
           /\ \A i \in 1 .. Len(BlocksOf(vol, n)) :
                /\ WellFormedBlock(vol, BlocksOf(vol, n)[i])
                /\ BlocksOf(vol, n)[i] \in BlocksOfDirectories(vol, MaxDepth)
                /\ BlocksOf(vol, n)[i] \in Block
<1>1. PICK L \in Nat \ {0} : L = Len(stack) /\ stack[L] = Top
  BY TopTyped
<1>2. /\ L <= MaxDepth /\ (mode = "root" => L = 1)
      /\ Searching(Top, L, p[L]) /\ GoingOn(Top, L)
  <2>1. L \in 1 .. Len(stack)
    BY <1>1
  <2> QED
    BY <1>1, <2>1 DEF Walk
<1>3. PICK n \in InodeNumber : n = p[L]
  BY <1>2 DEF Searching
<1>4. n \in Level(vol, L - 1) /\ Top.blocks = BlocksOf(vol, n)
  BY <1>2, <1>3 DEF Searching
<1>5. L - 1 \in 0 .. MaxDepth /\ vol \in Volume
  BY <1>1, <1>2, DepthAssumption, TopTyped
<1>6. \A i \in 1 .. Len(BlocksOf(vol, n)) :
        /\ WellFormedBlock(vol, BlocksOf(vol, n)[i])
        /\ BlocksOf(vol, n)[i] \in BlocksOfDirectories(vol, MaxDepth)
  BY <1>3, <1>4, <1>5, LevelSearchable DEF Searchable
<1>7. \A i \in 1 .. Len(BlocksOf(vol, n)) : BlocksOf(vol, n)[i] \in Block
  BY <1>3, <1>5, BlocksTyped
<1>8. Under(L) \in Listed
  BY <1>1, <1>2, LevelsLeft
<1> QED
  BY <1>1, <1>2, <1>3, <1>4, <1>5, <1>6, <1>7, <1>8

LEMMA TopMoves ==
  ASSUME SearchTyped, NEW p, Walk(stack, p), NEW i \in Nat, NEW at \in Nat,
         NEW f, f = [blocks |-> Top.blocks, i |-> i, at |-> at],
         Searching(f, Len(stack), p[Len(stack)]), GoingOn(f, Len(stack))
  PROVE  Walk(SetTop(i, at), p)
<1>1. PICK L \in Nat \ {0} : L = Len(stack)
  BY TopTyped
<1>2. PICK s : /\ s = SetTop(i, at) /\ Len(s) = L /\ s[L] = f
               /\ \A k \in 1 .. L - 1 : s[k] = stack[k]
  BY <1>1, SetTopIs
<1>3. \A k \in 1 .. L : k = L \/ k \in 1 .. L - 1
  OBVIOUS
<1>4. /\ L <= MaxDepth /\ (mode = "root" => L = 1) /\ p[1] = Root
      /\ \A k \in 1 .. L : Searching(stack[k], k, p[k])
      /\ \A k \in 1 .. L - 1 : Waiting(stack[k], k, p[k + 1])
  BY <1>1 DEF Walk
<1>5. \A k \in 1 .. L : Searching(s[k], k, p[k])
  BY <1>1, <1>2, <1>3, <1>4
<1>6. \A k \in 1 .. L - 1 : Waiting(s[k], k, p[k + 1])
  BY <1>2, <1>4
<1>7. GoingOn(s[Len(s)], Len(s))
  BY <1>1, <1>2
<1>8. Walk(s, p)
  BY <1>2, <1>4, <1>5, <1>6, <1>7 DEF Walk
<1> QED
  BY <1>2, <1>8

LEMMA ReadNextBlockWalk ==
  ASSUME SearchTyped, Searchable, ReadNextBlock, NEW p, Walk(stack, p)
  PROVE  Walk(stack', p)
<1>1. PICK L \in Nat \ {0}, n \in InodeNumber :
        /\ L = Len(stack) /\ n = p[L]
        /\ Searching(Top, L, n) /\ GoingOn(Top, L)
        /\ Top.blocks = BlocksOf(vol, n)
  BY WalkPlace
<1>2. /\ stack' = SetTop(Top.i + 1, 0) /\ Top.at >= BlockSize
      /\ Top.i \in Nat /\ Top.at \in Nat /\ BlockSize \in Nat /\ BlockSize > 0
  BY TopTyped, BlockSizeAssumption DEF ReadNextBlock, BetweenBlocks
<1>3. PICK f : f = [blocks |-> Top.blocks, i |-> Top.i + 1, at |-> 0]
  OBVIOUS
<1>4. f.blocks = Top.blocks /\ f.i = Top.i + 1 /\ f.at = 0
  BY <1>3
<1>5. Top.at = BlockSize
  BY <1>1, <1>2 DEF Searching
<1>6. ASSUME Ordered, NEW i \in 1 .. Top.i
      PROVE  InVain(Top.blocks[i], BlockSize, L)
  <2>1. CASE i = Top.i
    BY <1>1, <1>5, <1>6, <2>1 DEF GoingOn
  <2>2. CASE i # Top.i
    <3>1. i \in 1 .. Top.i - 1
      BY <1>2, <2>2
    <3> QED
      BY <1>1, <1>6, <3>1 DEF Searching
  <2> QED
    BY <2>1, <2>2
<1>7. Searching(f, L, n)
  <2>1. 0 \in EntryOffsets(vol, f.blocks[f.i])
    BY OffsetsBegin
  <2>2. f.i - 1 = Top.i
    BY <1>2, <1>4
  <2> QED
    BY <1>1, <1>2, <1>4, <1>6, <2>1, <2>2 DEF Searching
<1>8. GoingOn(f, L)
  <2>1. \A b : \A q \in EntryOffsets(vol, b) : ~(q < 0)
    BY DEF EntryOffsets, Offset
  <2> QED
    BY <1>4, <2>1 DEF GoingOn, InVain
<1> QED
  BY <1>1, <1>2, <1>3, <1>7, <1>8, TopMoves

LEMMA EndBlockWalk ==
  ASSUME SearchTyped, Searchable, EndBlock, NEW p, Walk(stack, p)
  PROVE  Walk(stack', p)
<1>1. PICK L \in Nat \ {0}, n \in InodeNumber :
        /\ L = Len(stack) /\ n = p[L]
        /\ Searching(Top, L, n) /\ GoingOn(Top, L)
        /\ Top.blocks = BlocksOf(vol, n)
        /\ \A i \in 1 .. Len(BlocksOf(vol, n)) :
             /\ BlocksOf(vol, n)[i] \in BlocksOfDirectories(vol, MaxDepth)
             /\ BlocksOf(vol, n)[i] \in Block
  BY WalkPlace
<1>2. /\ stack' = SetTop(Top.i, BlockSize) /\ Top.at < BlockSize
      /\ Top.i \in Nat /\ Top.at \in Nat /\ BlockSize \in Nat /\ Reading
      /\ Entry.inode = Erased
  BY TopTyped, BlockSizeAssumption DEF EndBlock, Reading
<1>3. PICK b \in Block :
        /\ b = Top.blocks[Top.i] /\ b \in BlocksOfDirectories(vol, MaxDepth)
        /\ Top.i \in 1 .. Len(Top.blocks)
  BY <1>1, <1>2, EntryTyped
<1>4. /\ Top.at \in EntryOffsets(vol, b) /\ vol.block[b][Top.at].inode = Erased
  BY <1>1, <1>2, <1>3 DEF Searching, Entry
<1>5. PICK f : f = [blocks |-> Top.blocks, i |-> Top.i, at |-> BlockSize]
  OBVIOUS
<1>6. f.blocks = Top.blocks /\ f.i = Top.i /\ f.at = BlockSize
  BY <1>5
<1>7. ASSUME Ordered PROVE InVain(b, BlockSize, L)
  <2> SUFFICES ASSUME NEW q \in EntryOffsets(vol, b)
               PROVE  None(FilesAt(vol, b, q, Under(L)), target)
    BY DEF InVain
  <2>1. q \in Nat
    BY EntryAtTyped, TopTyped
  <2>2. CASE q < Top.at
    <3>1. InVain(b, Top.at, L)
      BY <1>1, <1>3, <1>7 DEF GoingOn
    <3> QED
      BY <2>2, <3>1 DEF InVain
  <2>3. CASE ~(q < Top.at)
    <3>1. vol.block[b][q].inode = Erased
      <4>1. q = Top.at \/ Top.at < q
        BY <1>2, <2>1, <2>3
      <4> QED
        BY <1>3, <1>4, <1>7, <4>1 DEF Ordered, ErasedLast
    <3>2. FilesAt(vol, b, q, Under(L)) = << >>
      BY <3>1 DEF FilesAt, FilesOfEntry, EntryAt, IsVisibleFile,
                  IsVisibleDirectory, IsVisible
    <3> QED
      BY <3>2 DEF None
  <2> QED
    BY <2>2, <2>3
<1>8. Searching(f, L, n)
  BY <1>1, <1>2, <1>6 DEF Searching
<1>9. GoingOn(f, L)
  BY <1>3, <1>6, <1>7 DEF GoingOn
<1> QED
  BY <1>1, <1>2, <1>5, <1>8, <1>9, TopMoves

\* The offset behind an entry, and what stands there.
LEMMA OffsetBehind ==
  ASSUME SearchTyped, Reading, NEW n \in InodeNumber, NEW k,
         Searching(Top, k, n), WellFormedBlock(vol, Top.blocks[Top.i])
  PROVE  LET b == Top.blocks[Top.i]
             at == Top.at + Entry.length
         IN /\ b \in Block /\ Top.at \in EntryOffsets(vol, b)
            /\ Entry = EntryAt(vol, b, Top.at)
            /\ Top.i \in 1 .. Len(Top.blocks)
            /\ at \in Nat /\ at <= BlockSize
            /\ at < BlockSize => at \in EntryOffsets(vol, b)
<1>1. PICK b \in Block : b = Top.blocks[Top.i] /\ Top.i \in 1 .. Len(Top.blocks)
  BY EntryTyped
<1>2. Top.at \in EntryOffsets(vol, b) /\ Entry = EntryAt(vol, b, Top.at)
  BY <1>1 DEF Searching, Reading, Entry, EntryAt
<1>3. Top.at \in Nat /\ Entry.length \in Nat /\ vol \in Volume
  BY TopTyped, EntryTyped
<1>4. Proper(vol, b, Top.at)
  BY <1>1, <1>2 DEF WellFormedBlock
<1>5. Top.at + Entry.length <= BlockSize
  BY <1>2, <1>4 DEF Proper, EntryAt
<1>6. Top.at + Entry.length < BlockSize
        => Top.at + Entry.length \in EntryOffsets(vol, b)
  BY <1>2, <1>3, <1>4, OffsetsGoOn
<1> QED
  BY <1>1, <1>2, <1>3, <1>5, <1>6

LEMMA PassOverWalk ==
  ASSUME SearchTyped, Searchable, PassOver, NEW p, Walk(stack, p)
  PROVE  Walk(stack', p)
<1>1. PICK L \in Nat \ {0}, n \in InodeNumber :
        /\ L = Len(stack) /\ n = p[L] /\ (mode = "root" => L = 1)
        /\ Searching(Top, L, n) /\ GoingOn(Top, L)
        /\ Top.blocks = BlocksOf(vol, n)
        /\ \A i \in 1 .. Len(BlocksOf(vol, n)) :
             WellFormedBlock(vol, BlocksOf(vol, n)[i])
  BY WalkPlace
<1>2. /\ stack' = SetTop(Top.i, Top.at + Entry.length)
      /\ Reading /\ Top.i \in Nat
      /\ Entry.inode # Erased /\ ~Matches(Entry) /\ ~GoesDown(Entry)
  BY TopTyped DEF PassOver, EntryUsed
<1>3. WellFormedBlock(vol, Top.blocks[Top.i])
  BY <1>1, <1>2, EntryTyped
<1>4. PICK b \in Block, o \in Nat :
        /\ o \in EntryOffsets(vol, b)
        /\ b = Top.blocks[Top.i] /\ o = Top.at /\ Top.i \in 1 .. Len(Top.blocks)
        /\ Entry = EntryAt(vol, b, o)
  BY <1>1, <1>2, <1>3, OffsetBehind, TopTyped
<1>5. PICK at \in Nat :
        /\ at = Top.at + Entry.length /\ at <= BlockSize
        /\ at < BlockSize => at \in EntryOffsets(vol, b)
  BY <1>1, <1>2, <1>3, <1>4, OffsetBehind
<1>6. None(FilesAt(vol, b, o, Under(L)), target)
  <2>1. FilesAt(vol, b, o, Under(L)) = FilesOfEntry(Entry, Under(L))
    BY <1>4 DEF FilesAt
  <2>2. CASE IsVisibleFile(Entry)
    <3>1. Entry.name # target
      BY <1>2, <2>2 DEF IsVisibleFile, IsVisible, Matches
    <3>2. FilesOfEntry(Entry, Under(L)) = <<Entry>>
      BY <2>2 DEF FilesOfEntry
    <3> QED
      BY <2>1, <3>1, <3>2 DEF None
  <2>3. CASE ~IsVisibleFile(Entry) /\ IsVisibleDirectory(Entry)
    <3>1. mode # "volume" /\ Entry.inode \in InodeNumber
      BY <1>2, <2>3, EntryTyped DEF IsVisibleDirectory, IsVisible, GoesDown
    <3>2. mode = "root"
      BY <3>1 DEF SearchTyped, TypeOK, Mode
    <3>3. Under(L) = FilesTo(vol, 0)
      BY <1>1, <3>2 DEF Under, Levels
    <3>4. Under(L)[Entry.inode] = << >>
      BY <3>1, <3>3, FilesToStep
    <3> QED
      BY <2>1, <2>3, <3>4 DEF FilesOfEntry, None
  <2>4. CASE ~IsVisibleFile(Entry) /\ ~IsVisibleDirectory(Entry)
    BY <2>1, <2>4 DEF FilesOfEntry, None
  <2> QED
    BY <2>2, <2>3, <2>4
<1>7. PICK f : f = [blocks |-> Top.blocks, i |-> Top.i, at |-> at]
  OBVIOUS
<1>8. f.blocks = Top.blocks /\ f.i = Top.i /\ f.at = at
  BY <1>7
<1>9. Searching(f, L, n)
  BY <1>1, <1>4, <1>5, <1>8 DEF Searching
<1>10. GoingOn(f, L)
  <2> SUFFICES ASSUME Ordered PROVE InVain(b, at, L)
    BY <1>4, <1>8 DEF GoingOn
  <2>1. InVain(b, o, L)
    BY <1>1, <1>4 DEF GoingOn
  <2>2. InVain(b, o + EntryAt(vol, b, o).length, L)
    BY <1>4, <1>6, <2>1, TopTyped, InVainNext
  <2> QED
    BY <1>4, <1>5, <2>2
<1> QED
  BY <1>1, <1>2, <1>5, <1>7, <1>9, <1>10, TopMoves

\* The subdirectory that an entry leads to is a level further down.
LEMMA SubdirectoryBelow ==
  ASSUME SearchTyped, Searchable, EntryUsed, GoesDown(Entry),
         NEW p, Walk(stack, p)
  PROVE  /\ Entry.inode \in InodeNumber
         /\ Entry.inode \in Level(vol, Len(stack))
         /\ Len(stack) < MaxDepth
<1>1. PICK L \in Nat \ {0}, n \in InodeNumber :
        /\ L = Len(stack) /\ n = p[L] /\ L <= MaxDepth
        /\ n \in Level(vol, L - 1)
        /\ Searching(Top, L, n) /\ Top.blocks = BlocksOf(vol, n)
        /\ \A i \in 1 .. Len(BlocksOf(vol, n)) :
             WellFormedBlock(vol, BlocksOf(vol, n)[i])
  BY WalkPlace
<1>2. Reading /\ Top.i \in Nat /\ IsVisibleDirectory(Entry)
  BY TopTyped DEF EntryUsed, GoesDown, IsVisibleDirectory, IsVisible
<1>3. WellFormedBlock(vol, Top.blocks[Top.i])
  BY <1>1, <1>2, EntryTyped
<1>4. PICK i, o : /\ i = Top.i /\ i \in 1 .. Len(BlocksOf(vol, n))
                  /\ o = Top.at /\ o \in EntryOffsets(vol, BlocksOf(vol, n)[i])
                  /\ Entry = EntryAt(vol, BlocksOf(vol, n)[i], o)
  BY <1>1, <1>2, <1>3, OffsetBehind
<1>5. /\ Entry.inode \in Subdirectories(vol, n)
      /\ Entry.inode \in InodeNumber
  <2>1. IsVisibleDirectory(EntryAt(vol, BlocksOf(vol, n)[i], o))
    BY <1>2, <1>4
  <2>2. vol \in Volume
    BY TopTyped
  <2>3. LET e == EntryAt(vol, BlocksOf(vol, n)[i], o)
        IN e.inode \in Subdirectories(vol, n) /\ e.inode \in InodeNumber
    BY <1>4, <2>1, <2>2, SubdirectoryIs
  <2> QED
    BY <1>4, <2>3
<1>6. PICK d \in Nat : d = L - 1 /\ d + 1 = L
  OBVIOUS
<1>7. Entry.inode \in Level(vol, L)
  BY <1>1, <1>5, <1>6, LevelBelow
<1>8. L < MaxDepth
  <2>1. L \in 0 .. MaxDepth
    BY <1>1, DepthAssumption
  <2> QED
    BY <1>5, <1>7, <2>1, TopTyped, LevelSearchable DEF Searchable
<1> QED
  BY <1>1, <1>5, <1>7, <1>8

LEMMA DescendWalk ==
  ASSUME SearchTyped, Searchable, Descend, NEW p, Walk(stack, p)
  PROVE  \E d : Walk(stack', d)
<1>1. PICK L \in Nat \ {0}, n \in InodeNumber :
        /\ L = Len(stack) /\ n = p[L] /\ L - 1 \in 0 .. MaxDepth
        /\ n \in Level(vol, L - 1)
        /\ Searching(Top, L, n) /\ GoingOn(Top, L)
        /\ Top.blocks = BlocksOf(vol, n)
        /\ \A i \in 1 .. Len(BlocksOf(vol, n)) :
             WellFormedBlock(vol, BlocksOf(vol, n)[i])
  BY WalkPlace
<1>2. /\ stack' = Append(SetTop(Top.i, Top.at + Entry.length), Call(Entry.inode))
      /\ Reading /\ Top.i \in Nat /\ mode = "volume" /\ L < MaxDepth
      /\ IsVisibleDirectory(Entry)
  BY <1>1, TopTyped
  DEF Descend, EntryUsed, GoesDown, IsVisibleDirectory, IsVisible
<1>3. WellFormedBlock(vol, Top.blocks[Top.i])
  BY <1>1, <1>2, EntryTyped
<1>4. PICK b \in Block, o \in Nat :
        /\ o \in EntryOffsets(vol, b) /\ b = Top.blocks[Top.i] /\ o = Top.at
        /\ Top.i \in 1 .. Len(Top.blocks) /\ Entry = EntryAt(vol, b, o)
  BY <1>1, <1>2, <1>3, OffsetBehind, TopTyped
<1>5. PICK at \in Nat :
        /\ at = Top.at + Entry.length /\ at <= BlockSize
        /\ at < BlockSize => at \in EntryOffsets(vol, b)
  BY <1>1, <1>2, <1>3, <1>4, OffsetBehind
<1>6. PICK m \in InodeNumber : m = Entry.inode /\ m \in Level(vol, L)
  BY <1>1, SubdirectoryBelow DEF Descend
<1>7. PICK f : f = [blocks |-> Top.blocks, i |-> Top.i, at |-> at]
  OBVIOUS
<1>8. f.blocks = Top.blocks /\ f.i = Top.i /\ f.at = at
  BY <1>7
<1>9. PICK g \in Frame : g = Call(m) /\ g.i = 0 /\ g.at = BlockSize
                         /\ g.blocks = getInodeInfo(m)
  BY <1>6, TopTyped, CallTyped
<1>10. /\ stack' \in Seq(Frame) /\ Len(stack') = L + 1
       /\ stack'[L] = f /\ stack'[L + 1] = g
       /\ \A k \in 1 .. L - 1 : stack'[k] = stack[k]
  <2>1. PICK s \in Seq(Frame) :
          /\ s = SetTop(Top.i, at) /\ Len(s) = L /\ s[L] = f
          /\ \A k \in 1 .. L - 1 : s[k] = stack[k]
    BY <1>1, <1>2, <1>7, SetTopIs
  <2>2. stack' = Append(s, g)
    BY <1>2, <1>5, <1>6, <1>9, <2>1
  <2>3. /\ stack' \in Seq(Frame) /\ Len(stack') = L + 1 /\ stack'[L + 1] = g
        /\ \A k \in 1 .. L : stack'[k] = s[k]
    BY <2>1, <2>2, AppendProperties
  <2>4. L \in 1 .. L /\ \A k \in 1 .. L - 1 : k \in 1 .. L
    OBVIOUS
  <2> QED
    BY <2>1, <2>3, <2>4
<1>11. PICK d : d = [k \in 1 .. L + 1 |-> IF k = L + 1 THEN m ELSE p[k]]
  OBVIOUS
<1>12. d[L + 1] = m /\ \A k \in 1 .. L : d[k] = p[k]
  <2>1. L + 1 \in 1 .. L + 1
        /\ \A k \in 1 .. L : k \in 1 .. L + 1 /\ k # L + 1
    OBVIOUS
  <2> QED
    BY <1>11, <2>1
<1>13. /\ p[1] = Root
       /\ \A k \in 1 .. L : Searching(stack[k], k, p[k])
       /\ \A k \in 1 .. L - 1 : Waiting(stack[k], k, p[k + 1])
  BY <1>1 DEF Walk
<1>14. Searching(f, L, n)
  BY <1>1, <1>4, <1>5, <1>8 DEF Searching
<1>15. Waiting(f, L, m)
  <2>1. Ordered => InVain(b, o, L)
    BY <1>1, <1>4 DEF GoingOn
  <2>2. at = o + EntryAt(vol, b, o).length
    BY <1>4, <1>5
  <2> QED
    BY <1>2, <1>4, <1>6, <1>8, <2>1, <2>2 DEF Waiting
<1>16. Searching(g, L + 1, m)
  <2>1. L \in 0 .. MaxDepth /\ L + 1 - 1 = L
    BY <1>1, <1>2, DepthAssumption
  <2>2. g.blocks = BlocksOf(vol, m)
    BY <1>6, <1>9, <2>1, TopTyped, LevelSearchable
    DEF Searchable, getInodeInfo
  <2>3. \A i \in 1 .. g.i - 1 : FALSE
    BY <1>9
  <2> QED
    BY <1>6, <1>9, <2>1, <2>2, <2>3, BlockSizeAssumption DEF Searching
<1>17. \A k \in 1 .. L + 1 : Searching(stack'[k], k, d[k])
  <2> TAKE k \in 1 .. L + 1
  <2>1. k = L + 1 \/ k = L \/ k \in 1 .. L - 1
    OBVIOUS
  <2>2. CASE k = L + 1
    BY <1>10, <1>12, <1>16, <2>2
  <2>3. CASE k = L
    <3>1. L \in 1 .. L
      OBVIOUS
    <3> QED
      BY <1>1, <1>10, <1>12, <1>14, <2>3, <3>1
  <2>4. CASE k \in 1 .. L - 1
    <3>1. k \in 1 .. L
      BY <2>4
    <3> QED
      BY <1>10, <1>12, <1>13, <2>4, <3>1
  <2> QED
    BY <2>1, <2>2, <2>3, <2>4
<1>18. \A k \in 1 .. (L + 1) - 1 : Waiting(stack'[k], k, d[k + 1])
  <2> TAKE k \in 1 .. (L + 1) - 1
  <2>1. k = L \/ k \in 1 .. L - 1
    OBVIOUS
  <2>2. CASE k = L
    BY <1>10, <1>12, <1>15, <2>2
  <2>3. CASE k \in 1 .. L - 1
    <3>1. k + 1 \in 1 .. L
      BY <2>3
    <3> QED
      BY <1>10, <1>12, <1>13, <2>3, <3>1
  <2> QED
    BY <2>1, <2>2, <2>3
<1>19. GoingOn(g, L + 1)
  BY <1>9 DEF GoingOn
<1>20. d[1] = Root
  <2>1. 1 \in 1 .. L
    OBVIOUS
  <2> QED
    BY <1>12, <1>13, <2>1
<1>21. L + 1 <= MaxDepth
  BY <1>2, DepthAssumption
<1>22. Walk(stack', d)
  BY <1>2, <1>10, <1>17, <1>18, <1>19, <1>20, <1>21 DEF Walk
<1> QED
  BY <1>22

\* Where all blocks of the innermost call's directory have been read, there is
\* no file of the name in or below it.
LEMMA TopInVain ==
  ASSUME SearchTyped, Searchable, BetweenBlocks, ~BlockLeft, Ordered,
         NEW p, Walk(stack, p)
  PROVE  None(FilesOfDirectory(vol, p[Len(stack)], Under(Len(stack))), target)
<1>1. PICK L \in Nat \ {0}, n \in InodeNumber :
        /\ L = Len(stack) /\ n = p[L] /\ Under(L) \in Listed
        /\ Searching(Top, L, n) /\ GoingOn(Top, L)
        /\ Top.blocks = BlocksOf(vol, n)
  BY WalkPlace
<1>2. /\ Top.at \in Nat /\ BlockSize \in Nat /\ Top.at >= BlockSize
      /\ Top.i \in Nat /\ Top.i <= Len(Top.blocks) /\ ~(Top.i < Len(Top.blocks))
      /\ Len(Top.blocks) \in Nat
  BY TopTyped, BlockSizeAssumption DEF BetweenBlocks, BlockLeft
<1>3. Top.at = BlockSize /\ Top.i = Len(BlocksOf(vol, n))
  BY <1>1, <1>2 DEF Searching
<1>4. ASSUME NEW i \in 1 .. Len(BlocksOf(vol, n))
      PROVE  InVain(BlocksOf(vol, n)[i], BlockSize, L)
  <2>1. CASE i = Top.i
    BY <1>1, <1>3, <2>1 DEF GoingOn
  <2>2. CASE i # Top.i
    <3>1. i \in 1 .. Top.i - 1
      BY <1>2, <1>3, <2>2
    <3> QED
      BY <1>1, <3>1 DEF Searching
  <2> QED
    BY <2>1, <2>2
<1> QED
  BY <1>1, <1>4, DirectoryInVain

LEMMA LeaveDirectoryWalk ==
  ASSUME SearchTyped, Searchable, LeaveDirectory, NEW p, Walk(stack, p)
  PROVE  Walk(stack', p)
<1>1. PICK L \in Nat \ {0}, n \in InodeNumber :
        /\ L = Len(stack) /\ n = p[L] /\ L <= MaxDepth
        /\ mode = "root" => L = 1
  BY WalkPlace
<1>2. L > 1 /\ BetweenBlocks /\ ~BlockLeft /\ mode # "root"
      /\ stack' = SubSeq(stack, 1, L - 1)
  BY <1>1 DEF LeaveDirectory
<1>3. PICK K \in Nat \ {0} : K = L - 1 /\ K + 1 = L /\ K + 1 <= MaxDepth
  BY <1>1, <1>2
<1>4. /\ Len(stack') = K /\ \A k \in 1 .. K : stack'[k] = stack[k]
  BY <1>1, <1>2, <1>3, TopTyped
<1>5. PICK f : f = stack[K]
  OBVIOUS
<1>6. /\ p[1] = Root
      /\ \A k \in 1 .. K + 1 : Searching(stack[k], k, p[k])
      /\ \A k \in 1 .. K : Waiting(stack[k], k, p[k + 1])
  BY <1>1, <1>3 DEF Walk
<1>7. GoingOn(f, K)
  <2> SUFFICES ASSUME Ordered PROVE InVain(f.blocks[f.i], f.at, K)
    BY DEF GoingOn
  <2>1. /\ Waiting(f, K, n) /\ Searching(f, K, p[K])
    <3>1. K \in 1 .. K /\ K \in 1 .. K + 1
      OBVIOUS
    <3> QED
      BY <1>1, <1>3, <1>5, <1>6, <3>1
  <2>2. vol \in Volume /\ f.blocks[f.i] \in Block
    <3>1. f.i \in 1 .. Len(f.blocks) /\ p[K] \in InodeNumber
          /\ f.blocks = BlocksOf(vol, p[K])
      BY <2>1 DEF Waiting, Searching
    <3> QED
      BY <3>1, TopTyped, BlocksTyped
  <2>3. PICK b \in Block, o \in Nat :
          /\ b = f.blocks[f.i] /\ o \in EntryOffsets(vol, b)
          /\ f.at = o + EntryAt(vol, b, o).length
          /\ IsVisibleDirectory(EntryAt(vol, b, o))
          /\ EntryAt(vol, b, o).inode = n
          /\ InVain(b, o, K)
    BY <2>1, <2>2, EntryAtTyped DEF Waiting
  <2>4. FilesAt(vol, b, o, Under(K)) = Under(K)[n]
    BY <2>3 DEF FilesAt, FilesOfEntry, IsVisibleFile, IsVisibleDirectory
  <2>5. Under(K)[n] = FilesOfDirectory(vol, n, Under(L))
    BY <1>2, <1>3, UnderSubdirectory
  <2>6. None(FilesOfDirectory(vol, n, Under(L)), target)
    BY <1>1, <1>2, TopInVain
  <2>7. InVain(b, o + EntryAt(vol, b, o).length, K)
    BY <2>2, <2>3, <2>4, <2>5, <2>6, InVainNext
  <2> QED
    BY <2>3, <2>7
<1>8. \A k \in 1 .. K : k \in 1 .. K + 1
  OBVIOUS
<1>9. \A k \in 1 .. K : Searching(stack'[k], k, p[k])
  BY <1>4, <1>6, <1>8
<1>10. \A k \in 1 .. K - 1 : Waiting(stack'[k], k, p[k + 1])
  <2>1. \A k \in 1 .. K - 1 : k \in 1 .. K
    OBVIOUS
  <2> QED
    BY <1>4, <1>6, <2>1
<1>11. GoingOn(stack'[K], K)
  <2>1. K \in 1 .. K
    OBVIOUS
  <2> QED
    BY <1>4, <1>5, <1>7, <2>1
<1>12. K <= MaxDepth
  BY <1>3, DepthAssumption
<1> QED
  BY <1>2, <1>4, <1>6, <1>9, <1>10, <1>11, <1>12 DEF Walk
(***************************************************************************)
(* A file that is found.                                                   *)
(***************************************************************************)
All(k, n) == FilesOfDirectory(vol, n, Under(k))

\* What the search of a subdirectory finds is what that of its directory does.
LEMMA SubdirectoryAnswers ==
  ASSUME SearchTyped, NEW k \in Nat \ {0}, k + 1 <= MaxDepth, mode # "root",
         NEW n \in InodeNumber, NEW m \in InodeNumber, NEW f, NEW x,
         Searching(f, k, n), Waiting(f, k, m)
  PROVE  /\ Has(All(k + 1, m), target, x) => Has(All(k, n), target, x)
         /\ Ordered /\ First(All(k + 1, m), target, x)
              => First(All(k, n), target, x)
<1>1. PICK i : /\ i = f.i /\ i \in 1 .. Len(BlocksOf(vol, n))
               /\ f.blocks = BlocksOf(vol, n)
               /\ Ordered => \A j \in 1 .. i - 1 :
                               InVain(BlocksOf(vol, n)[j], BlockSize, k)
  BY DEF Searching, Waiting
<1>2. PICK o \in EntryOffsets(vol, BlocksOf(vol, n)[i]) :
        /\ IsVisibleDirectory(EntryAt(vol, BlocksOf(vol, n)[i], o))
        /\ EntryAt(vol, BlocksOf(vol, n)[i], o).inode = m
        /\ Ordered => InVain(BlocksOf(vol, n)[i], o, k)
  BY <1>1 DEF Waiting
<1>3. FilesAt(vol, BlocksOf(vol, n)[i], o, Under(k)) = Under(k)[m]
  BY <1>2 DEF FilesAt, FilesOfEntry, IsVisibleFile, IsVisibleDirectory
<1>4. Under(k)[m] = All(k + 1, m)
  BY UnderSubdirectory DEF All
<1>5. Under(k) \in Listed
  <2>1. k <= MaxDepth
    BY DepthAssumption
  <2> QED
    BY <2>1, LevelsLeft
<1>6. /\ Has(FilesAt(vol, BlocksOf(vol, n)[i], o, Under(k)), target, x)
           => Has(All(k, n), target, x)
      /\ /\ First(FilesAt(vol, BlocksOf(vol, n)[i], o, Under(k)), target, x)
         /\ InVain(BlocksOf(vol, n)[i], o, k)
         /\ \A j \in 1 .. i - 1 : InVain(BlocksOf(vol, n)[j], BlockSize, k)
         => First(All(k, n), target, x)
  BY <1>1, <1>5, EntryAnswers DEF All
<1> QED
  BY <1>1, <1>2, <1>3, <1>4, <1>6

\* An entry that matches is its directory's first file of the name.
LEMMA EntryMatches ==
  ASSUME SearchTyped, Searchable, Match, NEW p, Walk(stack, p)
  PROVE  LET all == All(Len(stack), p[Len(stack)]) IN
         /\ Has(all, target, Entry.inode)
         /\ Ordered => First(all, target, Entry.inode)
<1>1. PICK L \in Nat \ {0}, n \in InodeNumber :
        /\ L = Len(stack) /\ n = p[L] /\ Under(L) \in Listed
        /\ Searching(Top, L, n) /\ GoingOn(Top, L)
        /\ Top.blocks = BlocksOf(vol, n)
        /\ \A i \in 1 .. Len(BlocksOf(vol, n)) :
             WellFormedBlock(vol, BlocksOf(vol, n)[i])
  BY WalkPlace
<1>2. Reading /\ Entry.inode # Erased /\ Matches(Entry) /\ Top.i \in Nat
  BY TopTyped DEF Match, EntryUsed
<1>3. WellFormedBlock(vol, Top.blocks[Top.i])
  BY <1>1, <1>2, EntryTyped
<1>4. PICK i, o : /\ i = Top.i /\ i \in 1 .. Len(BlocksOf(vol, n)) /\ i > 0
                  /\ o = Top.at /\ o \in EntryOffsets(vol, BlocksOf(vol, n)[i])
                  /\ Entry = EntryAt(vol, BlocksOf(vol, n)[i], o)
  BY <1>1, <1>2, <1>3, OffsetBehind
<1>5. PICK x : x = Entry.inode
  OBVIOUS
<1>6. FilesAt(vol, BlocksOf(vol, n)[i], o, Under(L)) = <<Entry>>
  BY <1>2, <1>4
  DEF Matches, FilesAt, FilesOfEntry, IsVisibleFile, IsVisible
<1>7. /\ Len(<<Entry>>) = 1 /\ <<Entry>>[1] = Entry /\ Entry.name = target
      /\ 1 \in 1 .. 1 /\ \A j \in 1 .. 1 - 1 : FALSE
  BY <1>2 DEF Matches
<1>8. Has(<<Entry>>, target, x) /\ First(<<Entry>>, target, x)
  BY <1>5, <1>7 DEF Has, First
<1>9. /\ Has(FilesAt(vol, BlocksOf(vol, n)[i], o, Under(L)), target, x)
           => Has(All(L, n), target, x)
      /\ /\ First(FilesAt(vol, BlocksOf(vol, n)[i], o, Under(L)), target, x)
         /\ InVain(BlocksOf(vol, n)[i], o, L)
         /\ \A j \in 1 .. i - 1 : InVain(BlocksOf(vol, n)[j], BlockSize, L)
         => First(All(L, n), target, x)
  BY <1>1, <1>4, EntryAnswers DEF All
<1>10. ASSUME Ordered
       PROVE  /\ InVain(BlocksOf(vol, n)[i], o, L)
              /\ \A j \in 1 .. i - 1 : InVain(BlocksOf(vol, n)[j], BlockSize, L)
  BY <1>1, <1>4, <1>10 DEF GoingOn, Searching
<1> QED
  BY <1>1, <1>5, <1>6, <1>8, <1>9, <1>10

\* It is then that of the directory of each call, down to the first.
LEMMA CallsAnswer ==
  ASSUME SearchTyped, NEW p, Walk(stack, p), NEW x,
         Has(All(Len(stack), p[Len(stack)]), target, x),
         Ordered => First(All(Len(stack), p[Len(stack)]), target, x)
  PROVE  /\ Has(Candidates, target, x)
         /\ Ordered => First(Candidates, target, x)
<1>1. PICK L \in Nat \ {0} : L = Len(stack)
  BY TopTyped
<1>2. /\ L <= MaxDepth /\ (mode = "root" => L = 1) /\ p[1] = Root
      /\ \A k \in 1 .. L : Searching(stack[k], k, p[k])
      /\ \A k \in 1 .. L - 1 : Waiting(stack[k], k, p[k + 1])
  BY <1>1 DEF Walk
<1> DEFINE Answers(k) == /\ Has(All(k, p[k]), target, x)
                         /\ Ordered => First(All(k, p[k]), target, x)
           T == {j \in Nat : j < L => Answers(L - j)}
<1>3. Answers(L)
  BY <1>1
<1>4. ASSUME NEW k \in 1 .. L - 1, Answers(k + 1)
      PROVE  Answers(k)
  <2>1. /\ k \in Nat \ {0} /\ k + 1 <= MaxDepth /\ mode # "root"
        /\ k \in 1 .. L /\ k + 1 \in 1 .. L
    BY <1>2, DepthAssumption
  <2>2. Searching(stack[k], k, p[k]) /\ Waiting(stack[k], k, p[k + 1])
    BY <1>2, <2>1
  <2>3. p[k] \in InodeNumber /\ p[k + 1] \in InodeNumber
    BY <1>2, <2>1 DEF Searching
  <2> QED
    BY <1>4, <2>1, <2>2, <2>3, SubdirectoryAnswers
<1> HIDE DEF Answers
<1>5. 0 \in T
  <2>1. L - 0 = L
    OBVIOUS
  <2> QED
    BY <1>3, <2>1
<1>6. ASSUME NEW j \in Nat, j \in T
      PROVE  j + 1 \in T
  <2> SUFFICES ASSUME j + 1 < L PROVE Answers(L - (j + 1))
    OBVIOUS
  <2>1. /\ L - (j + 1) \in 1 .. L - 1 /\ L - (j + 1) + 1 = L - j /\ j < L
    OBVIOUS
  <2>2. Answers(L - j)
    BY <1>6, <2>1
  <2> QED
    BY <1>4, <2>1, <2>2
<1> HIDE DEF T
<1>7. Nat \subseteq T
  BY <1>5, <1>6, Induction
<1>8. Answers(1)
  <2>1. L - 1 \in Nat /\ L - 1 < L /\ L - (L - 1) = 1
    OBVIOUS
  <2>2. L - 1 \in T
    BY <1>7, <2>1
  <2> QED
    BY <2>1, <2>2 DEF T
<1>9. Candidates = All(1, p[1])
  BY <1>2, CandidatesAre DEF All
<1> QED
  BY <1>8, <1>9 DEF Answers
(***************************************************************************)
(* The invariant is one.                                                   *)
(***************************************************************************)
LEMMA ArgumentsStay ==
  ASSUME UNCHANGED arguments
  PROVE  /\ Searchable' = Searchable /\ Candidates' = Candidates
         /\ Ordered' = Ordered /\ target' = target
<1>1. vol' = vol /\ target' = target /\ mode' = mode
  BY DEF arguments
<1> QED
  BY <1>1 DEF Searchable, Candidates, Ordered

LEMMA InitSearches ==
  ASSUME SearchTyped, Init
  PROVE  SearchInv
<1> SUFFICES ASSUME Searchable PROVE \E p : Walk(stack, p)
  BY DEF SearchInv, Init
<1>1. PICK g \in Frame : g = Call(Root) /\ g.i = 0 /\ g.at = BlockSize
                         /\ g.blocks = getInodeInfo(Root)
  BY RootAssumption, TopTyped, CallTyped
<1>2. stack = <<g>> /\ Len(stack) = 1 /\ stack[1] = g
  BY <1>1 DEF Init
<1>3. PICK p : p = [k \in {1} |-> Root]
  OBVIOUS
<1>4. p[1] = Root
  BY <1>3
<1>5. Searching(g, 1, Root)
  <2>1. 0 \in 0 .. MaxDepth /\ 1 - 1 = 0
    BY DepthAssumption
  <2>2. Root \in Level(vol, 0)
    BY LevelStep
  <2>3. g.blocks = BlocksOf(vol, Root)
    BY <1>1, <2>1, <2>2, RootAssumption, TopTyped, LevelSearchable
    DEF Searchable, getInodeInfo
  <2>4. \A i \in 1 .. g.i - 1 : FALSE
    BY <1>1
  <2> QED
    BY <1>1, <2>1, <2>2, <2>3, <2>4, RootAssumption, BlockSizeAssumption
    DEF Searching
<1>6. GoingOn(g, 1)
  BY <1>1 DEF GoingOn
<1>7. /\ \A k \in 1 .. 1 : Searching(stack[k], k, p[k])
      /\ \A k \in 1 .. 1 - 1 : Waiting(stack[k], k, p[k + 1])
  BY <1>2, <1>4, <1>5
<1>8. 1 <= MaxDepth
  BY DepthAssumption
<1> QED
  BY <1>2, <1>4, <1>6, <1>7, <1>8 DEF Walk

LEMMA NextSearches ==
  ASSUME SearchTyped, SearchInv, [Next]_vars
  PROVE  SearchInv'
<1> SUFFICES ASSUME Searchable' PROVE SearchInv'
  BY DEF SearchInv
<1>1. UNCHANGED arguments
  BY DEF Next, vars, arguments, ReadNextBlock, LeaveDirectory, ReportMissing,
         EndBlock, Match, PassOver, Descend, NoRoom
<1>2. /\ Searchable /\ Candidates' = Candidates /\ Ordered' = Ordered
      /\ target' = target
  BY <1>1, ArgumentsStay
<1>3. ASSUME NEW d, Walk(stack', d), pc' = "scan"
      PROVE  SearchInv'
  BY <1>1, <1>3, WalkKept DEF SearchInv
<1>4. CASE UNCHANGED vars
  <2>1. stack' = stack /\ pc' = pc /\ found' = found
    BY <1>4 DEF vars
  <2>2. CASE pc = "scan"
    BY <1>2, <1>3, <2>1, <2>2 DEF SearchInv
  <2>3. CASE pc # "scan"
    BY <1>2, <2>1, <2>3 DEF SearchInv, Has, First, None
  <2> QED
    BY <2>2, <2>3
<1>5. CASE Next
  <2>1. pc = "scan"
    BY <1>5
    DEF Next, ReadNextBlock, LeaveDirectory, ReportMissing, EndBlock, Match,
        PassOver, Descend, NoRoom, BetweenBlocks, EntryUsed, Reading
  <2>2. PICK p : Walk(stack, p)
    BY <1>2, <2>1 DEF SearchInv
  <2>3. CASE ReadNextBlock
    BY <1>2, <1>3, <2>1, <2>2, <2>3, ReadNextBlockWalk DEF ReadNextBlock
  <2>4. CASE LeaveDirectory
    BY <1>2, <1>3, <2>1, <2>2, <2>4, LeaveDirectoryWalk DEF LeaveDirectory
  <2>5. CASE ReportMissing
    <3>1. pc' = "missing" /\ BetweenBlocks /\ ~BlockLeft /\ Len(stack) = 1
      BY <2>5 DEF ReportMissing
    <3>2. p[1] = Root
      BY <2>2 DEF Walk
    <3>3. Ordered => None(FilesOfDirectory(vol, Root, Under(1)), target)
      BY <1>2, <2>2, <3>1, <3>2, TopInVain
    <3> QED
      BY <1>2, <3>1, <3>3, CandidatesAre DEF SearchInv, None
  <2>6. CASE EndBlock
    BY <1>2, <1>3, <2>1, <2>2, <2>6, EndBlockWalk DEF EndBlock
  <2>7. CASE Match
    <3>1. pc' = "found" /\ found' = Entry.inode
      BY <2>7 DEF Match
    <3>2. /\ Has(Candidates, target, Entry.inode)
          /\ Ordered => First(Candidates, target, Entry.inode)
      BY <1>2, <2>2, <2>7, EntryMatches, CallsAnswer
    <3> QED
      BY <1>2, <3>1, <3>2 DEF SearchInv, Has, First
  <2>8. CASE PassOver
    BY <1>2, <1>3, <2>1, <2>2, <2>8, PassOverWalk DEF PassOver
  <2>9. CASE Descend
    <3>1. PICK d : Walk(stack', d)
      BY <1>2, <2>2, <2>9, DescendWalk
    <3> QED
      BY <1>3, <2>1, <2>9, <3>1 DEF Descend
  <2>10. CASE NoRoom
    <3>1. EntryUsed /\ GoesDown(Entry) /\ Len(stack) = MaxDepth
      BY <2>10 DEF NoRoom
    <3>2. Len(stack) < MaxDepth
      BY <1>2, <2>2, <3>1, SubdirectoryBelow
    <3> QED
      BY <3>1, <3>2, DepthAssumption
  <2> QED
    BY <1>5, <2>3, <2>4, <2>5, <2>6, <2>7, <2>8, <2>9, <2>10 DEF Next
<1> QED
  BY <1>4, <1>5

THEOREM SearchHolds == Spec => [](SearchTyped /\ SearchInv)
<1>1. Init => SearchTyped /\ SearchInv
  BY InitTyped, InitSearches
<1>2. SearchTyped /\ SearchInv /\ [Next]_vars => (SearchTyped /\ SearchInv)'
  BY NextTyped, NextSearches
<1> QED
  BY <1>1, <1>2, PTL DEF Spec

\* The answers in the words of AnswerIsFirst.
LEMMA AnswersRead ==
  ASSUME NEW s \in Seq(DirectoryEntry), NEW t, NEW x
  PROVE  LET place == 1 .. Len(s)
             Asked == { i \in place : s[i].name = t }
         IN /\ Has(s, t, x) => \E i \in Asked : s[i].inode = x
            /\ Has(s, t, x) => Asked # {}
            /\ First(s, t, x) =>
                 \E i \in Asked : s[i].inode = x /\ \A j \in Asked : i <= j
            /\ None(s, t) => Asked = {}
<1>1. Len(s) \in Nat
  OBVIOUS
<1>2. First(s, t, x) =>
        \E i \in { k \in 1 .. Len(s) : s[k].name = t } :
          s[i].inode = x /\ \A j \in { k \in 1 .. Len(s) : s[k].name = t } : i <= j
  <2> SUFFICES ASSUME First(s, t, x)
               PROVE  \E i \in 1 .. Len(s) :
                        /\ s[i].name = t /\ s[i].inode = x
                        /\ \A j \in 1 .. Len(s) : s[j].name = t => i <= j
    OBVIOUS
  <2>1. PICK i \in 1 .. Len(s) : /\ s[i].name = t /\ s[i].inode = x
                                 /\ \A j \in 1 .. i - 1 : s[j].name # t
    BY DEF First
  <2>2. \A j \in 1 .. Len(s) : j \in 1 .. i - 1 \/ i <= j
    BY <1>1
  <2> QED
    BY <2>1, <2>2
<1>3. None(s, t) => { k \in 1 .. Len(s) : s[k].name = t } = {}
  BY DEF None
<1>4. Has(s, t, x) => \E i \in { k \in 1 .. Len(s) : s[k].name = t } :
                        s[i].inode = x
  BY DEF Has
<1> QED
  BY <1>2, <1>3, <1>4

\* A file that is found is one that a visible directory lists, and where no
\* block has an erased entry before others the first of the listing; a file is
\* reported as missing only where no directory lists it.
THEOREM Ext4AnswerIsFirst == Spec => []AnswerIsFirst
<1>1. SearchTyped /\ SearchInv => AnswerIsFirst
  <2> SUFFICES ASSUME SearchTyped, SearchInv, Searchable,
                      pc \in {"found", "missing"}
               PROVE  LET place == 1 .. Len(Candidates)
                          Asked == { i \in place : Candidates[i].name = target }
                      IN /\ pc = "found" =>
                              \E i \in Asked : Candidates[i].inode = found
                         /\ Ordered =>
                              IF Asked = {} THEN pc = "missing"
                              ELSE /\ pc = "found"
                                   /\ \E i \in Asked :
                                        /\ Candidates[i].inode = found
                                        /\ \A j \in Asked : i <= j
    BY DEF AnswerIsFirst, Ordered
  <2>1. PICK s \in Seq(DirectoryEntry) : s = Candidates
    BY CandidatesAre
  <2>2. PICK Asked : Asked = { i \in 1 .. Len(s) : s[i].name = target }
    OBVIOUS
  <2>3. /\ Has(s, target, found) => \E i \in Asked : s[i].inode = found
        /\ Has(s, target, found) => Asked # {}
        /\ First(s, target, found) =>
             \E i \in Asked : s[i].inode = found /\ \A j \in Asked : i <= j
        /\ None(s, target) => Asked = {}
    BY <2>2, AnswersRead
  <2>4. /\ pc = "found" => /\ Has(s, target, found)
                           /\ Ordered => First(s, target, found)
        /\ pc = "missing" /\ Ordered => None(s, target)
    BY <2>1 DEF SearchInv
  <2>5. pc = "found" => \E i \in Asked : s[i].inode = found
    BY <2>3, <2>4
  <2>6. Ordered =>
          IF Asked = {} THEN pc = "missing"
          ELSE /\ pc = "found"
               /\ \E i \in Asked : s[i].inode = found /\ \A j \in Asked : i <= j
    BY <2>3, <2>4
  <2> QED
    BY <2>1, <2>2, <2>5, <2>6
<1> QED
  BY <1>1, SearchHolds, PTL

\* A volume whose directories are nested no deeper than the stack allows for
\* never exhausts it.
THEOREM Ext4StackSuffices == Spec => [](Searchable => pc # "stray")
<1>1. SearchTyped /\ SearchInv => (Searchable => pc # "stray")
  BY DEF SearchInv
<1> QED
  BY <1>1, SearchHolds, PTL
=============================================================================

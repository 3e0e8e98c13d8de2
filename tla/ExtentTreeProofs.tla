-------------------------- MODULE ExtentTreeProofs --------------------------
(***************************************************************************)
(* What traverseExtentTree keeps to on any tree, also a corrupt one (a     *)
(* loop in it, children of a wrong depth, any number of entries), and what *)
(* it collects from every tree that a file system writes.  The invariant   *)
(* for that says of each call on the stack how much had been collected     *)
(* when it began: what has been collected since is what the entries done   *)
(* with have given, and all that lies below its node still has to come.    *)
(***************************************************************************)
EXTENDS ExtentTree, SequenceTheorems, WellFoundedInduction, TLAPS

\* The file offset is the place of the innermost call: what the lseek behind
\* the recursive call restores.
AtTop == pc = "walk" => pos = [node |-> Top.node, i |-> Top.i]

ExtentTreeInv == TypeOK /\ Len(stack) > 0 /\ AtTop

LEMMA TopTyped ==
  ASSUME TypeOK, Len(stack) > 0
  PROVE  /\ Len(stack) \in Nat \ {0}
         /\ Top \in Frame /\ Top.node \in Node /\ Top.i \in Nat
<1>1. stack \in Seq(Frame)
  BY DEF TypeOK
<1>2. Len(stack) \in Nat \ {0} /\ Top \in Frame
  BY <1>1 DEF Top
<1> QED
  BY <1>2 DEF Frame

\* An entry in use is one the node has room for.
LEMMA EntryTyped ==
  ASSUME ExtentTreeInv, EntriesLeft
  PROVE  /\ pos.node = Top.node /\ pos.i = Top.i
         /\ pos.i < Len(tree[pos.node].slots)
         /\ EntryRead \in Entry
<1>1. Top.node \in Node /\ Top.i \in Nat
  BY TopTyped DEF ExtentTreeInv
<1>2. pos.node = Top.node /\ pos.i = Top.i
  BY DEF ExtentTreeInv, AtTop, EntriesLeft
<1>3. /\ tree[Top.node] \in TreeNode
      /\ tree[Top.node].count <= Len(tree[Top.node].slots)
  BY <1>1, TreesAssumption DEF ExtentTreeInv, TypeOK
<1>4. /\ tree[Top.node].count \in Nat
      /\ tree[Top.node].slots \in Seq(Entry)
      /\ Len(tree[Top.node].slots) \in Nat
  BY <1>3 DEF TreeNode
<1>5. Top.i < Len(tree[Top.node].slots)
  BY <1>1, <1>3, <1>4 DEF EntriesLeft, Header
<1>6. tree[Top.node].slots[Top.i + 1] \in Entry
  BY <1>1, <1>4, <1>5
<1> QED
  BY <1>2, <1>5, <1>6 DEF EntryRead

LEMMA ExtentTreeInit == Init => ExtentTreeInv
<1> SUFFICES ASSUME Init PROVE ExtentTreeInv
  OBVIOUS
<1>1. Call(Root) \in Frame /\ Call(Root) \in Offset
  BY RootAssumption DEF Call, Frame, Offset
<1>2. stack \in Seq(Frame) /\ Len(stack) = 1 /\ Top = Call(Root)
  BY <1>1 DEF Init, Top
<1>3. TypeOK
  BY <1>1, <1>2, RangesAssumption DEF Init, TypeOK
<1>4. Len(stack) > 0 /\ AtTop
  BY <1>2 DEF Init, AtTop, Call
<1> QED
  BY <1>3, <1>4 DEF ExtentTreeInv

LEMMA ExtentTreeStep == ExtentTreeInv /\ [Next]_vars => ExtentTreeInv'
<1> SUFFICES ASSUME ExtentTreeInv, [Next]_vars PROVE ExtentTreeInv'
  OBVIOUS
<1>t. TypeOK /\ Len(stack) > 0
  BY DEF ExtentTreeInv
<1>top. /\ Len(stack) \in Nat \ {0}
        /\ Top \in Frame /\ Top.node \in Node /\ Top.i \in Nat
  BY <1>t, TopTyped
<1>n. ASSUME EntriesLeft
      PROVE  /\ NextEntry \in Seq(Frame) /\ Len(NextEntry) = Len(stack)
             /\ NextEntry[Len(stack)] = [node |-> Top.node, i |-> Top.i + 1]
  <2>1. [node |-> Top.node, i |-> Top.i + 1] \in Frame
    BY <1>top DEF Frame
  <2>2. stack \in Seq(Frame) /\ Len(stack) \in 1 .. Len(stack)
    BY <1>t, <1>top DEF TypeOK
  <2> QED
    BY <2>1, <2>2 DEF NextEntry
<1>1. CASE StoreExtent
  <2>1. EntriesLeft /\ ~Full
    BY <1>1 DEF StoreExtent
  <2>2. EntryRead \in Entry /\ pos.node = Top.node /\ pos.i = Top.i
    BY <2>1, EntryTyped
  <2>3. [first |-> EntryRead.first, length |-> EntryRead.length] \in Extent
    BY <2>2 DEF Entry, Extent
  <2>4. blocks' \in Seq(Extent) /\ Len(blocks') <= MaxRanges
    BY <1>1, <1>t, <2>1, <2>3, RangesAssumption DEF StoreExtent, TypeOK, Full
  <2>5. pos' = [node |-> Top.node, i |-> Top.i + 1] /\ pos' \in Offset
    BY <1>1, <1>top, <2>2 DEF StoreExtent, Offset
  <2>6. stack' = NextEntry /\ pc' = pc /\ tree' = tree
    BY <1>1 DEF StoreExtent
  <2>7. TypeOK'
    BY <1>t, <1>n, <2>1, <2>4, <2>5, <2>6 DEF TypeOK
  <2>8. Len(stack') > 0 /\ Top' = [node |-> Top.node, i |-> Top.i + 1]
    BY <1>n, <1>top, <2>1, <2>6 DEF Top
  <2> QED
    BY <2>5, <2>7, <2>8 DEF ExtentTreeInv, AtTop
<1>2. CASE StoreOutside
  BY <1>2, <1>t DEF StoreOutside, ExtentTreeInv, TypeOK, AtTop
<1>3. CASE Descend
  <2>1. EntriesLeft
    BY <1>3 DEF Descend
  <2>2. EntryRead.child \in Node
    BY <2>1, EntryTyped DEF Entry
  <2>3. Call(EntryRead.child) \in Frame /\ Call(EntryRead.child) \in Offset
    BY <2>2 DEF Call, Frame, Offset
  <2>4. /\ stack' = Append(NextEntry, Call(EntryRead.child))
        /\ pos' = Call(EntryRead.child)
        /\ tree' = tree /\ blocks' = blocks /\ pc' = pc
    BY <1>3 DEF Descend
  <2>5. stack' \in Seq(Frame) /\ Len(stack') = Len(stack) + 1
    BY <1>n, <2>1, <2>3, <2>4
  <2>6. stack'[Len(stack')] = Call(EntryRead.child)
    BY <1>n, <2>1, <2>3, <2>4
  <2>7. TypeOK'
    BY <1>t, <2>3, <2>4, <2>5 DEF TypeOK
  <2>8. Len(stack') > 0 /\ Top' = pos'
    BY <1>top, <2>4, <2>5, <2>6 DEF Top
  <2>9. pos' = [node |-> pos'.node, i |-> pos'.i]
    BY <2>4 DEF Call
  <2> QED
    BY <2>7, <2>8, <2>9 DEF ExtentTreeInv, AtTop
<1>4. CASE NoRoom
  BY <1>4, <1>t DEF NoRoom, ExtentTreeInv, TypeOK, AtTop
<1>5. CASE Return
  <2> DEFINE caller == stack[Len(stack) - 1]
  <2>1. Len(stack) - 1 \in 1 .. Len(stack) /\ caller \in Frame
    BY <1>5, <1>t, <1>top DEF Return, TypeOK
  <2>2. /\ stack' = SubSeq(stack, 1, Len(stack) - 1)
        /\ pos' = [node |-> caller.node, i |-> caller.i]
        /\ tree' = tree /\ blocks' = blocks /\ pc' = pc
    BY <1>5 DEF Return, ResumeAt
  <2>3. /\ stack' \in Seq(Frame) /\ Len(stack') = Len(stack) - 1
        /\ stack'[Len(stack')] = caller
    BY <1>t, <2>1, <2>2 DEF TypeOK
  <2>4. pos' \in Offset
    BY <2>1, <2>2 DEF Offset, Frame
  <2>5. TypeOK'
    BY <1>t, <2>2, <2>3, <2>4 DEF TypeOK
  <2>6. Len(stack') > 0 /\ Top' = caller
    BY <2>1, <2>3, <1>top DEF Top
  <2> QED
    BY <2>2, <2>5, <2>6 DEF ExtentTreeInv, AtTop
<1>6. CASE Finish
  BY <1>6, <1>t DEF Finish, ExtentTreeInv, TypeOK, AtTop
<1>7. CASE UNCHANGED vars
  BY <1>7 DEF vars, ExtentTreeInv, TypeOK, AtTop, Top
<1> QED
  BY <1>1, <1>2, <1>3, <1>4, <1>5, <1>6, <1>7 DEF Next

\* The calls, the offset and the array of traverseExtentTree stay what they
\* are declared to be, whatever the tree: no extent is stored behind the array
\* before the step that the machine stops at.
THEOREM ExtentTreeTypeOK == Spec => []TypeOK
<1>1. Init => ExtentTreeInv
  BY ExtentTreeInit
<1>2. ExtentTreeInv /\ [Next]_vars => ExtentTreeInv'
  BY ExtentTreeStep
<1>3. ExtentTreeInv => TypeOK
  BY DEF ExtentTreeInv
<1> QED
  BY <1>1, <1>2, <1>3, PTL DEF Spec

\* Each call reads its own node's entries in use, one after the other, after
\* any number of subtrees of any depth: the seek behind the recursive call is
\* enough, and the header read at the call is not read again.
THEOREM ExtentTreeReadsOwnEntry == Spec => []ReadsOwnEntry
<1>1. Init => ExtentTreeInv
  BY ExtentTreeInit
<1>2. ExtentTreeInv /\ [Next]_vars => ExtentTreeInv'
  BY ExtentTreeStep
<1>3. ExtentTreeInv => ReadsOwnEntry
  BY EntryTyped DEF ReadsOwnEntry, ExtentTreeInv, AtTop, EntriesLeft
<1> QED
  BY <1>1, <1>2, <1>3, PTL DEF Spec

(***************************************************************************)
(* What a node's extents are.  Joined and LeavesTo are recursive functions *)
(* on an interval of numbers.  That there is one, and only one for each    *)
(* interval, is shown by induction, in the form of sets of numbers.        *)
(***************************************************************************)
LEMMA Induction ==
  ASSUME NEW T, 0 \in T, \A k \in Nat : k \in T => k + 1 \in T
  PROVE  Nat \subseteq T
<1> DEFINE R == {ss \in Nat \X Nat : ss[1] < ss[2]}
<1>1. IsWellFoundedOn(R, Nat)
  BY NatLessThanWellFounded DEF OpToRel
<1>2. SUFFICES ASSUME Nat \ T # {} PROVE FALSE
  OBVIOUS
<1> HIDE DEF R
<1>3. PICK x \in Nat \ T : \A y \in Nat \ T : ~ (<<y, x>> \in R)
  <2>1. Nat \ T \subseteq Nat
    OBVIOUS
  <2> QED
    BY <1>1, <1>2, <2>1, WFMin
<1>4. x - 1 \in Nat /\ x - 1 < x /\ x - 1 + 1 = x
  BY <1>3
<1>5. x - 1 \in T
  BY <1>3, <1>4 DEF R
<1> QED
  BY <1>3, <1>4, <1>5

\* f is upTo of Joined(s, n).
Joins(f, s, n) ==
  f = [k \in 0 .. n |-> IF k = 0 THEN << >> ELSE f[k - 1] \o s[k]]

LEMMA JoinsExists ==
  ASSUME NEW s
  PROVE  \A n \in Nat : \E f : Joins(f, s, n)
<1> DEFINE T == {n \in Nat : \E f : Joins(f, s, n)}
<1>1. 0 \in T
  <2>1. Joins([k \in 0 .. 0 |-> << >>], s, 0)
    BY DEF Joins
  <2> QED
    BY <2>1
<1>2. ASSUME NEW n \in Nat, n \in T
      PROVE  n + 1 \in T
  <2>1. PICK f : Joins(f, s, n)
    BY <1>2
  <2> DEFINE g == [k \in 0 .. n + 1 |->
                     IF k = n + 1 THEN f[n] \o s[n + 1] ELSE f[k]]
  <2>2. \A k \in 0 .. n : f[k] = IF k = 0 THEN << >> ELSE f[k - 1] \o s[k]
    BY <2>1 DEF Joins
  <2>3. ASSUME NEW k \in 0 .. n + 1
        PROVE  g[k] = IF k = 0 THEN << >> ELSE g[k - 1] \o s[k]
    <3>1. CASE k = n + 1
      <4>1. n \in 0 .. n + 1 /\ n # n + 1 /\ k - 1 = n /\ k # 0
        BY <3>1
      <4>2. g[k] = f[n] \o s[k] /\ g[k - 1] = f[n]
        BY <3>1, <4>1
      <4> QED
        BY <4>1, <4>2
    <3>2. CASE k # n + 1
      <4>1. k \in 0 .. n /\ (k # 0 => k - 1 \in 0 .. n /\ k - 1 \in 0 .. n + 1)
        BY <3>2
      <4> QED
        BY <2>2, <3>2, <4>1
    <3> QED
      BY <3>1, <3>2
  <2>4. Joins(g, s, n + 1)
    BY <2>3 DEF Joins
  <2> QED
    BY <2>4
<1> HIDE DEF T
<1>3. Nat \subseteq T
  BY <1>1, <1>2, Induction
<1> QED
  BY <1>3 DEF T

LEMMA JoinedIs ==
  ASSUME NEW s, NEW n \in Nat
  PROVE  \E f : Joins(f, s, n) /\ Joined(s, n) = f[n]
<1> DEFINE f == CHOOSE g : Joins(g, s, n)
<1>1. Joins(f, s, n)
  BY JoinsExists
<1>2. Joined(s, n) = f[n]
  BY DEF Joined, Joins
<1> QED
  BY <1>1, <1>2

LEMMA JoinsUnique ==
  ASSUME NEW s, NEW n \in Nat, NEW m \in Nat, n <= m, NEW f, NEW g,
         Joins(f, s, n), Joins(g, s, m)
  PROVE  f[n] = g[n]
<1> DEFINE T == {k \in Nat : k <= n => f[k] = g[k]}
<1>1. \A k \in 0 .. n : f[k] = IF k = 0 THEN << >> ELSE f[k - 1] \o s[k]
  BY DEF Joins
<1>2. \A k \in 0 .. m : g[k] = IF k = 0 THEN << >> ELSE g[k - 1] \o s[k]
  BY DEF Joins
<1>3. 0 \in T
  BY <1>1, <1>2
<1>4. ASSUME NEW k \in Nat, k \in T
      PROVE  k + 1 \in T
  BY <1>1, <1>2, <1>4
<1> HIDE DEF T
<1>5. Nat \subseteq T
  BY <1>3, <1>4, Induction
<1> QED
  BY <1>5 DEF T

LEMMA JoinedStep ==
  ASSUME NEW s
  PROVE  /\ Joined(s, 0) = << >>
         /\ \A n \in Nat : Joined(s, n + 1) = Joined(s, n) \o s[n + 1]
<1>1. Joined(s, 0) = << >>
  <2>1. PICK f : Joins(f, s, 0) /\ Joined(s, 0) = f[0]
    BY JoinedIs
  <2> QED
    BY <2>1 DEF Joins
<1>2. ASSUME NEW n \in Nat
      PROVE  Joined(s, n + 1) = Joined(s, n) \o s[n + 1]
  <2>1. PICK f : Joins(f, s, n) /\ Joined(s, n) = f[n]
    BY JoinedIs
  <2>2. n + 1 \in Nat /\ n <= n + 1 /\ n + 1 \in 0 .. n + 1
    OBVIOUS
  <2>3. PICK g : Joins(g, s, n + 1) /\ Joined(s, n + 1) = g[n + 1]
    BY <2>2, JoinedIs
  <2>4. f[n] = g[n]
    BY <2>1, <2>2, <2>3, JoinsUnique
  <2>5. g[n + 1] = g[n] \o s[n + 1]
    BY <2>2, <2>3 DEF Joins
  <2> QED
    BY <2>1, <2>3, <2>4, <2>5
<1> QED
  BY <1>1, <1>2

\* Joined gives sequences, and longer ones the more it takes.
LEMMA JoinedTyped ==
  ASSUME NEW S, NEW m \in Nat, NEW s, \A k \in 1 .. m : s[k] \in Seq(S)
  PROVE  \A n \in 0 .. m : /\ Joined(s, n) \in Seq(S)
                           /\ Len(Joined(s, n)) <= Len(Joined(s, m))
<1> DEFINE Good(n) ==
             \A i \in 0 .. n : /\ Joined(s, i) \in Seq(S)
                               /\ Len(Joined(s, i)) <= Len(Joined(s, n))
           T == {n \in Nat : n <= m => Good(n)}
<1>1. 0 \in T
  <2>1. Joined(s, 0) \in Seq(S) /\ Len(Joined(s, 0)) = 0
    BY JoinedStep, EmptySeq
  <2>2. \A i \in 0 .. 0 : i = 0
    OBVIOUS
  <2> QED
    BY <2>1, <2>2
<1>2. ASSUME NEW n \in Nat, n \in T
      PROVE  n + 1 \in T
  <2> SUFFICES ASSUME n + 1 <= m PROVE Good(n + 1)
    OBVIOUS
  <2>1. Good(n) /\ s[n + 1] \in Seq(S)
    BY <1>2
  <2>2. Joined(s, n + 1) = Joined(s, n) \o s[n + 1]
    BY JoinedStep
  <2>3. Joined(s, n) \in Seq(S)
    BY <2>1
  <2>4. /\ Joined(s, n + 1) \in Seq(S)
        /\ Len(Joined(s, n)) \in Nat /\ Len(s[n + 1]) \in Nat
        /\ Len(Joined(s, n + 1)) = Len(Joined(s, n)) + Len(s[n + 1])
    BY <2>1, <2>2, <2>3, ConcatProperties, LenProperties
  <2>5. ASSUME NEW i \in 0 .. n + 1
        PROVE  /\ Joined(s, i) \in Seq(S)
               /\ Len(Joined(s, i)) <= Len(Joined(s, n + 1))
    <3>1. CASE i = n + 1
      BY <2>4, <3>1
    <3>2. CASE i # n + 1
      <4>1. i \in 0 .. n
        BY <3>2
      <4>2. Joined(s, i) \in Seq(S) /\ Len(Joined(s, i)) <= Len(Joined(s, n))
        BY <2>1, <4>1
      <4>3. Len(Joined(s, i)) \in Nat
        BY <4>2, LenProperties
      <4> QED
        BY <2>4, <4>2, <4>3
    <3> QED
      BY <3>1, <3>2
  <2> QED
    BY <2>5
<1> HIDE DEF T
<1>3. Nat \subseteq T
  BY <1>1, <1>2, Induction
<1>4. Good(m)
  BY <1>3 DEF T
<1> QED
  BY <1>4

(***************************************************************************)
(* The same for LeavesTo, whose values are functions on the nodes.         *)
(***************************************************************************)
Levels(f, t, d) ==
  f = [k \in 0 .. d |-> IF k = 0 THEN [n \in Node |-> << >>]
                        ELSE LevelUp(t, f[k - 1])]

LEMMA LevelsExist ==
  ASSUME NEW t
  PROVE  \A d \in Nat : \E f : Levels(f, t, d)
<1> DEFINE T == {d \in Nat : \E f : Levels(f, t, d)}
<1>1. 0 \in T
  <2>1. Levels([k \in 0 .. 0 |-> [n \in Node |-> << >>]], t, 0)
    BY DEF Levels
  <2> QED
    BY <2>1
<1>2. ASSUME NEW d \in Nat, d \in T
      PROVE  d + 1 \in T
  <2>1. PICK f : Levels(f, t, d)
    BY <1>2
  <2> DEFINE g == [k \in 0 .. d + 1 |->
                     IF k = d + 1 THEN LevelUp(t, f[d]) ELSE f[k]]
  <2>2. \A k \in 0 .. d : f[k] = IF k = 0 THEN [n \in Node |-> << >>]
                                 ELSE LevelUp(t, f[k - 1])
    BY <2>1 DEF Levels
  <2>3. ASSUME NEW k \in 0 .. d + 1
        PROVE  g[k] = IF k = 0 THEN [n \in Node |-> << >>]
                      ELSE LevelUp(t, g[k - 1])
    <3>1. CASE k = d + 1
      <4>1. d \in 0 .. d + 1 /\ d # d + 1 /\ k - 1 = d /\ k # 0
        BY <3>1
      <4>2. g[k] = LevelUp(t, f[d]) /\ g[k - 1] = f[d]
        BY <3>1, <4>1
      <4> QED
        BY <4>1, <4>2
    <3>2. CASE k # d + 1
      <4>1. k \in 0 .. d /\ (k # 0 => k - 1 \in 0 .. d /\ k - 1 \in 0 .. d + 1)
        BY <3>2
      <4>2. g[k] = f[k] /\ (k # 0 => g[k - 1] = f[k - 1])
        BY <3>2, <4>1
      <4> QED
        BY <2>2, <4>1, <4>2
    <3> QED
      BY <3>1, <3>2
  <2>4. Levels(g, t, d + 1)
    BY <2>3 DEF Levels
  <2> QED
    BY <2>4
<1> HIDE DEF T
<1>3. Nat \subseteq T
  BY <1>1, <1>2, Induction
<1> QED
  BY <1>3 DEF T

LEMMA LeavesToIs ==
  ASSUME NEW t, NEW d \in Nat
  PROVE  \E f : Levels(f, t, d) /\ LeavesTo(t, d) = f[d]
<1> DEFINE f == CHOOSE g : Levels(g, t, d)
<1>1. Levels(f, t, d)
  BY LevelsExist
<1>2. LeavesTo(t, d) = f[d]
  BY DEF LeavesTo, Levels
<1> QED
  BY <1>1, <1>2

LEMMA LevelsUnique ==
  ASSUME NEW t, NEW n \in Nat, NEW m \in Nat, n <= m, NEW f, NEW g,
         Levels(f, t, n), Levels(g, t, m)
  PROVE  f[n] = g[n]
<1> DEFINE T == {k \in Nat : k <= n => f[k] = g[k]}
           none == [x \in Node |-> << >>]
<1>1. \A k \in 0 .. n : f[k] = IF k = 0 THEN none ELSE LevelUp(t, f[k - 1])
  BY DEF Levels
<1>2. \A k \in 0 .. m : g[k] = IF k = 0 THEN none ELSE LevelUp(t, g[k - 1])
  BY DEF Levels
<1> HIDE DEF none
<1>3. 0 \in T
  BY <1>1, <1>2
<1>4. ASSUME NEW k \in Nat, k \in T
      PROVE  k + 1 \in T
  <2> SUFFICES ASSUME k + 1 <= n PROVE f[k + 1] = g[k + 1]
    OBVIOUS
  <2>1. f[k] = g[k] /\ k + 1 \in 0 .. n /\ k + 1 \in 0 .. m /\ k + 1 - 1 = k
    BY <1>4
  <2> QED
    BY <1>1, <1>2, <2>1
<1> HIDE DEF T
<1>5. Nat \subseteq T
  BY <1>3, <1>4, Induction
<1> QED
  BY <1>5 DEF T

LEMMA LeavesToStep ==
  ASSUME NEW t
  PROVE  /\ LeavesTo(t, 0) = [n \in Node |-> << >>]
         /\ \A d \in Nat : LeavesTo(t, d + 1) = LevelUp(t, LeavesTo(t, d))
<1>1. LeavesTo(t, 0) = [n \in Node |-> << >>]
  <2>1. PICK f : Levels(f, t, 0) /\ LeavesTo(t, 0) = f[0]
    BY LeavesToIs
  <2> QED
    BY <2>1 DEF Levels
<1>2. ASSUME NEW d \in Nat
      PROVE  LeavesTo(t, d + 1) = LevelUp(t, LeavesTo(t, d))
  <2>1. PICK f : Levels(f, t, d) /\ LeavesTo(t, d) = f[d]
    BY LeavesToIs
  <2>2. d + 1 \in Nat /\ d <= d + 1 /\ d + 1 \in 0 .. d + 1 /\ d + 1 - 1 = d
    OBVIOUS
  <2>3. PICK g : Levels(g, t, d + 1) /\ LeavesTo(t, d + 1) = g[d + 1]
    BY <2>2, LeavesToIs
  <2>4. f[d] = g[d]
    BY <2>1, <2>2, <2>3, LevelsUnique
  <2>5. g[d + 1] = LevelUp(t, g[d])
    BY <2>2, <2>3 DEF Levels
  <2> QED
    BY <2>1, <2>3, <2>4, <2>5
<1> QED
  BY <1>1, <1>2

LEMMA NodeTyped ==
  ASSUME NEW t \in Trees, NEW n \in Node
  PROVE  /\ t[n].count \in Nat /\ t[n].depth \in Nat
         /\ \A k \in 1 .. t[n].count :
              t[n].slots[k] \in Entry /\ t[n].slots[k].child \in Node
<1>1. t[n] \in TreeNode /\ t[n].count <= Len(t[n].slots)
  BY TreesAssumption
<1>2. /\ t[n].count \in Nat /\ t[n].depth \in Nat
      /\ t[n].slots \in Seq(Entry) /\ Len(t[n].slots) \in Nat
  BY <1>1 DEF TreeNode
<1>3. \A k \in 1 .. t[n].count : t[n].slots[k] \in Entry
  BY <1>1, <1>2
<1> QED
  BY <1>2, <1>3 DEF Entry

LEMMA OwnTyped ==
  ASSUME NEW t \in Trees, NEW n \in Node
  PROVE  Own(t, n) \in Seq(Extent) /\ Len(Own(t, n)) = t[n].count
<1>1. t[n].count \in Nat
  BY NodeTyped
<1>2. ASSUME NEW k \in 1 .. t[n].count
      PROVE  [first |-> t[n].slots[k].first, length |-> t[n].slots[k].length]
               \in Extent
  <2>1. t[n].slots[k] \in Entry
    BY NodeTyped
  <2> QED
    BY <2>1 DEF Entry, Extent
<1> QED
  BY <1>1, <1>2 DEF Own

LEMMA LeavesToTyped ==
  ASSUME NEW t \in Trees
  PROVE  \A d \in Nat : LeavesTo(t, d) \in [Node -> Seq(Extent)]
<1> DEFINE T == {d \in Nat : LeavesTo(t, d) \in [Node -> Seq(Extent)]}
<1>1. 0 \in T
  <2>1. << >> \in Seq(Extent) /\ LeavesTo(t, 0) = [n \in Node |-> << >>]
    BY LeavesToStep
  <2> QED
    BY <2>1
<1>2. ASSUME NEW d \in Nat, d \in T
      PROVE  d + 1 \in T
  <2> DEFINE below == LeavesTo(t, d)
  <2>1. below \in [Node -> Seq(Extent)]
    BY <1>2
  <2> HIDE DEF below
  <2>2. ASSUME NEW n \in Node
        PROVE  Joined(Branches(t, n, below), t[n].count) \in Seq(Extent)
    <3>1. \A k \in 1 .. t[n].count : Branches(t, n, below)[k] \in Seq(Extent)
      BY <2>1, NodeTyped DEF Branches
    <3>2. t[n].count \in Nat /\ t[n].count \in 0 .. t[n].count
      BY NodeTyped
    <3> QED
      BY <3>1, <3>2, JoinedTyped
  <2>3. LevelUp(t, below) \in [Node -> Seq(Extent)]
    BY <2>2, OwnTyped DEF LevelUp
  <2>4. LeavesTo(t, d + 1) = LevelUp(t, below)
    BY LeavesToStep DEF below
  <2> QED
    BY <2>3, <2>4
<1> HIDE DEF T
<1>3. Nat \subseteq T
  BY <1>1, <1>2, Induction
<1> QED
  BY <1>3 DEF T

\* What lies below each of a node's entries.
Below(t, n) == [k \in 1 .. t[n].count |-> LeavesOf(t, t[n].slots[k].child)]

\* In a tree as the file system writes it a leaf's extents are its own, those
\* of an index are its children's.
LEMMA LeavesOfIs ==
  ASSUME NEW t \in Trees, WellFormed(t), NEW n \in Node
  PROVE  /\ LeavesOf(t, n) \in Seq(Extent)
         /\ LeavesOf(t, n) = IF t[n].depth = 0 THEN Own(t, n)
                             ELSE Joined(Below(t, n), t[n].count)
<1>1. t[n].depth \in Nat /\ t[n].depth + 1 \in Nat
  BY NodeTyped
<1>2. LeavesOf(t, n) \in Seq(Extent)
  BY <1>1, LeavesToTyped DEF LeavesOf
<1> DEFINE below == LeavesTo(t, t[n].depth)
<1>3. LeavesOf(t, n) = LevelUp(t, below)[n]
  BY <1>1, LeavesToStep DEF LeavesOf
<1>4. ASSUME t[n].depth # 0
      PROVE  Branches(t, n, below) = Below(t, n)
  <2>1. ASSUME NEW k \in 1 .. t[n].count
        PROVE  below[t[n].slots[k].child] = LeavesOf(t, t[n].slots[k].child)
    <3>1. t[t[n].slots[k].child].depth = t[n].depth - 1
      BY <1>4, <2>1 DEF WellFormed
    <3>2. t[t[n].slots[k].child].depth + 1 = t[n].depth
      BY <1>1, <3>1
    <3> QED
      BY <3>2 DEF LeavesOf
  <2> HIDE DEF below
  <2> QED
    BY <2>1 DEF Branches, Below
<1> HIDE DEF below
<1>5. LeavesOf(t, n) = IF t[n].depth = 0 THEN Own(t, n)
                       ELSE Joined(Branches(t, n, below), t[n].count)
  BY <1>3 DEF LevelUp
<1> QED
  BY <1>2, <1>4, <1>5

(***************************************************************************)
(* The calls and what they have collected.                                 *)
(***************************************************************************)

\* What the first k entries of a node give.
Collected(n, k) ==
  IF tree[n].depth = 0 THEN SubSeq(Own(tree, n), 1, k)
  ELSE Joined(Below(tree, n), k)

\* In a leaf each entry gives one extent more.
LEMMA CollectedLeaf ==
  ASSUME TypeOK, WellFormed(tree), NEW n \in Node, tree[n].depth = 0
  PROVE  /\ Collected(n, 0) = << >>
         /\ Collected(n, tree[n].count) = LeavesOf(tree, n)
         /\ Len(LeavesOf(tree, n)) = tree[n].count
         /\ \A k \in 0 .. tree[n].count :
              Collected(n, k) \in Seq(Extent) /\ Len(Collected(n, k)) = k
         /\ \A k \in 0 .. tree[n].count - 1 :
              Collected(n, k + 1) =
                Append(Collected(n, k),
                       [first |-> tree[n].slots[k + 1].first,
                        length |-> tree[n].slots[k + 1].length])
<1>1. tree \in Trees
  BY DEF TypeOK
<1>2. PICK c \in Nat : c = tree[n].count
  BY <1>1, NodeTyped
<1>3. PICK own \in Seq(Extent) :
        own = Own(tree, n) /\ Len(own) = c /\ LeavesOf(tree, n) = own
  BY <1>1, <1>2, OwnTyped, LeavesOfIs
<1>4. \A k : Collected(n, k) = SubSeq(own, 1, k)
  BY <1>3 DEF Collected
<1>5. \A k \in 0 .. c - 1 :
        own[k + 1] = [first |-> tree[n].slots[k + 1].first,
                      length |-> tree[n].slots[k + 1].length]
  BY <1>2, <1>3 DEF Own
<1>6. \A k \in 0 .. c :
        SubSeq(own, 1, k) \in Seq(Extent) /\ Len(SubSeq(own, 1, k)) = k
  BY <1>3
<1>7. SubSeq(own, 1, 0) = << >> /\ SubSeq(own, 1, c) = own
  BY <1>3, SubSeqFull, SubSeqEmpty
<1>8. ASSUME NEW k \in 0 .. c - 1
      PROVE  SubSeq(own, 1, k + 1) = Append(SubSeq(own, 1, k), own[k + 1])
  <2>1. 1 \in 1 .. Len(own) /\ k + 1 \in 1 .. Len(own) /\ k \in 0 .. c
    BY <1>3
  <2>2. SubSeq(own, 1, k + 1) = SubSeq(own, 1, k) \o <<own[k + 1]>>
    BY <2>1, SubSeqRecursiveSecond
  <2>3. own[k + 1] \in Extent /\ SubSeq(own, 1, k) \in Seq(Extent)
    BY <1>6, <2>1
  <2> QED
    BY <2>2, <2>3, AppendIsConcat
<1> QED
  BY <1>2, <1>3, <1>4, <1>5, <1>6, <1>7, <1>8

\* In an index each entry gives what lies below it.
LEMMA CollectedIndex ==
  ASSUME TypeOK, WellFormed(tree), NEW n \in Node, tree[n].depth # 0
  PROVE  /\ Collected(n, 0) = << >>
         /\ Collected(n, tree[n].count) = LeavesOf(tree, n)
         /\ \A k \in 0 .. tree[n].count :
              /\ Collected(n, k) \in Seq(Extent)
              /\ Len(Collected(n, k)) <= Len(LeavesOf(tree, n))
         /\ \A k \in 0 .. tree[n].count - 1 :
              Collected(n, k + 1) =
                Collected(n, k) \o LeavesOf(tree, tree[n].slots[k + 1].child)
<1>1. tree \in Trees
  BY DEF TypeOK
<1>2. PICK c \in Nat : c = tree[n].count
  BY <1>1, NodeTyped
<1> DEFINE below == Below(tree, n)
<1>3. \A k : Collected(n, k) = Joined(below, k)
  BY DEF Collected
<1>4. LeavesOf(tree, n) = Joined(below, c)
  BY <1>1, <1>2, LeavesOfIs
<1>5. \A k \in 1 .. c : /\ below[k] = LeavesOf(tree, tree[n].slots[k].child)
                        /\ below[k] \in Seq(Extent)
  BY <1>1, <1>2, NodeTyped, LeavesOfIs DEF Below
<1> HIDE DEF below
<1>6. \A k \in 0 .. c : /\ Joined(below, k) \in Seq(Extent)
                        /\ Len(Joined(below, k)) <= Len(Joined(below, c))
  BY <1>5, JoinedTyped
<1>7. /\ Joined(below, 0) = << >>
      /\ \A k \in Nat : Joined(below, k + 1) = Joined(below, k) \o below[k + 1]
  BY JoinedStep
<1>8. \A k \in 0 .. c - 1 : k \in Nat /\ k + 1 \in 1 .. c
  OBVIOUS
<1> QED
  BY <1>2, <1>3, <1>4, <1>5, <1>6, <1>7, <1>8

LEMMA CollectedTyped ==
  ASSUME TypeOK, WellFormed(tree), NEW n \in Node
  PROVE  /\ LeavesOf(tree, n) \in Seq(Extent) /\ Len(LeavesOf(tree, n)) \in Nat
         /\ Collected(n, 0) = << >>
         /\ Collected(n, tree[n].count) = LeavesOf(tree, n)
         /\ \A k \in 0 .. tree[n].count :
              /\ Collected(n, k) \in Seq(Extent)
              /\ Len(Collected(n, k)) \in Nat
              /\ Len(Collected(n, k)) <= Len(LeavesOf(tree, n))
<1>1. LeavesOf(tree, n) \in Seq(Extent) /\ Len(LeavesOf(tree, n)) \in Nat
  BY LeavesOfIs, LenProperties DEF TypeOK
<1>2. CASE tree[n].depth = 0
  BY <1>1, <1>2, CollectedLeaf
<1>3. CASE tree[n].depth # 0
  BY <1>1, <1>3, CollectedIndex, LenProperties
<1> QED
  BY <1>2, <1>3

\* Each call is at an entry of the node that its caller has just gone down
\* to, one level lower.
CallsInv ==
  /\ stack[1].node = Root
  /\ \A k \in 1 .. Len(stack) :
       /\ stack[k].i <= tree[stack[k].node].count
       /\ tree[stack[k].node].depth + k = tree[Root].depth + 1
  /\ \A k \in 1 .. Len(stack) - 1 :
       /\ stack[k].i > 0
       /\ tree[stack[k].node].depth # 0
       /\ stack[k + 1].node = tree[stack[k].node].slots[stack[k].i].child

\* start[k] is what had been collected when call k began.  All that lies
\* below its node still comes behind that.
History(start) ==
  /\ Len(start) = Len(stack)
  /\ start[1] = << >>
  /\ \A k \in 1 .. Len(stack) - 1 :
       start[k + 1] = start[k] \o Collected(stack[k].node, stack[k].i - 1)
  /\ \A k \in 1 .. Len(stack) :
       Len(start[k]) + Len(LeavesOf(tree, stack[k].node)) <= Len(Leaves(tree))
  /\ blocks = start[Len(stack)] \o Collected(Top.node, Top.i)

WalkInv ==
  WellFormed(tree) =>
    /\ CallsInv
    /\ \E start \in Seq(Seq(Extent)) : History(start)
    /\ pc = "done" => blocks = Leaves(tree)
    /\ pc = "overrun" => Len(Leaves(tree)) > MaxRanges
    /\ pc # "stray"

LEMMA StackTyped ==
  ASSUME ExtentTreeInv
  PROVE  /\ stack \in Seq(Frame) /\ Len(stack) \in Nat \ {0} /\ tree \in Trees
         /\ \A k \in 1 .. Len(stack) :
              stack[k] \in Frame /\ stack[k].node \in Node /\ stack[k].i \in Nat
<1>1. stack \in Seq(Frame) /\ tree \in Trees /\ Len(stack) \in Nat \ {0}
  BY TopTyped DEF ExtentTreeInv, TypeOK
<1>2. \A k \in 1 .. Len(stack) : stack[k] \in Frame
  BY <1>1, ElementOfSeq
<1> QED
  BY <1>1, <1>2 DEF Frame

LEMMA NextEntryIs ==
  ASSUME ExtentTreeInv
  PROVE  /\ NextEntry \in Seq(Frame) /\ Len(NextEntry) = Len(stack)
         /\ \A k \in 1 .. Len(stack) - 1 : NextEntry[k] = stack[k]
         /\ NextEntry[Len(stack)] = [node |-> Top.node, i |-> Top.i + 1]
<1>1. stack \in Seq(Frame) /\ Len(stack) \in Nat \ {0}
  BY StackTyped
<1>2. [node |-> Top.node, i |-> Top.i + 1] \in Frame
  BY TopTyped DEF ExtentTreeInv, Frame
<1>3. Len(stack) \in 1 .. Len(stack)
  BY <1>1
<1> QED
  BY <1>1, <1>2, <1>3, ExceptSeq DEF NextEntry

LEMMA InitWalk == Init => WalkInv
<1> SUFFICES ASSUME Init, WellFormed(tree) PROVE WalkInv
  BY DEF WalkInv
<1>1. ExtentTreeInv
  BY ExtentTreeInit
<1>2. /\ Len(stack) = 1 /\ stack[1] = [node |-> Root, i |-> 0] /\ Top = stack[1]
      /\ blocks = << >> /\ pc = "walk"
  BY DEF Init, Call, Top
<1>3. tree[Root].count \in Nat /\ tree[Root].depth \in Nat /\ TypeOK
  BY <1>1, NodeTyped, RootAssumption DEF ExtentTreeInv, TypeOK
<1>4. CallsInv
  BY <1>2, <1>3 DEF CallsInv
<1> DEFINE start == << << >> >>
<1>5. start \in Seq(Seq(Extent)) /\ Len(start) = 1 /\ start[1] = << >>
  OBVIOUS
<1>6. << >> \in Seq(Extent) /\ Len(<< >>) = 0 /\ << >> \o << >> = << >>
  BY EmptySeq, ConcatEmptySeq
<1>7. Collected(Root, 0) = << >> /\ LeavesOf(tree, Root) \in Seq(Extent)
  BY <1>3, RootAssumption, CollectedTyped
<1>8. Len(LeavesOf(tree, Root)) \in Nat
  BY <1>3, RootAssumption, CollectedTyped
<1> HIDE DEF start
<1>9. History(start)
  BY <1>2, <1>5, <1>6, <1>7, <1>8 DEF History, Leaves
<1> QED
  BY <1>2, <1>4, <1>5, <1>9 DEF WalkInv

LEMMA StackPlace ==
  ASSUME ExtentTreeInv
  PROVE  \E L \in Nat \ {0}, n \in Node, e \in Nat :
           /\ L = Len(stack) /\ stack[L] = Top /\ n = Top.node /\ e = Top.i
           /\ tree \in Trees /\ stack \in Seq(Frame) /\ TypeOK
           /\ tree[n].count \in Nat /\ tree[n].depth \in Nat
           /\ tree[Root].depth \in Nat
           /\ \A k \in 1 .. L : stack[k].node \in Node /\ stack[k].i \in Nat
<1>1. /\ stack \in Seq(Frame) /\ Len(stack) \in Nat \ {0} /\ tree \in Trees
      /\ Top.node \in Node /\ Top.i \in Nat /\ TypeOK
      /\ \A k \in 1 .. Len(stack) : stack[k].node \in Node /\ stack[k].i \in Nat
  BY StackTyped, TopTyped DEF ExtentTreeInv
<1>2. stack[Len(stack)] = Top
  BY DEF Top
<1>3. /\ tree[Top.node].count \in Nat /\ tree[Top.node].depth \in Nat
      /\ tree[Root].depth \in Nat
  BY <1>1, NodeTyped, RootAssumption
<1> QED
  BY <1>1, <1>2, <1>3

LEMMA StoreWalk ==
  ASSUME ExtentTreeInv, WalkInv, StoreExtent
  PROVE  WalkInv'
<1>1. /\ EntriesLeft /\ Header.depth = 0 /\ stack' = NextEntry
      /\ tree' = tree /\ pc' = pc /\ pc = "walk"
      /\ blocks' = Append(blocks, [first |-> EntryRead.first,
                                   length |-> EntryRead.length])
  BY DEF StoreExtent, EntriesLeft
<1> SUFFICES ASSUME WellFormed(tree)
             PROVE  CallsInv' /\ \E start \in Seq(Seq(Extent)) : History(start)'
  BY <1>1 DEF WalkInv, WellFormed
<1>2. PICK L \in Nat \ {0}, n \in Node, e \in Nat :
        /\ L = Len(stack) /\ stack[L] = Top /\ n = Top.node /\ e = Top.i
        /\ tree \in Trees /\ stack \in Seq(Frame) /\ TypeOK
        /\ tree[n].count \in Nat /\ tree[n].depth \in Nat
        /\ \A k \in 1 .. L : stack[k].node \in Node /\ stack[k].i \in Nat
  BY StackPlace
<1>3. /\ Len(stack') = L /\ \A k \in 1 .. L - 1 : stack'[k] = stack[k]
      /\ stack'[L].node = n /\ stack'[L].i = e + 1
  <2>1. /\ Len(NextEntry) = Len(stack)
        /\ \A k \in 1 .. Len(stack) - 1 : NextEntry[k] = stack[k]
        /\ NextEntry[Len(stack)] = [node |-> Top.node, i |-> Top.i + 1]
    BY NextEntryIs
  <2> QED
    BY <1>1, <1>2, <2>1
<1>4. \A k \in 1 .. L : stack'[k].node = stack[k].node
  <2>1. \A k \in 1 .. L : k = L \/ k \in 1 .. L - 1
    OBVIOUS
  <2> QED
    BY <1>2, <1>3, <2>1
<1>5. e < tree[n].count /\ tree[n].depth = 0
  BY <1>1, <1>2 DEF EntriesLeft, Header
<1>6. CallsInv'
  <2>1. /\ stack[1].node = Root
        /\ \A k \in 1 .. L : /\ stack[k].i <= tree[stack[k].node].count
                             /\ tree[stack[k].node].depth + k = tree[Root].depth + 1
        /\ \A k \in 1 .. L - 1 :
             /\ stack[k].i > 0
             /\ tree[stack[k].node].depth # 0
             /\ stack[k + 1].node = tree[stack[k].node].slots[stack[k].i].child
    BY <1>2 DEF WalkInv, CallsInv
  <2>2. stack'[1].node = Root
    BY <1>4, <2>1
  <2>3. ASSUME NEW k \in 1 .. L
        PROVE  /\ stack'[k].i <= tree[stack'[k].node].count
               /\ tree[stack'[k].node].depth + k = tree[Root].depth + 1
    <3>1. tree[stack'[k].node].depth + k = tree[Root].depth + 1
      BY <1>4, <2>1
    <3>2. CASE k = L
      BY <1>2, <1>3, <1>5, <3>1, <3>2
    <3>3. CASE k \in 1 .. L - 1
      BY <1>3, <2>1, <3>1, <3>3
    <3> QED
      BY <3>2, <3>3
  <2>4. ASSUME NEW k \in 1 .. L - 1
        PROVE  /\ stack'[k].i > 0
               /\ tree[stack'[k].node].depth # 0
               /\ stack'[k + 1].node =
                    tree[stack'[k].node].slots[stack'[k].i].child
    <3>1. k + 1 \in 1 .. L /\ stack'[k] = stack[k]
      BY <1>3
    <3> QED
      BY <1>4, <2>1, <3>1
  <2> QED
    BY <1>1, <1>3, <2>2, <2>3, <2>4 DEF CallsInv
<1>7. PICK start \in Seq(Seq(Extent)) : History(start)
  BY DEF WalkInv
<1>8. /\ Len(start) = L /\ start[1] = << >>
      /\ \A k \in 1 .. L - 1 :
           start[k + 1] = start[k] \o Collected(stack[k].node, stack[k].i - 1)
      /\ \A k \in 1 .. L :
           Len(start[k]) + Len(LeavesOf(tree, stack[k].node)) <= Len(Leaves(tree))
      /\ blocks = start[L] \o Collected(n, e)
  BY <1>2, <1>7 DEF History
<1>9. PICK x \in Extent :
        /\ blocks' = Append(blocks, x)
        /\ x = [first |-> tree[n].slots[e + 1].first,
                length |-> tree[n].slots[e + 1].length]
  <2>1. EntryRead = tree[n].slots[e + 1] /\ EntryRead \in Entry
    BY <1>1, <1>2, EntryTyped DEF EntryRead
  <2>2. [first |-> EntryRead.first, length |-> EntryRead.length] \in Extent
    BY <2>1 DEF Entry, Extent
  <2> QED
    BY <1>1, <2>1, <2>2
<1>10. /\ Collected(n, e) \in Seq(Extent)
       /\ Collected(n, e + 1) = Append(Collected(n, e), x)
  <2>1. e \in 0 .. tree[n].count /\ e \in 0 .. tree[n].count - 1
    BY <1>2, <1>5
  <2>2. Collected(n, e) \in Seq(Extent)
    BY <1>2, <2>1, CollectedTyped
  <2>3. \A k \in 0 .. tree[n].count - 1 :
          Collected(n, k + 1) =
            Append(Collected(n, k), [first |-> tree[n].slots[k + 1].first,
                                     length |-> tree[n].slots[k + 1].length])
    BY <1>2, <1>5, CollectedLeaf
  <2>4. Collected(n, e + 1) =
          Append(Collected(n, e), [first |-> tree[n].slots[e + 1].first,
                                   length |-> tree[n].slots[e + 1].length])
    BY <2>1, <2>3
  <2> QED
    BY <1>9, <2>2, <2>4
<1>11. start[L] \in Seq(Extent) /\ blocks \in Seq(Extent)
  <2>1. L \in 1 .. Len(start)
    BY <1>8
  <2>2. start[L] \in Seq(Extent)
    BY <1>7, <2>1, ElementOfSeq
  <2> QED
    BY <1>2, <2>2 DEF TypeOK
<1>12. blocks' = start[L] \o Collected(n, e + 1)
  <2>1. PICK a \in Seq(Extent) : a = start[L]
    BY <1>11
  <2>2. PICK b \in Seq(Extent) : b = Collected(n, e)
    BY <1>10
  <2>3. Append(a \o b, x) = a \o Append(b, x)
    <3>1. <<x>> \in Seq(Extent)
      OBVIOUS
    <3>2. a \o b \in Seq(Extent)
      BY ConcatProperties
    <3>3. Append(a \o b, x) = (a \o b) \o <<x>> /\ Append(b, x) = b \o <<x>>
      BY <3>2, AppendIsConcat
    <3>4. (a \o b) \o <<x>> = a \o (b \o <<x>>)
      BY <3>1, ConcatAssociative
    <3> QED
      BY <3>3, <3>4
  <2> QED
    BY <1>8, <1>9, <1>10, <2>1, <2>2, <2>3
<1>13. History(start)'
  <2>1. \A m, k : Collected(m, k)' = Collected(m, k)
    BY <1>1 DEF Collected
  <2>2. Top'.node = n /\ Top'.i = e + 1
    BY <1>3 DEF Top
  <2>3. \A k \in 1 .. L - 1 :
          start[k + 1] = start[k] \o Collected(stack'[k].node, stack'[k].i - 1)
    BY <1>3, <1>8
  <2>4. \A k \in 1 .. L :
          Len(start[k]) + Len(LeavesOf(tree, stack'[k].node)) <= Len(Leaves(tree))
    BY <1>4, <1>8
  <2> QED
    BY <1>1, <1>3, <1>8, <1>12, <2>1, <2>2, <2>3, <2>4 DEF History
<1> QED
  BY <1>6, <1>7, <1>13

LEMMA DescendWalk ==
  ASSUME ExtentTreeInv, WalkInv, Descend
  PROVE  WalkInv'
<1>1. /\ EntriesLeft /\ Header.depth # 0 /\ tree' = tree /\ blocks' = blocks
      /\ pc' = pc /\ pc = "walk"
      /\ stack' = Append(NextEntry, Call(EntryRead.child))
  BY DEF Descend, EntriesLeft
<1> SUFFICES ASSUME WellFormed(tree)
             PROVE  CallsInv' /\ \E start \in Seq(Seq(Extent)) : History(start)'
  BY <1>1 DEF WalkInv, WellFormed
<1>2. PICK L \in Nat \ {0}, n \in Node, e \in Nat :
        /\ L = Len(stack) /\ stack[L] = Top /\ n = Top.node /\ e = Top.i
        /\ tree \in Trees /\ stack \in Seq(Frame) /\ TypeOK
        /\ tree[n].count \in Nat /\ tree[n].depth \in Nat
        /\ tree[Root].depth \in Nat
  BY StackPlace
<1>3. PICK c \in Node : c = EntryRead.child /\ c = tree[n].slots[e + 1].child
  <2>1. EntryRead = tree[n].slots[e + 1] /\ EntryRead \in Entry
    BY <1>1, <1>2, EntryTyped DEF EntryRead
  <2>2. EntryRead.child \in Node
    BY <2>1 DEF Entry
  <2> QED
    BY <2>1, <2>2
<1>4. /\ Len(stack') = L + 1 /\ \A k \in 1 .. L - 1 : stack'[k] = stack[k]
      /\ stack'[L].node = n /\ stack'[L].i = e + 1
      /\ stack'[L + 1].node = c /\ stack'[L + 1].i = 0
  <2>1. /\ NextEntry \in Seq(Frame) /\ Len(NextEntry) = L
        /\ \A k \in 1 .. L - 1 : NextEntry[k] = stack[k]
        /\ NextEntry[L] = [node |-> n, i |-> e + 1]
    BY <1>2, NextEntryIs
  <2>2. PICK f \in Frame : f = Call(c) /\ f.node = c /\ f.i = 0
    <3>1. Call(c) \in Frame /\ Call(c).node = c /\ Call(c).i = 0
      BY DEF Call, Frame
    <3> QED
      BY <3>1
  <2>3. stack' = Append(NextEntry, f)
    BY <1>1, <1>3, <2>2
  <2>4. /\ Len(stack') = L + 1 /\ stack'[L + 1] = f
        /\ \A k \in 1 .. L : stack'[k] = NextEntry[k]
    BY <2>1, <2>3, AppendProperties
  <2>5. L \in 1 .. L /\ \A k \in 1 .. L - 1 : k \in 1 .. L
    OBVIOUS
  <2> QED
    BY <2>1, <2>2, <2>4, <2>5
<1>5. \A k \in 1 .. L : stack'[k].node = stack[k].node
  <2>1. \A k \in 1 .. L : k = L \/ k \in 1 .. L - 1
    OBVIOUS
  <2> QED
    BY <1>2, <1>4, <2>1
<1>6. /\ e < tree[n].count /\ tree[n].depth # 0 /\ e + 1 \in 1 .. tree[n].count
      /\ tree[c].count \in Nat /\ tree[c].depth = tree[n].depth - 1
  <2>1. e < tree[n].count /\ tree[n].depth # 0 /\ tree[c].count \in Nat
    BY <1>1, <1>2, NodeTyped DEF EntriesLeft, Header
  <2>2. e + 1 \in 1 .. tree[n].count
    BY <1>2, <2>1
  <2>3. tree[c].depth = tree[n].depth - 1
    BY <1>3, <2>1, <2>2 DEF WellFormed
  <2> QED
    BY <2>1, <2>2, <2>3
<1>7. CallsInv'
  <2>1. /\ stack[1].node = Root
        /\ \A k \in 1 .. L : /\ stack[k].i <= tree[stack[k].node].count
                             /\ tree[stack[k].node].depth + k = tree[Root].depth + 1
        /\ \A k \in 1 .. L - 1 :
             /\ stack[k].i > 0
             /\ tree[stack[k].node].depth # 0
             /\ stack[k + 1].node = tree[stack[k].node].slots[stack[k].i].child
    BY <1>2 DEF WalkInv, CallsInv
  <2>2. stack'[1].node = Root
    BY <1>5, <2>1
  <2>3. tree[n].depth + L = tree[Root].depth + 1
    <3>1. L \in 1 .. L /\ stack[L].node = n
      BY <1>2
    <3> QED
      BY <2>1, <3>1
  <2>4. ASSUME NEW k \in 1 .. L + 1
        PROVE  /\ stack'[k].i <= tree[stack'[k].node].count
               /\ tree[stack'[k].node].depth + k = tree[Root].depth + 1
    <3>1. CASE k \in 1 .. L - 1
      <4>1. k \in 1 .. L /\ stack'[k] = stack[k]
        BY <1>4, <3>1
      <4> QED
        BY <2>1, <4>1
    <3>2. CASE k = L
      BY <1>2, <1>4, <1>6, <2>3, <3>2
    <3>3. CASE k = L + 1
      <4>1. stack'[k].node = c /\ stack'[k].i = 0
        BY <1>4, <3>3
      <4>2. 0 <= tree[c].count /\ tree[n].depth \in Nat
        BY <1>2, <1>6
      <4>3. tree[c].depth = tree[n].depth - 1
        BY <1>6
      <4>4. tree[c].depth + k = tree[n].depth + L
        BY <3>3, <4>2, <4>3
      <4> QED
        BY <2>3, <4>1, <4>2, <4>4
    <3> QED
      BY <3>1, <3>2, <3>3
  <2>5. ASSUME NEW k \in 1 .. L
        PROVE  /\ stack'[k].i > 0
               /\ tree[stack'[k].node].depth # 0
               /\ stack'[k + 1].node =
                    tree[stack'[k].node].slots[stack'[k].i].child
    <3>1. CASE k \in 1 .. L - 1
      <4>1. k + 1 \in 1 .. L /\ stack'[k] = stack[k]
        BY <1>4, <3>1
      <4> QED
        BY <1>5, <2>1, <3>1, <4>1
    <3>2. CASE k = L
      BY <1>3, <1>4, <1>6, <3>2
    <3> QED
      BY <3>1, <3>2
  <2>6. 1 .. Len(stack') = 1 .. L + 1 /\ 1 .. Len(stack') - 1 = 1 .. L
    BY <1>4
  <2> QED
    BY <1>1, <2>2, <2>4, <2>5, <2>6 DEF CallsInv
<1>8. PICK start \in Seq(Seq(Extent)) : History(start)
  BY DEF WalkInv
<1>9. /\ Len(start) = L /\ start[1] = << >>
      /\ \A k \in 1 .. L - 1 :
           start[k + 1] = start[k] \o Collected(stack[k].node, stack[k].i - 1)
      /\ \A k \in 1 .. L :
           Len(start[k]) + Len(LeavesOf(tree, stack[k].node)) <= Len(Leaves(tree))
      /\ blocks = start[L] \o Collected(n, e)
  BY <1>2, <1>8 DEF History
<1>10. PICK later \in Seq(Seq(Extent)) :
         /\ Len(later) = L + 1 /\ later[L + 1] = blocks
         /\ \A k \in 1 .. L : later[k] = start[k]
  <2>1. blocks \in Seq(Extent)
    BY <1>2 DEF TypeOK
  <2>2. /\ Append(start, blocks) \in Seq(Seq(Extent))
        /\ Len(Append(start, blocks)) = L + 1
        /\ Append(start, blocks)[L + 1] = blocks
        /\ \A k \in 1 .. L : Append(start, blocks)[k] = start[k]
    <3>1. start \in Seq(Seq(Extent)) /\ Len(start) = L
      BY <1>8, <1>9
    <3> QED
      BY <2>1, <3>1, AppendProperties
  <2> QED
    BY <2>2
<1>11. Len(blocks) + Len(LeavesOf(tree, c)) <= Len(Leaves(tree))
  <2>1. /\ e \in 0 .. tree[n].count /\ e + 1 \in 0 .. tree[n].count
        /\ e \in 0 .. tree[n].count - 1 /\ L \in 1 .. L
        /\ L \in 1 .. Len(start)
    <3>1. L \in 1 .. L /\ Len(start) = L
      BY <1>2, <1>9
    <3>2. e < tree[n].count /\ e \in Nat /\ tree[n].count \in Nat
      BY <1>2, <1>6
    <3> QED
      BY <3>1, <3>2
  <2>2. PICK a \in Seq(Extent) : a = start[L]
    BY <1>8, <2>1, ElementOfSeq
  <2>3. PICK b \in Seq(Extent) : b = Collected(n, e)
    BY <1>2, <2>1, CollectedTyped
  <2>4. PICK d \in Seq(Extent) : d = LeavesOf(tree, c)
    BY <1>2, CollectedTyped
  <2>5. \A k \in 0 .. tree[n].count - 1 :
          Collected(n, k + 1) =
            Collected(n, k) \o LeavesOf(tree, tree[n].slots[k + 1].child)
    BY <1>2, <1>6, CollectedIndex
  <2>6. Collected(n, e + 1) = b \o d
    BY <1>3, <2>1, <2>3, <2>4, <2>5
  <2>7. /\ Len(Collected(n, e + 1)) <= Len(LeavesOf(tree, n))
        /\ Len(LeavesOf(tree, n)) \in Nat
    BY <1>2, <2>1, CollectedTyped
  <2>8. Len(Leaves(tree)) \in Nat
    BY <1>2, CollectedTyped, RootAssumption DEF Leaves
  <2>9. /\ Len(b \o d) = Len(b) + Len(d) /\ Len(a \o b) = Len(a) + Len(b)
        /\ Len(a) \in Nat /\ Len(b) \in Nat /\ Len(d) \in Nat
    BY ConcatProperties, LenProperties
  <2>10. Len(a) + Len(LeavesOf(tree, n)) <= Len(Leaves(tree))
    BY <1>2, <1>9, <2>1, <2>2
  <2>11. blocks = a \o b
    BY <1>9, <2>2, <2>3
  <2> QED
    BY <2>4, <2>6, <2>7, <2>8, <2>9, <2>10, <2>11
<1>12. History(later)'
  <2>1. \A m, k : Collected(m, k)' = Collected(m, k)
    BY <1>1 DEF Collected
  <2>2. Top'.node = c /\ Top'.i = 0
    BY <1>4 DEF Top
  <2>3. ASSUME NEW k \in 1 .. L
        PROVE  later[k + 1] = later[k] \o Collected(stack'[k].node, stack'[k].i - 1)
    <3>1. CASE k \in 1 .. L - 1
      <4>1. k + 1 \in 1 .. L /\ stack'[k] = stack[k]
        BY <1>4, <3>1
      <4>2. later[k] = start[k] /\ later[k + 1] = start[k + 1]
        BY <1>10, <4>1
      <4>3. start[k + 1] = start[k] \o Collected(stack[k].node, stack[k].i - 1)
        BY <1>9, <3>1
      <4> QED
        BY <4>1, <4>2, <4>3
    <3>2. CASE k = L
      <4>1. stack'[k].node = n /\ stack'[k].i = e + 1
        BY <1>4, <3>2
      <4>2. later[k] = start[L] /\ later[k + 1] = blocks
        BY <1>10, <3>2
      <4>3. stack'[k].i - 1 = e
        BY <4>1
      <4> QED
        BY <1>9, <4>1, <4>2, <4>3
    <3>3. k = L \/ k \in 1 .. L - 1
      OBVIOUS
    <3> QED
      BY <3>1, <3>2, <3>3
  <2>4. ASSUME NEW k \in 1 .. L + 1
        PROVE  Len(later[k]) + Len(LeavesOf(tree, stack'[k].node))
                 <= Len(Leaves(tree))
    <3>1. CASE k \in 1 .. L
      <4>1. later[k] = start[k] /\ stack'[k].node = stack[k].node
        BY <1>5, <1>10, <3>1
      <4>2. Len(start[k]) + Len(LeavesOf(tree, stack[k].node))
              <= Len(Leaves(tree))
        BY <1>9, <3>1
      <4> QED
        BY <4>1, <4>2
    <3>2. CASE k = L + 1
      <4>1. later[k] = blocks /\ stack'[k].node = c
        BY <1>4, <1>10, <3>2
      <4> QED
        BY <1>11, <4>1
    <3>3. k = L + 1 \/ k \in 1 .. L
      OBVIOUS
    <3> QED
      BY <3>1, <3>2, <3>3
  <2>5. blocks = later[L + 1] \o Collected(c, 0)
    <3>1. Collected(c, 0) = << >> /\ blocks \in Seq(Extent)
      BY <1>2, CollectedTyped DEF TypeOK
    <3> QED
      BY <1>10, <3>1, ConcatEmptySeq
  <2>6. later[1] = << >>
    BY <1>9, <1>10
  <2>7. /\ 1 .. Len(stack') = 1 .. L + 1 /\ 1 .. Len(stack') - 1 = 1 .. L
        /\ Len(later) = Len(stack')
    BY <1>4, <1>10
  <2>8. LeavesOf(tree, Root)' = LeavesOf(tree, Root)
    BY <1>1
  <2> QED
    BY <1>1, <1>4, <2>1, <2>2, <2>3, <2>4, <2>5, <2>6, <2>7, <2>8
    DEF History, Leaves
<1> QED
  BY <1>7, <1>12

LEMMA ReturnWalk ==
  ASSUME ExtentTreeInv, WalkInv, Return
  PROVE  WalkInv'
<1>1. /\ Top.i >= Header.count /\ Len(stack) > 1 /\ tree' = tree
      /\ blocks' = blocks /\ pc' = pc /\ pc = "walk"
      /\ stack' = SubSeq(stack, 1, Len(stack) - 1)
  BY DEF Return
<1> SUFFICES ASSUME WellFormed(tree)
             PROVE  CallsInv' /\ \E start \in Seq(Seq(Extent)) : History(start)'
  BY <1>1 DEF WalkInv, WellFormed
<1>2. PICK L \in Nat \ {0}, n \in Node, e \in Nat :
        /\ L = Len(stack) /\ stack[L] = Top /\ n = Top.node /\ e = Top.i
        /\ tree \in Trees /\ stack \in Seq(Frame) /\ TypeOK
        /\ tree[n].count \in Nat /\ tree[n].depth \in Nat
        /\ \A k \in 1 .. L : stack[k].node \in Node /\ stack[k].i \in Nat
  BY StackPlace
<1>3. PICK M \in Nat \ {0} : M + 1 = L
  <2>1. L - 1 \in Nat \ {0} /\ L - 1 + 1 = L
    BY <1>1, <1>2
  <2> QED
    BY <2>1
<1>4. Len(stack') = M /\ \A k \in 1 .. M : stack'[k] = stack[k]
  <2>1. stack' = SubSeq(stack, 1, M)
    BY <1>1, <1>2, <1>3
  <2> QED
    BY <1>2, <1>3, <2>1
<1>5. /\ stack[1].node = Root
      /\ \A k \in 1 .. L : /\ stack[k].i <= tree[stack[k].node].count
                           /\ tree[stack[k].node].depth + k = tree[Root].depth + 1
      /\ \A k \in 1 .. M :
           /\ stack[k].i > 0
           /\ tree[stack[k].node].depth # 0
           /\ stack[k + 1].node = tree[stack[k].node].slots[stack[k].i].child
  <2>1. Len(stack) - 1 = M
    BY <1>2, <1>3
  <2> QED
    BY <1>2, <2>1 DEF WalkInv, CallsInv
<1>6. CallsInv'
  <2>1. stack'[1].node = Root
    BY <1>4, <1>5
  <2>2. ASSUME NEW k \in 1 .. M
        PROVE  /\ stack'[k].i <= tree[stack'[k].node].count
               /\ tree[stack'[k].node].depth + k = tree[Root].depth + 1
    <3>1. k \in 1 .. L /\ stack'[k] = stack[k]
      BY <1>3, <1>4
    <3> QED
      BY <1>5, <3>1
  <2>3. ASSUME NEW k \in 1 .. M - 1
        PROVE  /\ stack'[k].i > 0
               /\ tree[stack'[k].node].depth # 0
               /\ stack'[k + 1].node =
                    tree[stack'[k].node].slots[stack'[k].i].child
    <3>1. k \in 1 .. M /\ k + 1 \in 1 .. M
      OBVIOUS
    <3>2. stack'[k] = stack[k] /\ stack'[k + 1] = stack[k + 1]
      BY <1>4, <3>1
    <3> QED
      BY <1>5, <3>1, <3>2
  <2> QED
    BY <1>1, <1>4, <2>1, <2>2, <2>3 DEF CallsInv
<1>7. PICK start \in Seq(Seq(Extent)) : History(start)
  BY DEF WalkInv
<1>8. /\ Len(start) = L /\ start[1] = << >>
      /\ \A k \in 1 .. M :
           start[k + 1] = start[k] \o Collected(stack[k].node, stack[k].i - 1)
      /\ \A k \in 1 .. L :
           Len(start[k]) + Len(LeavesOf(tree, stack[k].node)) <= Len(Leaves(tree))
      /\ blocks = start[L] \o Collected(n, e)
  <2>1. Len(stack) - 1 = M
    BY <1>2, <1>3
  <2> QED
    BY <1>2, <1>7, <2>1 DEF History
<1>9. PICK earlier \in Seq(Seq(Extent)) :
        Len(earlier) = M /\ \A k \in 1 .. M : earlier[k] = start[k]
  <2>1. start \in Seq(Seq(Extent)) /\ M \in 0 .. Len(start)
    BY <1>3, <1>8
  <2>2. /\ SubSeq(start, 1, M) \in Seq(Seq(Extent))
        /\ Len(SubSeq(start, 1, M)) = M
        /\ \A k \in 1 .. M : SubSeq(start, 1, M)[k] = start[k]
    BY <2>1
  <2> QED
    BY <2>2
\* The caller, and what its entry gave.
<1>10. PICK m \in Node, f \in Nat \ {0} : m = stack[M].node /\ f = stack[M].i
  <2>1. M \in 1 .. M /\ M \in 1 .. L
    BY <1>3
  <2> QED
    BY <1>2, <1>5, <2>1
<1>11. blocks = start[M] \o Collected(m, f)
  <2>1. M \in 1 .. M /\ M \in 1 .. L /\ L \in 1 .. L
    BY <1>3
  <2>2. /\ n = tree[m].slots[f].child /\ tree[m].depth # 0
        /\ f <= tree[m].count /\ e <= tree[n].count
    BY <1>2, <1>3, <1>5, <1>10, <2>1
  <2>3. e = tree[n].count
    BY <1>1, <1>2, <2>2 DEF Header
  <2>4. tree[m].count \in Nat
    BY <1>2, NodeTyped
  <2>5. PICK g \in Nat : g + 1 = f
    <3>1. f - 1 \in Nat /\ f - 1 + 1 = f
      OBVIOUS
    <3> QED
      BY <3>1
  <2>6. g \in 0 .. tree[m].count /\ g \in 0 .. tree[m].count - 1 /\ g = f - 1
    BY <2>2, <2>4, <2>5
  <2>7. PICK a \in Seq(Extent) : a = start[M]
    <3>1. M \in 1 .. Len(start)
      BY <1>3, <1>8
    <3> QED
      BY <1>7, <3>1, ElementOfSeq
  <2>8. PICK b \in Seq(Extent) : b = Collected(m, g)
    BY <1>2, <2>6, CollectedTyped
  <2>9. PICK d \in Seq(Extent) : d = LeavesOf(tree, n) /\ d = Collected(n, e)
    BY <1>2, <2>3, CollectedTyped
  <2>10. \A k \in 0 .. tree[m].count - 1 :
           Collected(m, k + 1) =
             Collected(m, k) \o LeavesOf(tree, tree[m].slots[k + 1].child)
    BY <1>2, <2>2, CollectedIndex
  <2>11. Collected(m, f) = b \o d
    BY <2>2, <2>5, <2>6, <2>8, <2>9, <2>10
  <2>12. start[L] = a \o b
    BY <1>3, <1>8, <1>10, <2>1, <2>6, <2>7, <2>8
  <2>13. blocks = (a \o b) \o d
    BY <1>8, <2>9, <2>12
  <2>14. (a \o b) \o d = a \o (b \o d)
    BY ConcatAssociative
  <2> QED
    BY <2>7, <2>11, <2>13, <2>14
<1>12. History(earlier)'
  <2>1. \A x, k : Collected(x, k)' = Collected(x, k)
    BY <1>1 DEF Collected
  <2>2. Top'.node = m /\ Top'.i = f
    BY <1>4, <1>10 DEF Top
  <2>3. \A k \in 1 .. M - 1 :
          earlier[k + 1] =
            earlier[k] \o Collected(stack'[k].node, stack'[k].i - 1)
    <3>1. \A k \in 1 .. M - 1 : k \in 1 .. M /\ k + 1 \in 1 .. M
      OBVIOUS
    <3> QED
      BY <1>4, <1>8, <1>9, <3>1
  <2>4. ASSUME NEW k \in 1 .. M
        PROVE  Len(earlier[k]) + Len(LeavesOf(tree, stack'[k].node))
                 <= Len(Leaves(tree))
    <3>1. k \in 1 .. L
      BY <1>3
    <3>2. earlier[k] = start[k] /\ stack'[k] = stack[k]
      BY <1>4, <1>9
    <3>3. Len(start[k]) + Len(LeavesOf(tree, stack[k].node)) <= Len(Leaves(tree))
      BY <1>8, <3>1
    <3> QED
      BY <3>2, <3>3
  <2>5. blocks = earlier[M] \o Collected(m, f) /\ earlier[1] = << >>
    <3>1. M \in 1 .. M /\ 1 \in 1 .. M
      OBVIOUS
    <3>2. earlier[M] = start[M] /\ earlier[1] = start[1]
      BY <1>9, <3>1
    <3> QED
      BY <1>8, <1>11, <3>2
  <2> QED
    BY <1>1, <1>4, <1>9, <2>1, <2>2, <2>3, <2>4, <2>5 DEF History
<1> QED
  BY <1>6, <1>12

LEMMA EndWalk ==
  ASSUME ExtentTreeInv, WalkInv,
         StoreOutside \/ NoRoom \/ Finish \/ UNCHANGED vars
  PROVE  WalkInv'
<1>1. tree' = tree /\ stack' = stack /\ blocks' = blocks
  BY DEF StoreOutside, NoRoom, Finish, vars
<1> SUFFICES ASSUME WellFormed(tree)
             PROVE  /\ pc' = "done" => blocks = Leaves(tree)
                    /\ pc' = "overrun" => Len(Leaves(tree)) > MaxRanges
                    /\ pc' # "stray"
  <2>1. \A m, k : Collected(m, k)' = Collected(m, k)
    BY <1>1 DEF Collected
  <2>2. Top' = Top
    BY <1>1 DEF Top
  <2>3. CallsInv' <=> CallsInv
    BY <1>1 DEF CallsInv
  <2>4. \A start : History(start)' <=> History(start)
    BY <1>1, <2>1, <2>2 DEF History
  <2> QED
    BY <1>1, <2>3, <2>4 DEF WalkInv, WellFormed
<1>2. PICK L \in Nat \ {0}, n \in Node, e \in Nat :
        /\ L = Len(stack) /\ stack[L] = Top /\ n = Top.node /\ e = Top.i
        /\ tree \in Trees /\ TypeOK
        /\ tree[n].count \in Nat /\ tree[n].depth \in Nat
        /\ tree[Root].depth \in Nat
  BY StackPlace
<1>3. PICK start \in Seq(Seq(Extent)) : History(start)
  BY DEF WalkInv
<1>4. /\ Len(start) = L /\ start[1] = << >>
      /\ Len(start[L]) + Len(LeavesOf(tree, n)) <= Len(Leaves(tree))
      /\ blocks = start[L] \o Collected(n, e)
      /\ e <= tree[n].count /\ tree[n].depth + L = tree[Root].depth + 1
      /\ stack[1].node = Root
  <2>1. L \in 1 .. L
    OBVIOUS
  <2> QED
    BY <1>2, <1>3, <2>1 DEF History, WalkInv, CallsInv
<1>5. CASE StoreOutside
  <2>1. /\ pc' = "overrun" /\ tree[n].depth = 0 /\ e < tree[n].count
        /\ Len(blocks) >= MaxRanges
    BY <1>2, <1>5 DEF StoreOutside, EntriesLeft, Header, Full
  <2>2. e \in 0 .. tree[n].count /\ L \in 1 .. Len(start)
    BY <1>2, <1>4
  <2>3. PICK a \in Seq(Extent) : a = start[L]
    BY <1>3, <2>2, ElementOfSeq
  <2>4. PICK b \in Seq(Extent) : b = Collected(n, e) /\ Len(b) = e
    BY <1>2, <2>1, <2>2, CollectedLeaf
  <2>5. Len(LeavesOf(tree, n)) = tree[n].count
    BY <1>2, <2>1, CollectedLeaf
  <2>6. Len(blocks) = Len(a) + e /\ Len(a) \in Nat
    BY <1>4, <2>3, <2>4, ConcatProperties, LenProperties
  <2>7. Len(Leaves(tree)) \in Nat
    BY <1>2, CollectedTyped, RootAssumption DEF Leaves
  <2>8. Len(Leaves(tree)) > MaxRanges
    BY <1>2, <1>4, <2>1, <2>3, <2>5, <2>6, <2>7, RangesAssumption
  <2> QED
    BY <2>1, <2>8
<1>6. CASE NoRoom
  <2>1. L >= MaxDepth /\ tree[n].depth # 0
    BY <1>2, <1>6 DEF NoRoom, Header
  <2> QED
    BY <1>2, <1>4, <2>1, DepthAssumption DEF WellFormed
<1>7. CASE Finish
  <2>1. L = 1 /\ pc' = "done" /\ n = Root /\ e = tree[n].count
    BY <1>2, <1>4, <1>7 DEF Finish, Header
  <2>2. PICK b \in Seq(Extent) : b = Collected(n, e) /\ b = Leaves(tree)
    BY <1>2, <2>1, CollectedTyped DEF Leaves
  <2>3. << >> \o b = b
    BY ConcatEmptySeq
  <2> QED
    BY <1>4, <2>1, <2>2, <2>3
<1>8. CASE UNCHANGED vars
  BY <1>8 DEF vars, WalkInv
<1> QED
  BY <1>5, <1>6, <1>7, <1>8

LEMMA NextWalk == ExtentTreeInv /\ WalkInv /\ [Next]_vars => WalkInv'
  BY StoreWalk, DescendWalk, ReturnWalk, EndWalk DEF Next

\* Of every tree that a file system writes, of any depth and fan-out, the
\* traversal gives all extents in the order of the leaves, or the array was
\* too short for them; the extents that are read are never out of order, and
\* none is left out or read twice.
THEOREM ExtentTreeAllLeavesInOrder == Spec => []AllLeavesInOrder
<1>1. Spec => [](ExtentTreeInv /\ WalkInv)
  BY ExtentTreeInit, ExtentTreeStep, InitWalk, NextWalk, PTL DEF Spec
<1>2. WalkInv => AllLeavesInOrder
  BY DEF WalkInv, AllLeavesInOrder
<1> QED
  BY <1>1, <1>2, PTL

\* A stack that has room for the tree's levels is enough.
THEOREM ExtentTreeStackSuffices == Spec => [](WellFormed(tree) => pc # "stray")
<1>1. Spec => [](ExtentTreeInv /\ WalkInv)
  BY ExtentTreeInit, ExtentTreeStep, InitWalk, NextWalk, PTL DEF Spec
<1>2. WalkInv => (WellFormed(tree) => pc # "stray")
  BY DEF WalkInv
<1> QED
  BY <1>1, <1>2, PTL
=============================================================================

--------------------------- MODULE MCFat32Search ---------------------------
(***************************************************************************)
(* Small volumes for Fat32Search: three clusters of four slots, a root     *)
(* directory of one cluster or of the clusters 2 and 4, and cluster 3,     *)
(* which is a subdirectory where the root names it and the leftovers of a  *)
(* removed one where it does not.                                          *)
(***************************************************************************)
EXTENDS Fat32Search, SequencesExt

MCSlot(mark, attrs, text, ext, seq, clus) ==
  [mark |-> mark, attrs |-> attrs, text |-> text, ext |-> ext, seq |-> seq,
   clus |-> clus]

Free == MCSlot("last", {}, "a", 0, 0, 0)

File1(text, attrs, ext) == <<MCSlot("used", attrs, text, ext, 0, 0)>>
Long(text, seq) == MCSlot("used", VFatLongNameFlag, text, 0, seq, 0)
Directory(c) == <<MCSlot("used", {"subdirectory"}, "b", 0, 0, c)>>
Erased == <<MCSlot("erased", {}, "a", 0, 1, 0)>>
Label == <<MCSlot("used", {"label"}, "a", 0, 0, 0)>>
Dots == <<MCSlot("dot", {"subdirectory"}, "b", 0, 0, 2)>>

\* The files named a: plain, hidden, and with a one character extension;
\* the file with the long name a b.
FileA == File1("a", {"archive"}, 3)
HiddenA == File1("a", {"hidden"}, 0)
CutA == File1("a", {}, 1)
LongA == <<Long("a", 1)>> \o File1("b", {}, 0)
LongAB == <<Long("b", 2), Long("a", 1)>> \o File1("b", {}, 2)
LongDirectory(c) == <<Long("a", 1)>> \o Directory(c)

RootEntries ==
  {FileA, HiddenA, CutA, LongA, LongAB, LongDirectory(3), Directory(3),
   Erased, Label}

\* The entries of a directory one after the other, and free slots up to n.
Contents(entries, n) ==
  LET used == FlattenSeq(entries) IN
  IF Len(used) > n THEN SubSeq(used, 1, n)
  ELSE used \o [k \in 1 .. n - Len(used) |-> Free]

ThirdClusters ==
  { Contents(<<Dots>> \o es, 4) :
      es \in { << >>, <<FileA>>, <<LongA>>, <<LongAB>>, <<Erased, HiddenA>>,
               <<FileA, LongA>>, <<LongA, FileA>>, <<Directory(4), FileA>> } }

Fill(root, third, fourth, chain2) ==
  [slot |-> [p \in 0 .. 11 |-> (root \o third \o fourth)[p + 1]],
   chain |-> [c \in 0 .. 4 |-> IF c = 2 THEN chain2 ELSE <<c>>],
   root |-> 2]

RootLists ==
  UNION { [1 .. n -> RootEntries] : n \in 1 .. 2 }
    \cup [1 .. 3 -> {FileA, CutA, LongA, LongAB, LongDirectory(3), Directory(3)}]

FourthClusters == { Contents(<< >>, 4), Contents(<<Dots, FileA>>, 4) }

\* The root has one cluster, or goes on in cluster 4, past cluster 3.
OneClusterVolumes ==
  { Fill(Contents(es, 4), third, fourth, <<2>>) :
      es \in RootLists, third \in ThirdClusters, fourth \in FourthClusters }

TwoClusterVolumes ==
  { LET all == Contents(es, 8) IN
    Fill(SubSeq(all, 1, 4), third, SubSeq(all, 5, 8), <<2, 4>>) :
      es \in RootLists, third \in ThirdClusters }

\* A damaged volume: a long name of more slots than a name has.
OverlongName == <<Long("a", 3), Long("b", 2), Long("a", 1)>>

OverlongVolumes ==
  { LET all == Contents(<<e, OverlongName, FileA>>, 8) IN
    Fill(SubSeq(all, 1, 4), third, SubSeq(all, 5, 8), <<2, 4>>) :
      e \in RootEntries, third \in ThirdClusters }

MCVolumes ==
  { v \in OneClusterVolumes \cup TwoClusterVolumes : WellFormed(v) }
    \cup OverlongVolumes

MCTargets == { <<"a">>, <<"a", "b">> }
=============================================================================

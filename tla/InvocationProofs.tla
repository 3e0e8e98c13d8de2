-------------------------- MODULE InvocationProofs --------------------------
(***************************************************************************)
(* What one invocation keeps to, for any command lines, any files at the   *)
(* paths they name and any number of changes of those files meanwhile.     *)
(***************************************************************************)
EXTENDS Invocation, TLAPS

\* The argument that was checked stays the one that is passed on.
CheckedStays ==
  /\ pc \in {"exists", "checked"} =>
       checked = VolumePassed /\ checked \in Word /\ opened = NULL
  /\ pc # "start" /\ opened # NULL => opened = checked

\* What is known of the volume from its opening on.
VolumeStays ==
  /\ pc = "start" => opened = NULL
  /\ pc \in {"opened", "detected", "searched"} =>
       /\ opened = VolumePassed /\ opened \in Word
       /\ volume \in Volume /\ volume.writable
  /\ pc \in {"detected", "searched"} => fs \in Supported
  /\ pc = "searched" => ~Refused /\ (found => TargetPassed # NULL)
  /\ pc # "exited" => did.what = "nothing"

ArgsGiven == args \in ArgLists

InvocationInv ==
  ArgsGiven /\ TypeOK /\ CheckedStays /\ VolumeStays /\ OnlyAskedEdits

LEMMA ArgumentsTyped ==
  ASSUME ArgsGiven, NEW n \in Nat, 2 <= n
  PROVE  argv(n) \in Word \cup {NULL} /\ (n < argc => argv(n) \in Word)
<1>1. /\ args \in Seq(Command \cup Word)
      /\ \A k \in 2 .. Len(args) : args[k] \in Word
  BY ArgListsAssumption DEF ArgsGiven
<1>2. Len(args) \in Nat
  BY <1>1
<1>3. CASE n < Len(args) + 1
  BY <1>1, <1>2, <1>3 DEF argv, argc
<1>4. CASE ~(n < Len(args) + 1)
  BY <1>4 DEF argv, argc
<1> QED
  BY <1>3, <1>4

\* assertArgs and executeCommand agree about the volume.
LEMMA PassedTyped ==
  ASSUME ArgsGiven
  PROVE  /\ VolumeChecked = VolumePassed
         /\ VolumePassed \in Word \cup {NULL}
         /\ TargetPassed \in Word \cup {NULL}
  BY ArgumentsTyped DEF VolumeChecked, VolumePassed, TargetPassed

\* The code's decisions depend on the command line and on what was detected.
LEMMA DecisionsStay ==
  ASSUME args' = args
  PROVE  /\ \A n \in Nat : argv(n)' = argv(n)
         /\ VolumePassed' = VolumePassed
         /\ TargetPassed' = TargetPassed
         /\ fs' = fs => Refused' = Refused
         /\ Meaning' = Meaning
  BY DEF argv, argc, VolumePassed, TargetPassed, Refused, Meaning

LEMMA InvocationInit == Init => InvocationInv
<1> SUFFICES ASSUME Init PROVE InvocationInv
  OBVIOUS
<1>1. ArgsGiven /\ args \in Seq(Command \cup Word)
  BY ArgListsAssumption DEF Init, ArgsGiven
<1>2. disk \in [Word -> Volume \cup {Missing}]
  BY DisksAssumption DEF Init
<1>3. changes \in 0 .. MaxChanges
  BY MaxChangesAssumption DEF Init
<1>4. did \in [what : Deeds, target : Word \cup {NULL}] /\ did.what = "nothing"
  BY DEF Init, NoDeed, Deeds
<1>5. TypeOK
  <2>1. /\ pc = "start" /\ checked = NULL /\ opened = NULL /\ volume = Missing
        /\ fs = "unknown" /\ exit = 0
    BY DEF Init
  <2>2. found \in BOOLEAN
    BY Zenon DEF Init
  <2> QED
    BY <1>1, <1>2, <1>3, <1>4, <2>1, <2>2 DEF TypeOK
<1>6. CheckedStays /\ VolumeStays /\ OnlyAskedEdits
  BY <1>4 DEF Init, CheckedStays, VolumeStays, OnlyAskedEdits, Editing
<1> QED
  BY <1>1, <1>5, <1>6 DEF InvocationInv

\* Steps before anything is done.
LEMMA EarlyStepsKeep ==
  ASSUME InvocationInv,
         \/ RejectCount \/ RejectCommand \/ CheckExists \/ CheckReadable
         \/ Open \/ Detect \/ Change
  PROVE  InvocationInv'
<1> USE DEF world, Exit, Go
<1>0. ArgsGiven /\ TypeOK /\ CheckedStays /\ VolumeStays /\ OnlyAskedEdits
  BY DEF InvocationInv
<1>1. args' = args /\ did' = did /\ found' = found /\ did.what = "nothing"
  BY <1>0
  DEF RejectCount, RejectCommand, CheckExists, CheckReadable, Open, Detect,
      Change, VolumeStays
<1>2. ArgsGiven' /\ OnlyAskedEdits' /\ VolumePassed' = VolumePassed
  BY <1>0, <1>1, DecisionsStay DEF ArgsGiven, OnlyAskedEdits, Editing
<1>3. CASE RejectCount \/ RejectCommand
  BY <1>0, <1>1, <1>2, <1>3
  DEF RejectCount, RejectCommand, TypeOK, CheckedStays, VolumeStays,
      InvocationInv
<1>4. CASE CheckExists
  <2>1. checked' = VolumePassed /\ opened = NULL
    BY <1>0, <1>4, PassedTyped DEF CheckExists, VolumeStays
  <2>2. argc \in Nat /\ argc >= 3 /\ (argv(1) = "-d" => argc >= 4)
    BY <1>0, <1>4
    DEF CheckExists, isValidCommand, Command, Editing, argc, TypeOK
  <2>3. VolumePassed \in Word
    BY <1>0, <2>2, ArgumentsTyped DEF VolumePassed
  <2> QED
    BY <1>0, <1>1, <1>2, <1>4, <2>1, <2>3
    DEF CheckExists, TypeOK, CheckedStays, VolumeStays, InvocationInv
<1>5. CASE CheckReadable
  BY <1>0, <1>1, <1>2, <1>5
  DEF CheckReadable, TypeOK, CheckedStays, VolumeStays, InvocationInv
<1>6. CASE Open
  <2> DEFINE v == disk[VolumePassed]
  <2>1. checked = VolumePassed /\ checked' = checked /\ opened = NULL
    BY <1>0, <1>6 DEF Open, CheckedStays
  <2>2. CASE v # Missing /\ v.readable /\ v.writable
    <3>1. opened' = VolumePassed /\ volume' = v /\ pc' = "opened" /\ exit' = exit
      BY <1>6, <2>2 DEF Open
    <3>2. VolumePassed \in Word
      BY <1>0, <1>6 DEF CheckedStays, Open
    <3>3. v \in Volume
      BY <1>0, <2>2, <3>2 DEF TypeOK
    <3> QED
      BY <1>0, <1>1, <1>2, <1>6, <2>1, <2>2, <3>1, <3>2, <3>3
      DEF Open, TypeOK, CheckedStays, VolumeStays, InvocationInv
  <2>3. CASE ~(v # Missing /\ v.readable /\ v.writable)
    BY <1>0, <1>1, <1>2, <1>6, <2>1, <2>3
    DEF Open, TypeOK, CheckedStays, VolumeStays, InvocationInv
  <2> QED
    BY <2>2, <2>3
<1>7. CASE Detect
  <2>1. PICK m \in MarksRead(volume) :
          CASE Detected(m) \in Supported ->
                 fs' = Detected(m) /\ pc' = "detected" /\ exit' = exit
            [] Detected(m) = "unknown" ->
                 pc' = "exited" /\ exit' = 7 /\ UNCHANGED fs
            [] OTHER -> pc' = "exited" /\ exit' = 6 /\ UNCHANGED fs
    BY <1>7 DEF Detect
  <2>2. \/ fs' \in Supported /\ pc' = "detected" /\ exit' = exit
        \/ fs' = fs /\ pc' = "exited" /\ exit' \in {6, 7}
    BY <2>1 DEF Supported
  <2> QED
    BY <1>0, <1>1, <1>2, <1>7, <2>2
    DEF Detect, TypeOK, CheckedStays, VolumeStays, InvocationInv, Supported
<1>8. CASE Change
  <2>1. disk' \in [Word -> Volume \cup {Missing}]
    BY <1>0, <1>8, VolumesAssumption DEF Change, TypeOK
  <2>2. changes' \in 0 .. MaxChanges
    BY <1>0, <1>8, MaxChangesAssumption DEF Change, TypeOK
  <2> QED
    BY <1>0, <1>1, <1>2, <1>8, <2>1, <2>2
    DEF Change, TypeOK, CheckedStays, VolumeStays, InvocationInv
<1> QED
  BY <1>3, <1>4, <1>5, <1>6, <1>7, <1>8

\* Steps of the command itself.
LEMMA CommandStepsKeep ==
  ASSUME InvocationInv,
         \/ ShowInfo \/ RefuseHidden \/ Search \/ ReportNotFound \/ Show
         \/ RejectDate \/ Edit
  PROVE  InvocationInv'
<1> USE DEF world, Exit, Go
<1>0. ArgsGiven /\ TypeOK /\ CheckedStays /\ VolumeStays /\ OnlyAskedEdits
  BY DEF InvocationInv
<1>1. /\ args' = args /\ disk' = disk /\ changes' = changes
      /\ checked' = checked /\ opened' = opened /\ volume' = volume /\ fs' = fs
      /\ pc \in {"detected", "searched"}
  BY DEF ShowInfo, RefuseHidden, Search, ReportNotFound, Show, RejectDate, Edit
<1>2. /\ ArgsGiven' /\ VolumePassed' = VolumePassed
      /\ TargetPassed' = TargetPassed /\ Refused' = Refused
      /\ argv(1)' = argv(1) /\ Meaning' = Meaning
      /\ TargetPassed \in Word \cup {NULL}
  BY <1>0, <1>1, DecisionsStay, PassedTyped DEF ArgsGiven
<1>3. /\ opened = VolumePassed /\ opened \in Word /\ opened = checked
      /\ volume \in Volume /\ volume.writable
      /\ fs \in Supported /\ did.what = "nothing"
  BY <1>0, <1>1, WordAssumption DEF VolumeStays, CheckedStays
<1>4. ASSUME NEW what \in Deeds \ Editing, Done(what), found' = found
      PROVE  InvocationInv'
  <2>1. did' \in [what : Deeds, target : Word \cup {NULL}]
    BY <1>2, <1>4 DEF Done
  <2>2. did'.what \notin Editing
    BY <1>4 DEF Done
  <2> QED
    BY <1>0, <1>1, <1>2, <1>4, <2>1, <2>2
    DEF Done, TypeOK, CheckedStays, VolumeStays, OnlyAskedEdits, InvocationInv
<1>5. CASE ShowInfo
  BY <1>4, <1>5 DEF ShowInfo, Deeds, Editing
<1>6. CASE RefuseHidden
  BY <1>4, <1>6 DEF RefuseHidden, Deeds, Editing
<1>7. CASE Search
  <2>1. /\ did' = did /\ exit' = exit /\ pc' \in {"searched", "crashed"}
        /\ ~Refused /\ found' \in BOOLEAN
    BY <1>7 DEF Search
  <2>2. found' => TargetPassed # NULL
    BY <1>7 DEF Search
  <2> QED
    BY <1>0, <1>1, <1>2, <1>3, <2>1, <2>2
    DEF TypeOK, CheckedStays, VolumeStays, OnlyAskedEdits, Editing, InvocationInv
<1>8. CASE ReportNotFound
  BY <1>4, <1>8 DEF ReportNotFound, Deeds, Editing
<1>9. CASE Show
  <2>1. Shown[argv(1)] \in Deeds \ Editing
    BY <1>9 DEF Show, Shown, Searching, Deeds, Editing
  <2> QED
    BY <1>4, <1>9, <2>1 DEF Show
<1>10. CASE RejectDate
  BY <1>0, <1>1, <1>2, <1>3, <1>10
  DEF RejectDate, TypeOK, CheckedStays, VolumeStays, OnlyAskedEdits, Editing,
      InvocationInv
<1>11. CASE Edit
  <2>1. /\ did' = [what |-> argv(1), target |-> TargetPassed]
        /\ pc' = "exited" /\ exit' = 0 /\ found' = found /\ found
        /\ argv(1) \in Editing /\ pc = "searched"
        /\ argv(1) = "-d" => DatePassed \in GoodDates
    BY <1>11 DEF Edit, Done
  <2>2. did' \in [what : Deeds, target : Word \cup {NULL}]
    BY <1>2, <2>1 DEF Deeds, Editing
  <2>3. ~Refused /\ TargetPassed # NULL
    BY <1>0, <2>1 DEF VolumeStays
  <2>4. fs = "EXT4" => argv(1) \in {"-r", "-w", "-d"}
    BY <2>1, <2>3 DEF Refused, NeedFAT32, Editing
  <2>5. /\ TargetPassed = Meaning.target /\ VolumePassed = Meaning.volume
        /\ argv(1) = "-d" => DatePassed = Meaning.date
    BY DEF TargetPassed, VolumePassed, DatePassed, Meaning
  <2>6. OnlyAskedEdits'
    BY <1>1, <1>2, <1>3, <2>1, <2>3, <2>4, <2>5 DEF OnlyAskedEdits
  <2>7. TypeOK'
    BY <1>0, <1>1, <2>1, <2>2 DEF TypeOK
  <2>8. CheckedStays' /\ VolumeStays'
    BY <1>1, <1>3, <2>1 DEF CheckedStays, VolumeStays
  <2> QED
    BY <1>2, <2>6, <2>7, <2>8 DEF InvocationInv
<1> QED
  BY <1>5, <1>6, <1>7, <1>8, <1>9, <1>10, <1>11

LEMMA InvocationInvariant == Spec => []InvocationInv
<1>1. ASSUME InvocationInv, [Next]_vars PROVE InvocationInv'
  <2>1. CASE UNCHANGED vars
    BY <1>1, <2>1, DecisionsStay
    DEF vars, InvocationInv, ArgsGiven, TypeOK, CheckedStays, VolumeStays,
        OnlyAskedEdits
  <2>2. CASE Next
    BY <1>1, <2>2, EarlyStepsKeep, CommandStepsKeep DEF Next
  <2> QED
    BY <1>1, <2>1, <2>2
<1> QED
  BY <1>1, InvocationInit, PTL DEF Spec

-----------------------------------------------------------------------------
\* Every variable keeps to its type, the exit status to the documented ones.
THEOREM InvocationTypeOK == Spec => []TypeOK
<1>1. InvocationInv => TypeOK
  BY DEF InvocationInv
<1> QED
  BY <1>1, InvocationInvariant, PTL

\* The volume that initVolume opens is the argument that access() was asked
\* about, however many words there are and whatever happens to the files.
THEOREM OpensWhatWasChecked == Spec => []OpensWhatItChecked
<1>1. InvocationInv => OpensWhatItChecked
  BY DEF InvocationInv, CheckedStays, VolumeStays, OpensWhatItChecked
<1> QED
  BY <1>1, InvocationInvariant, PTL

\* A volume is written only as the command line asks, and never by an
\* invocation that ends in an error.
THEOREM EditsOnlyWhatWasAsked == Spec => []OnlyAskedEdits
<1>1. InvocationInv => OnlyAskedEdits
  BY DEF InvocationInv
<1> QED
  BY <1>1, InvocationInvariant, PTL

-----------------------------------------------------------------------------
(***************************************************************************)
(* What the exit status says.  Each of the program's checks rules out the  *)
(* reasons that stand before it in ReasonOrder, as long as the file opened *)
(* is still the one that was there at first.                               *)
(***************************************************************************)
Asked == disk[Meaning.volume]

\* None of the first k reasons is there.
Clear(k) == \A j \in 1 .. k : ~Reason(ReasonOrder[j], Asked)

ReasonInv ==
  changes = 0 =>
    /\ pc = "exists" => Clear(3)
    /\ pc = "checked" => Clear(4)
    /\ pc \in {"opened", "detected", "searched"} => Clear(5) /\ volume = Asked
    /\ pc \in {"detected", "searched"} /\ volume.ends = "whole" => Clear(7)
    /\ ExitIsFirstReason

LEMMA Order ==
  /\ ReasonOrder[1] = 1 /\ ReasonOrder[2] = 2 /\ ReasonOrder[3] = 3
  /\ ReasonOrder[4] = 4 /\ ReasonOrder[5] = 5 /\ ReasonOrder[6] = 7
  /\ ReasonOrder[7] = 6 /\ ReasonOrder[8] = 8
  BY DEF ReasonOrder

LEMMA ClearParts ==
  /\ Clear(0)
  /\ Clear(1) <=> ~Reason(1, Asked)
  /\ Clear(2) <=> Clear(1) /\ ~Reason(2, Asked)
  /\ Clear(3) <=> Clear(2) /\ ~Reason(3, Asked)
  /\ Clear(4) <=> Clear(3) /\ ~Reason(4, Asked)
  /\ Clear(5) <=> Clear(4) /\ ~Reason(5, Asked)
  /\ Clear(6) <=> Clear(5) /\ ~Reason(7, Asked)
  /\ Clear(7) <=> Clear(6) /\ ~Reason(6, Asked)
<1>1. 1 .. 0 = {} /\ 1 .. 1 = {1}
  OBVIOUS
<1>2. /\ 1 .. 2 = 1 .. 1 \cup {2} /\ 1 .. 3 = 1 .. 2 \cup {3}
      /\ 1 .. 4 = 1 .. 3 \cup {4} /\ 1 .. 5 = 1 .. 4 \cup {5}
      /\ 1 .. 6 = 1 .. 5 \cup {6} /\ 1 .. 7 = 1 .. 6 \cup {7}
  OBVIOUS
<1>3. Clear(0) /\ (Clear(1) <=> ~Reason(1, Asked))
  BY <1>1, Order, Zenon DEF Clear
<1>4. Clear(2) <=> Clear(1) /\ ~Reason(2, Asked)
  BY <1>2, Order, Zenon DEF Clear
<1>5. Clear(3) <=> Clear(2) /\ ~Reason(3, Asked)
  BY <1>2, Order, Zenon DEF Clear
<1>6. Clear(4) <=> Clear(3) /\ ~Reason(4, Asked)
  BY <1>2, Order, Zenon DEF Clear
<1>7. Clear(5) <=> Clear(4) /\ ~Reason(5, Asked)
  BY <1>2, Order, Zenon DEF Clear
<1>8. Clear(6) <=> Clear(5) /\ ~Reason(7, Asked)
  BY <1>2, Order, Zenon DEF Clear
<1>9. Clear(7) <=> Clear(6) /\ ~Reason(6, Asked)
  BY <1>2, Order, Zenon DEF Clear
<1> QED
  BY <1>3, <1>4, <1>5, <1>6, <1>7, <1>8, <1>9

LEMMA NamesFirst ==
  \A i \in 1 .. 8 :
    ReasonOrder[i] = exit /\ Reason(exit, Asked) /\ Clear(i - 1) => ExitIsFirstReason
<1> SUFFICES ASSUME NEW i \in 1 .. 8, ReasonOrder[i] = exit,
                    Reason(exit, Asked), Clear(i - 1)
             PROVE  ExitIsFirstReason
  OBVIOUS
<1>1. Reason(ReasonOrder[i], Asked)
  OBVIOUS
<1>2. \A j \in 1 .. i - 1 : ~Reason(ReasonOrder[j], Asked)
  BY DEF Clear
<1> QED
  BY <1>1, <1>2, Zenon DEF ExitIsFirstReason, Asked

LEMMA NamesNothing ==
  exit = 0 /\ Clear(7) /\ ~Reason(8, Asked) => ExitIsFirstReason
<1> SUFFICES ASSUME exit = 0, Clear(7), ~Reason(8, Asked) PROVE ExitIsFirstReason
  OBVIOUS
<1>1. 1 .. 8 = 1 .. 7 \cup {8}
  OBVIOUS
<1>2. \A j \in 1 .. 8 : ~Reason(ReasonOrder[j], Asked)
  BY <1>1, Order, Zenon DEF Clear
<1> QED
  BY <1>2, Zenon DEF ExitIsFirstReason, Asked

\* Which reasons before the last one there are depends on the command line and on
\* the file.
LEMMA ReasonsStay ==
  ASSUME args' = args, disk' = disk
  PROVE  /\ Asked' = Asked
         /\ \A c \in 1 .. 7 : Reason(c, Asked)' <=> Reason(c, Asked)
         /\ \A k \in 0 .. 7 : Clear(k)' <=> Clear(k)
<1>1. Meaning' = Meaning /\ argv(1)' = argv(1) /\ argv(2)' = argv(2)
  BY DecisionsStay
<1>2. Asked' = Asked /\ argc' = argc
  BY <1>1 DEF Asked, argc
<1>3. \A c \in 1 .. 7 : Reason(c, Asked)' <=> Reason(c, Asked)
  BY <1>1, <1>2 DEF Reason, Families
<1>4. ASSUME NEW k \in 0 .. 7
      PROVE  Clear(k)' <=> Clear(k)
  <2>1. \A j \in 1 .. k : ReasonOrder[j] \in 1 .. 7
    BY Order
  <2>2. \A j \in 1 .. k :
          Reason(ReasonOrder[j], Asked)' <=> Reason(ReasonOrder[j], Asked)
    <3> SUFFICES ASSUME NEW j \in 1 .. k
                 PROVE  Reason(ReasonOrder[j], Asked)' <=> Reason(ReasonOrder[j], Asked)
      OBVIOUS
    <3>1. ReasonOrder[j] \in 1 .. 7
      BY <2>1
    <3> QED
      BY <1>1, <1>2, <3>1 DEF Reason, Families, ReasonOrder
  <2> QED
    BY <2>2, Zenon DEF Clear
<1> QED
  BY <1>2, <1>3, <1>4

\* The detection tells the reasons of a volume that reaches to its superblock.
LEMMA DetectionTells ==
  ASSUME NEW v \in Volume, v.ends = "whole", NEW m \in MarksRead(v)
  PROVE  /\ Detected(m) \in Supported => ~Reason(7, v) /\ ~Reason(6, v)
         /\ Detected(m) = "unknown" => Reason(7, v)
         /\ Detected(m) \notin Supported \cup {"unknown"} =>
              ~Reason(7, v) /\ Reason(6, v)
<1>1. m = v.marks /\ m \in Marks
  BY DEF MarksRead
<1>2. /\ m.magic \in BOOLEAN /\ m.extents \in BOOLEAN
      /\ m.type1216 \in {"FAT12", "FAT16", "other"}
      /\ m.type32 \in {"FAT32", "other"}
  BY <1>1 DEF Marks
<1>3. isFAT(m) = "none" <=> m.type1216 = "other" /\ m.type32 = "other"
  BY <1>2 DEF isFAT
<1>4. /\ Families(m) = {"EXT"} <=> m.magic /\ isFAT(m) = "none"
      /\ Families(m) = {"FAT"} <=> ~m.magic /\ isFAT(m) # "none"
  BY <1>2, <1>3 DEF Families
<1>5. CASE Families(m) = {"EXT"}
  <2>1. Detected(m) = getExtVersion(m) /\ m.magic /\ m.type1216 = "other"
    BY <1>3, <1>4, <1>5 DEF Detected, isExt
  <2>2. /\ m.extents => Detected(m) = "EXT4"
        /\ ~m.extents => Detected(m) \in {"EXT2", "EXT3"}
    BY <2>1 DEF getExtVersion
  <2> QED
    BY <1>1, <1>2, <1>5, <2>1, <2>2 DEF Reason, Supported
<1>6. CASE Families(m) = {"FAT"}
  <2>1. Detected(m) = isFAT(m) /\ ~m.magic
    BY <1>4, <1>6 DEF Detected, isExt
  <2>2. /\ m.type1216 # "other" => Detected(m) \in {"FAT12", "FAT16"}
        /\ m.type1216 = "other" => Detected(m) = "FAT32"
    BY <1>2, <1>3, <1>4, <1>6, <2>1 DEF isFAT
  <2> QED
    BY <1>1, <1>2, <1>6, <2>1, <2>2 DEF Reason, Supported
<1>7. CASE Families(m) \notin {{"EXT"}, {"FAT"}}
  <2>1. Detected(m) = "unknown"
    BY <1>4, <1>7, Zenon DEF Detected, isExt
  <2> QED
    BY <1>1, <1>7, <2>1 DEF Reason, Supported
<1> QED
  BY <1>5, <1>6, <1>7

LEMMA ReasonInit == Init => ReasonInv
<1>1. Init => pc = "start"
  BY DEF Init
<1> QED
  BY <1>1, Zenon DEF ReasonInv, ExitIsFirstReason

LEMMA EarlyReasons ==
  ASSUME InvocationInv, ReasonInv, changes = 0,
         \/ RejectCount \/ RejectCommand \/ CheckExists \/ CheckReadable
         \/ Open \/ Detect
  PROVE  ReasonInv'
<1> USE DEF world, Exit, Go
<1>0. ArgsGiven /\ TypeOK /\ CheckedStays /\ VolumeStays
  BY DEF InvocationInv
<1>1. args' = args /\ disk' = disk /\ changes' = changes
  BY DEF RejectCount, RejectCommand, CheckExists, CheckReadable, Open, Detect
<1>2. /\ Asked' = Asked
      /\ \A c \in 1 .. 7 : Reason(c, Asked)' <=> Reason(c, Asked)
      /\ \A k \in 0 .. 7 : Clear(k)' <=> Clear(k)
  BY <1>1, ReasonsStay
<1>3. Meaning.volume = VolumePassed
  BY DEF Meaning, VolumePassed
<1>4. (\A i \in 1 .. 8 : ReasonOrder[i] = exit /\ Reason(exit, Asked) /\ Clear(i - 1)
                          => ExitIsFirstReason)'
  BY NamesFirst, PTL
<1>5. ASSUME NEW i \in 1 .. 8, NEW c \in 1 .. 7, ReasonOrder[i] = c,
             exit' = c, pc' = "exited", Reason(c, Asked), Clear(i - 1)
      PROVE  ReasonInv'
  <2>1. Reason(exit, Asked)'
    <3>1. Reason(c, Asked)'
      BY <1>2, <1>5
    <3> QED
      BY <1>5, <3>1 DEF Reason
  <2>2. i - 1 \in 0 .. 7
    OBVIOUS
  <2>3. Clear(i - 1)'
    BY <1>2, <1>5, <2>2
  <2>4. ReasonOrder[i] = exit'
    BY <1>5
  <2>5. ExitIsFirstReason'
    BY <1>4, <2>1, <2>3, <2>4, Zenon DEF ReasonOrder
  <2> QED
    BY <1>5, <2>5 DEF ReasonInv
<1>6. ASSUME pc' # "exited" PROVE ExitIsFirstReason'
  BY <1>6 DEF ExitIsFirstReason
<1>7. CASE RejectCount
  <2>1. Reason(1, Asked) /\ Clear(0) /\ pc' = "exited" /\ exit' = 1
    BY <1>7, ClearParts DEF RejectCount, Reason
  <2> QED
    BY <1>5, <2>1, Order
<1>8. CASE RejectCommand
  <2>1. ~Reason(1, Asked) /\ Reason(2, Asked) /\ pc' = "exited" /\ exit' = 2
    BY <1>0, <1>8 DEF RejectCommand, isValidCommand, Reason, argc, TypeOK
  <2> QED
    BY <1>5, <2>1, Order, ClearParts
<1>9. CASE CheckExists
  <2>1. ~Reason(1, Asked) /\ ~Reason(2, Asked)
    BY <1>0, <1>9 DEF CheckExists, isValidCommand, Reason, argc, TypeOK
  <2>2. disk[VolumeChecked] = Asked
    BY <1>0, <1>3, PassedTyped DEF Asked
  <2>3. CASE Asked = Missing
    <3>1. Reason(3, Asked) /\ pc' = "exited" /\ exit' = 3
      BY <1>9, <2>2, <2>3 DEF CheckExists, Reason
    <3> QED
      BY <1>5, <2>1, <3>1, Order, ClearParts
  <2>4. CASE Asked # Missing
    <3>1. ~Reason(3, Asked) /\ pc' = "exists"
      BY <1>9, <2>2, <2>4 DEF CheckExists, Reason
    <3>2. Clear(3)'
      BY <1>2, <2>1, <3>1, ClearParts
    <3> QED
      BY <1>6, <3>1, <3>2 DEF ReasonInv
  <2> QED
    BY <2>3, <2>4
<1>10. CASE CheckReadable
  <2>1. Clear(3) /\ disk[checked] = Asked
    BY <1>0, <1>3, <1>10 DEF CheckReadable, ReasonInv, CheckedStays, Asked
  <2>2. ~Reason(3, Asked) /\ Asked # Missing
    BY <2>1, ClearParts DEF Reason
  <2>3. CASE Asked.readable
    <3>1. ~Reason(4, Asked) /\ pc' = "checked"
      BY <1>10, <2>1, <2>2, <2>3 DEF CheckReadable, Reason
    <3>2. Clear(4)'
      BY <1>2, <2>1, <3>1, ClearParts
    <3> QED
      BY <1>6, <3>1, <3>2 DEF ReasonInv
  <2>4. CASE ~Asked.readable
    <3>1. Reason(4, Asked) /\ pc' = "exited" /\ exit' = 4
      BY <1>10, <2>1, <2>4 DEF CheckReadable, Reason
    <3> QED
      BY <1>5, <2>1, <3>1, Order
  <2> QED
    BY <2>3, <2>4
<1>11. CASE Open
  <2>1. Clear(4) /\ disk[VolumePassed] = Asked
    BY <1>3, <1>11 DEF Open, ReasonInv, Asked
  <2>2. Asked # Missing /\ Asked.readable
    BY <2>1, ClearParts DEF Reason
  <2>3. CASE Asked.writable
    <3>1. ~Reason(5, Asked) /\ pc' = "opened" /\ volume' = Asked
      BY <1>11, <2>1, <2>2, <2>3 DEF Open, Reason
    <3>2. Clear(5)'
      BY <1>2, <2>1, <3>1, ClearParts
    <3>3. volume' = Asked'
      BY <1>2, <3>1
    <3> QED
      BY <1>6, <3>1, <3>2, <3>3 DEF ReasonInv
  <2>4. CASE ~Asked.writable
    <3>1. Reason(5, Asked) /\ pc' = "exited" /\ exit' = 5
      BY <1>11, <2>1, <2>4 DEF Open, Reason
    <3> QED
      BY <1>5, <2>1, <3>1, Order
  <2> QED
    BY <2>3, <2>4
<1>12. CASE Detect
  <2>1. PICK m \in MarksRead(volume) :
          CASE Detected(m) \in Supported ->
                 fs' = Detected(m) /\ pc' = "detected" /\ exit' = exit
            [] Detected(m) = "unknown" ->
                 pc' = "exited" /\ exit' = 7 /\ UNCHANGED fs
            [] OTHER -> pc' = "exited" /\ exit' = 6 /\ UNCHANGED fs
    BY <1>12 DEF Detect
  <2>2. /\ Clear(5) /\ volume = Asked /\ volume \in Volume
        /\ volume' = volume
    BY <1>0, <1>12 DEF Detect, ReasonInv, VolumeStays
  <2>3. CASE volume.ends = "whole"
    <3>1. CASE Detected(m) \in Supported
      <4>1. ~Reason(7, Asked) /\ ~Reason(6, Asked)
        BY <2>2, <2>3, <3>1, DetectionTells
      <4>2. Clear(5)' /\ Clear(7)'
        BY <1>2, <2>2, <4>1, ClearParts
      <4>3. pc' = "detected" /\ volume' = Asked'
        BY <1>2, <2>1, <2>2, <3>1 DEF Supported
      <4> QED
        BY <1>6, <4>2, <4>3 DEF ReasonInv
    <3>2. CASE Detected(m) = "unknown"
      <4>1. Reason(7, Asked)
        BY <2>2, <2>3, <3>2, DetectionTells
      <4>2. pc' = "exited" /\ exit' = 7
        BY <2>1, <3>2 DEF Supported
      <4> QED
        BY <1>5, <2>2, <4>1, <4>2, Order
    <3>3. CASE Detected(m) \notin Supported \cup {"unknown"}
      <4>1. ~Reason(7, Asked) /\ Reason(6, Asked)
        BY <2>2, <2>3, <3>3, DetectionTells
      <4>2. pc' = "exited" /\ exit' = 6
        BY <2>1, <3>3
      <4> QED
        BY <1>5, <2>2, <4>1, <4>2, Order, ClearParts
    <3> QED
      BY <3>1, <3>2, <3>3
  <2>4. CASE volume.ends # "whole"
    <3>1. Asked'.ends # "whole"
      BY <1>2, <2>2, <2>4
    <3>2. \/ pc' = "detected"
          \/ pc' = "exited" /\ exit' \in {6, 7}
      BY <2>1
    <3>3. ExitIsFirstReason'
      BY <1>6, <3>1, <3>2 DEF ExitIsFirstReason, Asked
    <3>4. volume' = Asked' /\ Clear(5)' /\ volume'.ends # "whole"
      BY <1>2, <2>2, <2>4
    <3> QED
      BY <3>2, <3>3, <3>4 DEF ReasonInv
  <2> QED
    BY <2>3, <2>4
<1> QED
  BY <1>7, <1>8, <1>9, <1>10, <1>11, <1>12

LEMMA CommandReasons ==
  ASSUME InvocationInv, ReasonInv, changes = 0,
         \/ ShowInfo \/ RefuseHidden \/ Search \/ ReportNotFound \/ Show
         \/ RejectDate \/ Edit
  PROVE  ReasonInv'
<1> USE DEF world, Exit, Go
<1>1. /\ args' = args /\ disk' = disk /\ changes' = changes
      /\ volume' = volume /\ pc \in {"detected", "searched"}
  BY DEF ShowInfo, RefuseHidden, Search, ReportNotFound, Show, RejectDate, Edit
<1>2. /\ Asked' = Asked /\ argv(1)' = argv(1) /\ argv(2)' = argv(2)
      /\ \A k \in 0 .. 7 : Clear(k)' <=> Clear(k)
  BY <1>1, ReasonsStay, DecisionsStay
<1>3. Clear(5) /\ volume = Asked /\ (volume.ends = "whole" => Clear(7))
  BY <1>1 DEF ReasonInv
<1>4. (\A i \in 1 .. 8 : ReasonOrder[i] = exit /\ Reason(exit, Asked) /\ Clear(i - 1)
                          => ExitIsFirstReason)'
  BY NamesFirst, PTL
<1>5. (exit = 0 /\ Clear(7) /\ ~Reason(8, Asked) => ExitIsFirstReason)'
  BY NamesNothing, PTL
<1>6. ASSUME pc' = "exited", exit' \in {0, 8}, volume.ends # "whole"
      PROVE  ReasonInv'
  <2>1. Asked'.ends # "whole"
    BY <1>2, <1>3, <1>6
  <2>2. ExitIsFirstReason'
    BY <1>6, <2>1 DEF ExitIsFirstReason, Asked
  <2> QED
    BY <1>6, <2>2 DEF ReasonInv
<1>7. ASSUME Done("info") \/ Done("refused") \/ Done("notfound")
               \/ Done(Shown[argv(1)]) \/ Done(argv(1)),
             ~(argv(1) = "-d" /\ found' /\ argv(2) \notin GoodDates)
      PROVE  ReasonInv'
  <2>1. pc' = "exited" /\ exit' = 0
    BY <1>7 DEF Done
  <2>2. CASE volume.ends = "whole"
    <3>1. ~Reason(8, Asked)'
      BY <1>2, <1>7 DEF Reason
    <3>2. Clear(7)'
      BY <1>2, <1>3, <2>2
    <3>3. ExitIsFirstReason'
      BY <1>5, <2>1, <3>1, <3>2
    <3> QED
      BY <2>1, <3>3 DEF ReasonInv
  <2> QED
    BY <1>6, <2>1, <2>2
<1>8. CASE ShowInfo
  BY <1>7, <1>8 DEF ShowInfo
<1>9. CASE RefuseHidden
  BY <1>7, <1>9 DEF RefuseHidden, Refused, NeedFAT32
<1>10. CASE Search
  <2>1. pc' \in {"searched", "crashed"}
    BY <1>10 DEF Search
  <2>2. ExitIsFirstReason'
    BY <2>1 DEF ExitIsFirstReason
  <2> QED
    BY <1>1, <1>2, <1>3, <2>1, <2>2 DEF ReasonInv
<1>11. CASE ReportNotFound
  BY <1>7, <1>11 DEF ReportNotFound
<1>12. CASE Show
  BY <1>7, <1>12 DEF Show, Searching
<1>13. CASE RejectDate
  <2>1. pc' = "exited" /\ exit' = 8
    BY <1>13 DEF RejectDate
  <2>2. CASE volume.ends = "whole"
    <3>1. Reason(8, Asked)'
      BY <1>2, <1>13 DEF RejectDate, DatePassed, Reason
    <3>2. Clear(7)' /\ ReasonOrder[8] = exit'
      BY <1>2, <1>3, <2>1, <2>2, Order
    <3>3. Reason(exit, Asked)'
      BY <2>1, <3>1 DEF Reason
    <3>4. ExitIsFirstReason'
      <4>1. 8 \in 1 .. 8 /\ 8 - 1 = 7
        OBVIOUS
      <4> QED
        BY <1>4, <3>2, <3>3, <4>1 DEF ReasonOrder
    <3> QED
      BY <2>1, <3>4 DEF ReasonInv
  <2> QED
    BY <1>6, <2>1, <2>2
<1>14. CASE Edit
  BY <1>7, <1>14 DEF Edit, DatePassed
<1> QED
  BY <1>8, <1>9, <1>10, <1>11, <1>12, <1>13, <1>14

LEMMA ReasonNext == InvocationInv /\ ReasonInv /\ [Next]_vars => ReasonInv'
<1> SUFFICES ASSUME InvocationInv, ReasonInv, [Next]_vars, changes' = 0
             PROVE  ReasonInv'
  BY DEF ReasonInv
<1>1. CASE Change
  <2>1. changes' = changes + 1 /\ changes \in 0 .. MaxChanges
    BY <1>1 DEF Change, InvocationInv, TypeOK
  <2> QED
    BY <2>1, MaxChangesAssumption
<1>2. CASE Next /\ ~Change
  <2>1. changes = 0
    BY <1>2
    DEF Next, RejectCount, RejectCommand, CheckExists, CheckReadable, Open,
        Detect, ShowInfo, RefuseHidden, Search, ReportNotFound, Show,
        RejectDate, Edit, world
  <2> QED
    BY <1>2, <2>1, EarlyReasons, CommandReasons DEF Next
<1>3. CASE UNCHANGED vars
  <2>1. /\ args' = args /\ disk' = disk /\ changes = 0 /\ pc' = pc
        /\ volume' = volume /\ exit' = exit /\ found' = found
    BY <1>3 DEF vars
  <2>2. Asked' = Asked /\ \A k \in 0 .. 7 : Clear(k)' <=> Clear(k)
    BY <2>1, ReasonsStay
  <2>3. /\ argv(1)' = argv(1) /\ argv(2)' = argv(2) /\ argc' = argc
        /\ Meaning' = Meaning
    BY <2>1, DecisionsStay DEF argc
  <2>4. ExitIsFirstReason' <=> ExitIsFirstReason
    BY <2>1, <2>3 DEF ExitIsFirstReason, Reason, Families
  <2> QED
    BY <2>1, <2>2, <2>4 DEF ReasonInv
<1> QED
  BY <1>1, <1>2, <1>3

\* On a volume that nobody changes meanwhile, and that reaches beyond its
\* superblock, the exit status of any command line is that of its first reason
\* to stop, and 0 says that there is none: about which status it is, not about
\* whether the program should serve more formats.
THEOREM ExitNamesFirstReason == Spec => []ExitIsFirstReason
<1>1. Spec => []ReasonInv
  BY InvocationInvariant, ReasonInit, ReasonNext, PTL DEF Spec
<1>2. ReasonInv => (changes = 0 => ExitIsFirstReason)
  BY DEF ReasonInv
<1>3. (changes = 0 => ExitIsFirstReason) => ExitIsFirstReason
  BY Zenon DEF ExitIsFirstReason
<1> QED
  BY <1>1, <1>2, <1>3, PTL
=============================================================================

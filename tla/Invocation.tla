----------------------------- MODULE Invocation -----------------------------
(***************************************************************************)
(* One invocation of the program, from main to its exit status: assertArgs *)
(* and executeCommand of shell/commands.c, initVolume and                  *)
(* detectSupportedFileSystem of fs_utils/common.c, and the dispatch of     *)
(* functionalities/functionalities.c.  The volume is named on the command  *)
(* line three times over: what is validated, what is checked with access() *)
(* and what is opened are chosen by separate pieces of code, and the file  *)
(* behind the path may change between these calls.                         *)
(*                                                                         *)
(* Whether the search finds its target is module Fat32Search's subject,    *)
(* what an edit writes that of Fat32Edit: here the first is a choice and   *)
(* the second a record of what was asked of whom.                          *)
(***************************************************************************)
EXTENDS Integers, Sequences

CONSTANTS
  Word,        \* the arguments after the command, as strings
  NULL,        \* argv[argc]
  Missing,     \* no file at a path
  GoodDates,   \* the words that strptime accepts as %d%m%Y
  ArgLists,    \* the command lines: what follows the program's name
  Disks,       \* what may be found at each path at first
  Volumes,     \* the files that somebody may put at a path meanwhile
  MaxChanges   \* bound on how often that happens

Editing == {"-r", "-w", "-h", "-s", "-d"}

Searching == {"-search", "-deepsearch", "-show"}

Command == {"-info"} \cup Searching \cup Editing

\* What the detection reads of a volume: the superblock's magic number and
\* two feature flags, and the type strings at their two places.
Marks == [magic : BOOLEAN, extents : BOOLEAN, journal : BOOLEAN,
          type1216 : {"FAT12", "FAT16", "other"}, type32 : {"FAT32", "other"}]

\* ends says how far the file goes: nowhere, to its boot sector, or beyond its
\* superblock.
Volume == [readable : BOOLEAN, writable : BOOLEAN,
           ends : {"empty", "boot", "whole"}, marks : Marks]

ASSUME WordAssumption == NULL \notin Word /\ GoodDates \subseteq Word
ASSUME MissingAssumption == Missing \notin Volume
ASSUME ArgListsAssumption ==
  \A a \in ArgLists : /\ a \in Seq(Command \cup Word)
                      /\ \A i \in 2 .. Len(a) : a[i] \in Word
ASSUME VolumesAssumption == Volumes \subseteq Volume
ASSUME DisksAssumption == Disks \subseteq [Word -> Volume \cup {Missing}]
ASSUME MaxChangesAssumption == MaxChanges \in Nat

VARIABLES
  args,     \* argv[1], argv[2], ...
  disk,     \* the file at each path
  changes,  \* how often somebody has changed that
  pc,
  checked,  \* the argument access() was asked about
  opened,   \* the argument that was opened
  volume,   \* the file behind the descriptor
  fs,       \* the file system that was detected
  found,    \* whether the search found its target
  did,      \* what the invocation has done
  exit      \* its exit status

vars ==
  <<args, disk, changes, pc, checked, opened, volume, fs, found, did, exit>>

argc == Len(args) + 1

argv(i) == IF i < argc THEN args[i] ELSE NULL

NoDeed == [what |-> "nothing", target |-> NULL]

Deeds == {"nothing", "info", "root", "all", "content", "notfound", "refused",
          "-r", "-w", "-h", "-s", "-d"}

TypeOK ==
  /\ args \in Seq(Command \cup Word)
  /\ disk \in [Word -> Volume \cup {Missing}]
  /\ changes \in 0 .. MaxChanges
  /\ pc \in {"start", "exists", "checked", "opened", "detected", "searched",
             "exited", "crashed"}
  /\ checked \in Word \cup {NULL}
  /\ opened \in Word \cup {NULL}
  /\ volume \in Volume \cup {Missing}
  /\ fs \in {"FAT32", "EXT4", "unknown"}
  /\ found \in BOOLEAN
  /\ did \in [what : Deeds, target : Word \cup {NULL}]
  /\ exit \in 0 .. 8

-----------------------------------------------------------------------------
(***************************************************************************)
(* The code's decisions                                                    *)
(***************************************************************************)

\* __isValidCommand
isValidCommand ==
  argv(1) \in Command /\ (argv(1) # "-info" => argc >= 4)

\* The argument that assertArgs has checked.
SecondAlways == argv(2)

VolumeChecked == IF argv(1) = "-d" THEN argv(3) ELSE argv(2)

\* The arguments that executeCommand passes on as volume, target and date.
VolumePassed == IF argv(1) = "-d" THEN argv(3) ELSE argv(2)

TargetPassed == IF argv(1) = "-d" THEN argv(4) ELSE argv(3)

DatePassed == argv(2)

isExt(m) == m.magic

getExtVersion(m) ==
  IF m.extents THEN "EXT4" ELSE IF m.journal THEN "EXT3" ELSE "EXT2"

isFAT(m) ==
  IF m.type1216 # "other" THEN m.type1216
  ELSE IF m.type32 = "FAT32" THEN "FAT32" ELSE "none"

\* As detectSupportedFileSystem, were the FAT only asked of other volumes.
ExtFirst(m) ==
  IF isExt(m) THEN getExtVersion(m)
  ELSE IF isFAT(m) # "none" THEN isFAT(m) ELSE "unknown"

\* The file system that detectSupportedFileSystem settles on.
Detected(m) ==
  IF isExt(m) /\ isFAT(m) = "none" THEN getExtVersion(m)
  ELSE IF ~isExt(m) /\ isFAT(m) # "none" THEN isFAT(m) ELSE "unknown"

\* A read after the end of the file leaves the variable uninitialised.
MarksRead(v) ==
  { m \in Marks :
      /\ v.ends # "empty" =>
           m.type1216 = v.marks.type1216 /\ m.type32 = v.marks.type32
      /\ v.ends = "whole" => m = v.marks }

SupportedToo == {"FAT16", "FAT32", "EXT4"}

Supported == {"FAT32", "EXT4"}

\* setFileHidden refuses file systems that have no such attribute.
HideNeedsFAT32 == {"-h"}

NeedFAT32 == {"-h", "-s"}

Refused == argv(1) \in NeedFAT32 /\ fs # "FAT32"

\* What the search commands show of the file they find.
Shown == [c \in Searching |-> CASE c = "-search"     -> "root"
                                [] c = "-deepsearch" -> "all"
                                [] c = "-show"       -> "content"]

-----------------------------------------------------------------------------
(***************************************************************************)
(* The machine                                                             *)
(***************************************************************************)

Init ==
  /\ args \in ArgLists
  /\ disk \in Disks
  /\ changes = 0
  /\ pc = "start"
  /\ checked = NULL
  /\ opened = NULL
  /\ volume = Missing
  /\ fs = "unknown"
  /\ found = FALSE
  /\ did = NoDeed
  /\ exit = 0

Exit(code) == pc' = "exited" /\ exit' = code

Go(label) == pc' = label /\ exit' = exit

world == <<args, disk, changes>>

RejectCount ==
  /\ pc = "start"
  /\ argc < 3
  /\ Exit(1)
  /\ UNCHANGED <<world, checked, opened, volume, fs, found, did>>

RejectCommand ==
  /\ pc = "start"
  /\ argc >= 3
  /\ ~isValidCommand
  /\ Exit(2)
  /\ UNCHANGED <<world, checked, opened, volume, fs, found, did>>

\* access(volume, F_OK)
CheckExists ==
  /\ pc = "start"
  /\ argc >= 3
  /\ isValidCommand
  /\ checked' = VolumeChecked
  /\ IF disk[VolumeChecked] = Missing THEN Exit(3) ELSE Go("exists")
  /\ UNCHANGED <<world, opened, volume, fs, found, did>>

\* access(volume, R_OK), which also fails where the file has gone meanwhile.
CheckReadable ==
  /\ pc = "exists"
  /\ IF disk[checked] # Missing /\ disk[checked].readable
       THEN Go("checked") ELSE Exit(4)
  /\ UNCHANGED <<world, checked, opened, volume, fs, found, did>>

\* initVolume: every command opens its volume for reading and writing.
Open ==
  /\ pc = "checked"
  /\ LET v == disk[VolumePassed] IN
     IF v # Missing /\ v.readable /\ v.writable
       THEN opened' = VolumePassed /\ volume' = v /\ Go("opened")
       ELSE Exit(5) /\ UNCHANGED <<opened, volume>>
  /\ UNCHANGED <<world, checked, fs, found, did>>

Detect ==
  /\ pc = "opened"
  /\ \E m \in MarksRead(volume) :
       CASE Detected(m) \in Supported -> fs' = Detected(m) /\ Go("detected")
         [] Detected(m) = "unknown"   -> Exit(7) /\ UNCHANGED fs
         [] OTHER                     -> Exit(6) /\ UNCHANGED fs
  /\ UNCHANGED <<world, checked, opened, volume, found, did>>

Done(what) ==
  /\ did' = [what |-> what, target |-> TargetPassed]
  /\ Exit(0)

ShowInfo ==
  /\ pc = "detected"
  /\ argv(1) = "-info"
  /\ Done("info")
  /\ UNCHANGED <<world, checked, opened, volume, fs, found>>

RefuseHidden ==
  /\ pc = "detected"
  /\ Refused
  /\ Done("refused")
  /\ UNCHANGED <<world, checked, opened, volume, fs, found>>

\* The search calls strcmp on the target.  Without one it finds nothing, or
\* it dereferences NULL at the first file it could compare.
Search ==
  /\ pc = "detected"
  /\ argv(1) # "-info"
  /\ ~Refused
  /\ \/ TargetPassed # NULL /\ found' \in BOOLEAN /\ Go("searched")
     \/ TargetPassed = NULL /\ found' = FALSE /\ Go("searched")
     \/ TargetPassed = NULL /\ found' = FALSE /\ Go("crashed")
  /\ UNCHANGED <<world, checked, opened, volume, fs, did>>

ReportNotFound ==
  /\ pc = "searched"
  /\ ~found
  /\ Done("notfound")
  /\ UNCHANGED <<world, checked, opened, volume, fs, found>>

Show ==
  /\ pc = "searched"
  /\ found
  /\ argv(1) \in Searching
  /\ Done(Shown[argv(1)])
  /\ UNCHANGED <<world, checked, opened, volume, fs, found>>

\* A date is only looked at once the file has been found.
RejectDate ==
  /\ pc = "searched"
  /\ found
  /\ argv(1) = "-d"
  /\ DatePassed \notin GoodDates
  /\ Exit(8)
  /\ UNCHANGED <<world, checked, opened, volume, fs, found, did>>

Edit ==
  /\ pc = "searched"
  /\ found
  /\ argv(1) \in Editing
  /\ argv(1) = "-d" => DatePassed \in GoodDates
  /\ Done(argv(1))
  /\ UNCHANGED <<world, checked, opened, volume, fs, found>>

\* Somebody removes, replaces or protects a file before it is opened.
Change ==
  /\ pc \in {"exists", "checked"}
  /\ changes < MaxChanges
  /\ changes' = changes + 1
  /\ \E w \in Word, v \in Volumes \cup {Missing} :
       v # disk[w] /\ disk' = [disk EXCEPT ![w] = v]
  /\ UNCHANGED <<args, pc, checked, opened, volume, fs, found, did, exit>>

Next ==
  \/ RejectCount
  \/ RejectCommand
  \/ CheckExists
  \/ CheckReadable
  \/ Open
  \/ Detect
  \/ ShowInfo
  \/ RefuseHidden
  \/ Search
  \/ ReportNotFound
  \/ Show
  \/ RejectDate
  \/ Edit
  \/ Change

Spec == Init /\ [][Next]_vars

-----------------------------------------------------------------------------
(***************************************************************************)
(* Properties                                                              *)
(***************************************************************************)

\* assertArgs and executeCommand, which choose it separately, mean the same
\* argument by the volume, whatever the command and the number of arguments.
OpensWhatItChecked == opened # NULL => opened = checked

\* What a command line with all its words means to executeCommand.  The usage
\* texts give -d other arguments: VolumeAsInUsage below.
Meaning ==
  IF argv(1) = "-d"
  THEN [date |-> argv(2), volume |-> argv(3), target |-> argv(4)]
  ELSE [date |-> NULL, volume |-> argv(2), target |-> argv(3)]

\* A volume is written by the command that was given, on the target it names,
\* in a file system that has what it edits, with a date that parses, and never
\* by an invocation that ends in an error.
OnlyAskedEdits ==
  did.what \in Editing =>
    /\ did.what = argv(1)
    /\ did.target = Meaning.target /\ did.target # NULL
    /\ opened = Meaning.volume /\ volume.writable
    /\ fs = "EXT4" => did.what \in {"-r", "-w", "-d"}
    /\ did.what = "-d" => Meaning.date \in GoodDates
    /\ found /\ pc = "exited" /\ exit = 0

\* The families of file systems whose marks a volume bears.
Families(m) ==
  (IF m.magic THEN {"EXT"} ELSE {})
    \cup (IF m.type1216 # "other" \/ m.type32 # "other" THEN {"FAT"} ELSE {})

\* What each exit status reports of the arguments and of the volume v, by the
\* names of lib/exitCodes.h.  6 stands for what the detection recognises and the
\* dispatch does not serve; src/README.md promises some of it: see
\* DocumentedFormatsServed below.
Reason(code, v) ==
  CASE code = 1 -> argc < 3
    [] code = 2 -> argv(1) \notin Command \/ (argv(1) # "-info" /\ argc < 4)
    [] code = 3 -> v = Missing
    [] code = 4 -> ~v.readable
    [] code = 5 -> ~v.writable
    [] code = 6 -> v.marks.type1216 # "other"
                   \/ (v.marks.magic /\ ~v.marks.extents)
    [] code = 7 -> Families(v.marks) \notin {{"EXT"}, {"FAT"}}
    [] code = 8 -> argv(1) = "-d" /\ found /\ argv(2) \notin GoodDates

\* The order in which they are looked for.  That a volume's marks contradict
\* each other is seen before what they name.
ReasonOrder == <<1, 2, 3, 4, 5, 7, 6, 8>>

\* Where nobody interferes an invocation does not exit with a status whose
\* reason is absent, nor with a later one while an earlier one is there, and
\* with 0 only if there is none.  (A file that ends before the superblock may be
\* taken for anything.)  It says which status an invocation ends with, not that
\* it should refuse what it refuses: of that are the next two properties.
ExitIsFirstReason ==
  LET v == disk[Meaning.volume]
      Holds(i) == Reason(ReasonOrder[i], v)
  IN pc = "exited" /\ changes = 0 /\ (exit \in {0, 6, 7, 8} => v.ends = "whole") =>
       \/ exit = 0 /\ \A i \in 1 .. 8 : ~Holds(i)
       \/ \E i \in 1 .. 8 :
            ReasonOrder[i] = exit /\ Holds(i) /\ \A j \in 1 .. i - 1 : ~Holds(j)

-----------------------------------------------------------------------------
(***************************************************************************)
(* What the documentation promises and the code does not do                *)
(***************************************************************************)

\* src/README.md: "This project designs and implements an application which
\* allows to recognize and manipulate volumes formatted as" these.
DocumentedFormats == {"EXT2", "EXT3", "EXT4", "FAT16", "FAT32"}

\* The format of a volume whose marks are of one family.
Format(m) == IF m.magic THEN getExtVersion(m) ELSE isFAT(m)

\* No invocation refuses a volume of a documented format as not supported.
DocumentedFormatsServed ==
  pc = "exited" /\ exit = 6 /\ volume.ends = "whole" =>
    Format(volume.marks) \notin DocumentedFormats

\* commands.c:20, 47: the usage of every command is {...|-d} <volume> <target>,
\* so that the volume an invocation opens is the argument behind the command.
VolumeAsInUsage == opened # NULL => opened = argv(2)
=============================================================================

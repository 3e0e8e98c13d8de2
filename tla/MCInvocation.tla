---------------------------- MODULE MCInvocation ----------------------------
(***************************************************************************)
(* An instance of Invocation with four argument words, of which two may be *)
(* paths of files; a fifth word is no file's path and no date.             *)
(***************************************************************************)
EXTENDS Invocation

CONSTANTS volA, volB, name, date

MCWord == {volA, volB, name, date}

MCGoodDates == {date}

\* Every command line of up to four words; also one that is no command.
MCArgLists ==
  {<< >>} \cup
  { <<c>> \o rest : c \in Command \cup {name},
                    rest \in UNION { [1 .. n -> MCWord] : n \in 0 .. 3 } }

Blank == [magic |-> FALSE, extents |-> FALSE, journal |-> FALSE,
          type1216 |-> "other", type32 |-> "other"]

Formats ==
  { [Blank EXCEPT !.type32 = "FAT32"],
    [Blank EXCEPT !.type1216 = "FAT12"],
    [Blank EXCEPT !.type1216 = "FAT16"],
    [Blank EXCEPT !.magic = TRUE],
    [Blank EXCEPT !.magic = TRUE, !.journal = TRUE],
    [Blank EXCEPT !.magic = TRUE, !.extents = TRUE],
    [Blank EXCEPT !.magic = TRUE, !.extents = TRUE, !.type32 = "FAT32"],
    Blank }

File(r, w, e, m) == [readable |-> r, writable |-> w, ends |-> e, marks |-> m]

FAT32Marks == [Blank EXCEPT !.type32 = "FAT32"]

FAT32Volume == File(TRUE, TRUE, "whole", FAT32Marks)

MCVolumes ==
  { File(TRUE, TRUE, "whole", m) : m \in Formats }
    \cup { File(FALSE, TRUE, "whole", Blank), File(FALSE, FALSE, "whole", Blank),
           File(TRUE, FALSE, "whole", FAT32Marks),
           File(TRUE, TRUE, "boot", FAT32Marks),
           File(TRUE, TRUE, "empty", Blank) }

\* Every file at the first path, and a FAT32 volume or nothing at the second.
MCDisks ==
  { [w \in MCWord |-> CASE w = volA -> a [] w = volB -> b [] OTHER -> Missing] :
      a \in MCVolumes \cup {Missing}, b \in {FAT32Volume, Missing} }
=============================================================================

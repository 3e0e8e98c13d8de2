---------------------------- MODULE MCFat32Edit ----------------------------
(***************************************************************************)
(* Instances of Fat32Edit: three invocations of any mix of requests on two *)
(* files and a missing one.                                                *)
(***************************************************************************)
EXTENDS Fat32Edit

MCDay(day, month, year) == [day |-> day, month |-> month, year |-> year]

\* The ends of the range of years, and the years next to them.
MCDates ==
  { MCDay(31, 11, 1979), MCDay(1, 0, 1980), MCDay(29, 8, 2107),
    MCDay(1, 1, 2108) }

MCRequest(op, target, value, date) ==
  [op |-> op, target |-> target, value |-> value, date |-> date]

MCRequests ==
  { MCRequest(op, "a", v, BadDate) : op \in Editable, v \in BOOLEAN }
  \cup { MCRequest("date", "a", TRUE, d) : d \in MCDates \cup {BadDate} }
  \cup { MCRequest("hidden", "b", TRUE, BadDate),
         MCRequest("date", "b", TRUE, MCDay(1, 0, 1980)),
         MCRequest("ronly", Absent, TRUE, BadDate) }
=============================================================================

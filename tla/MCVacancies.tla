---------------------------- MODULE MCVacancies -----------------------------
(***************************************************************************)
(* A small catalogue for TLC: one posting of two employers, sent cleaned   *)
(* and with a trailing blank, in bodies that differ in one content field,  *)
(* in the employer or in the employer's name.                              *)
(***************************************************************************)
EXTENDS Vacancies, TLC

MCRawIds == {"v1", "v1 ", "c1", "c2"}

MCCanon == [r \in MCRawIds |-> IF r = "v1 " THEN "v1" ELSE r]

MCFields == {"title", "archived"}

Body(posting, employer, name, title, archived) ==
  [posting |-> posting, employer |-> employer, name |-> name,
   content |-> [f \in MCFields |-> IF f = "title" THEN title ELSE archived]]

MCCreates == {Body("v1", "c1", "n1", 0, 0), Body("v1 ", "c1", "n1", 0, 0)}

MCIngests ==
  {Body("v1", "c1", "n1", 0, 0), Body("v1 ", "c2", "n2", 1, 0),
   Body("v1", "c1", "n1", 0, 1)}

(* Two of them contend for one company row.                               *)
MCFewIngests ==
  {Body("v1", "c1", "n1", 0, 0), Body("v1", "c1", "n2", 0, 0)}

(* Row ids are arbitrary uuids and workers are alike; the properties of    *)
(* this run are safety properties.                                         *)
Symmetry ==
  Permutations(Workers) \cup Permutations(VacancyIds) \cup
  Permutations(CompanyIds)

=============================================================================

---------------------------- MODULE MCSearchRuns ----------------------------
(***************************************************************************)
(* Two server threads, once with clients that write the same run and once  *)
(* with a run of their own each.                                           *)
(***************************************************************************)
EXTENDS SearchRuns, TLC

SharedDrives == [w \in Workers |-> Runs]

(* Worker and run are paired by an arbitrary bijection. *)
OwnDrives ==
  LET owner == CHOOSE f \in [Workers -> Runs] :
                 \A u, w \in Workers : u # w => f[u] # f[w]
  IN [w \in Workers |-> {owner[w]}]

MCPatches ==
  {[text |-> "t2", filters |-> NULL], [text |-> NULL, filters |-> "f2"],
   [text |-> Blank, filters |-> "f1"]}

MCStarts ==
  {[kind |-> "profile_search", profile |-> p, resume |-> FALSE,
    execution |-> TRUE] : p \in Profiles \cup {NULL}}
  \cup
  {[kind |-> "resume_suitable", profile |-> p, resume |-> m,
    execution |-> x] : p \in Profiles \cup {NULL}, m, x \in BOOLEAN}

(* One source id with two outcomes, one that fails without a vacancy, and  *)
(* three bodies that are refused.                                          *)
Item(r, x, v, o) == [run |-> r, externalId |-> x, vacancy |-> v, outcome |-> o]

MCNewItems ==
  UNION {{Item(r, "x1", "v1", "created"), Item(r, "x1", "v1", "updated"),
          Item(r, "x2", NULL, "error"), Item(r, "x2", NULL, "created"),
          Item(r, "x2", "ghost", "created"), Item(r, Blank, NULL, "error")} :
         r \in Runs}

MCFinalizes ==
  {[status |-> "success", sourceTotal |-> 7, errorCode |-> NULL],
   [status |-> "failed", sourceTotal |-> NULL, errorCode |-> "e"],
   [status |-> "running", sourceTotal |-> NULL, errorCode |-> NULL]}

(* Smaller sets for the two-run instance: every start and item is valid on *)
(* its own, the profile does not change.                                   *)
OwnStarts ==
  {[kind |-> "resume_suitable", profile |-> NULL, resume |-> TRUE,
    execution |-> TRUE]}

OwnNewItems ==
  UNION {{Item(r, "x1", "v1", "created"), Item(r, "x1", "v1", "updated"),
          Item(r, "x2", NULL, "error")} : r \in Runs}

ItemSymmetry == Permutations(ItemIds)

Symmetry == Permutations(Workers) \cup Permutations(ItemIds)

=============================================================================

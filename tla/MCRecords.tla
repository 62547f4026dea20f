----------------------------- MODULE MCRecords ------------------------------
(***************************************************************************)
(* Few bodies that meet in every way that matters: the same identity with  *)
(* other content, the same scoring under another identity, a person of     *)
(* another company, a reference to a vacancy that may not exist yet.       *)
(***************************************************************************)
EXTENDS Records, TLC

B(kind, identity, note, vacancy, company, scoring) ==
  [kind |-> kind, identity |-> identity, note |-> note, vacancy |-> vacancy,
   company |-> company, scoring |-> scoring]

Hypothesis(note) == B("hypothesis", "x1", note, NULL, NULL, NULL)

Assessment(identity, note) == B("assessment", identity, note, "v1", NULL, "s1")

MCRequests ==
  {<<"k1", B("application", "x1", "n1", "v1", NULL, NULL)>>,
   <<"k1", B("person", "x1", "n1", "v1", "c1", NULL)>>,
   <<"k2", B("person", "x2", "n1", NULL, "unknown", NULL)>>,
   <<"k1", Hypothesis("n1")>>, <<"k1", Hypothesis("n2")>>,
   <<"k2", Hypothesis("n1")>>,
   <<"k1", Assessment("x1", "n1")>>, <<"k2", Assessment("x2", "n1")>>}

(* The key of an assessment, once more for other input of another scoring. *)
MCReusedKey ==
  {<<"k1", Assessment("x1", "n1")>>, <<"k2", Assessment("x2", "n1")>>,
   <<"k2", B("assessment", "x2", "n2", "v1", NULL, NULL)>>}

(* Two hypotheses are enough for closes that cross. *)
MCHypotheses == {<<"k1", Hypothesis("n1")>>, <<"k2", Hypothesis("n2")>>}

Symmetry == Permutations(Workers) \cup Permutations(Ids)

=============================================================================

--------------------------- MODULE MCDailyMetrics ---------------------------
(***************************************************************************)
(* Three partial PUTs of one date whose fields overlap, one of another     *)
(* date, and one key that is used for two requests.                        *)
(***************************************************************************)
EXTENDS DailyMetrics, TLC

Put(date, values) == [date |-> date, values |-> values]

Replies(n) == [f \in {"replies"} |-> n]

Both(m, n) == [f \in {"replies", "notes"} |-> IF f = "replies" THEN m ELSE n]

MCRequests ==
  {<<"k1", Put("d1", Replies(1))>>, <<"k1", Put("d2", Replies(1))>>,
   <<"k2", Put("d1", Both(2, 1))>>, <<"k3", Put("d1", Both(1, 2))>>,
   <<"k4", Put("d1", Replies(NULL))>>}

Symmetry == Permutations(Workers)

=============================================================================

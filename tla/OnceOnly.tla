------------------------------ MODULE OnceOnly ------------------------------
(***************************************************************************)
(* What an idempotent create promises its clients.  A request is a key     *)
(* together with a body.  Its first success names a record, and every      *)
(* later success of that request names the same one, for ever.  A record   *)
(* is made for one request; another request is answered with it only if    *)
(* the two are Alike.                                                      *)
(***************************************************************************)
CONSTANTS Requests, Records, None, Alike(_, _)

VARIABLE answer   \* the record every request was answered with, or None

Init == answer = [q \in Requests |-> None]

Unused(r) == \A p \in Requests : answer[p] # r

Answer(q, r) ==
  /\ answer[q] = None
  /\ Unused(r) \/ \E p \in Requests : answer[p] = r /\ Alike(p, q)
  /\ answer' = [answer EXCEPT ![q] = r]

Next == \E q \in Requests, r \in Records : Answer(q, r)

Spec == Init /\ [][Next]_answer

=============================================================================

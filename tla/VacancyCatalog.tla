--------------------------- MODULE VacancyCatalog ---------------------------
(***************************************************************************)
(* What the vacancy catalogue promises its clients, whatever runs          *)
(* concurrently: a posting is listed at most once and never disappears, it *)
(* is listed as new, an idempotency key belongs to one posting for ever,   *)
(* and from then on nothing of this but the status changes.                *)
(***************************************************************************)
EXTENDS Naturals

CONSTANTS Postings, Keys, Statuses, New, Unlisted, NoKey

VARIABLES
  listed,   \* the entry of every posting, Unlisted before it has one
  Now       \* the time, which this specification only reads

Entry == [status: Statuses, key: Keys \cup {NoKey}, firstSeen: Nat]

Init == listed = [p \in Postings |-> Unlisted]

List(p, k) ==
  /\ listed[p] = Unlisted
  /\ k # NoKey => \A q \in Postings : listed[q] # Unlisted => listed[q].key # k
  /\ listed' = [listed EXCEPT ![p] =
                  [status |-> New, key |-> k, firstSeen |-> Now]]

SetStatus(p, s) ==
  /\ listed[p] # Unlisted
  /\ listed' = [listed EXCEPT ![p].status = s]

Next ==
  \E p \in Postings :
    \/ \E k \in Keys \cup {NoKey} : List(p, k)
    \/ \E s \in Statuses : SetStatus(p, s)

Spec == Init /\ [][Next]_listed

=============================================================================

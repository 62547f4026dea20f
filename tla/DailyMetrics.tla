---------------------------- MODULE DailyMetrics ----------------------------
(***************************************************************************)
(* metrics.py: one snapshot per calendar date, written by partial PUTs,    *)
(* and a journal of the Idempotency-Keys that were processed.  A worker    *)
(* serves one PUT at a time in one READ COMMITTED transaction: a SELECT of *)
(* the journal, a SELECT of the date, then a flush of both rows and the    *)
(* commit as one step.  Neither SELECT locks.                              *)
(***************************************************************************)
EXTENDS Naturals, UnitOfWork

CONSTANTS
  Workers,   \* request handlers
  Dates,     \* calendar dates
  Keys,      \* Idempotency-Key headers
  Fields,    \* counters and notes of a snapshot
  Values,    \* what a field may hold
  Requests,  \* the <<key, request>> pairs clients send
  NULL

Snapshot == [Fields -> Values \cup {NULL}]

(* exclude_unset: a request has the fields the client supplied, perhaps    *)
(* with null, and EmptyDailyMetricUpdateError refuses one that has none.   *)
Request ==
  [date: Dates,
   values: UNION {[S -> Values \cup {NULL}] : S \in SUBSET Fields \ {{}}}]

ASSUME MetricAssumption ==
  /\ Requests \subseteq Keys \X Request
  /\ NULL \notin Values \cup Snapshot \cup Request

VARIABLES
  metrics,  \* the committed snapshot of each date, NULL where none
  journal,  \* the request each processed key stands for, NULL where none
  txn       \* txn[w]: the PUT worker w serves

vars == <<metrics, journal, txn>>

Txn ==
  [pc: {"idle", "metric_select", "flush"}, key: Keys \cup {NULL},
   request: Request \cup {NULL}, loaded: Snapshot \cup {NULL}]

Idle == [pc |-> "idle", key |-> NULL, request |-> NULL, loaded |-> NULL]

Init ==
  /\ metrics = [d \in Dates |-> NULL]
  /\ journal = [k \in Keys |-> NULL]
  /\ txn = [w \in Workers |-> Idle]

(* A processed key is answered from the stored snapshot if the             *)
(* fingerprints, which cover the date, agree; else it is a conflict.       *)
Replay(w, k, r) ==
  /\ txn[w].pc = "idle"
  /\ journal[k] = r
  /\ UNCHANGED vars

SelectJournal(w, k, r) ==
  /\ txn[w].pc = "idle"
  /\ journal[k] = NULL
  /\ txn' = [txn EXCEPT ![w] =
       [Idle EXCEPT !.pc = "metric_select", !.key = k, !.request = r]]
  /\ UNCHANGED <<metrics, journal>>

SelectMetric(w) ==
  LET t == txn[w] IN
  /\ t.pc = "metric_select"
  /\ txn' = [txn EXCEPT ![w] =
       [t EXCEPT !.pc = "flush", !.loaded = metrics[t.request.date]]]
  /\ UNCHANGED <<metrics, journal>>

\* Mutant: exclude_none, for exclude_unset.
MergedNonNull(snapshot, values) ==
  [f \in Fields |-> IF f \in DOMAIN values /\ values[f] # NULL THEN values[f]
                    ELSE snapshot[f]]

(* setattr for every supplied field.                                       *)
Merged(snapshot, values) ==
  [f \in Fields |-> IF f \in DOMAIN values THEN values[f] ELSE snapshot[f]]

\* Mutant: a new date gets no value in the columns the client left out.
NewMetricUnfilled(values) == values

NewMetric(values) == Merged([f \in Fields |-> NULL], values)

\* Mutant: the UPDATE writes every column of the row as it was loaded.
FlushedWhole(snapshot, loaded, values) == Merged(loaded, values)

FlushedMetric(snapshot, loaded, values) ==
  Flushed(snapshot, loaded, Merged(loaded, values))

\* Mutant: uq_metric_requests_idempotency_key is missing.
ViolatesDateOnly(t) == t.loaded = NULL /\ metrics[t.request.date] # NULL

(* The primary key of a new date; uq_metric_requests_idempotency_key.      *)
ViolatesUnique(t) ==
  \/ t.loaded = NULL /\ metrics[t.request.date] # NULL
  \/ journal[t.key] # NULL

Flush(w) ==
  LET t == txn[w] IN
  /\ t.pc = "flush"
  /\ ~ ViolatesUnique(t)
  /\ metrics' = [metrics EXCEPT ![t.request.date] =
       IF t.loaded = NULL THEN NewMetric(t.request.values)
       ELSE FlushedMetric(@, t.loaded, t.request.values)]
  /\ journal' = [journal EXCEPT ![t.key] = t.request]
  /\ txn' = [txn EXCEPT ![w] = Idle]

(* A unique violation, a lost connection or a crash.                       *)
Rollback(w) ==
  /\ txn[w].pc # "idle"
  /\ txn' = [txn EXCEPT ![w] = Idle]
  /\ UNCHANGED <<metrics, journal>>

Next ==
  \E w \in Workers :
    \/ \E q \in Requests : Replay(w, q[1], q[2]) \/ SelectJournal(w, q[1], q[2])
    \/ SelectMetric(w)
    \/ Flush(w)
    \/ Rollback(w)

Spec == Init /\ [][Next]_vars

(***************************************************************************)
(* Properties.                                                             *)
(***************************************************************************)
(* Snapshots, journal and requests have the declared shape.                *)
TypeOK ==
  /\ metrics \in [Dates -> Snapshot \cup {NULL}]
  /\ journal \in [Keys -> Request \cup {NULL}]
  /\ txn \in [Workers -> Txn]

Processed(j, d) == {k \in Keys : j[k] # NULL /\ j[k].date = d}

\* The values that the PUTs of a journal supplied for one field of a date.
Supplied(j, d, f) ==
  {j[k].values[f] : k \in {i \in Processed(j, d) : f \in DOMAIN j[i].values}}

(* No processed PUT is lost, however PUTs of one date race: a processed    *)
(* key has its snapshot (metrics.py calls this an internal invariant), and *)
(* a field holds what a processed PUT supplied, or null if none did.       *)
NothingLost ==
  \A d \in Dates :
    /\ Processed(journal, d) # {} <=> metrics[d] # NULL
    /\ metrics[d] # NULL => \A f \in Fields :
         IF Supplied(journal, d, f) = {} THEN metrics[d][f] = NULL
         ELSE metrics[d][f] \in Supplied(journal, d, f)

Column(snapshot, f) == IF snapshot = NULL THEN NULL ELSE snapshot[f]

(* daily-metrics.md: a retry does not reapply an old partial update after  *)
(* a newer write.  Whatever is written is what a key that was not          *)
(* processed before supplied for that date, and its key is spent with it.  *)
ApplyOnce ==
  /\ \A k \in Keys : journal[k] # NULL => journal'[k] = journal[k]
  /\ \A d \in Dates, f \in Fields :
       Column(metrics'[d], f) # Column(metrics[d], f) =>
         \E k \in Keys :
           /\ journal[k] = NULL /\ journal'[k] # NULL
           /\ journal'[k].date = d /\ f \in DOMAIN journal'[k].values
           /\ metrics'[d][f] = journal'[k].values[f]

AppliedOnce == [][ApplyOnce]_vars

(* A PUT leaves each field it supplied as supplied, null included, and     *)
(* tells its client so.  The exception is a field in which it found its    *)
(* own value and another PUT stored a different one before it committed.   *)
YieldIfCrossed ==
  \A w \in Workers : LET t == txn[w] IN
    t.pc = "flush" /\ txn'[w] # t /\ journal' # journal =>
      LET d == t.request.date IN
      \A f \in DOMAIN t.request.values :
        \/ metrics'[d][f] = t.request.values[f]
        \/ /\ t.loaded # NULL /\ t.loaded[f] = t.request.values[f]
           /\ metrics[d][f] # t.loaded[f]

OnlyCrossedPutsYield == [][YieldIfCrossed]_vars

(***************************************************************************)
(* NothingLost, strengthened to what one step preserves: the snapshot a    *)
(* request has loaded was there for good, and its values were supplied.    *)
(***************************************************************************)
Ready(t) ==
  /\ t.pc # "idle" => t.key \in Keys /\ t.request \in Request
  /\ t.pc = "flush" /\ t.loaded # NULL =>
       /\ metrics[t.request.date] # NULL
       /\ \A f \in Fields :
            t.loaded[f] # NULL => t.loaded[f] \in Supplied(journal, t.request.date, f)

IInv == TypeOK /\ NothingLost /\ \A w \in Workers : Ready(txn[w])

=============================================================================

------------------------- MODULE DailyMetricsProofs -------------------------
(***************************************************************************)
(* Theorems about the daily metrics, for all dates, fields and clients.    *)
(***************************************************************************)
EXTENDS DailyMetrics, TLAPS

(***************************************************************************)
(* The helpers.                                                            *)
(***************************************************************************)
(* A request supplies values for fields.                                   *)
LEMMA RequestType ==
  ASSUME NEW r \in Request
  PROVE  /\ r.date \in Dates
         /\ \A f \in DOMAIN r.values :
              f \in Fields /\ r.values[f] \in Values \cup {NULL}
<1>1. PICK S \in SUBSET Fields : r.values \in [S -> Values \cup {NULL}]
  BY DEF Request
<1> QED
  BY <1>1 DEF Request

(* setattr keeps the shape of a snapshot.                                  *)
LEMMA MergedType ==
  ASSUME NEW s \in Snapshot, NEW r \in Request
  PROVE  Merged(s, r.values) \in Snapshot
  BY RequestType DEF Merged, Snapshot

(* A new date has null in every column the request leaves out.             *)
LEMMA NewMetricValue ==
  ASSUME NEW r \in Request
  PROVE  /\ NewMetric(r.values) \in Snapshot
         /\ \A f \in Fields :
              NewMetric(r.values)[f] =
                IF f \in DOMAIN r.values THEN r.values[f] ELSE NULL
<1>1. [f \in Fields |-> NULL] \in Snapshot
  BY DEF Snapshot
<1>2. NewMetric(r.values) \in Snapshot
  BY <1>1, MergedType DEF NewMetric
<1> QED
  BY <1>2 DEF NewMetric, Merged

(* An UPDATE writes the supplied values that differ from the loaded ones.  *)
LEMMA FlushedMetricValue ==
  ASSUME NEW s \in Snapshot, NEW l \in Snapshot, NEW r \in Request
  PROVE  /\ FlushedMetric(s, l, r.values) \in Snapshot
         /\ \A f \in Fields :
              FlushedMetric(s, l, r.values)[f] =
                IF f \in DOMAIN r.values /\ r.values[f] # l[f]
                THEN r.values[f] ELSE s[f]
<1> DEFINE m == Merged(l, r.values)
<1>1. m \in Snapshot
  BY MergedType
<1>2. \A f \in Fields : m[f] = IF f \in DOMAIN r.values THEN r.values[f] ELSE l[f]
  BY DEF Merged
<1>3. FlushedMetric(s, l, r.values) =
        [f \in Fields |-> IF m[f] # l[f] THEN m[f] ELSE s[f]]
  BY DEF FlushedMetric, Flushed, Snapshot
<1> HIDE DEF m
<1>4. FlushedMetric(s, l, r.values) \in Snapshot
  BY <1>1, <1>3 DEF Snapshot
<1> QED
  BY <1>2, <1>3, <1>4

(***************************************************************************)
(* The inductive invariant.                                                *)
(***************************************************************************)
LEMMA InitIInv == Init => IInv
  BY DEF Init, IInv, TypeOK, NothingLost, Ready, Processed, Supplied, Txn, Idle

(* Steps that write no row.                                                *)
LEMMA ReadingStep ==
  ASSUME IInv, NEW w \in Workers, NEW t \in Txn,
         txn' = [txn EXCEPT ![w] = t], Ready(t),
         UNCHANGED <<metrics, journal>>
  PROVE  IInv'
<1>1. TypeOK'
  BY DEF IInv, TypeOK
<1>2. NothingLost'
  BY DEF IInv, NothingLost
<1>3. ASSUME NEW v \in Workers PROVE Ready(txn[v])'
  <2>1. Ready(txn'[v])
    BY DEF IInv, TypeOK
  <2> QED
    BY <2>1 DEF Ready
<1> QED
  BY <1>1, <1>2, <1>3 DEF IInv

LEMMA IdleReady == Idle \in Txn /\ Ready(Idle)
  BY DEF Idle, Txn, Ready

LEMMA SelectJournalKeeps ==
  ASSUME IInv, NEW w \in Workers, NEW k, NEW r, <<k, r>> \in Requests,
         SelectJournal(w, k, r)
  PROVE  IInv'
<1> DEFINE t == [Idle EXCEPT !.pc = "metric_select", !.key = k, !.request = r]
<1>1. k \in Keys /\ r \in Request
  BY MetricAssumption
<1>2. t \in Txn /\ Ready(t)
  BY <1>1 DEF Idle, Txn, Ready
<1>3. txn' = [txn EXCEPT ![w] = t] /\ UNCHANGED <<metrics, journal>>
  BY DEF SelectJournal
<1> HIDE DEF t
<1> QED
  BY <1>2, <1>3, ReadingStep

(* What is stored was supplied, so what is loaded was supplied.            *)
LEMMA SelectMetricKeeps ==
  ASSUME IInv, NEW w \in Workers, SelectMetric(w)
  PROVE  IInv'
<1> DEFINE t == txn[w]
           d == t.request.date
           u == [t EXCEPT !.pc = "flush", !.loaded = metrics[d]]
<1>1. t \in Txn /\ t.pc = "metric_select" /\ Ready(t)
  BY DEF IInv, TypeOK, SelectMetric
<1>2. t.key \in Keys /\ t.request \in Request /\ d \in Dates
  BY <1>1, RequestType DEF Ready
<1>3. metrics[d] \in Snapshot \cup {NULL}
  BY <1>2 DEF IInv, TypeOK
<1>4. u \in Txn /\ u.pc = "flush" /\ u.loaded = metrics[d]
      /\ u.key = t.key /\ u.request = t.request
  BY <1>1, <1>3 DEF Txn
<1>5. metrics[d] # NULL =>
        \A f \in Fields : metrics[d][f] # NULL => metrics[d][f] \in Supplied(journal, d, f)
  BY <1>2 DEF IInv, NothingLost
<1>6. txn' = [txn EXCEPT ![w] = u] /\ UNCHANGED <<metrics, journal>>
  BY DEF SelectMetric
<1>7. Ready(u)
  BY <1>2, <1>4, <1>5 DEF Ready
<1> HIDE DEF u
<1> QED
  BY <1>4, <1>6, <1>7, ReadingStep

(* What a flush writes: the request under its fresh key, and its fields.   *)
LEMMA FlushWrites ==
  ASSUME IInv, NEW w \in Workers, Flush(w)
  PROVE  LET t == txn[w]
             d == t.request.date
         IN /\ t \in Txn /\ t.key \in Keys /\ t.request \in Request /\ d \in Dates
            /\ journal[t.key] = NULL
            /\ journal' = [journal EXCEPT ![t.key] = t.request]
            /\ txn' = [txn EXCEPT ![w] = Idle]
            /\ \A e \in Dates : e # d => metrics'[e] = metrics[e]
            /\ metrics' \in [Dates -> Snapshot \cup {NULL}]
            /\ metrics'[d] \in Snapshot
            /\ metrics[d] = NULL => \A f \in Fields :
                 metrics'[d][f] = IF f \in DOMAIN t.request.values
                                  THEN t.request.values[f] ELSE NULL
            /\ metrics[d] # NULL => t.loaded \in Snapshot /\ \A f \in Fields :
                 metrics'[d][f] =
                   IF f \in DOMAIN t.request.values
                      /\ t.request.values[f] # t.loaded[f]
                   THEN t.request.values[f] ELSE metrics[d][f]
<1> DEFINE t == txn[w]
           d == t.request.date
           n == IF t.loaded = NULL THEN NewMetric(t.request.values)
                ELSE FlushedMetric(metrics[d], t.loaded, t.request.values)
<1>1. t \in Txn /\ t.pc = "flush" /\ Ready(t)
  BY DEF IInv, TypeOK, Flush
<1>2. t.key \in Keys /\ t.request \in Request /\ d \in Dates
  BY <1>1, RequestType DEF Ready
<1>3. metrics \in [Dates -> Snapshot \cup {NULL}]
  BY DEF IInv, TypeOK
<1>4. journal[t.key] = NULL /\ (t.loaded = NULL => metrics[d] = NULL)
  BY DEF Flush, ViolatesUnique
<1>5. /\ metrics' = [metrics EXCEPT ![d] = n]
      /\ journal' = [journal EXCEPT ![t.key] = t.request]
      /\ txn' = [txn EXCEPT ![w] = Idle]
  BY DEF Flush
<1>6. t.loaded # NULL => t.loaded \in Snapshot /\ metrics[d] \in Snapshot
  BY <1>1, <1>2, <1>3 DEF Ready, Txn
<1>7. NULL \notin Snapshot
  BY MetricAssumption
<1>8. /\ n \in Snapshot
      /\ t.loaded = NULL => \A f \in Fields :
           n[f] = IF f \in DOMAIN t.request.values THEN t.request.values[f] ELSE NULL
      /\ t.loaded # NULL => \A f \in Fields :
           n[f] = IF f \in DOMAIN t.request.values
                     /\ t.request.values[f] # t.loaded[f]
                  THEN t.request.values[f] ELSE metrics[d][f]
  <2>1. CASE t.loaded = NULL
    <3>1. n = NewMetric(t.request.values)
      BY <2>1
    <3> HIDE DEF n
    <3> QED
      BY <1>2, <2>1, <3>1, NewMetricValue
  <2>2. CASE t.loaded # NULL
    <3>1. n = FlushedMetric(metrics[d], t.loaded, t.request.values)
      BY <2>2
    <3>2. t.loaded \in Snapshot /\ metrics[d] \in Snapshot
      BY <1>6, <2>2
    <3> HIDE DEF n
    <3> QED
      BY <1>2, <2>2, <3>1, <3>2, FlushedMetricValue
  <2> QED
    BY <2>1, <2>2
<1> HIDE DEF n
<1>9. metrics'[d] = n /\ \A e \in Dates : e # d => metrics'[e] = metrics[e]
  BY <1>2, <1>3, <1>5
<1>10. metrics' \in [Dates -> Snapshot \cup {NULL}]
  BY <1>3, <1>5, <1>8
<1>11. metrics[d] = NULL <=> t.loaded = NULL
  BY <1>4, <1>6, <1>7
<1>12. /\ metrics'[d] \in Snapshot
       /\ metrics[d] = NULL => \A f \in Fields :
            metrics'[d][f] = IF f \in DOMAIN t.request.values
                             THEN t.request.values[f] ELSE NULL
       /\ metrics[d] # NULL => t.loaded \in Snapshot /\ \A f \in Fields :
            metrics'[d][f] =
              IF f \in DOMAIN t.request.values
                 /\ t.request.values[f] # t.loaded[f]
              THEN t.request.values[f] ELSE metrics[d][f]
  BY <1>6, <1>8, <1>9, <1>11
<1> QED
  BY <1>1, <1>2, <1>4, <1>5, <1>9, <1>10, <1>12

(* Membership in the comprehension.                                        *)
LEMMA SuppliedIs ==
  ASSUME NEW j, NEW d, NEW f, NEW x
  PROVE  x \in Supplied(j, d, f) <=>
           \E i \in Processed(j, d) : f \in DOMAIN j[i].values /\ x = j[i].values[f]
  BY DEF Supplied

(* What has been supplied stays supplied, and a flush adds its own values. *)
LEMMA SuppliedGrows ==
  ASSUME NEW k \in Keys, NEW r \in Request,
         NEW j \in [Keys -> Request \cup {NULL}], NEW l,
         j[k] = NULL, l[k] = r, \A i \in Keys : i # k => l[i] = j[i],
         NEW d \in Dates
  PROVE  /\ Processed(l, d) = Processed(j, d) \cup (IF r.date = d THEN {k} ELSE {})
         /\ \A f \in Fields :
              Supplied(l, d, f) =
                Supplied(j, d, f) \cup
                  (IF r.date = d /\ f \in DOMAIN r.values THEN {r.values[f]} ELSE {})
<1>1. r # NULL
  BY MetricAssumption
<1>2. Processed(l, d) = Processed(j, d) \cup (IF r.date = d THEN {k} ELSE {})
  BY <1>1 DEF Processed
<1>3. \A i \in Processed(j, d) : i \in Keys /\ l[i] = j[i]
  BY <1>1 DEF Processed
<1>4. ASSUME NEW f \in Fields
      PROVE  Supplied(l, d, f) =
               Supplied(j, d, f) \cup
                 (IF r.date = d /\ f \in DOMAIN r.values THEN {r.values[f]} ELSE {})
  <2>1. ASSUME NEW x \in Supplied(l, d, f)
        PROVE  \/ x \in Supplied(j, d, f)
               \/ r.date = d /\ f \in DOMAIN r.values /\ x = r.values[f]
    <3>1. PICK i \in Processed(l, d) : f \in DOMAIN l[i].values /\ x = l[i].values[f]
      BY SuppliedIs
    <3>2. CASE i \in Processed(j, d)
      <4>1. f \in DOMAIN j[i].values /\ x = j[i].values[f]
        BY <1>3, <3>1, <3>2
      <4> QED
        BY <3>2, <4>1, SuppliedIs
    <3>3. CASE i \notin Processed(j, d)
      BY <1>1, <1>2, <3>1, <3>3
    <3> QED
      BY <3>2, <3>3
  <2>2. ASSUME NEW x \in Supplied(j, d, f) PROVE x \in Supplied(l, d, f)
    <3>1. PICK i \in Processed(j, d) : f \in DOMAIN j[i].values /\ x = j[i].values[f]
      BY SuppliedIs
    <3>2. i \in Processed(l, d) /\ f \in DOMAIN l[i].values /\ x = l[i].values[f]
      BY <1>2, <1>3, <3>1
    <3> QED
      BY <3>2, SuppliedIs
  <2>3. ASSUME r.date = d, f \in DOMAIN r.values
        PROVE  r.values[f] \in Supplied(l, d, f)
    <3>1. k \in Processed(l, d)
      BY <1>2, <2>3
    <3> QED
      BY <1>1, <2>3, <3>1, SuppliedIs
  <2> QED
    BY <2>1, <2>2, <2>3
<1> QED
  BY <1>2, <1>4

LEMMA FlushKeeps ==
  ASSUME IInv, NEW w \in Workers, Flush(w)
  PROVE  IInv'
<1> DEFINE t == txn[w]
           r == t.request
           k == t.key
           d == r.date
<1>1. /\ t \in Txn /\ k \in Keys /\ r \in Request /\ d \in Dates
      /\ journal[k] = NULL
      /\ journal' = [journal EXCEPT ![k] = r]
      /\ txn' = [txn EXCEPT ![w] = Idle]
      /\ \A e \in Dates : e # d => metrics'[e] = metrics[e]
      /\ metrics' \in [Dates -> Snapshot \cup {NULL}]
      /\ metrics'[d] \in Snapshot
  BY FlushWrites
<1>2. /\ metrics[d] = NULL => \A f \in Fields :
           metrics'[d][f] = IF f \in DOMAIN r.values THEN r.values[f] ELSE NULL
      /\ metrics[d] # NULL => t.loaded \in Snapshot /\ \A f \in Fields :
           metrics'[d][f] = IF f \in DOMAIN r.values /\ r.values[f] # t.loaded[f]
                            THEN r.values[f] ELSE metrics[d][f]
  BY FlushWrites
<1>3. /\ t.pc = "flush" /\ Ready(t)
      /\ journal \in [Keys -> Request \cup {NULL}]
      /\ NULL \notin Snapshot
  BY MetricAssumption DEF Flush, IInv, TypeOK
<1>4. \A e \in Dates :
        /\ Processed(journal', e) = Processed(journal, e) \cup (IF d = e THEN {k} ELSE {})
        /\ \A f \in Fields :
             Supplied(journal', e, f) =
               Supplied(journal, e, f) \cup
                 (IF d = e /\ f \in DOMAIN r.values THEN {r.values[f]} ELSE {})
  <2>1. ASSUME NEW e \in Dates
        PROVE  /\ Processed(journal', e) =
                    Processed(journal, e) \cup (IF r.date = e THEN {k} ELSE {})
               /\ \A f \in Fields :
                    Supplied(journal', e, f) =
                      Supplied(journal, e, f) \cup
                        (IF r.date = e /\ f \in DOMAIN r.values
                         THEN {r.values[f]} ELSE {})
    <3>1. /\ k \in Keys /\ r \in Request /\ journal[k] = NULL
          /\ journal \in [Keys -> Request \cup {NULL}]
          /\ journal'[k] = r /\ \A i \in Keys : i # k => journal'[i] = journal[i]
      BY <1>1, <1>3
    <3> HIDE DEF k, r
    <3> QED
      BY <3>1, SuppliedGrows
  <2> QED
    BY <2>1
<1>5. TypeOK'
  <2>1. journal' \in [Keys -> Request \cup {NULL}]
    BY <1>1, <1>3
  <2>2. txn' \in [Workers -> Txn]
    BY <1>1, IdleReady DEF IInv, TypeOK
  <2> QED
    BY <1>1, <2>1, <2>2 DEF TypeOK
<1>6. ASSUME NEW e \in Dates, NEW f \in Fields, metrics[e] # NULL
      PROVE  IF Supplied(journal, e, f) = {} THEN metrics[e][f] = NULL
             ELSE metrics[e][f] \in Supplied(journal, e, f)
  BY <1>6 DEF IInv, NothingLost
<1>7. \A e \in Dates : Processed(journal, e) # {} <=> metrics[e] # NULL
  BY DEF IInv, NothingLost
<1>8. \A f \in Fields : metrics[d] = NULL => Supplied(journal, d, f) = {}
  BY <1>1, <1>7 DEF Supplied
<1>9. ASSUME NEW f \in Fields
      PROVE  IF Supplied(journal', d, f) = {} THEN metrics'[d][f] = NULL
             ELSE metrics'[d][f] \in Supplied(journal', d, f)
  <2>1. Supplied(journal', d, f) =
          Supplied(journal, d, f) \cup (IF f \in DOMAIN r.values THEN {r.values[f]} ELSE {})
    BY <1>1, <1>4
  <2>2. CASE metrics[d] = NULL
    BY <1>2, <1>8, <2>1, <2>2
  <2>3. CASE metrics[d] # NULL
    <3>1. IF Supplied(journal, d, f) = {} THEN metrics[d][f] = NULL
          ELSE metrics[d][f] \in Supplied(journal, d, f)
      BY <1>1, <1>6, <2>3
    <3>2. metrics'[d][f] = IF f \in DOMAIN r.values /\ r.values[f] # t.loaded[f]
                           THEN r.values[f] ELSE metrics[d][f]
      BY <1>2, <2>3
    <3>3. t.loaded[f] # NULL => t.loaded[f] \in Supplied(journal, d, f)
      BY <1>2, <1>3, <2>3 DEF Ready
    <3> QED
      BY <2>1, <3>1, <3>2, <3>3
  <2> QED
    BY <2>2, <2>3
<1>10. NothingLost'
  <2>1. ASSUME NEW e \in Dates PROVE Processed(journal', e) # {} <=> metrics'[e] # NULL
    BY <1>1, <1>3, <1>4, <1>7
  <2>2. ASSUME NEW e \in Dates, metrics'[e] # NULL, NEW f \in Fields
        PROVE  IF Supplied(journal', e, f) = {} THEN metrics'[e][f] = NULL
               ELSE metrics'[e][f] \in Supplied(journal', e, f)
    <3>1. CASE e = d
      BY <1>9, <3>1
    <3>2. CASE e # d
      <4>1. metrics'[e] = metrics[e]
        BY <1>1, <3>2
      <4>2. Supplied(journal', e, f) = Supplied(journal, e, f) \cup {}
        BY <1>4, <3>2
      <4> QED
        BY <1>6, <2>2, <4>1, <4>2
    <3> QED
      BY <3>1, <3>2
  <2> QED
    BY <2>1, <2>2 DEF NothingLost
<1>11. ASSUME NEW v \in Workers PROVE Ready(txn[v])'
  <2>1. CASE v = w
    <3>1. txn'[v] = Idle
      BY <1>1, <2>1 DEF IInv, TypeOK
    <3> QED
      BY <3>1 DEF Ready, Idle
  <2>2. CASE v # w
    <3>1. txn'[v] = txn[v] /\ Ready(txn[v])
      BY <1>1, <2>2 DEF IInv, TypeOK
    <3>2. ASSUME txn[v].pc = "flush", txn[v].loaded # NULL
          PROVE  /\ metrics'[txn[v].request.date] # NULL
                 /\ \A f \in Fields : txn[v].loaded[f] # NULL =>
                      txn[v].loaded[f] \in Supplied(journal', txn[v].request.date, f)
      <4>1. txn[v].request.date \in Dates
        BY <3>1, <3>2, RequestType DEF Ready
      <4>2. metrics[txn[v].request.date] # NULL
        BY <3>1, <3>2 DEF Ready
      <4>3. metrics'[txn[v].request.date] # NULL
        BY <1>1, <1>3, <4>1, <4>2
      <4>4. \A f \in Fields : txn[v].loaded[f] # NULL =>
              txn[v].loaded[f] \in Supplied(journal, txn[v].request.date, f)
        BY <3>1, <3>2 DEF Ready
      <4>5. \A f \in Fields : Supplied(journal, txn[v].request.date, f) \subseteq
                              Supplied(journal', txn[v].request.date, f)
        BY <1>4, <4>1
      <4> QED
        BY <4>3, <4>4, <4>5
    <3> QED
      BY <3>1, <3>2 DEF Ready
  <2> QED
    BY <2>1, <2>2
<1> QED
  BY <1>5, <1>10, <1>11 DEF IInv

LEMMA NextKeepsIInv == IInv /\ [Next]_vars => IInv'
<1> SUFFICES ASSUME IInv, [Next]_vars PROVE IInv'
  OBVIOUS
<1>1. CASE UNCHANGED vars
  BY <1>1 DEF vars, IInv, TypeOK, NothingLost, Ready
<1>2. ASSUME NEW w \in Workers, NEW q \in Requests, Replay(w, q[1], q[2])
      PROVE  IInv'
  BY <1>1, <1>2 DEF Replay
<1>3. ASSUME NEW w \in Workers, NEW q \in Requests, SelectJournal(w, q[1], q[2])
      PROVE  IInv'
  <2>1. <<q[1], q[2]>> \in Requests
    BY MetricAssumption
  <2> QED
    BY <1>3, <2>1, SelectJournalKeeps
<1>4. ASSUME NEW w \in Workers, SelectMetric(w) PROVE IInv'
  BY <1>4, SelectMetricKeeps
<1>5. ASSUME NEW w \in Workers, Flush(w) PROVE IInv'
  BY <1>5, FlushKeeps
<1>6. ASSUME NEW w \in Workers, Rollback(w) PROVE IInv'
  BY <1>6, IdleReady, ReadingStep DEF Rollback
<1> QED
  BY <1>1, <1>2, <1>3, <1>4, <1>5, <1>6 DEF Next

(***************************************************************************)
(* The theorems.                                                           *)
(***************************************************************************)
(* What a request has loaded was supplied by a processed PUT, always.      *)
THEOREM Invariance == Spec => []IInv
  BY InitIInv, NextKeepsIInv, PTL DEF Spec

(* Snapshots, journal and requests keep their declared shape.              *)
THEOREM TypeCorrect == Spec => []TypeOK
<1>1. IInv => TypeOK
  BY DEF IInv
<1> QED
  BY <1>1, Invariance, PTL

(* No processed PUT is lost, however many race for however many dates.     *)
THEOREM NothingIsLost == Spec => []NothingLost
<1>1. IInv => NothingLost
  BY DEF IInv
<1> QED
  BY <1>1, Invariance, PTL

(* A key is applied once: every write is what a fresh key supplied.        *)
THEOREM KeysApplyOnce == Spec => AppliedOnce
<1>1. IInv /\ [Next]_vars => [ApplyOnce]_vars
  <2> SUFFICES ASSUME IInv, [Next]_vars PROVE [ApplyOnce]_vars
    OBVIOUS
  <2>1. CASE UNCHANGED <<metrics, journal>>
    BY <2>1 DEF ApplyOnce, Column
  <2>2. ASSUME NEW w \in Workers, Flush(w) PROVE ApplyOnce
    <3> DEFINE t == txn[w]
               r == t.request
               k == t.key
               d == r.date
    <3>1. /\ k \in Keys /\ r \in Request /\ d \in Dates /\ journal[k] = NULL
          /\ journal' = [journal EXCEPT ![k] = r]
          /\ \A e \in Dates : e # d => metrics'[e] = metrics[e]
          /\ metrics'[d] \in Snapshot
      BY <2>2, FlushWrites
    <3>2. /\ metrics[d] = NULL => \A f \in Fields :
               metrics'[d][f] = IF f \in DOMAIN r.values THEN r.values[f] ELSE NULL
          /\ metrics[d] # NULL => \A f \in Fields :
               metrics'[d][f] = IF f \in DOMAIN r.values /\ r.values[f] # t.loaded[f]
                                THEN r.values[f] ELSE metrics[d][f]
      BY <2>2, FlushWrites
    <3>3. journal'[k] = r /\ \A j \in Keys : j # k => journal'[j] = journal[j]
      BY <3>1 DEF IInv, TypeOK
    <3>4. r # NULL /\ metrics'[d] # NULL
      BY <3>1, MetricAssumption
    <3>5. ASSUME NEW e \in Dates, NEW f \in Fields,
                 Column(metrics'[e], f) # Column(metrics[e], f)
          PROVE  e = d /\ f \in DOMAIN r.values /\ metrics'[d][f] = r.values[f]
      BY <3>1, <3>2, <3>4, <3>5 DEF Column
    <3> QED
      BY <3>1, <3>3, <3>4, <3>5 DEF ApplyOnce
  <2>3. CASE Next
    <3>1. UNCHANGED <<metrics, journal>> \/ \E w \in Workers : Flush(w)
      BY <2>3 DEF Next, Replay, SelectJournal, SelectMetric, Rollback, vars
    <3> QED
      BY <2>1, <2>2, <3>1
  <2>4. CASE UNCHANGED vars
    BY <2>4
  <2> QED
    BY <2>3, <2>4
<1> QED
  BY <1>1, Invariance, PTL DEF Spec, AppliedOnce

(* set_daily_metric stores every supplied field, null included, unless the *)
(* field held that value when it was loaded and another PUT has stored a   *)
(* different one since.                                                    *)
THEOREM CrossedPutsYield == Spec => OnlyCrossedPutsYield
<1>1. IInv /\ [Next]_vars => [YieldIfCrossed]_vars
  <2> SUFFICES ASSUME IInv, [Next]_vars, NEW w \in Workers,
                      txn[w].pc = "flush", txn'[w] # txn[w], journal' # journal,
                      NEW f \in DOMAIN txn[w].request.values
               PROVE  LET t == txn[w]
                          d == t.request.date IN
                      \/ metrics'[d][f] = t.request.values[f]
                      \/ /\ t.loaded # NULL /\ t.loaded[f] = t.request.values[f]
                         /\ metrics[d][f] # t.loaded[f]
    BY DEF YieldIfCrossed
  <2>1. PICK u \in Workers : Flush(u)
    BY DEF Next, Replay, SelectJournal, SelectMetric, Rollback, vars
  <2>2. u = w
    BY <2>1 DEF Flush, IInv, TypeOK
  <2>3. Flush(w)
    BY <2>1, <2>2
  <2> DEFINE t == txn[w]
             r == t.request
             d == r.date
  <2>4. /\ r \in Request /\ t \in Txn
        /\ metrics[d] = NULL => \A g \in Fields :
             metrics'[d][g] = IF g \in DOMAIN r.values THEN r.values[g] ELSE NULL
        /\ metrics[d] # NULL => t.loaded \in Snapshot /\ \A g \in Fields :
             metrics'[d][g] = IF g \in DOMAIN r.values /\ r.values[g] # t.loaded[g]
                              THEN r.values[g] ELSE metrics[d][g]
    BY <2>3, FlushWrites
  <2>5. f \in Fields
    BY <2>4, RequestType
  <2>6. CASE metrics[d] = NULL
    BY <2>4, <2>5, <2>6
  <2>7. CASE metrics[d] # NULL
    <3>1. t.loaded # NULL
      BY <2>4, <2>7, MetricAssumption
    <3>2. CASE r.values[f] # t.loaded[f]
      BY <2>4, <2>5, <2>7, <3>2
    <3>3. CASE r.values[f] = t.loaded[f]
      BY <2>4, <2>5, <2>7, <3>1, <3>3
    <3> QED
      BY <3>2, <3>3
  <2> QED
    BY <2>6, <2>7
<1> QED
  BY <1>1, Invariance, PTL DEF Spec, OnlyCrossedPutsYield

=============================================================================

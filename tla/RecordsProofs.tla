---------------------------- MODULE RecordsProofs ---------------------------
(***************************************************************************)
(* Proofs about Records, for any workers, ids, bodies and requests.        *)
(***************************************************************************)
EXTENDS Records, TLAPS

(***************************************************************************)
(* The inductive invariant.                                                *)
(***************************************************************************)
Creating(t) ==
  t.pc \in {"scoring_select", "identity_select", "reference_select", "insert"}

(* The key and body of a stored row are those of a request, and its state  *)
(* and result are ones its kind can have.                                  *)
RowSound(row) ==
  /\ <<row.key, row.body>> \in Requests
  /\ row.body.kind = "person" =>
       row.state \in {"new", "contacted"} /\ row.result = NULL
  /\ row.body.kind = "hypothesis" =>
       \/ row.state = "active" /\ row.result = NULL
       \/ row.state = "done" /\ row.result # NULL
  /\ row.body.kind \in {"application", "assessment"} =>
       row.state = "recorded" /\ row.result = NULL

(* What an update has loaded and wants, given the row as it is now.        *)
UpdateReady(t) ==
  /\ t.id \in Ids /\ t.loaded \in Row /\ t.wanted \in Row
  /\ rows[t.id] # NULL
  /\ t.wanted.body = t.loaded.body /\ t.wanted.key = t.loaded.key
  /\ \/ /\ rows[t.id].body.kind = "person"
        /\ t.wanted.state \in {"new", "contacted"}
        /\ t.wanted.result = t.loaded.result
     \/ /\ rows[t.id].body.kind = "hypothesis"
        /\ t.loaded.state = "active" /\ t.wanted.state = "done"
        /\ t.loaded.result = NULL /\ t.wanted.result # NULL

Ready(t) ==
  /\ Creating(t) => <<t.key, t.body>> \in Requests
  /\ t.pc = "update" => UpdateReady(t)

(* Record i is the one request q makes, or one of its scoring.             *)
Fits(q, i) ==
  /\ i \in Ids
  /\ rows[i] # NULL
  /\ \/ rows[i].key = q[1] /\ rows[i].body = q[2]
     \/ rows[i].body.scoring = q[2].scoring /\ q[2].scoring # NULL

AnswersSound == \A q \in Requests : answers[q] # NULL => Fits(q, answers[q])

IInv ==
  /\ TypeOK
  /\ UniqueRecords
  /\ \A i \in Ids : rows[i] # NULL => RowSound(rows[i])
  /\ \A w \in Workers : Ready(txn[w])
  /\ AnswersSound

(***************************************************************************)
(* What the operators of the model return.                                 *)
(***************************************************************************)
(* The key and the body of a request are those of the schemas.             *)
LEMMA RequestTypes ==
  ASSUME NEW k, NEW b, <<k, b>> \in Requests
  PROVE  /\ k \in Keys /\ b \in Body
         /\ b.kind \in Kinds
         /\ b.scoring # NULL => b.kind = "assessment"
<1>1. <<k, b>> \in Keys \X Body
  BY RequestAssumption
<1>2. <<k, b>>[2].scoring # NULL => <<k, b>>[2].kind = "assessment"
  BY RequestAssumption
<1> QED
  BY <1>1, <1>2 DEF Body

LEMMA NewRowSound ==
  ASSUME NEW k, NEW b, <<k, b>> \in Requests
  PROVE  /\ NewRow(k, b) \in Row
         /\ NewRow(k, b).key = k /\ NewRow(k, b).body = b
         /\ RowSound(NewRow(k, b))
<1>1. k \in Keys /\ b \in Body /\ b.kind \in Kinds
  BY RequestTypes
<1>2. CASE b.kind = "person"
  BY <1>1, <1>2 DEF NewRow, Row, RowSound, States
<1>3. CASE b.kind = "hypothesis"
  BY <1>1, <1>3 DEF NewRow, Row, RowSound, States
<1>4. CASE b.kind \in {"application", "assessment"}
  BY <1>1, <1>4 DEF NewRow, Row, RowSound, States
<1> QED
  BY <1>1, <1>2, <1>3, <1>4 DEF Kinds

(* A flush is made column by column.                                       *)
LEMMA FlushedRow ==
  ASSUME NEW current \in Row, NEW loaded \in Row, NEW wanted \in Row
  PROVE  LET new == Flushed(current, loaded, wanted) IN
         /\ new \in Row
         /\ new.body = IF wanted.body # loaded.body THEN wanted.body ELSE current.body
         /\ new.key = IF wanted.key # loaded.key THEN wanted.key ELSE current.key
         /\ new.state = IF wanted.state # loaded.state THEN wanted.state ELSE current.state
         /\ new.result = IF wanted.result # loaded.result THEN wanted.result
                         ELSE current.result
BY DEF Flushed, Row

(***************************************************************************)
(* The two steps that write rows.                                          *)
(***************************************************************************)
LEMMA InsertedRow ==
  ASSUME IInv, NEW w \in Workers, Insert(w),
         ~ViolatesUnique(txn[w].key, txn[w].body)
  PROVE  LET q == <<txn[w].key, txn[w].body>> IN
         /\ q \in Requests
         /\ \E i \in Ids :
              /\ rows[i] = NULL
              /\ rows'[i] = NewRow(txn[w].key, txn[w].body)
              /\ rows'[i] \in Row /\ RowSound(rows'[i])
              /\ rows'[i].key = q[1] /\ rows'[i].body = q[2]
              /\ \A j \in Ids \ {i} : rows'[j] = rows[j]
              /\ rows' = [rows EXCEPT ![i] = NewRow(txn[w].key, txn[w].body)]
              /\ answers' = [answers EXCEPT ![q] = i]
<1> DEFINE k == txn[w].key
           b == txn[w].body
<1>1. <<k, b>> \in Requests
  BY DEF IInv, Ready, Creating, Insert
<1>2. NewRow(k, b) \in Row /\ RowSound(NewRow(k, b)) /\ NewRow(k, b).key = k
      /\ NewRow(k, b).body = b
  BY <1>1, NewRowSound
<1>3. PICK i \in Ids : /\ rows[i] = NULL
                       /\ rows' = [rows EXCEPT ![i] = NewRow(k, b)]
                       /\ answers' = [answers EXCEPT ![<<k, b>>] = i]
  BY DEF Insert
<1>4. rows'[i] = NewRow(k, b) /\ \A j \in Ids \ {i} : rows'[j] = rows[j]
  BY <1>3 DEF IInv, TypeOK
<1> QED
  BY <1>1, <1>2, <1>3, <1>4

LEMMA UpdatedRow ==
  ASSUME IInv, NEW w \in Workers, Update(w)
  PROVE  LET i == txn[w].id IN
         /\ i \in Ids /\ rows[i] # NULL
         /\ rows'[i] \in Row /\ RowSound(rows'[i])
         /\ rows'[i].key = rows[i].key /\ rows'[i].body = rows[i].body
         /\ rows[i].state = "done" => rows'[i].state = "done"
         /\ \A j \in Ids \ {i} : rows'[j] = rows[j]
         /\ rows' = [rows EXCEPT ![i] = rows'[i]]
<1> DEFINE t == txn[w]
           i == txn[w].id
           new == Flushed(rows[i], t.loaded, t.wanted)
<1>1. UpdateReady(t)
  BY DEF IInv, Ready, Update
<1>2. i \in Ids /\ rows[i] # NULL /\ t.loaded \in Row /\ t.wanted \in Row
  BY <1>1 DEF UpdateReady
<1>3. rows[i] \in Row /\ RowSound(rows[i])
  BY <1>2 DEF IInv, TypeOK
<1>4. rows' = [rows EXCEPT ![i] = new]
  BY DEF Update
<1>5. rows'[i] = new /\ \A j \in Ids \ {i} : rows'[j] = rows[j]
  BY <1>2, <1>4 DEF IInv, TypeOK
<1>6. /\ new \in Row
      /\ new.body = rows[i].body /\ new.key = rows[i].key
      /\ new.state = IF t.wanted.state # t.loaded.state THEN t.wanted.state
                     ELSE rows[i].state
      /\ new.result = IF t.wanted.result # t.loaded.result THEN t.wanted.result
                      ELSE rows[i].result
  BY <1>1, <1>2, <1>3, FlushedRow DEF UpdateReady
<1> HIDE DEF new
<1>7. RowSound(new) /\ (rows[i].state = "done" => new.state = "done")
  <2>1. CASE rows[i].body.kind = "person"
    <3>1. t.wanted.state \in {"new", "contacted"} /\ t.wanted.result = t.loaded.result
      BY <1>1, <2>1 DEF UpdateReady
    <3> QED
      BY <1>3, <1>6, <2>1, <3>1 DEF RowSound
  <2>2. CASE rows[i].body.kind = "hypothesis"
    <3>1. /\ t.loaded.state = "active" /\ t.wanted.state = "done"
          /\ t.loaded.result = NULL /\ t.wanted.result # NULL
      BY <1>1, <2>2 DEF UpdateReady
    <3> QED
      BY <1>3, <1>6, <2>2, <3>1 DEF RowSound
  <2> QED
    BY <1>1, <2>1, <2>2 DEF UpdateReady
<1> QED
  BY <1>2, <1>4, <1>5, <1>6, <1>7

(* Rows are never removed or rewritten, and done hypotheses stay done.     *)
LEMMA RowsStep ==
  ASSUME IInv, [Next]_vars, NEW i \in Ids, rows[i] # NULL
  PROVE  /\ rows'[i] # NULL
         /\ rows'[i].body = rows[i].body /\ rows'[i].key = rows[i].key
         /\ rows[i].state = "done" => rows'[i].state = "done"
<1>1. ASSUME NEW w \in Workers, Insert(w), ~ViolatesUnique(txn[w].key, txn[w].body)
      PROVE  rows'[i] = rows[i]
  BY <1>1, InsertedRow
<1>2. ASSUME NEW w \in Workers, Update(w), txn[w].id = i
      PROVE  /\ rows'[i] \in Row
             /\ rows'[i].body = rows[i].body /\ rows'[i].key = rows[i].key
             /\ rows[i].state = "done" => rows'[i].state = "done"
  BY <1>2, UpdatedRow
<1>3. ASSUME NEW w \in Workers, Update(w), txn[w].id # i
      PROVE  rows'[i] = rows[i]
  BY <1>3, UpdatedRow
<1>4. ASSUME NEW w \in Workers, Insert(w), ViolatesUnique(txn[w].key, txn[w].body)
      PROVE  rows'[i] = rows[i]
  BY <1>4 DEF Insert, EndWithoutCommit
<1>5. CASE UNCHANGED rows
  BY <1>5
<1> QED
  BY <1>1, <1>2, <1>3, <1>4, <1>5, NullAssumption
     DEF Next, Accept, Serve, vars, CreateReplay, CreateByKey, ScoringSelect,
         IdentitySelect, ReferenceSelect, StatusSelect, CloseSelect, Rollback,
         CatalogueStores, Goto, EndWithoutCommit

(***************************************************************************)
(* The requests in flight.                                                 *)
(***************************************************************************)
LEMMA IdleSound == Idle \in Txn /\ Idle.pc = "idle"
BY DEF Idle, Txn, Labels

(* What each action makes of a request.                                    *)
LEMMA TxnStep ==
  ASSUME IInv, NEW w \in Workers, NEW t \in Txn, txn' = [txn EXCEPT ![w] = t]
  PROVE  /\ txn' \in [Workers -> Txn]
         /\ txn'[w] = t
         /\ \A v \in Workers \ {w} : txn'[v] = txn[v]
BY DEF IInv, TypeOK

LEMMA GotoStep ==
  ASSUME IInv, NEW w \in Workers, NEW label \in Labels, Goto(w, label)
  PROVE  \E t \in Txn : /\ txn' = [txn EXCEPT ![w] = t]
                        /\ t.pc = label /\ t.key = txn[w].key /\ t.body = txn[w].body
<1> DEFINE new == [txn[w] EXCEPT !.pc = label]
<1>1. txn[w] \in Txn
  BY DEF IInv, TypeOK
<1>2. new \in Txn /\ new.pc = label /\ new.key = txn[w].key /\ new.body = txn[w].body
  BY <1>1 DEF Txn
<1>3. txn' = [txn EXCEPT ![w] = new]
  BY DEF Goto
<1> HIDE DEF new
<1> QED
  BY <1>2, <1>3

(* A request that goes on from one lookup to the next keeps what it is.    *)
LEMMA CreatingStep ==
  ASSUME IInv, NEW w \in Workers, Creating(txn[w]),
         NEW label \in {"identity_select", "reference_select", "insert"},
         Goto(w, label)
  PROVE  \E t \in Txn : txn' = [txn EXCEPT ![w] = t] /\ Ready(t)'
<1>1. label \in Labels
  BY DEF Labels
<1>2. PICK t \in Txn : /\ txn' = [txn EXCEPT ![w] = t]
                       /\ t.pc = label /\ t.key = txn[w].key /\ t.body = txn[w].body
  BY <1>1, GotoStep
<1>3. <<txn[w].key, txn[w].body>> \in Requests
  BY DEF IInv, Ready
<1>4. Ready(t)'
  BY <1>2, <1>3 DEF Ready
<1> QED
  BY <1>2, <1>4

LEMMA IdleStep ==
  ASSUME IInv, NEW w \in Workers, txn' = [txn EXCEPT ![w] = Idle]
  PROVE  \E t \in Txn : txn' = [txn EXCEPT ![w] = t] /\ Ready(t)'
<1>1. Ready(Idle)'
  BY IdleSound DEF Ready, Creating
<1> QED
  BY <1>1, IdleSound

(* Every step leaves all requests alone, or moves one to where it is ready. *)
LEMMA RequestsStep ==
  ASSUME IInv, [Next]_vars
  PROVE  \/ txn' = txn
         \/ \E w \in Workers, t \in Txn : txn' = [txn EXCEPT ![w] = t] /\ Ready(t)'
<1>1. ASSUME NEW w \in Workers, NEW q \in Requests, CreateByKey(w, q[1], q[2])
      PROVE  \E t \in Txn : txn' = [txn EXCEPT ![w] = t] /\ Ready(t)'
  <2> DEFINE label == IF q[2].scoring = NULL THEN "identity_select" ELSE "scoring_select"
             new == [Idle EXCEPT !.key = q[1], !.body = q[2], !.pc = label]
  <2>1. q = <<q[1], q[2]>> /\ q[1] \in Keys /\ q[2] \in Body
    BY RequestAssumption
  <2>2. txn' = [txn EXCEPT ![w] = new]
    BY <1>1 DEF CreateByKey
  <2>3. new \in Txn /\ new.key = q[1] /\ new.body = q[2] /\ new.pc # "update"
    BY <2>1 DEF Idle, Txn, Labels
  <2> HIDE DEF new
  <2>4. PICK t \in Txn : /\ txn' = [txn EXCEPT ![w] = t]
                         /\ t.key = q[1] /\ t.body = q[2] /\ t.pc # "update"
    BY <2>2, <2>3
  <2>5. Ready(t)'
    BY <2>1, <2>4 DEF Ready
  <2> QED
    BY <2>4, <2>5
<1>2. ASSUME NEW w \in Workers, NEW i \in Ids, NEW s \in {"new", "contacted"},
             StatusSelect(w, i, s)
      PROVE  \E t \in Txn : txn' = [txn EXCEPT ![w] = t] /\ Ready(t)'
  <2> DEFINE new == [Idle EXCEPT !.pc = "update", !.id = i, !.loaded = rows[i],
                                 !.wanted = [rows[i] EXCEPT !.state = s]]
  <2>1. rows[i] \in Row /\ rows[i] # NULL /\ rows[i].body.kind = "person" /\ rows' = rows
    BY <1>2 DEF StatusSelect, Table, IInv, TypeOK
  <2>2. txn' = [txn EXCEPT ![w] = new]
    BY <1>2 DEF StatusSelect
  <2>3. /\ new \in Txn /\ new.pc = "update" /\ new.id = i /\ new.loaded = rows[i]
        /\ new.wanted \in Row /\ new.wanted.state = s
        /\ new.wanted.body = rows[i].body /\ new.wanted.key = rows[i].key
        /\ new.wanted.result = rows[i].result
    BY <2>1 DEF Idle, Txn, Labels, Row, States
  <2> HIDE DEF new
  <2>4. PICK t \in Txn :
          /\ txn' = [txn EXCEPT ![w] = t]
          /\ t.pc = "update" /\ t.id = i /\ t.loaded = rows[i]
          /\ t.wanted \in Row /\ t.wanted.state = s
          /\ t.wanted.body = rows[i].body /\ t.wanted.key = rows[i].key
          /\ t.wanted.result = rows[i].result
    BY <2>2, <2>3
  <2>5. UpdateReady(t)'
    BY <2>1, <2>4 DEF UpdateReady
  <2>6. Ready(t)'
    BY <2>4, <2>5 DEF Ready, Creating
  <2> QED
    BY <2>4, <2>6
<1>3. ASSUME NEW w \in Workers, NEW i \in Ids, NEW result \in Results,
             CloseSelect(w, i, result)
      PROVE  \E t \in Txn : txn' = [txn EXCEPT ![w] = t] /\ Ready(t)'
  <2> DEFINE new == [Idle EXCEPT !.pc = "update", !.id = i, !.loaded = rows[i],
                                 !.wanted = Closed(rows[i], Stripped(result))]
  <2>1. /\ rows[i] \in Row /\ rows[i] # NULL /\ rows[i].body.kind = "hypothesis"
        /\ rows[i].state = "active" /\ rows' = rows
    BY <1>3 DEF CloseSelect, Table, IInv, TypeOK
  <2>2. rows[i].result = NULL
    BY <2>1 DEF IInv, RowSound
  <2>3. txn' = [txn EXCEPT ![w] = new]
    BY <1>3 DEF CloseSelect
  <2>4. Stripped(result) \in (Results \ {Blank}) \cup {Empty} /\ Stripped(result) # NULL
    BY NullAssumption DEF Stripped
  <2>5. /\ new \in Txn /\ new.pc = "update" /\ new.id = i /\ new.loaded = rows[i]
        /\ new.wanted \in Row /\ new.wanted.state = "done"
        /\ new.wanted.body = rows[i].body /\ new.wanted.key = rows[i].key
        /\ new.wanted.result = Stripped(result)
    BY <2>1, <2>4 DEF Idle, Txn, Labels, Row, States, Closed
  <2> HIDE DEF new
  <2>6. PICK t \in Txn :
          /\ txn' = [txn EXCEPT ![w] = t]
          /\ t.pc = "update" /\ t.id = i /\ t.loaded = rows[i]
          /\ t.wanted \in Row /\ t.wanted.state = "done"
          /\ t.wanted.body = rows[i].body /\ t.wanted.key = rows[i].key
          /\ t.wanted.result = Stripped(result)
    BY <2>3, <2>5
  <2>7. UpdateReady(t)'
    BY <2>1, <2>2, <2>4, <2>6 DEF UpdateReady
  <2>8. Ready(t)'
    BY <2>6, <2>7 DEF Ready, Creating
  <2> QED
    BY <2>6, <2>8
<1>4. ASSUME NEW w \in Workers, ScoringSelect(w) \/ IdentitySelect(w) \/ ReferenceSelect(w)
      PROVE  \E t \in Txn : txn' = [txn EXCEPT ![w] = t] /\ Ready(t)'
  <2>1. Creating(txn[w])
    BY <1>4 DEF Creating, ScoringSelect, IdentitySelect, ReferenceSelect
  <2>2. \/ txn' = [txn EXCEPT ![w] = Idle]
        \/ \E label \in {"identity_select", "reference_select", "insert"} : Goto(w, label)
    BY <1>4 DEF ScoringSelect, IdentitySelect, ReferenceSelect, EndWithoutCommit
  <2> QED
    BY <2>1, <2>2, CreatingStep, IdleStep
<1>5. ASSUME NEW w \in Workers, Insert(w) \/ Update(w) \/ Rollback(w)
      PROVE  \E t \in Txn : txn' = [txn EXCEPT ![w] = t] /\ Ready(t)'
  <2>1. txn' = [txn EXCEPT ![w] = Idle]
    BY <1>5 DEF Insert, Update, Rollback, EndWithoutCommit
  <2> QED
    BY <2>1, IdleStep
<1>6. ASSUME NEW w \in Workers, NEW q \in Requests, CreateReplay(w, q[1], q[2])
      PROVE  txn' = txn
  BY <1>6 DEF CreateReplay
<1>7. ASSUME NEW v \in Vacancies, NEW c \in Companies, CatalogueStores(v, c)
      PROVE  txn' = txn
  BY <1>7 DEF CatalogueStores
<1>8. CASE UNCHANGED vars
  BY <1>8 DEF vars
<1> QED
  BY <1>1, <1>2, <1>3, <1>4, <1>5, <1>6, <1>7, <1>8 DEF Next, Accept, Serve

(* A request that a step does not move stays ready.                        *)
LEMMA ReadyNext ==
  ASSUME IInv, [Next]_vars
  PROVE  txn' \in [Workers -> Txn] /\ \A w \in Workers : Ready(txn[w])'
<1>1. ASSUME NEW v \in Workers, txn'[v] = txn[v] PROVE Ready(txn[v])'
  <2>1. Ready(txn[v])
    BY DEF IInv
  <2>2. ASSUME UpdateReady(txn[v]) PROVE UpdateReady(txn[v])'
    <3>1. txn[v].id \in Ids /\ rows[txn[v].id] # NULL
      BY <2>2 DEF UpdateReady
    <3>2. /\ rows'[txn[v].id] # NULL
          /\ rows'[txn[v].id].body = rows[txn[v].id].body
      BY <3>1, RowsStep
    <3> QED
      BY <1>1, <2>2, <3>2 DEF UpdateReady
  <2> QED
    BY <1>1, <2>1, <2>2 DEF Ready, Creating
<1>2. CASE txn' = txn
  BY <1>1, <1>2 DEF IInv, TypeOK
<1>3. ASSUME NEW w \in Workers, NEW t \in Txn, txn' = [txn EXCEPT ![w] = t], Ready(t)'
      PROVE  txn' \in [Workers -> Txn] /\ \A v \in Workers : Ready(txn[v])'
  <2>1. /\ txn' \in [Workers -> Txn] /\ txn'[w] = t
        /\ \A v \in Workers \ {w} : txn'[v] = txn[v]
    BY <1>3, TxnStep
  <2>2. Ready(txn[w])'
    BY <1>3, <2>1 DEF Ready, Creating, UpdateReady
  <2> QED
    BY <1>1, <2>1, <2>2
<1> QED
  BY <1>2, <1>3, RequestsStep

(***************************************************************************)
(* The rows of the tables.                                                 *)
(***************************************************************************)
(* A step leaves the rows alone, adds one that violates no constraint, or  *)
(* changes the state or the result of one.                                 *)
LEMMA RowsNext ==
  ASSUME IInv, [Next]_vars
  PROVE  \/ rows' = rows
         \/ \E i \in Ids, k \in Keys, b \in Body :
              /\ <<k, b>> \in Requests
              /\ rows[i] = NULL /\ ~ViolatesUnique(k, b)
              /\ rows'[i] \in Row /\ RowSound(rows'[i])
              /\ rows'[i].key = k /\ rows'[i].body = b
              /\ \A j \in Ids \ {i} : rows'[j] = rows[j]
              /\ rows' = [rows EXCEPT ![i] = rows'[i]]
         \/ \E i \in Ids :
              /\ rows[i] # NULL
              /\ rows'[i] \in Row /\ RowSound(rows'[i])
              /\ rows'[i].key = rows[i].key /\ rows'[i].body = rows[i].body
              /\ \A j \in Ids \ {i} : rows'[j] = rows[j]
              /\ rows' = [rows EXCEPT ![i] = rows'[i]]
<1>1. ASSUME NEW w \in Workers, Insert(w), ~ViolatesUnique(txn[w].key, txn[w].body)
      PROVE  \E i \in Ids, k \in Keys, b \in Body :
               /\ <<k, b>> \in Requests
               /\ rows[i] = NULL /\ ~ViolatesUnique(k, b)
               /\ rows'[i] \in Row /\ RowSound(rows'[i])
               /\ rows'[i].key = k /\ rows'[i].body = b
               /\ \A j \in Ids \ {i} : rows'[j] = rows[j]
               /\ rows' = [rows EXCEPT ![i] = rows'[i]]
  <2>1. <<txn[w].key, txn[w].body>> \in Requests
    BY <1>1, InsertedRow
  <2>2. txn[w].key \in Keys /\ txn[w].body \in Body
    BY <2>1, RequestTypes
  <2>3. PICK i \in Ids :
          /\ rows[i] = NULL
          /\ rows'[i] = NewRow(txn[w].key, txn[w].body)
          /\ rows'[i] \in Row /\ RowSound(rows'[i])
          /\ rows'[i].key = txn[w].key /\ rows'[i].body = txn[w].body
          /\ \A j \in Ids \ {i} : rows'[j] = rows[j]
          /\ rows' = [rows EXCEPT ![i] = NewRow(txn[w].key, txn[w].body)]
    BY <1>1, InsertedRow
  <2>4. rows' = [rows EXCEPT ![i] = rows'[i]]
    BY <2>3
  <2> QED
    BY <1>1, <2>1, <2>2, <2>3, <2>4
<1>2. ASSUME NEW w \in Workers, Update(w)
      PROVE  \E i \in Ids :
               /\ rows[i] # NULL
               /\ rows'[i] \in Row /\ RowSound(rows'[i])
               /\ rows'[i].key = rows[i].key /\ rows'[i].body = rows[i].body
               /\ \A j \in Ids \ {i} : rows'[j] = rows[j]
               /\ rows' = [rows EXCEPT ![i] = rows'[i]]
  BY <1>2, UpdatedRow
<1>3. ASSUME NEW w \in Workers, Insert(w), ViolatesUnique(txn[w].key, txn[w].body)
      PROVE  rows' = rows
  BY <1>3 DEF Insert, EndWithoutCommit
<1> QED
  BY <1>1, <1>2, <1>3
     DEF Next, Accept, Serve, vars, CreateReplay, CreateByKey, ScoringSelect,
         IdentitySelect, ReferenceSelect, StatusSelect, CloseSelect, Rollback,
         CatalogueStores, Goto, EndWithoutCommit

LEMMA RowsTyped ==
  ASSUME IInv, [Next]_vars
  PROVE  /\ rows' \in [Ids -> Row \cup {NULL}]
         /\ \A i \in Ids : rows'[i] # NULL => RowSound(rows'[i])
BY RowsNext DEF IInv, TypeOK

(* Two rows that share a key, an identity or a scoring.                    *)
LEMMA UniqueNext ==
  ASSUME IInv, [Next]_vars
  PROVE  UniqueRecords'
<1> DEFINE Clash(x, y) ==
      \/ x.key = y.key
      \/ x.body.identity = y.body.identity
      \/ (x.body.scoring = y.body.scoring /\ x.body.scoring # NULL)
<1>1. CASE rows' = rows
  BY <1>1 DEF IInv, UniqueRecords
<1>2. ASSUME NEW i \in Ids, NEW k \in Keys, NEW b \in Body,
             <<k, b>> \in Requests,
             rows[i] = NULL, ~ViolatesUnique(k, b),
             rows'[i].key = k, rows'[i].body = b,
             \A j \in Ids \ {i} : rows'[j] = rows[j]
      PROVE  UniqueRecords'
  <2>1. b.scoring # NULL => b.kind = "assessment"
    BY <1>2, RequestTypes
  <2>2. ASSUME NEW j \in Ids, rows[j] # NULL, rows[j].body.kind = b.kind
        PROVE  /\ rows[j].key # k
               /\ rows[j].body.identity # b.identity
               /\ b.scoring # NULL => rows[j].body.scoring # b.scoring
    BY <1>2, <2>1, <2>2 DEF ViolatesUnique, Keyed, Identified, Scored, Table
  <2>3. ASSUME NEW j \in Ids, j # i, rows'[j] # NULL, rows'[j].body.kind = b.kind
        PROVE  ~Clash(rows'[i], rows'[j]) /\ ~Clash(rows'[j], rows'[i])
    <3>1. rows'[j] = rows[j]
      BY <1>2, <2>3
    <3> QED
      BY <1>2, <2>2, <2>3, <3>1
  <2>4. ASSUME NEW j \in Ids, NEW l \in Ids, j # i, l # i, j # l,
               rows'[j] # NULL, rows'[l] # NULL,
               rows'[j].body.kind = rows'[l].body.kind
        PROVE  ~Clash(rows'[j], rows'[l])
    <3>1. rows'[j] = rows[j] /\ rows'[l] = rows[l]
      BY <1>2, <2>4
    <3> QED
      BY <2>4, <3>1 DEF IInv, UniqueRecords
  <2> QED
    BY <1>2, <2>3, <2>4 DEF UniqueRecords
<1>3. ASSUME NEW i \in Ids, rows[i] # NULL,
             rows'[i].key = rows[i].key, rows'[i].body = rows[i].body,
             \A j \in Ids \ {i} : rows'[j] = rows[j]
      PROVE  UniqueRecords'
  <2>1. \A j \in Ids : rows'[j] # NULL =>
          /\ rows[j] # NULL
          /\ rows'[j].key = rows[j].key /\ rows'[j].body = rows[j].body
    BY <1>3
  <2> QED
    BY <2>1 DEF IInv, UniqueRecords
<1> QED
  BY <1>1, <1>2, <1>3, RowsNext

(***************************************************************************)
(* The answers.                                                            *)
(***************************************************************************)
(* A step answers no request, or one with a record that fits it.           *)
LEMMA AnswersNext ==
  ASSUME IInv, [Next]_vars
  PROVE  \/ answers' = answers
         \/ \E q \in Requests, i \in Ids :
              answers' = [answers EXCEPT ![q] = i] /\ Fits(q, i)'
<1>1. ASSUME NEW w \in Workers, NEW q \in Requests, CreateReplay(w, q[1], q[2])
      PROVE  \E i \in Ids : answers' = [answers EXCEPT ![q] = i] /\ Fits(q, i)'
  <2>1. q = <<q[1], q[2]>>
    BY RequestAssumption
  <2>2. PICK i \in Keyed(q[2].kind, q[1]) :
          /\ rows[i].body = q[2]
          /\ answers' = [answers EXCEPT ![q] = i]
    BY <1>1, <2>1 DEF CreateReplay, SameRequest
  <2>3. i \in Ids /\ rows[i] # NULL /\ rows[i].key = q[1] /\ rows' = rows
    BY <1>1, <2>2 DEF Keyed, Table, CreateReplay
  <2> QED
    BY <2>2, <2>3 DEF Fits
<1>2. ASSUME NEW w \in Workers, ScoringSelect(w), answers' # answers
      PROVE  \E q \in Requests, i \in Ids :
               answers' = [answers EXCEPT ![q] = i] /\ Fits(q, i)'
  <2>1. PICK q \in Requests : q[1] = txn[w].key /\ q[2] = txn[w].body
                              /\ q = <<txn[w].key, txn[w].body>>
    BY <1>2 DEF IInv, Ready, Creating, ScoringSelect
  <2>2. PICK i \in Scored(q[2].scoring) :
          answers' = [answers EXCEPT ![q] = i] /\ rows' = rows
    BY <1>2, <2>1 DEF ScoringSelect, Goto
  <2>3. /\ i \in Ids /\ rows[i] # NULL
        /\ rows[i].body.scoring = q[2].scoring /\ q[2].scoring # NULL
    BY <2>2 DEF Scored, Table
  <2> QED
    BY <2>2, <2>3 DEF Fits
<1>3. ASSUME NEW w \in Workers, Insert(w), answers' # answers
      PROVE  \E q \in Requests, i \in Ids :
               answers' = [answers EXCEPT ![q] = i] /\ Fits(q, i)'
  <2>1. ~ViolatesUnique(txn[w].key, txn[w].body)
    BY <1>3 DEF Insert, EndWithoutCommit
  <2>2. PICK q \in Requests : q[1] = txn[w].key /\ q[2] = txn[w].body
                              /\ q = <<txn[w].key, txn[w].body>>
    BY <1>3, <2>1, InsertedRow
  <2>3. PICK i \in Ids :
          /\ rows'[i] \in Row
          /\ rows'[i].key = q[1] /\ rows'[i].body = q[2]
          /\ answers' = [answers EXCEPT ![q] = i]
    BY <1>3, <2>1, <2>2, InsertedRow
  <2> QED
    BY <2>3, NullAssumption DEF Fits
<1> QED
  BY <1>1, <1>2, <1>3
     DEF Next, Accept, Serve, vars, CreateByKey, IdentitySelect, ReferenceSelect,
         StatusSelect, CloseSelect, Update, Rollback, CatalogueStores, Goto,
         EndWithoutCommit

(* An answer that fitted fits for ever.                                    *)
LEMMA FitsNext ==
  ASSUME IInv, [Next]_vars, NEW q \in Requests, NEW i \in Ids, Fits(q, i)
  PROVE  Fits(q, i)'
BY RowsStep DEF Fits

LEMMA AnswersTyped ==
  ASSUME IInv, [Next]_vars
  PROVE  answers' \in [Requests -> Ids \cup {NULL}] /\ AnswersSound'
<1>1. ASSUME NEW q \in Requests, answers'[q] = answers[q], answers'[q] # NULL
      PROVE  Fits(q, answers[q])'
  <2>1. PICK i \in Ids : answers[q] = i /\ Fits(q, i)
    BY <1>1 DEF IInv, AnswersSound, Fits
  <2>2. Fits(q, i)'
    BY <2>1, FitsNext
  <2> QED
    BY <1>1, <2>1, <2>2 DEF Fits
<1>2. CASE answers' = answers
  BY <1>1, <1>2 DEF IInv, TypeOK, AnswersSound
<1>3. ASSUME NEW q \in Requests, NEW i \in Ids,
             answers' = [answers EXCEPT ![q] = i], Fits(q, i)'
      PROVE  answers' \in [Requests -> Ids \cup {NULL}] /\ AnswersSound'
  <2>1. /\ answers' \in [Requests -> Ids \cup {NULL}]
        /\ answers'[q] = i
        /\ \A p \in Requests \ {q} : answers'[p] = answers[p]
    BY <1>3 DEF IInv, TypeOK
  <2>2. Fits(q, answers[q])'
    BY <1>3, <2>1 DEF Fits
  <2> QED
    BY <1>1, <2>1, <2>2 DEF AnswersSound
<1> QED
  BY <1>2, <1>3, AnswersNext

(***************************************************************************)
(* The invariant and the theorems.                                         *)
(***************************************************************************)
LEMMA InitIInv == Init => IInv
<1> SUFFICES ASSUME Init PROVE IInv
  OBVIOUS
<1>1. TypeOK
  BY IdleSound DEF Init, TypeOK
<1>2. \A w \in Workers : Ready(txn[w])
  BY IdleSound DEF Init, Ready, Creating
<1>3. UniqueRecords /\ \A i \in Ids : rows[i] # NULL => RowSound(rows[i])
  BY DEF Init, UniqueRecords
<1>4. AnswersSound
  BY DEF Init, AnswersSound
<1> QED
  BY <1>1, <1>2, <1>3, <1>4 DEF IInv

LEMMA NextIInv == IInv /\ [Next]_vars => IInv'
<1> SUFFICES ASSUME IInv, [Next]_vars PROVE IInv'
  OBVIOUS
<1>1. employer' \in [Vacancies -> Companies \cup {NULL}]
  BY DEF IInv, TypeOK, Next, Accept, Serve, vars, CreateReplay, CreateByKey,
         ScoringSelect, IdentitySelect, ReferenceSelect, Insert, Update, StatusSelect,
         CloseSelect, Rollback, CatalogueStores, Goto, EndWithoutCommit
<1>2. TypeOK'
  BY <1>1, RowsTyped, ReadyNext, AnswersTyped DEF TypeOK
<1> QED
  BY <1>2, RowsTyped, ReadyNext, AnswersTyped, UniqueNext DEF IInv

LEMMA Invariance == Spec => []IInv
BY InitIInv, NextIInv, PTL DEF Spec

(* Rows, requests and answers have the declared shape.                     *)
THEOREM TypeCorrect == Spec => []TypeOK
<1>1. IInv => TypeOK
  BY DEF IInv
<1> QED
  BY <1>1, Invariance, PTL

(* However many creates race, a key, a source identity and a scoring       *)
(* identity each name one row of a table: the unique constraints are       *)
(* checked at the insert, the lookups before it decide nothing.            *)
THEOREM RecordsAreUnique == Spec => []UniqueRecords
<1>1. IInv => UniqueRecords
  BY DEF IInv
<1> QED
  BY <1>1, Invariance, PTL

(* A hypothesis is done exactly when it has a result, also when two closes *)
(* cross; no other record has one.                                         *)
THEOREM ResultsAreSound == Spec => []ResultsSound
<1>1. IInv => ResultsSound
  <2> SUFFICES ASSUME IInv, NEW i \in Ids, rows[i] # NULL
               PROVE  /\ rows[i].result # NULL <=> rows[i].state = "done"
                      /\ rows[i].result # NULL => rows[i].body.kind = "hypothesis"
    BY DEF ResultsSound
  <2>1. RowSound(rows[i]) /\ rows[i].body.kind \in Kinds
    BY DEF IInv, TypeOK, Row, Body
  <2> QED
    BY <2>1 DEF RowSound, Kinds
<1> QED
  BY <1>1, Invariance, PTL

(* No step rewrites what a request recorded, and a hypothesis that is done *)
(* stays done.                                                             *)
THEOREM RecordsAreKept == Spec => RecordsKept
<1>1. IInv /\ [Next]_vars =>
        [ \A i \in Ids : rows[i] # NULL =>
            /\ rows'[i] # NULL
            /\ rows'[i].body = rows[i].body /\ rows'[i].key = rows[i].key
            /\ rows[i].state = "done" => rows'[i].state = "done" ]_vars
  BY RowsStep
<1> QED
  BY <1>1, Invariance, PTL DEF Spec, RecordsKept

(* A close that overwrites a result has loaded the hypothesis before the   *)
(* first close of it was committed; nothing else changes a result.         *)
LEMMA OverwritingClose ==
  ASSUME IInv, [Next]_vars, NEW i \in Ids, rows[i] # NULL, rows[i].result # NULL,
         rows'[i].result # rows[i].result
  PROVE  \E w \in Workers :
           /\ txn[w].pc = "update" /\ txn[w].id = i /\ txn'[w] = Idle
           /\ txn[w].loaded.state = "active"
           /\ txn[w].wanted.result = rows'[i].result
<1>1. PICK w \in Workers : Update(w)
  <2>1. ASSUME NEW w \in Workers, Insert(w) PROVE rows'[i] = rows[i]
    BY <2>1, InsertedRow DEF Insert, EndWithoutCommit
  <2> QED
    BY <2>1
       DEF Next, Accept, Serve, vars, CreateReplay, CreateByKey, ScoringSelect,
           IdentitySelect, ReferenceSelect, StatusSelect, CloseSelect, Rollback,
           CatalogueStores, Goto, EndWithoutCommit
<1>2. txn[w].id = i
  BY <1>1, UpdatedRow
<1>3. UpdateReady(txn[w]) /\ rows[i] \in Row /\ RowSound(rows[i])
  BY <1>1 DEF Update, IInv, TypeOK, Ready
<1>4. rows'[i] = Flushed(rows[i], txn[w].loaded, txn[w].wanted)
  BY <1>1, <1>2 DEF Update, IInv, TypeOK
<1>5. rows'[i].result = IF txn[w].wanted.result # txn[w].loaded.result
                        THEN txn[w].wanted.result ELSE rows[i].result
  BY <1>3, <1>4, FlushedRow DEF UpdateReady
<1>6. rows[i].body.kind = "hypothesis"
  BY <1>2, <1>3 DEF UpdateReady, RowSound
<1>7. txn[w].loaded.state = "active"
  BY <1>2, <1>3, <1>6 DEF UpdateReady
<1>8. txn[w].pc = "update" /\ txn'[w] = Idle
  BY <1>1 DEF Update, IInv, TypeOK
<1> QED
  BY <1>2, <1>5, <1>7, <1>8

(* close_hypothesis: the first result is lost to crossing closes only.     *)
THEOREM CrossedClosesOverwrite == Spec => OnlyCrossedClosesOverwrite
<1>1. IInv /\ [Next]_vars =>
        [ \A i \in Ids :
            /\ rows[i] # NULL /\ rows[i].result # NULL
            /\ rows'[i].result # rows[i].result
            => \E w \in Workers :
                 /\ txn[w].pc = "update" /\ txn[w].id = i /\ txn'[w] = Idle
                 /\ txn[w].loaded.state = "active"
                 /\ txn[w].wanted.result = rows'[i].result ]_vars
  BY OverwritingClose
<1> QED
  BY <1>1, Invariance, PTL DEF Spec, OnlyCrossedClosesOverwrite

(* No close in flight has loaded a hypothesis that has been closed since.  *)
NoCrossedCloses ==
  \A w \in Workers : txn[w].pc = "update" /\ txn[w].loaded.state = "active"
    => rows[txn[w].id].state = "active"

(* Where no close loads a hypothesis that another one closes first, the    *)
(* first closing result is immutable, as hypothesis-management.md says.    *)
THEOREM UncrossedClosesKeep == Spec /\ []NoCrossedCloses => FirstResultKept
<1>1. IInv /\ NoCrossedCloses /\ [Next]_vars =>
        [ \A i \in Ids : rows[i] # NULL /\ rows[i].result # NULL =>
            rows'[i].result = rows[i].result ]_vars
  <2> SUFFICES ASSUME IInv, NoCrossedCloses, [Next]_vars, NEW i \in Ids,
                      rows[i] # NULL, rows[i].result # NULL,
                      rows'[i].result # rows[i].result
               PROVE  FALSE
    OBVIOUS
  <2>1. PICK w \in Workers :
          txn[w].pc = "update" /\ txn[w].id = i /\ txn[w].loaded.state = "active"
    BY OverwritingClose
  <2>2. rows[i].state = "active"
    BY <2>1 DEF NoCrossedCloses
  <2>3. RowSound(rows[i]) /\ rows[i].body.kind \in Kinds
    BY DEF IInv, TypeOK, Row, Body
  <2> QED
    BY <2>2, <2>3 DEF RowSound, Kinds
<1> QED
  BY <1>1, Invariance, PTL DEF Spec, FirstResultKept

(* Of the requests of one table that were answered with success and have   *)
(* no scoring identity, no two share a key.                                *)
KeysHonoured ==
  \A p, q \in Requests :
    /\ p[1] = q[1] /\ p[2].kind = q[2].kind
    /\ answers[p] # NULL /\ answers[q] # NULL
    /\ p[2].scoring = NULL /\ q[2].scoring = NULL
    => p = q

(* A key names one body for ever, as the conflict errors of the creates    *)
(* say: what records_key_reuse shows, an answer by scoring identity, is    *)
(* the only way out.                                                       *)
THEOREM KeysAreHonoured == Spec => []KeysHonoured
<1>1. IInv => KeysHonoured
  <2> SUFFICES ASSUME IInv, NEW p \in Requests, NEW q \in Requests,
                      p[1] = q[1], p[2].kind = q[2].kind,
                      answers[p] # NULL, answers[q] # NULL,
                      p[2].scoring = NULL, q[2].scoring = NULL
               PROVE  p = q
    BY DEF KeysHonoured
  <2>1. Fits(p, answers[p]) /\ Fits(q, answers[q])
    BY DEF IInv, AnswersSound
  <2>2. /\ rows[answers[p]].key = p[1] /\ rows[answers[p]].body = p[2]
        /\ rows[answers[q]].key = q[1] /\ rows[answers[q]].body = q[2]
    BY <2>1 DEF Fits
  <2>3. answers[p] = answers[q]
    BY <2>1, <2>2 DEF IInv, UniqueRecords, Fits
  <2>4. p = <<p[1], p[2]>> /\ q = <<q[1], q[2]>>
    BY RequestAssumption
  <2> QED
    BY <2>2, <2>3, <2>4
<1> QED
  BY <1>1, Invariance, PTL

(* Two records that fit one request after a step are one record.           *)
LEMMA OneFits ==
  ASSUME IInv', NEW q \in Requests, NEW i \in Ids, NEW j \in Ids,
         Fits(q, i)', Fits(q, j)'
  PROVE  i = j
<1>1. /\ rows'[i].body.kind \in Kinds /\ rows'[j].body.kind \in Kinds
      /\ <<rows'[i].key, rows'[i].body>> \in Requests
      /\ <<rows'[j].key, rows'[j].body>> \in Requests
  BY DEF IInv, TypeOK, Row, Body, Fits, RowSound
<1>2. /\ rows'[i].body.scoring # NULL => rows'[i].body.kind = "assessment"
      /\ rows'[j].body.scoring # NULL => rows'[j].body.kind = "assessment"
  BY <1>1, RequestTypes
<1>3. CASE q[2].scoring # NULL
  <2>1. /\ rows'[i].body.scoring = q[2].scoring
        /\ rows'[j].body.scoring = q[2].scoring
    BY DEF Fits
  <2> QED
    BY <1>2, <1>3, <2>1 DEF IInv, UniqueRecords, Fits
<1>4. CASE q[2].scoring = NULL
  BY <1>4 DEF IInv, UniqueRecords, Fits
<1> QED
  BY <1>3, <1>4

(* The creates of all four tables implement OnceOnly: a create that is     *)
(* retried or races its own retry names one record for ever, and nobody is *)
(* answered with a record made for somebody else, except an assessment of  *)
(* the same scoring.                                                       *)
THEOREM CreatesAreOnceOnly == Spec => ImplementsOnceOnly
<1>1. Init => Once!Init
  BY DEF Init, Once!Init
<1>2. IInv /\ IInv' /\ [Next]_vars => [Once!Next]_answers
  <2> SUFFICES ASSUME IInv, IInv', [Next]_vars, answers' # answers
               PROVE  Once!Next
    OBVIOUS
  <2>1. PICK q \in Requests, i \in Ids :
          answers' = [answers EXCEPT ![q] = i] /\ Fits(q, i)'
    BY AnswersNext
  <2>2. answers[q] = NULL
    <3> SUFFICES ASSUME answers[q] # NULL PROVE FALSE
      OBVIOUS
    <3>1. PICK j \in Ids : answers[q] = j /\ Fits(q, j)
      BY DEF IInv, AnswersSound, Fits
    <3>2. Fits(q, j)'
      BY <3>1, FitsNext
    <3>3. i = j
      BY <2>1, <3>2, OneFits
    <3> QED
      BY <2>1, <3>1, <3>3 DEF IInv, TypeOK
  <2>3. Once!Unused(i) \/ \E p \in Requests : answers[p] = i /\ Alike(p, q)
    <3>1. ASSUME NEW p \in Requests, answers[p] = i PROVE Alike(p, q)
      <4>1. Fits(p, i)'
        BY <3>1, FitsNext, NullAssumption DEF IInv, AnswersSound
      <4>2. p # q
        BY <2>2, <3>1, NullAssumption
      <4>3. p = <<p[1], p[2]>> /\ q = <<q[1], q[2]>>
        BY RequestAssumption
      <4> QED
        BY <2>1, <4>1, <4>2, <4>3 DEF Fits, Alike
    <3> QED
      BY <3>1 DEF Once!Unused
  <2> QED
    BY <2>1, <2>2, <2>3 DEF Once!Next, Once!Answer
<1> QED
  BY <1>1, <1>2, Invariance, PTL DEF Spec, ImplementsOnceOnly, Once!Spec

=============================================================================

------------------------------ MODULE Records -------------------------------
(***************************************************************************)
(* The records a job search keeps about its vacancies, each made by a POST *)
(* that carries an Idempotency-Key:                                        *)
(*                                                                         *)
(*   "application"  applications.py   create                               *)
(*   "person"       people.py         create, PATCH of the status          *)
(*   "hypothesis"   hypotheses.py     create, close                        *)
(*   "assessment"   assessments.py    create                               *)
(*                                                                         *)
(* A worker serves one request at a time in one READ COMMITTED             *)
(* transaction.  Every SELECT is a step; the only flush of a request and   *)
(* its commit are one step, and no SELECT locks a row.  The four tables    *)
(* have the same columns here and the kind of a row names its table.       *)
(***************************************************************************)
EXTENDS Naturals, FiniteSets, UnitOfWork

CONSTANTS
  Workers,     \* request handlers
  Ids,         \* uuids of rows
  Keys,        \* Idempotency-Key headers
  Identities,  \* <<source, external_id>> pairs
  Vacancies,   \* vacancy ids that bodies name
  Companies,   \* companies with a row: companies are never deleted
  Scorings,    \* scoring_identity_hash values
  Notes,       \* the other columns of a body, as one
  Results,     \* results of a close, as clients send them
  Blank,       \* a result of blanks only
  Empty,       \* what strip() leaves of it
  Requests,    \* the <<key, body>> pairs clients send
  NULL

Kinds == {"application", "person", "hypothesis", "assessment"}

Body ==
  [kind: Kinds, identity: Identities, note: Notes,
   vacancy: Vacancies \cup {NULL}, company: Companies \cup {NULL, "unknown"},
   scoring: Scorings \cup {NULL}]

(* What the schemas require of a body. *)
ASSUME RequestAssumption ==
  /\ Requests \subseteq Keys \X Body
  /\ \A q \in Requests : LET b == q[2] IN
       /\ b.kind = "person" <=> b.company # NULL
       /\ b.kind \in {"application", "assessment"} => b.vacancy # NULL
       /\ b.kind = "hypothesis" => b.vacancy = NULL
       /\ b.scoring # NULL => b.kind = "assessment"

VARIABLES
  rows,      \* the committed rows of the four tables, NULL where none
  employer,  \* vacancies.company_id, NULL while the vacancy has no row
  txn,       \* txn[w]: the request worker w serves
  answers    \* the record each <<key, body>> was last answered with

vars == <<rows, employer, txn, answers>>

States == {"recorded", "new", "contacted", "active", "done"}

Row ==
  [body: Body, key: Keys, state: States,
   result: (Results \ {Blank}) \cup {Empty, NULL}]   \* strip() has been applied

ASSUME NullAssumption ==
  /\ NULL \notin Keys \cup Vacancies \cup Companies \cup Scorings \cup Results \cup {Empty} \cup Body
  /\ NULL \notin Ids /\ NULL \notin Row

Labels ==
  {"idle", "scoring_select", "identity_select", "reference_select", "insert",
   "update"}

Txn ==
  [pc: Labels, key: Keys \cup {NULL}, body: Body \cup {NULL},
   id: Ids \cup {NULL}, loaded: Row \cup {NULL}, wanted: Row \cup {NULL}]

Idle ==
  [pc |-> "idle", key |-> NULL, body |-> NULL, id |-> NULL, loaded |-> NULL,
   wanted |-> NULL]

Init ==
  /\ rows = [i \in Ids |-> NULL]
  /\ employer \in [Vacancies -> Companies \cup {NULL}]
  /\ txn = [w \in Workers |-> Idle]
  /\ answers = [q \in Requests |-> NULL]

Table(kind) == {i \in Ids : rows[i] # NULL /\ rows[i].body.kind = kind}

Keyed(kind, k)      == {i \in Table(kind) : rows[i].key = k}
Identified(kind, x) == {i \in Table(kind) : rows[i].body.identity = x}
Scored(s) ==
  {i \in Table("assessment") : s # NULL /\ rows[i].body.scoring = s}

EndWithoutCommit(w) ==
  /\ txn' = [txn EXCEPT ![w] = Idle]
  /\ UNCHANGED <<rows, employer, answers>>

Goto(w, label) ==
  /\ txn' = [txn EXCEPT ![w].pc = label]
  /\ UNCHANGED <<rows, employer, answers>>

(* The catalogue lists a vacancy or links it to another company.           *)
CatalogueStores(v, c) ==
  /\ employer' = [employer EXCEPT ![v] = c]
  /\ UNCHANGED <<rows, txn, answers>>

(***************************************************************************)
(* Create.  The first SELECT is by key: a known key is answered with its   *)
(* row if the fingerprints agree, and is a conflict that changes nothing   *)
(* otherwise.                                                              *)
(***************************************************************************)
\* Mutant: a known key is answered whatever the fingerprint.
AnyRequest(i, b) == TRUE

SameRequest(i, b) == rows[i].body = b

CreateReplay(w, k, b) ==
  /\ txn[w].pc = "idle"
  /\ \E i \in Keyed(b.kind, k) :
       /\ SameRequest(i, b)
       /\ answers' = [answers EXCEPT ![<<k, b>>] = i]
  /\ UNCHANGED <<rows, employer, txn>>

CreateByKey(w, k, b) ==
  /\ txn[w].pc = "idle"
  /\ Keyed(b.kind, k) = {}
  /\ txn' = [txn EXCEPT ![w] =
       [Idle EXCEPT !.key = k, !.body = b,
                    !.pc = IF b.scoring = NULL THEN "identity_select"
                           ELSE "scoring_select"]]
  /\ UNCHANGED <<rows, employer, answers>>

(* _load_existing_by_identity: an assessment of the same scoring is the    *)
(* answer, under whatever key; this key is not stored.                     *)
ScoringSelect(w) ==
  LET t == txn[w] IN
  /\ t.pc = "scoring_select"
  /\ \/ /\ Scored(t.body.scoring) = {}
        /\ Goto(w, "identity_select")
     \/ \E i \in Scored(t.body.scoring) :
          /\ answers' = [answers EXCEPT ![<<t.key, t.body>>] = i]
          /\ txn' = [txn EXCEPT ![w] = Idle]
          /\ UNCHANGED <<rows, employer>>

IdentitySelect(w) ==
  LET b == txn[w].body IN
  /\ txn[w].pc = "identity_select"
  /\ IF Identified(b.kind, b.identity) # {} THEN EndWithoutCommit(w)
     ELSE Goto(w, IF b.kind = "hypothesis" THEN "insert" ELSE "reference_select")

(* An application or assessment names a stored vacancy; a person a stored  *)
(* company and, if any, a stored vacancy of that company.                  *)
ReferencesValid(b) ==
  /\ b.vacancy # NULL => employer[b.vacancy] # NULL
  /\ b.kind = "person" =>
       /\ b.company \in Companies
       /\ b.vacancy # NULL => employer[b.vacancy] = b.company

ReferenceSelect(w) ==
  /\ txn[w].pc = "reference_select"
  /\ IF ReferencesValid(txn[w].body) THEN Goto(w, "insert")
     ELSE EndWithoutCommit(w)

\* Mutant: the status columns have no default.
NewRowUnset(k, b) == [body |-> b, key |-> k, result |-> NULL, state |-> NULL]

NewRow(k, b) ==
  [body |-> b, key |-> k, result |-> NULL,
   state |-> CASE b.kind = "person"     -> "new"
               [] b.kind = "hypothesis" -> "active"
               [] OTHER                 -> "recorded"]

\* Mutant: no partial unique index on scoring_identity_hash.
ViolatesNoScoring(k, b) ==
  Keyed(b.kind, k) # {} \/ Identified(b.kind, b.identity) # {}

(* uq_*_idempotency_key, uq_*_source_external_id and                       *)
(* uq_assessments_scoring_identity_hash                                    *)
ViolatesUnique(k, b) ==
  \/ Keyed(b.kind, k) # {}
  \/ Identified(b.kind, b.identity) # {}
  \/ Scored(b.scoring) # {}

\* Mutant: ON CONFLICT (idempotency_key) DO UPDATE, for retries that race.
Upsert(w) ==
  LET t == txn[w]
      Hit == Keyed(t.body.kind, t.key) IN
  /\ t.pc = "insert"
  /\ \E i \in IF Hit = {} THEN {j \in Ids : rows[j] = NULL} ELSE Hit :
       /\ rows' = [rows EXCEPT ![i] = NewRow(t.key, t.body)]
       /\ answers' = [answers EXCEPT ![<<t.key, t.body>>] = i]
       /\ txn' = [txn EXCEPT ![w] = Idle]
       /\ UNCHANGED employer

Insert(w) ==
  LET t == txn[w] IN
  /\ t.pc = "insert"
  /\ IF ViolatesUnique(t.key, t.body) THEN EndWithoutCommit(w)
     ELSE \E i \in Ids :
            /\ rows[i] = NULL
            /\ rows' = [rows EXCEPT ![i] = NewRow(t.key, t.body)]
            /\ answers' = [answers EXCEPT ![<<t.key, t.body>>] = i]
            /\ txn' = [txn EXCEPT ![w] = Idle]
            /\ UNCHANGED employer

(***************************************************************************)
(* PATCH of a person's status and close of a hypothesis.  A close of a     *)
(* done hypothesis writes nothing: it is a replay or it is refused.        *)
(***************************************************************************)
StatusSelect(w, i, s) ==
  /\ txn[w].pc = "idle"
  /\ i \in Table("person")
  /\ txn' = [txn EXCEPT ![w] =
       [Idle EXCEPT !.pc = "update", !.id = i, !.loaded = rows[i],
                    !.wanted = [rows[i] EXCEPT !.state = s]]]
  /\ UNCHANGED <<rows, employer, answers>>

(* close_hypothesis strips the text; HypothesisClose tests its length      *)
(* before that, and the command line does not, so blanks arrive here.      *)
Stripped(result) == IF result = Blank THEN Empty ELSE result

\* Mutant: `result.strip() or None`, which makes an empty result a NULL.
ClosedTruthy(row, result) ==
  [row EXCEPT !.state = "done", !.result = IF result = Empty THEN NULL ELSE result]

Closed(row, result) == [row EXCEPT !.state = "done", !.result = result]

\* Mutant: a close does not look whether the hypothesis is done.
CloseAnyway(w, i, result) ==
  /\ txn[w].pc = "idle"
  /\ i \in Table("hypothesis")
  /\ txn' = [txn EXCEPT ![w] =
       [Idle EXCEPT !.pc = "update", !.id = i, !.loaded = rows[i],
                    !.wanted = Closed(rows[i], Stripped(result))]]
  /\ UNCHANGED <<rows, employer, answers>>

CloseSelect(w, i, result) ==
  /\ txn[w].pc = "idle"
  /\ i \in Table("hypothesis")
  /\ rows[i].state = "active"
  /\ txn' = [txn EXCEPT ![w] =
       [Idle EXCEPT !.pc = "update", !.id = i, !.loaded = rows[i],
                    !.wanted = Closed(rows[i], Stripped(result))]]
  /\ UNCHANGED <<rows, employer, answers>>

Update(w) ==
  LET t == txn[w] IN
  /\ t.pc = "update"
  /\ rows' = [rows EXCEPT ![t.id] = Flushed(@, t.loaded, t.wanted)]
  /\ txn' = [txn EXCEPT ![w] = Idle]
  /\ UNCHANGED <<employer, answers>>

Rollback(w) ==
  /\ txn[w].pc # "idle"
  /\ EndWithoutCommit(w)

Accept(w) ==
  \/ \E q \in Requests : CreateReplay(w, q[1], q[2]) \/ CreateByKey(w, q[1], q[2])
  \/ \E i \in Ids, s \in {"new", "contacted"} : StatusSelect(w, i, s)
  \/ \E i \in Ids, result \in Results : CloseSelect(w, i, result)

Serve(w) ==
  \/ ScoringSelect(w)
  \/ IdentitySelect(w)
  \/ ReferenceSelect(w)
  \/ Insert(w)
  \/ Update(w)

Next ==
  \/ \E w \in Workers : Accept(w) \/ Serve(w) \/ Rollback(w)
  \/ \E v \in Vacancies, c \in Companies : CatalogueStores(v, c)

Spec == Init /\ [][Next]_vars

(***************************************************************************)
(* Properties.                                                             *)
(***************************************************************************)
(* Rows, requests and answers have the declared shape.                     *)
TypeOK ==
  /\ rows \in [Ids -> Row \cup {NULL}]
  /\ employer \in [Vacancies -> Companies \cup {NULL}]
  /\ txn \in [Workers -> Txn]
  /\ answers \in [Requests -> Ids \cup {NULL}]

(* However creates race between their SELECTs and their INSERT, a key, a   *)
(* source identity and a scoring identity each name one row of a table.    *)
UniqueRecords ==
  \A i, j \in Ids :
    /\ rows[i] # NULL /\ rows[j] # NULL
    /\ rows[i].body.kind = rows[j].body.kind
    /\ \/ rows[i].key = rows[j].key
       \/ rows[i].body.identity = rows[j].body.identity
       \/ rows[i].body.scoring = rows[j].body.scoring /\ rows[i].body.scoring # NULL
    => i = j

(* A hypothesis is done exactly when it has a result, also when two closes *)
(* cross and when the result is the empty text that strip() makes of       *)
(* blanks; no record but a hypothesis ever has one.                        *)
ResultsSound ==
  \A i \in Ids : rows[i] # NULL =>
    /\ rows[i].result # NULL <=> rows[i].state = "done"
    /\ rows[i].result # NULL => rows[i].body.kind = "hypothesis"

(* Two requests are alike if they report the same scoring.                 *)
Alike(p, q) == p[2].scoring # NULL /\ p[2].scoring = q[2].scoring

Once == INSTANCE OnceOnly WITH
  Requests <- Requests, Records <- Ids, None <- NULL, Alike <- Alike,
  answer <- answers

(* Idempotency-Key: a create that is retried after a lost answer, or races *)
(* its own retry, is never answered with another record than before, and   *)
(* nobody is answered with a record made for somebody else, except an      *)
(* assessment of the same scoring.                                         *)
ImplementsOnceOnly == Once!Spec

(* What a request recorded is never rewritten, and a hypothesis that is    *)
(* done stays done.                                                        *)
RecordsKept ==
  [][ \A i \in Ids : rows[i] # NULL =>
        /\ rows'[i] # NULL
        /\ rows'[i].body = rows[i].body /\ rows'[i].key = rows[i].key
        /\ rows[i].state = "done" => rows'[i].state = "done" ]_vars

(* A closing result is only ever overwritten by a close that loaded its    *)
(* hypothesis while it was active: no close that begins after the first    *)
(* one has committed, no PATCH and no create touches it.                   *)
OnlyCrossedClosesOverwrite ==
  [][ \A i \in Ids :
        /\ rows[i] # NULL /\ rows[i].result # NULL
        /\ rows'[i].result # rows[i].result
        => \E w \in Workers :
             /\ txn[w].pc = "update" /\ txn[w].id = i /\ txn'[w] = Idle
             /\ txn[w].loaded.state = "active"
             /\ txn[w].wanted.result = rows'[i].result ]_vars

(* hypothesis-management.md: the first closing result is immutable.        *)
FirstResultKept ==
  [][ \A i \in Ids : rows[i] # NULL /\ rows[i].result # NULL =>
        rows'[i].result = rows[i].result ]_vars

(* assessments.py: AssessmentIdempotencyConflictError signals reuse of a   *)
(* key for different normalized input.  So of the requests of one table    *)
(* that were answered with success no two share a key but not the body.    *)
KeyNamesOneBody ==
  \A p, q \in Requests :
    /\ p[1] = q[1] /\ p[2].kind = q[2].kind
    /\ answers[p] # NULL /\ answers[q] # NULL
    => p = q

=============================================================================

------------------------------ MODULE Vacancies -----------------------------
(***************************************************************************)
(* The vacancy catalogue: the tables `companies' and `vacancies' and the   *)
(* requests that write them.                                               *)
(*                                                                         *)
(*   POST  /vacancies               create_vacancy         op = "create"   *)
(*   POST  /vacancies/ingest        ingest_vacancy         op = "ingest"   *)
(*   PATCH /vacancies/{id}          update_vacancy_status  op = "status"   *)
(*   PUT   /companies/{id}/website  set_company_website    op = "website"  *)
(*                                                                         *)
(* A worker is a thread of the server's pool or a CLI process.  It runs    *)
(* one request at a time in one READ COMMITTED transaction.  Each SELECT   *)
(* is a step of its own.  A flush that is not the last database access of  *)
(* its request leaves an uncommitted row that blocks other writers; the    *)
(* last flush of a request and its commit are one step, because nobody can *)
(* see the row in between.  A failed request has no effect on the tables.  *)
(***************************************************************************)
EXTENDS Naturals, FiniteSets, UnitOfWork

CONSTANTS
  Workers,     \* concurrent request handlers
  VacancyIds,  \* uuids for vacancy rows
  CompanyIds,  \* uuids for company rows
  RawIds,      \* external ids as clients send them
  Canon,       \* _clean_str on external ids; NULL for a blank one
  Names,       \* company display names
  Fields,      \* source-owned content columns (title .. archived)
  Values,      \* their canonical values
  Statuses,    \* VacancyStatus
  New,         \* VacancyStatus.NEW
  Sites,       \* website URLs
  Keys,        \* Idempotency-Key headers
  Creates,     \* bodies of POST /vacancies that clients send
  Ingests,     \* bodies of POST /vacancies/ingest that clients send
  MaxClock,    \* bound on the wall clock, for TLC
  NULL         \* SQL NULL / None

(* The body of a create or an ingest, after schema validation. *)
Payload ==
  [posting: RawIds, employer: RawIds, name: Names, content: [Fields -> Values]]

(* Cleaning an id twice changes nothing: _clean_str strips and squeezes.   *)
ASSUME CanonAssumption ==
  /\ Canon \in [RawIds -> RawIds \cup {NULL}]
  /\ \A r \in RawIds : Canon[r] # NULL => Canon[Canon[r]] = Canon[r]

ASSUME RequestAssumption ==
  /\ Creates \subseteq Payload
  /\ Ingests \subseteq Payload

ASSUME ValueAssumption ==
  /\ New \in Statuses
  /\ MaxClock \in Nat
  /\ NULL \notin RawIds \cup Names \cup Statuses \cup Sites \cup Keys
  /\ NULL \notin VacancyIds \cup CompanyIds \cup Payload

VARIABLES
  companies,   \* committed rows of `companies', NULL where there is none
  vacancies,   \* committed rows of `vacancies', NULL where there is none
  txn,         \* txn[w]: the request worker w runs, with what it has read
  pending,     \* pending[w]: the company row w has flushed, not committed
  promised,    \* <<key, body>> of every create answered with success
  clock        \* utc_now()

vars == <<companies, vacancies, txn, pending, promised, clock>>

(***************************************************************************)
(* Rows and transactions.                                                  *)
(***************************************************************************)
Digest == [posting: RawIds, employer: RawIds, content: [Fields -> Values]]

CompanyRow ==
  [externalId: RawIds, name: Names, website: Sites \cup {NULL}]

VacancyRow ==
  [externalId: RawIds, company: CompanyIds, content: [Fields -> Values],
   hash: Digest, firstSeen: Nat, lastSeen: Nat, status: Statuses,
   key: Keys \cup {NULL}, fingerprint: Payload \cup {NULL}]

PendingRow == [id: CompanyIds, row: CompanyRow]

(* NULL is no row. *)
ASSUME RowAssumption ==
  NULL \notin CompanyRow \cup VacancyRow \cup PendingRow

Labels ==
  {"idle", "create_source", "company_select", "company_flush",
   "vacancy_insert", "ingest_select", "vacancy_update", "website_flush"}

Txn ==
  [pc: Labels,
   op: {"none", "create", "ingest", "status", "website"},
   request: Payload \cup {NULL},
   key: Keys \cup {NULL},
   company: CompanyIds \cup {NULL},       \* the Company resolved so far
   loadedCompany: CompanyRow \cup {NULL},
   wantedCompany: CompanyRow \cup {NULL},
   vacancy: VacancyIds \cup {NULL},       \* the Vacancy loaded
   loaded: VacancyRow \cup {NULL},        \*   as it was loaded
   wanted: VacancyRow \cup {NULL}]        \*   as the session wants it

Idle ==
  [pc |-> "idle", op |-> "none", request |-> NULL, key |-> NULL,
   company |-> NULL, loadedCompany |-> NULL, wantedCompany |-> NULL,
   vacancy |-> NULL, loaded |-> NULL, wanted |-> NULL]

Init ==
  /\ companies = [c \in CompanyIds |-> NULL]
  /\ vacancies = [v \in VacancyIds |-> NULL]
  /\ txn = [w \in Workers |-> Idle]
  /\ pending = [w \in Workers |-> NULL]
  /\ promised = {}
  /\ clock = 0

(***************************************************************************)
(* Helpers on the tables.                                                  *)
(***************************************************************************)
StoredCompanies == {c \in CompanyIds : companies[c] # NULL}
StoredVacancies == {v \in VacancyIds : vacancies[v] # NULL}

CompaniesWith(ext) == {c \in StoredCompanies : companies[c].externalId = ext}
VacanciesWith(ext) == {v \in StoredVacancies : vacancies[v].externalId = ext}
VacanciesKeyed(k)  == {v \in StoredVacancies : vacancies[v].key = k}

\* Mutant: a session that ends without commit keeps its row locks.
EndLeakingLock(w) ==
  /\ txn' = [txn EXCEPT ![w] = Idle]
  /\ UNCHANGED <<companies, vacancies, pending, promised>>

(* The session of w rolls back, or has nothing left to write: it ends      *)
(* without touching the tables and its uncommitted company row is gone.    *)
EndWithoutCommit(w) ==
  /\ txn' = [txn EXCEPT ![w] = Idle]
  /\ pending' = [pending EXCEPT ![w] = NULL]
  /\ UNCHANGED <<companies, vacancies, promised>>

(* The companies once w's uncommitted row becomes visible. *)
CompaniesAfterCommit(w) ==
  IF pending[w] = NULL THEN companies
  ELSE [companies EXCEPT ![pending[w].id] = pending[w].row]

(* canonicalize_vacancy_content refuses a payload with a blank id. *)
Canonical(q) == Canon[q.posting] # NULL /\ Canon[q.employer] # NULL

(* content_hash: a function of the canonical source-owned fields and ids,  *)
(* injective as far as SHA-256 is.                                         *)
DigestOf(q) ==
  [posting |-> Canon[q.posting], employer |-> Canon[q.employer],
   content |-> q.content]

(* What create_vacancy looks up with, and what ingest_vacancy does: only   *)
(* the second one has cleaned the ids of its payload by then.              *)
EmployerUsed(t) ==
  IF t.op = "ingest" THEN Canon[t.request.employer] ELSE t.request.employer

(***************************************************************************)
(* post_vacancy.  The first SELECT is by key.  A known key is answered     *)
(* with its vacancy if the bodies have one fingerprint; otherwise it is an *)
(* idempotency conflict, which changes nothing and is no step here.        *)
(***************************************************************************)
\* Mutant: the fingerprint is not compared.
AnyRequest(v, q) == TRUE

SameRequest(v, q) == vacancies[v].fingerprint = q

CreateReplay(w, q, k) ==
  /\ txn[w].pc = "idle"
  /\ \E v \in VacanciesKeyed(k) : SameRequest(v, q)
  /\ promised' = promised \cup {<<k, q>>}
  /\ UNCHANGED <<companies, vacancies, txn, pending, clock>>

CreateByKey(w, q, k) ==
  /\ txn[w].pc = "idle"
  /\ VacanciesKeyed(k) = {}
  /\ txn' = [txn EXCEPT ![w] =
               [Idle EXCEPT !.pc = "create_source", !.op = "create",
                            !.request = q, !.key = k]]
  /\ UNCHANGED <<companies, vacancies, pending, promised, clock>>

(* The second SELECT is by source identity, with the ids as sent: a match  *)
(* is answered vacancy_exists.                                             *)
CreateBySource(w) ==
  /\ txn[w].pc = "create_source"
  /\ IF VacanciesWith(txn[w].request.posting) = {}
     THEN /\ txn' = [txn EXCEPT ![w].pc = "company_select"]
          /\ UNCHANGED <<companies, vacancies, pending, promised>>
     ELSE EndWithoutCommit(w)
  /\ UNCHANGED clock

(***************************************************************************)
(* post_vacancy_ingest.  A payload that cannot be canonicalised is refused *)
(* before the database is read.                                            *)
(***************************************************************************)
IngestBegin(w, q) ==
  /\ txn[w].pc = "idle"
  /\ Canonical(q)
  /\ txn' = [txn EXCEPT ![w] =
               [Idle EXCEPT !.pc = "company_select", !.op = "ingest",
                            !.request = q]]
  /\ UNCHANGED <<companies, vacancies, pending, promised, clock>>

(***************************************************************************)
(* _ensure_company: SELECT, then INSERT a missing company or, for ingest   *)
(* only, refresh the name of one that has another name.                    *)
(***************************************************************************)
AfterCompany(t) == IF t.op = "ingest" THEN "ingest_select" ELSE "vacancy_insert"

(* `update_name and company.name != company_name' *)
RefreshesName(t, row) == t.op = "ingest" /\ row.name # t.request.name

SelectCompany(w) ==
  LET t     == txn[w]
      found == CompaniesWith(EmployerUsed(t))
  IN
  /\ t.pc = "company_select"
  /\ \/ /\ found = {}
        /\ txn' = [txn EXCEPT ![w].pc = "company_flush"]
     \/ \E c \in found :
          /\ ~RefreshesName(t, companies[c])
          /\ txn' = [txn EXCEPT ![w].company = c, ![w].pc = AfterCompany(t)]
     \/ \E c \in found :
          /\ RefreshesName(t, companies[c])
          /\ txn' = [txn EXCEPT
               ![w].company = c,
               ![w].loadedCompany = companies[c],
               ![w].wantedCompany = [companies[c] EXCEPT !.name = t.request.name],
               ![w].pc = "company_flush"]
  /\ UNCHANGED <<companies, vacancies, pending, promised, clock>>

(* A row somebody else has inserted or updated but not committed blocks an *)
(* INSERT of the same identity and an UPDATE of the same row.              *)
Blocked(w, ext) ==
  \E u \in Workers \ {w} : pending[u] # NULL /\ pending[u].row.externalId = ext

InsertCompany(w) ==
  LET t   == txn[w]
      ext == EmployerUsed(t)
  IN
  /\ t.pc = "company_flush"
  /\ t.company = NULL
  /\ ~Blocked(w, ext)
  /\ IF CompaniesWith(ext) # {}               \* uq_companies_source_external_id
     THEN EndWithoutCommit(w)
     ELSE \E c \in CompanyIds \ StoredCompanies :
            /\ \A u \in Workers : pending[u] # NULL => pending[u].id # c
            /\ pending' = [pending EXCEPT ![w] =
                 [id  |-> c,
                  row |-> [externalId |-> ext, name |-> t.request.name,
                           website |-> NULL]]]
            /\ txn' = [txn EXCEPT ![w].company = c, ![w].pc = AfterCompany(t)]
            /\ UNCHANGED <<companies, vacancies, promised>>
  /\ UNCHANGED clock

RenameCompany(w) ==
  LET t == txn[w] IN
  /\ t.pc = "company_flush"
  /\ t.company # NULL
  /\ ~Blocked(w, companies[t.company].externalId)
  /\ pending' = [pending EXCEPT ![w] =
       [id  |-> t.company,
        row |-> Flushed(companies[t.company], t.loadedCompany, t.wantedCompany)]]
  /\ txn' = [txn EXCEPT ![w].pc = AfterCompany(t),
                        ![w].loadedCompany = NULL, ![w].wantedCompany = NULL]
  /\ UNCHANGED <<companies, vacancies, promised, clock>>

(***************************************************************************)
(* The INSERT that ends a create, and an ingest that found no vacancy.     *)
(***************************************************************************)
\* Mutant: the new row is not linked to its company.
NewVacancyUnlinked(t) ==
  [externalId  |-> Canon[t.request.posting],
   company     |-> NULL,
   content     |-> t.request.content,
   hash        |-> DigestOf(t.request),
   firstSeen   |-> clock,
   lastSeen    |-> clock,
   status      |-> New,
   key         |-> t.key,
   fingerprint |-> IF t.op = "create" THEN t.request ELSE NULL]

NewVacancy(t) ==
  [externalId  |-> Canon[t.request.posting],
   company     |-> t.company,
   content     |-> t.request.content,
   hash        |-> DigestOf(t.request),
   firstSeen   |-> clock,
   lastSeen    |-> clock,
   status      |-> New,
   key         |-> t.key,
   fingerprint |-> IF t.op = "create" THEN t.request ELSE NULL]

\* Mutant: no unique constraint on the source identity.
ViolatesUniqueKeyOnly(row) == row.key # NULL /\ VacanciesKeyed(row.key) # {}

(* uq_vacancies_source_external_id or uq_vacancies_idempotency_key *)
ViolatesUnique(row) ==
  \/ VacanciesWith(row.externalId) # {}
  \/ row.key # NULL /\ VacanciesKeyed(row.key) # {}

InsertVacancy(w) ==
  LET t == txn[w] IN
  /\ t.pc = "vacancy_insert"
  /\ IF ~Canonical(t.request) \/ ViolatesUnique(NewVacancy(t))
     THEN EndWithoutCommit(w)
     ELSE \E v \in VacancyIds \ StoredVacancies :
            /\ vacancies' = [vacancies EXCEPT ![v] = NewVacancy(t)]
            /\ companies' = CompaniesAfterCommit(w)
            /\ promised' = IF t.op = "create"
                           THEN promised \cup {<<t.key, t.request>>}
                           ELSE promised
            /\ txn' = [txn EXCEPT ![w] = Idle]
            /\ pending' = [pending EXCEPT ![w] = NULL]
  /\ UNCHANGED clock

(***************************************************************************)
(* The SELECT of ingest_vacancy and what it decides: no row, so INSERT;    *)
(* an equal content_hash, so only relink the company and touch last_seen;  *)
(* a different one, so apply the source fields as well.  The status is set *)
(* to the value just read, which is no change.                             *)
(***************************************************************************)
\* Mutant: the touch stamps first_seen_at.
TouchedFirst(row, t) == [row EXCEPT !.company = t.company, !.firstSeen = clock]

Touched(row, t) == [row EXCEPT !.company = t.company, !.lastSeen = clock]

\* Mutant: an ingest that updates a row makes it an ingest row, without key.
RefreshedUnkeyed(row, t) ==
  IF row.hash = DigestOf(t.request) THEN Touched(row, t)
  ELSE [Touched(row, t) EXCEPT !.content = t.request.content,
                               !.hash    = DigestOf(t.request),
                               !.key     = NULL]

\* Mutant: new content keeps the hash of the old one.
RefreshedUnhashed(row, t) ==
  IF row.hash = DigestOf(t.request) THEN Touched(row, t)
  ELSE [Touched(row, t) EXCEPT !.content = t.request.content]

Refreshed(row, t) ==
  IF row.hash = DigestOf(t.request) THEN Touched(row, t)
  ELSE [Touched(row, t) EXCEPT !.content = t.request.content,
                               !.hash    = DigestOf(t.request)]

IngestSelect(w) ==
  LET t     == txn[w]
      found == VacanciesWith(Canon[t.request.posting])
  IN
  /\ t.pc = "ingest_select"
  /\ \/ /\ found = {}
        /\ txn' = [txn EXCEPT ![w].pc = "vacancy_insert"]
     \/ \E v \in found :
          txn' = [txn EXCEPT ![w] =
                    [Idle EXCEPT !.pc = "vacancy_update", !.op = "ingest",
                                 !.vacancy = v,
                                 !.loaded = vacancies[v],
                                 !.wanted = Refreshed(vacancies[v], t)]]
  /\ UNCHANGED <<companies, vacancies, pending, promised, clock>>

(* PATCH /vacancies/{id}: an unknown id is a 404 and writes nothing. *)
StatusSelect(w, v, s) ==
  /\ txn[w].pc = "idle"
  /\ vacancies[v] # NULL
  /\ txn' = [txn EXCEPT ![w] =
               [Idle EXCEPT !.pc = "vacancy_update", !.op = "status",
                            !.vacancy = v,
                            !.loaded = vacancies[v],
                            !.wanted = [vacancies[v] EXCEPT !.status = s]]]
  /\ UNCHANGED <<companies, vacancies, pending, promised, clock>>

\* Mutant: the UPDATE writes every column of the loaded object.
FlushedWholeVacancy(current, t) == t.wanted

(* The UPDATE of changed columns that ends an ingest of a known vacancy or *)
(* a status change.  Every source field is a column of its own.            *)
FlushedVacancy(current, t) ==
  [Flushed(current, t.loaded, t.wanted) EXCEPT
     !.content = Flushed(current.content, t.loaded.content, t.wanted.content)]

UpdateVacancy(w) ==
  LET t == txn[w] IN
  /\ t.pc = "vacancy_update"
  /\ vacancies' =
       [vacancies EXCEPT ![t.vacancy] = FlushedVacancy(vacancies[t.vacancy], t)]
  /\ companies' = CompaniesAfterCommit(w)
  /\ txn' = [txn EXCEPT ![w] = Idle]
  /\ pending' = [pending EXCEPT ![w] = NULL]
  /\ UNCHANGED <<promised, clock>>

(***************************************************************************)
(* put_company_website; an unknown id is a 404 and writes nothing.         *)
(***************************************************************************)
WebsiteSelect(w, c, s) ==
  /\ txn[w].pc = "idle"
  /\ companies[c] # NULL
  /\ txn' = [txn EXCEPT ![w] =
               [Idle EXCEPT !.pc = "website_flush", !.op = "website",
                            !.company = c,
                            !.loadedCompany = companies[c],
                            !.wantedCompany = [companies[c] EXCEPT !.website = s]]]
  /\ UNCHANGED <<companies, vacancies, pending, promised, clock>>

WebsiteFlush(w) ==
  LET t == txn[w] IN
  /\ t.pc = "website_flush"
  /\ \/ t.wantedCompany = t.loadedCompany       \* nothing to write, no lock
     \/ ~Blocked(w, companies[t.company].externalId)
  /\ companies' = [companies EXCEPT ![t.company] =
                     Flushed(@, t.loadedCompany, t.wantedCompany)]
  /\ txn' = [txn EXCEPT ![w] = Idle]
  /\ UNCHANGED <<vacancies, pending, promised, clock>>

(***************************************************************************)
(* A request fails, its client goes away or the server stops: Database's   *)
(* session() rolls back, and so does PostgreSQL for a lost connection.     *)
(***************************************************************************)
Rollback(w) ==
  /\ txn[w].pc # "idle"
  /\ EndWithoutCommit(w)
  /\ UNCHANGED clock

Tick ==
  /\ clock < MaxClock
  /\ clock' = clock + 1
  /\ UNCHANGED <<companies, vacancies, txn, pending, promised>>

(* The steps the server takes on its own for a request it has accepted. *)
Serve(w) ==
  \/ CreateBySource(w)
  \/ SelectCompany(w)
  \/ InsertCompany(w)
  \/ RenameCompany(w)
  \/ InsertVacancy(w)
  \/ IngestSelect(w)
  \/ UpdateVacancy(w)
  \/ WebsiteFlush(w)

Accept(w) ==
  \/ \E q \in Creates, k \in Keys : CreateReplay(w, q, k) \/ CreateByKey(w, q, k)
  \/ \E q \in Ingests : IngestBegin(w, q)
  \/ \E v \in VacancyIds, s \in Statuses : StatusSelect(w, v, s)
  \/ \E c \in CompanyIds, s \in Sites : WebsiteSelect(w, c, s)

Next ==
  \/ \E w \in Workers : Accept(w) \/ Serve(w) \/ Rollback(w)
  \/ Tick

(* A thread that can run does run, and PostgreSQL serves the waiters of a  *)
(* row lock in turn, so a waiter is not overtaken for ever.                *)
Fairness == \A w \in Workers : SF_vars(Serve(w))

Spec == Init /\ [][Next]_vars /\ Fairness

(***************************************************************************)
(* Properties.                                                             *)
(***************************************************************************)
(* Every variable holds rows and transactions of the declared shape.       *)
TypeOK ==
  /\ companies \in [CompanyIds -> CompanyRow \cup {NULL}]
  /\ vacancies \in [VacancyIds -> VacancyRow \cup {NULL}]
  /\ txn \in [Workers -> Txn]
  /\ pending \in [Workers -> PendingRow \cup {NULL}]
  /\ promised \subseteq Keys \X Payload
  /\ clock \in 0 .. MaxClock

(* However creates and ingests of one posting race, one row holds a source *)
(* identity, one row an idempotency key, and one row an employer identity: *)
(* the SELECTs that look for a duplicate run before the INSERT.            *)
UniqueRows ==
  /\ \A v1, v2 \in StoredVacancies :
       \/ vacancies[v1].externalId = vacancies[v2].externalId
       \/ vacancies[v1].key = vacancies[v2].key /\ vacancies[v1].key # NULL
       => v1 = v2
  /\ \A c1, c2 \in StoredCompanies :
       companies[c1].externalId = companies[c2].externalId => c1 = c2

(* A create answered with success, at once or as a replay, is kept: the    *)
(* row of its key is there and was made by the very same body, so a retry  *)
(* after a lost answer can never make a second row or adopt another one.   *)
PromisesKept ==
  \A p \in promised :
    \E v \in VacanciesKeyed(p[1]) : vacancies[v].fingerprint = p[2]

(* first_seen_at never lies after last_seen_at, although an ingest stamps  *)
(* last_seen_at before it waits for the row and other ingests overtake it. *)
SeenInOrder ==
  \A v \in StoredVacancies : vacancies[v].firstSeen <= vacancies[v].lastSeen

(* vacancy-ingest.md has last_seen_at advance.  An ingest that was slow to *)
(* write moves it back, but only behind one that wrote the row after the   *)
(* slow one had loaded it: no retry that comes late and no PATCH does.     *)
OnlyOvertakenIngestsTurnBack ==
  [][ \A v \in StoredVacancies :
        vacancies'[v].lastSeen < vacancies[v].lastSeen =>
          \E w \in Workers :
            /\ txn[w].op = "ingest" /\ txn[w].vacancy = v /\ txn'[w] = Idle
            /\ txn[w].loaded.lastSeen <= vacancies'[v].lastSeen ]_vars

(* The user's columns survive every ingest: a vacancy's status and a       *)
(* company's website change only in the commit of the request that asked   *)
(* for that value, also when an ingest that loaded the old value commits   *)
(* later.                                                                  *)
OnlyUsersDecide ==
  [][ /\ \A v \in StoredVacancies :
           vacancies'[v].status # vacancies[v].status =>
             \E w \in Workers :
               /\ txn[w].op = "status" /\ txn[w].vacancy = v
               /\ txn[w].wanted.status = vacancies'[v].status
               /\ txn'[w] = Idle
      /\ \A c \in StoredCompanies :
           companies'[c].website # companies[c].website =>
             \E w \in Workers :
               /\ txn[w].op = "website" /\ txn[w].company = c
               /\ txn[w].wantedCompany.website = companies'[c].website
               /\ txn'[w] = Idle ]_vars

(* A hash and content that do not belong together are only ever left by an *)
(* ingest whose vacancy another one changed after it was loaded: a new row *)
(* has the hash of its content, and no other request takes it apart.       *)
Described(row) ==
  row.hash.posting = row.externalId /\ row.hash.content = row.content

OnlyCrossedIngestsTear ==
  [][ \A w \in Workers, v \in VacancyIds :
        /\ vacancies'[v] # vacancies[v]
        /\ txn'[w] # txn[w]
        /\ vacancies[v] # NULL => Described(vacancies[v])
        /\ txn[w].pc = "vacancy_update" /\ txn[w].op = "ingest" =>
             /\ txn[w].loaded.content = vacancies[v].content
             /\ txn[w].loaded.hash = vacancies[v].hash
        => Described(vacancies'[v]) ]_vars

(* A request that waits for the company row of another one waits for one   *)
(* that does not wait itself, since nobody asks for a second company row:  *)
(* there is no cycle of any length, and no chain that grows with the load. *)
WaitsFor(w, u) ==
  LET t == txn[w] IN
  /\ u # w /\ pending[u] # NULL
  /\ \/ /\ t.pc = "company_flush" /\ t.company = NULL
        /\ pending[u].row.externalId = EmployerUsed(t)
     \/ /\ t.pc \in {"company_flush", "website_flush"} /\ t.company # NULL
        /\ t.wantedCompany # t.loadedCompany
        /\ pending[u].row.externalId = companies[t.company].externalId

NobodyWaitsForAWaiter ==
  \A u, w, x \in Workers : WaitsFor(w, u) => ~WaitsFor(u, x)

(* The catalogue as a client sees it; see VacancyCatalog.                  *)
Listed ==
  [p \in RawIds |->
     IF VacanciesWith(p) = {} THEN NULL
     ELSE LET v == CHOOSE v \in VacanciesWith(p) : TRUE
          IN [status |-> vacancies[v].status, key |-> vacancies[v].key,
              firstSeen |-> vacancies[v].firstSeen]]

Catalog == INSTANCE VacancyCatalog WITH
  Postings <- RawIds, Unlisted <- NULL, NoKey <- NULL, Now <- clock,
  listed <- Listed

ASSUME EntryAssumption == NULL \notin Catalog!Entry

(* The two tables, four handlers and their races implement the catalogue:  *)
(* a posting is listed once, for good, new, and keeps its key and its      *)
(* first_seen_at.                                                          *)
ImplementsCatalog == Catalog!Spec

(* Every accepted request ends: the lock order company, then vacancy, has  *)
(* no cycle, and every way out of a request releases its company row.      *)
RequestsEnd ==
  \A w \in Workers : txn[w].pc # "idle" ~> txn[w].pc = "idle"

(* vacancy-ingest.md: content_hash is a hash over the source-owned fields. *)
(* So the hash of a row is the hash of the content of that row.            *)
HashDescribesRow == \A v \in StoredVacancies : Described(vacancies[v])

=============================================================================

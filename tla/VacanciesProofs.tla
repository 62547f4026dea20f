--------------------------- MODULE VacanciesProofs --------------------------
(***************************************************************************)
(* Proofs about Vacancies, for any workers, ids, bodies and keys.          *)
(***************************************************************************)
EXTENDS Vacancies, TLAPS

(***************************************************************************)
(* The inductive invariant.                                                *)
(***************************************************************************)
(* A company row that waits for its commit agrees with the committed rows: *)
(* its identity is stored under its own id or nowhere, it does not touch   *)
(* the website, and no two workers have a row of one id or identity.       *)
PendingSound ==
  \A w \in Workers : pending[w] # NULL =>
    /\ \A c \in StoredCompanies :
         companies[c].externalId = pending[w].row.externalId <=> c = pending[w].id
    /\ companies[pending[w].id] # NULL =>
         pending[w].row.website = companies[pending[w].id].website
    /\ \A u \in Workers \ {w} : pending[u] # NULL =>
         /\ pending[u].id # pending[w].id
         /\ pending[u].row.externalId # pending[w].row.externalId

(* What a create or an ingest carries.                                     *)
RequestReady(t) ==
  /\ t.request \in Payload
  /\ \/ t.op = "create" /\ t.key \in Keys
     \/ t.op = "ingest" /\ t.key = NULL /\ Canonical(t.request)

(* What a request that changes a stored company has loaded and wants.      *)
CompanyReady(t) ==
  /\ t.company \in CompanyIds
  /\ companies[t.company] # NULL
  /\ t.loadedCompany \in CompanyRow /\ t.wantedCompany \in CompanyRow
  /\ t.wantedCompany.externalId = t.loadedCompany.externalId
  /\ \/ t.op = "website"
     \/ t.wantedCompany.website = t.loadedCompany.website

(* What a request that changes a stored vacancy has loaded and wants: only *)
(* an ingest wants another content, and with it the hash of that content.  *)
KeepsSource(old, new) == new.content = old.content /\ new.hash = old.hash

VacancyReady(t) ==
  /\ t.vacancy \in VacancyIds
  /\ vacancies[t.vacancy] # NULL
  /\ vacancies[t.vacancy].externalId = t.loaded.externalId
  /\ KeepsSource(t.loaded, t.wanted) \/ (t.op = "ingest" /\ Described(t.wanted))
  /\ t.loaded \in VacancyRow /\ t.wanted \in VacancyRow
  /\ t.wanted.externalId = t.loaded.externalId
  /\ t.wanted.key = t.loaded.key
  /\ t.wanted.fingerprint = t.loaded.fingerprint
  /\ t.wanted.firstSeen = t.loaded.firstSeen
  /\ \/ t.wanted.lastSeen = t.loaded.lastSeen
     \/ t.op = "ingest" /\ vacancies[t.vacancy].firstSeen <= t.wanted.lastSeen
  /\ t.loaded.lastSeen <= t.wanted.lastSeen /\ t.wanted.lastSeen <= clock
  /\ \/ t.op = "status"
     \/ t.wanted.status = t.loaded.status

Ready(w, t) ==
  /\ t.pc \in {"create_source", "company_select", "company_flush",
               "vacancy_insert", "ingest_select"} => RequestReady(t)
  /\ t.pc \in {"idle", "create_source", "company_select", "company_flush",
               "website_flush"} => pending[w] = NULL
  /\ t.pc \in {"create_source", "company_select"} => t.company = NULL
  /\ t.pc = "company_flush" => t.company = NULL \/ CompanyReady(t)
  /\ t.pc = "ingest_select" => t.op = "ingest"
  /\ t.pc \in {"vacancy_insert", "ingest_select"} => t.company \in CompanyIds
  /\ t.pc = "vacancy_update" => VacancyReady(t)
  /\ t.pc = "website_flush" => t.op = "website" /\ CompanyReady(t)

IInv ==
  /\ TypeOK
  /\ UniqueRows
  /\ PendingSound
  /\ \A w \in Workers : Ready(w, txn[w])
  /\ PromisesKept
  /\ \A v \in StoredVacancies :
       /\ vacancies[v].firstSeen <= vacancies[v].lastSeen
       /\ vacancies[v].lastSeen <= clock

(***************************************************************************)
(* What the operators of the model return.                                 *)
(***************************************************************************)
LEMMA CanonTypes ==
  ASSUME NEW r \in RawIds, Canon[r] # NULL
  PROVE  Canon[r] \in RawIds /\ Canon[Canon[r]] = Canon[r]
BY CanonAssumption

LEMMA RequestTypes ==
  ASSUME NEW t, RequestReady(t)
  PROVE  /\ t.request.posting \in RawIds /\ t.request.employer \in RawIds
         /\ t.request.name \in Names /\ t.request.content \in [Fields -> Values]
         /\ EmployerUsed(t) \in RawIds
         /\ Canonical(t.request) => DigestOf(t.request) \in Digest
<1>1. /\ t.request.posting \in RawIds /\ t.request.employer \in RawIds
      /\ t.request.name \in Names /\ t.request.content \in [Fields -> Values]
  BY DEF RequestReady, Payload
<1>2. EmployerUsed(t) \in RawIds
  BY <1>1, CanonTypes DEF RequestReady, EmployerUsed, Canonical
<1>3. ASSUME Canonical(t.request) PROVE DigestOf(t.request) \in Digest
  BY <1>1, <1>3, CanonTypes DEF Canonical, DigestOf, Digest
<1> QED
  BY <1>1, <1>2, <1>3

(* A flush is made column by column.                                       *)
LEMMA FlushedCompany ==
  ASSUME NEW current \in CompanyRow, NEW loaded \in CompanyRow,
         NEW wanted \in CompanyRow
  PROVE  LET new == Flushed(current, loaded, wanted) IN
         /\ new \in CompanyRow
         /\ new.externalId = IF wanted.externalId # loaded.externalId
                             THEN wanted.externalId ELSE current.externalId
         /\ new.website = IF wanted.website # loaded.website
                          THEN wanted.website ELSE current.website
BY DEF Flushed, CompanyRow

LEMMA FlushedContent ==
  ASSUME NEW current \in [Fields -> Values], NEW loaded \in [Fields -> Values],
         NEW wanted \in [Fields -> Values]
  PROVE  /\ Flushed(current, loaded, wanted) \in [Fields -> Values]
         /\ wanted = loaded => Flushed(current, loaded, wanted) = current
         /\ current = loaded => Flushed(current, loaded, wanted) = wanted
BY DEF Flushed

LEMMA FlushedRow ==
  ASSUME NEW current \in VacancyRow, NEW t,
         t.loaded \in VacancyRow, t.wanted \in VacancyRow
  PROVE  LET new == FlushedVacancy(current, t) IN
         /\ new \in VacancyRow
         /\ new.externalId = IF t.wanted.externalId # t.loaded.externalId
                             THEN t.wanted.externalId ELSE current.externalId
         /\ new.key = IF t.wanted.key # t.loaded.key THEN t.wanted.key ELSE current.key
         /\ new.fingerprint = IF t.wanted.fingerprint # t.loaded.fingerprint
                              THEN t.wanted.fingerprint ELSE current.fingerprint
         /\ new.firstSeen = IF t.wanted.firstSeen # t.loaded.firstSeen
                            THEN t.wanted.firstSeen ELSE current.firstSeen
         /\ new.lastSeen = IF t.wanted.lastSeen # t.loaded.lastSeen
                           THEN t.wanted.lastSeen ELSE current.lastSeen
         /\ new.status = IF t.wanted.status # t.loaded.status
                         THEN t.wanted.status ELSE current.status
         /\ new.hash = IF t.wanted.hash # t.loaded.hash THEN t.wanted.hash ELSE current.hash
         /\ new.content = Flushed(current.content, t.loaded.content, t.wanted.content)
<1> DEFINE row     == Flushed(current, t.loaded, t.wanted)
           content == Flushed(current.content, t.loaded.content, t.wanted.content)
<1>1. content \in [Fields -> Values]
  BY FlushedContent DEF VacancyRow
<1>2. row = [c \in {"externalId", "company", "content", "hash", "firstSeen", "lastSeen",
                    "status", "key", "fingerprint"} |->
               IF t.wanted[c] # t.loaded[c] THEN t.wanted[c] ELSE current[c]]
  BY DEF Flushed, VacancyRow
<1>3. FlushedVacancy(current, t) = [row EXCEPT !.content = content]
  BY DEF FlushedVacancy
<1> HIDE DEF content
<1>4. [row EXCEPT !.content = content] \in VacancyRow
  BY <1>1, <1>2 DEF VacancyRow
<1>5. FlushedVacancy(current, t).content = content
  BY <1>2, <1>3
<1> QED
  BY <1>1, <1>2, <1>3, <1>4, <1>5 DEF VacancyRow, content

(* An ingest keeps identity, key, first_seen_at and status of a row.       *)
LEMMA RefreshedRow ==
  ASSUME NEW row \in VacancyRow, NEW t, RequestReady(t), t.op = "ingest",
         t.company \in CompanyIds, clock \in Nat,
         row.externalId = Canon[t.request.posting]
  PROVE  LET new == Refreshed(row, t) IN
         /\ new \in VacancyRow
         /\ new.externalId = row.externalId /\ new.key = row.key
         /\ new.fingerprint = row.fingerprint /\ new.firstSeen = row.firstSeen
         /\ new.status = row.status /\ new.lastSeen = clock
         /\ KeepsSource(row, new) \/ Described(new)
<1>1. /\ DigestOf(t.request) \in Digest /\ t.request.content \in [Fields -> Values]
      /\ DigestOf(t.request).posting = row.externalId
      /\ DigestOf(t.request).content = t.request.content
  BY RequestTypes DEF RequestReady, DigestOf
<1> QED
  BY <1>1 DEF Refreshed, Touched, VacancyRow, KeepsSource, Described

LEMMA NewRow ==
  ASSUME NEW t, RequestReady(t), Canonical(t.request), t.company \in CompanyIds,
         clock \in Nat
  PROVE  LET new == NewVacancy(t) IN
         /\ new \in VacancyRow
         /\ new.externalId = Canon[t.request.posting] /\ new.key = t.key
         /\ new.fingerprint = (IF t.op = "create" THEN t.request ELSE NULL)
         /\ new.firstSeen = clock /\ new.lastSeen = clock /\ new.status = New
         /\ Described(new)
<1>1. /\ DigestOf(t.request) \in Digest /\ t.request.content \in [Fields -> Values]
      /\ Canon[t.request.posting] \in RawIds
  BY RequestTypes, CanonTypes DEF Canonical
<1>2. t.key \in Keys \cup {NULL} /\ t.request \in Payload
  BY DEF RequestReady
<1>3. Described(NewVacancy(t))
  BY DEF NewVacancy, Described, DigestOf
<1> QED
  BY <1>1, <1>2, <1>3, ValueAssumption DEF NewVacancy, VacancyRow

(***************************************************************************)
(* The steps that write vacancies.                                         *)
(***************************************************************************)
(* Row v keeps its identity, its key, who made it and when.                *)
KeepsVacancy(v) ==
  /\ vacancies'[v] \in VacancyRow
  /\ vacancies'[v].externalId = vacancies[v].externalId
  /\ vacancies'[v].key = vacancies[v].key
  /\ vacancies'[v].fingerprint = vacancies[v].fingerprint
  /\ vacancies'[v].firstSeen = vacancies[v].firstSeen

(* Row v is new and violates no constraint.                                *)
AddsVacancy(v) ==
  /\ vacancies[v] = NULL
  /\ vacancies'[v] \in VacancyRow
  /\ ~ViolatesUnique(vacancies'[v])
  /\ vacancies'[v].firstSeen = clock /\ vacancies'[v].lastSeen = clock
  /\ vacancies'[v].status = New
  /\ Described(vacancies'[v])

OthersKept(v) ==
  /\ vacancies' = [vacancies EXCEPT ![v] = vacancies'[v]]
  /\ \A u \in VacancyIds \ {v} : vacancies'[u] = vacancies[u]

LEMMA ClockTypes ==
  ASSUME IInv
  PROVE  clock \in Nat
BY ValueAssumption DEF IInv, TypeOK

LEMMA InsertedVacancy ==
  ASSUME IInv, NEW w \in Workers, InsertVacancy(w), vacancies' # vacancies
  PROVE  /\ RequestReady(txn[w])
         /\ companies' = CompaniesAfterCommit(w)
         /\ txn' = [txn EXCEPT ![w] = Idle]
         /\ pending' = [pending EXCEPT ![w] = NULL]
         /\ clock' = clock
         /\ \E v \in VacancyIds :
              /\ AddsVacancy(v) /\ OthersKept(v)
              /\ vacancies'[v].key = txn[w].key
              /\ txn[w].op = "create" => vacancies'[v].fingerprint = txn[w].request
         /\ promised' = IF txn[w].op = "create"
                        THEN promised \cup {<<txn[w].key, txn[w].request>>}
                        ELSE promised
<1> DEFINE t == txn[w]
           new == NewVacancy(t)
<1>1. RequestReady(t) /\ t.company \in CompanyIds
  BY DEF IInv, Ready, InsertVacancy
<1>2. /\ Canonical(t.request) /\ ~ViolatesUnique(new)
      /\ companies' = CompaniesAfterCommit(w)
      /\ txn' = [txn EXCEPT ![w] = Idle]
      /\ pending' = [pending EXCEPT ![w] = NULL]
      /\ clock' = clock
      /\ promised' = IF t.op = "create" THEN promised \cup {<<t.key, t.request>>}
                     ELSE promised
      /\ \E v \in VacancyIds \ StoredVacancies :
           vacancies' = [vacancies EXCEPT ![v] = new]
  BY DEF InsertVacancy, EndWithoutCommit
<1>3. /\ new \in VacancyRow /\ new.key = t.key
      /\ t.op = "create" => new.fingerprint = t.request
      /\ new.firstSeen = clock /\ new.lastSeen = clock /\ new.status = New
      /\ Described(new)
  BY <1>1, <1>2, ClockTypes, NewRow
<1>4. PICK v \in VacancyIds \ StoredVacancies :
        vacancies' = [vacancies EXCEPT ![v] = new]
  BY <1>2
<1> HIDE DEF new
<1>5. /\ vacancies'[v] = new
      /\ \A u \in VacancyIds \ {v} : vacancies'[u] = vacancies[u]
      /\ vacancies[v] = NULL
  BY <1>4 DEF IInv, TypeOK, StoredVacancies
<1>6. AddsVacancy(v)
  BY <1>2, <1>3, <1>5 DEF AddsVacancy
<1>7. OthersKept(v)
  BY <1>4, <1>5 DEF OthersKept
<1> QED
  BY <1>1, <1>2, <1>3, <1>5, <1>6, <1>7

(* An insert that writes no vacancy was refused by a constraint.           *)
LEMMA RefusedVacancy ==
  ASSUME IInv, NEW w \in Workers, InsertVacancy(w), vacancies' = vacancies
  PROVE  EndWithoutCommit(w)
<1>1. ASSUME NEW v \in VacancyIds \ StoredVacancies,
             vacancies' = [vacancies EXCEPT ![v] = NewVacancy(txn[w])],
             Canonical(txn[w].request)
      PROVE  FALSE
  <2>1. RequestReady(txn[w]) /\ txn[w].company \in CompanyIds
    BY DEF IInv, Ready, InsertVacancy
  <2>2. NewVacancy(txn[w]) \in VacancyRow
    BY <1>1, <2>1, NewRow, ClockTypes
  <2>3. vacancies'[v] = NewVacancy(txn[w]) /\ vacancies[v] = NULL
    BY <1>1 DEF IInv, TypeOK, StoredVacancies
  <2> QED
    BY <2>2, <2>3, RowAssumption
<1> QED
  BY <1>1 DEF InsertVacancy

LEMMA UpdatedVacancy ==
  ASSUME IInv, NEW w \in Workers, UpdateVacancy(w)
  PROVE  LET v == txn[w].vacancy IN
         /\ v \in VacancyIds /\ vacancies[v] # NULL
         /\ KeepsVacancy(v) /\ OthersKept(v)
         /\ vacancies'[v].firstSeen <= vacancies'[v].lastSeen
         /\ vacancies'[v].lastSeen <= clock
         /\ vacancies'[v].lastSeen < vacancies[v].lastSeen =>
              txn[w].op = "ingest" /\ txn[w].loaded.lastSeen <= vacancies'[v].lastSeen
         /\ vacancies'[v].status # vacancies[v].status =>
              txn[w].op = "status" /\ txn[w].wanted.status = vacancies'[v].status
<1> DEFINE t == txn[w]
           v == txn[w].vacancy
           new == FlushedVacancy(vacancies[v], t)
<1>1. VacancyReady(t)
  BY DEF IInv, Ready, UpdateVacancy
<1>2. v \in VacancyIds /\ vacancies[v] # NULL /\ t.loaded \in VacancyRow /\ t.wanted \in VacancyRow
  BY <1>1 DEF VacancyReady
<1>3. /\ vacancies[v] \in VacancyRow
      /\ vacancies[v].firstSeen <= vacancies[v].lastSeen /\ vacancies[v].lastSeen <= clock
  BY <1>2 DEF IInv, TypeOK, StoredVacancies
<1>4. vacancies' = [vacancies EXCEPT ![v] = new]
  BY DEF UpdateVacancy
<1>5. vacancies'[v] = new /\ \A u \in VacancyIds \ {v} : vacancies'[u] = vacancies[u]
  BY <1>2, <1>4 DEF IInv, TypeOK
<1>6. /\ new \in VacancyRow
      /\ new.externalId = vacancies[v].externalId
      /\ new.key = vacancies[v].key
      /\ new.fingerprint = vacancies[v].fingerprint
      /\ new.firstSeen = vacancies[v].firstSeen
      /\ new.lastSeen = IF t.wanted.lastSeen # t.loaded.lastSeen
                        THEN t.wanted.lastSeen ELSE vacancies[v].lastSeen
      /\ new.status = IF t.wanted.status # t.loaded.status
                      THEN t.wanted.status ELSE vacancies[v].status
  BY <1>1, <1>2, <1>3, FlushedRow DEF VacancyReady
<1> HIDE DEF new
<1>7. /\ new.firstSeen <= new.lastSeen /\ new.lastSeen <= clock
      /\ new.lastSeen < vacancies[v].lastSeen =>
           t.op = "ingest" /\ t.loaded.lastSeen <= new.lastSeen
  <2>1. /\ vacancies[v].lastSeen \in Nat /\ t.loaded.lastSeen \in Nat
        /\ t.wanted.lastSeen \in Nat
    BY <1>2, <1>3 DEF VacancyRow
  <2> QED
    BY <1>1, <1>3, <1>6, <2>1 DEF VacancyReady
<1>8. new.status # vacancies[v].status => t.op = "status" /\ t.wanted.status = new.status
  BY <1>1, <1>6 DEF VacancyReady
<1>9. KeepsVacancy(v) /\ OthersKept(v)
  BY <1>4, <1>5, <1>6 DEF KeepsVacancy, OthersKept
<1> QED
  BY <1>2, <1>5, <1>7, <1>8, <1>9

(* A step leaves the vacancies alone, adds one or changes one.             *)
LEMMA VacanciesNext ==
  ASSUME IInv, [Next]_vars
  PROVE  \/ vacancies' = vacancies
         \/ \E w \in Workers : InsertVacancy(w) /\ vacancies' # vacancies
         \/ \E w \in Workers : UpdateVacancy(w)
BY DEF Next, Accept, Serve, vars, CreateReplay, CreateByKey, CreateBySource,
       IngestBegin, SelectCompany, InsertCompany, RenameCompany, IngestSelect,
       StatusSelect, WebsiteSelect, WebsiteFlush, Rollback, Tick, EndWithoutCommit

(* Stored vacancies stay, and keep what identifies them.                   *)
LEMMA VacanciesStay ==
  ASSUME IInv, [Next]_vars, NEW v \in VacancyIds, vacancies[v] # NULL
  PROVE  vacancies'[v] # NULL /\ KeepsVacancy(v)
<1>1. vacancies[v] \in VacancyRow
  BY DEF IInv, TypeOK
<1>2. CASE vacancies'[v] = vacancies[v]
  BY <1>1, <1>2 DEF KeepsVacancy
<1>3. ASSUME NEW w \in Workers, InsertVacancy(w), vacancies' # vacancies
      PROVE  vacancies'[v] = vacancies[v]
  <2>1. PICK u \in VacancyIds : AddsVacancy(u) /\ OthersKept(u)
    BY <1>3, InsertedVacancy
  <2> QED
    BY <2>1 DEF AddsVacancy, OthersKept
<1>4. ASSUME NEW w \in Workers, UpdateVacancy(w), vacancies'[v] # vacancies[v]
      PROVE  KeepsVacancy(v)
  BY <1>4, UpdatedVacancy DEF OthersKept
<1>5. KeepsVacancy(v)
  BY <1>2, <1>3, <1>4, VacanciesNext
<1> QED
  BY <1>5, RowAssumption DEF KeepsVacancy

LEMMA VacanciesTyped ==
  ASSUME IInv, [Next]_vars
  PROVE  vacancies' \in [VacancyIds -> VacancyRow \cup {NULL}]
<1>1. ASSUME NEW v \in VacancyIds, vacancies'[v] \in VacancyRow, OthersKept(v)
      PROVE  vacancies' \in [VacancyIds -> VacancyRow \cup {NULL}]
  BY <1>1 DEF IInv, TypeOK, OthersKept
<1>2. ASSUME NEW w \in Workers, InsertVacancy(w), vacancies' # vacancies
      PROVE  \E v \in VacancyIds : vacancies'[v] \in VacancyRow /\ OthersKept(v)
  BY <1>2, InsertedVacancy DEF AddsVacancy
<1>3. ASSUME NEW w \in Workers, UpdateVacancy(w)
      PROVE  \E v \in VacancyIds : vacancies'[v] \in VacancyRow /\ OthersKept(v)
  BY <1>3, UpdatedVacancy DEF KeepsVacancy
<1>4. CASE vacancies' = vacancies
  BY <1>4 DEF IInv, TypeOK
<1> QED
  BY <1>1, <1>2, <1>3, <1>4, VacanciesNext

(* However its requests race, an identity and a key name one vacancy.      *)
LEMMA VacanciesUnique ==
  ASSUME IInv, [Next]_vars, NEW u \in StoredVacancies', NEW v \in StoredVacancies',
         \/ vacancies'[u].externalId = vacancies'[v].externalId
         \/ vacancies'[u].key = vacancies'[v].key /\ vacancies'[u].key # NULL
  PROVE  u = v
<1>1. u \in VacancyIds /\ v \in VacancyIds /\ vacancies'[u] # NULL /\ vacancies'[v] # NULL
  BY DEF StoredVacancies
<1>2. CASE vacancies[u] # NULL /\ vacancies[v] # NULL
  <2>1. KeepsVacancy(u) /\ KeepsVacancy(v)
    BY <1>1, <1>2, VacanciesStay
  <2> QED
    BY <1>1, <1>2, <2>1 DEF IInv, UniqueRows, StoredVacancies, KeepsVacancy
<1>3. ASSUME NEW x \in VacancyIds, NEW y \in VacancyIds,
             vacancies[x] = NULL, vacancies'[x] # NULL, vacancies'[y] # NULL,
             \/ vacancies'[x].externalId = vacancies'[y].externalId
             \/ vacancies'[x].key = vacancies'[y].key /\ vacancies'[x].key # NULL
      PROVE  x = y
  <2>1. AddsVacancy(x) /\ OthersKept(x)
    <3>1. ~ \E w \in Workers : UpdateVacancy(w)
      BY <1>3, UpdatedVacancy DEF OthersKept
    <3>2. PICK w \in Workers : InsertVacancy(w) /\ vacancies' # vacancies
      BY <1>3, <3>1, VacanciesNext
    <3> QED
      BY <1>3, <3>2, InsertedVacancy DEF OthersKept
  <2>2. ASSUME x # y PROVE FALSE
    <3>1. vacancies'[y] = vacancies[y]
      BY <2>1, <2>2 DEF OthersKept
    <3> QED
      BY <1>3, <2>1, <3>1
         DEF AddsVacancy, ViolatesUnique, VacanciesWith, VacanciesKeyed, StoredVacancies
  <2> QED
    BY <2>2
<1> QED
  BY <1>1, <1>2, <1>3

(***************************************************************************)
(* The steps that write companies.                                         *)
(***************************************************************************)
CompaniesSound ==
  /\ companies \in [CompanyIds -> CompanyRow \cup {NULL}]
  /\ pending \in [Workers -> PendingRow \cup {NULL}]
  /\ \A c1, c2 \in StoredCompanies :
       companies[c1].externalId = companies[c2].externalId => c1 = c2
  /\ PendingSound

LEMMA CompaniesAreSound ==
  ASSUME IInv
  PROVE  CompaniesSound
BY DEF IInv, TypeOK, UniqueRows, CompaniesSound

(* The end of a request without and with its company row.                  *)
LEMMA DroppedCompany ==
  ASSUME IInv, NEW w \in Workers,
         companies' = companies, pending' = [pending EXCEPT ![w] = NULL]
  PROVE  /\ CompaniesSound'
         /\ \A c \in StoredCompanies :
              companies'[c] # NULL /\ companies'[c].website = companies[c].website
<1>1. pending' \in [Workers -> PendingRow \cup {NULL}]
  BY CompaniesAreSound DEF CompaniesSound
<1>2. pending'[w] = NULL /\ \A u \in Workers \ {w} : pending'[u] = pending[u]
  BY CompaniesAreSound DEF CompaniesSound
<1>3. PendingSound'
  BY <1>2, CompaniesAreSound DEF CompaniesSound, PendingSound, StoredCompanies
<1> QED
  BY <1>1, <1>3, CompaniesAreSound DEF CompaniesSound, StoredCompanies

LEMMA CommittedCompany ==
  ASSUME IInv, NEW w \in Workers,
         companies' = CompaniesAfterCommit(w), pending' = [pending EXCEPT ![w] = NULL]
  PROVE  /\ CompaniesSound'
         /\ \A c \in StoredCompanies :
              companies'[c] # NULL /\ companies'[c].website = companies[c].website
<1>1. CASE pending[w] = NULL
  BY <1>1, DroppedCompany DEF CompaniesAfterCommit
<1>2. CASE pending[w] # NULL
  <2> DEFINE p == pending[w]
  <2>1. p \in PendingRow /\ p.id \in CompanyIds /\ p.row \in CompanyRow
    BY <1>2, CompaniesAreSound DEF CompaniesSound, PendingRow
  <2>2. companies' = [companies EXCEPT ![p.id] = p.row]
    BY <1>2 DEF CompaniesAfterCommit
  <2>3. /\ companies' \in [CompanyIds -> CompanyRow \cup {NULL}]
        /\ companies'[p.id] = p.row
        /\ \A c \in CompanyIds \ {p.id} : companies'[c] = companies[c]
    BY <2>1, <2>2, CompaniesAreSound DEF CompaniesSound
  <2>4. /\ pending' \in [Workers -> PendingRow \cup {NULL}]
        /\ pending'[w] = NULL /\ \A u \in Workers \ {w} : pending'[u] = pending[u]
    BY CompaniesAreSound DEF CompaniesSound
  <2>5. p.row # NULL
    BY <2>1, RowAssumption
  <2>6. \A c \in StoredCompanies :
          companies[c].externalId = p.row.externalId <=> c = p.id
    BY <1>2, CompaniesAreSound DEF CompaniesSound, PendingSound
  <2>7. ASSUME NEW c \in StoredCompanies', NEW d \in StoredCompanies',
               companies'[c].externalId = companies'[d].externalId
        PROVE  c = d
    BY <2>3, <2>6, <2>7, CompaniesAreSound DEF CompaniesSound, StoredCompanies
  <2>8. ASSUME NEW c \in StoredCompanies
        PROVE  companies'[c] # NULL /\ companies'[c].website = companies[c].website
    <3>1. c = p.id => p.row.website = companies[p.id].website
      BY <1>2, <2>8, CompaniesAreSound DEF CompaniesSound, PendingSound, StoredCompanies
    <3> QED
      BY <2>3, <2>5, <2>8, <3>1 DEF StoredCompanies
  <2>9. ASSUME NEW u \in Workers, pending'[u] # NULL
        PROVE  /\ \A c \in StoredCompanies' :
                    companies'[c].externalId = pending'[u].row.externalId
                      <=> c = pending'[u].id
               /\ companies'[pending'[u].id] # NULL =>
                    pending'[u].row.website = companies'[pending'[u].id].website
               /\ \A x \in Workers \ {u} : pending'[x] # NULL =>
                    /\ pending'[x].id # pending'[u].id
                    /\ pending'[x].row.externalId # pending'[u].row.externalId
    <3>1. u # w /\ pending'[u] = pending[u] /\ pending[u] # NULL
      BY <2>4, <2>9
    <3>2. /\ \A c \in StoredCompanies :
               companies[c].externalId = pending[u].row.externalId <=> c = pending[u].id
          /\ companies[pending[u].id] # NULL =>
               pending[u].row.website = companies[pending[u].id].website
          /\ pending[u].id # p.id
          /\ pending[u].row.externalId # p.row.externalId
          /\ \A x \in Workers \ {u} : pending[x] # NULL =>
               /\ pending[x].id # pending[u].id
               /\ pending[x].row.externalId # pending[u].row.externalId
      BY <1>2, <3>1, CompaniesAreSound DEF CompaniesSound, PendingSound
    <3>3. pending[u].id \in CompanyIds
      BY <3>1, CompaniesAreSound DEF CompaniesSound, PendingRow
    <3> HIDE DEF p
    <3>4. \A c \in StoredCompanies' :
            companies'[c].externalId = pending'[u].row.externalId <=> c = pending'[u].id
      BY <2>3, <3>1, <3>2 DEF StoredCompanies
    <3>5. companies'[pending'[u].id] # NULL =>
            pending'[u].row.website = companies'[pending'[u].id].website
      BY <2>3, <3>1, <3>2, <3>3
    <3>6. \A x \in Workers \ {u} : pending'[x] # NULL =>
            /\ pending'[x].id # pending'[u].id
            /\ pending'[x].row.externalId # pending'[u].row.externalId
      BY <2>4, <3>1, <3>2
    <3> QED
      BY <3>4, <3>5, <3>6
  <2>10. PendingSound'
    BY <2>9 DEF PendingSound
  <2> HIDE DEF p
  <2> QED
    BY <2>3, <2>4, <2>7, <2>8, <2>10 DEF CompaniesSound
<1> QED
  BY <1>1, <1>2

(* A flush of w takes a row of an identity that nobody else has flushed.   *)
LEMMA FlushedPending ==
  ASSUME IInv, NEW w \in Workers, NEW p \in PendingRow,
         companies' = companies, pending' = [pending EXCEPT ![w] = p],
         ~Blocked(w, p.row.externalId),
         \A u \in Workers \ {w} : pending[u] # NULL => pending[u].id # p.id,
         \A c \in StoredCompanies :
           companies[c].externalId = p.row.externalId <=> c = p.id,
         companies[p.id] # NULL => p.row.website = companies[p.id].website
  PROVE  CompaniesSound'
<1>1. /\ pending' \in [Workers -> PendingRow \cup {NULL}]
      /\ pending'[w] = p /\ \A u \in Workers \ {w} : pending'[u] = pending[u]
  BY CompaniesAreSound DEF CompaniesSound
<1>2. \A u \in Workers \ {w} : pending[u] # NULL =>
        pending[u].row.externalId # p.row.externalId
  BY DEF Blocked
<1>3. PendingSound
  BY DEF IInv
<1>4. PendingSound'
  BY <1>1, <1>2, <1>3 DEF PendingSound, StoredCompanies
<1> QED
  BY <1>1, <1>4, CompaniesAreSound DEF CompaniesSound, StoredCompanies

LEMMA InsertedCompany ==
  ASSUME IInv, NEW w \in Workers, InsertCompany(w), CompaniesWith(EmployerUsed(txn[w])) = {}
  PROVE  /\ CompaniesSound'
         /\ companies' = companies
<1> DEFINE ext == EmployerUsed(txn[w])
<1>1. RequestReady(txn[w])
  BY DEF IInv, Ready, InsertCompany
<1>2. ext \in RawIds /\ txn[w].request.name \in Names
  BY <1>1, RequestTypes
<1>3. PICK c \in CompanyIds \ StoredCompanies :
        /\ \A u \in Workers : pending[u] # NULL => pending[u].id # c
        /\ pending' = [pending EXCEPT ![w] =
             [id |-> c, row |-> [externalId |-> ext, name |-> txn[w].request.name,
                                 website |-> NULL]]]
        /\ companies' = companies
        /\ ~Blocked(w, ext)
  BY DEF InsertCompany
<1> DEFINE p == [id |-> c, row |-> [externalId |-> ext, name |-> txn[w].request.name,
                                    website |-> NULL]]
<1>4. p \in PendingRow /\ p.id = c /\ p.row.externalId = ext
  BY <1>2, <1>3 DEF PendingRow, CompanyRow
<1>5. pending' = [pending EXCEPT ![w] = p]
  BY <1>3
<1>6. companies[c] = NULL /\ \A d \in StoredCompanies : companies[d].externalId # ext
  BY <1>3 DEF StoredCompanies, CompaniesWith
<1> HIDE DEF p, ext
<1>7. \A d \in StoredCompanies : companies[d].externalId = p.row.externalId <=> d = p.id
  BY <1>4, <1>6 DEF StoredCompanies
<1>8. \A u \in Workers \ {w} : pending[u] # NULL => pending[u].id # p.id
  BY <1>3, <1>4
<1>9. companies[p.id] = NULL /\ ~Blocked(w, p.row.externalId)
  BY <1>3, <1>4, <1>6
<1> QED
  BY <1>3, <1>4, <1>5, <1>7, <1>8, <1>9, FlushedPending

LEMMA RenamedCompany ==
  ASSUME IInv, NEW w \in Workers, RenameCompany(w)
  PROVE  /\ CompaniesSound'
         /\ companies' = companies
<1> DEFINE t   == txn[w]
           c   == txn[w].company
           row == Flushed(companies[c], t.loadedCompany, t.wantedCompany)
           p   == [id |-> c, row |-> row]
<1>1. RequestReady(t) /\ CompanyReady(t)
  BY DEF IInv, Ready, RenameCompany
<1>2. /\ c \in CompanyIds /\ companies[c] # NULL
      /\ t.loadedCompany \in CompanyRow /\ t.wantedCompany \in CompanyRow
      /\ t.wantedCompany.externalId = t.loadedCompany.externalId
      /\ t.wantedCompany.website = t.loadedCompany.website
  BY <1>1 DEF RequestReady, CompanyReady
<1>3. companies[c] \in CompanyRow
  BY <1>2, CompaniesAreSound DEF CompaniesSound
<1>4. /\ row \in CompanyRow /\ row.externalId = companies[c].externalId
      /\ row.website = companies[c].website
  BY <1>2, <1>3, FlushedCompany
<1>5. /\ pending' = [pending EXCEPT ![w] = p] /\ companies' = companies
      /\ ~Blocked(w, companies[c].externalId)
  BY DEF RenameCompany
<1> HIDE DEF row
<1>6. /\ p \in PendingRow /\ p.id = c /\ p.row.externalId = companies[c].externalId
      /\ p.row.website = companies[c].website
  BY <1>2, <1>4 DEF PendingRow
<1>7. \A d \in StoredCompanies : companies[d].externalId = companies[c].externalId <=> d = c
  BY <1>2, CompaniesAreSound DEF CompaniesSound, StoredCompanies
<1>8. ASSUME NEW u \in Workers \ {w}, pending[u] # NULL PROVE pending[u].id # c
  <2>1. c \in StoredCompanies
    BY <1>2 DEF StoredCompanies
  <2>2. companies[c].externalId = pending[u].row.externalId <=> c = pending[u].id
    BY <1>8, <2>1, CompaniesAreSound DEF CompaniesSound, PendingSound
  <2>3. companies[c].externalId # pending[u].row.externalId
    BY <1>5, <1>8 DEF Blocked
  <2> QED
    BY <2>2, <2>3
<1> HIDE DEF p, c
<1>9. \A d \in StoredCompanies : companies[d].externalId = p.row.externalId <=> d = p.id
  BY <1>6, <1>7
<1>10. \A u \in Workers \ {w} : pending[u] # NULL => pending[u].id # p.id
  BY <1>6, <1>8
<1>11. companies[p.id] # NULL => p.row.website = companies[p.id].website
  BY <1>6
<1>12. ~Blocked(w, p.row.externalId)
  BY <1>5, <1>6
<1>13. p \in PendingRow /\ pending' = [pending EXCEPT ![w] = p] /\ companies' = companies
  BY <1>5, <1>6
<1> QED
  BY <1>9, <1>10, <1>11, <1>12, <1>13, FlushedPending

LEMMA FlushedWebsite ==
  ASSUME IInv, NEW w \in Workers, WebsiteFlush(w)
  PROVE  LET c == txn[w].company IN
         /\ CompaniesSound'
         /\ companies'[c].website # companies[c].website =>
              companies'[c].website = txn[w].wantedCompany.website
         /\ \A d \in CompanyIds \ {c} : companies'[d] = companies[d]
         /\ \A d \in StoredCompanies : companies'[d] # NULL
<1> DEFINE t   == txn[w]
           c   == txn[w].company
           row == Flushed(companies[c], t.loadedCompany, t.wantedCompany)
<1>1. CompanyReady(t) /\ pending[w] = NULL
  BY DEF IInv, Ready, WebsiteFlush
<1>2. /\ c \in CompanyIds /\ companies[c] # NULL
      /\ t.loadedCompany \in CompanyRow /\ t.wantedCompany \in CompanyRow
      /\ t.wantedCompany.externalId = t.loadedCompany.externalId
  BY <1>1 DEF CompanyReady
<1>3. companies[c] \in CompanyRow
  BY <1>2, CompaniesAreSound DEF CompaniesSound
<1>4. /\ row \in CompanyRow /\ row.externalId = companies[c].externalId
      /\ row.website = IF t.wantedCompany.website # t.loadedCompany.website
                       THEN t.wantedCompany.website ELSE companies[c].website
  BY <1>2, <1>3, FlushedCompany
<1>5. /\ companies' = [companies EXCEPT ![c] = row] /\ pending' = pending
      /\ \/ t.wantedCompany = t.loadedCompany
         \/ ~Blocked(w, companies[c].externalId)
  BY DEF WebsiteFlush
<1> HIDE DEF row
<1>6. /\ companies' \in [CompanyIds -> CompanyRow \cup {NULL}]
      /\ companies'[c] = row
      /\ \A d \in CompanyIds \ {c} : companies'[d] = companies[d]
  BY <1>2, <1>4, <1>5, CompaniesAreSound DEF CompaniesSound
<1>7. row # NULL
  BY <1>4, RowAssumption
<1>8. \A d \in CompanyIds :
        /\ companies'[d] # NULL <=> companies[d] # NULL
        /\ companies[d] # NULL => companies'[d].externalId = companies[d].externalId
  BY <1>2, <1>4, <1>6, <1>7
<1>9. ASSUME NEW u \in Workers, pending[u] # NULL, pending[u].id = c
      PROVE  row.website = companies[c].website
  <2>1. c \in StoredCompanies
    BY <1>2 DEF StoredCompanies
  <2>2. companies[c].externalId = pending[u].row.externalId
    BY <1>9, <2>1, CompaniesAreSound DEF CompaniesSound, PendingSound
  <2>3. Blocked(w, companies[c].externalId)
    BY <1>1, <1>9, <2>2 DEF Blocked
  <2> QED
    BY <1>4, <1>5, <2>3
<1>10. PendingSound'
  <2> SUFFICES ASSUME NEW u \in Workers, pending'[u] # NULL
               PROVE  /\ \A d \in StoredCompanies' :
                           companies'[d].externalId = pending'[u].row.externalId
                             <=> d = pending'[u].id
                      /\ companies'[pending'[u].id] # NULL =>
                           pending'[u].row.website = companies'[pending'[u].id].website
                      /\ \A x \in Workers \ {u} : pending'[x] # NULL =>
                           /\ pending'[x].id # pending'[u].id
                           /\ pending'[x].row.externalId # pending'[u].row.externalId
    BY DEF PendingSound
  <2>1. pending'[u] = pending[u] /\ pending[u] # NULL /\ pending[u].id \in CompanyIds
    BY <1>5, CompaniesAreSound DEF CompaniesSound, PendingRow
  <2>2. /\ \A d \in StoredCompanies :
             companies[d].externalId = pending[u].row.externalId <=> d = pending[u].id
        /\ companies[pending[u].id] # NULL =>
             pending[u].row.website = companies[pending[u].id].website
        /\ \A x \in Workers \ {u} : pending[x] # NULL =>
             /\ pending[x].id # pending[u].id
             /\ pending[x].row.externalId # pending[u].row.externalId
    BY <2>1, CompaniesAreSound DEF CompaniesSound, PendingSound
  <2> HIDE DEF c
  <2>3. \A d \in StoredCompanies' :
          companies'[d].externalId = pending'[u].row.externalId <=> d = pending'[u].id
    BY <1>8, <2>1, <2>2 DEF StoredCompanies
  <2>4. companies'[pending'[u].id] # NULL =>
          pending'[u].row.website = companies'[pending'[u].id].website
    BY <1>2, <1>6, <1>8, <1>9, <2>1, <2>2
  <2> QED
    BY <1>5, <2>2, <2>3, <2>4
<1>11. ASSUME NEW d \in StoredCompanies', NEW e \in StoredCompanies',
              companies'[d].externalId = companies'[e].externalId
       PROVE  d = e
  BY <1>8, <1>11, CompaniesAreSound DEF CompaniesSound, StoredCompanies
<1>12. CompaniesSound'
  BY <1>5, <1>6, <1>10, <1>11, CompaniesAreSound DEF CompaniesSound
<1> HIDE DEF c
<1>13. companies'[c].website # companies[c].website =>
         companies'[c].website = txn[w].wantedCompany.website
  BY <1>4, <1>6
<1> QED
  BY <1>6, <1>8, <1>12, <1>13 DEF c, StoredCompanies

(* Every step keeps the company rows, committed or not, in order.          *)
LEMMA CompaniesNext ==
  ASSUME IInv, [Next]_vars
  PROVE  /\ CompaniesSound'
         /\ \A c \in StoredCompanies : companies'[c] # NULL
<1>1. CASE companies' = companies /\ pending' = pending
  BY <1>1, CompaniesAreSound DEF CompaniesSound, PendingSound, StoredCompanies
<1>2. CASE \E w \in Workers : InsertVacancy(w) /\ vacancies' # vacancies
  BY <1>2, InsertedVacancy, CommittedCompany
<1>3. CASE \E w \in Workers : UpdateVacancy(w)
  BY <1>3, CommittedCompany DEF UpdateVacancy
<1>4. CASE \E w \in Workers : EndWithoutCommit(w)
  BY <1>4, DroppedCompany DEF EndWithoutCommit
<1>5. CASE \E w \in Workers :
             InsertCompany(w) /\ CompaniesWith(EmployerUsed(txn[w])) = {}
  BY <1>5, InsertedCompany DEF StoredCompanies
<1>6. CASE \E w \in Workers : RenameCompany(w)
  BY <1>6, RenamedCompany DEF StoredCompanies
<1>7. CASE \E w \in Workers : WebsiteFlush(w)
  BY <1>7, FlushedWebsite
<1> QED
  BY <1>1, <1>2, <1>3, <1>4, <1>5, <1>6, <1>7, RefusedVacancy
     DEF Next, Accept, Serve, vars, CreateReplay, CreateByKey, CreateBySource,
         IngestBegin, SelectCompany, InsertCompany, IngestSelect, StatusSelect,
         WebsiteSelect, Rollback, Tick

(***************************************************************************)
(* The requests in flight.                                                 *)
(***************************************************************************)
(* A step moves the request of w to where it is ready, and no other.       *)
Moves(w) ==
  /\ \A u \in Workers \ {w} : pending'[u] = pending[u]
  /\ \E t \in Txn : txn' = [txn EXCEPT ![w] = t] /\ Ready(w, t)'

LEMMA IdleSound ==
  /\ Idle \in Txn
  /\ Idle.pc = "idle" /\ Idle.company = NULL
BY DEF Idle, Txn, Labels

LEMMA EndMoves ==
  ASSUME IInv, NEW w \in Workers, txn' = [txn EXCEPT ![w] = Idle],
         pending' = [pending EXCEPT ![w] = NULL]
  PROVE  Moves(w)
<1>1. pending'[w] = NULL /\ \A u \in Workers \ {w} : pending'[u] = pending[u]
  BY CompaniesAreSound DEF CompaniesSound
<1>2. Ready(w, Idle)'
  BY <1>1, IdleSound DEF Ready
<1> QED
  BY <1>1, <1>2, IdleSound DEF Moves

LEMMA AfterCompanyLabel ==
  ASSUME NEW t
  PROVE  AfterCompany(t) \in Labels
BY DEF AfterCompany, Labels

LEMMA TxnTypes ==
  ASSUME IInv, NEW w \in Workers
  PROVE  txn[w] \in Txn
BY DEF IInv, TypeOK

LEMMA CreateByKeyMoves ==
  ASSUME IInv, NEW w \in Workers, NEW q \in Creates, NEW k \in Keys, CreateByKey(w, q, k)
  PROVE  Moves(w)
<1> DEFINE new == [Idle EXCEPT !.pc = "create_source", !.op = "create",
                               !.request = q, !.key = k]
<1>1. q \in Payload /\ pending[w] = NULL /\ pending' = pending
  BY RequestAssumption DEF IInv, Ready, CreateByKey
<1>2. /\ new \in Txn /\ new.pc = "create_source" /\ new.op = "create"
      /\ new.request = q /\ new.key = k /\ new.company = NULL
  BY <1>1 DEF Idle, Txn, Labels
<1>3. txn' = [txn EXCEPT ![w] = new]
  BY DEF CreateByKey
<1> HIDE DEF new
<1>4. PICK t \in Txn :
        /\ txn' = [txn EXCEPT ![w] = t]
        /\ t.pc = "create_source" /\ t.op = "create"
        /\ t.request = q /\ t.key = k /\ t.company = NULL
  BY <1>2, <1>3
<1>5. Ready(w, t)'
  BY <1>1, <1>4 DEF Ready, RequestReady
<1> QED
  BY <1>1, <1>4, <1>5 DEF Moves

LEMMA IngestBeginMoves ==
  ASSUME IInv, NEW w \in Workers, NEW q \in Ingests, IngestBegin(w, q)
  PROVE  Moves(w)
<1> DEFINE new == [Idle EXCEPT !.pc = "company_select", !.op = "ingest", !.request = q]
<1>1. q \in Payload /\ Canonical(q) /\ pending[w] = NULL /\ pending' = pending
  BY RequestAssumption DEF IInv, Ready, IngestBegin
<1>2. /\ new \in Txn /\ new.pc = "company_select" /\ new.op = "ingest"
      /\ new.request = q /\ new.key = NULL /\ new.company = NULL
  BY <1>1 DEF Idle, Txn, Labels
<1>3. txn' = [txn EXCEPT ![w] = new]
  BY DEF IngestBegin
<1> HIDE DEF new
<1>4. PICK t \in Txn :
        /\ txn' = [txn EXCEPT ![w] = t]
        /\ t.pc = "company_select" /\ t.op = "ingest"
        /\ t.request = q /\ t.key = NULL /\ t.company = NULL
  BY <1>2, <1>3
<1>5. Ready(w, t)'
  BY <1>1, <1>4 DEF Ready, RequestReady, Canonical
<1> QED
  BY <1>1, <1>4, <1>5 DEF Moves

(* A request that goes on keeps what it carries.                           *)
LEMMA GotoMoves ==
  ASSUME IInv, NEW w \in Workers, NEW label \in {"company_select", "company_flush"},
         txn[w].pc \in {"create_source", "company_select"},
         txn' = [txn EXCEPT ![w].pc = label], pending' = pending
  PROVE  Moves(w)
<1> DEFINE new == [txn[w] EXCEPT !.pc = label]
<1>1. RequestReady(txn[w]) /\ txn[w].company = NULL /\ pending[w] = NULL
  BY DEF IInv, Ready
<1>2. /\ new \in Txn /\ new.pc = label /\ new.op = txn[w].op
      /\ new.request = txn[w].request /\ new.key = txn[w].key /\ new.company = NULL
  BY <1>1, TxnTypes DEF Txn, Labels
<1>3. txn' = [txn EXCEPT ![w] = new]
  OBVIOUS
<1> HIDE DEF new
<1>4. PICK t \in Txn :
        /\ txn' = [txn EXCEPT ![w] = t]
        /\ t.pc = label /\ t.op = txn[w].op
        /\ t.request = txn[w].request /\ t.key = txn[w].key /\ t.company = NULL
  BY <1>2, <1>3
<1>5. RequestReady(t)'
  BY <1>1, <1>4 DEF RequestReady, Canonical
<1>6. Ready(w, t)'
  BY <1>1, <1>4, <1>5 DEF Ready
<1> QED
  BY <1>4, <1>6 DEF Moves

(* A request that has its company goes on to its vacancy.                  *)
LEMMA CompanyMoves ==
  ASSUME IInv, NEW w \in Workers, NEW c \in CompanyIds, NEW new \in Txn,
         RequestReady(txn[w]), txn' = [txn EXCEPT ![w] = new],
         new.pc = AfterCompany(txn[w]), new.company = c, new.op = txn[w].op,
         new.request = txn[w].request, new.key = txn[w].key,
         \A u \in Workers \ {w} : pending'[u] = pending[u]
  PROVE  Moves(w)
<1>1. PICK t \in Txn :
        /\ txn' = [txn EXCEPT ![w] = t]
        /\ t.pc = AfterCompany(txn[w]) /\ t.company = c /\ t.op = txn[w].op
        /\ t.request = txn[w].request /\ t.key = txn[w].key
  OBVIOUS
<1>2. RequestReady(t)'
  BY <1>1 DEF RequestReady, Canonical
<1>3. t.pc = "ingest_select" => t.op = "ingest"
  BY <1>1 DEF AfterCompany
<1>4. t.pc \in {"ingest_select", "vacancy_insert"}
  BY <1>1 DEF AfterCompany
<1>5. Ready(w, t)'
  BY <1>1, <1>2, <1>3, <1>4 DEF Ready
<1> QED
  BY <1>1, <1>5 DEF Moves

LEMMA SelectCompanyMoves ==
  ASSUME IInv, NEW w \in Workers, SelectCompany(w)
  PROVE  Moves(w)
<1> DEFINE t == txn[w]
<1>1. /\ t \in Txn /\ RequestReady(t) /\ t.company = NULL /\ pending[w] = NULL
      /\ pending' = pending /\ companies' = companies
      /\ t.pc = "company_select"
  BY TxnTypes DEF IInv, Ready, SelectCompany
<1>2. CASE txn' = [txn EXCEPT ![w].pc = "company_flush"]
  BY <1>1, <1>2, GotoMoves
<1>3. ASSUME NEW c \in CompaniesWith(EmployerUsed(t)),
             txn' = [txn EXCEPT ![w].company = c, ![w].pc = AfterCompany(t)]
      PROVE  Moves(w)
  <2> DEFINE new == [t EXCEPT !.company = c, !.pc = AfterCompany(t)]
  <2>1. c \in CompanyIds
    BY DEF CompaniesWith, StoredCompanies
  <2>2. /\ new \in Txn /\ new.pc = AfterCompany(t) /\ new.company = c
        /\ new.op = t.op /\ new.request = t.request /\ new.key = t.key
    BY <1>1, <2>1, AfterCompanyLabel DEF Txn
  <2>3. txn' = [txn EXCEPT ![w] = new]
    BY <1>3 DEF IInv, TypeOK
  <2> HIDE DEF new
  <2> QED
    BY <1>1, <2>1, <2>2, <2>3, CompanyMoves
<1>4. ASSUME NEW c \in CompaniesWith(EmployerUsed(t)), RefreshesName(t, companies[c]),
             txn' = [txn EXCEPT
               ![w].company = c,
               ![w].loadedCompany = companies[c],
               ![w].wantedCompany = [companies[c] EXCEPT !.name = t.request.name],
               ![w].pc = "company_flush"]
      PROVE  Moves(w)
  <2> DEFINE wanted == [companies[c] EXCEPT !.name = t.request.name]
             new    == [t EXCEPT !.company = c, !.loadedCompany = companies[c],
                                 !.wantedCompany = wanted, !.pc = "company_flush"]
  <2>1. c \in CompanyIds /\ companies[c] # NULL /\ companies[c] \in CompanyRow
    BY CompaniesAreSound DEF CompaniesWith, StoredCompanies, CompaniesSound
  <2>2. t.request.name \in Names
    BY <1>1, RequestTypes
  <2>3. /\ wanted \in CompanyRow /\ wanted.externalId = companies[c].externalId
        /\ wanted.website = companies[c].website
    BY <2>1, <2>2 DEF CompanyRow
  <2>4. txn' = [txn EXCEPT ![w] = new]
    BY <1>4 DEF IInv, TypeOK
  <2> HIDE DEF wanted
  <2>5. /\ new \in Txn /\ new.pc = "company_flush" /\ new.company = c
        /\ new.op = t.op /\ new.request = t.request /\ new.key = t.key
        /\ new.loadedCompany = companies[c] /\ new.wantedCompany = wanted
    BY <1>1, <2>1, <2>3 DEF Txn, Labels
  <2> HIDE DEF new
  <2>6. PICK s \in Txn :
          /\ txn' = [txn EXCEPT ![w] = s]
          /\ s.pc = "company_flush" /\ s.company = c
          /\ s.op = t.op /\ s.request = t.request /\ s.key = t.key
          /\ s.loadedCompany = companies[c] /\ s.wantedCompany = wanted
    BY <2>4, <2>5
  <2>7. RequestReady(s)'
    BY <1>1, <2>6 DEF RequestReady, Canonical
  <2>8. CompanyReady(s)'
    BY <1>1, <2>1, <2>3, <2>6 DEF CompanyReady
  <2>9. Ready(w, s)'
    BY <1>1, <2>6, <2>7, <2>8 DEF Ready
  <2> QED
    BY <1>1, <2>6, <2>9 DEF Moves
<1> QED
  BY <1>2, <1>3, <1>4 DEF SelectCompany

LEMMA FlushCompanyMoves ==
  ASSUME IInv, NEW w \in Workers, InsertCompany(w) \/ RenameCompany(w)
  PROVE  Moves(w)
<1> DEFINE t == txn[w]
<1>1. t \in Txn /\ RequestReady(t)
  BY TxnTypes DEF IInv, Ready, InsertCompany, RenameCompany
<1>2. CASE EndWithoutCommit(w)
  BY <1>2, EndMoves DEF EndWithoutCommit
<1>3. ASSUME NEW c \in CompanyIds, NEW p,
             txn' = [txn EXCEPT ![w].company = c, ![w].pc = AfterCompany(t)],
             pending' = [pending EXCEPT ![w] = p]
      PROVE  Moves(w)
  <2> DEFINE new == [t EXCEPT !.company = c, !.pc = AfterCompany(t)]
  <2>1. /\ new \in Txn /\ new.pc = AfterCompany(t) /\ new.company = c
        /\ new.op = t.op /\ new.request = t.request /\ new.key = t.key
    BY <1>1, AfterCompanyLabel DEF Txn
  <2>2. txn' = [txn EXCEPT ![w] = new]
    BY <1>3 DEF IInv, TypeOK
  <2>3. \A u \in Workers \ {w} : pending'[u] = pending[u]
    BY <1>3, CompaniesAreSound DEF CompaniesSound
  <2> HIDE DEF new
  <2> QED
    BY <1>1, <2>1, <2>2, <2>3, CompanyMoves
<1>4. CASE RenameCompany(w)
  <2> DEFINE new == [t EXCEPT !.pc = AfterCompany(t), !.loadedCompany = NULL,
                              !.wantedCompany = NULL]
  <2>1. t.company \in CompanyIds
    BY <1>4 DEF IInv, Ready, CompanyReady, RenameCompany
  <2>2. /\ new \in Txn /\ new.pc = AfterCompany(t) /\ new.company = t.company
        /\ new.op = t.op /\ new.request = t.request /\ new.key = t.key
    BY <1>1, AfterCompanyLabel DEF Txn
  <2>3. txn' = [txn EXCEPT ![w] = new]
    BY <1>4 DEF IInv, TypeOK, RenameCompany
  <2>4. \A u \in Workers \ {w} : pending'[u] = pending[u]
    BY <1>4, CompaniesAreSound DEF CompaniesSound, RenameCompany
  <2> HIDE DEF new
  <2> QED
    BY <1>1, <2>1, <2>2, <2>3, <2>4, CompanyMoves
<1> QED
  BY <1>2, <1>3, <1>4 DEF InsertCompany

(* Who loads a vacancy is ready to update it.                              *)
LEMMA LoadedMoves ==
  ASSUME IInv, NEW w \in Workers, NEW v \in StoredVacancies, NEW wanted \in VacancyRow,
         NEW op \in {"ingest", "status"},
         txn' = [txn EXCEPT ![w] =
                   [Idle EXCEPT !.pc = "vacancy_update", !.op = op, !.vacancy = v,
                                !.loaded = vacancies[v], !.wanted = wanted]],
         vacancies' = vacancies, pending' = pending,
         wanted.externalId = vacancies[v].externalId, wanted.key = vacancies[v].key,
         wanted.fingerprint = vacancies[v].fingerprint,
         wanted.firstSeen = vacancies[v].firstSeen,
         wanted.lastSeen \in {clock, vacancies[v].lastSeen},
         KeepsSource(vacancies[v], wanted) \/ (op = "ingest" /\ Described(wanted)),
         op = "ingest" \/ wanted.lastSeen = vacancies[v].lastSeen,
         op = "ingest" => wanted.status = vacancies[v].status,
         clock' = clock
  PROVE  Moves(w)
<1> DEFINE new == [Idle EXCEPT !.pc = "vacancy_update", !.op = op, !.vacancy = v,
                               !.loaded = vacancies[v], !.wanted = wanted]
<1>1. /\ v \in VacancyIds /\ vacancies[v] # NULL /\ vacancies[v] \in VacancyRow
      /\ vacancies[v].firstSeen <= vacancies[v].lastSeen /\ vacancies[v].lastSeen <= clock
      /\ vacancies[v].firstSeen \in Nat /\ vacancies[v].lastSeen \in Nat /\ clock \in Nat
  BY ClockTypes DEF StoredVacancies, IInv, TypeOK, VacancyRow
<1>2. /\ new \in Txn /\ new.pc = "vacancy_update" /\ new.op = op /\ new.vacancy = v
      /\ new.loaded = vacancies[v] /\ new.wanted = wanted
  BY <1>1 DEF Idle, Txn, Labels
<1>3. txn' = [txn EXCEPT ![w] = new]
  OBVIOUS
<1> HIDE DEF new
<1>4. PICK t \in Txn :
        /\ txn' = [txn EXCEPT ![w] = t]
        /\ t.pc = "vacancy_update" /\ t.op = op /\ t.vacancy = v
        /\ t.loaded = vacancies[v] /\ t.wanted = wanted
  BY <1>2, <1>3
<1>5. VacancyReady(t)'
  BY <1>1, <1>4 DEF VacancyReady, KeepsSource, Described
<1>6. Ready(w, t)'
  BY <1>4, <1>5 DEF Ready
<1> QED
  BY <1>4, <1>6 DEF Moves

LEMMA StatusSelectMoves ==
  ASSUME IInv, NEW w \in Workers, NEW v \in VacancyIds, NEW s \in Statuses,
         StatusSelect(w, v, s)
  PROVE  Moves(w)
<1> DEFINE wanted == [vacancies[v] EXCEPT !.status = s]
<1>1. v \in StoredVacancies /\ vacancies[v] \in VacancyRow
  BY DEF StatusSelect, StoredVacancies, IInv, TypeOK
<1>2. /\ wanted \in VacancyRow
      /\ wanted.externalId = vacancies[v].externalId /\ wanted.key = vacancies[v].key
      /\ wanted.fingerprint = vacancies[v].fingerprint
      /\ wanted.firstSeen = vacancies[v].firstSeen
      /\ wanted.lastSeen = vacancies[v].lastSeen
      /\ KeepsSource(vacancies[v], wanted)
  BY <1>1 DEF VacancyRow, KeepsSource
<1>3. /\ txn' = [txn EXCEPT ![w] =
                   [Idle EXCEPT !.pc = "vacancy_update", !.op = "status", !.vacancy = v,
                                !.loaded = vacancies[v], !.wanted = wanted]]
      /\ vacancies' = vacancies /\ pending' = pending /\ clock' = clock
  BY DEF StatusSelect
<1> HIDE DEF wanted
<1> QED
  BY <1>1, <1>2, <1>3, LoadedMoves

LEMMA IngestSelectMoves ==
  ASSUME IInv, NEW w \in Workers, IngestSelect(w)
  PROVE  Moves(w)
<1> DEFINE t == txn[w]
<1>1. /\ t \in Txn /\ RequestReady(t) /\ t.op = "ingest" /\ t.company \in CompanyIds
      /\ t.pc = "ingest_select" /\ pending' = pending /\ vacancies' = vacancies
      /\ clock' = clock
  BY TxnTypes DEF IInv, Ready, IngestSelect
<1>2. CASE txn' = [txn EXCEPT ![w].pc = "vacancy_insert"]
  <2> DEFINE new == [t EXCEPT !.pc = "vacancy_insert"]
  <2>1. /\ new \in Txn /\ new.pc = "vacancy_insert" /\ new.company = t.company
        /\ new.op = t.op /\ new.request = t.request /\ new.key = t.key
    BY <1>1 DEF Txn, Labels
  <2>2. txn' = [txn EXCEPT ![w] = new]
    BY <1>2
  <2> HIDE DEF new
  <2>3. PICK s \in Txn :
          /\ txn' = [txn EXCEPT ![w] = s]
          /\ s.pc = "vacancy_insert" /\ s.company = t.company
          /\ s.op = t.op /\ s.request = t.request /\ s.key = t.key
    BY <2>1, <2>2
  <2>4. RequestReady(s)'
    BY <1>1, <2>3 DEF RequestReady, Canonical
  <2>5. Ready(w, s)'
    BY <1>1, <2>3, <2>4 DEF Ready
  <2> QED
    BY <1>1, <2>3, <2>5 DEF Moves
<1>3. ASSUME NEW v \in VacanciesWith(Canon[t.request.posting]),
             txn' = [txn EXCEPT ![w] =
                       [Idle EXCEPT !.pc = "vacancy_update", !.op = "ingest",
                                    !.vacancy = v, !.loaded = vacancies[v],
                                    !.wanted = Refreshed(vacancies[v], t)]]
      PROVE  Moves(w)
  <2> DEFINE wanted == Refreshed(vacancies[v], t)
  <2>1. /\ v \in StoredVacancies /\ vacancies[v] \in VacancyRow
        /\ vacancies[v].externalId = Canon[t.request.posting]
    BY DEF VacanciesWith, StoredVacancies, IInv, TypeOK
  <2>2. /\ wanted \in VacancyRow
        /\ wanted.externalId = vacancies[v].externalId /\ wanted.key = vacancies[v].key
        /\ wanted.fingerprint = vacancies[v].fingerprint
        /\ wanted.firstSeen = vacancies[v].firstSeen
        /\ wanted.status = vacancies[v].status /\ wanted.lastSeen = clock
        /\ KeepsSource(vacancies[v], wanted) \/ Described(wanted)
    BY <1>1, <2>1, RefreshedRow, ClockTypes
  <2>3. txn' = [txn EXCEPT ![w] =
                  [Idle EXCEPT !.pc = "vacancy_update", !.op = "ingest", !.vacancy = v,
                               !.loaded = vacancies[v], !.wanted = wanted]]
    BY <1>3
  <2> HIDE DEF wanted
  <2> QED
    BY <1>1, <2>1, <2>2, <2>3, LoadedMoves
<1> QED
  BY <1>2, <1>3 DEF IngestSelect

LEMMA WebsiteSelectMoves ==
  ASSUME IInv, NEW w \in Workers, NEW c \in CompanyIds, NEW s \in Sites,
         WebsiteSelect(w, c, s)
  PROVE  Moves(w)
<1> DEFINE wanted == [companies[c] EXCEPT !.website = s]
           new    == [Idle EXCEPT !.pc = "website_flush", !.op = "website",
                                  !.company = c, !.loadedCompany = companies[c],
                                  !.wantedCompany = wanted]
<1>1. /\ companies[c] # NULL /\ companies[c] \in CompanyRow
      /\ pending[w] = NULL /\ pending' = pending /\ companies' = companies
  BY CompaniesAreSound DEF WebsiteSelect, CompaniesSound, IInv, Ready
<1>2. wanted \in CompanyRow /\ wanted.externalId = companies[c].externalId
  BY <1>1 DEF CompanyRow
<1>3. txn' = [txn EXCEPT ![w] = new]
  BY DEF WebsiteSelect
<1> HIDE DEF wanted
<1>4. /\ new \in Txn /\ new.pc = "website_flush" /\ new.op = "website"
      /\ new.company = c /\ new.loadedCompany = companies[c]
      /\ new.wantedCompany = wanted
  BY <1>1, <1>2 DEF Idle, Txn, Labels
<1> HIDE DEF new
<1>5. PICK t \in Txn :
        /\ txn' = [txn EXCEPT ![w] = t]
        /\ t.pc = "website_flush" /\ t.op = "website" /\ t.company = c
        /\ t.loadedCompany = companies[c] /\ t.wantedCompany = wanted
  BY <1>3, <1>4
<1>6. CompanyReady(t)'
  BY <1>1, <1>2, <1>5 DEF CompanyReady
<1>7. Ready(w, t)'
  BY <1>1, <1>5, <1>6 DEF Ready
<1> QED
  BY <1>1, <1>5, <1>7 DEF Moves

LEMMA WebsiteFlushMoves ==
  ASSUME IInv, NEW w \in Workers, WebsiteFlush(w)
  PROVE  Moves(w)
<1>1. pending[w] = NULL /\ pending' = pending /\ txn' = [txn EXCEPT ![w] = Idle]
  BY DEF IInv, Ready, WebsiteFlush
<1>2. Ready(w, Idle)'
  BY <1>1, IdleSound DEF Ready
<1> QED
  BY <1>1, <1>2, IdleSound DEF Moves

(* Every step leaves the requests alone or moves one.                      *)
LEMMA RequestsStep ==
  ASSUME IInv, [Next]_vars
  PROVE  \/ UNCHANGED <<txn, pending>>
         \/ \E w \in Workers : Moves(w)
<1>1. ASSUME NEW w \in Workers, CreateBySource(w) PROVE Moves(w)
  <2>1. CASE EndWithoutCommit(w)
    BY <2>1, EndMoves DEF EndWithoutCommit
  <2>2. CASE txn' = [txn EXCEPT ![w].pc = "company_select"] /\ pending' = pending
    BY <1>1, <2>2, GotoMoves DEF CreateBySource
  <2> QED
    BY <1>1, <2>1, <2>2 DEF CreateBySource
<1>2. ASSUME NEW w \in Workers, InsertVacancy(w) \/ UpdateVacancy(w) \/ Rollback(w)
      PROVE  Moves(w)
  <2>1. txn' = [txn EXCEPT ![w] = Idle] /\ pending' = [pending EXCEPT ![w] = NULL]
    BY <1>2 DEF InsertVacancy, UpdateVacancy, Rollback, EndWithoutCommit
  <2> QED
    BY <2>1, EndMoves
<1>3. ASSUME NEW w \in Workers, Serve(w) PROVE Moves(w)
  BY <1>1, <1>2, <1>3, SelectCompanyMoves, FlushCompanyMoves, IngestSelectMoves,
     WebsiteFlushMoves DEF Serve
<1>4. ASSUME NEW w \in Workers, Accept(w) PROVE Moves(w) \/ UNCHANGED <<txn, pending>>
  BY <1>4, CreateByKeyMoves, IngestBeginMoves, StatusSelectMoves, WebsiteSelectMoves
     DEF Accept, CreateReplay
<1>5. CASE Tick \/ UNCHANGED vars
  BY <1>5 DEF Tick, vars
<1> QED
  BY <1>2, <1>3, <1>4, <1>5 DEF Next

LEMMA ClockNext ==
  ASSUME IInv, [Next]_vars
  PROVE  clock' \in 0 .. MaxClock /\ clock <= clock'
<1>1. clock \in 0 .. MaxClock /\ MaxClock \in Nat
  BY ValueAssumption DEF IInv, TypeOK
<1>2. CASE Tick
  BY <1>1, <1>2 DEF Tick
<1>3. CASE clock' = clock
  BY <1>1, <1>3
<1> QED
  BY <1>2, <1>3
     DEF Next, Accept, Serve, vars, CreateReplay, CreateByKey, CreateBySource,
         IngestBegin, SelectCompany, InsertCompany, RenameCompany, InsertVacancy,
         IngestSelect, StatusSelect, UpdateVacancy, WebsiteSelect, WebsiteFlush, Rollback

(* A request that a step does not move stays ready.                        *)
LEMMA ReadyNext ==
  ASSUME IInv, [Next]_vars
  PROVE  txn' \in [Workers -> Txn] /\ \A w \in Workers : Ready(w, txn[w])'
<1>1. ASSUME NEW v \in Workers, txn'[v] = txn[v], pending'[v] = pending[v]
      PROVE  Ready(v, txn[v])'
  <2>1. Ready(v, txn[v])
    BY DEF IInv
  <2>2. ASSUME RequestReady(txn[v]) PROVE RequestReady(txn[v])'
    BY <1>1, <2>2 DEF RequestReady, Canonical
  <2>3. ASSUME CompanyReady(txn[v]) PROVE CompanyReady(txn[v])'
    <3>1. txn[v].company \in StoredCompanies
      BY <2>3 DEF CompanyReady, StoredCompanies
    <3>2. companies'[txn[v].company] # NULL
      BY <3>1, CompaniesNext
    <3> QED
      BY <1>1, <2>3, <3>2 DEF CompanyReady
  <2>4. ASSUME VacancyReady(txn[v]) PROVE VacancyReady(txn[v])'
    <3>1. txn[v].vacancy \in VacancyIds /\ vacancies[txn[v].vacancy] # NULL
      BY <2>4 DEF VacancyReady
    <3>2. /\ vacancies'[txn[v].vacancy] # NULL
          /\ vacancies'[txn[v].vacancy].firstSeen = vacancies[txn[v].vacancy].firstSeen
          /\ vacancies'[txn[v].vacancy].externalId = vacancies[txn[v].vacancy].externalId
      BY <3>1, VacanciesStay DEF KeepsVacancy
    <3>3. txn[v].wanted.lastSeen \in Nat
      BY <2>4 DEF VacancyReady, VacancyRow
    <3>4. txn[v].wanted.lastSeen <= clock => txn[v].wanted.lastSeen <= clock'
      BY <3>3, ClockNext, ClockTypes, ValueAssumption
    <3> QED
      BY <1>1, <2>4, <3>2, <3>4 DEF VacancyReady, KeepsSource, Described
  <2> QED
    BY <1>1, <2>1, <2>2, <2>3, <2>4 DEF Ready
<1>2. CASE UNCHANGED <<txn, pending>>
  BY <1>1, <1>2 DEF IInv, TypeOK
<1>3. ASSUME NEW w \in Workers, Moves(w)
      PROVE  txn' \in [Workers -> Txn] /\ \A v \in Workers : Ready(v, txn[v])'
  <2>1. PICK t \in Txn : txn' = [txn EXCEPT ![w] = t] /\ Ready(w, t)'
    BY <1>3 DEF Moves
  <2>2. /\ txn' \in [Workers -> Txn] /\ txn'[w] = t
        /\ \A v \in Workers \ {w} : txn'[v] = txn[v]
    BY <2>1 DEF IInv, TypeOK
  <2>3. Ready(w, txn[w])'
    BY <2>1, <2>2 DEF Ready, RequestReady, Canonical, CompanyReady, VacancyReady,
                      KeepsSource, Described
  <2>4. \A v \in Workers \ {w} : pending'[v] = pending[v]
    BY <1>3 DEF Moves
  <2> QED
    BY <1>1, <2>2, <2>3, <2>4
<1> QED
  BY <1>2, <1>3, RequestsStep

(***************************************************************************)
(* Promises and time stamps.                                               *)
(***************************************************************************)
Kept(p) == \E v \in VacanciesKeyed(p[1]) : vacancies[v].fingerprint = p[2]

(* A kept promise stays kept.                                              *)
LEMMA KeptNext ==
  ASSUME IInv, [Next]_vars, NEW p \in Keys \X Payload, Kept(p)
  PROVE  Kept(p)'
<1>1. PICK v \in VacancyIds :
        vacancies[v] # NULL /\ vacancies[v].key = p[1] /\ vacancies[v].fingerprint = p[2]
  BY DEF Kept, VacanciesKeyed, StoredVacancies
<1>2. /\ vacancies'[v] # NULL /\ vacancies'[v].key = p[1]
      /\ vacancies'[v].fingerprint = p[2]
  BY <1>1, VacanciesStay DEF KeepsVacancy
<1> QED
  BY <1>2 DEF Kept, VacanciesKeyed, StoredVacancies

LEMMA PromisesNext ==
  ASSUME IInv, [Next]_vars
  PROVE  promised' \subseteq Keys \X Payload /\ PromisesKept'
<1>1. \A p \in promised : p \in Keys \X Payload /\ Kept(p)
  BY DEF IInv, TypeOK, PromisesKept, Kept
<1>2. ASSUME NEW p \in promised' \ promised
      PROVE  p \in Keys \X Payload /\ Kept(p)'
  <2>1. ASSUME NEW w \in Workers, NEW q \in Creates, NEW k \in Keys, CreateReplay(w, q, k)
        PROVE  p \in Keys \X Payload /\ Kept(p)'
    <3>1. p = <<k, q>> /\ q \in Payload /\ vacancies' = vacancies
      BY <2>1, RequestAssumption DEF CreateReplay
    <3>2. PICK v \in VacanciesKeyed(k) : vacancies[v].fingerprint = q
      BY <2>1 DEF CreateReplay, SameRequest
    <3> QED
      BY <3>1, <3>2 DEF Kept, VacanciesKeyed, StoredVacancies
  <2>2. ASSUME NEW w \in Workers, InsertVacancy(w), vacancies' # vacancies
        PROVE  p \in Keys \X Payload /\ Kept(p)'
    <3>1. /\ txn[w].op = "create" /\ p = <<txn[w].key, txn[w].request>>
          /\ RequestReady(txn[w])
      BY <2>2, InsertedVacancy
    <3>2. txn[w].key \in Keys /\ txn[w].request \in Payload
      BY <3>1 DEF RequestReady
    <3>3. PICK v \in VacancyIds :
            /\ vacancies'[v] \in VacancyRow /\ vacancies'[v].key = txn[w].key
            /\ vacancies'[v].fingerprint = txn[w].request
      BY <2>2, <3>1, InsertedVacancy DEF AddsVacancy
    <3> QED
      BY <3>1, <3>2, <3>3, RowAssumption DEF Kept, VacanciesKeyed, StoredVacancies
  <2>3. ASSUME NEW w \in Workers, InsertVacancy(w), vacancies' = vacancies
        PROVE  promised' = promised
    BY <2>3, RefusedVacancy DEF EndWithoutCommit
  <2> QED
    BY <1>2, <2>1, <2>2, <2>3
       DEF Next, Accept, Serve, vars, CreateByKey, CreateBySource, IngestBegin,
           SelectCompany, InsertCompany, RenameCompany, IngestSelect, StatusSelect,
           UpdateVacancy, WebsiteSelect, WebsiteFlush, Rollback, Tick, EndWithoutCommit
<1>3. \A p \in promised' : p \in Keys \X Payload /\ Kept(p)'
  BY <1>1, <1>2, KeptNext
<1> QED
  BY <1>3 DEF PromisesKept, Kept

LEMMA SeenNext ==
  ASSUME IInv, [Next]_vars, NEW v \in StoredVacancies'
  PROVE  vacancies'[v].firstSeen <= vacancies'[v].lastSeen /\ vacancies'[v].lastSeen <= clock'
<1>1. v \in VacancyIds /\ vacancies'[v] # NULL
  BY DEF StoredVacancies
<1>2. clock \in Nat /\ clock' \in Nat /\ clock <= clock'
  BY ClockNext, ClockTypes, ValueAssumption
<1>3. CASE vacancies'[v] = vacancies[v]
  BY <1>1, <1>2, <1>3 DEF IInv, TypeOK, StoredVacancies, VacancyRow
<1>4. ASSUME NEW w \in Workers, InsertVacancy(w), vacancies' # vacancies,
             vacancies'[v] # vacancies[v]
      PROVE  vacancies'[v].firstSeen = clock /\ vacancies'[v].lastSeen = clock
  BY <1>1, <1>4, InsertedVacancy DEF AddsVacancy, OthersKept
<1>5. ASSUME NEW w \in Workers, UpdateVacancy(w), vacancies'[v] # vacancies[v]
      PROVE  /\ vacancies'[v].firstSeen <= vacancies'[v].lastSeen
             /\ vacancies'[v].lastSeen <= clock'
  <2>1. /\ vacancies'[v].firstSeen <= vacancies'[v].lastSeen
        /\ vacancies'[v].lastSeen <= clock
    BY <1>1, <1>5, UpdatedVacancy DEF OthersKept
  <2>2. vacancies'[v].lastSeen \in Nat
    BY <1>1, VacanciesTyped DEF VacancyRow
  <2> QED
    BY <1>2, <2>1, <2>2
<1> QED
  BY <1>2, <1>3, <1>4, <1>5, VacanciesNext

(***************************************************************************)
(* The invariant and the theorems.                                         *)
(***************************************************************************)
LEMMA InitIInv == Init => IInv
<1> SUFFICES ASSUME Init PROVE IInv
  OBVIOUS
<1>1. TypeOK
  BY IdleSound, ValueAssumption DEF Init, TypeOK
<1>2. StoredCompanies = {} /\ StoredVacancies = {}
  BY DEF Init, StoredCompanies, StoredVacancies
<1>3. PendingSound /\ PromisesKept /\ \A w \in Workers : Ready(w, txn[w])
  BY IdleSound DEF Init, PendingSound, PromisesKept, Ready
<1> QED
  BY <1>1, <1>2, <1>3 DEF IInv, UniqueRows

LEMMA NextIInv == IInv /\ [Next]_vars => IInv'
<1> SUFFICES ASSUME IInv, [Next]_vars PROVE IInv'
  OBVIOUS
<1>1. TypeOK'
  BY VacanciesTyped, CompaniesNext, ReadyNext, PromisesNext, ClockNext
     DEF TypeOK, CompaniesSound
<1>2. UniqueRows'
  BY VacanciesUnique, CompaniesNext DEF UniqueRows, CompaniesSound
<1>3. PendingSound'
  BY CompaniesNext DEF CompaniesSound
<1>4. \A v \in StoredVacancies' :
        vacancies'[v].firstSeen <= vacancies'[v].lastSeen /\ vacancies'[v].lastSeen <= clock'
  BY SeenNext
<1> QED
  BY <1>1, <1>2, <1>3, <1>4, ReadyNext, PromisesNext DEF IInv

LEMMA Invariance == Spec => []IInv
BY InitIInv, NextIInv, PTL DEF Spec

(* Every variable holds rows and requests of the declared shape.           *)
THEOREM TypeCorrect == Spec => []TypeOK
<1>1. IInv => TypeOK
  BY DEF IInv
<1> QED
  BY <1>1, Invariance, PTL

(* However creates and ingests race, one row holds a source identity, an   *)
(* idempotency key and an employer identity.                               *)
THEOREM RowsAreUnique == Spec => []UniqueRows
<1>1. IInv => UniqueRows
  BY DEF IInv
<1> QED
  BY <1>1, Invariance, PTL

(* A create that was answered with success keeps the row of its key, made  *)
(* by that very body: no retry makes a second row or adopts another one.   *)
THEOREM PromisesAreKept == Spec => []PromisesKept
<1>1. IInv => PromisesKept
  BY DEF IInv
<1> QED
  BY <1>1, Invariance, PTL

(* first_seen_at is never after last_seen_at, whichever ingest of those    *)
(* that overtake each other commits last.                                  *)
THEOREM SeenStaysInOrder == Spec => []SeenInOrder
<1>1. IInv => SeenInOrder
  BY DEF IInv, SeenInOrder
<1> QED
  BY <1>1, Invariance, PTL

(* last_seen_at goes back only where an ingest overtook another one.       *)
THEOREM OvertakenIngestsTurnBack == Spec => OnlyOvertakenIngestsTurnBack
<1>1. ASSUME IInv, [Next]_vars, NEW v \in StoredVacancies,
             vacancies'[v].lastSeen < vacancies[v].lastSeen
      PROVE  \E w \in Workers :
               /\ txn[w].op = "ingest" /\ txn[w].vacancy = v /\ txn'[w] = Idle
               /\ txn[w].loaded.lastSeen <= vacancies'[v].lastSeen
  <2>1. v \in VacancyIds /\ vacancies[v] # NULL /\ vacancies[v].lastSeen \in Nat
    BY <1>1 DEF StoredVacancies, IInv, TypeOK, VacancyRow
  <2>2. vacancies'[v] # vacancies[v]
    BY <1>1, <2>1
  <2>3. ~ \E w \in Workers : InsertVacancy(w) /\ vacancies' # vacancies
    BY <1>1, <2>1, <2>2, InsertedVacancy DEF AddsVacancy, OthersKept
  <2>4. PICK w \in Workers : UpdateVacancy(w)
    BY <1>1, <2>2, <2>3, VacanciesNext
  <2>5. txn[w].vacancy = v
    BY <1>1, <2>1, <2>2, <2>4, UpdatedVacancy DEF OthersKept
  <2>6. txn'[w] = Idle
    BY <1>1, <2>4 DEF UpdateVacancy, IInv, TypeOK
  <2> QED
    BY <1>1, <2>4, <2>5, <2>6, UpdatedVacancy
<1>2. IInv /\ [Next]_vars =>
        [ \A v \in StoredVacancies :
            vacancies'[v].lastSeen < vacancies[v].lastSeen =>
              \E w \in Workers :
                /\ txn[w].op = "ingest" /\ txn[w].vacancy = v /\ txn'[w] = Idle
                /\ txn[w].loaded.lastSeen <= vacancies'[v].lastSeen ]_vars
  BY <1>1
<1> QED
  BY <1>2, Invariance, PTL DEF Spec, OnlyOvertakenIngestsTurnBack

(* No ingest changes a vacancy's status or a company's website: they       *)
(* change only in the commit of the request that asked for the new value.  *)
THEOREM UsersDecide == Spec => OnlyUsersDecide
<1>1. ASSUME IInv, [Next]_vars, NEW v \in StoredVacancies,
             vacancies'[v].status # vacancies[v].status
      PROVE  \E w \in Workers :
               /\ txn[w].op = "status" /\ txn[w].vacancy = v
               /\ txn[w].wanted.status = vacancies'[v].status
               /\ txn'[w] = Idle
  <2>1. ~ \E w \in Workers : InsertVacancy(w) /\ vacancies' # vacancies
    BY <1>1, InsertedVacancy DEF AddsVacancy, OthersKept, StoredVacancies
  <2>2. PICK w \in Workers : UpdateVacancy(w)
    BY <1>1, <2>1, VacanciesNext
  <2>3. txn[w].vacancy = v
    BY <1>1, <2>2, UpdatedVacancy DEF OthersKept, StoredVacancies
  <2>4. txn'[w] = Idle
    BY <1>1, <2>2 DEF UpdateVacancy, IInv, TypeOK
  <2> QED
    BY <1>1, <2>2, <2>3, <2>4, UpdatedVacancy
<1>2. ASSUME IInv, [Next]_vars, NEW c \in StoredCompanies,
             companies'[c].website # companies[c].website
      PROVE  \E w \in Workers :
               /\ txn[w].op = "website" /\ txn[w].company = c
               /\ txn[w].wantedCompany.website = companies'[c].website
               /\ txn'[w] = Idle
  <2>1. ASSUME NEW w \in Workers, companies' = CompaniesAfterCommit(w),
               pending' = [pending EXCEPT ![w] = NULL]
        PROVE  FALSE
    BY <1>2, <2>1, CommittedCompany
  <2>2. PICK w \in Workers : WebsiteFlush(w)
    BY <1>2, <2>1
       DEF Next, Accept, Serve, vars, CreateReplay, CreateByKey, CreateBySource,
           IngestBegin, SelectCompany, InsertCompany, RenameCompany, InsertVacancy,
           IngestSelect, StatusSelect, UpdateVacancy, WebsiteSelect, Rollback, Tick,
           EndWithoutCommit
  <2>3. txn[w].company = c
    BY <1>2, <2>2, FlushedWebsite DEF StoredCompanies
  <2>4. txn'[w] = Idle
    BY <1>2, <2>2 DEF WebsiteFlush, IInv, TypeOK
  <2>5. txn[w].op = "website"
    BY <1>2, <2>2 DEF WebsiteFlush, IInv, Ready
  <2> QED
    BY <1>2, <2>2, <2>3, <2>4, <2>5, FlushedWebsite
<1>3. IInv /\ [Next]_vars =>
        [ /\ \A v \in StoredVacancies :
               vacancies'[v].status # vacancies[v].status =>
                 \E w \in Workers :
                   /\ txn[w].op = "status" /\ txn[w].vacancy = v
                   /\ txn[w].wanted.status = vacancies'[v].status
                   /\ txn'[w] = Idle
          /\ \A c \in StoredCompanies :
               companies'[c].website # companies[c].website =>
                 \E w \in Workers :
                   /\ txn[w].op = "website" /\ txn[w].company = c
                   /\ txn[w].wantedCompany.website = companies'[c].website
                   /\ txn'[w] = Idle ]_vars
  BY <1>1, <1>2
<1> QED
  BY <1>3, Invariance, PTL DEF Spec, OnlyUsersDecide

(***************************************************************************)
(* The order of the steps of a request.                                    *)
(***************************************************************************)
Rank ==
  [label \in Labels |->
     CASE label = "idle" -> 0
       [] label \in {"vacancy_insert", "vacancy_update", "website_flush"} -> 1
       [] label = "ingest_select" -> 2
       [] label = "company_flush" -> 3
       [] label = "company_select" -> 4
       [] label = "create_source" -> 5]

(* The request of worker w begins, or goes on to a label of lower rank.    *)
Goes(w) ==
  /\ \A u \in Workers \ {w} : txn'[u] = txn[u]
  /\ \/ txn[w].pc = "idle"
     \/ Rank[txn'[w].pc] < Rank[txn[w].pc]
  /\ txn'[w].pc = "vacancy_update" => IngestSelect(w) \/ txn'[w].op = "status"

LEMMA Ranks ==
  /\ Rank["idle"] = 0
  /\ Rank["vacancy_insert"] = 1 /\ Rank["vacancy_update"] = 1 /\ Rank["website_flush"] = 1
  /\ Rank["ingest_select"] = 2 /\ Rank["company_flush"] = 3
  /\ Rank["company_select"] = 4 /\ Rank["create_source"] = 5
BY DEF Rank, Labels

(* A request that goes on to another label, with whatever it carries.      *)
LEMMA GoesOn ==
  ASSUME IInv, NEW w \in Workers, NEW t, txn' = [txn EXCEPT ![w] = t],
         txn[w].pc # "idle", Rank[t.pc] < Rank[txn[w].pc],
         t.pc = "vacancy_update" => IngestSelect(w)
  PROVE  Goes(w)
BY DEF Goes, IInv, TypeOK

LEMMA BeginGoes ==
  ASSUME IInv, NEW w \in Workers, NEW t, txn' = [txn EXCEPT ![w] = t],
         txn[w].pc = "idle", t.pc = "vacancy_update" => t.op = "status"
  PROVE  Goes(w)
BY DEF Goes, IInv, TypeOK

LEMMA EndGoes ==
  ASSUME IInv, NEW w \in Workers, txn' = [txn EXCEPT ![w] = Idle]
  PROVE  Goes(w)
<1>1. CASE txn[w].pc = "idle"
  BY <1>1, IdleSound, BeginGoes
<1>2. CASE txn[w].pc # "idle"
  <2>1. txn[w].pc \in Labels
    BY TxnTypes DEF Txn
  <2>2. Rank[Idle.pc] < Rank[txn[w].pc]
    BY <1>2, <2>1, IdleSound, Ranks DEF Labels
  <2> QED
    BY <1>2, <2>2, IdleSound, GoesOn
<1> QED
  BY <1>1, <1>2

LEMMA SelectCompanyGoes ==
  ASSUME IInv, NEW w \in Workers, SelectCompany(w)
  PROVE  Goes(w)
<1>1. txn[w] \in Txn /\ txn[w].pc = "company_select"
  BY TxnTypes DEF SelectCompany
<1>2. ASSUME NEW t, txn' = [txn EXCEPT ![w] = t],
             t.pc \in {"company_flush", "ingest_select", "vacancy_insert"}
      PROVE  Goes(w)
  <2>1. Rank[t.pc] < Rank[txn[w].pc] /\ t.pc # "vacancy_update"
    BY <1>1, <1>2, Ranks
  <2> QED
    BY <1>1, <1>2, <2>1, GoesOn
<1>3. CASE txn' = [txn EXCEPT ![w].pc = "company_flush"]
  <2> DEFINE t == [txn[w] EXCEPT !.pc = "company_flush"]
  <2>1. txn' = [txn EXCEPT ![w] = t] /\ t.pc = "company_flush"
    BY <1>1, <1>3 DEF Txn
  <2> HIDE DEF t
  <2> QED
    BY <1>2, <2>1
<1>4. ASSUME NEW c \in CompanyIds,
             txn' = [txn EXCEPT ![w].company = c, ![w].pc = AfterCompany(txn[w])]
      PROVE  Goes(w)
  <2> DEFINE t == [txn[w] EXCEPT !.company = c, !.pc = AfterCompany(txn[w])]
  <2>1. txn' = [txn EXCEPT ![w] = t] /\ t.pc = AfterCompany(txn[w])
    BY <1>1, <1>4 DEF Txn, IInv, TypeOK
  <2>2. t.pc \in {"ingest_select", "vacancy_insert"}
    BY <2>1 DEF AfterCompany
  <2> HIDE DEF t
  <2> QED
    BY <1>2, <2>1, <2>2
<1>5. ASSUME NEW c \in CompanyIds,
             txn' = [txn EXCEPT
               ![w].company = c,
               ![w].loadedCompany = companies[c],
               ![w].wantedCompany = [companies[c] EXCEPT !.name = txn[w].request.name],
               ![w].pc = "company_flush"]
      PROVE  Goes(w)
  <2> DEFINE t == [txn[w] EXCEPT
                     !.company = c,
                     !.loadedCompany = companies[c],
                     !.wantedCompany = [companies[c] EXCEPT !.name = txn[w].request.name],
                     !.pc = "company_flush"]
  <2>1. txn' = [txn EXCEPT ![w] = t] /\ t.pc = "company_flush"
    BY <1>1, <1>5 DEF Txn, IInv, TypeOK
  <2> HIDE DEF t
  <2> QED
    BY <1>2, <2>1
<1> QED
  BY <1>3, <1>4, <1>5 DEF SelectCompany, CompaniesWith, StoredCompanies

LEMMA FlushCompanyGoes ==
  ASSUME IInv, NEW w \in Workers, InsertCompany(w) \/ RenameCompany(w)
  PROVE  Goes(w)
<1>1. txn[w] \in Txn /\ txn[w].pc = "company_flush"
  BY TxnTypes DEF InsertCompany, RenameCompany
<1>2. CASE EndWithoutCommit(w)
  BY <1>2, EndGoes DEF EndWithoutCommit
<1>3. ASSUME NEW t, txn' = [txn EXCEPT ![w] = t], t.pc = AfterCompany(txn[w])
      PROVE  Goes(w)
  <2>1. t.pc \in {"ingest_select", "vacancy_insert"}
    BY <1>3 DEF AfterCompany
  <2>2. Rank[t.pc] < Rank[txn[w].pc] /\ t.pc # "vacancy_update"
    BY <1>1, <2>1, Ranks
  <2> QED
    BY <1>1, <1>3, <2>2, GoesOn
<1>4. ASSUME NEW c, txn' = [txn EXCEPT ![w].company = c, ![w].pc = AfterCompany(txn[w])]
      PROVE  Goes(w)
  <2> DEFINE t == [txn[w] EXCEPT !.company = c, !.pc = AfterCompany(txn[w])]
  <2>1. txn' = [txn EXCEPT ![w] = t] /\ t.pc = AfterCompany(txn[w])
    BY <1>1, <1>4 DEF Txn, IInv, TypeOK
  <2> HIDE DEF t
  <2> QED
    BY <1>3, <2>1
<1>5. CASE RenameCompany(w)
  <2> DEFINE t == [txn[w] EXCEPT !.pc = AfterCompany(txn[w]), !.loadedCompany = NULL,
                                 !.wantedCompany = NULL]
  <2>1. txn' = [txn EXCEPT ![w] = t] /\ t.pc = AfterCompany(txn[w])
    BY <1>1, <1>5 DEF RenameCompany, Txn, IInv, TypeOK
  <2> HIDE DEF t
  <2> QED
    BY <1>3, <2>1
<1> QED
  BY <1>2, <1>4, <1>5 DEF InsertCompany

LEMMA IngestSelectGoes ==
  ASSUME IInv, NEW w \in Workers, IngestSelect(w)
  PROVE  /\ Goes(w)
         /\ txn'[w].pc = "vacancy_update" => txn'[w].loaded = vacancies[txn'[w].vacancy]
<1>1. txn[w] \in Txn /\ txn[w].pc = "ingest_select"
  BY TxnTypes DEF IngestSelect
<1>2. ASSUME NEW t, txn' = [txn EXCEPT ![w] = t], t.pc \in {"vacancy_insert", "vacancy_update"}
      PROVE  Goes(w) /\ txn'[w] = t
  <2>1. Rank[t.pc] < Rank[txn[w].pc]
    BY <1>1, <1>2, Ranks
  <2>2. txn'[w] = t
    BY <1>2 DEF IInv, TypeOK
  <2> QED
    BY <1>1, <1>2, <2>1, <2>2, GoesOn
<1>3. CASE txn' = [txn EXCEPT ![w].pc = "vacancy_insert"]
  <2> DEFINE t == [txn[w] EXCEPT !.pc = "vacancy_insert"]
  <2>1. txn' = [txn EXCEPT ![w] = t] /\ t.pc = "vacancy_insert"
    BY <1>1, <1>3 DEF Txn
  <2> HIDE DEF t
  <2>2. Goes(w) /\ txn'[w] = t
    BY <1>2, <2>1
  <2> QED
    BY <2>1, <2>2
<1>4. ASSUME NEW v, NEW new,
             txn' = [txn EXCEPT ![w] =
               [Idle EXCEPT !.pc = "vacancy_update", !.op = "ingest", !.vacancy = v,
                            !.loaded = vacancies[v], !.wanted = new]]
      PROVE  Goes(w) /\ txn'[w].loaded = vacancies[txn'[w].vacancy]
  <2> DEFINE t == [Idle EXCEPT !.pc = "vacancy_update", !.op = "ingest", !.vacancy = v,
                               !.loaded = vacancies[v], !.wanted = new]
  <2>1. t.pc = "vacancy_update" /\ t.vacancy = v /\ t.loaded = vacancies[v]
    BY DEF Idle
  <2>2. txn' = [txn EXCEPT ![w] = t]
    BY <1>4
  <2> HIDE DEF t
  <2>3. Goes(w) /\ txn'[w] = t
    BY <1>2, <2>1, <2>2
  <2> QED
    BY <2>1, <2>3
<1> QED
  BY <1>3, <1>4 DEF IngestSelect

LEMMA AcceptGoes ==
  ASSUME IInv, NEW w \in Workers, Accept(w)
  PROVE  Goes(w) \/ txn' = txn
<1>1. ASSUME NEW q, NEW k, CreateByKey(w, q, k) PROVE Goes(w)
  BY <1>1, BeginGoes DEF CreateByKey, Idle
<1>2. ASSUME NEW q, IngestBegin(w, q) PROVE Goes(w)
  BY <1>2, BeginGoes DEF IngestBegin, Idle
<1>3. ASSUME NEW v, NEW s, StatusSelect(w, v, s) PROVE Goes(w)
  BY <1>3, BeginGoes DEF StatusSelect, Idle
<1>4. ASSUME NEW c, NEW s, WebsiteSelect(w, c, s) PROVE Goes(w)
  BY <1>4, BeginGoes DEF WebsiteSelect, Idle
<1> QED
  BY <1>1, <1>2, <1>3, <1>4 DEF Accept, CreateReplay

LEMMA RequestsGo ==
  ASSUME IInv, [Next]_vars
  PROVE  txn' = txn \/ \E w \in Workers : Goes(w)
<1>1. ASSUME NEW w \in Workers, CreateBySource(w) PROVE Goes(w)
  <2>1. CASE EndWithoutCommit(w)
    BY <2>1, EndGoes DEF EndWithoutCommit
  <2>2. CASE txn' = [txn EXCEPT ![w].pc = "company_select"]
    <3> DEFINE t == [txn[w] EXCEPT !.pc = "company_select"]
    <3>1. txn' = [txn EXCEPT ![w] = t] /\ t.pc = "company_select"
      BY <2>2, TxnTypes DEF Txn
    <3>2. txn[w].pc = "create_source"
      BY <1>1 DEF CreateBySource
    <3> HIDE DEF t
    <3>3. Rank[t.pc] < Rank[txn[w].pc]
      BY <3>1, <3>2, Ranks
    <3> QED
      BY <3>1, <3>2, <3>3, GoesOn
  <2> QED
    BY <1>1, <2>1, <2>2 DEF CreateBySource
<1>2. ASSUME NEW w \in Workers,
             InsertVacancy(w) \/ UpdateVacancy(w) \/ WebsiteFlush(w) \/ Rollback(w)
      PROVE  Goes(w)
  <2>1. txn' = [txn EXCEPT ![w] = Idle]
    BY <1>2 DEF InsertVacancy, UpdateVacancy, WebsiteFlush, Rollback, EndWithoutCommit
  <2> QED
    BY <2>1, EndGoes
<1>3. ASSUME NEW w \in Workers, Serve(w) PROVE Goes(w)
  BY <1>1, <1>2, <1>3, SelectCompanyGoes, FlushCompanyGoes, IngestSelectGoes DEF Serve
<1>4. CASE Tick \/ UNCHANGED vars
  BY <1>4 DEF Tick, vars
<1> QED
  BY <1>2, <1>3, <1>4, AcceptGoes DEF Next

(* No request goes back: a step that changes what a worker runs begins a   *)
(* request or takes one to a label of lower rank, so from its second step  *)
(* on a request takes at most five more, whatever the others do.  This is  *)
(* what RequestsEnd needs beside fairness and a free row lock.             *)
THEOREM RequestsAdvance ==
  Spec => [][ \A w \in Workers :
                txn'[w] # txn[w] =>
                  txn[w].pc = "idle" \/ Rank[txn'[w].pc] < Rank[txn[w].pc] ]_vars
<1>1. IInv /\ [Next]_vars =>
        [ \A w \in Workers :
            txn'[w] # txn[w] =>
              txn[w].pc = "idle" \/ Rank[txn'[w].pc] < Rank[txn[w].pc] ]_vars
  BY RequestsGo DEF Goes
<1> QED
  BY <1>1, Invariance, PTL DEF Spec

(* A request with an uncommitted company row, for which others may wait,   *)
(* is past its company flush, and there is no second one: it waits for     *)
(* nobody.                                                                 *)
LEMMA HoldersGoOn ==
  IInv => NobodyWaitsForAWaiter
<1> SUFFICES ASSUME IInv, NEW u \in Workers, NEW w \in Workers, NEW x \in Workers,
                    WaitsFor(w, u), WaitsFor(u, x)
             PROVE  FALSE
  BY DEF NobodyWaitsForAWaiter
<1>1. pending[u] # NULL
  BY DEF WaitsFor
<1>2. txn[u].pc \in {"company_flush", "website_flush"}
  BY DEF WaitsFor
<1>3. Ready(u, txn[u])
  BY DEF IInv
<1> QED
  BY <1>1, <1>2, <1>3 DEF Ready

(* However many requests run, the waits for company rows make no cycle and *)
(* no chain of two: the lock discipline of _ensure_company, which flushes  *)
(* one company row per request, before the vacancy.                        *)
THEOREM WaitsAreShallow == Spec => []NobodyWaitsForAWaiter
  BY Invariance, HoldersGoOn, PTL

(***************************************************************************)
(* Hash and content.                                                       *)
(***************************************************************************)
(* What an update makes of them, from what it has loaded.                  *)
LEMMA UpdatedSource ==
  ASSUME IInv, NEW w \in Workers, UpdateVacancy(w)
  PROVE  LET v == txn[w].vacancy IN
         /\ txn[w].op # "ingest" => KeepsSource(vacancies[v], vacancies'[v])
         /\ /\ Described(vacancies[v])
            /\ KeepsSource(vacancies[v], txn[w].loaded) \/ txn[w].op # "ingest"
            => Described(vacancies'[v])
<1> DEFINE t == txn[w]
           v == txn[w].vacancy
           old == vacancies[v]
           new == vacancies'[v]
<1>1. VacancyReady(t)
  BY DEF IInv, Ready, UpdateVacancy
<1>2. old \in VacancyRow /\ t.loaded \in VacancyRow /\ t.wanted \in VacancyRow
  BY <1>1 DEF VacancyReady, IInv, TypeOK
<1>3. new = FlushedVacancy(old, t)
  BY <1>1 DEF UpdateVacancy, VacancyReady, IInv, TypeOK
<1>4. /\ new.hash = IF t.wanted.hash # t.loaded.hash THEN t.wanted.hash ELSE old.hash
      /\ new.content = Flushed(old.content, t.loaded.content, t.wanted.content)
      /\ new.externalId = old.externalId
  BY <1>1, <1>2, <1>3, FlushedRow DEF VacancyReady
<1>5. /\ old.content \in [Fields -> Values] /\ t.loaded.content \in [Fields -> Values]
      /\ t.wanted.content \in [Fields -> Values]
  BY <1>2 DEF VacancyRow
<1> HIDE DEF new, old
<1>6. ASSUME KeepsSource(t.loaded, t.wanted) PROVE KeepsSource(old, new)
  BY <1>4, <1>5, <1>6, FlushedContent DEF KeepsSource
<1>7. ASSUME KeepsSource(old, t.loaded), Described(t.wanted) PROVE Described(new)
  <2>1. new.content = t.wanted.content
    BY <1>4, <1>5, <1>7, FlushedContent DEF KeepsSource
  <2>2. new.hash = t.wanted.hash
    BY <1>4, <1>7 DEF KeepsSource
  <2>3. new.externalId = t.wanted.externalId
    BY <1>1, <1>4 DEF VacancyReady, old
  <2> QED
    BY <1>7, <2>1, <2>2, <2>3 DEF Described
<1>8. ASSUME KeepsSource(old, new), Described(old) PROVE Described(new)
  BY <1>4, <1>8 DEF KeepsSource, Described
<1> QED
  BY <1>1, <1>6, <1>7, <1>8 DEF VacancyReady, new, old

(* A step makes a vacancy whose hash is that of its content, or keeps one, *)
(* but for an ingest whose vacancy is no longer as it was loaded.          *)
LEMMA DescribedNext ==
  ASSUME IInv, [Next]_vars, NEW v \in VacancyIds, vacancies'[v] # vacancies[v]
  PROVE  \/ vacancies[v] = NULL /\ Described(vacancies'[v])
         \/ \E w \in Workers :
              /\ UpdateVacancy(w) /\ txn[w].vacancy = v /\ vacancies[v] # NULL
              /\ \A u \in Workers \ {w} : txn'[u] = txn[u]
<1>1. ASSUME NEW w \in Workers, InsertVacancy(w), vacancies' # vacancies
      PROVE  vacancies[v] = NULL /\ Described(vacancies'[v])
  BY <1>1, InsertedVacancy DEF AddsVacancy, OthersKept
<1>2. ASSUME NEW w \in Workers, UpdateVacancy(w)
      PROVE  /\ txn[w].vacancy = v /\ vacancies[v] # NULL
             /\ \A u \in Workers \ {w} : txn'[u] = txn[u]
  <2>1. txn[w].vacancy = v /\ vacancies[v] # NULL
    BY <1>2, UpdatedVacancy DEF OthersKept
  <2>2. txn' = [txn EXCEPT ![w] = Idle]
    BY <1>2 DEF UpdateVacancy
  <2> QED
    BY <2>1, <2>2 DEF IInv, TypeOK
<1> QED
  BY <1>1, <1>2, VacanciesNext

(* A new row has the hash of its content, and only an ingest that another  *)
(* one crossed leaves a hash and a content that do not belong together.    *)
THEOREM CrossedIngestsTear == Spec => OnlyCrossedIngestsTear
<1>1. ASSUME IInv, [Next]_vars, NEW w \in Workers, NEW v \in VacancyIds,
             vacancies'[v] # vacancies[v], txn'[w] # txn[w],
             vacancies[v] # NULL => Described(vacancies[v]),
             txn[w].pc = "vacancy_update" /\ txn[w].op = "ingest" =>
               /\ txn[w].loaded.content = vacancies[v].content
               /\ txn[w].loaded.hash = vacancies[v].hash
      PROVE  Described(vacancies'[v])
  <2>1. SUFFICES ASSUME NEW u \in Workers, UpdateVacancy(u), txn[u].vacancy = v,
                        vacancies[v] # NULL, \A x \in Workers \ {u} : txn'[x] = txn[x]
                 PROVE  Described(vacancies'[v])
    BY <1>1, DescribedNext
  <2>2. w = u
    BY <1>1, <2>1
  <2>3. KeepsSource(vacancies[v], txn[w].loaded) \/ txn[w].op # "ingest"
    BY <1>1, <2>1, <2>2 DEF UpdateVacancy, KeepsSource
  <2> QED
    BY <1>1, <2>1, <2>2, <2>3, UpdatedSource
<1>2. IInv /\ [Next]_vars =>
        [ \A w \in Workers, v \in VacancyIds :
            /\ vacancies'[v] # vacancies[v]
            /\ txn'[w] # txn[w]
            /\ vacancies[v] # NULL => Described(vacancies[v])
            /\ txn[w].pc = "vacancy_update" /\ txn[w].op = "ingest" =>
                 /\ txn[w].loaded.content = vacancies[v].content
                 /\ txn[w].loaded.hash = vacancies[v].hash
            => Described(vacancies'[v]) ]_vars
  BY <1>1
<1> QED
  BY <1>2, Invariance, PTL DEF Spec, OnlyCrossedIngestsTear

(* No two ingests have loaded one vacancy at the same time.                *)
NoCrossing ==
  \A u, w \in Workers :
    /\ txn[u].pc = "vacancy_update" /\ txn[u].op = "ingest"
    /\ txn[w].pc = "vacancy_update" /\ txn[w].op = "ingest"
    /\ txn[u].vacancy = txn[w].vacancy
    => u = w

(* What an ingest has loaded is then what is still stored.                 *)
LoadedIsStored ==
  \A w \in Workers :
    txn[w].pc = "vacancy_update" /\ txn[w].op = "ingest" =>
      KeepsSource(vacancies[txn[w].vacancy], txn[w].loaded)

LEMMA LoadedStays ==
  ASSUME IInv, [Next]_vars, NoCrossing, LoadedIsStored
  PROVE  LoadedIsStored'
<1> SUFFICES ASSUME NEW w \in Workers,
                    txn'[w].pc = "vacancy_update", txn'[w].op = "ingest"
             PROVE  KeepsSource(vacancies'[txn'[w].vacancy], txn'[w].loaded)
  BY DEF LoadedIsStored, KeepsSource
<1>1. CASE txn'[w] = txn[w]
  <2> DEFINE v == txn[w].vacancy
  <2>1. /\ VacancyReady(txn[w]) /\ KeepsSource(vacancies[v], txn[w].loaded)
        /\ v \in VacancyIds /\ vacancies[v] # NULL
    BY <1>1 DEF IInv, Ready, LoadedIsStored, VacancyReady
  <2>2. CASE vacancies'[v] = vacancies[v]
    BY <1>1, <2>1, <2>2
  <2>3. CASE vacancies'[v] # vacancies[v]
    <3>1. PICK u \in Workers : UpdateVacancy(u) /\ txn[u].vacancy = v
      BY <2>1, <2>3, DescribedNext
    <3>2. txn'[u] = Idle /\ txn[u].pc = "vacancy_update"
      BY <3>1 DEF UpdateVacancy, IInv, TypeOK
    <3>3. u # w
      BY <3>2, IdleSound
    <3>4. txn[u].op # "ingest"
      BY <1>1, <3>1, <3>2, <3>3 DEF NoCrossing
    <3>5. KeepsSource(vacancies[v], vacancies'[v])
      BY <3>1, <3>4, UpdatedSource
    <3> QED
      BY <1>1, <2>1, <3>5 DEF KeepsSource
  <2> QED
    BY <2>2, <2>3
<1>2. CASE txn'[w] # txn[w]
  <2>1. Goes(w)
    BY <1>2, RequestsGo DEF Goes
  <2>2. IngestSelect(w)
    BY <2>1 DEF Goes
  <2>3. vacancies' = vacancies /\ txn'[w].loaded = vacancies[txn'[w].vacancy]
    BY <2>2, IngestSelectGoes DEF IngestSelect
  <2> QED
    BY <2>3 DEF KeepsSource
<1> QED
  BY <1>1, <1>2

(* Where no two ingests of one vacancy cross, the hash of every row is the *)
(* hash of its content, whatever else runs concurrently.                   *)
THEOREM UncrossedIngestsDescribe == Spec /\ []NoCrossing => []HashDescribesRow
<1>1. Init => LoadedIsStored /\ HashDescribesRow
  BY IdleSound DEF Init, LoadedIsStored, HashDescribesRow, StoredVacancies
<1>2. IInv /\ [Next]_vars /\ NoCrossing /\ LoadedIsStored /\ HashDescribesRow
        => LoadedIsStored' /\ HashDescribesRow'
  <2> SUFFICES ASSUME IInv, [Next]_vars, NoCrossing, LoadedIsStored, HashDescribesRow,
                      NEW v \in VacancyIds, vacancies'[v] # NULL
               PROVE  Described(vacancies'[v])
    BY LoadedStays DEF HashDescribesRow, StoredVacancies, Described
  <2>1. CASE vacancies'[v] = vacancies[v]
    BY <2>1 DEF HashDescribesRow, StoredVacancies
  <2>2. ASSUME NEW w \in Workers, UpdateVacancy(w), txn[w].vacancy = v, vacancies[v] # NULL
        PROVE  Described(vacancies'[v])
    <3>1. Described(vacancies[v])
      BY <2>2 DEF HashDescribesRow, StoredVacancies
    <3>2. KeepsSource(vacancies[v], txn[w].loaded) \/ txn[w].op # "ingest"
      BY <2>2 DEF LoadedIsStored, UpdateVacancy
    <3> QED
      BY <2>2, <3>1, <3>2, UpdatedSource
  <2> QED
    BY <2>1, <2>2, DescribedNext
<1> QED
  BY <1>1, <1>2, Invariance, PTL DEF Spec

(***************************************************************************)
(* The catalogue.                                                          *)
(***************************************************************************)
EntryOf(v) ==
  [status |-> vacancies[v].status, key |-> vacancies[v].key,
   firstSeen |-> vacancies[v].firstSeen]

(* The entry of a posting is that of its one row.                          *)
ListedSound ==
  \A v \in StoredVacancies :
    /\ vacancies[v].externalId \in RawIds
    /\ Listed[vacancies[v].externalId] = EntryOf(v)
    /\ EntryOf(v) \in Catalog!Entry

LEMMA ListedRow == IInv => ListedSound
<1> SUFFICES ASSUME IInv, NEW v \in StoredVacancies
             PROVE  /\ vacancies[v].externalId \in RawIds
                    /\ Listed[vacancies[v].externalId] = EntryOf(v)
                    /\ EntryOf(v) \in Catalog!Entry
  BY DEF ListedSound
<1>1. vacancies[v] \in VacancyRow
  BY DEF IInv, TypeOK, StoredVacancies
<1>2. VacanciesWith(vacancies[v].externalId) = {v}
  BY DEF IInv, UniqueRows, VacanciesWith
<1>3. vacancies[v].externalId \in RawIds /\ EntryOf(v) \in Catalog!Entry
  BY <1>1 DEF VacancyRow, EntryOf, Catalog!Entry
<1>4. (CHOOSE u \in {v} : TRUE) = v
  OBVIOUS
<1> QED
  BY <1>2, <1>3, <1>4 DEF Listed, EntryOf

LEMMA ListedRowNext == IInv' => ListedSound'
BY ListedRow, PTL

(* A step that writes row v touches no entry but that of its posting.      *)
LEMMA ListedOthers ==
  ASSUME NEW v \in VacancyIds, OthersKept(v), vacancies'[v] # NULL,
         vacancies[v] # NULL => vacancies[v].externalId = vacancies'[v].externalId,
         NEW p \in RawIds, p # vacancies'[v].externalId
  PROVE  Listed'[p] = Listed[p]
<1>1. VacanciesWith(p)' = VacanciesWith(p)
  BY DEF OthersKept, VacanciesWith, StoredVacancies
<1>2. v \notin VacanciesWith(p) /\ VacanciesWith(p) \subseteq VacancyIds
  BY DEF VacanciesWith, StoredVacancies
<1>3. \A u \in VacanciesWith(p) : vacancies'[u] = vacancies[u]
  BY <1>2 DEF OthersKept
<1>4. CASE VacanciesWith(p) = {}
  BY <1>1, <1>4 DEF Listed
<1>5. CASE VacanciesWith(p) # {}
  <2> DEFINE u == CHOOSE u \in VacanciesWith(p) : TRUE
  <2>1. u \in VacanciesWith(p)
    BY <1>5
  <2>2. vacancies'[u] = vacancies[u]
    BY <1>3, <2>1
  <2>3. (CHOOSE x \in VacanciesWith(p) : TRUE)' = u
    BY <1>1
  <2>4. Listed[p] = [status |-> vacancies[u].status, key |-> vacancies[u].key,
                     firstSeen |-> vacancies[u].firstSeen]
    BY <1>5 DEF Listed
  <2>5. Listed'[p] = [status |-> vacancies'[u].status, key |-> vacancies'[u].key,
                      firstSeen |-> vacancies'[u].firstSeen]
    BY <1>1, <1>5, <2>3 DEF Listed
  <2> QED
    BY <2>2, <2>4, <2>5
<1> QED
  BY <1>4, <1>5

LEMMA ListedFunction ==
  /\ Listed = [p \in RawIds |-> Listed[p]]
  /\ Listed' = [p \in RawIds |-> Listed'[p]]
BY DEF Listed

(* A new row lists its posting.                                            *)
LEMMA ListStep ==
  ASSUME IInv, IInv', NEW v \in VacancyIds, AddsVacancy(v), OthersKept(v)
  PROVE  Catalog!Next
<1> DEFINE p == vacancies'[v].externalId
           k == vacancies'[v].key
<1>1. vacancies'[v] # NULL /\ p \in RawIds /\ k \in Keys \cup {NULL}
  BY RowAssumption DEF AddsVacancy, VacancyRow
<1>2. VacanciesWith(p) = {} /\ (k # NULL => VacanciesKeyed(k) = {})
  BY DEF AddsVacancy, ViolatesUnique
<1>3. Listed[p] = NULL
  BY <1>1, <1>2 DEF Listed
<1>4. ASSUME NEW q \in RawIds, Listed[q] # NULL, k # NULL
      PROVE  Listed[q].key # k
  <2>1. PICK u \in VacanciesWith(q) : TRUE
    BY <1>4 DEF Listed
  <2>2. u \in StoredVacancies /\ vacancies[u].externalId = q
    BY <2>1 DEF VacanciesWith
  <2>3. Listed[q] = EntryOf(u)
    BY <2>2, ListedRow DEF ListedSound
  <2>4. EntryOf(u).key = vacancies[u].key
    BY DEF EntryOf
  <2> QED
    BY <1>2, <1>4, <2>2, <2>3, <2>4 DEF VacanciesKeyed
<1>5. Listed'[p] = [status |-> New, key |-> k, firstSeen |-> clock]
  BY <1>1, ListedRowNext DEF ListedSound, EntryOf, StoredVacancies, AddsVacancy
<1>6. \A q \in RawIds : q # p => Listed'[q] = Listed[q]
  BY <1>1, ListedOthers DEF AddsVacancy
<1> HIDE DEF p, k
<1>7. Listed' = [Listed EXCEPT ![p] = [status |-> New, key |-> k, firstSeen |-> clock]]
  BY <1>1, <1>5, <1>6, ListedFunction
<1>8. Catalog!List(p, k)
  BY <1>3, <1>4, <1>7 DEF Catalog!List
<1> QED
  BY <1>1, <1>8 DEF Catalog!Next

(* An updated row sets the status of its posting, maybe to what it was.    *)
LEMMA SetStatusStep ==
  ASSUME IInv, IInv', NEW v \in StoredVacancies, KeepsVacancy(v), OthersKept(v)
  PROVE  Catalog!Next
<1> DEFINE p == vacancies[v].externalId
           s == vacancies'[v].status
<1>1. /\ v \in VacancyIds /\ vacancies'[v] # NULL /\ s \in Statuses /\ p \in RawIds
      /\ vacancies'[v].externalId = p
  BY ListedRow, RowAssumption DEF KeepsVacancy, VacancyRow, StoredVacancies, ListedSound
<1>2. Listed[p] = EntryOf(v) /\ Listed[p] # NULL
  BY ListedRow, EntryAssumption DEF ListedSound
<1>3. Listed'[p] = [status |-> s, key |-> vacancies[v].key,
                    firstSeen |-> vacancies[v].firstSeen]
  BY <1>1, ListedRowNext DEF ListedSound, EntryOf, StoredVacancies, KeepsVacancy
<1>4. \A q \in RawIds : q # p => Listed'[q] = Listed[q]
  BY <1>1, ListedOthers
<1>5. Listed'[p] = [Listed[p] EXCEPT !.status = s]
  BY <1>2, <1>3 DEF EntryOf
<1> HIDE DEF p, s
<1>6. Listed' = [Listed EXCEPT ![p].status = s]
  BY <1>1, <1>4, <1>5, ListedFunction
<1>7. Catalog!SetStatus(p, s)
  BY <1>2, <1>6 DEF Catalog!SetStatus
<1> QED
  BY <1>1, <1>7 DEF Catalog!Next

(* The tables and handlers implement the catalogue: a posting is listed    *)
(* once, new and for good, and nothing but its status changes afterwards.  *)
THEOREM CatalogueImplemented == Spec => ImplementsCatalog
<1>1. Init => Catalog!Init
  BY DEF Init, Catalog!Init, Listed, VacanciesWith, StoredVacancies
<1>2. IInv /\ IInv' /\ [Next]_vars => [Catalog!Next]_Listed
  <2> SUFFICES ASSUME IInv, IInv', [Next]_vars PROVE [Catalog!Next]_Listed
    OBVIOUS
  <2>1. CASE vacancies' = vacancies
    BY <2>1 DEF Listed, VacanciesWith, StoredVacancies
  <2>2. ASSUME NEW w \in Workers, InsertVacancy(w), vacancies' # vacancies
        PROVE  Catalog!Next
    BY <2>2, InsertedVacancy, ListStep
  <2>3. ASSUME NEW w \in Workers, UpdateVacancy(w)
        PROVE  Catalog!Next
    BY <2>3, UpdatedVacancy, SetStatusStep DEF StoredVacancies
  <2> QED
    BY <2>1, <2>2, <2>3, VacanciesNext
<1> QED
  BY <1>1, <1>2, Invariance, PTL DEF Spec, ImplementsCatalog, Catalog!Spec

=============================================================================

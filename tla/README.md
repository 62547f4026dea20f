# TLA+ models of job-search-core

job-search-core is a FastAPI service over one PostgreSQL database. It keeps the
state of a job search: vacancies ingested from a source, searches that were run,
applications, contacts, experiments, assessments, daily metrics and the
operator's resumes. This directory models how its requests write that state,
checks the models with TLC and proves theorems about them with TLAPS. Paths
below are relative to `src/job_search_core/` of the repository.

What makes this code hard is not any single handler, which is a page of Python,
but two of them at once:

* every request is one session and one READ COMMITTED transaction
  (`database.py:26`). Handlers are synchronous and run in the server's thread
  pool, and the CLI is one more process that calls the same functions. The one
  exception is the upload of an artifact, a coroutine that awaits nothing while its
  session is open: in the one server process of `compose.yaml` uploads follow one
  another, but each can break off between a file and its row;
* no SELECT locks a row, so a handler acts on what it read after other requests
  have committed. Only unique constraints and row locks of the writes stop it;
* a flush sends an UPDATE of the columns that differ from what the session
  LOADED, so two requests merge column by column;
* clients repeat requests whose answer they lost, also while the original runs.

## Components

| Component (source) | State | Operations that write | Hard part | Correct if |
|---|---|---|---|---|
| Vacancy catalogue (`vacancies.py`, `vacancy_content.py`, `companies.py`) | `companies`, `vacancies` | create (idempotent), ingest (upsert by hash), PATCH status, PUT website | duplicate races, a company row locked across statements, user columns against ingest, relinking | one row per identity and key, user columns survive ingest, retries adopt their own row, requests end |
| Profiles, runs, items (`search_runs.py`) | `search_profiles`, `search_runs`, `search_run_items` | create/PATCH profile, start run, add item, finalize | check of the status and write are not atomic, counters are counted before they are written, snapshot of criteria | terminal runs are history, counters are those of the items, one item per source id |
| Applications, people, hypotheses, assessments (`applications.py`, `people.py`, `hypotheses.py`, `assessments.py`) | one table each | idempotent creates; PATCH of a person's status; close of a hypothesis | retry against original, three identities of an assessment, crossing closes | a request is answered with one record for ever |
| Daily metrics (`metrics.py`) | `daily_metrics`, `daily_metric_requests` | PUT of a partial snapshot under a key | delayed retry after newer write, concurrent partial updates | a key is applied once, nothing that was processed is lost |
| Candidate context (`candidate_context.py`) | `candidate_profiles`, `profile_versions`, `active_hh_resume_links` | PUT of the HH link; first write creates profile and version | race of first writes, PUTs that cross merge column by column | one profile, an active link was selected, only crossed PUTs leave it without a resume |
| Resume versions (`resume_versions.py`, `resume_snapshot.py`) | `resume_versions` | ingest, which normalises and compares with the latest only | client-supplied `captured_at` decides what is latest; no unique constraint | unchanged content adds a row in a race only, the current copy never goes back, stored content is canonical |
| Resume artifacts (`resume_artifacts.py`, `resume_artifact_storage.py`) | `resume_artifacts`, files by SHA-256 | ingest bytes | file before row, interrupted `.part` file, crash in between, lost directory, one key over all versions | a recorded artifact downloads as its bytes, an upload is one artifact, a persistent client is answered |
| HTTP application (`app.py`), CLI (`cli.py`) | none | open a session, call one service function, commit, map exceptions to answers | – | – |
| Unit of work (`database.py`) | none | begin, commit, roll back | – | a failed request leaves nothing |
| Schemas, tables, migrations, config | rows, constraints, settings | – | – | – |

How they interact: people reference companies and vacancies, applications,
assessments and run items reference vacancies, runs copy a profile's criteria,
artifacts reference resume versions, which reference the profile version. Nothing
calls back and nothing is deleted. The one interaction with consequences is that
an ingest may relink a vacancy to another company at any time; `Records` has it
as the step `CatalogueStores`.

## Modules

| Module | What it is |
|---|---|
| `UnitOfWork` | `Flushed`: the row after a session that loaded one version flushes another |
| `VacancyCatalog` | abstract: a posting is listed once, new, for good, keeps key and first_seen_at |
| `Vacancies` | the catalogue's handlers; implements `VacancyCatalog` |
| `VacanciesProofs` | theorems about `Vacancies` |
| `RunLedger` | abstract: entries while running, one per source id; closing counts them; then nothing changes |
| `SearchRuns` | the handlers of `search_runs.py`; implements `RunLedger` for clients that wait for answers |
| `SearchRunsProofs` | theorems about `SearchRuns` |
| `OnceOnly` | abstract: a request is answered with one record for ever, a record belongs to one request or to requests that are alike |
| `Records` | creates, status changes and closes of the four record kinds; implements `OnceOnly` |
| `RecordsProofs` | theorems about `Records` |
| `DailyMetrics` | the journal and the snapshots of `metrics.py` |
| `DailyMetricsProofs` | theorems about `DailyMetrics` |
| `ResumeSnapshot` | `Canonical`: what normalisation makes of the content of a snapshot |
| `ResumeSnapshotProofs` | `Canonical` is idempotent; extended by `ResumesProofs` |
| `CurrentCopy` | abstract: one selected resume, one newest version of each, nothing replaced comes back |
| `Resumes` | profile, HH link and resume versions; implements `CurrentCopy` |
| `ResumesProofs` | theorems about `Resumes` |
| `ResumeArtifacts` | rows and files of artifacts, with faults; implements `OnceOnly` |
| `ResumeArtifactsProofs` | theorems about `ResumeArtifacts` |
| `MC*` | finite sets of bodies and the symmetries for TLC |

### How state and actions correspond to the code

In every module but `ResumeArtifacts` `txn[w]` is the request of worker `w`: a label for the next
database access, the body, the rows as loaded and as the session wants them. A
worker is a server thread or a CLI process. Each SELECT is one action that reads
the committed tables. The last flush of a request and its commit are one action,
because no other transaction sees the rows in between. Where a handler flushes
earlier and goes on (`_ensure_company`), `Vacancies` keeps the uncommitted row in
`pending`, and whoever needs it waits (`Blocked`). `Rollback` is any exception,
lost connection or crash: the session rolls back, and the client is told nothing
it can rely on. Refusals (409, 404, 400) write nothing and end the request; where
a handler refuses before it has read anything, or from its first SELECT, there is
no step at all.

* `Vacancies`: `CreateReplay`, `CreateByKey`, `CreateBySource` are the lookups of
  `create_vacancy`; `SelectCompany`, `InsertCompany`, `RenameCompany` are
  `_ensure_company`; `InsertVacancy` the insert of either request; `IngestSelect`
  and `UpdateVacancy` the rest of `ingest_vacancy`; `StatusSelect`,
  `WebsiteSelect`, `WebsiteFlush` the two user writes. Client ids are raw; `Canon`
  is `_clean_str` on them, because `create_vacancy` looks an id up raw and stores it
  clean. `content_hash` is the hashed tuple itself, that is, a hash without
  collisions. `promised` is a history variable: the creates answered with success.
  A relink without other changes flushes twice in the code; the row is locked from
  the first to the second, so the model writes both at once and takes the time stamp
  at the SELECT, which allows every value the code can write and earlier ones.
* `SearchRuns`: `CreateProfile`, `PatchSelect/PatchFlush`, `StartSelect/StartFlush`,
  `ItemBegin/ItemSelect/ItemFlush`, `FinalizeBegin/FinalizeSelect/FinalizeFlush`.
  `Drives[w]` is the set of runs whose requests worker `w` serves: overlapping sets
  are concurrent clients (or one client that repeats a request the server still works
  on), disjoint sets are clients that wait.
* `Records`: `CreateReplay`, `CreateByKey`, `ScoringSelect`, `IdentitySelect`,
  `ReferenceSelect`, `Insert` are the four creates, which differ only in which lookups
  they have; `StatusSelect`, `CloseSelect`, `Update` change a person or a hypothesis.
  `answers` is a history variable: the record each key and body was last answered with.
* `DailyMetrics`: `Replay`, `SelectJournal`, `SelectMetric`, `Flush`. A `Request` has
  the fields the client supplied (`exclude_unset`), each with a value or null.
* `Resumes`: `SelectContext` and `InsertContext` are `_ensure_profile_version` of either
  endpoint. The profile and its version are one context: they are inserted by one
  transaction, and neither is ever changed. `PutLink`, `SelectLink`, `FlushLink` are the
  PUT of the link; `IngestVersion`, `SelectLatest` (with `Reuse`), `InsertVersion` are the
  ingest. `utc_now` for a missing `captured_at` is `clock`, so clients may report earlier,
  equal or later times. An unknown source or transport is refused before anything is
  read, so there is no such request. A time without zone is looked at only when a row is to
  be inserted: such an ingest is reused like any other or ends in `Rollback`. The content is
  normalised before the first SELECT; `Form` is `Canonical` as a table. `saw` (the versions
  committed when an ingest looked) and `stored` (what ingests were told is stored) are
  history.
* `ResumeSnapshot`: content is a record of fields; `Canonical` drops what is not a known
  field or not of the field's shape, strips texts, drops blanks, and removes repeated
  skills, as `resume_snapshot.py` does. Its loops over a list are `Sublist`: the items at
  the places that are kept, in order. `Dropped` is a snapshot of which nothing remains.
* `ResumeArtifacts`: `Begin`, `OpenTemp`, `FillTemp`, `RenameTemp` are the lookup and
  `write_blob`; `InsertRow` or `FailRow` end the request, `Replay` answers a known upload.
  There is one `upload` at a time. A file is absent, partial or whole; a digest stands for
  its bytes. `Interrupt` is an exception or a crash at any step: the transaction rolls back
  and the files stay. `LoseFiles` replaces the container: `compose.yaml` has a volume for
  the database but none for the artifact directory. `answers` and `lost` are history
  variables.

Abstracted everywhere: content columns are a few fields or one value, uuids and
Idempotency-Keys are model values, the wording of errors and all GET endpoints are
left out. SQLite, which the repository uses for fast tests, is not modelled.

## Runs

| Run | Question | Answer |
|---|---|---|
| `vacancies` | Do two interleaved requests on one posting keep rows, promises and user columns? | yes: `TypeOK`, `UniqueRows`, `PromisesKept`, `OnlyUsersDecide`, `ImplementsCatalog`; and `OnlyCrossedIngestsTear`, `NobodyWaitsForAWaiter` |
| `vacancies_live` | Does every accepted request end, and do the time stamps stay in order? | yes: `RequestsEnd`, `SeenInOrder`; `last_seen_at` goes back only by an ingest that another one overtook: `OnlyOvertakenIngestsTurnBack` |
| `vacancies_torn` | Is a row's `content_hash` the hash of its content? | no: `HashDescribesRow` is violated |
| `runs_shared` | What holds when anything races on one run and one profile? | `TypeOK`, `RunsSound`, `ItemsSound`, `CountersNeverOverstate`, `HistoryKept`, `PatchesCompose` |
| `runs_own` | Do clients that wait for their answers see the ledger? | yes: `ImplementsLedger` |
| `runs_late` | Is a finalized run immutable for clients that do not wait? | no: `NothingAfterFinalize` is violated |
| `records` | Do creates stay idempotent under races and retries? | yes: `TypeOK`, `UniqueRecords`, `ResultsSound`, `ImplementsOnceOnly`, `RecordsKept`, `OnlyCrossedClosesOverwrite` |
| `records_key_reuse` | Is a used assessment key refused for other input? | no: `KeyNamesOneBody` is violated |
| `records_crossing_closes` | Is the first closing result immutable? | no: `FirstResultKept` is violated |
| `metrics` | Is a PUT applied once, and does its effect survive concurrent PUTs? | yes: `TypeOK`, `NothingLost`, `AppliedOnce`; a supplied field is left out only where PUTs cross: `OnlyCrossedPutsYield` |
| `resumes` | What do racing PUTs and ingests, with any client times and content, leave for consumers? | `TypeOK`, `SingleOperator`, `ActiveWasSelected`, `OnlyCrossedPutsTear`, `StoredIsKept`, `StoredIsCanonical`, `UnchangedAddsNothing`, `ImplementsCurrentCopy` |
| `artifacts` | Do rows and files of artifacts stay consistent through every fault, and is a persistent client answered? | yes: `TypeOK`, `RecordedDownloads`, `ImplementsOnceOnly`, `PersistenceIsAnswered` |

### Where code and documents disagree

Each of these is a run that TLC finds violated. For each a theorem says that there is no
other way to the violation, so the sentence of the document is true of every behaviour
without it.

* `vacancies_torn`. `vacancy-ingest.md:15` has `content_hash` over the source-owned
  fields. Two ingests load the same row, one changes the title, the other the archived
  flag, both commit: the row has both changes and the hash of the second body.
  Whoever ingests that body again is told `unchanged` and repairs nothing.
  `OnlyCrossedIngestsTear`: nothing else can; `UncrossedIngestsDescribe`: where ingests of one
  vacancy follow one another, `HashDescribesRow` holds, whatever else runs.
* `runs_late`. `search-profile-run.md:33` has item writes rejected after finalize. The
  status is read without a lock (`search_runs.py:267`), so an item whose request read
  `running` commits after the finalize did. `CountersNeverOverstate` is what remains
  true: the counters may miss such an item but never count one that is not there.
  `OnlyOvertakenTouch`: where a run ends while nobody else who found it running is still at
  work, `NothingAfterFinalize` holds, whatever is sent later.
* `records_crossing_closes`. `hypothesis-management.md:16` has the first result
  immutable. Two closes that both read `active` both succeed (`hypotheses.py:97`).
  `OnlyCrossedClosesOverwrite`: a result is overwritten by such a close only;
  `UncrossedClosesKeep`: without one, `FirstResultKept` holds.
* `records_key_reuse`. `assessments.py:18` signals reuse of a key for different
  input. A request answered by its scoring identity (`assessments.py:99`) does not
  store its key, so the key can be used again for other input without a conflict.
  `KeysAreHonoured`: among requests without a scoring identity a key names one body.

Three more sentences of documents say more than the code does. They have no run of their
own: two of them need no interleaving to be seen, and the property of the third states
exactly what remains.

* `hypothesis-management.md:15` requires a non-empty result to close a hypothesis.
  `HypothesisClose` (`schemas.py:285`) tests the length of the text as sent,
  `close_hypothesis` strips it afterwards (`hypotheses.py:102`), and the command line
  tests no length at all (`cli.py:430`): blanks close the hypothesis with an empty result.
  `Records` has such results (`Blank`, `Stripped`). `ResultsSound`: the empty
  one counts as a result, so a hypothesis is done exactly when its result is not null.
* `vacancy-ingest.md:18` has `last_seen_at` advance with every ingest. It is stamped before the
  UPDATE waits for the row, so an ingest that another one overtakes moves it back.
  `OnlyOvertakenIngestsTurnBack`: nothing else does, if the clock itself does not go back;
  `SeenInOrder`: never before `first_seen_at`.
* The repository's `README.md:12` has resource writes idempotent. POST `/search-profiles` and
  POST `/search-runs` (`app.py:857`) take no key and know no identity, so a repetition makes a
  second profile or run. `CreateProfile` and `StartFlush` add a row for each request.

Some behaviour is surprising but promised nowhere otherwise, so it is no disagreement;
the properties say how far it goes:

* Two PUTs of the link that cross can leave an active link without a resume, which
  `candidate_context.py:93` refuses to store. `OnlyCrossedPutsTear`: nothing else can, and
  the next PUT that is not crossed repairs it.
* Two PUTs of one day that cross can both be answered although a field of one of them is not
  as it supplied it. `OnlyCrossedPutsYield`: only a field that held that value already when it
  was loaded.
* Two ingests of one new content that cross store it twice. `UnchangedAddsNothing`: only
  then. `ImplementsCurrentCopy`: the copies are one newest version and one in the history.
* A file recorded for one resume version can never be recorded for another: its key is
  unique over the table (`resume_artifacts.py:149`), so the upload fails on every retry.
  This is the exception in `PersistenceIsAnswered`.
* An ingest may relink a vacancy by design, also between the moment a person's company and
  vacancy are compared (`people.py:84`) and the insert. `people-management.md:11` is a rule
  for the check only; `Records` has the relink as `CatalogueStores`, and no property.
* A recorded file whose directory was lost is not written again by the next upload, which
  is answered from the row. `RecordedDownloads`: it is missing, never other bytes.

### Bounds

Two workers are enough for the races the code has: every hazard is one request
acting on what it read before another committed, and the lock order has two levels.
`metrics` has three, since a retry, its original and a newer write are three.

* `vacancies`: one posting under a clean and an unclean spelling, two employers,
  three ingest bodies that differ in title, in the archived flag and in employer and
  name, one key, two bodies for it, the clock at rest (only the time stamps and their properties, in `vacancies_live`, read it). One
  row id more than rows that can exist lets a missing constraint show.
* `vacancies_live`: the clock moves to `MaxClock` = 2, two ingests want one company
  row and disagree about its name. No symmetry, since it checks liveness.
* `runs_shared`: one run and profile, three items, so a duplicate and another item fit;
  bodies include an error without a vacancy, an unknown vacancy, a blank id and three
  finalizes, one of them refused.
* `runs_own`: two runs, each driven by its own worker.
* `records`: eight bodies that share key, identity or scoring, two results and a blank one, one vacancy that starts
  unlisted or with either of two companies, two row ids.
* `metrics`: five requests, four keys, two dates, two fields.
* `resumes`: `Traffic` is a set of mixes and a behaviour is about one of them: five PUTs
  of two resumes with one ingest; six ingests of one content in three spellings, of two
  others and of a second resume, with one PUT; and single contents of every shape up to
  two skills and a nested salary, for the normalisation. Three version ids are one more
  than two racing ingests need, so that a newest, a replaced and a late version exist
  together; `MaxClock` = 3 gives each its own time, and equal ones.
* `artifacts`: two files, two versions, five uploads with and without a usable time,
  `MaxFaults` = 3 faults, enough for an interruption, a lost answer and a lost directory in
  one behaviour. A row needs its own file, so two row ids suffice for two files.

Row ids and workers are interchangeable and no action compares them, which is why
the safety runs use symmetry; version ids are compared (`ORDER BY ..., id`), so they are
numbers and not symmetric. Only the clocks and the number of faults could grow for ever,
so `MaxClock` and `MaxFaults` are the only bounds of this kind and no run needs a state
constraint.

### Fairness

`vacancies_live` assumes `SF_vars(Serve(w))`, where `Serve` are the steps of
an accepted request. A handler is a thread the operating system runs, hence it takes
its next step if it can go on; while it waits for a row or unique key another
transaction holds, it cannot. PostgreSQL queues the waiters of a row, so one that
becomes free again and again reaches everybody: this is the strong part. Nothing is
assumed about accepting requests, the clock or failures. `RequestsEnd` then says that
the order company row, then vacancy row, has no cycle, and that each way out of a
request gives its company row back.

`artifacts` assumes `WF_vars(Serve)`: the process goes on with the upload it has accepted.
Nothing waits, so weak fairness is enough. That a client keeps sending a file is no
fairness of the code but the premise `Persistent` of `PersistenceIsAnswered`; that faults
end is what `MaxFaults` gives.

## Theorems

`SearchRunsProofs` (constants: any sets of workers, runs, profiles, items and bodies,
`DrivesAssumption`, `KnownAssumption`, that NULL is no row or value, and what the
module names):

* `Invariance`: `Spec => []IInv`. The safety properties are not inductive: that the
  counters never overstate the items depends on what a finalize in flight has counted.
  `IInv` adds, for every worker, `RequestReady`: what the request has read is still good
  enough for what it will write. A start's row is fresh; an item's run exists; a
  finalize loaded a running row (whatever the row has become), and the counts it will
  write are bounded by the items there are now. The last part is stable because items are
  never removed (`TallyMonotone`). `ReadyStable`, `ReadingStep` and `WritingStep` turn
  this into one lemma per action, and `FinalizeFlushWrites` is the heart: a column-wise
  flush over a row another finalize has closed still gives a sound row, since any two
  terminal rows agree on which columns are set.
* `TypeCorrect`, `RunsAreSound`, `ItemsAreSound`, `CountersAreBounded`: its conjuncts.
* `HistoryIsKept`, `PatchesDoCompose`: the two action properties, from `IInv`.
* `OnlyOvertakenTouch`: `Spec /\ [][EndsAlone]_vars => NothingAfterFinalize`, for any `Drives`.
  The premise is about the one step that ends a run: nobody else who found the run running
  is still at work on it. It says nothing of requests that begin afterwards; that
  these write nothing is the work of the status checks (`BeganOnRunning`), from which
  `WorkIsOnRunning` is inductive.
* `HandlersImplementLedger`: under `Serialised` (no two workers drive one run)
  `Spec => Ledger!Spec`. `SerialInv` adds that nobody changed the run a request has read
  and that its counts are exact; each handler's flush then is one ledger step
  (`StartFlushOpens`, `ItemFlushRecords`, `FinalizeFlushCloses`) and every other step
  stutters. `runs_late` shows that `Serialised` cannot be dropped.

`VacanciesProofs` (any workers, ids, bodies and keys; `CanonAssumption`,
`RequestAssumption`, `ValueAssumption`, and that NULL is no row):

* `Invariance`: `Spec => []IInv`. A unique constraint is checked against committed rows,
  but a company row waits in `pending`, flushed and uncommitted; `PendingSound` says that it
  agrees with the committed rows and with every other waiting row, which holds because
  whoever needs the identity is `Blocked`. `Ready` says of each label what the request
  has loaded and wants: a flush changes no identity, key, fingerprint or `first_seen_at`,
  and a user's column only if the request is the user's; only an ingest wants
  another content, and with it the hash of that content. An ingest wants a time between
  the one it loaded and the clock, which `SeenInOrder` needs, since rows are stamped before
  their flush waits.
* `TypeCorrect`, `RowsAreUnique`, `PromisesAreKept`, `SeenStaysInOrder`: its conjuncts.
  `UsersDecide`, `OvertakenIngestsTurnBack`: action properties, from what the flushes write.
* `CrossedIngestsTear`: the action property. If the columns an ingest loaded are still stored,
  the merge of its flush is the row it wanted. `UncrossedIngestsDescribe`: `Spec /\ []NoCrossing
  => []HashDescribesRow`; `LoadedIsStored` is the invariant that adds, which other
  requests keep because they write neither hash nor content.
* `WaitsAreShallow`: whoever holds an uncommitted company row is past its company flush
  (`HoldersGoOn`). `RequestsAdvance`: each step of a request lowers the `Rank` of its label.
  The two are the safety part of `RequestsEnd`: no cycle of waits, and no endless request.
* `CatalogueImplemented`: `Spec => Catalog!Spec`. An insert of a vacancy lists its posting
  (`ListStep`), an update sets a status, perhaps to what it was (`SetStatusStep`), and no
  other step touches what is listed.

`RecordsProofs` (any workers, ids, bodies and requests; `RequestAssumption`,
`NullAssumption`):

* `Invariance`: `Spec => []IInv`. `RowSound` says which states and results a record of each
  kind can have; `UpdateReady` what a change has loaded, given the row as it is now: a
  close loaded an active hypothesis without result and wants both columns, so two closes that
  cross write both columns each. `AnswersSound` says that an answer is the row of the
  request's key and body, or of its scoring identity.
* `TypeCorrect`, `RecordsAreUnique`, `ResultsAreSound`: its conjuncts or consequences.
  `RecordsAreKept`: no update changes a body or key. `CrossedClosesOverwrite` and
  `UncrossedClosesKeep`: a result is only set over another by a close that loaded it active
  (`OverwritingClose`). `KeysAreHonoured`: an answer that is no answer by scoring has the
  request's key and body, and a key is unique over its table.
* `CreatesAreOnceOnly`: `Spec => Once!Spec`. Two records that fit one request are one
  (`OneFits`, from the unique constraints), so that no request is answered twice
  with different records.

`DailyMetricsProofs` (any dates, keys, fields, values, requests and workers;
`MetricAssumption`):

* `Invariance`: `Spec => []IInv`. `NothingLost` alone is not inductive: an UPDATE leaves
  out a supplied value that equals the loaded one, so what was loaded must itself have
  been supplied by a processed PUT. `Ready` adds that. `SuppliedGrows` says what one journal
  entry adds, `FlushWrites` what one flush writes.
* `TypeCorrect`, `NothingIsLost`: its conjuncts. `KeysApplyOnce`, `CrossedPutsYield`: the action
  properties, from `FlushWrites`.

`ResumeSnapshotProofs` (any content whose lists are lists):

* `CanonicalOnce`: `Canonical(Canonical(raw)) = Canonical(raw)` unless nothing of `raw`
  remains. The loops of the source are stated without recursion, so no induction over
  data is needed: the items of a normalised list are clean and, for skills, pairwise
  different, and a list of which every place is kept is its own `Sublist` (`KeptAll`).
  That the k-th smallest of a finite set of places exists is a pigeonhole argument
  (`NthPlace`).

`ResumesProofs` (any workers, ids, contents and traffic; `TrafficAssumption`,
`ContentAssumption`, that the items of an array are numbered from 1, `NumberAssumption`,
`NullAssumption`):

* `Invariance`: `Spec => []IInv`. `OneContext` depends on the unique constraint and on
  the wait for a fresh context: whoever has one finds none committed, and nobody else has
  one. `LinkReady` says that a loaded link is still there and still selected if it was, which
  makes `ActiveLinks` inductive although columns come from several PUTs. `InsertReady` says
  that the newest of the versions an ingest saw has other content. `NewestExist` makes the
  latest version well defined for infinitely many ids too.
* `TypeCorrect`, `OneOperator`, `LinksWereSelected`, `StoredStays`: its conjuncts.
  `StaysCanonical`: every stored content is a `Form` of some content, and `CanonicalOnce`.
  `FirstWritesWaitOnce`: who holds a fresh context is one request, and it waits for nobody.
  `CrossedPutsTear`, `NothingIsRepeated`: the action properties, from `LinkReady` and
  `InsertReady`.
* `CurrentCopyImplemented`: `Spec => Copy!Spec`. `Later` is a total order on versions, so an
  insert either becomes the newest of its resume and turns the old one into history, or is
  history at once (`InsertCaptures`); a PUT only changes what is selected. `ReplacedForGood`
  says it of the rows themselves: a version that is not the newest never becomes it.

`ResumeArtifactsProofs` (any versions, contents, ids, uploads and number of faults):

* `Invariance`: `Spec => []IInv`. `RecordedDownloads` alone is not inductive.
  `BlobsSound` adds that a blob is whole or absent at every moment, since its path is only
  ever written by the rename of a filled file, and that an upload about to insert has its
  blob; `RecordsSound` that answers and rows belong to their uploads.
* `TypeCorrect`, `DownloadsCorrect`: its conjuncts. `OnceOnlyImplemented`: `Spec =>
  Once!Spec`, from the uniqueness of a content over the table.
* `RefusalsAreJustified`: a row is refused for a time without zone or for another version's
  claim on the bytes only. It needs `UploadIsNew`: an upload in progress has no row under
  its version, which holds since uploads follow one another. `UploadsAdvance`: each step of an upload
  lowers its `Rank` or ends it. The two are the safety part of `PersistenceIsAnswered`.

Only model-checked: `RequestsEnd` and `PersistenceIsAnswered`. That a step which can be taken
is taken in the end needs fairness and ENABLED, which are out of the prover's reach; what
they say of single steps is proved, as said above. Every other property of a passing run is
a theorem. `CanonicalOnce` is about the operators of `ResumeSnapshot`; that they
are what the loops of `resume_snapshot.py` compute is by comparison with the source.

## Not modelled

Every source file whose functions change state is modelled; what is not:

* migrations: they run offline and once. The constraints they create are those of `models.py`;
* configuration and the health endpoints: no state;
* GET endpoints, response schemas, status codes, CLI output: they write nothing. The current
  copy is the one view with a property of its own, `ImplementsCurrentCopy`;
* argument parsing of the CLI: its commands call the functions modelled here, in a process of
  its own, so a CLI call is one more worker. The CLI has no command for uploads, which would
  end the assumption that they follow one another;
* SQLite, which serializes writers and which only the tests use;
* power failure of the host: `write_blob` syncs neither file nor directory, so whether a
  renamed file survives is decided by the file system and not by this code;
* a second server process. Two uploads of one file would then share a temporary file.

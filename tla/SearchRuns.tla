----------------------------- MODULE SearchRuns -----------------------------
(***************************************************************************)
(* Search profiles, the search runs started from them and the provenance   *)
(* items recorded in a run (search_runs.py).                               *)
(*                                                                         *)
(* A worker is a server thread that handles one request at a time in one   *)
(* READ COMMITTED transaction.  Each SELECT is a step; the flush of a      *)
(* request and its commit are one step, since no request of this component *)
(* touches the database after its flush.  No SELECT locks a row, and the   *)
(* foreign-key lock an item INSERT takes on its run does not conflict with *)
(* the UPDATE of finalize, so nothing ever waits.                          *)
(*                                                                         *)
(* Drives[w] is the set of runs whose requests worker w handles.           *)
(* Overlapping sets are clients that write one run concurrently, or one    *)
(* client that repeats a request it gave up on while the server still      *)
(* works on it; disjoint sets are clients that wait for every answer.      *)
(***************************************************************************)
EXTENDS Naturals, FiniteSets, UnitOfWork

CONSTANTS
  Workers,         \* request handlers
  Runs,            \* uuids for search_runs rows
  Profiles,        \* uuids for search_profiles rows
  ItemIds,         \* uuids for search_run_items rows
  ExternalIds,     \* non-blank source_external_id values
  Vacancies,       \* ids clients send as vacancy_id
  KnownVacancies,  \* those with a row: vacancies are never deleted
  Texts,           \* non-blank values of SearchProfile.text
  Filters,         \* values of the other criteria columns, as one column
  Totals,          \* values of source_total
  Errors,          \* values of error_code and recovery_hint
  Drives,          \* Drives[w]: the runs worker w writes
  Patches, Starts, NewItems, Finalizes,  \* the bodies clients send
  Blank,           \* a string that strip() makes empty
  NULL             \* SQL NULL / None / an unset field

ASSUME DrivesAssumption == Drives \in [Workers -> SUBSET Runs]

ASSUME KnownAssumption == KnownVacancies \subseteq Vacancies

(***************************************************************************)
(* Rows.                                                                   *)
(***************************************************************************)
Kinds    == {"profile_search", "resume_suitable"}
Outcomes == {"created", "updated", "unchanged", "error"}
Terminal == {"success", "partial", "failed"}          \* TERMINAL_STATUSES
Status   == Terminal \cup {"running"}

ProfileRow == [text: Texts, filters: Filters]

RunRow ==
  [profile: Profiles \cup {NULL}, kind: Kinds,
   criteria: ProfileRow \cup {NULL},                  \* NULL stands for {}
   status: Status, finished: BOOLEAN,                 \* finished_at is set
   counts: [Outcomes -> Nat], found: Nat,
   sourceTotal: Totals \cup {NULL}, errorCode: Errors \cup {NULL}]

ItemRow ==
  [id: ItemIds, run: Runs, externalId: ExternalIds,
   vacancy: Vacancies \cup {NULL}, outcome: Outcomes]

(***************************************************************************)
(* Request bodies.                                                         *)
(***************************************************************************)
\* A field a client leaves out of a PATCH is NULL.
Patch == [text: Texts \cup {NULL, Blank}, filters: Filters \cup {NULL}]

Start ==
  [kind: Kinds, profile: Profiles \cup {NULL},
   resume: BOOLEAN,     \* the context snapshot names an HH resume
   execution: BOOLEAN]  \* normalize_execution_snapshot accepts the knobs

NewItem ==
  [run: Runs, externalId: ExternalIds \cup {Blank},
   vacancy: Vacancies \cup {NULL}, outcome: Outcomes]

Finalize ==
  [status: Status, sourceTotal: Totals \cup {NULL}, errorCode: Errors \cup {NULL}]

ASSUME NullAssumption ==
  /\ NULL \notin Runs /\ NULL \notin Profiles /\ NULL \notin Vacancies
  /\ NULL \notin Texts /\ NULL \notin Filters /\ NULL \notin Totals
  /\ NULL \notin Errors /\ NULL \notin ProfileRow /\ NULL \notin RunRow
  /\ Blank \notin ExternalIds \cup Texts

ASSUME BodyAssumption ==
  /\ Patches \subseteq Patch
  /\ Starts \subseteq Start
  /\ NewItems \subseteq NewItem
  /\ Finalizes \subseteq Finalize

VARIABLES
  profiles,  \* committed search_profiles rows, NULL where there is none
  runs,      \* committed search_runs rows, NULL where there is none
  items,     \* the set of committed search_run_items rows
  txn        \* txn[w]: the request worker w is handling, what it has read

vars == <<profiles, runs, items, txn>>

Labels ==
  {"idle", "patch_flush", "start_flush", "item_select", "item_flush",
   "finalize_select", "finalize_flush"}

Txn ==
  [pc: Labels,
   profile: Profiles \cup {NULL}, loadedProfile: ProfileRow \cup {NULL},
   patch: Patch \cup {NULL},
   run: Runs \cup {NULL},
   loaded: RunRow \cup {NULL},        \* the run as it was read
   wanted: RunRow \cup {NULL},        \* the run as the session wants it
   item: NewItem \cup {NULL}, finalize: Finalize \cup {NULL}]

Idle ==
  [pc |-> "idle", profile |-> NULL, loadedProfile |-> NULL, patch |-> NULL,
   run |-> NULL, loaded |-> NULL, wanted |-> NULL, item |-> NULL,
   finalize |-> NULL]

Init ==
  /\ profiles = [p \in Profiles |-> NULL]
  /\ runs = [r \in Runs |-> NULL]
  /\ items = {}
  /\ txn = [w \in Workers |-> Idle]

ItemsOf(r) == {i \in items : i.run = r}

(* The session of w ends, by a refusal or a rollback, and leaves the       *)
(* tables alone.                                                           *)
EndWithoutCommit(w) ==
  /\ txn' = [txn EXCEPT ![w] = Idle]
  /\ UNCHANGED <<profiles, runs, items>>

(***************************************************************************)
(* SearchProfile: POST inserts, PATCH loads and writes the columns the     *)
(* body supplies.  Both refuse a blank text.                               *)
(***************************************************************************)
CreateProfile(w, p, text, filters) ==
  /\ txn[w].pc = "idle"
  /\ profiles[p] = NULL
  /\ text # Blank
  /\ profiles' = [profiles EXCEPT ![p] = [text |-> text, filters |-> filters]]
  /\ UNCHANGED <<runs, items, txn>>

PatchSelect(w, p, b) ==
  /\ txn[w].pc = "idle"
  /\ profiles[p] # NULL
  /\ b.text # Blank
  /\ txn' = [txn EXCEPT ![w] =
       [Idle EXCEPT !.pc = "patch_flush", !.profile = p,
                    !.loadedProfile = profiles[p], !.patch = b]]
  /\ UNCHANGED <<profiles, runs, items>>

Patched(row, b) ==
  [c \in {"text", "filters"} |-> IF b[c] = NULL THEN row[c] ELSE b[c]]

\* Mutant: the PATCH writes every column, as loaded or patched.
FlushedWholeProfile(current, t) == Patched(t.loadedProfile, t.patch)

FlushedProfile(current, t) ==
  Flushed(current, t.loadedProfile, Patched(t.loadedProfile, t.patch))

PatchFlush(w) ==
  LET t == txn[w] IN
  /\ t.pc = "patch_flush"
  /\ profiles' = [profiles EXCEPT ![t.profile] = FlushedProfile(@, t)]
  /\ txn' = [txn EXCEPT ![w] = Idle]
  /\ UNCHANGED <<runs, items>>

(***************************************************************************)
(* start_search_run: the criteria snapshot is what the SELECT of the       *)
(* profile returned, and the run is inserted later.                        *)
(***************************************************************************)
ValidStart(q) ==
  /\ q.execution
  /\ \/ q.kind = "profile_search" /\ q.profile # NULL
     \/ q.kind = "resume_suitable" /\ q.profile = NULL /\ q.resume

CriteriaSnapshot(q) ==
  IF q.kind = "profile_search" THEN profiles[q.profile] ELSE NULL

NewRun(q) ==
  [profile |-> q.profile, kind |-> q.kind, criteria |-> CriteriaSnapshot(q),
   status |-> "running", finished |-> FALSE,
   counts |-> [o \in Outcomes |-> 0], found |-> 0,
   sourceTotal |-> NULL, errorCode |-> NULL]

StartSelect(w, q) ==
  /\ txn[w].pc = "idle"
  /\ ValidStart(q)
  /\ q.profile # NULL => profiles[q.profile] # NULL
  /\ txn' = [txn EXCEPT ![w] =
       [Idle EXCEPT !.pc = "start_flush", !.wanted = NewRun(q)]]
  /\ UNCHANGED <<profiles, runs, items>>

StartFlush(w) ==
  /\ txn[w].pc = "start_flush"
  /\ \E r \in Drives[w] :
       /\ runs[r] = NULL
       /\ runs' = [runs EXCEPT ![r] = txn[w].wanted]
  /\ txn' = [txn EXCEPT ![w] = Idle]
  /\ UNCHANGED <<profiles, items>>

(***************************************************************************)
(* add_search_run_item: the run is read, then the vacancy and a possible   *)
(* duplicate, then the item is inserted; the status is not read again.     *)
(***************************************************************************)
\* Mutant: the external id is stored without being stripped and tested.
ValidItemUnstripped(n) == n.outcome # "error" => n.vacancy # NULL

ValidItem(n) ==
  /\ n.externalId # Blank
  /\ n.outcome # "error" => n.vacancy # NULL

\* Mutant: the status of the run is not looked at.
ItemBeginAnyStatus(w, n) ==
  /\ txn[w].pc = "idle"
  /\ runs[n.run] # NULL
  /\ ValidItem(n)
  /\ txn' = [txn EXCEPT ![w] =
       [Idle EXCEPT !.pc = "item_select", !.run = n.run, !.item = n]]
  /\ UNCHANGED <<profiles, runs, items>>

ItemBegin(w, n) ==
  /\ txn[w].pc = "idle"
  /\ runs[n.run] # NULL
  /\ runs[n.run].status = "running"
  /\ ValidItem(n)
  /\ txn' = [txn EXCEPT ![w] =
       [Idle EXCEPT !.pc = "item_select", !.run = n.run, !.item = n]]
  /\ UNCHANGED <<profiles, runs, items>>

Duplicate(n) == \E i \in ItemsOf(n.run) : i.externalId = n.externalId

ItemSelect(w) ==
  LET n == txn[w].item IN
  /\ txn[w].pc = "item_select"
  /\ IF (n.vacancy = NULL \/ n.vacancy \in KnownVacancies) /\ ~Duplicate(n)
     THEN /\ txn' = [txn EXCEPT ![w] = [txn[w] EXCEPT !.pc = "item_flush"]]
          /\ UNCHANGED <<profiles, runs, items>>
     ELSE EndWithoutCommit(w)

\* Mutant: no unique constraint behind the SELECT for a duplicate.
ViolatesCheckOnly(n) == n.outcome # "error" /\ n.vacancy = NULL

(* uq_search_run_items_run_external, ck_search_run_items_vacancy_required; *)
(* either violation is answered as a duplicate.                            *)
ViolatesConstraint(n) ==
  \/ Duplicate(n)
  \/ n.outcome # "error" /\ n.vacancy = NULL

\* Mutant: a duplicate of a racing request replaces the item it found.
ItemFlushUpsert(w) ==
  LET n == txn[w].item IN
  /\ txn[w].pc = "item_flush"
  /\ \E id \in ItemIds :
       /\ \A i \in items : i.id # id
       /\ items' = {i \in items : i.run # n.run \/ i.externalId # n.externalId} \cup
            {[id |-> id, run |-> n.run, externalId |-> n.externalId,
              vacancy |-> n.vacancy, outcome |-> n.outcome]}
  /\ txn' = [txn EXCEPT ![w] = Idle]
  /\ UNCHANGED <<profiles, runs>>

ItemFlush(w) ==
  LET n == txn[w].item IN
  /\ txn[w].pc = "item_flush"
  /\ IF ViolatesConstraint(n)
     THEN EndWithoutCommit(w)
     ELSE /\ \E id \in ItemIds :
               /\ \A i \in items : i.id # id
               /\ items' = items \cup
                    {[id |-> id, run |-> n.run, externalId |-> n.externalId,
                      vacancy |-> n.vacancy, outcome |-> n.outcome]}
          /\ txn' = [txn EXCEPT ![w] = Idle]
          /\ UNCHANGED <<profiles, runs>>

(***************************************************************************)
(* finalize_search_run: the run is read and its status checked, then its   *)
(* items are read and counted, then the changed columns are written.       *)
(***************************************************************************)
FinalizeBegin(w, r, f) ==
  /\ txn[w].pc = "idle"
  /\ runs[r] # NULL
  /\ runs[r].status = "running"
  /\ f.status \in Terminal
  /\ txn' = [txn EXCEPT ![w] =
       [Idle EXCEPT !.pc = "finalize_select", !.run = r,
                    !.loaded = runs[r], !.finalize = f]]
  /\ UNCHANGED <<profiles, runs, items>>

Tally(rows) ==
  [o \in Outcomes |-> Cardinality({i \in rows : i.outcome = o})]

Sum(counts) ==
  counts["created"] + counts["updated"] + counts["unchanged"] + counts["error"]

\* source_total is overwritten only by a body that has one.
TotalOf(row, f) ==
  IF f.sourceTotal = NULL THEN row.sourceTotal ELSE f.sourceTotal

\* Mutant: finished_at is stamped for a success only.
FinalizedUnstamped(row, f, counts) ==
  [row EXCEPT !.status = f.status, !.finished = f.status = "success",
              !.counts = counts, !.found = Sum(counts),
              !.errorCode = f.errorCode,
              !.sourceTotal = TotalOf(row, f)]

\* Mutant: created_count and updated_count are swapped.
FinalizedSwapped(row, f, counts) ==
  [row EXCEPT !.status = f.status, !.finished = TRUE,
              !.counts = [counts EXCEPT !["created"] = counts["updated"],
                                        !["updated"] = counts["created"]],
              !.found = Sum(counts),
              !.errorCode = f.errorCode,
              !.sourceTotal = TotalOf(row, f)]

Finalized(row, f, counts) ==
  [row EXCEPT !.status = f.status, !.finished = TRUE,
              !.counts = counts, !.found = Sum(counts),
              !.errorCode = f.errorCode,
              !.sourceTotal = TotalOf(row, f)]

FinalizeSelect(w) ==
  LET t == txn[w] IN
  /\ t.pc = "finalize_select"
  /\ txn' = [txn EXCEPT ![w] =
       [t EXCEPT !.pc = "finalize_flush",
                 !.wanted = Finalized(t.loaded, t.finalize,
                                      Tally(ItemsOf(t.run)))]]
  /\ UNCHANGED <<profiles, runs, items>>

(* Every counter is a column of its own. *)
FlushedRun(current, t) ==
  [c \in DOMAIN current |->
     IF c = "counts"
     THEN Flushed(current.counts, t.loaded.counts, t.wanted.counts)
     ELSE Flushed(current, t.loaded, t.wanted)[c]]

FinalizeFlush(w) ==
  LET t == txn[w] IN
  /\ t.pc = "finalize_flush"
  /\ runs' = [runs EXCEPT ![t.run] = FlushedRun(@, t)]
  /\ txn' = [txn EXCEPT ![w] = Idle]
  /\ UNCHANGED <<profiles, items>>

(* The request fails or its server stops; the session rolls back.          *)
Rollback(w) ==
  /\ txn[w].pc # "idle"
  /\ EndWithoutCommit(w)

Accept(w) ==
  \/ \E p \in Profiles, text \in Texts \cup {Blank}, filters \in Filters :
       CreateProfile(w, p, text, filters)
  \/ \E p \in Profiles, b \in Patches : PatchSelect(w, p, b)
  \/ \E q \in Starts : StartSelect(w, q)
  \/ \E n \in NewItems : n.run \in Drives[w] /\ ItemBegin(w, n)
  \/ \E r \in Drives[w], f \in Finalizes : FinalizeBegin(w, r, f)

Serve(w) ==
  \/ PatchFlush(w)
  \/ StartFlush(w)
  \/ ItemSelect(w)
  \/ ItemFlush(w)
  \/ FinalizeSelect(w)
  \/ FinalizeFlush(w)

Next == \E w \in Workers : Accept(w) \/ Serve(w) \/ Rollback(w)

Spec == Init /\ [][Next]_vars

(***************************************************************************)
(* Properties.                                                             *)
(***************************************************************************)
(* Every variable holds rows and requests of the declared shape; no stored *)
(* text or external id is blank.                                           *)
TypeOK ==
  /\ profiles \in [Profiles -> ProfileRow \cup {NULL}]
  /\ runs \in [Runs -> RunRow \cup {NULL}]
  /\ items \subseteq ItemRow
  /\ txn \in [Workers -> Txn]

(* A run is finished exactly when its status is terminal, a running run    *)
(* has no results yet, and criteria belong to a profile search: for all    *)
(* column-wise overwriting by finalizes that race.                         *)
RunsSound ==
  \A r \in Runs : runs[r] # NULL =>
    /\ runs[r].finished <=> runs[r].status \in Terminal
    /\ runs[r].status = "running" =>
         /\ runs[r].counts = [o \in Outcomes |-> 0] /\ runs[r].found = 0
         /\ runs[r].sourceTotal = NULL /\ runs[r].errorCode = NULL
    /\ runs[r].kind = "profile_search" <=> runs[r].profile # NULL
    /\ runs[r].criteria = NULL <=> runs[r].profile = NULL

(* A source id is recorded once in a run even when two requests have both  *)
(* looked for a duplicate and found none; what is not an error has a known *)
(* vacancy; and an item's run exists.                                      *)
ItemsSound ==
  /\ \A i, j \in items :
       i.run = j.run /\ i.externalId = j.externalId => i = j
  /\ \A i \in items :
       /\ runs[i.run] # NULL
       /\ i.outcome # "error" => i.vacancy # NULL
       /\ i.vacancy # NULL => i.vacancy \in KnownVacancies

(* However finalizes and item writes of one run interleave, no counter     *)
(* claims an item the run does not have.                                   *)
CountersNeverOverstate ==
  \A r \in Runs : runs[r] # NULL =>
    \A o \in Outcomes : runs[r].counts[o] <= Tally(ItemsOf(r))[o]

(* A finished run never runs again, what it was started with never         *)
(* changes, and recorded items stay as they are.                           *)
KeepHistory ==
  /\ \A r \in Runs : runs[r] # NULL =>
       /\ runs'[r] # NULL
       /\ runs'[r].profile = runs[r].profile /\ runs'[r].kind = runs[r].kind
       /\ runs'[r].criteria = runs[r].criteria
       /\ runs[r].status \in Terminal => runs'[r].status \in Terminal
  /\ items \subseteq items'

HistoryKept == [][KeepHistory]_vars

(* Concurrent PATCHes of one profile compose: a column changes only to the *)
(* value that a committing PATCH supplies for that very column.            *)
ComposePatches ==
  \A p \in Profiles : \A c \in {"text", "filters"} :
    profiles[p] # NULL /\ profiles'[p][c] # profiles[p][c] =>
      \E w \in Workers :
        /\ txn[w].pc = "patch_flush" /\ txn[w].profile = p
        /\ txn[w].patch[c] = profiles'[p][c]
        /\ txn'[w].pc = "idle"

PatchesCompose == [][ComposePatches]_vars

(***************************************************************************)
(* The properties above, strengthened to what one step preserves: what a   *)
(* request in flight has read stays good enough for what it will write.    *)
(***************************************************************************)
\* A row as start_search_run makes it.
Fresh(row) ==
  /\ row.status = "running" /\ ~row.finished
  /\ row.counts = [o \in Outcomes |-> 0] /\ row.found = 0
  /\ row.sourceTotal = NULL /\ row.errorCode = NULL
  /\ row.kind = "profile_search" <=> row.profile # NULL
  /\ row.criteria = NULL <=> row.profile = NULL

PatchReady(t) ==
  /\ t.profile \in Profiles /\ profiles[t.profile] # NULL
  /\ t.loadedProfile \in ProfileRow
  /\ t.patch \in Patch /\ t.patch.text # Blank

StartReady(t) == t.wanted \in RunRow /\ Fresh(t.wanted)

ItemReady(t) ==
  /\ t.item \in NewItem /\ ValidItem(t.item) /\ t.run = t.item.run
  /\ runs[t.item.run] # NULL

VacancyReady(t) ==
  t.item.vacancy # NULL => t.item.vacancy \in KnownVacancies

FinalizeReady(t) ==
  /\ t.run \in Runs /\ runs[t.run] # NULL
  /\ t.loaded \in RunRow /\ Fresh(t.loaded)
  /\ t.finalize \in Finalize /\ t.finalize.status \in Terminal

ResultReady(t) ==
  \E n \in [Outcomes -> Nat] :
    /\ t.wanted = Finalized(t.loaded, t.finalize, n)
    /\ \A o \in Outcomes : n[o] <= Tally(ItemsOf(t.run))[o]

RequestReady(t) ==
  /\ t.pc = "patch_flush" => PatchReady(t)
  /\ t.pc = "start_flush" => StartReady(t)
  /\ t.pc \in {"item_select", "item_flush"} => ItemReady(t)
  /\ t.pc = "item_flush" => VacancyReady(t)
  /\ t.pc \in {"finalize_select", "finalize_flush"} => FinalizeReady(t)
  /\ t.pc = "finalize_flush" => ResultReady(t)

IInv ==
  /\ TypeOK
  /\ IsFiniteSet(items)
  /\ RunsSound
  /\ ItemsSound
  /\ CountersNeverOverstate
  /\ \A w \in Workers : RequestReady(txn[w])

(***************************************************************************)
(* What clients that wait for their answers see: the ledger of runs of     *)
(* module RunLedger.                                                       *)
(***************************************************************************)
Serialised ==
  \A w1, w2 \in Workers : w1 # w2 => Drives[w1] \cap Drives[w2] = {}

LedgerStatus == [r \in Runs |-> IF runs[r] = NULL THEN NULL ELSE runs[r].status]

LedgerEntries == [r \in Runs |-> ItemsOf(r)]

LedgerResult ==
  [r \in Runs |->
     IF runs[r] = NULL \/ runs[r].status = "running" THEN NULL
     ELSE [counts |-> runs[r].counts, found |-> runs[r].found]]

Ledger == INSTANCE RunLedger WITH
  Entries <- ItemRow, Absent <- NULL, NoResult <- NULL,
  status <- LedgerStatus, entries <- LedgerEntries, result <- LedgerResult

(* search-profile-run.md: after finalize, item writes and repeated         *)
(* finalize are rejected, and finalize recomputes the counters from the    *)
(* items.  With Serialised clients the handlers implement that ledger.     *)
ImplementsLedger == Ledger!Spec

(* Under Serialised nobody else touches the run a request has read.        *)
RequestAlone(w) ==
  LET t == txn[w] IN
  /\ t.pc \in {"item_select", "item_flush"} =>
       /\ t.item.run \in Drives[w]
       /\ runs[t.item.run].status = "running"
  /\ t.pc \in {"finalize_select", "finalize_flush"} =>
       t.run \in Drives[w] /\ runs[t.run] = t.loaded
  /\ t.pc = "finalize_flush" =>
       t.wanted = Finalized(t.loaded, t.finalize, Tally(ItemsOf(t.run)))

\* A closed run keeps the sum it was closed with.
FoundIsSum ==
  \A r \in Runs : runs[r] # NULL => runs[r].found = Sum(runs[r].counts)

SerialInv == FoundIsSum /\ \A w \in Workers : RequestAlone(w)

(* The same sentence for clients that do not wait: a terminal run and its  *)
(* items change no more.                                                   *)
NothingAfterFinalize ==
  [][ \A r \in Runs : runs[r] # NULL /\ runs[r].status \in Terminal =>
        runs'[r] = runs[r] /\ ItemsOf(r)' = ItemsOf(r) ]_vars

=============================================================================

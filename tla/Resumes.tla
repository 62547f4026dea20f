------------------------------- MODULE Resumes ------------------------------
(***************************************************************************)
(* The operator's candidate context (candidate_context.py) and the         *)
(* versions of the operator's resumes (resume_versions.py):                *)
(*                                                                         *)
(*   PUT  /candidate-context/hh-resume-link  set_hh_resume_link            *)
(*   POST /resume-versions                   ingest_resume_version         *)
(*                                                                         *)
(* Both first make sure that the one profile and its one version exist;    *)
(* the pair is called a context here, since it is inserted together and    *)
(* never deleted.  A worker serves one request in one READ COMMITTED       *)
(* transaction.  Every SELECT is a step, the INSERT of a context is one,   *)
(* and the last flush of a request is one step with its commit.            *)
(***************************************************************************)
EXTENDS Naturals, FiniteSets, UnitOfWork, ResumeSnapshot

CONSTANTS
  Workers,     \* request handlers
  ContextIds,  \* uuids of the profile and its version, as one
  VersionIds,  \* uuids of resume versions, as numbers: ORDER BY compares them
  ResumeIds,   \* external resume ids, stripped
  Titles,      \* titles of links, none of them blank
  Contents,    \* the contents clients send, as sent
  Traffic,     \* sets of requests; a behaviour is about one of them
  MaxClock,    \* bound: how often utc_now is asked for captured_at
  NULL

Statuses == {"active", "cleared", "stale"}

Put ==
  [kind: {"put"}, resume: ResumeIds \cup {NULL}, title: Titles \cup {NULL},
   status: Statuses \cup {NULL}]

Ingest ==
  [kind: {"ingest"}, resume: ResumeIds, content: Contents,
   captured: (1 .. MaxClock) \cup {NULL}]

(* An ingest once its content is canonical, which is before it reads rows. *)
Stored == {Canonical(c) : c \in Contents} \ {Dropped}

(* Canonical as a table, which TLC computes once. *)
Form == [c \in Contents \cup Stored |-> Canonical(c)]

Snapshot ==
  [kind: {"ingest"}, resume: ResumeIds, content: Stored,
   captured: (1 .. MaxClock) \cup {NULL}]

ASSUME TrafficAssumption == \A requests \in Traffic : requests \subseteq Put \cup Ingest

(* An array of JSON has items 1 to n, for some n.                          *)
ASSUME ContentAssumption ==
  \A content \in Contents : \A k \in DOMAIN content :
    content[k].kind = "list" =>
      LET places == DOMAIN content[k].items IN
      IsFiniteSet(places) /\ places = 1 .. Cardinality(places)

ASSUME NumberAssumption == VersionIds \subseteq Nat /\ MaxClock \in Nat

VARIABLES
  contexts,  \* the committed contexts
  links,     \* the HH link of each context, NULL where none
  versions,  \* the committed rows of resume_versions, NULL where none
  clock,     \* the last time utc_now was asked for a captured_at
  txn,       \* txn[w]: the request worker w serves
  traffic,   \* the requests of this behaviour
  stored     \* the <<resume, content>> pairs ingests were told are stored

vars == <<contexts, links, versions, clock, txn, traffic, stored>>

Link ==
  [resume: ResumeIds \cup {NULL}, title: Titles \cup {NULL}, status: Statuses,
   selected: {NULL, "at"}]

Version ==
  [context: ContextIds, resume: ResumeIds, content: Stored, captured: 1 .. MaxClock]

ASSUME NullAssumption ==
  /\ NULL \notin ContextIds /\ NULL \notin VersionIds /\ NULL \notin ResumeIds
  /\ NULL \notin Link /\ NULL \notin Version /\ NULL # "at"

Labels ==
  {"idle", "insert_context", "select_link", "flush_link", "select_latest",
   "insert_version"}

Txn ==
  [pc: Labels, body: Put \cup Snapshot \cup {NULL}, context: ContextIds \cup {NULL},
   fresh: BOOLEAN,                             \* its INSERT is not committed
   loaded: Link \cup {NULL},
   captured: (1 .. MaxClock) \cup {NULL},
   saw: SUBSET VersionIds]                     \* versions committed at its SELECT

Idle ==
  [pc |-> "idle", body |-> NULL, context |-> NULL, fresh |-> FALSE,
   loaded |-> NULL, captured |-> NULL, saw |-> {}]

Init ==
  /\ contexts = {}
  /\ links = [c \in ContextIds |-> NULL]
  /\ versions = [i \in VersionIds |-> NULL]
  /\ clock = 0
  /\ txn = [w \in Workers |-> Idle]
  /\ traffic \in Traffic
  /\ stored = {}

Recorded == {i \in VersionIds : versions[i] # NULL}

EndWithoutCommit(w) ==
  /\ txn' = [txn EXCEPT ![w] = Idle]
  /\ UNCHANGED <<contexts, links, versions, clock, traffic, stored>>

(* The end of a request that commits, with the context it inserted, if any. *)
Commit(w) ==
  /\ contexts' = contexts \cup {txn[w].context}
  /\ txn' = [txn EXCEPT ![w] = Idle]
  /\ UNCHANGED <<clock, traffic>>

(***************************************************************************)
(* _ensure_profile_version.  While another request's INSERT of the         *)
(* singleton is uncommitted, this one waits; once that has committed, this *)
(* one violates uq_candidate_profiles_singleton_key.                       *)
(***************************************************************************)
SelectContext(w, body, label) ==
  /\ txn[w].pc = "idle"
  /\ \/ /\ contexts = {}
        /\ txn' = [txn EXCEPT ![w] =
             [Idle EXCEPT !.pc = "insert_context", !.body = body]]
     \/ \E c \in contexts :
          txn' = [txn EXCEPT ![w] =
            [Idle EXCEPT !.pc = label, !.body = body, !.context = c]]
  /\ UNCHANGED <<contexts, links, versions, clock, traffic, stored>>

\* Mutant: no unique constraint on singleton_key.
ViolatesNothing == FALSE

ViolatesSingleton == contexts # {}

InsertContext(w) ==
  /\ txn[w].pc = "insert_context"
  /\ \A u \in Workers : ~txn[u].fresh
  /\ IF ViolatesSingleton THEN EndWithoutCommit(w)
     ELSE \E c \in ContextIds \ contexts :
            /\ txn' = [txn EXCEPT
                 ![w].context = c, ![w].fresh = TRUE,
                 ![w].pc = IF txn[w].body.kind = "put" THEN "select_link"
                           ELSE "select_latest"]
            /\ UNCHANGED <<contexts, links, versions, clock, traffic, stored>>

(***************************************************************************)
(* PUT of the link.  Without a status a resume makes the link active and   *)
(* null clears it; an active link without a resume is refused.             *)
(***************************************************************************)
Status(put) ==
  IF put.status # NULL THEN put.status
  ELSE IF put.resume # NULL THEN "active" ELSE "cleared"

\* Mutant: null may be sent with any status.
ValidUnchecked(put) == TRUE

Valid(put) == Status(put) = "active" => put.resume # NULL

PutLink(w, put) ==
  /\ put.kind = "put"
  /\ Valid(put)
  /\ SelectContext(w, put, "select_link")

SelectLink(w) ==
  /\ txn[w].pc = "select_link"
  /\ txn' = [txn EXCEPT ![w].loaded = links[txn[w].context],
                        ![w].pc = "flush_link"]
  /\ UNCHANGED <<contexts, links, versions, clock, traffic, stored>>

NewLink(put) ==
  [resume |-> put.resume, title |-> put.title, status |-> Status(put),
   selected |-> IF Status(put) = "active" THEN "at" ELSE NULL]

\* Mutant: only the INSERT stamps selected_at.
LinkedUnstamped(link, put) ==
  [link EXCEPT !.resume = put.resume, !.status = Status(put),
               !.title = IF put.title # NULL THEN put.title ELSE @]

Linked(link, put) ==
  [link EXCEPT !.resume = put.resume, !.status = Status(put),
               !.title    = IF put.title # NULL THEN put.title ELSE @,
               !.selected = IF Status(put) = "active" THEN "at" ELSE @]

FlushLink(w) ==
  LET t == txn[w]
      c == t.context IN
  /\ t.pc = "flush_link"
  /\ \/ /\ t.loaded = NULL /\ links[c] # NULL  \* uq_active_hh_resume_links_profile_version
        /\ EndWithoutCommit(w)
     \/ /\ t.loaded = NULL <=> links[c] = NULL
        /\ links' = [links EXCEPT ![c] =
             IF t.loaded = NULL THEN NewLink(t.body)
             ELSE Flushed(links[c], t.loaded, Linked(t.loaded, t.body))]
        /\ Commit(w)
        /\ UNCHANGED <<versions, stored>>

(***************************************************************************)
(* Ingest of a snapshot.  It is compared with the latest version of its    *)
(* resume only, and a version is latest by the captured_at that came with  *)
(* it.                                                                     *)
(***************************************************************************)
Later(i, j) ==
  \/ versions[i].captured > versions[j].captured
  \/ versions[i].captured = versions[j].captured /\ i > j

NewestOf(S) ==
  IF S = {} THEN NULL ELSE CHOOSE i \in S : \A j \in S \ {i} : Later(i, j)

\* Mutant: the latest version of any resume.
LatestOfAny(c, x) == NewestOf({i \in Recorded : versions[i].context = c})

Latest(c, x) ==
  NewestOf({i \in Recorded : versions[i].context = c /\ versions[i].resume = x})

IngestVersion(w, ingest) ==
  /\ ingest.kind = "ingest"
  /\ Form[ingest.content] # Dropped
  /\ SelectContext(w, [ingest EXCEPT !.content = Form[@]], "select_latest")

\* Mutant: an unchanged snapshot moves captured_at of the latest version.
ReuseTouching(w, i) ==
  /\ versions' = [versions EXCEPT ![i].captured =
       IF txn[w].body.captured # NULL THEN txn[w].body.captured ELSE @]
  /\ stored' = stored \cup {<<txn[w].body.resume, txn[w].body.content>>}
  /\ Commit(w)
  /\ UNCHANGED links

Reuse(w, i) ==
  /\ stored' = stored \cup {<<txn[w].body.resume, txn[w].body.content>>}
  /\ Commit(w)
  /\ UNCHANGED <<links, versions>>

SelectLatest(w) ==
  LET t == txn[w]
      i == Latest(t.context, t.body.resume)
      now == clock + 1 IN
  /\ t.pc = "select_latest"
  /\ IF i # NULL /\ versions[i].content = t.body.content
     THEN Reuse(w, i)
     ELSE /\ t.body.captured = NULL => now <= MaxClock
          /\ clock' = IF t.body.captured = NULL THEN now ELSE clock
          /\ txn' = [txn EXCEPT ![w] =
               [t EXCEPT !.pc = "insert_version", !.saw = Recorded,
                         !.captured = IF t.body.captured = NULL THEN now
                                      ELSE t.body.captured]]
          /\ UNCHANGED <<contexts, links, versions, traffic, stored>>

\* Mutant: captured_at has no default.
NewVersionUntimed(t) ==
  [context |-> t.context, resume |-> t.body.resume,
   content |-> t.body.content, captured |-> t.body.captured]

NewVersion(t) ==
  [context |-> t.context, resume |-> t.body.resume,
   content |-> t.body.content, captured |-> t.captured]

InsertVersion(w) ==
  LET t == txn[w] IN
  /\ t.pc = "insert_version"
  /\ \E i \in VersionIds \ Recorded :
       versions' = [versions EXCEPT ![i] = NewVersion(t)]
  /\ stored' = stored \cup {<<t.body.resume, t.body.content>>}
  /\ Commit(w)
  /\ UNCHANGED links

Rollback(w) ==
  /\ txn[w].pc # "idle"
  /\ EndWithoutCommit(w)

Next ==
  \E w \in Workers :
    \/ \E body \in traffic : PutLink(w, body) \/ IngestVersion(w, body)
    \/ InsertContext(w)
    \/ SelectLink(w) \/ FlushLink(w)
    \/ SelectLatest(w) \/ InsertVersion(w)
    \/ Rollback(w)

Spec == Init /\ [][Next]_vars

(***************************************************************************)
(* Properties.                                                             *)
(***************************************************************************)
(* Rows and requests have the declared shape.                              *)
TypeOK ==
  /\ contexts \subseteq ContextIds
  /\ links \in [ContextIds -> Link \cup {NULL}]
  /\ versions \in [VersionIds -> Version \cup {NULL}]
  /\ clock \in 0 .. MaxClock
  /\ txn \in [Workers -> Txn]
  /\ traffic \subseteq Put \cup Ingest
  /\ stored \subseteq ResumeIds \X Stored

(* First writes race to create the operator's profile: one of them does,   *)
(* and no link or version, however early its request began, belongs to a   *)
(* profile that is not the operator's.                                     *)
SingleOperator ==
  /\ Cardinality(contexts) <= 1
  /\ \A c \in ContextIds : links[c] # NULL => c \in contexts
  /\ \A i \in Recorded : versions[i].context \in contexts

(* Status and selected_at of a link may come from different PUTs that      *)
(* cross, but an active link always has the time it was selected at.       *)
ActiveWasSelected ==
  \A c \in contexts :
    links[c] # NULL /\ links[c].status = "active" => links[c].selected # NULL

(* An active link without a resume, which no PUT may ask for, is only ever *)
(* left by a PUT whose link another one changed after it was loaded, and   *)
(* the next PUT that nobody crosses repairs it.                            *)
OnlyCrossedPutsTear ==
  [][ \A w \in Workers, c \in ContextIds :
        /\ links'[c] # links[c]
        /\ txn'[w] # txn[w]
        /\ txn[w].loaded = links[c]
        => (links'[c].status = "active" => links'[c].resume # NULL) ]_vars

(* What an ingest was told is stored is a version of that very resume,     *)
(* whatever raced with it and whatever other resumes hold.                 *)
StoredIsKept ==
  \A p \in stored :
    \E i \in Recorded : versions[i].resume = p[1] /\ versions[i].content = p[2]

(* A snapshot read from a stored version and sent back is the same         *)
(* snapshot: normalising it once more changes nothing.                     *)
StoredIsCanonical ==
  \A i \in Recorded : Form[versions[i].content] = versions[i].content

(* resume-version.md: unchanged content makes no new row.  A version that  *)
(* takes over from one with the same content comes from an ingest that     *)
(* looked before the other one was committed, also when clients choose     *)
(* captured_at.                                                            *)
IsNewest(i) ==
  \A j \in Recorded : versions[j].resume = versions[i].resume /\ j # i => Later(i, j)

UnchangedAddsNothing ==
  [][ \A w \in Workers, i \in VersionIds, j \in VersionIds :
        /\ versions[j] = NULL /\ versions'[j] # NULL
        /\ versions[i] # NULL /\ IsNewest(i) /\ IsNewest(j)'
        /\ versions'[j].resume = versions[i].resume
        /\ versions'[j].content = versions[i].content
        /\ txn'[w] # txn[w]
        => i \notin txn[w].saw ]_vars

(* The current copy, as resume_content_meta derives it from link and       *)
(* versions.                                                               *)
Selected ==
  LET active == {c \in contexts : /\ links[c] # NULL
                                  /\ links[c].status = "active"
                                  /\ links[c].resume # NULL} IN
  IF active = {} THEN NULL ELSE links[CHOOSE c \in active : TRUE].resume

Newest(x) == NewestOf({i \in Recorded : versions[i].resume = x})

Copy == INSTANCE CurrentCopy WITH
  None <- NULL, selected <- Selected, newest <- [x \in ResumeIds |-> Newest(x)],
  history <- {i \in Recorded : ~IsNewest(i)}

(* However PUTs and ingests interleave, and whatever times clients report, *)
(* consumers never see a version as the current copy that had already been *)
(* replaced, and a request changes what is selected or what is newest, not *)
(* both.                                                                   *)
ImplementsCurrentCopy == Copy!Spec

=============================================================================

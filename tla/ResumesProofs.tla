---------------------------- MODULE ResumesProofs ---------------------------
(***************************************************************************)
(* Proofs about Resumes, for any workers, ids, contents and traffic.       *)
(***************************************************************************)
EXTENDS Resumes, ResumeSnapshotProofs, FiniteSetTheorems, TLAPS

(***************************************************************************)
(* The inductive invariant.                                                *)
(***************************************************************************)
VersionsOf(x) == {i \in Recorded : versions[i].resume = x}

IsNewestOf(i, S) == i \in S /\ \A j \in S \ {i} : Later(i, j)

(* A PUT that was accepted, and an ingest whose content is canonical.      *)
PutBody(body) == body \in Put /\ Valid(body)

PutReady(t)    == PutBody(t.body) /\ t.context \in ContextIds
IngestReady(t) == t.body \in Snapshot /\ t.context \in ContextIds

(* The link as loaded is still there, and selected if it was.              *)
LinkReady(t) ==
  /\ t.loaded \in Link \cup {NULL}
  /\ t.loaded # NULL =>
       /\ links[t.context] # NULL
       /\ t.loaded.selected # NULL => links[t.context].selected # NULL

(* Of the versions an insert has seen, the newest one has other content.   *)
InsertReady(t) ==
  /\ t.captured \in 1 .. MaxClock
  /\ t.saw \subseteq Recorded
  /\ \A i \in t.saw :
       IsNewestOf(i, {j \in t.saw : versions[j].resume = t.body.resume})
         => versions[i].content # t.body.content

Ready(t) ==
  /\ t.fresh => t.context # NULL /\ contexts = {}
  /\ t.context # NULL => t.fresh \/ t.context \in contexts
  /\ t.pc \in {"idle", "insert_context"} => t.context = NULL
  /\ t.pc = "insert_context" => PutBody(t.body) \/ t.body \in Snapshot
  /\ t.pc \in {"select_link", "flush_link"} => PutReady(t)
  /\ t.pc = "flush_link" => LinkReady(t)
  /\ t.pc \in {"select_latest", "insert_version"} => IngestReady(t)
  /\ t.pc = "insert_version" => InsertReady(t)

OneContext == \A c, d \in contexts : c = d

OwnedRows ==
  /\ \A c \in ContextIds : links[c] # NULL => c \in contexts
  /\ \A i \in Recorded : versions[i].context \in contexts

ActiveLinks ==
  \A c \in ContextIds :
    links[c] # NULL /\ links[c].status = "active" => links[c].selected # NULL

(* Every resume with versions has a newest one: VersionIds may be infinite. *)
NewestExist ==
  \A x \in ResumeIds :
    VersionsOf(x) # {} => \E i \in VersionsOf(x) : IsNewestOf(i, VersionsOf(x))

IInv ==
  /\ TypeOK
  /\ OneContext /\ OwnedRows
  /\ ActiveLinks
  /\ NewestExist
  /\ StoredIsKept
  /\ \A w \in Workers : Ready(txn[w])
  /\ \A u, w \in Workers : txn[u].fresh /\ txn[w].fresh => u = w

(***************************************************************************)
(* What the operators of the model return.                                 *)
(***************************************************************************)
LEMMA IdleSound ==
  /\ Idle \in Txn
  /\ Idle.pc = "idle" /\ Idle.context = NULL /\ Idle.fresh = FALSE
BY DEF Idle, Txn, Labels

LEMMA TxnTypes ==
  ASSUME IInv, NEW w \in Workers
  PROVE  txn[w] \in Txn
BY DEF IInv, TypeOK

LEMMA BodyKinds ==
  ASSUME NEW body
  PROVE  /\ body \in Put => body.kind = "put"
         /\ body \in Snapshot => body.kind = "ingest"
BY DEF Put, Snapshot

LEMMA StatusTypes ==
  ASSUME NEW put \in Put
  PROVE  Status(put) \in Statuses
BY DEF Put, Status, Statuses

LEMMA NewLinkRow ==
  ASSUME NEW put, PutBody(put)
  PROVE  LET new == NewLink(put) IN
         /\ new \in Link
         /\ new.status = "active" => new.resume # NULL /\ new.selected # NULL
<1>1. Status(put) \in Statuses /\ put \in Put
  BY StatusTypes DEF PutBody
<1>2. NewLink(put) \in Link
  BY <1>1 DEF NewLink, Link, Put
<1> QED
  BY <1>2, NullAssumption DEF PutBody, Valid, NewLink

LEMMA LinkedRow ==
  ASSUME NEW link \in Link, NEW put, PutBody(put)
  PROVE  LET new == Linked(link, put) IN
         /\ new \in Link
         /\ new.status = "active" => new.resume # NULL /\ new.selected # NULL
         /\ link.selected # NULL => new.selected # NULL
<1>1. Status(put) \in Statuses /\ put \in Put
  BY StatusTypes DEF PutBody
<1> DEFINE new == Linked(link, put)
<1>2. /\ new \in Link /\ new.resume = put.resume /\ new.status = Status(put)
      /\ new.selected = IF Status(put) = "active" THEN "at" ELSE link.selected
  BY <1>1 DEF Linked, Link, Put
<1> QED
  BY <1>2, NullAssumption DEF PutBody, Valid

(* A flush is made column by column.                                       *)
LEMMA FlushedRow ==
  ASSUME NEW current \in Link, NEW loaded \in Link, NEW wanted \in Link
  PROVE  LET new == Flushed(current, loaded, wanted) IN
         /\ new \in Link
         /\ new.resume = IF wanted.resume # loaded.resume THEN wanted.resume
                         ELSE current.resume
         /\ new.status = IF wanted.status # loaded.status THEN wanted.status
                         ELSE current.status
         /\ new.selected = IF wanted.selected # loaded.selected THEN wanted.selected
                           ELSE current.selected
BY DEF Flushed, Link

(* What the flush of a PUT makes of the link: it stays selected, and is    *)
(* what the PUT asked for unless the link has changed since it was loaded. *)
LEMMA FlushedLink ==
  ASSUME NEW current \in Link, NEW loaded \in Link, NEW put, PutBody(put),
         current.status = "active" => current.selected # NULL,
         loaded.selected # NULL => current.selected # NULL
  PROVE  LET new == Flushed(current, loaded, Linked(loaded, put)) IN
         /\ new \in Link
         /\ new.status = "active" => new.selected # NULL
         /\ current.selected # NULL => new.selected # NULL
         /\ current = loaded /\ new.status = "active" => new.resume # NULL
<1> DEFINE wanted == Linked(loaded, put)
           new    == Flushed(current, loaded, wanted)
<1>1. /\ wanted \in Link
      /\ wanted.status = "active" => wanted.resume # NULL /\ wanted.selected # NULL
      /\ loaded.selected # NULL => wanted.selected # NULL
  BY LinkedRow
<1> HIDE DEF wanted
<1>2. /\ new \in Link
      /\ new.resume = IF wanted.resume # loaded.resume THEN wanted.resume
                      ELSE current.resume
      /\ new.status = IF wanted.status # loaded.status THEN wanted.status
                      ELSE current.status
      /\ new.selected = IF wanted.selected # loaded.selected THEN wanted.selected
                        ELSE current.selected
  BY <1>1, FlushedRow
<1> HIDE DEF new
<1>3. loaded.selected \in {NULL, "at"} /\ current.selected \in {NULL, "at"}
      /\ wanted.selected \in {NULL, "at"}
  BY <1>1 DEF Link
<1>4. new.status = "active" => new.selected # NULL
  BY <1>1, <1>2, <1>3
<1>5. current.selected # NULL => new.selected # NULL
  BY <1>1, <1>2, <1>3
<1>6. current = loaded /\ new.status = "active" => new.resume # NULL
  BY <1>1, <1>2
<1> QED
  BY <1>2, <1>4, <1>5, <1>6 DEF new, wanted

(***************************************************************************)
(* The order of versions.                                                  *)
(***************************************************************************)
LEMMA LaterOrder ==
  ASSUME IInv, NEW i \in Recorded, NEW j \in Recorded, i # j
  PROVE  /\ Later(i, j) \/ Later(j, i)
         /\ ~(Later(i, j) /\ Later(j, i))
<1>1. i \in Nat /\ j \in Nat
  BY NumberAssumption DEF Recorded
<1>2. versions[i].captured \in Nat /\ versions[j].captured \in Nat
  BY NumberAssumption DEF Recorded, IInv, TypeOK, Version
<1> QED
  BY <1>1, <1>2 DEF Later

LEMMA LaterTransitive ==
  ASSUME IInv, NEW i \in Recorded, NEW j \in Recorded, NEW k \in Recorded,
         Later(i, j), Later(j, k)
  PROVE  Later(i, k)
<1>1. i \in Nat /\ j \in Nat /\ k \in Nat
  BY NumberAssumption DEF Recorded
<1>2. /\ versions[i].captured \in Nat /\ versions[j].captured \in Nat
      /\ versions[k].captured \in Nat
  BY NumberAssumption DEF Recorded, IInv, TypeOK, Version
<1> QED
  BY <1>1, <1>2 DEF Later

LEMMA NewestUnique ==
  ASSUME IInv, NEW S, S \subseteq Recorded, NEW i, IsNewestOf(i, S)
  PROVE  NewestOf(S) = i
<1>1. i \in S /\ \A j \in S \ {i} : Later(i, j)
  BY DEF IsNewestOf
<1>2. \A k \in S : (\A j \in S \ {k} : Later(k, j)) => k = i
  BY <1>1, LaterOrder
<1>3. (CHOOSE k \in S : \A j \in S \ {k} : Later(k, j)) = i
  BY <1>1, <1>2
<1> QED
  BY <1>1, <1>3 DEF NewestOf

(* The latest version of a resume is its newest one, in any context.       *)
LEMMA NewestIs ==
  ASSUME IInv, NEW x \in ResumeIds
  PROVE  /\ VersionsOf(x) = {} => Newest(x) = NULL
         /\ VersionsOf(x) # {} => IsNewestOf(Newest(x), VersionsOf(x))
<1>1. Newest(x) = NewestOf(VersionsOf(x))
  BY DEF Newest, VersionsOf
<1>2. VersionsOf(x) \subseteq Recorded
  BY DEF VersionsOf
<1>3. CASE VersionsOf(x) = {}
  BY <1>1, <1>3 DEF NewestOf
<1>4. CASE VersionsOf(x) # {}
  <2>1. PICK i \in VersionsOf(x) : IsNewestOf(i, VersionsOf(x))
    BY <1>4 DEF IInv, NewestExist
  <2>2. NewestOf(VersionsOf(x)) = i
    BY <1>2, <2>1, NewestUnique
  <2> QED
    BY <1>1, <1>4, <2>1, <2>2
<1> QED
  BY <1>3, <1>4

LEMMA LatestIs ==
  ASSUME IInv, NEW w \in Workers, IngestReady(txn[w]), NEW x
  PROVE  Latest(txn[w].context, x) = NewestOf(VersionsOf(x))
<1> DEFINE c == txn[w].context
<1>1. c \in ContextIds /\ Ready(txn[w])
  BY DEF IInv, IngestReady
<1>2. c # NULL
  BY <1>1, NullAssumption
<1>3. contexts = {} \/ c \in contexts
  BY <1>1, <1>2 DEF Ready
<1>4. \A i \in Recorded : versions[i].context = c
  BY <1>3 DEF IInv, OwnedRows, OneContext
<1>5. {i \in Recorded : versions[i].context = c /\ versions[i].resume = x} = VersionsOf(x)
  BY <1>4 DEF VersionsOf
<1> QED
  BY <1>5 DEF Latest

(***************************************************************************)
(* The steps that commit.                                                  *)
(***************************************************************************)
LEMMA RowTypes ==
  ASSUME IInv
  PROVE  /\ links \in [ContextIds -> Link \cup {NULL}]
         /\ versions \in [VersionIds -> Version \cup {NULL}]
         /\ contexts \subseteq ContextIds
BY DEF IInv, TypeOK

(* Whoever commits leaves one context, and nobody else has a fresh one.    *)
LEMMA CommittedContext ==
  ASSUME IInv, NEW w \in Workers, txn[w].context \in ContextIds, Commit(w)
  PROVE  /\ contexts' \subseteq ContextIds
         /\ OneContext'
         /\ contexts \subseteq contexts' /\ txn[w].context \in contexts'
         /\ contexts' \subseteq contexts \cup {txn[w].context}
         /\ \A u \in Workers \ {w} : ~txn[u].fresh
         /\ txn' = [txn EXCEPT ![w] = Idle]
<1>1. Ready(txn[w]) /\ txn[w].context # NULL
  BY NullAssumption DEF IInv
<1>2. contexts' = contexts \cup {txn[w].context} /\ txn' = [txn EXCEPT ![w] = Idle]
  BY DEF Commit
<1>3. contexts = {} \/ txn[w].context \in contexts
  BY <1>1 DEF Ready
<1>4. OneContext'
  BY <1>2, <1>3 DEF IInv, OneContext
<1>5. ASSUME NEW u \in Workers \ {w}, txn[u].fresh PROVE FALSE
  <2>1. contexts = {} /\ ~txn[w].fresh
    BY <1>5 DEF IInv, Ready
  <2> QED
    BY <1>1, <2>1 DEF Ready
<1> QED
  BY <1>2, <1>4, <1>5, RowTypes

LEMMA FlushedStep ==
  ASSUME IInv, NEW w \in Workers, FlushLink(w), ~EndWithoutCommit(w)
  PROVE  LET c == txn[w].context IN
         /\ Commit(w) /\ c \in ContextIds
         /\ versions' = versions /\ stored' = stored
         /\ links' \in [ContextIds -> Link \cup {NULL}]
         /\ links'[c] \in Link
         /\ \A d \in ContextIds \ {c} : links'[d] = links[d]
         /\ links'[c].status = "active" => links'[c].selected # NULL
         /\ links[c] # NULL /\ links[c].selected # NULL => links'[c].selected # NULL
         /\ txn[w].loaded = links[c] /\ links'[c].status = "active" =>
              links'[c].resume # NULL
<1> DEFINE t == txn[w]
           c == txn[w].context
           new == IF t.loaded = NULL THEN NewLink(t.body)
                  ELSE Flushed(links[c], t.loaded, Linked(t.loaded, t.body))
<1>1. PutReady(t) /\ LinkReady(t)
  BY DEF IInv, Ready, FlushLink
<1>2. c \in ContextIds /\ PutBody(t.body) /\ t.loaded \in Link \cup {NULL}
  BY <1>1 DEF PutReady, LinkReady
<1>3. /\ t.loaded = NULL <=> links[c] = NULL
      /\ links' = [links EXCEPT ![c] = new]
      /\ Commit(w) /\ versions' = versions /\ stored' = stored
  BY DEF FlushLink
<1>4. /\ new \in Link
      /\ new.status = "active" => new.selected # NULL
      /\ links[c] # NULL /\ links[c].selected # NULL => new.selected # NULL
      /\ t.loaded = links[c] /\ new.status = "active" => new.resume # NULL
  <2>1. CASE t.loaded = NULL
    BY <1>2, <1>3, <2>1, NewLinkRow
  <2>2. CASE t.loaded # NULL
    <3>1. /\ t.loaded \in Link /\ links[c] \in Link
          /\ links[c].status = "active" => links[c].selected # NULL
          /\ t.loaded.selected # NULL => links[c].selected # NULL
      BY <1>1, <1>2, <1>3, <2>2, RowTypes DEF IInv, ActiveLinks, LinkReady
    <3>2. new = Flushed(links[c], t.loaded, Linked(t.loaded, t.body))
      BY <2>2
    <3> HIDE DEF new
    <3> QED
      BY <1>2, <3>1, <3>2, FlushedLink
  <2> QED
    BY <2>1, <2>2
<1> HIDE DEF new
<1>5. /\ links' \in [ContextIds -> Link \cup {NULL}] /\ links'[c] = new
      /\ \A d \in ContextIds \ {c} : links'[d] = links[d]
  BY <1>2, <1>3, <1>4, RowTypes
<1> QED
  BY <1>2, <1>3, <1>4, <1>5

LEMMA ReusedStep ==
  ASSUME IInv, NEW w \in Workers, SelectLatest(w), Commit(w)
  PROVE  LET b == txn[w].body IN
         /\ txn[w].context \in ContextIds
         /\ links' = links /\ versions' = versions
         /\ b \in Snapshot
         /\ stored' = stored \cup {<<b.resume, b.content>>}
         /\ \E i \in Recorded : versions[i].resume = b.resume
                                /\ versions[i].content = b.content
<1> DEFINE t == txn[w]
           i == Latest(t.context, t.body.resume)
<1>1. IngestReady(t) /\ t.pc = "select_latest" /\ t \in Txn
  BY TxnTypes DEF IInv, Ready, SelectLatest
<1>2. t.body \in Snapshot /\ t.body.resume \in ResumeIds /\ t.context \in ContextIds
  BY <1>1 DEF IngestReady, Snapshot
<1>3. i # NULL /\ versions[i].content = t.body.content
  <2>1. txn'[w] = Idle
    BY DEF Commit, IInv, TypeOK
  <2>2. ASSUME txn' = [txn EXCEPT ![w] =
                 [t EXCEPT !.pc = "insert_version", !.saw = Recorded,
                           !.captured = IF t.body.captured = NULL THEN clock + 1
                                        ELSE t.body.captured]]
        PROVE  FALSE
    <3>1. txn'[w].pc = "insert_version"
      BY <1>1, <2>2 DEF IInv, TypeOK, Txn
    <3> QED
      BY <2>1, <3>1, IdleSound
  <2> QED
    BY <2>2 DEF SelectLatest
<1>4. Reuse(w, i)
  BY <1>3 DEF SelectLatest
<1>5. i = NewestOf(VersionsOf(t.body.resume))
  BY <1>1, LatestIs
<1>6. VersionsOf(t.body.resume) # {}
  BY <1>3, <1>5 DEF NewestOf
<1>7. i \in VersionsOf(t.body.resume)
  BY <1>2, <1>5, <1>6, NewestIs DEF IsNewestOf, Newest, VersionsOf
<1> HIDE DEF i
<1> QED
  BY <1>2, <1>3, <1>4, <1>7 DEF Reuse, VersionsOf

LEMMA InsertedStep ==
  ASSUME IInv, NEW w \in Workers, InsertVersion(w)
  PROVE  LET b == txn[w].body IN
         /\ Commit(w) /\ txn[w].context \in ContextIds
         /\ b \in Snapshot
         /\ links' = links
         /\ versions' \in [VersionIds -> Version \cup {NULL}]
         /\ stored' = stored \cup {<<b.resume, b.content>>}
         /\ \E i \in VersionIds :
              /\ versions[i] = NULL /\ versions'[i] \in Version
              /\ versions'[i].resume = b.resume /\ versions'[i].content = b.content
              /\ versions'[i].context = txn[w].context
              /\ \A j \in VersionIds \ {i} : versions'[j] = versions[j]
<1> DEFINE t == txn[w]
           new == NewVersion(t)
<1>1. IngestReady(t) /\ InsertReady(t)
  BY DEF IInv, Ready, InsertVersion
<1>2. t.body \in Snapshot /\ t.context \in ContextIds /\ t.captured \in 1 .. MaxClock
  BY <1>1 DEF IngestReady, InsertReady
<1>3. /\ new \in Version /\ new.resume = t.body.resume /\ new.content = t.body.content
      /\ new.context = t.context
  BY <1>2 DEF NewVersion, Version, Snapshot
<1>4. PICK i \in VersionIds \ Recorded : versions' = [versions EXCEPT ![i] = new]
  BY DEF InsertVersion
<1> HIDE DEF new
<1>5. /\ versions' \in [VersionIds -> Version \cup {NULL}]
      /\ versions[i] = NULL /\ versions'[i] = new
      /\ \A j \in VersionIds \ {i} : versions'[j] = versions[j]
  BY <1>3, <1>4, RowTypes DEF Recorded
<1>6. Commit(w) /\ links' = links /\ stored' = stored \cup {<<t.body.resume, t.body.content>>}
  BY DEF InsertVersion
<1> QED
  BY <1>2, <1>3, <1>5, <1>6

(* A step commits nothing, a link, an unchanged version or a new one.      *)
LEMMA WritesNext ==
  ASSUME IInv, [Next]_vars
  PROVE  \/ UNCHANGED <<contexts, links, versions, stored>>
         \/ \E w \in Workers : FlushLink(w) /\ ~EndWithoutCommit(w)
         \/ \E w \in Workers : SelectLatest(w) /\ Commit(w)
         \/ \E w \in Workers : InsertVersion(w)
<1>1. ASSUME NEW w \in Workers, SelectLatest(w)
      PROVE  Commit(w) \/ UNCHANGED <<contexts, links, versions, stored>>
  BY <1>1 DEF SelectLatest, Reuse
<1>2. CASE \E w \in Workers : EndWithoutCommit(w)
  BY <1>2 DEF EndWithoutCommit
<1> QED
  BY <1>1, <1>2 DEF Next, vars, PutLink, IngestVersion, SelectContext, InsertContext,
     SelectLink, Rollback

(* Versions are never changed.                                             *)
LEMMA VersionsKept ==
  ASSUME IInv, [Next]_vars
  PROVE  /\ versions' \in [VersionIds -> Version \cup {NULL}]
         /\ \A i \in Recorded : versions'[i] = versions[i]
         /\ Recorded \subseteq Recorded'
<1>1. /\ versions' \in [VersionIds -> Version \cup {NULL}]
      /\ \A i \in Recorded : versions'[i] = versions[i]
  <2>1. CASE versions' = versions
    BY <2>1, RowTypes
  <2>2. CASE \E w \in Workers : InsertVersion(w)
    BY <2>2, InsertedStep DEF Recorded
  <2> QED
    BY <2>1, <2>2, WritesNext, FlushedStep, ReusedStep
<1> QED
  BY <1>1 DEF Recorded

(***************************************************************************)
(* Preservation: the rows.                                                 *)
(***************************************************************************)
LEMMA RowsNext ==
  ASSUME IInv, [Next]_vars
  PROVE  /\ contexts' \subseteq ContextIds /\ contexts \subseteq contexts'
         /\ links' \in [ContextIds -> Link \cup {NULL}]
         /\ \A c \in ContextIds :
              links[c] # NULL =>
                /\ links'[c] # NULL
                /\ links[c].selected # NULL => links'[c].selected # NULL
         /\ OneContext' /\ OwnedRows' /\ ActiveLinks'
<1> USE RowTypes
<1>1. CASE UNCHANGED <<contexts, links, versions, stored>>
  BY <1>1 DEF IInv, OneContext, OwnedRows, ActiveLinks, Recorded
<1>2. ASSUME NEW w \in Workers, FlushLink(w), ~EndWithoutCommit(w)
      PROVE  /\ contexts' \subseteq ContextIds /\ contexts \subseteq contexts'
             /\ links' \in [ContextIds -> Link \cup {NULL}]
             /\ \A c \in ContextIds :
                  links[c] # NULL =>
                    /\ links'[c] # NULL
                    /\ links[c].selected # NULL => links'[c].selected # NULL
             /\ OneContext' /\ OwnedRows' /\ ActiveLinks'
  <2> DEFINE c == txn[w].context
  <2>1. /\ Commit(w) /\ c \in ContextIds /\ versions' = versions
        /\ links' \in [ContextIds -> Link \cup {NULL}] /\ links'[c] \in Link
        /\ \A d \in ContextIds \ {c} : links'[d] = links[d]
        /\ links'[c].status = "active" => links'[c].selected # NULL
        /\ links[c] # NULL /\ links[c].selected # NULL => links'[c].selected # NULL
    BY <1>2, FlushedStep
  <2>2. /\ contexts' \subseteq ContextIds /\ OneContext' /\ contexts \subseteq contexts'
        /\ c \in contexts'
    BY <2>1, CommittedContext
  <2>3. links'[c] # NULL
    BY <2>1, NullAssumption
  <2>4. OwnedRows'
    BY <2>1, <2>2 DEF IInv, OwnedRows, Recorded
  <2>5. ActiveLinks'
    BY <2>1 DEF IInv, ActiveLinks
  <2> QED
    BY <2>1, <2>2, <2>3, <2>4, <2>5
<1>3. ASSUME NEW w \in Workers, Commit(w), txn[w].context \in ContextIds, links' = links,
             \A i \in Recorded' \ Recorded : versions'[i].context = txn[w].context
      PROVE  /\ contexts' \subseteq ContextIds /\ contexts \subseteq contexts'
             /\ OneContext' /\ OwnedRows' /\ ActiveLinks'
  <2>1. /\ contexts' \subseteq ContextIds /\ OneContext' /\ contexts \subseteq contexts'
        /\ txn[w].context \in contexts'
    BY <1>3, CommittedContext
  <2>2. \A i \in Recorded : versions'[i] = versions[i]
    BY VersionsKept
  <2>3. OwnedRows'
    BY <1>3, <2>1, <2>2 DEF IInv, OwnedRows
  <2>4. ActiveLinks'
    BY <1>3 DEF IInv, ActiveLinks
  <2> QED
    BY <2>1, <2>3, <2>4
<1>4. ASSUME NEW w \in Workers, SelectLatest(w), Commit(w)
      PROVE  /\ contexts' \subseteq ContextIds /\ contexts \subseteq contexts'
             /\ links' = links /\ OneContext' /\ OwnedRows' /\ ActiveLinks'
  BY <1>3, <1>4, ReusedStep DEF Recorded
<1>5. ASSUME NEW w \in Workers, InsertVersion(w)
      PROVE  /\ contexts' \subseteq ContextIds /\ contexts \subseteq contexts'
             /\ links' = links /\ OneContext' /\ OwnedRows' /\ ActiveLinks'
  <2>1. \A i \in Recorded' \ Recorded : versions'[i].context = txn[w].context
    BY <1>5, InsertedStep DEF Recorded
  <2> QED
    BY <1>3, <1>5, <2>1, InsertedStep
<1> QED
  BY <1>1, <1>2, <1>4, <1>5, WritesNext

LEMMA StoredNext ==
  ASSUME IInv, [Next]_vars
  PROVE  StoredIsKept' /\ stored' \subseteq ResumeIds \X Stored
<1>1. stored \subseteq ResumeIds \X Stored
  BY DEF IInv, TypeOK
<1>2. Recorded \subseteq Recorded' /\ \A i \in Recorded : versions'[i] = versions[i]
  BY VersionsKept
<1>3. CASE stored' = stored
  BY <1>1, <1>2, <1>3 DEF IInv, StoredIsKept
<1>4. ASSUME NEW b \in Snapshot, stored' = stored \cup {<<b.resume, b.content>>},
             \E i \in Recorded' : versions'[i].resume = b.resume
                                  /\ versions'[i].content = b.content
      PROVE  StoredIsKept' /\ stored' \subseteq ResumeIds \X Stored
  <2>1. <<b.resume, b.content>> \in ResumeIds \X Stored
    BY DEF Snapshot
  <2>2. ASSUME NEW p \in stored'
        PROVE  \E i \in Recorded' : versions'[i].resume = p[1] /\ versions'[i].content = p[2]
    <3>1. CASE p \in stored
      BY <1>2, <3>1 DEF IInv, StoredIsKept
    <3>2. CASE p = <<b.resume, b.content>>
      BY <1>4, <3>2
    <3> QED
      BY <1>4, <2>2, <3>1, <3>2
  <2> QED
    BY <1>1, <1>4, <2>1, <2>2 DEF StoredIsKept
<1>5. ASSUME NEW w \in Workers, SelectLatest(w), Commit(w)
      PROVE  StoredIsKept' /\ stored' \subseteq ResumeIds \X Stored
  BY <1>2, <1>4, <1>5, ReusedStep
<1>6. ASSUME NEW w \in Workers, InsertVersion(w)
      PROVE  StoredIsKept' /\ stored' \subseteq ResumeIds \X Stored
  <2>1. PICK i \in VersionIds :
          /\ versions'[i] \in Version
          /\ versions'[i].resume = txn[w].body.resume
          /\ versions'[i].content = txn[w].body.content
    BY <1>6, InsertedStep
  <2>2. i \in Recorded'
    BY <2>1, NullAssumption DEF Recorded
  <2> QED
    BY <1>4, <1>6, <2>1, <2>2, InsertedStep
<1> QED
  BY <1>1, <1>3, <1>5, <1>6, WritesNext, FlushedStep

(* The versions of a resume, and their order, after a step.                *)
LEMMA VersionsNext ==
  ASSUME IInv, [Next]_vars
  PROVE  /\ \A i, j \in Recorded : Later(i, j)' <=> Later(i, j)
         /\ \A i, j \in Recorded' : i # j => Later(i, j)' \/ Later(j, i)'
         /\ \A i, j, k \in Recorded' : Later(i, j)' /\ Later(j, k)' => Later(i, k)'
<1>1. /\ versions' \in [VersionIds -> Version \cup {NULL}]
      /\ \A i \in Recorded : versions'[i] = versions[i]
  BY VersionsKept
<1>2. \A i \in Recorded' : i \in Nat /\ versions'[i].captured \in Nat
  BY <1>1, NumberAssumption DEF Recorded, Version
<1> QED
  BY <1>1, <1>2 DEF Later

LEMMA NewestNext ==
  ASSUME IInv, [Next]_vars
  PROVE  NewestExist'
<1>1. CASE versions' = versions
  BY <1>1 DEF IInv, NewestExist, VersionsOf, IsNewestOf, Recorded, Later
<1>2. ASSUME NEW w \in Workers, InsertVersion(w)
      PROVE  NewestExist'
  <2>1. PICK k \in VersionIds :
          /\ versions[k] = NULL /\ versions'[k] \in Version
          /\ \A j \in VersionIds \ {k} : versions'[j] = versions[j]
    BY <1>2, InsertedStep
  <2>2. Recorded' = Recorded \cup {k} /\ k \notin Recorded
    BY <2>1, NullAssumption DEF Recorded
  <2>3. \A i \in Recorded : versions'[i] = versions[i]
    BY VersionsKept
  <2> SUFFICES ASSUME NEW x \in ResumeIds, VersionsOf(x)' # {}
               PROVE  \E i \in VersionsOf(x)' :
                        \A j \in VersionsOf(x)' \ {i} : Later(i, j)'
    BY DEF NewestExist, IsNewestOf
  <2>4. VersionsOf(x) \subseteq Recorded /\ VersionsOf(x)' \subseteq Recorded'
    BY DEF VersionsOf
  <2>5. VersionsOf(x) \subseteq VersionsOf(x)' /\ VersionsOf(x)' \subseteq VersionsOf(x) \cup {k}
    BY <2>2, <2>3 DEF VersionsOf
  <2>6. CASE VersionsOf(x) = {}
    BY <2>5, <2>6
  <2>7. CASE VersionsOf(x) # {}
    <3>1. PICK i \in VersionsOf(x) : \A j \in VersionsOf(x) \ {i} : Later(i, j)
      BY <2>7 DEF IInv, NewestExist, IsNewestOf
    <3>2. \A j \in VersionsOf(x) \ {i} : Later(i, j)'
      BY <2>4, <3>1, VersionsNext
    <3>3. CASE k \notin VersionsOf(x)'
      BY <2>5, <3>1, <3>2, <3>3
    <3>4. CASE k \in VersionsOf(x)'
      <4>1. k # i /\ i \in Recorded' /\ k \in Recorded'
        BY <2>2, <2>4, <3>1
      <4>2. CASE Later(i, k)'
        BY <2>5, <3>1, <3>2, <4>2
      <4>3. CASE Later(k, i)'
        <5>1. \A j \in VersionsOf(x) \ {i} : Later(k, j)'
          BY <2>2, <2>4, <3>2, <4>1, <4>3, VersionsNext
        <5> QED
          BY <2>5, <3>4, <4>3, <5>1
      <4> QED
        BY <4>1, <4>2, <4>3, VersionsNext
    <3> QED
      BY <3>3, <3>4
  <2> QED
    BY <2>6, <2>7
<1> QED
  BY <1>1, <1>2, WritesNext, FlushedStep, ReusedStep

(***************************************************************************)
(* Preservation: the requests.                                             *)
(***************************************************************************)
(* The rows a waiting request relies on are still there.                   *)
LEMMA ReadyNext ==
  ASSUME IInv, [Next]_vars, NEW t \in Txn, Ready(t),
         t.fresh => contexts' = contexts
  PROVE  Ready(t)'
<1>1. contexts \subseteq contexts'
  BY RowsNext
<1>2. LinkReady(t) /\ PutReady(t) => LinkReady(t)'
  BY RowsNext DEF LinkReady, PutReady
<1>3. InsertReady(t) => InsertReady(t)'
  <2> SUFFICES ASSUME InsertReady(t) PROVE InsertReady(t)'
    OBVIOUS
  <2>1. /\ Recorded \subseteq Recorded' /\ t.saw \subseteq Recorded
        /\ \A i \in t.saw : versions'[i] = versions[i]
    BY VersionsKept DEF InsertReady
  <2>2. {j \in t.saw : versions'[j].resume = t.body.resume}
          = {j \in t.saw : versions[j].resume = t.body.resume}
    BY <2>1
  <2>3. \A i, j \in t.saw : Later(i, j)' <=> Later(i, j)
    BY <2>1, VersionsNext
  <2>4. ASSUME NEW i \in t.saw,
               IsNewestOf(i, {j \in t.saw : versions[j].resume = t.body.resume})'
        PROVE  IsNewestOf(i, {j \in t.saw : versions[j].resume = t.body.resume})
    BY <2>2, <2>3, <2>4 DEF IsNewestOf
  <2> QED
    BY <2>1, <2>4 DEF InsertReady
<1> QED
  BY <1>1, <1>2, <1>3 DEF Ready, PutReady, IngestReady

(* A step of w moves its request only, and only w may be the one with an   *)
(* uncommitted context afterwards.                                         *)
Moves(w, t) ==
  /\ txn' = [txn EXCEPT ![w] = t]
  /\ t.fresh => \A u \in Workers \ {w} : ~txn[u].fresh

LEMMA IdleReady == Ready(Idle)
BY IdleSound DEF Ready

LEMMA EndMoves ==
  ASSUME IInv, [Next]_vars, NEW w \in Workers, txn' = [txn EXCEPT ![w] = Idle]
  PROVE  \E t \in Txn : Moves(w, t) /\ Ready(t)'
<1>1. Ready(Idle)'
  BY IdleReady, PTL
<1> QED
  BY <1>1, IdleSound DEF Moves

(* What the handlers pass to SelectContext.                                *)
Accepted(body, label) ==
  \/ PutBody(body) /\ label = "select_link"
  \/ body \in Snapshot /\ label = "select_latest"

LEMMA SelectContextMoves ==
  ASSUME IInv, NEW w \in Workers, NEW body, NEW label, SelectContext(w, body, label),
         Accepted(body, label)
  PROVE  \E t \in Txn : Moves(w, t) /\ Ready(t)'
<1>1. /\ body \in Put \cup Snapshot /\ label \in Labels
      /\ UNCHANGED <<contexts, links, versions>> /\ contexts \subseteq ContextIds
  BY RowTypes DEF Accepted, PutBody, Labels, SelectContext
<1>2. ASSUME NEW t \in Txn, Ready(t), ~t.fresh, txn' = [txn EXCEPT ![w] = t]
      PROVE  Moves(w, t) /\ Ready(t)'
  <2>1. Ready(t)'
    BY <1>1, <1>2 DEF Ready, PutReady, IngestReady, LinkReady, InsertReady, Recorded,
       IsNewestOf, Later
  <2> QED
    BY <1>2, <2>1 DEF Moves
<1>3. CASE /\ contexts = {}
           /\ txn' = [txn EXCEPT ![w] = [Idle EXCEPT !.pc = "insert_context", !.body = body]]
  <2> DEFINE t == [Idle EXCEPT !.pc = "insert_context", !.body = body]
  <2>1. /\ t \in Txn /\ t.pc = "insert_context" /\ t.body = body /\ ~t.fresh
        /\ t.context = NULL
    BY <1>1 DEF Idle, Txn, Labels
  <2>2. Ready(t)
    BY <2>1 DEF Accepted, Ready
  <2> HIDE DEF t
  <2>3. txn' = [txn EXCEPT ![w] = t]
    BY <1>3 DEF t
  <2> QED
    BY <1>2, <2>1, <2>2, <2>3
<1>4. ASSUME NEW c \in contexts,
             txn' = [txn EXCEPT ![w] =
               [Idle EXCEPT !.pc = label, !.body = body, !.context = c]]
      PROVE  \E t \in Txn : Moves(w, t) /\ Ready(t)'
  <2> DEFINE t == [Idle EXCEPT !.pc = label, !.body = body, !.context = c]
  <2>1. /\ t \in Txn /\ t.pc = label /\ t.body = body /\ ~t.fresh
        /\ t.context = c /\ c \in ContextIds
    BY <1>1 DEF Idle, Txn, Labels
  <2>2. Ready(t)
    BY <2>1 DEF Accepted, Ready, PutReady, IngestReady, PutBody
  <2> HIDE DEF t
  <2>3. txn' = [txn EXCEPT ![w] = t]
    BY <1>4 DEF t
  <2> QED
    BY <1>2, <2>1, <2>2, <2>3
<1> QED
  BY <1>3, <1>4 DEF SelectContext

LEMMA InsertContextMoves ==
  ASSUME IInv, [Next]_vars, NEW w \in Workers, InsertContext(w)
  PROVE  \E t \in Txn : Moves(w, t) /\ Ready(t)'
<1> DEFINE label == IF txn[w].body.kind = "put" THEN "select_link" ELSE "select_latest"
<1>1. CASE EndWithoutCommit(w)
  BY <1>1, EndMoves DEF EndWithoutCommit
<1>2. ASSUME contexts = {}, NEW c \in ContextIds,
             txn' = [txn EXCEPT ![w].context = c, ![w].fresh = TRUE, ![w].pc = label],
             UNCHANGED <<contexts, links, versions, clock, traffic, stored>>
      PROVE  \E t \in Txn : Moves(w, t) /\ Ready(t)'
  <2> DEFINE new == [txn[w] EXCEPT !.context = c, !.fresh = TRUE, !.pc = label]
  <2>1. /\ txn[w] \in Txn /\ Ready(txn[w]) /\ txn[w].pc = "insert_context"
        /\ \A u \in Workers : ~txn[u].fresh
    BY TxnTypes DEF IInv, InsertContext
  <2>2. PutBody(txn[w].body) \/ txn[w].body \in Snapshot
    BY <2>1 DEF Ready
  <2>3. \/ PutBody(txn[w].body) /\ label = "select_link"
        \/ txn[w].body \in Snapshot /\ label = "select_latest"
    BY <2>2, BodyKinds DEF PutBody
  <2>4. /\ new \in Txn /\ new.pc = label /\ new.fresh /\ new.context = c
        /\ new.body = txn[w].body
    BY <2>1, <2>3 DEF Txn, Labels
  <2>5. txn' = [txn EXCEPT ![w] = new]
    BY <1>2 DEF IInv, TypeOK
  <2> HIDE DEF new, label
  <2>7. PICK t \in Txn :
          /\ t.pc = label /\ t.fresh /\ t.context = c /\ t.body = txn[w].body
          /\ txn' = [txn EXCEPT ![w] = t]
    BY <2>4, <2>5
  <2>6. Ready(t)'
    BY <1>2, <2>3, <2>7, NullAssumption DEF Ready, PutReady, IngestReady
  <2> QED
    BY <2>1, <2>6, <2>7 DEF Moves
<1> HIDE DEF label
<1> QED
  BY <1>1, <1>2 DEF InsertContext, ViolatesSingleton, label

LEMMA SelectLinkMoves ==
  ASSUME IInv, NEW w \in Workers, SelectLink(w)
  PROVE  \E t \in Txn : Moves(w, t) /\ Ready(t)'
<1> DEFINE new == [txn[w] EXCEPT !.loaded = links[txn[w].context], !.pc = "flush_link"]
<1>1. /\ txn[w] \in Txn /\ Ready(txn[w]) /\ txn[w].pc = "select_link"
      /\ UNCHANGED <<contexts, links, versions>>
  BY TxnTypes DEF IInv, SelectLink
<1>2. PutReady(txn[w]) /\ links[txn[w].context] \in Link \cup {NULL}
  BY <1>1, RowTypes DEF Ready, PutReady
<1>3. /\ new \in Txn /\ new.pc = "flush_link" /\ new.loaded = links[txn[w].context]
      /\ new.fresh = txn[w].fresh /\ new.context = txn[w].context
      /\ new.body = txn[w].body
  BY <1>1, <1>2 DEF Txn, Labels
<1>4. txn' = [txn EXCEPT ![w] = new]
  BY DEF SelectLink, IInv, TypeOK
<1> HIDE DEF new
<1>5. PICK t \in Txn :
        /\ t.pc = "flush_link" /\ t.loaded = links[txn[w].context]
        /\ t.fresh = txn[w].fresh /\ t.context = txn[w].context
        /\ t.body = txn[w].body
        /\ txn' = [txn EXCEPT ![w] = t]
  BY <1>3, <1>4
<1>6. Ready(t)
  BY <1>1, <1>2, <1>5 DEF Ready, PutReady, LinkReady
<1>7. Ready(t)'
  BY <1>1, <1>2, <1>5, <1>6 DEF Ready, PutReady, LinkReady
<1>8. t.fresh => \A u \in Workers \ {w} : ~txn[u].fresh
  BY <1>5 DEF IInv
<1> QED
  BY <1>5, <1>7, <1>8 DEF Moves

LEMMA SelectLatestMoves ==
  ASSUME IInv, [Next]_vars, NEW w \in Workers, SelectLatest(w)
  PROVE  /\ \E t \in Txn : Moves(w, t) /\ Ready(t)'
         /\ clock' \in 0 .. MaxClock /\ traffic' = traffic
<1> DEFINE b == txn[w].body
           i == Latest(txn[w].context, b.resume)
           captured == IF b.captured = NULL THEN clock + 1 ELSE b.captured
           new == [txn[w] EXCEPT !.pc = "insert_version", !.saw = Recorded,
                                 !.captured = captured]
<1>1. /\ txn[w] \in Txn /\ Ready(txn[w]) /\ txn[w].pc = "select_latest"
      /\ clock \in 0 .. MaxClock
  BY TxnTypes DEF IInv, TypeOK, SelectLatest
<1>2. CASE Reuse(w, i)
  <2>1. txn' = [txn EXCEPT ![w] = Idle] /\ clock' = clock /\ traffic' = traffic
    BY <1>2 DEF Reuse, Commit
  <2> QED
    BY <1>1, <2>1, EndMoves
<1>3. CASE /\ ~(i # NULL /\ versions[i].content = b.content)
           /\ b.captured = NULL => clock + 1 <= MaxClock
           /\ clock' = IF b.captured = NULL THEN clock + 1 ELSE clock
           /\ txn' = [txn EXCEPT ![w] = new]
           /\ UNCHANGED <<contexts, links, versions, traffic, stored>>
  <2>1. IngestReady(txn[w])
    BY <1>1 DEF Ready
  <2>2. b \in Snapshot /\ b.resume \in ResumeIds /\ b.captured \in 1 .. MaxClock \cup {NULL}
    BY <2>1 DEF IngestReady, Snapshot
  <2>3. captured \in 1 .. MaxClock /\ clock' \in 0 .. MaxClock
    BY <1>1, <1>3, <2>2, NumberAssumption
  <2>4. Recorded \subseteq VersionIds
    BY DEF Recorded
  <2> HIDE DEF captured
  <2>11. /\ new \in Txn /\ new.pc = "insert_version" /\ new.captured = captured
         /\ new.saw = Recorded /\ new.body = b
         /\ new.fresh = txn[w].fresh /\ new.context = txn[w].context
    BY <1>1, <2>3, <2>4 DEF Txn, Labels
  <2> HIDE DEF new
  <2>5. PICK t \in Txn :
          /\ t.pc = "insert_version" /\ t.captured = captured
          /\ t.saw = Recorded /\ t.body = b
          /\ t.fresh = txn[w].fresh /\ t.context = txn[w].context
          /\ txn' = [txn EXCEPT ![w] = t]
    BY <1>3, <2>11
  <2>6. ASSUME NEW k \in Recorded, IsNewestOf(k, VersionsOf(b.resume))
        PROVE  versions[k].content # b.content
    <3>1. NewestOf(VersionsOf(b.resume)) = k
      BY <2>6, NewestUnique DEF VersionsOf
    <3>2. i = k /\ k # NULL
      BY <2>1, <3>1, LatestIs, NullAssumption DEF Recorded
    <3> QED
      BY <1>3, <3>2
  <2> HIDE DEF i
  <2>7. InsertReady(t)
    BY <2>3, <2>5, <2>6 DEF InsertReady, VersionsOf
  <2>8. Ready(t)
    BY <1>1, <2>1, <2>5, <2>7 DEF Ready, IngestReady
  <2>9. Ready(t)'
    BY <1>3, <2>5, <2>8, ReadyNext
  <2>10. t.fresh => \A u \in Workers \ {w} : ~txn[u].fresh
    BY <2>5 DEF IInv
  <2> QED
    BY <1>3, <2>3, <2>5, <2>9, <2>10 DEF Moves
<1> QED
  BY <1>2, <1>3 DEF SelectLatest

(* Every step is one of a worker, and moves its request.                   *)
LEMMA Moved ==
  ASSUME IInv, Next
  PROVE  /\ \E w \in Workers :
              /\ \E t \in Txn : Moves(w, t) /\ Ready(t)'
              /\ contexts' = contexts \/ \A u \in Workers \ {w} : ~txn[u].fresh
         /\ clock' \in 0 .. MaxClock /\ traffic' = traffic
<1> DEFINE Goal(w) ==
      /\ \E t \in Txn : Moves(w, t) /\ Ready(t)'
      /\ contexts' = contexts \/ \A u \in Workers \ {w} : ~txn[u].fresh
      /\ clock' \in 0 .. MaxClock /\ traffic' = traffic
<1> SUFFICES ASSUME NEW w \in Workers,
               \/ \E body \in traffic : PutLink(w, body) \/ IngestVersion(w, body)
               \/ InsertContext(w)
               \/ SelectLink(w) \/ FlushLink(w)
               \/ SelectLatest(w) \/ InsertVersion(w)
               \/ Rollback(w)
             PROVE  Goal(w)
  BY DEF Next
<1>1. [Next]_vars /\ clock \in 0 .. MaxClock /\ traffic \subseteq Put \cup Ingest
  BY DEF Next, IInv, TypeOK
<1>2. ASSUME EndWithoutCommit(w) PROVE Goal(w)
  <2>1. /\ txn' = [txn EXCEPT ![w] = Idle]
        /\ UNCHANGED <<contexts, clock, traffic>>
    BY <1>2 DEF EndWithoutCommit
  <2> QED
    BY <1>1, <2>1, EndMoves
<1>3. ASSUME Commit(w), txn[w].context \in ContextIds PROVE Goal(w)
  <2>1. /\ txn' = [txn EXCEPT ![w] = Idle] /\ UNCHANGED <<clock, traffic>>
        /\ \A u \in Workers \ {w} : ~txn[u].fresh
    BY <1>3, CommittedContext DEF Commit
  <2> QED
    BY <1>1, <2>1, EndMoves
<1>4. ASSUME NEW body \in traffic, PutLink(w, body) PROVE Goal(w)
  <2>1. Accepted(body, "select_link") /\ SelectContext(w, body, "select_link")
    BY <1>1, <1>4 DEF PutLink, Accepted, PutBody, Ingest
  <2>2. \E t \in Txn : Moves(w, t) /\ Ready(t)'
    BY <2>1, SelectContextMoves
  <2>3. UNCHANGED <<contexts, clock, traffic>>
    BY <2>1 DEF SelectContext
  <2> QED
    BY <1>1, <2>2, <2>3
<1>5. ASSUME NEW body \in traffic, IngestVersion(w, body) PROVE Goal(w)
  <2> DEFINE snapshot == [body EXCEPT !.content = Form[@]]
  <2>1. body \in Ingest /\ Form[body.content] # Dropped
        /\ SelectContext(w, snapshot, "select_latest")
    BY <1>1, <1>5 DEF IngestVersion, Put
  <2>2. Form[body.content] \in Stored
    BY <2>1 DEF Form, Stored, Ingest
  <2>3. Accepted(snapshot, "select_latest")
    BY <2>1, <2>2 DEF Accepted, Ingest, Snapshot
  <2> HIDE DEF snapshot
  <2>4. \E t \in Txn : Moves(w, t) /\ Ready(t)'
    BY <2>1, <2>3, SelectContextMoves
  <2>5. UNCHANGED <<contexts, clock, traffic>>
    BY <2>1 DEF SelectContext
  <2> QED
    BY <1>1, <2>4, <2>5
<1>6. CASE InsertContext(w)
  <2>1. UNCHANGED <<contexts, clock, traffic>>
    BY <1>6 DEF InsertContext, EndWithoutCommit
  <2> QED
    BY <1>1, <1>6, <2>1, InsertContextMoves
<1>7. CASE SelectLink(w)
  BY <1>1, <1>7, SelectLinkMoves DEF SelectLink
<1>8. CASE FlushLink(w)
  BY <1>2, <1>3, <1>8, FlushedStep
<1>9. CASE SelectLatest(w)
  <2>1. CASE Commit(w)
    BY <1>3, <1>9, <2>1, ReusedStep
  <2>2. CASE ~Commit(w)
    BY <1>1, <1>9, <2>2, SelectLatestMoves DEF SelectLatest, Reuse
  <2> QED
    BY <2>1, <2>2
<1>10. CASE InsertVersion(w)
  BY <1>3, <1>10, InsertedStep
<1>11. CASE Rollback(w)
  BY <1>2, <1>11 DEF Rollback
<1> HIDE DEF Goal
<1> QED
  BY <1>4, <1>5, <1>6, <1>7, <1>8, <1>9, <1>10, <1>11

LEMMA InitIInv == Init => IInv
<1> SUFFICES ASSUME Init PROVE IInv
  OBVIOUS
<1>1. TypeOK
  BY IdleSound, TrafficAssumption, NumberAssumption DEF Init, TypeOK
<1>2. Recorded = {} /\ VersionsOf(NULL) = {}
  BY DEF Init, Recorded, VersionsOf
<1>3. OneContext /\ OwnedRows /\ ActiveLinks /\ NewestExist /\ StoredIsKept
  BY <1>2 DEF Init, OneContext, OwnedRows, ActiveLinks, NewestExist, StoredIsKept, VersionsOf
<1>4. \A w \in Workers : Ready(txn[w]) /\ ~txn[w].fresh
  BY IdleReady, IdleSound DEF Init
<1> QED
  BY <1>1, <1>3, <1>4 DEF IInv

LEMMA NextIInv == IInv /\ [Next]_vars => IInv'
<1> SUFFICES ASSUME IInv, [Next]_vars PROVE IInv'
  OBVIOUS
<1>1. /\ contexts' \subseteq ContextIds
      /\ links' \in [ContextIds -> Link \cup {NULL}]
      /\ OneContext' /\ OwnedRows' /\ ActiveLinks'
  BY RowsNext
<1>2. versions' \in [VersionIds -> Version \cup {NULL}]
  BY VersionsKept
<1>3. NewestExist' /\ StoredIsKept' /\ stored' \subseteq ResumeIds \X Stored
  BY NewestNext, StoredNext
<1>4. /\ txn' \in [Workers -> Txn] /\ clock' \in 0 .. MaxClock
      /\ traffic' \subseteq Put \cup Ingest
      /\ (\A u \in Workers : Ready(txn[u]))'
      /\ \A u, v \in Workers : txn'[u].fresh /\ txn'[v].fresh => u = v
  <2>1. CASE UNCHANGED vars
    <3>1. \A u \in Workers, r \in Txn : txn[u] = r => Ready(r)'
      BY <2>1, ReadyNext DEF IInv, vars
    <3> QED
      BY <2>1, <3>1, TxnTypes DEF vars, IInv, TypeOK
  <2>2. CASE Next
    <3>1. PICK w \in Workers :
            /\ \E t \in Txn : Moves(w, t) /\ Ready(t)'
            /\ contexts' = contexts \/ \A u \in Workers \ {w} : ~txn[u].fresh
      BY <2>2, Moved
    <3>2. PICK t \in Txn : Moves(w, t) /\ Ready(t)'
      BY <3>1
    <3>3. /\ txn' \in [Workers -> Txn] /\ txn'[w] = t
          /\ \A u \in Workers \ {w} : txn'[u] = txn[u]
      BY <3>2 DEF Moves, IInv, TypeOK
    <3>4. \A u \in Workers \ {w}, r \in Txn : txn[u] = r => Ready(r)'
      BY <3>1, ReadyNext DEF IInv
    <3>6. (\A u \in Workers : Ready(txn[u]))'
      BY <3>2, <3>3, <3>4, TxnTypes
    <3>5. \A u, v \in Workers : txn'[u].fresh /\ txn'[v].fresh => u = v
      BY <3>2, <3>3 DEF Moves, IInv
    <3> QED
      BY <2>2, <3>3, <3>5, <3>6, Moved DEF IInv, TypeOK
  <2> QED
    BY <2>1, <2>2
<1> QED
  <2>1. TypeOK'
    BY <1>1, <1>2, <1>3, <1>4 DEF TypeOK
  <2> QED
    BY <1>1, <1>3, <1>4, <2>1 DEF IInv

LEMMA Invariance == Spec => []IInv
BY InitIInv, NextIInv, PTL DEF Spec

(***************************************************************************)
(* The theorems.                                                           *)
(***************************************************************************)
(* Rows and requests have the declared shape.                              *)
THEOREM TypeCorrect == Spec => []TypeOK
<1>1. IInv => TypeOK
  BY DEF IInv
<1> QED
  BY <1>1, Invariance, PTL

(* However many first writes race, there is one profile, and every link    *)
(* and version belongs to it.                                              *)
THEOREM OneOperator == Spec => []SingleOperator
<1>1. IInv => SingleOperator
  <2> SUFFICES ASSUME IInv PROVE Cardinality(contexts) <= 1
    BY DEF IInv, OwnedRows, SingleOperator
  <2>1. CASE contexts = {}
    BY <2>1, FS_EmptySet
  <2>2. ASSUME NEW c \in contexts PROVE Cardinality(contexts) <= 1
    <3>1. contexts = {c}
      BY DEF IInv, OneContext
    <3>2. Cardinality(contexts) = 1
      BY <3>1, FS_Singleton
    <3> QED
      BY <3>2
  <2> QED
    BY <2>1, <2>2
<1> QED
  BY <1>1, Invariance, PTL

(* An active link has the time it was selected at, whatever PUTs crossed.  *)
THEOREM LinksWereSelected == Spec => []ActiveWasSelected
<1>1. IInv => ActiveWasSelected
  BY RowTypes DEF IInv, ActiveLinks, ActiveWasSelected
<1> QED
  BY <1>1, Invariance, PTL

(* What an ingest was told is stored is a version, and stays one.          *)
THEOREM StoredStays == Spec => []StoredIsKept
<1>1. IInv => StoredIsKept
  BY DEF IInv
<1> QED
  BY <1>1, Invariance, PTL

(* What a client reads from a stored version and sends back is that very   *)
(* snapshot, whatever content was first sent.                              *)
LEMMA StoredOnce ==
  ASSUME NEW snapshot \in Stored
  PROVE  Form[snapshot] = snapshot
<1>1. PICK c \in Contents : snapshot = Canonical(c) /\ Canonical(c) # Dropped
  BY DEF Stored
<1>2. \A k \in Allowlist \cap DOMAIN c : IsValue(c[k])
  BY ContentAssumption DEF IsValue
<1>3. Canonical(snapshot) = snapshot
  BY <1>1, <1>2, CanonicalOnce
<1>4. Form[snapshot] = Canonical(snapshot)
  BY DEF Form
<1> QED
  BY <1>3, <1>4

(* What ingest_resume_version has stored, normalises to itself.            *)
THEOREM StaysCanonical == Spec => []StoredIsCanonical
<1>1. IInv => StoredIsCanonical
  <2> SUFFICES ASSUME IInv, NEW i \in Recorded
               PROVE  Form[versions[i].content] = versions[i].content
    BY DEF StoredIsCanonical
  <2>1. versions[i].content \in Stored
    BY RowTypes DEF Version, Recorded
  <2> QED
    BY <2>1, StoredOnce
<1> QED
  BY <1>1, Invariance, PTL

(* A PUT whose link nobody changed since it loaded it leaves no active     *)
(* link without a resume.                                                  *)
LEMMA UncrossedFlush ==
  ASSUME IInv, [Next]_vars, NEW w \in Workers, NEW c \in ContextIds,
         links'[c] # links[c], txn'[w] # txn[w], txn[w].loaded = links[c]
  PROVE  links'[c].status = "active" => links'[c].resume # NULL
<1>1. PICK u \in Workers : FlushLink(u) /\ ~EndWithoutCommit(u)
  BY WritesNext, ReusedStep, InsertedStep
<1>2. /\ Commit(u) /\ txn[u].context \in ContextIds
      /\ \A d \in ContextIds \ {txn[u].context} : links'[d] = links[d]
      /\ txn[u].loaded = links[txn[u].context]
           /\ links'[txn[u].context].status = "active" =>
           links'[txn[u].context].resume # NULL
  BY <1>1, FlushedStep
<1>3. c = txn[u].context /\ w = u
  BY <1>2 DEF Commit, IInv, TypeOK
<1> QED
  BY <1>2, <1>3

THEOREM CrossedPutsTear == Spec => OnlyCrossedPutsTear
<1>1. IInv /\ [Next]_vars =>
        [ \A w \in Workers, c \in ContextIds :
            /\ links'[c] # links[c]
            /\ txn'[w] # txn[w]
            /\ txn[w].loaded = links[c]
            => (links'[c].status = "active" => links'[c].resume # NULL) ]_vars
  BY UncrossedFlush
<1> QED
  BY <1>1, Invariance, PTL DEF Spec, OnlyCrossedPutsTear

(* A version that takes over from one with the same content was looked up  *)
(* before that one was committed: an insert has other content than the     *)
(* newest version it has seen.                                             *)
LEMMA UnseenRepeated ==
  ASSUME IInv, [Next]_vars, NEW w \in Workers, NEW i \in VersionIds, NEW j \in VersionIds,
         versions[j] = NULL, versions'[j] # NULL, versions[i] # NULL, IsNewest(i),
         versions'[j].resume = versions[i].resume,
         versions'[j].content = versions[i].content,
         txn'[w] # txn[w]
  PROVE  i \notin txn[w].saw
<1>1. PICK u \in Workers : InsertVersion(u)
  BY WritesNext, FlushedStep, ReusedStep
<1>2. /\ Commit(u)
      /\ versions'[j].resume = txn[u].body.resume
      /\ versions'[j].content = txn[u].body.content
  BY <1>1, InsertedStep
<1>3. w = u
  BY <1>2 DEF Commit, IInv, TypeOK
<1>4. InsertReady(txn[w])
  BY <1>1, <1>3 DEF IInv, Ready, InsertVersion
<1> SUFFICES ASSUME i \in txn[w].saw PROVE FALSE
  OBVIOUS
<1>5. IsNewestOf(i, {k \in txn[w].saw : versions[k].resume = txn[w].body.resume})
  BY <1>2, <1>3, <1>4 DEF IsNewest, IsNewestOf, InsertReady
<1> QED
  BY <1>2, <1>3, <1>4, <1>5 DEF InsertReady

THEOREM NothingIsRepeated == Spec => UnchangedAddsNothing
<1>1. IInv /\ [Next]_vars =>
        [ \A w \in Workers, i \in VersionIds, j \in VersionIds :
            /\ versions[j] = NULL /\ versions'[j] # NULL
            /\ versions[i] # NULL /\ IsNewest(i) /\ IsNewest(j)'
            /\ versions'[j].resume = versions[i].resume
            /\ versions'[j].content = versions[i].content
            /\ txn'[w] # txn[w]
            => i \notin txn[w].saw ]_vars
  BY UnseenRepeated
<1> QED
  BY <1>1, Invariance, PTL DEF Spec, UnchangedAddsNothing

(***************************************************************************)
(* The current copy.                                                       *)
(***************************************************************************)
History == {i \in Recorded : ~IsNewest(i)}

(* The newest version of a resume, by the id alone.                        *)
NewestSound ==
  /\ \A x \in ResumeIds :
       /\ VersionsOf(x) = {} => Newest(x) = NULL
       /\ VersionsOf(x) # {} => IsNewestOf(Newest(x), VersionsOf(x))
       /\ \A i \in Recorded : IsNewestOf(i, VersionsOf(x)) => Newest(x) = i
       /\ \A i \in VersionsOf(x) : i \in History <=> i # Newest(x)
  /\ History \subseteq Recorded
  /\ \A i \in Recorded : versions[i].resume \in ResumeIds

LEMMA NewestSoundness == IInv => NewestSound
<1> SUFFICES ASSUME IInv PROVE NewestSound
  OBVIOUS
<1>1. \A i \in Recorded : versions[i].resume \in ResumeIds
  BY RowTypes DEF Recorded, Version
<1>2. \A x \in ResumeIds : VersionsOf(x) \subseteq Recorded
                           /\ Newest(x) = NewestOf(VersionsOf(x))
  BY DEF VersionsOf, Newest
<1>3. ASSUME NEW x \in ResumeIds, NEW i \in Recorded, IsNewestOf(i, VersionsOf(x))
      PROVE  Newest(x) = i
  BY <1>2, <1>3, NewestUnique
<1>4. ASSUME NEW i \in Recorded
      PROVE  IsNewest(i) <=> i = Newest(versions[i].resume)
  <2> DEFINE x == versions[i].resume
  <2>1. i \in VersionsOf(x) /\ x \in ResumeIds
    BY <1>1 DEF VersionsOf
  <2>2. IsNewest(i) <=> IsNewestOf(i, VersionsOf(x))
    BY <2>1 DEF IsNewest, IsNewestOf, VersionsOf
  <2> QED
    BY <1>3, <2>1, <2>2, NewestIs
<1> QED
  BY <1>1, <1>3, <1>4, NewestIs DEF NewestSound, History, VersionsOf

(* What an insert makes of the newest versions and the history.            *)
Captured(x, k) ==
  /\ k \in VersionIds \ Recorded /\ x \in ResumeIds
  /\ \A y \in ResumeIds \ {x} : Newest(y)' = Newest(y)
  /\ \/ /\ Newest(x)' = k
        /\ History' = History \cup ({Newest(x)} \ {NULL})
     \/ /\ Newest(x) # NULL /\ Newest(x)' = Newest(x)
        /\ History' = History \cup {k}

LEMMA InsertCaptures ==
  ASSUME IInv, IInv', [Next]_vars, NEW w \in Workers, InsertVersion(w)
  PROVE  \E x \in ResumeIds, k \in VersionIds : Captured(x, k)
<1>1. NewestSound /\ NewestSound'
  <2>1. IInv' => NewestSound'
    BY NewestSoundness, PTL
  <2> QED
    BY <2>1, NewestSoundness
<1>2. PICK k \in VersionIds :
        /\ versions[k] = NULL /\ versions'[k] \in Version
        /\ \A j \in VersionIds \ {k} : versions'[j] = versions[j]
  BY InsertedStep
<1>3. PICK x \in ResumeIds : x = versions'[k].resume
  BY <1>2 DEF Version
<1>4. /\ Recorded' = Recorded \cup {k} /\ k \notin Recorded
      /\ \A i \in Recorded : versions'[i] = versions[i]
  BY <1>2, NullAssumption DEF Recorded
<1>5. /\ VersionsOf(x)' = VersionsOf(x) \cup {k}
      /\ \A y \in ResumeIds \ {x} : VersionsOf(y)' = VersionsOf(y)
      /\ \A y \in ResumeIds : VersionsOf(y) \subseteq Recorded
  BY <1>3, <1>4 DEF VersionsOf
<1>6. \A y \in ResumeIds : Newest(y) # NULL => Newest(y) \in VersionsOf(y)
  BY <1>1 DEF NewestSound, IsNewestOf
<1>7. ASSUME NEW y \in ResumeIds \ {x}
      PROVE  Newest(y)' = Newest(y)
  <2>1. CASE VersionsOf(y) = {}
    BY <1>1, <1>5, <2>1 DEF NewestSound
  <2>2. CASE VersionsOf(y) # {}
    <3>1. PICK i \in Recorded : i = Newest(y) /\ IsNewestOf(i, VersionsOf(y))
      BY <1>1, <1>5, <2>2 DEF NewestSound, IsNewestOf
    <3>2. IsNewestOf(i, VersionsOf(y))' /\ i \in Recorded'
      BY <1>4, <1>5, <3>1, VersionsNext DEF IsNewestOf
    <3> QED
      BY <1>1, <3>1, <3>2 DEF NewestSound
  <2> QED
    BY <2>1, <2>2
<1>8. \/ /\ Newest(x)' = k
         /\ Newest(x) # NULL => Newest(x) # k
      \/ Newest(x) # NULL /\ Newest(x)' = Newest(x)
  <2>1. CASE VersionsOf(x) = {}
    <3>1. IsNewestOf(k, VersionsOf(x))'
      BY <1>5, <2>1 DEF IsNewestOf
    <3> QED
      BY <1>1, <1>4, <2>1, <3>1 DEF NewestSound
  <2>2. CASE VersionsOf(x) # {}
    <3>1. PICK i \in Recorded : i = Newest(x) /\ IsNewestOf(i, VersionsOf(x))
      BY <1>1, <1>5, <2>2 DEF NewestSound, IsNewestOf
    <3>2. i # k /\ i # NULL /\ i \in VersionsOf(x)
      BY <1>4, <3>1, NullAssumption DEF Recorded, IsNewestOf
    <3>3. \A j \in VersionsOf(x) \ {i} : Later(i, j)'
      BY <1>5, <3>1, VersionsNext DEF IsNewestOf
    <3>4. CASE Later(i, k)'
      <4>1. IsNewestOf(i, VersionsOf(x))'
        BY <1>5, <3>2, <3>3, <3>4 DEF IsNewestOf
      <4> QED
        BY <1>1, <1>4, <3>1, <3>2, <4>1 DEF NewestSound
    <3>5. CASE Later(k, i)'
      <4>1. \A j \in VersionsOf(x) \ {i} : Later(k, j)'
        BY <1>4, <1>5, <3>3, <3>5, VersionsNext
      <4>2. IsNewestOf(k, VersionsOf(x))'
        BY <1>5, <3>5, <4>1 DEF IsNewestOf
      <4> QED
        BY <1>1, <1>4, <3>1, <3>2, <4>2 DEF NewestSound
    <3> QED
      BY <1>4, <3>2, <3>4, <3>5, VersionsNext
  <2> QED
    BY <2>1, <2>2
<1>9. ASSUME NEW i \in Recorded
      PROVE  /\ versions[i].resume = x =>
                  (i \in History <=> i # Newest(x)) /\ (i \in History' <=> i # Newest(x)')
             /\ versions[i].resume # x => (i \in History' <=> i \in History)
  <2>1. PICK y \in ResumeIds : y = versions[i].resume
    BY <1>1 DEF NewestSound
  <2>2. i \in VersionsOf(y) /\ i \in VersionsOf(y)'
    BY <1>4, <1>9, <2>1 DEF VersionsOf
  <2>3. (i \in History <=> i # Newest(y)) /\ (i \in History' <=> i # Newest(y)')
    BY <1>1, <2>2 DEF NewestSound
  <2> QED
    BY <1>7, <2>1, <2>3
<1>10. (k \in History' <=> k # Newest(x)') /\ History' \subseteq Recorded'
  BY <1>1, <1>5 DEF NewestSound
<1>11. History \subseteq Recorded /\ k \notin Recorded
  BY <1>1, <1>4 DEF NewestSound
<1>12. CASE Newest(x)' = k
  <2>1. History' = History \cup ({Newest(x)} \ {NULL})
    <3>1. Newest(x) # NULL => Newest(x) \in Recorded /\ versions[Newest(x)].resume = x
      BY <1>5, <1>6 DEF VersionsOf
    <3>2. ASSUME NEW i \in Recorded
          PROVE  i \in History' <=> i \in History \/ (i = Newest(x) /\ i # NULL)
      BY <1>4, <1>9, <1>12, <3>1, <3>2, NullAssumption DEF Recorded
    <3>3. k \notin History'
      BY <1>10, <1>12
    <3> QED
      BY <1>4, <1>10, <1>11, <3>1, <3>2, <3>3
  <2> QED
    BY <1>4, <1>7, <1>12, <2>1 DEF Captured
<1>13. CASE Newest(x) # NULL /\ Newest(x)' = Newest(x) /\ Newest(x)' # k
  <2>1. \A i \in Recorded : i \in History' <=> i \in History
    BY <1>9, <1>13
  <2>2. History' = History \cup {k}
    BY <1>4, <1>10, <1>11, <1>13, <2>1
  <2> QED
    BY <1>4, <1>7, <1>13, <2>2 DEF Captured
<1> QED
  BY <1>8, <1>12, <1>13

(* The selected resume is one of the operator's, and only a PUT changes it. *)
SelectedTyped == Selected \in ResumeIds \cup {NULL}

LEMMA SelectedTypes == IInv => SelectedTyped
<1> SUFFICES ASSUME IInv PROVE SelectedTyped
  OBVIOUS
<1> DEFINE active == {c \in contexts : /\ links[c] # NULL
                                       /\ links[c].status = "active"
                                       /\ links[c].resume # NULL}
<1>1. Selected = IF active = {} THEN NULL ELSE links[CHOOSE c \in active : TRUE].resume
  BY DEF Selected
<1>2. \A c \in active : links[c].resume \in ResumeIds
  BY RowTypes DEF Link
<1>3. active # {} => (CHOOSE c \in active : TRUE) \in active
  OBVIOUS
<1>4. Selected \in ResumeIds \cup {NULL}
  BY <1>1, <1>2, <1>3
<1> QED
  BY <1>4 DEF SelectedTyped

ActiveContexts ==
  {c \in contexts : links[c] # NULL /\ links[c].status = "active" /\ links[c].resume # NULL}

AnyOf(S) == CHOOSE c \in S : TRUE

SelectedSound ==
  Selected = IF ActiveContexts = {} THEN NULL ELSE links[AnyOf(ActiveContexts)].resume

LEMMA SelectedIs == SelectedSound
BY DEF SelectedSound, Selected, ActiveContexts, AnyOf

LEMMA SelectedKept ==
  ASSUME IInv, [Next]_vars, links' = links
  PROVE  Selected' = Selected
<1>1. \A c \in ContextIds : links[c] # NULL => c \in contexts
  BY DEF IInv, OwnedRows
<1>2. /\ contexts \subseteq contexts' /\ contexts' \subseteq ContextIds
      /\ contexts \subseteq ContextIds
  BY RowsNext, RowTypes
<1>3. ActiveContexts' = ActiveContexts
  BY <1>1, <1>2 DEF ActiveContexts
<1>4. SelectedSound'
  BY SelectedIs, PTL
<1> QED
  BY <1>3, <1>4, SelectedIs DEF SelectedSound

LEMMA CopyStep ==
  ASSUME IInv, IInv', [Next]_vars
  PROVE  [Copy!Next]_Copy!vars
<1> DEFINE newest == [x \in ResumeIds |-> Newest(x)]
<1>1. CASE versions' = versions
  <2>1. History' = History /\ newest' = newest
    BY <1>1 DEF History, IsNewest, Newest, NewestOf, Recorded, Later
  <2>2. Selected' \in ResumeIds \cup {NULL}
    <3>1. IInv' => SelectedTyped'
      BY SelectedTypes, PTL
    <3> QED
      BY <3>1 DEF SelectedTyped
  <2>3. Copy!Select(Selected')
    BY <2>1 DEF Copy!Select, History
  <2> QED
    BY <2>2, <2>3 DEF Copy!Next
<1>2. CASE \E w \in Workers : InsertVersion(w)
  <2>1. PICK x \in ResumeIds, k \in VersionIds : Captured(x, k)
    BY <1>2, InsertCaptures
  <2>2. Selected' = Selected
    BY <1>2, SelectedKept, InsertedStep
  <2>3. \A y \in ResumeIds : Newest(y) # k
    BY <2>1, NewestSoundness, NullAssumption
       DEF Captured, NewestSound, IsNewestOf, VersionsOf
  <2>4. k \notin History
    BY <2>1 DEF Captured, History
  <2>5. CASE Newest(x)' = k /\ History' = History \cup ({Newest(x)} \ {NULL})
    <3>1. newest' = [newest EXCEPT ![x] = k]
      BY <2>1, <2>5 DEF Captured
    <3>2. newest[x] = Newest(x)
      OBVIOUS
    <3> QED
      BY <2>2, <2>3, <2>4, <2>5, <3>1, <3>2 DEF Copy!Capture, Copy!Next, History
  <2>6. CASE Newest(x) # NULL /\ Newest(x)' = Newest(x) /\ History' = History \cup {k}
    <3>1. newest' = newest /\ newest[x] # NULL
      BY <2>1, <2>6 DEF Captured
    <3> QED
      BY <2>2, <2>3, <2>4, <2>6, <3>1 DEF Copy!Capture, Copy!Next, History
  <2> QED
    BY <2>1, <2>5, <2>6 DEF Captured
<1> QED
  BY <1>1, <1>2, WritesNext, FlushedStep, ReusedStep

(* Links and versions implement the current copy: what a newer version has *)
(* replaced never comes back, whatever times clients report.               *)
THEOREM CurrentCopyImplemented == Spec => ImplementsCurrentCopy
<1>1. Init => Copy!Init
  <2> SUFFICES ASSUME Init PROVE Copy!Init
    OBVIOUS
  <2>1. Recorded = {} /\ contexts = {}
    BY DEF Init, Recorded
  <2> QED
    BY <2>1 DEF Copy!Init, Selected, Newest, NewestOf
<1>2. IInv /\ IInv' /\ [Next]_vars => [Copy!Next]_Copy!vars
  BY CopyStep
<1> QED
  BY <1>1, <1>2, Invariance, PTL DEF Spec, Copy!Spec, ImplementsCurrentCopy

(* What resume_content_meta tells consumers never falls back: a version    *)
(* that is not the newest of its resume, replaced or late when it came,    *)
(* stays so through every later PUT and ingest.                            *)
THEOREM ReplacedForGood ==
  Spec => [][ \A i \in Recorded : ~IsNewest(i) => i \in Recorded' /\ ~IsNewest(i)' ]_vars
<1>1. IInv /\ IInv' /\ [Next]_vars =>
        [ \A i \in Recorded : ~IsNewest(i) => i \in Recorded' /\ ~IsNewest(i)' ]_vars
  <2> SUFFICES ASSUME IInv, [Next]_vars, NEW i \in Recorded, ~IsNewest(i)
               PROVE  i \in Recorded' /\ ~IsNewest(i)'
    OBVIOUS
  <2>1. PICK j \in Recorded : versions[j].resume = versions[i].resume /\ j # i /\ ~Later(i, j)
    BY DEF IsNewest
  <2>2. /\ i \in Recorded' /\ j \in Recorded'
        /\ versions'[i] = versions[i] /\ versions'[j] = versions[j]
    BY VersionsKept DEF Recorded
  <2>3. ~Later(i, j)'
    BY <2>2, <2>1 DEF Later
  <2> QED
    BY <2>1, <2>2, <2>3 DEF IsNewest
<1> QED
  BY <1>1, Invariance, PTL DEF Spec

(* A request that has inserted the context and not committed it, for which *)
(* the first writes of all others wait, is past that insert and waits for  *)
(* nobody; and there is one such request at most.                          *)
HolderGoesOn ==
  /\ \A u, w \in Workers : txn[u].fresh /\ txn[w].fresh => u = w
  /\ \A u \in Workers : txn[u].fresh => txn[u].pc # "insert_context" /\ contexts = {}

(* _ensure_profile_version: first writes wait for one request, which ends  *)
(* or fails without waiting itself, so they make no cycle.                 *)
THEOREM FirstWritesWaitOnce == Spec => []HolderGoesOn
<1>1. IInv => HolderGoesOn
  BY DEF IInv, Ready, HolderGoesOn
<1> QED
  BY <1>1, Invariance, PTL

=============================================================================

-------------------------- MODULE SearchRunsProofs --------------------------
(***************************************************************************)
(* Theorems about SearchRuns, for every set of workers, runs and bodies.   *)
(***************************************************************************)
EXTENDS SearchRuns, FiniteSetTheorems, TLAPS

(***************************************************************************)
(* What the operators of the model return.                                 *)
(***************************************************************************)
(* The counters of a flush are each a column. *)
LEMMA FlushedRunType ==
  ASSUME NEW cur \in RunRow, NEW t, t.loaded \in RunRow, t.wanted \in RunRow
  PROVE  FlushedRun(cur, t) \in RunRow
<1>1. Flushed(cur.counts, t.loaded.counts, t.wanted.counts) \in [Outcomes -> Nat]
  BY DEF Flushed, RunRow
<1> QED
  BY <1>1 DEF FlushedRun, Flushed, RunRow

LEMMA FlushedProfileType ==
  ASSUME NEW cur \in ProfileRow, NEW t, t.loadedProfile \in ProfileRow,
         t.patch \in Patch, t.patch.text # Blank
  PROVE  FlushedProfile(cur, t) \in ProfileRow
  BY DEF FlushedProfile, Flushed, Patched, ProfileRow, Patch

LEMMA FinalizedType ==
  ASSUME NEW row \in RunRow, NEW f \in Finalize, NEW n \in [Outcomes -> Nat]
  PROVE  /\ Sum(n) \in Nat
         /\ Finalized(row, f, n) \in RunRow
<1>1. Sum(n) \in Nat
  BY DEF Sum, Outcomes
<1>2. TotalOf(row, f) \in Totals \cup {NULL}
  BY DEF TotalOf, RunRow, Finalize
<1>3. f.status \in Status /\ f.errorCode \in Errors \cup {NULL}
  BY DEF Finalize
<1> QED
  BY <1>1, <1>2, <1>3 DEF Finalized, RunRow

(* Tally counts finite sets with natural numbers, larger sets with no      *)
(* smaller ones.                                                           *)
LEMMA TallyMonotone ==
  ASSUME NEW T, NEW S \in SUBSET T, IsFiniteSet(T)
  PROVE  /\ Tally(S) \in [Outcomes -> Nat]
         /\ Tally(T) \in [Outcomes -> Nat]
         /\ \A o \in Outcomes : Tally(S)[o] <= Tally(T)[o]
<1> SUFFICES ASSUME NEW o \in Outcomes
             PROVE  /\ Cardinality({i \in S : i.outcome = o}) \in Nat
                    /\ Cardinality({i \in T : i.outcome = o}) \in Nat
                    /\ Cardinality({i \in S : i.outcome = o})
                         <= Cardinality({i \in T : i.outcome = o})
  BY DEF Tally
<1> DEFINE A == {i \in S : i.outcome = o}
           B == {i \in T : i.outcome = o}
<1>1. A \subseteq B /\ B \subseteq T
  OBVIOUS
<1>2. IsFiniteSet(B)
  BY <1>1, FS_Subset
<1>3. IsFiniteSet(A) /\ Cardinality(A) <= Cardinality(B)
  BY <1>1, <1>2, FS_Subset
<1> QED
  BY <1>2, <1>3, FS_CardinalityType

(***************************************************************************)
(* The inductive invariant.                                                *)
(***************************************************************************)
LEMMA InitIInv == Init => IInv
<1> SUFFICES ASSUME Init PROVE IInv
  OBVIOUS
<1>1. TypeOK
  BY DEF Init, TypeOK, Txn, Idle, Labels
<1>2. IsFiniteSet(items)
  BY FS_EmptySet DEF Init
<1>3. RunsSound /\ ItemsSound /\ CountersNeverOverstate
  BY DEF Init, RunsSound, ItemsSound, CountersNeverOverstate
<1>4. \A w \in Workers : RequestReady(txn[w])
  BY DEF Init, Idle, RequestReady
<1> QED
  BY <1>1, <1>2, <1>3, <1>4 DEF IInv

(* What a request has read stays good enough while rows are only added.    *)
LEMMA ReadyStable ==
  ASSUME NEW w \in Workers, txn'[w] = txn[w], RequestReady(txn[w]),
         \A p \in Profiles : profiles[p] # NULL => profiles'[p] # NULL,
         \A r \in Runs : runs[r] # NULL => runs'[r] # NULL,
         items \subseteq items', IsFiniteSet(items')
  PROVE  RequestReady(txn[w])'
<1> DEFINE t == txn[w]
<1>1. ASSUME PatchReady(t) PROVE PatchReady(t)'
  BY <1>1 DEF PatchReady
<1>2. ASSUME StartReady(t) PROVE StartReady(t)'
  BY <1>2 DEF StartReady
<1>3. ASSUME ItemReady(t) PROVE ItemReady(t)'
  BY <1>3 DEF ItemReady, NewItem
<1>4. ASSUME VacancyReady(t) PROVE VacancyReady(t)'
  BY <1>4 DEF VacancyReady
<1>5. ASSUME FinalizeReady(t) PROVE FinalizeReady(t)'
  BY <1>5 DEF FinalizeReady
<1>6. ASSUME ResultReady(t) PROVE ResultReady(t)'
  <2>1. PICK n \in [Outcomes -> Nat] :
          /\ t.wanted = Finalized(t.loaded, t.finalize, n)
          /\ \A o \in Outcomes : n[o] <= Tally(ItemsOf(t.run))[o]
    BY <1>6 DEF ResultReady
  <2> DEFINE S == {i \in items : i.run = t.run}
             T == {i \in items' : i.run = t.run}
  <2>2. S \subseteq T /\ T \subseteq items'
    OBVIOUS
  <2>3. IsFiniteSet(T)
    BY <2>2, FS_Subset
  <2>4. /\ Tally(S) \in [Outcomes -> Nat] /\ Tally(T) \in [Outcomes -> Nat]
        /\ \A o \in Outcomes : Tally(S)[o] <= Tally(T)[o]
    BY <2>2, <2>3, TallyMonotone
  <2>5. \A o \in Outcomes : n[o] <= Tally(T)[o]
    <3> SUFFICES ASSUME NEW o \in Outcomes PROVE n[o] <= Tally(T)[o]
      OBVIOUS
    <3>1. n[o] <= Tally(S)[o]
      BY <2>1 DEF ItemsOf
    <3>2. n[o] \in Nat /\ Tally(S)[o] \in Nat /\ Tally(T)[o] \in Nat
      BY <2>4
    <3> HIDE DEF S, T
    <3> QED BY <3>1, <3>2, <2>4
  <2> QED
    BY <2>1, <2>5 DEF ResultReady, ItemsOf
<1> QED
  BY <1>1, <1>2, <1>3, <1>4, <1>5, <1>6 DEF RequestReady

(* A step that leaves the tables alone only has to leave the requests in   *)
(* flight ready.                                                           *)
LEMMA ReadingStep ==
  ASSUME IInv, UNCHANGED <<profiles, runs, items>>,
         NEW w \in Workers, NEW t \in Txn,
         txn' = [txn EXCEPT ![w] = t], RequestReady(txn[w])'
  PROVE  IInv'
<1> USE DEF IInv
<1>1. TypeOK'
  BY DEF TypeOK
<1>2. /\ RunsSound' /\ ItemsSound' /\ CountersNeverOverstate'
      /\ IsFiniteSet(items)'
  BY DEF RunsSound, ItemsSound, CountersNeverOverstate, ItemsOf, Tally
<1>3. ASSUME NEW v \in Workers PROVE RequestReady(txn[v])'
  <2>1. CASE v = w
    BY <2>1
  <2>2. CASE v # w
    <3>1. txn'[v] = txn[v]
      BY <2>2 DEF TypeOK
    <3> QED
      BY <3>1, ReadyStable
  <2> QED BY <2>1, <2>2
<1> QED
  BY <1>1, <1>2, <1>3

LEMMA IdleType == Idle \in Txn
  BY DEF Idle, Txn, Labels

LEMMA EndKeeps ==
  ASSUME IInv, NEW w \in Workers, EndWithoutCommit(w)
  PROVE  IInv'
<1>1. txn' = [txn EXCEPT ![w] = Idle] /\ UNCHANGED <<profiles, runs, items>>
  BY DEF EndWithoutCommit
<1>2. txn'[w] = Idle
  BY <1>1 DEF IInv, TypeOK
<1>3. RequestReady(txn[w])'
  BY <1>2 DEF RequestReady, Idle
<1> QED
  BY <1>1, <1>3, IdleType, ReadingStep

(***************************************************************************)
(* One lemma for every action.                                             *)
(***************************************************************************)
LEMMA PatchSelectKeeps ==
  ASSUME IInv, NEW w \in Workers, NEW p \in Profiles, NEW b \in Patches,
         PatchSelect(w, p, b)
  PROVE  IInv'
<1> DEFINE t == [Idle EXCEPT !.pc = "patch_flush", !.profile = p,
                             !.loadedProfile = profiles[p], !.patch = b]
<1>1. b \in Patch /\ profiles[p] \in ProfileRow
  BY BodyAssumption DEF PatchSelect, IInv, TypeOK
<1>2. t \in Txn
  BY <1>1 DEF Idle, Txn, Labels
<1>3. txn' = [txn EXCEPT ![w] = t] /\ UNCHANGED <<profiles, runs, items>>
  BY DEF PatchSelect
<1>4. txn'[w] = t
  BY <1>3 DEF IInv, TypeOK
<1>5. RequestReady(txn[w])'
  BY <1>1, <1>3, <1>4 DEF PatchSelect, RequestReady, PatchReady, Idle
<1> QED
  BY <1>2, <1>3, <1>5, ReadingStep

LEMMA StartSelectKeeps ==
  ASSUME IInv, NEW w \in Workers, NEW q \in Starts, StartSelect(w, q)
  PROVE  IInv'
<1> DEFINE t == [Idle EXCEPT !.pc = "start_flush", !.wanted = NewRun(q)]
<1>1. q \in Start /\ q.profile \in Profiles \cup {NULL}
  BY BodyAssumption DEF Start
<1>2. q.kind = "profile_search" <=> q.profile # NULL
  BY DEF StartSelect, ValidStart
<1>3. /\ CriteriaSnapshot(q) \in ProfileRow \cup {NULL}
      /\ CriteriaSnapshot(q) = NULL <=> q.profile = NULL
  BY <1>1, <1>2, NullAssumption
  DEF StartSelect, CriteriaSnapshot, IInv, TypeOK
<1>4. [o \in Outcomes |-> 0] \in [Outcomes -> Nat]
  OBVIOUS
<1>5. NewRun(q) \in RunRow /\ Fresh(NewRun(q))
  BY <1>1, <1>2, <1>3, <1>4 DEF NewRun, RunRow, Fresh, Start, Kinds, Status
<1>6. t \in Txn
  BY <1>5 DEF Idle, Txn, Labels
<1>7. txn' = [txn EXCEPT ![w] = t] /\ UNCHANGED <<profiles, runs, items>>
  BY DEF StartSelect
<1>8. txn'[w] = t
  BY <1>7 DEF IInv, TypeOK
<1>9. t.pc = "start_flush" /\ t.wanted = NewRun(q)
  BY DEF Idle
<1>10. RequestReady(txn[w])'
  BY <1>5, <1>8, <1>9 DEF RequestReady, StartReady
<1> QED
  BY <1>6, <1>7, <1>10, ReadingStep

LEMMA ItemBeginKeeps ==
  ASSUME IInv, NEW w \in Workers, NEW n \in NewItems, ItemBegin(w, n)
  PROVE  IInv'
<1> DEFINE t == [Idle EXCEPT !.pc = "item_select", !.run = n.run, !.item = n]
<1>1. n \in NewItem /\ n.run \in Runs
  BY BodyAssumption DEF NewItem
<1>2. t \in Txn
  BY <1>1 DEF Idle, Txn, Labels
<1>3. txn' = [txn EXCEPT ![w] = t] /\ UNCHANGED <<profiles, runs, items>>
  BY DEF ItemBegin
<1>4. txn'[w] = t
  BY <1>3 DEF IInv, TypeOK
<1>5. t.pc = "item_select" /\ t.item = n /\ t.run = n.run
  BY DEF Idle
<1>6. RequestReady(txn[w])'
  BY <1>1, <1>3, <1>4, <1>5 DEF ItemBegin, RequestReady, ItemReady
<1> QED
  BY <1>2, <1>3, <1>6, ReadingStep

LEMMA ItemSelectKeeps ==
  ASSUME IInv, NEW w \in Workers, ItemSelect(w)
  PROVE  IInv'
<1> DEFINE n == txn[w].item
           t == [txn[w] EXCEPT !.pc = "item_flush"]
<1>1. CASE EndWithoutCommit(w)
  BY <1>1, EndKeeps
<1>2. CASE /\ n.vacancy = NULL \/ n.vacancy \in KnownVacancies
           /\ txn' = [txn EXCEPT ![w] = t]
           /\ UNCHANGED <<profiles, runs, items>>
  <2>1. txn[w] \in Txn /\ txn[w].pc = "item_select"
    BY DEF IInv, TypeOK, ItemSelect
  <2>2. t \in Txn /\ t.pc = "item_flush" /\ t.item = n /\ t.run = txn[w].run
    BY <2>1 DEF Txn, Labels
  <2>3. txn'[w] = t
    BY <1>2 DEF IInv, TypeOK
  <2>4. ItemReady(txn[w])
    BY <2>1 DEF IInv, RequestReady
  <2>5. ItemReady(txn[w])' /\ VacancyReady(txn[w])'
    BY <1>2, <2>2, <2>3, <2>4 DEF ItemReady, VacancyReady
  <2>6. RequestReady(txn[w])'
    BY <2>2, <2>3, <2>5 DEF RequestReady
  <2> QED
    BY <1>2, <2>2, <2>6, ReadingStep
<1> QED
  BY <1>1, <1>2 DEF ItemSelect

LEMMA FinalizeBeginKeeps ==
  ASSUME IInv, NEW w \in Workers, NEW r \in Runs, NEW f \in Finalizes,
         FinalizeBegin(w, r, f)
  PROVE  IInv'
<1> DEFINE t == [Idle EXCEPT !.pc = "finalize_select", !.run = r,
                             !.loaded = runs[r], !.finalize = f]
<1>1. f \in Finalize /\ f.status \in Terminal
  BY BodyAssumption DEF FinalizeBegin
<1>2. runs[r] \in RunRow
  BY DEF FinalizeBegin, IInv, TypeOK
<1>3. Fresh(runs[r])
  BY <1>2 DEF FinalizeBegin, IInv, RunsSound, Fresh, RunRow, Terminal
<1>4. t \in Txn
  BY <1>1, <1>2 DEF Idle, Txn, Labels
<1>5. txn' = [txn EXCEPT ![w] = t] /\ UNCHANGED <<profiles, runs, items>>
  BY DEF FinalizeBegin
<1>6. txn'[w] = t
  BY <1>5 DEF IInv, TypeOK
<1>7. /\ t.pc = "finalize_select" /\ t.run = r /\ t.loaded = runs[r]
      /\ t.finalize = f
  BY DEF Idle
<1>8. FinalizeReady(txn[w])'
  BY <1>1, <1>2, <1>3, <1>5, <1>6, <1>7 DEF FinalizeBegin, FinalizeReady
<1>9. RequestReady(txn[w])'
  BY <1>6, <1>7, <1>8 DEF RequestReady
<1> QED
  BY <1>4, <1>5, <1>9, ReadingStep

LEMMA FinalizeSelectKeeps ==
  ASSUME IInv, NEW w \in Workers, FinalizeSelect(w)
  PROVE  IInv'
<1> DEFINE u == txn[w]
           n == Tally(ItemsOf(u.run))
           t == [u EXCEPT !.pc = "finalize_flush",
                          !.wanted = Finalized(u.loaded, u.finalize, n)]
<1>1. u \in Txn /\ u.pc = "finalize_select" /\ FinalizeReady(u)
  BY DEF IInv, TypeOK, FinalizeSelect, RequestReady
<1>2. ItemsOf(u.run) \subseteq items /\ IsFiniteSet(items)
  BY DEF ItemsOf, IInv
<1>3. n \in [Outcomes -> Nat]
  BY <1>2, TallyMonotone
<1>4. Finalized(u.loaded, u.finalize, n) \in RunRow
  <2> HIDE DEF n
  <2> QED BY <1>1, <1>3, FinalizedType DEF FinalizeReady
<1>5. txn' = [txn EXCEPT ![w] = t] /\ UNCHANGED <<profiles, runs, items>>
  BY DEF FinalizeSelect
<1>6. /\ t \in Txn /\ t.pc = "finalize_flush" /\ t.run = u.run
      /\ t.loaded = u.loaded /\ t.finalize = u.finalize
      /\ t.wanted = Finalized(u.loaded, u.finalize, n)
  BY <1>1, <1>4 DEF Txn, Labels
<1>7. txn'[w] = t
  BY <1>5 DEF IInv, TypeOK
<1>8. FinalizeReady(txn[w])'
  BY <1>1, <1>5, <1>6, <1>7 DEF FinalizeReady
<1>9. \A o \in Outcomes : n[o] <= n[o]
  BY <1>3
<1>10. ResultReady(txn[w])'
  <2>1. ItemsOf(txn[w].run)' = ItemsOf(u.run)
    BY <1>5, <1>6, <1>7 DEF ItemsOf
  <2>2. txn'[w].wanted = Finalized(txn'[w].loaded, txn'[w].finalize, n)
    BY <1>6, <1>7
  <2>3. \A o \in Outcomes : n[o] <= Tally(ItemsOf(txn[w].run)')[o]
    BY <1>9, <2>1
  <2> QED BY <1>3, <2>2, <2>3 DEF ResultReady
<1>11. RequestReady(txn[w])'
  BY <1>6, <1>7, <1>8, <1>10 DEF RequestReady
<1> QED
  BY <1>5, <1>6, <1>11, ReadingStep

(* A step that writes rows and ends the request of w, or touches no        *)
(* request: the other requests stay ready because rows never go away.      *)
LEMMA WritingStep ==
  ASSUME IInv, TypeOK', IsFiniteSet(items'), RunsSound', ItemsSound',
         CountersNeverOverstate',
         NEW w \in Workers,
         txn' = txn \/ txn' = [txn EXCEPT ![w] = Idle],
         \A p \in Profiles : profiles[p] # NULL => profiles'[p] # NULL,
         \A r \in Runs : runs[r] # NULL => runs'[r] # NULL,
         items \subseteq items'
  PROVE  IInv'
<1>1. ASSUME NEW v \in Workers PROVE RequestReady(txn[v])'
  <2>1. CASE txn'[v] = txn[v]
    <3>1. RequestReady(txn[v])
      BY DEF IInv
    <3> QED
      BY <2>1, <3>1, ReadyStable
  <2>2. CASE txn'[v] = Idle
    BY <2>2 DEF RequestReady, Idle
  <2> QED
    BY <2>1, <2>2 DEF IInv, TypeOK
<1> QED
  BY <1>1 DEF IInv

LEMMA CreateProfileKeeps ==
  ASSUME IInv, NEW w \in Workers, NEW p \in Profiles,
         NEW text \in Texts \cup {Blank}, NEW filters \in Filters,
         CreateProfile(w, p, text, filters)
  PROVE  IInv'
<1> DEFINE row == [text |-> text, filters |-> filters]
<1>1. profiles' = [profiles EXCEPT ![p] = row] /\ UNCHANGED <<runs, items, txn>>
  BY DEF CreateProfile
<1>2. row \in ProfileRow
  BY DEF CreateProfile, ProfileRow
<1>3. TypeOK'
  BY <1>1, <1>2 DEF IInv, TypeOK
<1>4. RunsSound' /\ ItemsSound' /\ CountersNeverOverstate' /\ IsFiniteSet(items')
  BY <1>1 DEF IInv, RunsSound, ItemsSound, CountersNeverOverstate, ItemsOf
<1>5. \A x \in Profiles : profiles[x] # NULL => profiles'[x] # NULL
  BY <1>1, <1>2, NullAssumption DEF IInv, TypeOK
<1> QED
  BY <1>1, <1>3, <1>4, <1>5, WritingStep

LEMMA PatchFlushKeeps ==
  ASSUME IInv, NEW w \in Workers, PatchFlush(w)
  PROVE  IInv'
<1> DEFINE t == txn[w]
           row == FlushedProfile(profiles[t.profile], t)
<1>1. /\ profiles' = [profiles EXCEPT ![t.profile] = row]
      /\ txn' = [txn EXCEPT ![w] = Idle]
      /\ UNCHANGED <<runs, items>>
  BY DEF PatchFlush
<1>2. PatchReady(t)
  BY DEF PatchFlush, IInv, RequestReady
<1>3. row \in ProfileRow
  <2>1. profiles[t.profile] \in ProfileRow
    BY <1>2 DEF PatchReady, IInv, TypeOK
  <2> QED
    BY <1>2, <2>1, FlushedProfileType DEF PatchReady
<1>4. TypeOK'
  <2> HIDE DEF row
  <2> QED BY <1>1, <1>3, IdleType DEF IInv, TypeOK
<1>5. RunsSound' /\ ItemsSound' /\ CountersNeverOverstate' /\ IsFiniteSet(items')
  BY <1>1 DEF IInv, RunsSound, ItemsSound, CountersNeverOverstate, ItemsOf
<1>6. \A x \in Profiles : profiles[x] # NULL => profiles'[x] # NULL
  <2> HIDE DEF row
  <2> QED BY <1>1, <1>3, NullAssumption DEF IInv, TypeOK
<1> QED
  BY <1>1, <1>4, <1>5, <1>6, WritingStep

LEMMA StartFlushKeeps ==
  ASSUME IInv, NEW w \in Workers, StartFlush(w)
  PROVE  IInv'
<1> DEFINE row == txn[w].wanted
<1>1. PICK r \in Drives[w] :
        /\ runs[r] = NULL
        /\ runs' = [runs EXCEPT ![r] = row]
  BY DEF StartFlush
<1>2. txn' = [txn EXCEPT ![w] = Idle] /\ UNCHANGED <<profiles, items>>
  BY DEF StartFlush
<1>3. row \in RunRow /\ Fresh(row)
  BY DEF StartFlush, IInv, RequestReady, StartReady
<1>4. r \in Runs
  BY DrivesAssumption
<1>5. TypeOK'
  BY <1>1, <1>2, <1>3, IdleType DEF IInv, TypeOK
<1>6. \A x \in Runs : runs'[x] = IF x = r THEN row ELSE runs[x]
  BY <1>1 DEF IInv, TypeOK
<1>7. RunsSound'
  <2>1. RunsSound
    BY DEF IInv
  <2>2. /\ ~row.finished /\ row.status \notin Terminal
        /\ row.counts = [o \in Outcomes |-> 0] /\ row.found = 0
        /\ row.sourceTotal = NULL /\ row.errorCode = NULL
        /\ row.kind = "profile_search" <=> row.profile # NULL
        /\ row.criteria = NULL <=> row.profile = NULL
    BY <1>3 DEF Fresh, Terminal
  <2> QED
    BY <1>6, <2>1, <2>2 DEF RunsSound
<1>8. ItemsSound' /\ IsFiniteSet(items')
  <2>1. \A i \in items : i.run \in Runs
    BY DEF IInv, TypeOK, ItemRow
  <2> QED
    BY <1>2, <1>3, <1>6, <2>1, NullAssumption DEF IInv, ItemsSound
<1>9. CountersNeverOverstate'
  <2> SUFFICES ASSUME NEW x \in Runs, runs'[x] # NULL, NEW o \in Outcomes
               PROVE  runs'[x].counts[o] <= Tally(ItemsOf(x))[o]
    BY <1>2 DEF CountersNeverOverstate, ItemsOf
  <2>1. CASE x # r
    BY <1>6, <2>1 DEF IInv, CountersNeverOverstate
  <2>2. CASE x = r
    <3>1. runs'[x].counts[o] = 0
      BY <1>3, <1>6, <2>2 DEF Fresh
    <3>2. ItemsOf(x) \subseteq items /\ IsFiniteSet(items)
      BY DEF ItemsOf, IInv
    <3>3. Tally(ItemsOf(x)) \in [Outcomes -> Nat]
      BY <3>2, TallyMonotone
    <3>4. Tally(ItemsOf(x))[o] \in Nat
      BY <3>3
    <3> QED
      BY <3>1, <3>4
  <2> QED
    BY <2>1, <2>2
<1>10. \A x \in Runs : runs[x] # NULL => runs'[x] # NULL
  BY <1>1, <1>6
<1> QED
  BY <1>2, <1>5, <1>7, <1>8, <1>9, <1>10, WritingStep

LEMMA ItemFlushKeeps ==
  ASSUME IInv, NEW w \in Workers, ItemFlush(w)
  PROVE  IInv'
<1> DEFINE n == txn[w].item
<1>1. CASE EndWithoutCommit(w)
  BY <1>1, EndKeeps
<1>2. CASE ~ EndWithoutCommit(w)
  <2>1. PICK id \in ItemIds :
          items' = items \cup
            {[id |-> id, run |-> n.run, externalId |-> n.externalId,
              vacancy |-> n.vacancy, outcome |-> n.outcome]}
    BY <1>2 DEF ItemFlush
  <2> DEFINE new == [id |-> id, run |-> n.run, externalId |-> n.externalId,
                     vacancy |-> n.vacancy, outcome |-> n.outcome]
  <2>2. /\ ~ ViolatesConstraint(n)
        /\ txn' = [txn EXCEPT ![w] = Idle] /\ UNCHANGED <<profiles, runs>>
    BY <1>2 DEF ItemFlush
  <2>3. ItemReady(txn[w]) /\ VacancyReady(txn[w])
    BY DEF ItemFlush, IInv, RequestReady
  <2>4. new \in ItemRow
    BY <2>3 DEF ItemReady, ValidItem, NewItem, ItemRow
  <2>5. TypeOK'
    <3> HIDE DEF new
    <3> QED BY <2>1, <2>2, <2>4, IdleType DEF IInv, TypeOK, new
  <2>6. IsFiniteSet(items')
    BY <2>1, FS_AddElement DEF IInv
  <2>7. RunsSound'
    BY <2>2 DEF IInv, RunsSound
  <2>8. ItemsSound'
    <3>1. \A i \in items : ~(i.run = new.run /\ i.externalId = new.externalId)
      BY <2>2 DEF ViolatesConstraint, Duplicate, ItemsOf
    <3>2. \A i, j \in items' :
            i.run = j.run /\ i.externalId = j.externalId => i = j
      <4> HIDE DEF new
      <4> QED BY <2>1, <3>1 DEF IInv, ItemsSound, new
    <3>3. /\ runs[new.run] # NULL
          /\ new.outcome # "error" => new.vacancy # NULL
          /\ new.vacancy # NULL => new.vacancy \in KnownVacancies
      BY <2>3 DEF ItemReady, ValidItem, VacancyReady
    <3>4. \A i \in items' :
            /\ runs'[i.run] # NULL
            /\ i.outcome # "error" => i.vacancy # NULL
            /\ i.vacancy # NULL => i.vacancy \in KnownVacancies
      <4>1. \A i \in items' : i \in items \/ i = new
        BY <2>1
      <4> HIDE DEF new
      <4> QED BY <4>1, <2>2, <3>3 DEF IInv, ItemsSound
    <3> QED
      BY <3>2, <3>4 DEF ItemsSound
  <2>9. CountersNeverOverstate'
    <3> SUFFICES ASSUME NEW x \in Runs, runs[x] # NULL, NEW o \in Outcomes
                 PROVE  runs[x].counts[o] <= Tally(ItemsOf(x)')[o]
      BY <2>2 DEF CountersNeverOverstate
    <3>1. /\ ItemsOf(x) \subseteq ItemsOf(x)'
          /\ ItemsOf(x)' \subseteq items'
      BY <2>1 DEF ItemsOf
    <3>2. IsFiniteSet(ItemsOf(x)')
      BY <2>6, <3>1, FS_Subset
    <3>3. /\ Tally(ItemsOf(x)) \in [Outcomes -> Nat]
          /\ Tally(ItemsOf(x)') \in [Outcomes -> Nat]
          /\ Tally(ItemsOf(x))[o] <= Tally(ItemsOf(x)')[o]
      BY <3>1, <3>2, TallyMonotone
    <3>4. runs[x].counts[o] <= Tally(ItemsOf(x))[o]
      BY DEF IInv, CountersNeverOverstate
    <3>5. runs[x].counts[o] \in Nat
      BY DEF IInv, TypeOK, RunRow
    <3>6. Tally(ItemsOf(x))[o] \in Nat /\ Tally(ItemsOf(x)')[o] \in Nat
      BY <3>3
    <3> QED
      BY <3>3, <3>4, <3>5, <3>6
  <2> QED
    BY <2>1, <2>2, <2>5, <2>6, <2>7, <2>8, <2>9, WritingStep
<1> QED
  BY <1>1, <1>2

(* What a finalize writes over a run that may have been finalized since it *)
(* was read: every column is its own or the one that is there.             *)
LEMMA FinalizeColumns ==
  ASSUME NEW cur \in RunRow, NEW row \in RunRow, Fresh(row),
         NEW f \in Finalize, f.status \in Terminal,
         NEW n \in [Outcomes -> Nat],
         NEW t, t.loaded = row, t.wanted = Finalized(row, f, n)
  PROVE  LET new == FlushedRun(cur, t) IN
         /\ new \in RunRow
         /\ new.status = f.status /\ new.finished
         /\ new.profile = cur.profile /\ new.kind = cur.kind
         /\ new.criteria = cur.criteria
         /\ \A o \in Outcomes : new.counts[o] \in {n[o], cur.counts[o]}
<1> DEFINE want == Finalized(row, f, n)
           new == FlushedRun(cur, t)
<1>1. want \in RunRow
  BY FinalizedType
<1>2. new \in RunRow
  BY <1>1, FlushedRunType
<1>3. /\ want.status = f.status /\ want.finished = TRUE
      /\ want.profile = row.profile /\ want.kind = row.kind
      /\ want.criteria = row.criteria /\ want.counts = n
  BY DEF Finalized, RunRow
<1>4. row.status # f.status /\ row.finished = FALSE
  BY DEF Fresh, Terminal, RunRow
<1>5. new.status = f.status /\ new.finished = TRUE
  BY <1>3, <1>4 DEF FlushedRun, Flushed, RunRow
<1>6. /\ new.profile = cur.profile /\ new.kind = cur.kind
      /\ new.criteria = cur.criteria
  BY <1>3 DEF FlushedRun, Flushed, RunRow
<1>7. new.counts = Flushed(cur.counts, row.counts, n)
  BY <1>3 DEF FlushedRun, RunRow
<1>8. \A o \in Outcomes : new.counts[o] \in {n[o], cur.counts[o]}
  BY <1>7 DEF Flushed, RunRow
<1> QED
  BY <1>2, <1>5, <1>6, <1>8

LEMMA FinalizeFlushWrites ==
  ASSUME IInv, NEW w \in Workers, FinalizeFlush(w)
  PROVE  LET r == txn[w].run IN
         /\ r \in Runs /\ runs[r] \in RunRow
         /\ \A x \in Runs : x # r => runs'[x] = runs[x]
         /\ runs' \in [Runs -> RunRow \cup {NULL}]
         /\ runs'[r] \in RunRow
         /\ runs'[r].status \in Terminal /\ runs'[r].finished
         /\ runs'[r].profile = runs[r].profile /\ runs'[r].kind = runs[r].kind
         /\ runs'[r].criteria = runs[r].criteria
         /\ \A o \in Outcomes : runs'[r].counts[o] <= Tally(ItemsOf(r))[o]
<1> DEFINE t == txn[w]
           r == t.run
           new == FlushedRun(runs[r], t)
<1>1. runs' = [runs EXCEPT ![r] = new]
  BY DEF FinalizeFlush
<1>2. FinalizeReady(t) /\ ResultReady(t)
  BY DEF FinalizeFlush, IInv, RequestReady
<1>3. PICK n \in [Outcomes -> Nat] :
        /\ t.wanted = Finalized(t.loaded, t.finalize, n)
        /\ \A o \in Outcomes : n[o] <= Tally(ItemsOf(r))[o]
  BY <1>2 DEF ResultReady
<1>4. r \in Runs /\ runs[r] \in RunRow /\ runs[r] # NULL
  BY <1>2 DEF FinalizeReady, IInv, TypeOK
<1>5. /\ new \in RunRow
      /\ new.status \in Terminal /\ new.finished
      /\ new.profile = runs[r].profile /\ new.kind = runs[r].kind
      /\ new.criteria = runs[r].criteria
      /\ \A o \in Outcomes : new.counts[o] \in {n[o], runs[r].counts[o]}
  BY <1>2, <1>3, <1>4, FinalizeColumns DEF FinalizeReady
<1> HIDE DEF new
<1>6. \A o \in Outcomes : new.counts[o] <= Tally(ItemsOf(r))[o]
  <2>1. \A o \in Outcomes : runs[r].counts[o] <= Tally(ItemsOf(r))[o]
    BY <1>4 DEF IInv, CountersNeverOverstate
  <2> QED
    BY <1>3, <1>5, <2>1
<1> QED
  BY <1>1, <1>4, <1>5, <1>6 DEF IInv, TypeOK

LEMMA FinalizeFlushKeeps ==
  ASSUME IInv, NEW w \in Workers, FinalizeFlush(w)
  PROVE  IInv'
<1> DEFINE r == txn[w].run
<1>1. /\ r \in Runs /\ runs[r] \in RunRow
      /\ \A x \in Runs : x # r => runs'[x] = runs[x]
      /\ runs' \in [Runs -> RunRow \cup {NULL}]
      /\ runs'[r] \in RunRow
      /\ runs'[r].status \in Terminal /\ runs'[r].finished
      /\ runs'[r].profile = runs[r].profile /\ runs'[r].kind = runs[r].kind
      /\ runs'[r].criteria = runs[r].criteria
      /\ \A o \in Outcomes : runs'[r].counts[o] <= Tally(ItemsOf(r))[o]
  BY FinalizeFlushWrites
<1>2. txn' = [txn EXCEPT ![w] = Idle] /\ UNCHANGED <<profiles, items>>
  BY DEF FinalizeFlush
<1>3. TypeOK'
  BY <1>1, <1>2, IdleType DEF IInv, TypeOK
<1>4. runs[r] # NULL /\ runs'[r] # NULL
  BY <1>1, NullAssumption
<1>5. RunsSound'
  <2>1. RunsSound
    BY DEF IInv
  <2>2. runs'[r].status # "running"
    BY <1>1 DEF Terminal
  <2> QED
    BY <1>1, <1>4, <2>1, <2>2 DEF RunsSound
<1>6. ItemsSound' /\ IsFiniteSet(items')
  <2>1. \A i \in items : i.run \in Runs
    BY DEF IInv, TypeOK, ItemRow
  <2> QED
    BY <1>1, <1>2, <1>4, <2>1 DEF IInv, ItemsSound
<1>7. CountersNeverOverstate'
  <2> SUFFICES ASSUME NEW x \in Runs, runs'[x] # NULL, NEW o \in Outcomes
               PROVE  runs'[x].counts[o] <= Tally(ItemsOf(x))[o]
    BY <1>2 DEF CountersNeverOverstate, ItemsOf
  <2> QED
    BY <1>1 DEF IInv, CountersNeverOverstate
<1>8. \A x \in Runs : runs[x] # NULL => runs'[x] # NULL
  BY <1>1, <1>4
<1> QED
  BY <1>2, <1>3, <1>5, <1>6, <1>7, <1>8, WritingStep

LEMMA NextKeepsIInv == IInv /\ [Next]_vars => IInv'
<1> SUFFICES ASSUME IInv, [Next]_vars PROVE IInv'
  OBVIOUS
<1>1. CASE UNCHANGED vars
  <2>1. TypeOK' /\ RunsSound' /\ ItemsSound' /\ CountersNeverOverstate'
        /\ IsFiniteSet(items')
    BY <1>1 DEF vars, IInv, TypeOK, RunsSound, ItemsSound,
                CountersNeverOverstate, ItemsOf
  <2>2. ASSUME NEW v \in Workers PROVE RequestReady(txn[v])'
    <3>1. RequestReady(txn[v]) /\ txn'[v] = txn[v]
      BY <1>1 DEF vars, IInv
    <3> QED
      BY <1>1, <2>1, <3>1, ReadyStable DEF vars
  <2> QED
    BY <2>1, <2>2 DEF IInv
<1>2. ASSUME NEW w \in Workers, Accept(w) PROVE IInv'
  <2>1. CASE \E p \in Profiles, text \in Texts \cup {Blank}, filters \in Filters :
               CreateProfile(w, p, text, filters)
    BY <2>1, CreateProfileKeeps
  <2>2. CASE \E p \in Profiles, b \in Patches : PatchSelect(w, p, b)
    BY <2>2, PatchSelectKeeps
  <2>3. CASE \E q \in Starts : StartSelect(w, q)
    BY <2>3, StartSelectKeeps
  <2>4. CASE \E n \in NewItems : n.run \in Drives[w] /\ ItemBegin(w, n)
    BY <2>4, ItemBeginKeeps
  <2>5. CASE \E r \in Drives[w], f \in Finalizes : FinalizeBegin(w, r, f)
    BY <2>5, FinalizeBeginKeeps, DrivesAssumption
  <2> QED
    BY <1>2, <2>1, <2>2, <2>3, <2>4, <2>5 DEF Accept
<1>3. ASSUME NEW w \in Workers, Serve(w) PROVE IInv'
  BY <1>3, PatchFlushKeeps, StartFlushKeeps, ItemSelectKeeps, ItemFlushKeeps,
     FinalizeSelectKeeps, FinalizeFlushKeeps DEF Serve
<1>4. ASSUME NEW w \in Workers, Rollback(w) PROVE IInv'
  BY <1>4, EndKeeps DEF Rollback
<1> QED
  BY <1>1, <1>2, <1>3, <1>4 DEF Next

(***************************************************************************)
(* Theorems.                                                               *)
(***************************************************************************)
(* The invariant holds in every state, for every number of concurrent      *)
(* requests and every choice of who writes which run.                      *)
THEOREM Invariance == Spec => []IInv
  BY InitIInv, NextKeepsIInv, PTL DEF Spec

(* Tables and sessions hold what the schemas of search_runs.py allow.      *)
THEOREM TypeCorrect == Spec => []TypeOK
<1>1. IInv => TypeOK
  BY DEF IInv
<1> QED
  BY <1>1, Invariance, PTL

(* finalize_search_run leaves no half-finished run, whatever it races.     *)
THEOREM RunsAreSound == Spec => []RunsSound
<1>1. IInv => RunsSound
  BY DEF IInv
<1> QED
  BY <1>1, Invariance, PTL

(* add_search_run_item records a source id at most once per run.           *)
THEOREM ItemsAreSound == Spec => []ItemsSound
<1>1. IInv => ItemsSound
  BY DEF IInv
<1> QED
  BY <1>1, Invariance, PTL

(* The counters finalize_search_run stores never exceed the items, though  *)
(* items may be added after they were counted.                             *)
THEOREM CountersAreBounded == Spec => []CountersNeverOverstate
<1>1. IInv => CountersNeverOverstate
  BY DEF IInv
<1> QED
  BY <1>1, Invariance, PTL

(* What a run was started with and that it has ended are never lost, and   *)
(* no item goes away: an action property, from the invariant.              *)
THEOREM HistoryIsKept == Spec => HistoryKept
<1>1. IInv /\ [Next]_vars => [KeepHistory]_vars
  <2> SUFFICES ASSUME IInv, Next PROVE KeepHistory
    OBVIOUS
  <2>1. CASE UNCHANGED <<runs, items>>
    BY <2>1 DEF KeepHistory
  <2>2. ASSUME NEW w \in Workers, StartFlush(w) PROVE KeepHistory
    <3>1. \A r \in Runs : runs[r] # NULL => runs'[r] = runs[r]
      BY <2>2 DEF StartFlush, IInv, TypeOK
    <3> QED
      BY <2>2, <3>1 DEF KeepHistory, StartFlush
  <2>3. ASSUME NEW w \in Workers, ItemFlush(w) PROVE KeepHistory
    <3>1. UNCHANGED runs /\ items \subseteq items'
      BY <2>3 DEF ItemFlush, EndWithoutCommit
    <3> QED
      BY <3>1 DEF KeepHistory
  <2>4. ASSUME NEW w \in Workers, FinalizeFlush(w) PROVE KeepHistory
    <3>1. UNCHANGED items
      BY <2>4 DEF FinalizeFlush
    <3> DEFINE r == txn[w].run
    <3>2. /\ \A x \in Runs : x # r => runs'[x] = runs[x]
          /\ runs'[r] # NULL /\ runs'[r].status \in Terminal
          /\ runs'[r].profile = runs[r].profile
          /\ runs'[r].kind = runs[r].kind
          /\ runs'[r].criteria = runs[r].criteria
      BY <2>4, FinalizeFlushWrites, NullAssumption
    <3> QED
      BY <3>1, <3>2 DEF KeepHistory
  <2> QED
    BY <2>1, <2>2, <2>3, <2>4
    DEF Next, Accept, Serve, Rollback, EndWithoutCommit, CreateProfile,
        PatchSelect, StartSelect, ItemBegin, FinalizeBegin, PatchFlush,
        ItemSelect, FinalizeSelect
<1> QED
  BY <1>1, Invariance, PTL DEF Spec, HistoryKept

(* Worker w serves an item write or a finalize that has found run r to be  *)
(* running.                                                                *)
AtWork(w, r) ==
  /\ txn[w].pc \in {"item_select", "item_flush", "finalize_select", "finalize_flush"}
  /\ txn[w].run = r

(* When a run ends, no other request has found it running and is still at  *)
(* work.  Nothing is said of requests that begin later.                    *)
EndsAlone ==
  \A r \in Runs :
    /\ runs[r] # NULL /\ runs[r].status = "running"
    /\ runs'[r].status # "running"
    => \A w \in Workers : ~AtWork(w, r)'

(* Whoever is at work on a run then finds it running to the end: those who *)
(* begin after it has ended are rejected by the check of the status.       *)
WorkIsOnRunning ==
  \A w \in Workers, r \in Runs : AtWork(w, r) => runs[r].status = "running"

LEMMA BeganOnRunning ==
  ASSUME IInv, [Next]_vars, NEW w \in Workers, NEW r \in Runs, AtWork(w, r)', ~AtWork(w, r)
  PROVE  runs[r] # NULL /\ runs[r].status = "running" /\ runs' = runs
<1>1. ASSUME NEW u \in Workers, NEW t, txn' = [txn EXCEPT ![u] = t]
      PROVE  txn'[u] = t /\ \A x \in Workers \ {u} : txn'[x] = txn[x]
  BY <1>1 DEF IInv, TypeOK
<1>2. ASSUME NEW u \in Workers, txn' = [txn EXCEPT ![u] = Idle]
      PROVE  FALSE
  BY <1>1, <1>2 DEF AtWork, Idle
<1>3. ASSUME NEW u \in Workers, NEW n \in NewItems, ItemBegin(u, n)
      PROVE  runs[r] # NULL /\ runs[r].status = "running" /\ runs' = runs
  <2> DEFINE t == [Idle EXCEPT !.pc = "item_select", !.run = n.run, !.item = n]
  <2>1. txn' = [txn EXCEPT ![u] = t] /\ t.run = n.run
    BY <1>3 DEF ItemBegin, Idle
  <2> HIDE DEF t
  <2>2. u = w /\ txn'[w].run = n.run
    BY <1>1, <2>1 DEF AtWork
  <2> QED
    BY <1>3, <2>2 DEF ItemBegin, AtWork
<1>4. ASSUME NEW u \in Workers, NEW x \in Runs, NEW f \in Finalizes, FinalizeBegin(u, x, f)
      PROVE  runs[r] # NULL /\ runs[r].status = "running" /\ runs' = runs
  <2> DEFINE t == [Idle EXCEPT !.pc = "finalize_select", !.run = x,
                               !.loaded = runs[x], !.finalize = f]
  <2>1. txn' = [txn EXCEPT ![u] = t] /\ t.run = x
    BY <1>4 DEF FinalizeBegin, Idle
  <2> HIDE DEF t
  <2>2. u = w /\ txn'[w].run = x
    BY <1>1, <2>1 DEF AtWork
  <2> QED
    BY <1>4, <2>2 DEF FinalizeBegin, AtWork
<1>5. ASSUME NEW u \in Workers, NEW p \in Profiles, NEW b \in Patches, PatchSelect(u, p, b)
      PROVE  FALSE
  <2> DEFINE t == [Idle EXCEPT !.pc = "patch_flush", !.profile = p,
                               !.loadedProfile = profiles[p], !.patch = b]
  <2>1. txn' = [txn EXCEPT ![u] = t] /\ t.pc = "patch_flush"
    BY <1>5 DEF PatchSelect, Idle
  <2> HIDE DEF t
  <2> QED
    BY <1>1, <2>1 DEF AtWork
<1>6. ASSUME NEW u \in Workers, NEW q \in Starts, StartSelect(u, q)
      PROVE  FALSE
  <2> DEFINE t == [Idle EXCEPT !.pc = "start_flush", !.wanted = NewRun(q)]
  <2>1. txn' = [txn EXCEPT ![u] = t] /\ t.pc = "start_flush"
    BY <1>6 DEF StartSelect, Idle
  <2> HIDE DEF t
  <2> QED
    BY <1>1, <2>1 DEF AtWork
<1>7. ASSUME NEW u \in Workers, txn[u].pc = "item_select",
             txn' = [txn EXCEPT ![u] = [txn[u] EXCEPT !.pc = "item_flush"]]
      PROVE  FALSE
  <2> DEFINE t == [txn[u] EXCEPT !.pc = "item_flush"]
  <2>1. txn' = [txn EXCEPT ![u] = t] /\ t.run = txn[u].run
    BY <1>7 DEF IInv, TypeOK, Txn
  <2> HIDE DEF t
  <2> QED
    BY <1>1, <1>7, <2>1 DEF AtWork
<1>8. ASSUME NEW u \in Workers, FinalizeSelect(u)
      PROVE  FALSE
  <2> DEFINE new == Finalized(txn[u].loaded, txn[u].finalize, Tally(ItemsOf(txn[u].run)))
             t == [txn[u] EXCEPT !.pc = "finalize_flush", !.wanted = new]
  <2>1. txn' = [txn EXCEPT ![u] = t] /\ t.run = txn[u].run /\ txn[u].pc = "finalize_select"
    BY <1>8 DEF FinalizeSelect, IInv, TypeOK, Txn
  <2> HIDE DEF t
  <2> QED
    BY <1>1, <2>1 DEF AtWork
<1>9. CASE txn' = txn
  BY <1>9 DEF AtWork
<1>10. ASSUME NEW u \in Workers, Accept(u)
       PROVE  runs[r] # NULL /\ runs[r].status = "running" /\ runs' = runs
  <2>1. ASSUME NEW p \in Profiles, NEW text \in Texts \cup {Blank}, NEW filters \in Filters,
               CreateProfile(u, p, text, filters)
        PROVE  txn' = txn
    BY <2>1 DEF CreateProfile
  <2> QED
    BY <1>3, <1>4, <1>5, <1>6, <1>9, <1>10, <2>1, DrivesAssumption, BodyAssumption DEF Accept
<1>11. ASSUME NEW u \in Workers, Serve(u)
       PROVE  FALSE
  <2>1. CASE txn' = [txn EXCEPT ![u] = Idle]
    BY <1>2, <2>1
  <2>2. CASE txn[u].pc = "item_select" /\ txn' = [txn EXCEPT ![u] = [txn[u] EXCEPT !.pc = "item_flush"]]
    BY <1>7, <2>2
  <2>3. CASE FinalizeSelect(u)
    BY <1>8, <2>3
  <2>4. ItemFlush(u) => txn' = [txn EXCEPT ![u] = Idle]
    BY DEF ItemFlush, EndWithoutCommit
  <2>5. ItemSelect(u) =>
          \/ txn' = [txn EXCEPT ![u] = Idle]
          \/ /\ txn[u].pc = "item_select"
             /\ txn' = [txn EXCEPT ![u] = [txn[u] EXCEPT !.pc = "item_flush"]]
    BY DEF ItemSelect, EndWithoutCommit
  <2>6. PatchFlush(u) \/ StartFlush(u) \/ FinalizeFlush(u) => txn' = [txn EXCEPT ![u] = Idle]
    BY DEF PatchFlush, StartFlush, FinalizeFlush
  <2> QED
    BY <1>11, <2>1, <2>2, <2>3, <2>4, <2>5, <2>6 DEF Serve
<1>12. ASSUME NEW u \in Workers, Rollback(u)
       PROVE  FALSE
  BY <1>2, <1>12 DEF Rollback, EndWithoutCommit
<1> QED
  BY <1>9, <1>10, <1>11, <1>12 DEF Next, vars

LEMMA WorkNext ==
  ASSUME IInv, WorkIsOnRunning, [Next]_vars, EndsAlone
  PROVE  WorkIsOnRunning'
<1> SUFFICES ASSUME NEW w \in Workers, NEW r \in Runs, AtWork(w, r)'
             PROVE  runs'[r].status = "running"
  BY DEF WorkIsOnRunning, AtWork
<1>1. CASE AtWork(w, r)
  <2>1. runs[r] # NULL /\ runs[r].status = "running"
    BY <1>1 DEF WorkIsOnRunning, AtWork, IInv, RequestReady, ItemReady, FinalizeReady
  <2> QED
    BY <2>1 DEF EndsAlone
<1>2. CASE ~AtWork(w, r)
  BY <1>2, BeganOnRunning
<1> QED
  BY <1>1, <1>2

(* Only a request that another finalize overtook changes a run after it    *)
(* has ended, as the run search_runs_late shows: for clients of any        *)
(* overlap, where each run ends while nobody else is at work on it, the    *)
(* sentence of search-profile-run.md on finalized runs holds.              *)
THEOREM OnlyOvertakenTouch == Spec /\ [][EndsAlone]_vars => NothingAfterFinalize
<1>1. Init => WorkIsOnRunning
  BY DEF Init, WorkIsOnRunning, AtWork, Idle
<1>2. IInv /\ WorkIsOnRunning /\ [Next]_vars /\ [EndsAlone]_vars => WorkIsOnRunning'
  <2>1. CASE EndsAlone
    BY <2>1, WorkNext
  <2>2. CASE UNCHANGED vars
    BY <2>2 DEF vars, WorkIsOnRunning, AtWork
  <2> QED
    BY <2>1, <2>2
<1>3. IInv /\ WorkIsOnRunning /\ [Next]_vars =>
        [ \A r \in Runs : runs[r] # NULL /\ runs[r].status \in Terminal =>
            runs'[r] = runs[r] /\ ItemsOf(r)' = ItemsOf(r) ]_vars
  <2> SUFFICES ASSUME IInv, WorkIsOnRunning, Next, NEW r \in Runs,
                      runs[r] # NULL, runs[r].status \in Terminal
               PROVE  runs'[r] = runs[r] /\ ItemsOf(r)' = ItemsOf(r)
    OBVIOUS
  <2>1. runs[r].status # "running"
    BY DEF Terminal
  <2>2. ASSUME NEW w \in Workers, StartFlush(w)
        PROVE  runs'[r] = runs[r] /\ items' = items
    BY <2>2 DEF StartFlush, IInv, TypeOK
  <2>3. ASSUME NEW w \in Workers, FinalizeFlush(w)
        PROVE  runs'[r] = runs[r] /\ items' = items
    <3>1. txn[w].run # r
      BY <2>1, <2>3 DEF FinalizeFlush, WorkIsOnRunning, AtWork
    <3> QED
      BY <2>3, <3>1 DEF FinalizeFlush, IInv, TypeOK
  <2>4. ASSUME NEW w \in Workers, ItemFlush(w)
        PROVE  runs' = runs /\ ItemsOf(r)' = ItemsOf(r)
    <3>1. txn[w].item.run = txn[w].run
      BY <2>4 DEF ItemFlush, IInv, RequestReady, ItemReady
    <3>2. txn[w].item.run # r
      BY <2>1, <2>4, <3>1 DEF ItemFlush, WorkIsOnRunning, AtWork
    <3> QED
      BY <2>4, <3>2 DEF ItemFlush, EndWithoutCommit, ItemsOf
  <2>5. CASE UNCHANGED <<runs, items>>
    BY <2>5 DEF ItemsOf
  <2> QED
    BY <2>2, <2>3, <2>4, <2>5
       DEF Next, Accept, Serve, Rollback, EndWithoutCommit, CreateProfile, PatchSelect,
           StartSelect, ItemBegin, FinalizeBegin, PatchFlush, ItemSelect,
           FinalizeSelect, ItemsOf
<1> QED
  BY <1>1, <1>2, <1>3, Invariance, PTL DEF Spec, NothingAfterFinalize

(* update_search_profile never writes back a column its body leaves out.   *)
THEOREM PatchesDoCompose == Spec => PatchesCompose
<1>1. IInv /\ [Next]_vars => [ComposePatches]_vars
  <2> SUFFICES ASSUME IInv, Next PROVE ComposePatches
    OBVIOUS
  <2>1. CASE UNCHANGED profiles
    BY <2>1 DEF ComposePatches
  <2>2. ASSUME NEW w \in Workers, NEW p \in Profiles,
               NEW text \in Texts \cup {Blank}, NEW filters \in Filters,
               CreateProfile(w, p, text, filters)
        PROVE  ComposePatches
    <3>1. \A x \in Profiles : profiles[x] # NULL => profiles'[x] = profiles[x]
      BY <2>2 DEF CreateProfile, IInv, TypeOK
    <3> QED
      BY <3>1 DEF ComposePatches
  <2>3. ASSUME NEW w \in Workers, PatchFlush(w) PROVE ComposePatches
    <3> DEFINE t == txn[w]
    <3>1. /\ t.pc = "patch_flush" /\ PatchReady(t)
          /\ profiles' = [profiles EXCEPT ![t.profile] =
                            FlushedProfile(profiles[t.profile], t)]
          /\ txn'[w] = Idle
      BY <2>3 DEF PatchFlush, IInv, TypeOK, RequestReady
    <3>2. profiles[t.profile] \in ProfileRow
      BY <3>1 DEF PatchReady, IInv, TypeOK
    <3>3. \A x \in Profiles :
            profiles'[x] = IF x = t.profile
                           THEN FlushedProfile(profiles[x], t) ELSE profiles[x]
      BY <3>1 DEF IInv, TypeOK
    <3>4. \A c \in {"text", "filters"} :
            LET new == FlushedProfile(profiles[t.profile], t) IN
            new[c] # profiles[t.profile][c] => new[c] = t.patch[c]
      BY <3>2 DEF FlushedProfile, Flushed, Patched, ProfileRow
    <3>5. txn'[w].pc = "idle"
      BY <3>1 DEF Idle
    <3> QED
      BY <3>1, <3>3, <3>4, <3>5 DEF ComposePatches
  <2> QED
    BY <2>1, <2>2, <2>3
    DEF Next, Accept, Serve, Rollback, EndWithoutCommit, PatchSelect,
        StartSelect, ItemBegin, FinalizeBegin, StartFlush, ItemSelect,
        ItemFlush, FinalizeSelect, FinalizeFlush
<1> QED
  BY <1>1, Invariance, PTL DEF Spec, PatchesCompose

(***************************************************************************)
(* Clients that wait for their answers: nobody else writes the run that a  *)
(* request has read, and the handlers implement the ledger.                *)
(***************************************************************************)
LEMMA AloneStable ==
  ASSUME NEW v \in Workers, RequestAlone(v), txn'[v] = txn[v],
         \A r \in Drives[v] : runs'[r] = runs[r] /\ ItemsOf(r)' = ItemsOf(r)
  PROVE  RequestAlone(v)'
<1> DEFINE t == txn[v]
<1>1. ASSUME t.pc \in {"item_select", "item_flush"}
      PROVE  t.item.run \in Drives[v] /\ runs'[t.item.run].status = "running"
  BY <1>1 DEF RequestAlone
<1>2. ASSUME t.pc \in {"finalize_select", "finalize_flush"}
      PROVE  t.run \in Drives[v] /\ runs'[t.run] = t.loaded
  BY <1>2 DEF RequestAlone
<1>3. ASSUME t.pc = "finalize_flush"
      PROVE  t.wanted = Finalized(t.loaded, t.finalize, Tally(ItemsOf(t.run)'))
  BY <1>2, <1>3 DEF RequestAlone
<1>4. ItemsOf(txn[v].run)' = ItemsOf(t.run)'
  BY DEF ItemsOf
<1> QED
  BY <1>1, <1>2, <1>3, <1>4 DEF RequestAlone

LEMMA EndAlone ==
  ASSUME NEW v \in Workers, txn'[v] = Idle
  PROVE  RequestAlone(v)'
  BY DEF RequestAlone, Idle

(* With Serialised, a finalize writes exactly what it computed.            *)
LEMMA AloneFinalizeFlush ==
  ASSUME IInv, SerialInv, NEW w \in Workers, FinalizeFlush(w)
  PROVE  LET t == txn[w]
             n == Tally(ItemsOf(t.run))
         IN
         /\ t.run \in Runs /\ t.run \in Drives[w]
         /\ runs[t.run] \in RunRow /\ runs[t.run].status = "running"
         /\ \A x \in Runs : x # t.run => runs'[x] = runs[x]
         /\ runs'[t.run] # NULL
         /\ runs'[t.run].status = t.finalize.status
         /\ t.finalize.status \in Terminal
         /\ runs'[t.run].counts = n
         /\ runs'[t.run].found = Sum(n)
<1> DEFINE t == txn[w]
           r == t.run
           n == Tally(ItemsOf(r))
<1>1. /\ FinalizeReady(t) /\ t.pc = "finalize_flush"
      /\ runs' = [runs EXCEPT ![r] = FlushedRun(runs[r], t)]
  BY DEF FinalizeFlush, IInv, RequestReady
<1>2. r \in Drives[w] /\ runs[r] = t.loaded /\ t.wanted = Finalized(t.loaded, t.finalize, n)
  BY <1>1 DEF SerialInv, RequestAlone
<1>3. r \in Runs /\ t.loaded \in RunRow /\ t.loaded.status = "running"
      /\ t.finalize \in Finalize /\ t.finalize.status \in Terminal
  BY <1>1 DEF FinalizeReady, Fresh
<1>4. n \in [Outcomes -> Nat]
  <2>1. ItemsOf(r) \subseteq items /\ IsFiniteSet(items)
    BY DEF ItemsOf, IInv
  <2> QED
    BY <2>1, TallyMonotone
<1> HIDE DEF n
<1>5. t.wanted \in RunRow
  BY <1>2, <1>3, <1>4, FinalizedType
<1>6. /\ t.wanted.status = t.finalize.status /\ t.wanted.counts = n
      /\ t.wanted.found = Sum(n)
  BY <1>2, <1>3 DEF Finalized, RunRow
<1>7. runs'[r] = FlushedRun(t.loaded, t)
  BY <1>1, <1>2, <1>3 DEF IInv, TypeOK
<1>8. runs'[r].status = t.wanted.status /\ runs'[r].found = t.wanted.found
  BY <1>3, <1>5, <1>7 DEF FlushedRun, Flushed, RunRow
<1>9. runs'[r].counts = n
  <2>1. runs'[r].counts = Flushed(t.loaded.counts, t.loaded.counts, n)
    BY <1>3, <1>6, <1>7 DEF FlushedRun, RunRow
  <2>2. t.loaded.counts \in [Outcomes -> Nat]
    BY <1>3 DEF RunRow
  <2>3. \A o \in Outcomes : Flushed(t.loaded.counts, t.loaded.counts, n)[o] = n[o]
    BY <2>2, <1>4 DEF Flushed
  <2>4. Flushed(t.loaded.counts, t.loaded.counts, n) \in [Outcomes -> Nat]
    BY <2>2, <1>4 DEF Flushed
  <2> QED
    BY <2>1, <2>3, <2>4, <1>4
<1>10. /\ \A x \in Runs : x # r => runs'[x] = runs[x]
       /\ runs'[r] # NULL
  BY FinalizeFlushWrites, NullAssumption
<1> QED
  BY <1>2, <1>3, <1>6, <1>8, <1>9, <1>10 DEF n

LEMMA InitSerialInv == Init => SerialInv
  BY DEF Init, Idle, SerialInv, FoundIsSum, RequestAlone

(* A step of w that changes only runs of w disturbs no other request.      *)
LEMMA SerialStep ==
  ASSUME Serialised, IInv, SerialInv, NEW w \in Workers, NEW t,
         txn' = [txn EXCEPT ![w] = t],
         FoundIsSum', RequestAlone(w)',
         \A r \in Runs : r \notin Drives[w] =>
           runs'[r] = runs[r] /\ ItemsOf(r)' = ItemsOf(r)
  PROVE  SerialInv'
<1>1. ASSUME NEW v \in Workers, v # w PROVE RequestAlone(v)'
  <2>1. txn'[v] = txn[v]
    BY <1>1 DEF IInv, TypeOK
  <2>2. \A r \in Drives[v] : r \in Runs /\ r \notin Drives[w]
    BY <1>1, DrivesAssumption DEF Serialised
  <2>3. RequestAlone(v)
    BY DEF SerialInv
  <2> QED
    BY <2>1, <2>2, <2>3, AloneStable
<1> QED
  BY <1>1 DEF SerialInv

(* Steps of w that only read, or give up.                                  *)
LEMMA SerialReading ==
  ASSUME Serialised, IInv, SerialInv, NEW w \in Workers, NEW t,
         txn' = [txn EXCEPT ![w] = t], UNCHANGED <<runs, items>>,
         RequestAlone(w)'
  PROVE  SerialInv'
<1>1. FoundIsSum'
  BY DEF SerialInv, FoundIsSum
<1>2. \A r \in Runs : runs'[r] = runs[r] /\ ItemsOf(r)' = ItemsOf(r)
  BY DEF ItemsOf
<1> QED
  BY <1>1, <1>2, SerialStep

LEMMA SerialEnd ==
  ASSUME Serialised, IInv, SerialInv, NEW w \in Workers, EndWithoutCommit(w)
  PROVE  SerialInv'
<1>1. txn' = [txn EXCEPT ![w] = Idle] /\ UNCHANGED <<runs, items>>
  BY DEF EndWithoutCommit
<1>2. txn'[w] = Idle
  BY <1>1 DEF IInv, TypeOK
<1> QED
  BY <1>1, <1>2, EndAlone, SerialReading

LEMMA AcceptKeepsSerial ==
  ASSUME Serialised, IInv, SerialInv, NEW w \in Workers, Accept(w)
  PROVE  SerialInv'
<1>1. CASE \E p \in Profiles, text \in Texts \cup {Blank}, filters \in Filters :
             CreateProfile(w, p, text, filters)
  <2>1. UNCHANGED <<runs, items, txn>>
    BY <1>1 DEF CreateProfile
  <2> QED
    BY <2>1 DEF SerialInv, FoundIsSum, RequestAlone, ItemsOf
<1>2. ASSUME NEW p \in Profiles, NEW b \in Patches, PatchSelect(w, p, b)
      PROVE  SerialInv'
  <2> DEFINE t == [Idle EXCEPT !.pc = "patch_flush", !.profile = p,
                               !.loadedProfile = profiles[p], !.patch = b]
  <2>1. txn' = [txn EXCEPT ![w] = t] /\ UNCHANGED <<runs, items>>
    BY <1>2 DEF PatchSelect
  <2>2. txn'[w].pc = "patch_flush"
    BY <2>1 DEF IInv, TypeOK, Idle
  <2>3. RequestAlone(w)'
    BY <2>2 DEF RequestAlone
  <2> QED
    BY <2>1, <2>3, SerialReading
<1>3. ASSUME NEW q \in Starts, StartSelect(w, q) PROVE SerialInv'
  <2> DEFINE t == [Idle EXCEPT !.pc = "start_flush", !.wanted = NewRun(q)]
  <2>1. txn' = [txn EXCEPT ![w] = t] /\ UNCHANGED <<runs, items>>
    BY <1>3 DEF StartSelect
  <2>2. txn'[w].pc = "start_flush"
    BY <2>1 DEF IInv, TypeOK, Idle
  <2>3. RequestAlone(w)'
    BY <2>2 DEF RequestAlone
  <2> QED
    BY <2>1, <2>3, SerialReading
<1>4. ASSUME NEW n \in NewItems, n.run \in Drives[w], ItemBegin(w, n)
      PROVE  SerialInv'
  <2> DEFINE t == [Idle EXCEPT !.pc = "item_select", !.run = n.run, !.item = n]
  <2>1. txn' = [txn EXCEPT ![w] = t] /\ UNCHANGED <<runs, items>>
        /\ runs[n.run].status = "running"
    BY <1>4 DEF ItemBegin
  <2>2. txn'[w].pc = "item_select" /\ txn'[w].item = n
    BY <2>1 DEF IInv, TypeOK, Idle
  <2>3. RequestAlone(w)'
    BY <1>4, <2>1, <2>2 DEF RequestAlone
  <2> QED
    BY <2>1, <2>3, SerialReading
<1>5. ASSUME NEW r \in Drives[w], NEW f \in Finalizes, FinalizeBegin(w, r, f)
      PROVE  SerialInv'
  <2> DEFINE t == [Idle EXCEPT !.pc = "finalize_select", !.run = r,
                               !.loaded = runs[r], !.finalize = f]
  <2>1. txn' = [txn EXCEPT ![w] = t] /\ UNCHANGED <<runs, items>>
    BY <1>5 DEF FinalizeBegin
  <2>2. /\ txn'[w].pc = "finalize_select" /\ txn'[w].run = r
        /\ txn'[w].loaded = runs[r]
    BY <2>1 DEF IInv, TypeOK, Idle
  <2>3. RequestAlone(w)'
    BY <2>1, <2>2 DEF RequestAlone
  <2> QED
    BY <2>1, <2>3, SerialReading
<1> QED
  BY <1>1, <1>2, <1>3, <1>4, <1>5 DEF Accept

LEMMA ServeKeepsSerial ==
  ASSUME Serialised, IInv, SerialInv, NEW w \in Workers, Serve(w)
  PROVE  SerialInv'
<1>1. CASE PatchFlush(w)
  <2>1. txn' = [txn EXCEPT ![w] = Idle] /\ UNCHANGED <<runs, items>>
    BY <1>1 DEF PatchFlush
  <2>2. txn'[w] = Idle
    BY <2>1 DEF IInv, TypeOK
  <2> QED
    BY <2>1, <2>2, EndAlone, SerialReading
<1>2. CASE StartFlush(w)
  <2>1. PICK r \in Drives[w] :
          runs[r] = NULL /\ runs' = [runs EXCEPT ![r] = txn[w].wanted]
    BY <1>2 DEF StartFlush
  <2>2. txn' = [txn EXCEPT ![w] = Idle] /\ UNCHANGED items
    BY <1>2 DEF StartFlush
  <2>3. txn'[w] = Idle
    BY <2>2 DEF IInv, TypeOK
  <2>4. \A x \in Runs : runs'[x] = IF x = r THEN txn[w].wanted ELSE runs[x]
    BY <2>1 DEF IInv, TypeOK
  <2>5. Fresh(txn[w].wanted)
    BY <1>2 DEF StartFlush, IInv, RequestReady, StartReady
  <2>6. txn[w].wanted.found = Sum(txn[w].wanted.counts)
    BY <2>5 DEF Fresh, Sum, Outcomes
  <2>7. FoundIsSum'
    BY <2>4, <2>6 DEF SerialInv, FoundIsSum
  <2> QED
    BY <2>2, <2>3, <2>4, <2>7, EndAlone, SerialStep DEF ItemsOf
<1>3. CASE ItemSelect(w)
  <2> DEFINE t == [txn[w] EXCEPT !.pc = "item_flush"]
  <2>1. CASE EndWithoutCommit(w)
    BY <2>1, SerialEnd
  <2>2. CASE ~ EndWithoutCommit(w)
    <3>1. /\ txn' = [txn EXCEPT ![w] = t] /\ UNCHANGED <<runs, items>>
          /\ txn[w].pc = "item_select"
      BY <1>3, <2>2 DEF ItemSelect
    <3>2. txn'[w].pc = "item_flush" /\ txn'[w].item = txn[w].item
      BY <3>1 DEF IInv, TypeOK, Txn
    <3>3. RequestAlone(w)
      BY DEF SerialInv
    <3>4. RequestAlone(w)'
      BY <3>1, <3>2, <3>3 DEF RequestAlone
    <3> QED
      BY <3>1, <3>4, SerialReading
  <2> QED
    BY <2>1, <2>2
<1>4. CASE ItemFlush(w)
  <2>1. CASE EndWithoutCommit(w)
    BY <2>1, SerialEnd
  <2>2. CASE ~ EndWithoutCommit(w)
    <3> DEFINE n == txn[w].item
    <3>1. PICK id \in ItemIds :
            items' = items \cup
              {[id |-> id, run |-> n.run, externalId |-> n.externalId,
                vacancy |-> n.vacancy, outcome |-> n.outcome]}
      BY <1>4, <2>2 DEF ItemFlush
    <3>2. txn' = [txn EXCEPT ![w] = Idle] /\ UNCHANGED runs
      BY <1>4, <2>2 DEF ItemFlush
    <3>3. txn'[w] = Idle
      BY <3>2 DEF IInv, TypeOK
    <3>4. n.run \in Drives[w]
      BY <1>4 DEF ItemFlush, SerialInv, RequestAlone
    <3>5. \A r \in Runs : r \notin Drives[w] => ItemsOf(r)' = ItemsOf(r)
      BY <3>1, <3>4 DEF ItemsOf
    <3>6. FoundIsSum'
      BY <3>2 DEF SerialInv, FoundIsSum
    <3> QED
      BY <3>2, <3>3, <3>5, <3>6, EndAlone, SerialStep
  <2> QED
    BY <2>1, <2>2
<1>5. CASE FinalizeSelect(w)
  <2> DEFINE u == txn[w]
             t == [u EXCEPT !.pc = "finalize_flush",
                     !.wanted = Finalized(u.loaded, u.finalize,
                                          Tally(ItemsOf(u.run)))]
  <2>1. /\ txn' = [txn EXCEPT ![w] = t] /\ UNCHANGED <<runs, items>>
        /\ u.pc = "finalize_select"
    BY <1>5 DEF FinalizeSelect
  <2>2. /\ txn'[w].pc = "finalize_flush" /\ txn'[w].run = u.run
        /\ txn'[w].loaded = u.loaded /\ txn'[w].finalize = u.finalize
        /\ txn'[w].wanted = Finalized(u.loaded, u.finalize,
                                      Tally(ItemsOf(u.run)))
    BY <2>1 DEF IInv, TypeOK, Txn
  <2>3. u.run \in Drives[w] /\ runs[u.run] = u.loaded
    BY <2>1 DEF SerialInv, RequestAlone
  <2>4. ItemsOf(txn[w].run)' = ItemsOf(u.run)
    BY <2>1, <2>2 DEF ItemsOf
  <2>5. RequestAlone(w)'
    BY <2>1, <2>2, <2>3, <2>4 DEF RequestAlone
  <2> QED
    BY <2>1, <2>5, SerialReading
<1>6. CASE FinalizeFlush(w)
  <2> DEFINE r == txn[w].run
             n == Tally(ItemsOf(r))
  <2>1. /\ r \in Drives[w]
        /\ \A x \in Runs : x # r => runs'[x] = runs[x]
        /\ runs'[r].found = Sum(n) /\ runs'[r].counts = n
    BY <1>6, AloneFinalizeFlush
  <2>2. txn' = [txn EXCEPT ![w] = Idle] /\ UNCHANGED items
    BY <1>6 DEF FinalizeFlush
  <2>3. txn'[w] = Idle
    BY <2>2 DEF IInv, TypeOK
  <2>4. FoundIsSum'
    <3> HIDE DEF n
    <3> QED BY <2>1 DEF SerialInv, FoundIsSum
  <2> QED
    BY <2>1, <2>2, <2>3, <2>4, EndAlone, SerialStep DEF ItemsOf
<1> QED
  BY <1>1, <1>2, <1>3, <1>4, <1>5, <1>6 DEF Serve

LEMMA NextKeepsSerial ==
  ASSUME Serialised
  PROVE  IInv /\ SerialInv /\ [Next]_vars => SerialInv'
<1> SUFFICES ASSUME IInv, SerialInv, [Next]_vars PROVE SerialInv'
  OBVIOUS
<1>1. CASE UNCHANGED vars
  BY <1>1 DEF vars, SerialInv, FoundIsSum, RequestAlone, ItemsOf
<1>2. ASSUME NEW w \in Workers, Rollback(w) PROVE SerialInv'
  BY <1>2, SerialEnd DEF Rollback
<1> QED
  BY <1>1, <1>2, AcceptKeepsSerial, ServeKeepsSerial DEF Next

(* What a step that changes neither table shows the ledger: nothing.       *)
LEMMA LedgerStutter ==
  ASSUME UNCHANGED <<runs, items>>
  PROVE  UNCHANGED Ledger!vars
  BY DEF Ledger!vars, LedgerStatus, LedgerEntries, LedgerResult, ItemsOf

LEMMA StartFlushOpens ==
  ASSUME IInv, NEW w \in Workers, StartFlush(w)
  PROVE  Ledger!Next
<1> DEFINE row == txn[w].wanted
<1>1. PICK r \in Drives[w] :
        runs[r] = NULL /\ runs' = [runs EXCEPT ![r] = row]
  BY DEF StartFlush
<1>2. r \in Runs /\ UNCHANGED items
  BY DrivesAssumption DEF StartFlush
<1>3. row \in RunRow /\ row.status = "running" /\ row # NULL
  BY NullAssumption DEF StartFlush, IInv, RequestReady, StartReady, Fresh
<1>4. \A x \in Runs : runs'[x] = IF x = r THEN row ELSE runs[x]
  BY <1>1 DEF IInv, TypeOK
<1>5. LedgerStatus[r] = NULL
  BY <1>1, <1>2 DEF LedgerStatus
<1>6. LedgerStatus' = [LedgerStatus EXCEPT ![r] = "running"]
  BY <1>2, <1>3, <1>4 DEF LedgerStatus
<1>7. UNCHANGED <<LedgerEntries, LedgerResult>>
  BY <1>1, <1>2, <1>3, <1>4 DEF LedgerEntries, LedgerResult, ItemsOf
<1> QED
  BY <1>2, <1>5, <1>6, <1>7 DEF Ledger!Next, Ledger!Open

LEMMA ItemFlushRecords ==
  ASSUME IInv, SerialInv, NEW w \in Workers, ItemFlush(w)
  PROVE  [Ledger!Next]_(Ledger!vars)
<1>1. CASE EndWithoutCommit(w)
  BY <1>1, LedgerStutter DEF EndWithoutCommit
<1>2. CASE ~ EndWithoutCommit(w)
  <2> DEFINE n == txn[w].item
             r == n.run
  <2>1. PICK id \in ItemIds :
          items' = items \cup
            {[id |-> id, run |-> n.run, externalId |-> n.externalId,
              vacancy |-> n.vacancy, outcome |-> n.outcome]}
    BY <1>2 DEF ItemFlush
  <2> DEFINE new == [id |-> id, run |-> n.run, externalId |-> n.externalId,
                     vacancy |-> n.vacancy, outcome |-> n.outcome]
  <2>2. UNCHANGED runs /\ ~ ViolatesConstraint(n)
    BY <1>2 DEF ItemFlush
  <2>3. ItemReady(txn[w]) /\ runs[r].status = "running"
    BY DEF ItemFlush, IInv, RequestReady, SerialInv, RequestAlone
  <2>4. r \in Runs /\ runs[r] # NULL /\ new \in ItemRow /\ new.run = r
    BY <2>3 DEF ItemReady, ValidItem, NewItem, ItemRow
  <2>5. LedgerStatus[r] = "running"
    BY <2>3, <2>4 DEF LedgerStatus
  <2>6. \A f \in LedgerEntries[r] : f.externalId # new.externalId
    BY <2>2, <2>4 DEF LedgerEntries, ViolatesConstraint, Duplicate
  <2>7. LedgerEntries' = [LedgerEntries EXCEPT ![r] = @ \cup {new}]
    <3>1. items' = items \cup {new}
      BY <2>1
    <3> HIDE DEF new
    <3>2. \A x \in Runs :
            ItemsOf(x)' = IF x = r THEN ItemsOf(x) \cup {new} ELSE ItemsOf(x)
      BY <2>4, <3>1 DEF ItemsOf
    <3> QED
      BY <2>4, <3>2 DEF LedgerEntries
  <2>8. UNCHANGED <<LedgerStatus, LedgerResult>>
    BY <2>2 DEF LedgerStatus, LedgerResult
  <2>9. Ledger!Record(r, new)
    BY <2>5, <2>6, <2>7, <2>8 DEF Ledger!Record
  <2> HIDE DEF new, r
  <2> QED
    BY <2>4, <2>9 DEF Ledger!Next
<1> QED
  BY <1>1, <1>2

LEMMA FinalizeFlushCloses ==
  ASSUME IInv, SerialInv, NEW w \in Workers, FinalizeFlush(w)
  PROVE  Ledger!Next
<1> DEFINE t == txn[w]
           r == t.run
           s == t.finalize.status
           n == Tally(ItemsOf(r))
<1>1. /\ r \in Runs
      /\ runs[r] \in RunRow /\ runs[r].status = "running"
      /\ \A x \in Runs : x # r => runs'[x] = runs[x]
      /\ runs'[r] # NULL /\ runs'[r].status = s /\ s \in Terminal
      /\ runs'[r].counts = n /\ runs'[r].found = Sum(n)
  BY AloneFinalizeFlush
<1>2. UNCHANGED items /\ runs[r] # NULL
  BY <1>1, NullAssumption DEF FinalizeFlush
<1>3. LedgerStatus[r] = "running"
  BY <1>1, <1>2 DEF LedgerStatus
<1>4. LedgerStatus' = [LedgerStatus EXCEPT ![r] = s]
  BY <1>1, <1>2 DEF LedgerStatus
<1>5. UNCHANGED LedgerEntries
  BY <1>2 DEF LedgerEntries, ItemsOf
<1>6. n = Ledger!CountOf(LedgerEntries[r])
  <2>1. ASSUME NEW S PROVE Ledger!Cardinality(S) = Cardinality(S)
    BY Zenon DEF Ledger!Cardinality, Cardinality
  <2>2. LedgerEntries[r] = ItemsOf(r)
    BY <1>1 DEF LedgerEntries
  <2> QED
    BY <2>1, <2>2 DEF Ledger!CountOf, Tally
<1>7. s # "running"
  BY <1>1 DEF Terminal
<1>8. LedgerResult' =
        [LedgerResult EXCEPT ![r] =
           [counts |-> n, found |-> n["created"] + n["updated"]
                                    + n["unchanged"] + n["error"]]]
  <2> HIDE DEF n
  <2> QED BY <1>1, <1>7 DEF LedgerResult, Sum
<1>9. Ledger!Close(r, s)
  <2> HIDE DEF n
  <2> QED BY <1>3, <1>4, <1>5, <1>6, <1>8 DEF Ledger!Close
<1> QED
  BY <1>1, <1>9 DEF Ledger!Next

(* search-profile-run.md, "After finalize, item writes and repeated        *)
(* finalize are rejected", for clients that wait for their answers: the    *)
(* handlers implement RunLedger.                                           *)
THEOREM HandlersImplementLedger ==
  ASSUME Serialised
  PROVE  Spec => ImplementsLedger
<1>1. Init => Ledger!Init
  BY DEF Init, Ledger!Init, LedgerStatus, LedgerEntries, LedgerResult, ItemsOf
<1>2. IInv /\ SerialInv /\ [Next]_vars => [Ledger!Next]_(Ledger!vars)
  <2> SUFFICES ASSUME IInv, SerialInv, [Next]_vars
               PROVE  [Ledger!Next]_(Ledger!vars)
    OBVIOUS
  <2>1. CASE UNCHANGED <<runs, items>>
    BY <2>1, LedgerStutter
  <2>2. ASSUME NEW w \in Workers, StartFlush(w)
        PROVE  [Ledger!Next]_(Ledger!vars)
    BY <2>2, StartFlushOpens
  <2>3. ASSUME NEW w \in Workers, ItemFlush(w)
        PROVE  [Ledger!Next]_(Ledger!vars)
    BY <2>3, ItemFlushRecords
  <2>4. ASSUME NEW w \in Workers, FinalizeFlush(w)
        PROVE  [Ledger!Next]_(Ledger!vars)
    BY <2>4, FinalizeFlushCloses
  <2> QED
    BY <2>1, <2>2, <2>3, <2>4
    DEF vars, Next, Accept, Serve, Rollback, EndWithoutCommit, CreateProfile,
        PatchSelect, StartSelect, ItemBegin, FinalizeBegin, PatchFlush,
        ItemSelect, FinalizeSelect
<1> QED
  BY <1>1, <1>2, Invariance, InitSerialInv, NextKeepsSerial, PTL
  DEF Spec, ImplementsLedger, Ledger!Spec

=============================================================================

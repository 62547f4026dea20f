------------------------ MODULE ResumeSnapshotProofs ------------------------
(***************************************************************************)
(* Normalising a snapshot once more changes nothing, whatever it holds.    *)
(***************************************************************************)
EXTENDS ResumeSnapshot, FiniteSetTheorems, FunctionTheorems, TLAPS

(* A function as all there is to say of it.                                *)
IsFunction(f) == f = [x \in DOMAIN f |-> f[x]]

(***************************************************************************)
(* Places.                                                                 *)
(***************************************************************************)
UpTo(places, n) == {m \in places : m <= n}

LEMMA FinitePlaces ==
  ASSUME NEW N \in Nat, NEW places \in SUBSET (1 .. N)
  PROVE  IsFiniteSet(places) /\ Cardinality(places) \in Nat
<1>1. IsFiniteSet(1 .. N)
  BY FS_Interval
<1>2. IsFiniteSet(places)
  BY <1>1, FS_Subset
<1> QED
  BY <1>2, FS_CardinalityType

LEMMA UpToGrows ==
  ASSUME NEW N \in Nat, NEW places \in SUBSET (1 .. N), NEW n \in places
  PROVE  /\ Cardinality(UpTo(places, n)) \in 1 .. Cardinality(places)
         /\ \A m \in places :
              m < n => Cardinality(UpTo(places, m)) < Cardinality(UpTo(places, n))
<1>1. IsFiniteSet(places) /\ Cardinality(places) \in Nat
  BY FinitePlaces
<1>2. \A x : UpTo(places, x) \in SUBSET places
  BY DEF UpTo
<1>3. \A x : IsFiniteSet(UpTo(places, x)) /\ Cardinality(UpTo(places, x)) \in Nat
  BY <1>1, <1>2, FS_Subset, FS_CardinalityType
<1>4. Cardinality(UpTo(places, n)) <= Cardinality(places)
  BY <1>1, <1>2, FS_Subset
<1>5. n \in UpTo(places, n)
  BY DEF UpTo
<1>6. Cardinality(UpTo(places, n)) # 0
  BY <1>3, <1>5, FS_EmptySet
<1>7. ASSUME NEW m \in places, m < n
      PROVE  Cardinality(UpTo(places, m)) < Cardinality(UpTo(places, n))
  <2>1. \A x \in places : x <= m => x <= n
    BY <1>7
  <2>2. ~(n <= m)
    BY <1>7
  <2>3. UpTo(places, m) \in SUBSET UpTo(places, n) /\ n \notin UpTo(places, m)
    BY <2>1, <2>2 DEF UpTo
  <2>4. UpTo(places, m) # UpTo(places, n)
    BY <2>3, <1>5
  <2> QED
    BY <1>3, <2>3, <2>4, FS_Subset
<1> QED
  BY <1>1, <1>3, <1>4, <1>6, <1>7

(* There is a k-th smallest place, and it is one for a single k.           *)
LEMMA NthPlace ==
  ASSUME NEW N \in Nat, NEW places \in SUBSET (1 .. N),
         NEW k \in 1 .. Cardinality(places)
  PROVE  /\ Nth(places, k) \in places
         /\ Cardinality(UpTo(places, Nth(places, k))) = k
<1> DEFINE ranks == 1 .. Cardinality(places)
           rank  == [n \in places |-> Cardinality(UpTo(places, n))]
<1>1. IsFiniteSet(places) /\ Cardinality(places) \in Nat
  BY FinitePlaces
<1>2. IsFiniteSet(ranks) /\ Cardinality(ranks) = Cardinality(places)
  BY <1>1, FS_Interval
<1>3. rank \in [places -> ranks]
  BY UpToGrows
<1>4. \A m, n \in places : rank[m] = rank[n] => m = n
  <2> SUFFICES ASSUME NEW m \in places, NEW n \in places, rank[m] = rank[n]
               PROVE  m = n
    OBVIOUS
  <2>1. m \in Nat /\ n \in Nat
    OBVIOUS
  <2>2. Cardinality(UpTo(places, m)) = Cardinality(UpTo(places, n))
    OBVIOUS
  <2> HIDE DEF rank
  <2>3. Cardinality(UpTo(places, m)) \in 1 .. Cardinality(places)
    BY UpToGrows
  <2>4. Cardinality(UpTo(places, m)) \in Nat
    BY <1>1, <2>3
  <2>5. m < n => Cardinality(UpTo(places, m)) < Cardinality(UpTo(places, n))
    BY UpToGrows
  <2>6. n < m => Cardinality(UpTo(places, n)) < Cardinality(UpTo(places, m))
    BY UpToGrows
  <2>7. ~(m < n) /\ ~(n < m)
    BY <2>2, <2>4, <2>5, <2>6
  <2> QED
    BY <2>1, <2>7
<1> HIDE DEF ranks, rank
<1>5. rank \in Injection(places, ranks)
  BY <1>3, <1>4, Fun_IsInj
<1>6. rank \in Surjection(places, ranks)
  BY <1>2, <1>5, FS_Injection
<1>7. \A r \in ranks : \E n \in places : rank[n] = r
  BY <1>6, Fun_SurjectionProperties
<1>8. \E n \in places : Cardinality(UpTo(places, n)) = k
  BY <1>7 DEF rank, ranks
<1> QED
  BY <1>8 DEF Nth, UpTo

LEMMA AllPlaces ==
  ASSUME NEW N \in Nat, NEW k \in 1 .. N
  PROVE  Cardinality(1 .. N) = N /\ Nth(1 .. N, k) = k
<1>1. \A x \in 0 .. N : UpTo(1 .. N, x) = 1 .. x
  BY DEF UpTo
<1>2. \A x \in 0 .. N : Cardinality(1 .. x) = x
  BY FS_Interval
<1>3. Cardinality(1 .. N) = N
  BY <1>2
<1>4. Nth(1 .. N, k) \in 1 .. N /\ Cardinality(UpTo(1 .. N, Nth(1 .. N, k))) = k
  BY <1>3, NthPlace
<1> QED
  BY <1>1, <1>2, <1>3, <1>4

(***************************************************************************)
(* Lists.                                                                  *)
(***************************************************************************)
LEMMA SublistItems ==
  ASSUME NEW N \in Nat, NEW places \in SUBSET (1 .. N), NEW items
  PROVE  LET sub == Sublist(items, places) IN
         /\ IsFunction(sub)
         /\ DOMAIN sub = 1 .. Cardinality(places) /\ Cardinality(places) \in Nat
         /\ \A k \in DOMAIN sub :
              /\ Nth(places, k) \in places /\ sub[k] = items[Nth(places, k)]
              /\ \A j \in DOMAIN sub : j # k => Nth(places, j) # Nth(places, k)
<1> DEFINE sub == Sublist(items, places)
<1>1. IsFunction(sub) /\ DOMAIN sub = 1 .. Cardinality(places)
  BY DEF Sublist, IsFunction
<1>2. Cardinality(places) \in Nat
  BY FinitePlaces
<1>3. ASSUME NEW k \in DOMAIN sub
      PROVE  /\ Nth(places, k) \in places /\ sub[k] = items[Nth(places, k)]
             /\ Cardinality(UpTo(places, Nth(places, k))) = k
  <2>1. k \in 1 .. Cardinality(places)
    BY <1>1, <1>3
  <2>2. sub[k] = items[Nth(places, k)]
    BY <2>1 DEF Sublist
  <2> QED
    BY <2>1, <2>2, NthPlace
<1> HIDE DEF sub
<1>4. ASSUME NEW j \in DOMAIN sub, NEW k \in DOMAIN sub, Nth(places, j) = Nth(places, k)
      PROVE  j = k
  BY <1>3, <1>4
<1> QED
  BY <1>1, <1>2, <1>3, <1>4 DEF sub

LEMMA WholeList ==
  ASSUME NEW N \in Nat, NEW items, DOMAIN items = 1 .. N, IsFunction(items)
  PROVE  Sublist(items, 1 .. N) = items
<1>1. Cardinality(1 .. N) = N
  BY FS_Interval
<1>2. \A k \in 1 .. N : Nth(1 .. N, k) = k
  BY AllPlaces
<1> QED
  BY <1>1, <1>2 DEF Sublist, IsFunction

(* A list that cleaning leaves as it is.                                   *)
LEMMA KeptWhole ==
  ASSUME NEW N \in Nat \ {0}, NEW items, DOMAIN items = 1 .. N, IsFunction(items),
         \A n \in 1 .. N : items[n] # Dropped
  PROVE  KeptAt(items, 1 .. N) = List(items)
<1>1. {n \in 1 .. N : items[n] # Dropped} = 1 .. N
  OBVIOUS
<1>2. 1 \in 1 .. N
  OBVIOUS
<1> QED
  BY <1>1, <1>2, WholeList DEF KeptAt

(* A list of items of another one, each taken once and none of them dropped. *)
IsPart(sub, items, kept, size) ==
  /\ IsFunction(sub) /\ DOMAIN sub = 1 .. size
  /\ \A k \in 1 .. size :
       /\ Nth(kept, k) \in kept
       /\ sub[k] = items[Nth(kept, k)] /\ sub[k] # Dropped
       /\ \A j \in 1 .. size : j # k => Nth(kept, j) # Nth(kept, k)

(* What is left of a list is such a list.                                  *)
LEMMA KeptPart ==
  ASSUME NEW N \in Nat, NEW places \in SUBSET (1 .. N), NEW items,
         KeptAt(items, places) # Dropped
  PROVE  \E kept \in SUBSET places, size \in Nat \ {0} :
           /\ KeptAt(items, places) = List(Sublist(items, kept))
           /\ IsPart(Sublist(items, kept), items, kept, size)
<1> DEFINE kept == {n \in places : items[n] # Dropped}
           sub  == Sublist(items, kept)
<1>1. kept # {} /\ KeptAt(items, places) = List(sub)
  BY DEF KeptAt
<1>2. kept \in SUBSET (1 .. N) /\ kept \in SUBSET places
  OBVIOUS
<1>3. \A n \in kept : items[n] # Dropped
  OBVIOUS
<1>4. IsFiniteSet(kept)
  BY <1>2, FinitePlaces
<1>5. Cardinality(kept) \in Nat \ {0}
  BY <1>1, <1>4, FS_EmptySet, FS_CardinalityType
<1> HIDE DEF kept
<1>6. /\ IsFunction(sub) /\ DOMAIN sub = 1 .. Cardinality(kept)
      /\ \A k \in DOMAIN sub :
           /\ Nth(kept, k) \in kept /\ sub[k] = items[Nth(kept, k)]
           /\ \A j \in DOMAIN sub : j # k => Nth(kept, j) # Nth(kept, k)
  BY <1>2, SublistItems
<1> HIDE DEF sub
<1>7. \A k \in DOMAIN sub : sub[k] # Dropped
  BY <1>3, <1>6
<1>8. IsPart(sub, items, kept, Cardinality(kept))
  BY <1>6, <1>7 DEF IsPart
<1> QED
  BY <1>1, <1>2, <1>5, <1>8 DEF sub

(***************************************************************************)
(* Values.                                                                 *)
(***************************************************************************)
LEMMA StringOnce ==
  ASSUME NEW v, CleanStr(v) # Dropped
  PROVE  CleanStr(CleanStr(v)) = CleanStr(v)
BY DEF CleanStr, Text

LEMMA FieldOnce ==
  ASSUME NEW v, NEW key, CleanField(key, v) # Dropped
  PROVE  CleanField(key, CleanField(key, v)) = CleanField(key, v)
BY StringOnce DEF CleanField

LEMMA KeptFields ==
  ASSUME NEW fields
  PROVE  /\ IsFunction(Kept(fields))
         /\ DOMAIN Kept(fields) = {k \in DOMAIN fields : fields[k] # Dropped}
         /\ \A k \in DOMAIN Kept(fields) : Kept(fields)[k] = fields[k]
BY DEF Kept, IsFunction

(* Fields of which cleaning drops none.                                    *)
LEMMA KeptAll ==
  ASSUME NEW fields, IsFunction(fields), \A k \in DOMAIN fields : fields[k] # Dropped
  PROVE  Kept(fields) = fields
<1>1. {k \in DOMAIN fields : fields[k] # Dropped} = DOMAIN fields
  OBVIOUS
<1> QED
  BY <1>1 DEF Kept, IsFunction

LEMMA ObjectOnce ==
  ASSUME NEW v, NEW keys, CleanObject(v, keys) # Dropped
  PROVE  CleanObject(CleanObject(v, keys), keys) = CleanObject(v, keys)
<1> DEFINE all    == [k \in keys \cap DOMAIN v.fields |-> CleanField(k, v.fields[k])]
           fields == Kept(all)
<1>1. DOMAIN fields # {} /\ CleanObject(v, keys) = Object(fields)
  BY DEF CleanObject
<1>2. /\ IsFunction(fields)
      /\ DOMAIN fields = {k \in DOMAIN all : all[k] # Dropped}
      /\ \A k \in DOMAIN fields : fields[k] = all[k]
  BY KeptFields
<1>3. \A k \in DOMAIN fields : /\ k \in keys
                               /\ fields[k] = CleanField(k, v.fields[k])
                               /\ fields[k] # Dropped
  BY <1>2
<1> HIDE DEF fields
<1>4. \A k \in DOMAIN fields : CleanField(k, fields[k]) = fields[k]
  BY <1>3, FieldOnce
<1>5. keys \cap DOMAIN fields = DOMAIN fields
  BY <1>3
<1>6. [k \in keys \cap DOMAIN fields |-> CleanField(k, fields[k])] = fields
  BY <1>2, <1>4, <1>5 DEF IsFunction
<1>7. Kept(fields) = fields
  BY <1>2, <1>3, KeptAll
<1>8. Object(fields).kind = "object" /\ Object(fields).fields = fields
  BY DEF Object
<1>9. CleanObject(Object(fields), keys) = Object(fields)
  BY <1>1, <1>6, <1>7, <1>8 DEF CleanObject
<1> QED
  BY <1>1, <1>9

(* What JSON promises of an array, when the value is one.                  *)
IsValue(v) ==
  v.kind = "list" =>
    LET places == DOMAIN v.items IN
    IsFiniteSet(places) /\ places = 1 .. Cardinality(places)

LEMMA ListOnce ==
  ASSUME NEW v, IsValue(v), NEW keys, NormalizedList(v, keys) # Dropped
  PROVE  NormalizedList(NormalizedList(v, keys), keys) = NormalizedList(v, keys)
<1> DEFINE cleaned == [n \in DOMAIN v.items |-> CleanObject(v.items[n], keys)]
<1>1. v.kind = "list" /\ NormalizedList(v, keys) = KeptAt(cleaned, DOMAIN v.items)
  BY DEF NormalizedList
<1>2. PICK N \in Nat : DOMAIN v.items = 1 .. N
  BY <1>1, FS_CardinalityType DEF IsValue
<1>3. \A n \in 1 .. N : cleaned[n] = CleanObject(v.items[n], keys)
  BY <1>2
<1> HIDE DEF cleaned
<1>4. KeptAt(cleaned, 1 .. N) # Dropped /\ (1 .. N) \in SUBSET (1 .. N)
  BY <1>1, <1>2
<1>5. PICK kept \in SUBSET (1 .. N), size \in Nat \ {0} :
        /\ KeptAt(cleaned, 1 .. N) = List(Sublist(cleaned, kept))
        /\ IsPart(Sublist(cleaned, kept), cleaned, kept, size)
  BY <1>4, KeptPart
<1> DEFINE sub == Sublist(cleaned, kept)
<1>6. /\ NormalizedList(v, keys) = List(sub)
      /\ IsFunction(sub) /\ DOMAIN sub = 1 .. size
      /\ \A k \in 1 .. size :
           Nth(kept, k) \in 1 .. N /\ sub[k] = cleaned[Nth(kept, k)] /\ sub[k] # Dropped
  BY <1>1, <1>2, <1>5 DEF IsPart
<1> HIDE DEF sub
<1>7. \A k \in 1 .. size : CleanObject(sub[k], keys) = sub[k]
  BY <1>3, <1>6, ObjectOnce
<1>8. [n \in DOMAIN sub |-> CleanObject(sub[n], keys)] = sub
  BY <1>6, <1>7 DEF IsFunction
<1>9. KeptAt(sub, DOMAIN sub) = List(sub)
  BY <1>6, KeptWhole
<1>10. List(sub).kind = "list" /\ List(sub).items = sub
  BY DEF List
<1>11. NormalizedList(List(sub), keys) = List(sub)
  BY <1>8, <1>9, <1>10 DEF NormalizedList
<1> QED
  BY <1>6, <1>11

LEMMA FirstsDiffer ==
  ASSUME NEW N \in Nat, NEW items, DOMAIN items = 1 .. N
  PROVE  /\ Firsts(items) \in SUBSET (1 .. N)
         /\ \A m, n \in Firsts(items) : m # n => items[m] # items[n]
<1>1. Firsts(items) \in SUBSET (1 .. N)
  BY DEF Firsts
<1>2. ASSUME NEW m \in Firsts(items), NEW n \in Firsts(items), m < n
      PROVE  items[m] # items[n]
  <2>1. m \in 1 .. n - 1
    BY <1>1, <1>2
  <2> QED
    BY <2>1 DEF Firsts
<1>3. \A m, n \in Firsts(items) : m # n => m < n \/ n < m
  BY <1>1
<1> QED
  BY <1>1, <1>2, <1>3

LEMMA AllDifferent ==
  ASSUME NEW N \in Nat, NEW items, DOMAIN items = 1 .. N,
         \A m, n \in 1 .. N : m # n => items[m] # items[n]
  PROVE  Firsts(items) = 1 .. N
<1>1. \A n \in 1 .. N : \A m \in 1 .. n - 1 : m \in 1 .. N /\ m # n
  OBVIOUS
<1> QED
  BY <1>1 DEF Firsts

LEMMA SkillsOnce ==
  ASSUME NEW v, IsValue(v), NormalizedSkills(v) # Dropped
  PROVE  NormalizedSkills(NormalizedSkills(v)) = NormalizedSkills(v)
<1> DEFINE cleaned == CleanStrings(v)
           places  == Firsts(cleaned)
<1>1. v.kind = "list" /\ NormalizedSkills(v) = KeptAt(cleaned, places)
  BY DEF NormalizedSkills
<1>2. PICK N \in Nat : DOMAIN v.items = 1 .. N
  BY <1>1, FS_CardinalityType DEF IsValue
<1>3. DOMAIN cleaned = 1 .. N /\ \A n \in 1 .. N : cleaned[n] = CleanStr(v.items[n])
  BY <1>2 DEF CleanStrings
<1> HIDE DEF cleaned
<1>4. places \in SUBSET (1 .. N) /\ \A m, n \in places : m # n => cleaned[m] # cleaned[n]
  BY <1>3, FirstsDiffer
<1> HIDE DEF places
<1>5. PICK kept \in SUBSET places, size \in Nat \ {0} :
        /\ KeptAt(cleaned, places) = List(Sublist(cleaned, kept))
        /\ IsPart(Sublist(cleaned, kept), cleaned, kept, size)
  BY <1>1, <1>4, KeptPart
<1> DEFINE sub == Sublist(cleaned, kept)
<1>6. /\ NormalizedSkills(v) = List(sub)
      /\ IsFunction(sub) /\ DOMAIN sub = 1 .. size
      /\ \A k \in 1 .. size :
           /\ Nth(kept, k) \in places
           /\ sub[k] = cleaned[Nth(kept, k)] /\ sub[k] # Dropped
           /\ \A j \in 1 .. size : j # k => Nth(kept, j) # Nth(kept, k)
  BY <1>1, <1>5 DEF IsPart
<1> HIDE DEF sub
<1>7. \A k \in 1 .. size : CleanStr(sub[k]) = sub[k]
  <2> SUFFICES ASSUME NEW k \in 1 .. size
               PROVE  CleanStr(sub[k]) = sub[k]
    OBVIOUS
  <2>1. Nth(kept, k) \in 1 .. N
    BY <1>4, <1>6
  <2>2. sub[k] = CleanStr(v.items[Nth(kept, k)]) /\ sub[k] # Dropped
    BY <1>3, <1>6, <2>1
  <2> QED
    BY <2>2, StringOnce
<1>8. \A j, k \in 1 .. size : j # k => sub[j] # sub[k]
  BY <1>4, <1>6
<1>9. List(sub).kind = "list" /\ List(sub).items = sub
  BY DEF List
<1>10. CleanStrings(List(sub)) = sub
  BY <1>6, <1>7, <1>9 DEF CleanStrings, IsFunction
<1>11. Firsts(sub) = 1 .. size
  BY <1>6, <1>8, AllDifferent
<1>12. KeptAt(sub, 1 .. size) = List(sub)
  BY <1>6, KeptWhole
<1>13. NormalizedSkills(List(sub)) = List(sub)
  BY <1>9, <1>10, <1>11, <1>12 DEF NormalizedSkills
<1> QED
  BY <1>6, <1>13

LEMMA EitherOnce ==
  ASSUME NEW v, NEW keys, "text" \in keys, NormalizedObject(v, keys) # Dropped
  PROVE  NormalizedObject(NormalizedObject(v, keys), keys) = NormalizedObject(v, keys)
<1>1. ASSUME NEW x, x.kind = "object"
      PROVE  NormalizedObject(x, keys) = CleanObject(x, keys)
  BY <1>1 DEF NormalizedObject
<1>2. CASE v.kind # "text"
  <2>1. NormalizedObject(v, keys) = CleanObject(v, keys)
    BY <1>2 DEF NormalizedObject
  <2>2. CleanObject(v, keys).kind = "object"
    BY <2>1 DEF CleanObject, Object
  <2> QED
    BY <1>1, <2>1, <2>2, ObjectOnce
<1>3. CASE v.kind = "text"
  <2> DEFINE fields == [text |-> CleanStr(v)]
  <2>1. CleanStr(v) # Dropped /\ NormalizedObject(v, keys) = Object(fields)
    BY <1>3 DEF NormalizedObject
  <2>2. DOMAIN fields = {"text"} /\ fields["text"] = CleanStr(v) /\ IsFunction(fields)
    BY DEF IsFunction
  <2>3. Object(fields).kind = "object" /\ Object(fields).fields = fields
    BY DEF Object
  <2> HIDE DEF fields
  <2>4. CleanField("text", CleanStr(v)) = CleanStr(v)
    BY <2>1, StringOnce DEF CleanField
  <2>5. [k \in keys \cap DOMAIN fields |-> CleanField(k, fields[k])] = fields
    <3>1. keys \cap DOMAIN fields = DOMAIN fields
      BY <2>2
    <3>2. \A k \in DOMAIN fields : CleanField(k, fields[k]) = fields[k]
      BY <2>2, <2>4
    <3> QED
      BY <2>2, <3>1, <3>2 DEF IsFunction
  <2>6. Kept(fields) = fields
    BY <2>1, <2>2, KeptAll
  <2>7. CleanObject(Object(fields), keys) = Object(fields)
    BY <2>2, <2>3, <2>5, <2>6 DEF CleanObject
  <2> QED
    BY <1>1, <2>1, <2>3, <2>7
<1> QED
  BY <1>2, <1>3

LEMMA ValueOnce ==
  ASSUME NEW key \in Allowlist, NEW v, IsValue(v), Normalized(key, v) # Dropped
  PROVE  Normalized(key, Normalized(key, v)) = Normalized(key, v)
<1>1. /\ DOMAIN ListsOf = {"experience", "education", "languages"}
      /\ DOMAIN ObjectsOf = {"salary", "employment_preferences"}
      /\ \A k \in DOMAIN ObjectsOf : "text" \in ObjectsOf[k]
  BY DEF ListsOf, ObjectsOf
<1>2. CASE key \in TextKeys
  <2>1. \A x : Normalized(key, x) = CleanStr(x)
    BY <1>1, <1>2 DEF Normalized, TextKeys
  <2> QED
    BY <2>1, StringOnce
<1>3. CASE key = "skills"
  <2>1. \A x : Normalized(key, x) = NormalizedSkills(x)
    BY <1>1, <1>3 DEF Normalized, TextKeys
  <2> QED
    BY <2>1, SkillsOnce
<1>4. CASE key \in DOMAIN ListsOf
  <2>1. \A x : Normalized(key, x) = NormalizedList(x, ListsOf[key])
    BY <1>1, <1>4 DEF Normalized, TextKeys
  <2> QED
    BY <2>1, ListOnce
<1>5. CASE key \in DOMAIN ObjectsOf
  <2>1. \A x : Normalized(key, x) = NormalizedObject(x, ObjectsOf[key])
    BY <1>1, <1>5 DEF Normalized, TextKeys
  <2> QED
    BY <1>1, <1>5, <2>1, EitherOnce
<1> QED
  BY <1>2, <1>3, <1>4, <1>5 DEF Allowlist

(***************************************************************************)
(* A snapshot that is normalised once more stays what it is, whatever the  *)
(* content was that was first sent: what a client reads from a stored      *)
(* version and sends back has the hash of that version.                    *)
(***************************************************************************)
THEOREM CanonicalOnce ==
  ASSUME NEW raw, \A k \in Allowlist \cap DOMAIN raw : IsValue(raw[k]),
         Canonical(raw) # Dropped
  PROVE  Canonical(Canonical(raw)) = Canonical(raw)
<1> DEFINE all  == [k \in Allowlist \cap DOMAIN raw |-> Normalized(k, raw[k])]
           kept == Kept(all)
           snap == [k \in {"schema_version"} \cup DOMAIN kept |->
                      IF k = "schema_version" THEN Number(1) ELSE kept[k]]
<1>1. DOMAIN kept # {} /\ Canonical(raw) = snap
  BY DEF Canonical
<1>2. /\ IsFunction(kept)
      /\ DOMAIN kept = {k \in DOMAIN all : all[k] # Dropped}
      /\ \A k \in DOMAIN kept : kept[k] = all[k]
  BY KeptFields
<1>3. \A k \in DOMAIN kept : /\ k \in Allowlist /\ k \in Allowlist \cap DOMAIN raw
                             /\ kept[k] = Normalized(k, raw[k])
                             /\ kept[k] # Dropped
  BY <1>2
<1> HIDE DEF kept
<1>4. \A k \in DOMAIN kept : Normalized(k, kept[k]) = kept[k]
  BY <1>3, ValueOnce
<1>5. "schema_version" \notin Allowlist
  BY DEF Allowlist, TextKeys, ListsOf, ObjectsOf
<1>6. /\ DOMAIN snap = {"schema_version"} \cup DOMAIN kept
      /\ \A k \in DOMAIN kept : snap[k] = kept[k]
  BY <1>3, <1>5
<1>7. Allowlist \cap DOMAIN snap = DOMAIN kept
  BY <1>3, <1>5, <1>6
<1> HIDE DEF snap
<1>8. [k \in Allowlist \cap DOMAIN snap |-> Normalized(k, snap[k])] = kept
  BY <1>2, <1>4, <1>6, <1>7 DEF IsFunction
<1>9. Kept(kept) = kept
  BY <1>2, <1>3, KeptAll
<1>10. ASSUME NEW s, Kept([k \in Allowlist \cap DOMAIN s |-> Normalized(k, s[k])]) = kept
       PROVE  Canonical(s) = snap
  BY <1>1, <1>10 DEF Canonical, snap
<1> QED
  BY <1>1, <1>8, <1>9, <1>10

=============================================================================

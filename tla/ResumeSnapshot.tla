--------------------------- MODULE ResumeSnapshot ---------------------------
(***************************************************************************)
(* What resume_snapshot.py keeps of the JSON a client sends: the allowed   *)
(* keys whose values survive cleaning.  The hash of a snapshot is taken to *)
(* have no collisions, so two snapshots have one hash iff they are equal.  *)
(*                                                                         *)
(* A JSON value is a record tagged with its kind.  A string is its words,  *)
(* "" if it has none, and whether it holds blanks that cleaning squeezes.  *)
(***************************************************************************)
EXTENDS Naturals, FiniteSets

Text(words, spaced) == [kind |-> "text", words |-> words, spaced |-> spaced]
Number(n)           == [kind |-> "number", value |-> n]
List(items)         == [kind |-> "list", items |-> items]
Object(fields)      == [kind |-> "object", fields |-> fields]
Dropped             == [kind |-> "dropped"]

TextKeys  == {"title", "desired_position", "about", "location"}
ListsOf   == [experience |-> {"company", "position", "period", "description"},
              education  |-> {"institution", "degree", "year"},
              languages  |-> {"name", "level"}]
ObjectsOf == [salary |-> {"text", "amount", "currency"},
              employment_preferences |-> {"text"}]
Allowlist == TextKeys \cup {"skills"} \cup DOMAIN ListsOf \cup DOMAIN ObjectsOf

CleanStr(v) ==
  IF v.kind = "text" /\ v.words # "" THEN Text(v.words, FALSE) ELSE Dropped

CleanField(key, v) ==
  IF key # "amount" THEN CleanStr(v)
  ELSE IF v.kind = "number" THEN v ELSE Dropped

(* The fields of an object that cleaning did not drop.                     *)
Kept(fields) ==
  LET keys == {k \in DOMAIN fields : fields[k] # Dropped} IN
  [k \in keys |-> fields[k]]

CleanObject(v, keys) ==
  LET fields == Kept([k \in keys \cap DOMAIN v.fields |-> CleanField(k, v.fields[k])]) IN
  IF v.kind = "object" /\ DOMAIN fields # {} THEN Object(fields) ELSE Dropped

(* The k-th smallest of a set of places, and the items of a list there.    *)
Nth(places, k) ==
  CHOOSE n \in places : Cardinality({m \in places : m <= n}) = k

Sublist(items, places) ==
  [k \in 1 .. Cardinality(places) |-> items[Nth(places, k)]]

(* The list of the items at these places that cleaning did not drop, if    *)
(* any is left.                                                            *)
KeptAt(items, places) ==
  LET kept == {n \in places : items[n] # Dropped} IN
  IF kept = {} THEN Dropped ELSE List(Sublist(items, kept))

(* The places of the items that no earlier item equals.                    *)
Firsts(items) == {n \in DOMAIN items : \A m \in 1 .. n - 1 : items[m] # items[n]}

CleanStrings(v) == [n \in DOMAIN v.items |-> CleanStr(v.items[n])]

\* Mutant: duplicates are looked for before the strings are cleaned.
NormalizedRawSkills(v) ==
  IF v.kind # "list" THEN Dropped
  ELSE KeptAt(CleanStrings(v), Firsts(v.items))

NormalizedSkills(v) ==
  IF v.kind # "list" THEN Dropped
  ELSE KeptAt(CleanStrings(v), Firsts(CleanStrings(v)))

NormalizedList(v, keys) ==
  IF v.kind # "list" THEN Dropped
  ELSE KeptAt([n \in DOMAIN v.items |-> CleanObject(v.items[n], keys)],
              DOMAIN v.items)

(* Salary and preferences may come as one string. *)
NormalizedObject(v, keys) ==
  IF v.kind # "text" THEN CleanObject(v, keys)
  ELSE IF CleanStr(v) = Dropped THEN Dropped
  ELSE Object([text |-> CleanStr(v)])

Normalized(key, v) ==
  CASE key \in TextKeys         -> CleanStr(v)
    [] key = "skills"           -> NormalizedSkills(v)
    [] key \in DOMAIN ListsOf   -> NormalizedList(v, ListsOf[key])
    [] key \in DOMAIN ObjectsOf -> NormalizedObject(v, ObjectsOf[key])

(* The snapshot that is stored and hashed, or Dropped when nothing of the  *)
(* content is left and the request is refused.                             *)
Canonical(raw) ==
  LET kept == Kept([k \in Allowlist \cap DOMAIN raw |-> Normalized(k, raw[k])]) IN
  IF DOMAIN kept = {} THEN Dropped
  ELSE [k \in {"schema_version"} \cup DOMAIN kept |->
          IF k = "schema_version" THEN Number(1) ELSE kept[k]]

=============================================================================

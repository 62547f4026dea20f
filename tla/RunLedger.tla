----------------------------- MODULE RunLedger ------------------------------
(***************************************************************************)
(* What search runs promise: entries are recorded while a run is running,  *)
(* at most one per source id; closing it counts the entries by outcome;    *)
(* and a closed run never changes again, nor does its result.              *)
(***************************************************************************)
EXTENDS Naturals, FiniteSets

CONSTANTS Runs, Entries, Outcomes, Terminal, Absent, NoResult

VARIABLES
  status,   \* the status of every run, Absent before it is started
  entries,  \* the entries recorded in it
  result    \* its counters once it is closed

vars == <<status, entries, result>>

Init ==
  /\ status = [r \in Runs |-> Absent]
  /\ entries = [r \in Runs |-> {}]
  /\ result = [r \in Runs |-> NoResult]

Open(r) ==
  /\ status[r] = Absent
  /\ status' = [status EXCEPT ![r] = "running"]
  /\ UNCHANGED <<entries, result>>

Record(r, e) ==
  /\ status[r] = "running"
  /\ \A f \in entries[r] : f.externalId # e.externalId
  /\ entries' = [entries EXCEPT ![r] = @ \cup {e}]
  /\ UNCHANGED <<status, result>>

CountOf(es) ==
  [o \in Outcomes |-> Cardinality({e \in es : e.outcome = o})]

Close(r, s) ==
  /\ status[r] = "running"
  /\ status' = [status EXCEPT ![r] = s]
  /\ LET n == CountOf(entries[r]) IN
     result' = [result EXCEPT ![r] =
       [counts |-> n,
        found  |-> n["created"] + n["updated"] + n["unchanged"] + n["error"]]]
  /\ UNCHANGED entries

Next ==
  \E r \in Runs :
    \/ Open(r)
    \/ \E e \in Entries : Record(r, e)
    \/ \E s \in Terminal : Close(r, s)

Spec == Init /\ [][Next]_vars

=============================================================================

----------------------------- MODULE CurrentCopy ----------------------------
(***************************************************************************)
(* What consumers may rely on when they ask for the operator's resume.     *)
(* One resume at most is selected.  Every resume has at most one newest    *)
(* version; a version that something newer has replaced, or that was older *)
(* than the newest when it arrived, is history and is never the newest one *)
(* again.                                                                  *)
(***************************************************************************)
CONSTANTS ResumeIds, VersionIds, None

VARIABLES
  selected,  \* the resume the operator selected, or None
  newest,    \* the newest version of every resume, or None
  history    \* the versions that are not the newest of their resume

vars == <<selected, newest, history>>

Init ==
  /\ selected = None
  /\ newest = [x \in ResumeIds |-> None]
  /\ history = {}

Select(x) ==
  /\ selected' = x
  /\ UNCHANGED <<newest, history>>

Capture(x, v) ==
  /\ v \notin history
  /\ \A y \in ResumeIds : newest[y] # v
  /\ \/ /\ newest' = [newest EXCEPT ![x] = v]
        /\ history' = history \cup ({newest[x]} \ {None})
     \/ /\ newest[x] # None
        /\ history' = history \cup {v}
        /\ UNCHANGED newest
  /\ UNCHANGED selected

Next ==
  \/ \E x \in ResumeIds \cup {None} : Select(x)
  \/ \E x \in ResumeIds, v \in VersionIds : Capture(x, v)

Spec == Init /\ [][Next]_vars

=============================================================================

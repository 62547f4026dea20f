--------------------------- MODULE ResumeArtifacts ---------------------------
(***************************************************************************)
(* The files archived with resume versions: rows in resume_artifacts and   *)
(* bytes under content-addressed keys of a directory.                      *)
(*                                                                         *)
(*   POST /resume-versions/{id}/artifacts   ingest_resume_artifact         *)
(*                                                                         *)
(* The handler is a coroutine that awaits nothing once it has the bytes,   *)
(* and the deployment runs one process: one upload is served at a time.    *)
(* What goes wrong is that it ends early, in any step, with its files left *)
(* as they are and its transaction rolled back; that its answer is lost;   *)
(* and that the container is replaced, which keeps the database but not    *)
(* the directory, for it is on no volume.                                  *)
(***************************************************************************)
EXTENDS Naturals

CONSTANTS
  Versions,   \* ids of resume versions
  Contents,   \* the bytes of files, none empty; a digest stands for its bytes
  Ids,        \* uuids of artifacts
  Requests,   \* the uploads clients send
  MaxFaults,  \* bound: how often something goes wrong
  NULL

Upload ==
  [version: Versions, content: Contents, captured: {NULL, "aware", "naive"}]

ASSUME RequestsAssumption == Requests \subseteq Upload

ASSUME MaxFaultsAssumption == MaxFaults \in Nat

VARIABLES
  versions,  \* the committed resume versions; none is ever deleted
  rows,      \* the committed artifacts, NULL where none
  files,     \* what is at a path of the directory
  upload,    \* the upload in progress
  lost,      \* the artifacts recorded when the directory was last lost
  answers,   \* the artifact each upload was last answered with
  faults     \* how often something went wrong

vars == <<versions, rows, files, upload, lost, answers, faults>>

Row == [version: Versions, content: Contents, captured: {"aware"}]

ASSUME NullAssumption == NULL \notin Ids /\ NULL \notin Requests /\ NULL \notin Row

Paths == {"blob", "part"} \X Contents

States == {"absent", "partial", "whole"}

Labels == {"open", "fill", "rename", "insert"}

Idle == [pc |-> "idle", request |-> NULL]

Init ==
  /\ versions = {}
  /\ rows = [i \in Ids |-> NULL]
  /\ files = [p \in Paths |-> "absent"]
  /\ upload = Idle
  /\ lost = {}
  /\ answers = [q \in Requests |-> NULL]
  /\ faults = 0

Recorded == {i \in Ids : rows[i] # NULL}

Goto(label) == upload' = [upload EXCEPT !.pc = label]

(* ResumeVersions are ingested by other requests.                          *)
RecordVersion(v) ==
  /\ versions' = versions \cup {v}
  /\ UNCHANGED <<rows, files, upload, lost, answers, faults>>

(***************************************************************************)
(* The upload is answered from the row its version already has for these   *)
(* bytes.  The file of that row is not looked at.                          *)
(***************************************************************************)
\* Mutant: bytes are looked up under any version.
SameBytes(i, q) == rows[i].content = q.content

SameArtifact(i, q) == rows[i].version = q.version /\ rows[i].content = q.content

Found(q) == {i \in Recorded : SameArtifact(i, q)}

Replay(q) ==
  /\ upload = Idle
  /\ q.version \in versions
  /\ \E i \in Found(q) : answers' = [answers EXCEPT ![q] = i]
  /\ UNCHANGED <<versions, rows, files, upload, lost, faults>>

(***************************************************************************)
(* write_blob: an existing file is taken as it is; otherwise the bytes go  *)
(* to a temporary path, truncated when opened, which then replaces the     *)
(* blob.                                                                   *)
(***************************************************************************)
Target(c) == <<"blob", c>>

\* Mutant: the bytes are written in place.
TempInPlace(c) == Target(c)

Temp(c) == <<"part", c>>

\* Mutant: a started write counts as done.
IsFileOrStarted(c) == files[Target(c)] # "absent" \/ files[Temp(c)] # "absent"

IsFile(c) == files[Target(c)] # "absent"

Begin(q) ==
  /\ upload = Idle
  /\ q.version \in versions
  /\ Found(q) = {}
  /\ upload' = [pc |-> IF IsFile(q.content) THEN "insert" ELSE "open", request |-> q]
  /\ UNCHANGED <<versions, rows, files, lost, answers, faults>>

\* Mutant: the temporary file is created exclusively.
OpenExclusive(c) ==
  /\ files[Temp(c)] = "absent"
  /\ files' = [files EXCEPT ![Temp(c)] = "partial"]

Open(c) == files' = [files EXCEPT ![Temp(c)] = "partial"]

OpenTemp ==
  /\ upload.pc = "open"
  /\ Open(upload.request.content)
  /\ Goto("fill")
  /\ UNCHANGED <<versions, rows, lost, answers, faults>>

FillTemp ==
  /\ upload.pc = "fill"
  /\ files' = [files EXCEPT ![Temp(upload.request.content)] = "whole"]
  /\ Goto("rename")
  /\ UNCHANGED <<versions, rows, lost, answers, faults>>

RenameTemp ==
  LET c == upload.request.content IN
  /\ upload.pc = "rename"
  /\ files' = [files EXCEPT ![Temp(c)] = "absent", ![Target(c)] = files[Temp(c)]]
  /\ Goto("insert")
  /\ UNCHANGED <<versions, rows, lost, answers, faults>>

(***************************************************************************)
(* The row.  A time without zone is refused only now, when the blob is     *)
(* already there; and a key is unique over all versions, so that bytes     *)
(* stored for one version cannot be recorded for another.                  *)
(***************************************************************************)
\* Mutant: the zone of captured_at is not looked at.
RefusedNever(q) == FALSE

Refused(q) == q.captured = "naive"

NewRow(q) ==
  [version |-> q.version, content |-> q.content,
   captured |-> IF q.captured = NULL THEN "aware" ELSE q.captured]

ViolatesUnique(q) == \E i \in Recorded : rows[i].content = q.content

FailRow ==
  /\ upload.pc = "insert"
  /\ Refused(upload.request) \/ ViolatesUnique(upload.request)
  /\ upload' = Idle
  /\ UNCHANGED <<versions, rows, files, lost, answers, faults>>

(* Flush and commit; the answer arrives, or is lost.                       *)
InsertRow ==
  LET q == upload.request IN
  /\ upload.pc = "insert"
  /\ ~Refused(q) /\ ~ViolatesUnique(q)
  /\ \E i \in Ids \ Recorded :
       /\ rows' = [rows EXCEPT ![i] = NewRow(q)]
       /\ \/ /\ answers' = [answers EXCEPT ![q] = i]
             /\ UNCHANGED faults
          \/ /\ faults < MaxFaults
             /\ faults' = faults + 1
             /\ UNCHANGED answers
  /\ upload' = Idle
  /\ UNCHANGED <<versions, files, lost>>

(***************************************************************************)
(* Faults: an exception or a crash, and the loss of the directory.         *)
(***************************************************************************)
Interrupt ==
  /\ upload # Idle
  /\ faults < MaxFaults
  /\ faults' = faults + 1
  /\ upload' = Idle
  /\ UNCHANGED <<versions, rows, files, lost, answers>>

LoseFiles ==
  /\ faults < MaxFaults
  /\ faults' = faults + 1
  /\ files' = [p \in Paths |-> "absent"]
  /\ upload' = Idle
  /\ lost' = Recorded
  /\ UNCHANGED <<versions, rows, answers>>

Accept(q) == Replay(q) \/ Begin(q)

Serve == OpenTemp \/ FillTemp \/ RenameTemp \/ FailRow \/ InsertRow

Next ==
  \/ \E v \in Versions : RecordVersion(v)
  \/ \E q \in Requests : Accept(q)
  \/ Serve
  \/ Interrupt
  \/ LoseFiles

(* The one process serves what it has accepted.  Clients need not send, and *)
(* nothing need go wrong.                                                  *)
Fairness == WF_vars(Serve)

Spec == Init /\ [][Next]_vars /\ Fairness

(***************************************************************************)
(* Properties.                                                             *)
(***************************************************************************)
(* Rows, files and the upload have the declared shape.                     *)
TypeOK ==
  /\ versions \subseteq Versions
  /\ rows \in [Ids -> Row \cup {NULL}]
  /\ files \in [Paths -> States]
  /\ upload \in [pc: Labels, request: Requests] \cup {Idle}
  /\ lost \subseteq Ids
  /\ answers \in [Requests -> Ids \cup {NULL}]
  /\ faults \in 0 .. MaxFaults

(* load_resume_artifact_bytes.                                             *)
Downloaded(i) == files[Target(rows[i].content)]

(* A recorded artifact downloads as exactly the bytes that were uploaded,  *)
(* wherever earlier uploads of them broke off.  If the directory was lost  *)
(* after it was recorded it may be missing, but it is never other bytes.   *)
RecordedDownloads ==
  \A i \in Recorded :
    \/ Downloaded(i) = "whole"
    \/ i \in lost /\ Downloaded(i) = "absent"

(* Uploads of the same bytes for the same version are one artifact,        *)
(* whatever went wrong between them, and no other upload is answered with  *)
(* it.                                                                     *)
Alike(p, q) == p.version = q.version /\ p.content = q.content

Once == INSTANCE OnceOnly WITH
  Records <- Ids, None <- NULL, answer <- answers

ImplementsOnceOnly == Once!Spec

(* A client that keeps sending a file is told, once its resume version     *)
(* exists, which artifact it is: neither a temporary file nor a blob       *)
(* without a row stands in the way.  The one exception is bytes that were  *)
(* recorded for another version.                                           *)
Persistent(q) ==
  []<>(upload = Idle /\ q.version \in versions) => []<><<Accept(q)>>_vars

Taken(q) == \E i \in Recorded : rows[i].content = q.content /\ rows[i].version # q.version

PersistenceIsAnswered ==
  \A q \in Requests :
    q.captured # "naive" /\ Persistent(q)
      => (q.version \in versions ~> answers[q] # NULL \/ Taken(q))

=============================================================================

------------------------ MODULE ResumeArtifactsProofs -----------------------
(***************************************************************************)
(* Proofs about ResumeArtifacts, for any versions, contents, uploads and   *)
(* number of faults.                                                       *)
(***************************************************************************)
EXTENDS ResumeArtifacts, TLAPS

(* A blob is whole or not there; a temporary file about to be renamed is   *)
(* whole, and so is the blob of an upload about to be recorded.            *)
BlobsSound ==
  /\ \A c \in Contents : files[Target(c)] # "partial"
  /\ upload.pc = "rename" => files[Temp(upload.request.content)] = "whole"
  /\ upload.pc = "insert" => files[Target(upload.request.content)] = "whole"

(* A content is recorded once, and an upload was answered with its record. *)
RecordsSound ==
  /\ \A i, j \in Recorded : rows[i].content = rows[j].content => i = j
  /\ \A q \in Requests :
       answers[q] # NULL => answers[q] \in Recorded /\ SameArtifact(answers[q], q)

(* The paths of blobs and of temporary files are apart.                    *)
LEMMA PathsApart ==
  /\ \A c \in Contents : Target(c) \in Paths /\ Temp(c) \in Paths
  /\ \A c, d \in Contents : Target(c) # Temp(d)
  /\ \A c, d \in Contents : Target(c) = Target(d) => c = d
BY DEF Target, Temp, Paths

(* What a request of the upload in progress is.                            *)
LEMMA UploadType ==
  ASSUME TypeOK, upload.pc \in Labels
  PROVE  /\ upload.request \in Requests
         /\ upload.request \in Upload
         /\ upload.request.content \in Contents
         /\ upload \in [pc: Labels, request: Requests]
<1>1. upload # Idle
  BY DEF Idle, Labels
<1>2. upload \in [pc: Labels, request: Requests]
  BY <1>1 DEF TypeOK
<1> QED
  BY <1>2, RequestsAssumption DEF Upload

(* Theorem: rows, files and the upload keep their shape.                   *)
LEMMA TypeInit == Init => TypeOK
<1> SUFFICES ASSUME Init PROVE TypeOK
  OBVIOUS
<1>1. files \in [Paths -> States]
  BY DEF Init, States
<1>2. faults \in 0 .. MaxFaults
  BY MaxFaultsAssumption DEF Init
<1> QED
  BY <1>1, <1>2 DEF Init, TypeOK

LEMMA TypeNext ==
  ASSUME TypeOK, [Next]_vars
  PROVE  TypeOK'
<1> USE DEF TypeOK
<1>1. ASSUME NEW v \in Versions, RecordVersion(v) PROVE TypeOK'
  BY <1>1 DEF RecordVersion
<1>2. ASSUME NEW q \in Requests, Replay(q) PROVE TypeOK'
  <2>1. answers' \in [Requests -> Ids \cup {NULL}]
    BY <1>2 DEF Replay, Found, Recorded
  <2> QED
    BY <1>2, <2>1 DEF Replay
<1>3. ASSUME NEW q \in Requests, Begin(q) PROVE TypeOK'
  <2>1. upload' \in [pc: Labels, request: Requests]
    BY <1>3 DEF Begin, Labels
  <2> QED
    BY <1>3, <2>1 DEF Begin
<1>4. ASSUME OpenTemp PROVE TypeOK'
  <2>1. upload \in [pc: Labels, request: Requests] /\ upload.request.content \in Contents
    BY <1>4, UploadType DEF OpenTemp, Labels
  <2>2. upload' \in [pc: Labels, request: Requests]
    BY <1>4, <2>1 DEF OpenTemp, Goto, Labels
  <2>3. files' \in [Paths -> States]
    BY <1>4, <2>1 DEF OpenTemp, Open, States
  <2> QED
    BY <1>4, <2>2, <2>3 DEF OpenTemp
<1>5. ASSUME FillTemp PROVE TypeOK'
  <2>1. upload \in [pc: Labels, request: Requests] /\ upload.request.content \in Contents
    BY <1>5, UploadType DEF FillTemp, Labels
  <2>2. upload' \in [pc: Labels, request: Requests]
    BY <1>5, <2>1 DEF FillTemp, Goto, Labels
  <2>3. files' \in [Paths -> States]
    BY <1>5, <2>1 DEF FillTemp, States
  <2> QED
    BY <1>5, <2>2, <2>3 DEF FillTemp
<1>6. ASSUME RenameTemp PROVE TypeOK'
  <2>1. upload \in [pc: Labels, request: Requests] /\ upload.request.content \in Contents
    BY <1>6, UploadType DEF RenameTemp, Labels
  <2>2. upload' \in [pc: Labels, request: Requests]
    BY <1>6, <2>1 DEF RenameTemp, Goto, Labels
  <2>3. files' \in [Paths -> States]
    BY <1>6, <2>1, PathsApart DEF RenameTemp, States
  <2> QED
    BY <1>6, <2>2, <2>3 DEF RenameTemp
<1>7. ASSUME FailRow PROVE TypeOK'
  BY <1>7 DEF FailRow
<1>8. ASSUME InsertRow PROVE TypeOK'
  <2>1. upload.request \in Requests /\ upload.request \in Upload
    BY <1>8, UploadType DEF InsertRow, Labels
  <2>2. NewRow(upload.request) \in Row
    BY <1>8, <2>1 DEF InsertRow, NewRow, Row, Upload, Refused
  <2>3. rows' \in [Ids -> Row \cup {NULL}]
    BY <1>8, <2>2 DEF InsertRow
  <2>4. answers' \in [Requests -> Ids \cup {NULL}]
    BY <1>8, <2>1 DEF InsertRow
  <2>5. faults' \in 0 .. MaxFaults
    BY <1>8, MaxFaultsAssumption DEF InsertRow
  <2> QED
    BY <1>8, <2>3, <2>4, <2>5 DEF InsertRow
<1>9. ASSUME Interrupt PROVE TypeOK'
  BY <1>9, MaxFaultsAssumption DEF Interrupt
<1>10. ASSUME LoseFiles PROVE TypeOK'
  <2>1. files' \in [Paths -> States]
    BY <1>10 DEF LoseFiles, States
  <2>2. faults' \in 0 .. MaxFaults
    BY <1>10, MaxFaultsAssumption DEF LoseFiles
  <2>3. lost' \subseteq Ids
    BY <1>10 DEF LoseFiles, Recorded
  <2> QED
    BY <1>10, <2>1, <2>2, <2>3 DEF LoseFiles
<1>11. ASSUME UNCHANGED vars PROVE TypeOK'
  BY <1>11 DEF vars
<1> QED
  BY <1>1, <1>2, <1>3, <1>4, <1>5, <1>6, <1>7, <1>8, <1>9, <1>10, <1>11
     DEF Next, Accept, Serve

THEOREM TypeCorrect == Spec => []TypeOK
<1> QED
  BY TypeInit, TypeNext, PTL DEF Spec

(***************************************************************************)
(* The files.                                                              *)
(***************************************************************************)
IInv == TypeOK /\ BlobsSound /\ RecordsSound /\ RecordedDownloads

LEMMA InvInit == Init => IInv
<1> SUFFICES ASSUME Init PROVE IInv
  OBVIOUS
<1>1. TypeOK
  BY TypeInit
<1>2. BlobsSound
  BY PathsApart DEF Init, BlobsSound, Idle
<1>3. Recorded = {} /\ \A q \in Requests : answers[q] = NULL
  BY DEF Init, Recorded
<1>4. RecordsSound /\ RecordedDownloads
  BY <1>3 DEF RecordsSound, RecordedDownloads
<1> QED
  BY <1>1, <1>2, <1>4 DEF IInv

(* What is at the path of a blob never gets there but by the rename.       *)
LEMMA BlobsNext ==
  ASSUME IInv, [Next]_vars
  PROVE  BlobsSound'
<1> USE DEF IInv
<1>1. ASSUME UNCHANGED <<files, upload>> PROVE BlobsSound'
  BY <1>1 DEF BlobsSound
<1>2. ASSUME UNCHANGED files, upload' = Idle PROVE BlobsSound'
  BY <1>2 DEF BlobsSound, Idle
<1>3. ASSUME NEW q \in Requests, Begin(q) PROVE BlobsSound'
  <2>1. q.content \in Contents
    BY RequestsAssumption DEF Upload
  <2>2. files[Target(q.content)] \in States
    BY <2>1, PathsApart DEF TypeOK
  <2>3. IsFile(q.content) => files[Target(q.content)] = "whole"
    BY <2>1, <2>2 DEF IsFile, States, BlobsSound
  <2> QED
    BY <1>3, <2>3 DEF Begin, BlobsSound
<1>4. ASSUME OpenTemp PROVE BlobsSound'
  <2>1. /\ upload \in [pc: Labels, request: Requests]
        /\ upload.request.content \in Contents
    BY <1>4, UploadType DEF OpenTemp, Labels
  <2>2. upload'.pc = "fill"
    BY <1>4, <2>1 DEF OpenTemp, Goto
  <2>3. ASSUME NEW c \in Contents PROVE files'[Target(c)] = files[Target(c)]
    BY <1>4, <2>1, PathsApart DEF OpenTemp, Open, TypeOK
  <2> QED
    BY <2>2, <2>3 DEF BlobsSound
<1>5. ASSUME FillTemp PROVE BlobsSound'
  <2>1. /\ upload \in [pc: Labels, request: Requests]
        /\ upload.request.content \in Contents
    BY <1>5, UploadType DEF FillTemp, Labels
  <2>2. upload'.pc = "rename" /\ upload'.request = upload.request
    BY <1>5, <2>1 DEF FillTemp, Goto
  <2>3. ASSUME NEW c \in Contents PROVE files'[Target(c)] = files[Target(c)]
    BY <1>5, <2>1, PathsApart DEF FillTemp, TypeOK
  <2>4. files'[Temp(upload.request.content)] = "whole"
    BY <1>5, <2>1, PathsApart DEF FillTemp, TypeOK
  <2>5. files'[Temp(upload'.request.content)] = "whole"
    BY <2>2, <2>4 DEF Temp
  <2> QED
    BY <2>2, <2>3, <2>5 DEF BlobsSound
<1>6. ASSUME RenameTemp PROVE BlobsSound'
  <2>1. /\ upload \in [pc: Labels, request: Requests]
        /\ upload.request.content \in Contents
    BY <1>6, UploadType DEF RenameTemp, Labels
  <2>2. upload'.pc = "insert" /\ upload'.request = upload.request
    BY <1>6, <2>1 DEF RenameTemp, Goto
  <2>3. files'[Target(upload.request.content)] = "whole"
    BY <1>6, <2>1, PathsApart DEF RenameTemp, TypeOK, BlobsSound
  <2>4. ASSUME NEW c \in Contents
        PROVE  files'[Target(c)] = files[Target(c)] \/ files'[Target(c)] = "whole"
    <3>1. CASE c = upload.request.content
      BY <2>3, <3>1
    <3>2. CASE c # upload.request.content
      BY <1>6, <2>1, <3>2, PathsApart DEF RenameTemp, TypeOK
    <3> QED
      BY <3>1, <3>2
  <2>5. files'[Target(upload'.request.content)] = "whole"
    BY <2>2, <2>3 DEF Target
  <2> QED
    BY <2>2, <2>4, <2>5 DEF BlobsSound
<1>7. ASSUME LoseFiles PROVE BlobsSound'
  BY <1>7, PathsApart DEF LoseFiles, BlobsSound, Idle
<1> QED
  BY <1>1, <1>2, <1>3, <1>4, <1>5, <1>6, <1>7
     DEF Next, Accept, Serve, vars, RecordVersion, Replay, FailRow, InsertRow, Interrupt

(***************************************************************************)
(* The records.                                                            *)
(***************************************************************************)
(* What the insertion of a row adds.                                       *)
LEMMA Inserted ==
  ASSUME IInv, InsertRow
  PROVE  \E i \in Ids \ Recorded :
           /\ rows' = [rows EXCEPT ![i] = NewRow(upload.request)]
           /\ rows'[i] = NewRow(upload.request)
           /\ \A j \in Recorded : rows'[j] = rows[j]
           /\ Recorded' = Recorded \cup {i}
           /\ \/ answers' = [answers EXCEPT ![upload.request] = i]
              \/ answers' = answers
<1> USE DEF IInv
<1>1. upload.request \in Requests /\ upload.request \in Upload
  BY UploadType DEF InsertRow, Labels
<1>2. NewRow(upload.request) \in Row
  BY <1>1 DEF InsertRow, NewRow, Row, Upload, Refused
<1>3. PICK i \in Ids \ Recorded :
        /\ rows' = [rows EXCEPT ![i] = NewRow(upload.request)]
        /\ \/ answers' = [answers EXCEPT ![upload.request] = i]
           \/ answers' = answers
  BY DEF InsertRow
<1>4. rows'[i] = NewRow(upload.request)
  BY <1>3 DEF TypeOK
<1>5. \A j \in Ids \ {i} : rows'[j] = rows[j]
  BY <1>3 DEF TypeOK
<1>6. rows'[i] # NULL
  BY <1>2, <1>4, NullAssumption
<1>7. Recorded' = Recorded \cup {i}
  BY <1>5, <1>6 DEF Recorded
<1>8. \A j \in Recorded : rows'[j] = rows[j]
  BY <1>5 DEF Recorded
<1> QED
  BY <1>3, <1>4, <1>7, <1>8

LEMMA RecordsNext ==
  ASSUME IInv, [Next]_vars
  PROVE  RecordsSound'
<1> USE DEF IInv
<1>1. ASSUME UNCHANGED <<rows, answers>> PROVE RecordsSound'
  BY <1>1 DEF RecordsSound, Recorded, SameArtifact
<1>2. ASSUME NEW q \in Requests, Replay(q) PROVE RecordsSound'
  <2>1. PICK i \in Found(q) : answers' = [answers EXCEPT ![q] = i]
    BY <1>2 DEF Replay
  <2>2. i \in Recorded /\ SameArtifact(i, q)
    BY DEF Found
  <2>3. rows' = rows /\ Recorded' = Recorded
    BY <1>2 DEF Replay, Recorded
  <2>4. ASSUME NEW p \in Requests
        PROVE  \/ answers'[p] = answers[p]
               \/ (p = q /\ answers'[p] = i)
    BY <2>1 DEF TypeOK
  <2> QED
    BY <2>2, <2>3, <2>4 DEF RecordsSound, SameArtifact
<1>3. ASSUME InsertRow PROVE RecordsSound'
  <2> DEFINE q == upload.request
  <2>1. PICK i \in Ids \ Recorded :
           /\ rows'[i] = NewRow(q)
           /\ \A j \in Recorded : rows'[j] = rows[j]
           /\ Recorded' = Recorded \cup {i}
           /\ answers' = [answers EXCEPT ![q] = i] \/ answers' = answers
    BY <1>3, Inserted
  <2>2. rows'[i].version = q.version /\ rows'[i].content = q.content
    BY <2>1 DEF NewRow
  <2>3. \A j \in Recorded : rows[j].content # q.content
    BY <1>3 DEF InsertRow, ViolatesUnique
  <2>4. \A j, k \in Recorded' : rows'[j].content = rows'[k].content => j = k
    BY <2>1, <2>2, <2>3 DEF RecordsSound
  <2>5. ASSUME NEW p \in Requests
        PROVE  \/ answers'[p] = answers[p]
               \/ (p = q /\ answers'[p] = i)
    BY <2>1 DEF TypeOK
  <2>6. ASSUME NEW p \in Requests, answers'[p] # NULL
        PROVE  /\ answers'[p] \in Recorded'
               /\ rows'[answers'[p]].version = p.version
               /\ rows'[answers'[p]].content = p.content
    <3>1. CASE p = q /\ answers'[p] = i
      BY <2>1, <2>2, <3>1
    <3>2. CASE answers'[p] = answers[p]
      BY <2>1, <2>6, <3>2 DEF RecordsSound, SameArtifact
    <3> QED
      BY <2>5, <3>1, <3>2
  <2> QED
    BY <2>4, <2>6 DEF RecordsSound, SameArtifact
<1> QED
  BY <1>1, <1>2, <1>3
     DEF Next, Accept, Serve, vars, RecordVersion, Begin, OpenTemp, FillTemp,
         RenameTemp, FailRow, Interrupt, LoseFiles

(* No step takes the blob of a record away but the loss of all files.      *)
LEMMA DownloadsNext ==
  ASSUME IInv, [Next]_vars
  PROVE  RecordedDownloads'
<1> USE DEF IInv
<1>1. ASSUME NEW i \in Recorded PROVE rows[i] \in Row /\ rows[i].content \in Contents
  BY DEF Recorded, TypeOK, Row
<1>2. ASSUME UNCHANGED <<rows, files, lost>> PROVE RecordedDownloads'
  BY <1>2 DEF RecordedDownloads, Downloaded, Recorded, Target
<1>3. ASSUME UNCHANGED <<rows, lost>>,
             \A c \in Contents : \/ files'[Target(c)] = files[Target(c)]
                                 \/ files'[Target(c)] = "whole"
      PROVE  RecordedDownloads'
  <2>1. ASSUME NEW i \in Recorded
        PROVE  Downloaded(i)' = Downloaded(i) \/ Downloaded(i)' = "whole"
    BY <1>1, <1>3 DEF Downloaded, Target
  <2>2. Recorded' = Recorded
    BY <1>3 DEF Recorded
  <2> QED
    BY <1>3, <2>1, <2>2 DEF RecordedDownloads
<1>4. ASSUME OpenTemp \/ FillTemp \/ RenameTemp PROVE RecordedDownloads'
  <2>1. upload.request.content \in Contents
    BY <1>4, UploadType DEF OpenTemp, FillTemp, RenameTemp, Labels
  <2>2. ASSUME NEW c \in Contents
        PROVE  \/ files'[Target(c)] = files[Target(c)]
               \/ files'[Target(c)] = "whole"
    <3>1. CASE OpenTemp
      BY <2>1, <3>1, PathsApart DEF OpenTemp, Open, TypeOK
    <3>2. CASE FillTemp
      BY <2>1, <3>2, PathsApart DEF FillTemp, TypeOK
    <3>3. CASE RenameTemp /\ c = upload.request.content
      BY <2>1, <3>3, PathsApart DEF RenameTemp, TypeOK, BlobsSound
    <3>4. CASE RenameTemp /\ c # upload.request.content
      BY <2>1, <3>4, PathsApart DEF RenameTemp, TypeOK
    <3> QED
      BY <1>4, <3>1, <3>2, <3>3, <3>4
  <2>3. UNCHANGED <<rows, lost>>
    BY <1>4 DEF OpenTemp, FillTemp, RenameTemp
  <2> QED
    BY <1>3, <2>2, <2>3
<1>5. ASSUME InsertRow PROVE RecordedDownloads'
  <2> DEFINE c == upload.request.content
  <2>1. PICK i \in Ids \ Recorded :
           /\ rows'[i] = NewRow(upload.request)
           /\ \A j \in Recorded : rows'[j] = rows[j]
           /\ Recorded' = Recorded \cup {i}
    BY <1>5, Inserted
  <2>2. rows'[i].content = c
    BY <2>1 DEF NewRow
  <2>3. files[Target(c)] = "whole"
    BY <1>5 DEF InsertRow, BlobsSound
  <2>4. Downloaded(i)' = "whole"
    BY <1>5, <2>2, <2>3 DEF InsertRow, Downloaded, Target
  <2>5. ASSUME NEW j \in Recorded PROVE Downloaded(j)' = Downloaded(j)
    BY <1>5, <2>1 DEF InsertRow, Downloaded, Target
  <2> QED
    BY <1>5, <2>1, <2>4, <2>5 DEF InsertRow, RecordedDownloads
<1>6. ASSUME LoseFiles PROVE RecordedDownloads'
  <2>1. Recorded' = Recorded /\ lost' = Recorded
    BY <1>6 DEF LoseFiles, Recorded
  <2>2. ASSUME NEW i \in Recorded PROVE Downloaded(i)' = "absent"
    BY <1>1, <1>6, PathsApart DEF LoseFiles, Downloaded, Target
  <2> QED
    BY <2>1, <2>2 DEF RecordedDownloads
<1> QED
  BY <1>2, <1>4, <1>5, <1>6
     DEF Next, Accept, Serve, vars, RecordVersion, Replay, Begin, FailRow, Interrupt

LEMMA Invariance == Spec => []IInv
<1>1. IInv /\ [Next]_vars => IInv'
  BY TypeNext, BlobsNext, RecordsNext, DownloadsNext DEF IInv
<1> QED
  BY <1>1, InvInit, PTL DEF Spec

(* Theorem: a recorded artifact downloads as the uploaded bytes, unless    *)
(* the directory was lost after it was recorded.                           *)
THEOREM DownloadsCorrect == Spec => []RecordedDownloads
<1>1. IInv => RecordedDownloads
  BY DEF IInv
<1> QED
  BY <1>1, Invariance, PTL

(***************************************************************************)
(* The end of an upload.                                                   *)
(***************************************************************************)
(* Bytes that are being uploaded have no record yet under their version.   *)
UploadIsNew == upload # Idle => Found(upload.request) = {}

LEMMA UploadNext ==
  ASSUME IInv, UploadIsNew, [Next]_vars
  PROVE  UploadIsNew'
<1>1. CASE UNCHANGED <<rows, upload>>
  BY <1>1 DEF UploadIsNew, Found, Recorded, SameArtifact
<1>2. CASE upload' = Idle
  BY <1>2 DEF UploadIsNew
<1>3. ASSUME NEW q \in Requests, Begin(q) PROVE UploadIsNew'
  <2>1. Found(q)' = {}
    BY <1>3 DEF Begin, Found, Recorded, SameArtifact
  <2> QED
    BY <1>3, <2>1 DEF Begin, UploadIsNew
<1>4. ASSUME UNCHANGED rows, NEW label, Goto(label), upload.pc \in Labels
      PROVE  UploadIsNew'
  <2>1. upload \in [pc: Labels, request: Requests] /\ upload # Idle
    BY <1>4, UploadType DEF IInv, Idle, Labels
  <2>2. upload'.request = upload.request
    BY <1>4, <2>1 DEF Goto
  <2>3. Found(upload.request) = {}
    BY <2>1 DEF UploadIsNew
  <2>4. Found(upload.request)' = {}
    BY <1>4, <2>2, <2>3 DEF Found, Recorded, SameArtifact
  <2> QED
    BY <2>4 DEF UploadIsNew
<1> QED
  BY <1>1, <1>2, <1>3, <1>4
     DEF Next, Accept, Serve, vars, RecordVersion, Replay, OpenTemp, FillTemp,
         RenameTemp, FailRow, InsertRow, Interrupt, LoseFiles, Labels

(* Theorem: an upload that is refused at its row has a time without zone,  *)
(* or its bytes are recorded for another version.  So a client that sends  *)
(* a file again after its answer was lost is never refused on account of   *)
(* its own first upload.                                                   *)
THEOREM RefusalsAreJustified ==
  Spec => [][FailRow => \/ upload.request.captured = "naive"
                        \/ Taken(upload.request)]_vars
<1>1. Init => UploadIsNew
  BY DEF Init, UploadIsNew
<1>2. IInv /\ UploadIsNew /\ [Next]_vars => UploadIsNew'
  BY UploadNext
<1>3. IInv /\ UploadIsNew /\ [Next]_vars =>
        [FailRow => \/ upload.request.captured = "naive"
                    \/ Taken(upload.request)]_vars
  <2> SUFFICES ASSUME IInv, UploadIsNew, FailRow, ViolatesUnique(upload.request)
               PROVE  Taken(upload.request)
    BY DEF FailRow, Refused
  <2>1. upload # Idle
    BY DEF FailRow, Idle
  <2>2. PICK i \in Recorded : rows[i].content = upload.request.content
    BY DEF ViolatesUnique
  <2>3. rows[i].version # upload.request.version
    BY <2>1, <2>2 DEF UploadIsNew, Found, SameArtifact
  <2> QED
    BY <2>2, <2>3 DEF Taken
<1> QED
  BY <1>1, <1>2, <1>3, Invariance, PTL DEF Spec

(* How many steps of its own an upload at a label has left at most.        *)
Rank == [label \in Labels |-> CASE label = "insert" -> 1 [] label = "rename" -> 2
                                [] label = "fill" -> 3 [] label = "open" -> 4]

(* Theorem: an upload never goes back: a step of it ends it or takes it to *)
(* a label of lower rank, so after it has begun at most four of its steps  *)
(* separate it from its answer, whatever earlier uploads left behind.      *)
THEOREM UploadsAdvance ==
  Spec => [][Serve => \/ upload' = Idle
                      \/ /\ upload'.request = upload.request
                         /\ Rank[upload'.pc] < Rank[upload.pc]]_vars
<1>1. /\ Rank["insert"] = 1 /\ Rank["rename"] = 2
      /\ Rank["fill"] = 3 /\ Rank["open"] = 4
  BY DEF Rank, Labels
<1>2. IInv /\ [Next]_vars =>
        [Serve => \/ upload' = Idle
                  \/ /\ upload'.request = upload.request
                     /\ Rank[upload'.pc] < Rank[upload.pc]]_vars
  <2> SUFFICES ASSUME IInv, Serve, upload' # Idle
               PROVE  /\ upload'.request = upload.request
                      /\ Rank[upload'.pc] < Rank[upload.pc]
    OBVIOUS
  <2>1. upload \in [pc: Labels, request: Requests]
    BY UploadType
       DEF Serve, OpenTemp, FillTemp, RenameTemp, FailRow, InsertRow, IInv, Labels
  <2>2. CASE OpenTemp
    BY <1>1, <2>1, <2>2 DEF OpenTemp, Goto
  <2>3. CASE FillTemp
    BY <1>1, <2>1, <2>3 DEF FillTemp, Goto
  <2>4. CASE RenameTemp
    BY <1>1, <2>1, <2>4 DEF RenameTemp, Goto
  <2> QED
    BY <2>2, <2>3, <2>4 DEF Serve, FailRow, InsertRow
<1> QED
  BY <1>2, Invariance, PTL DEF Spec

(***************************************************************************)
(* The refinement of OnceOnly.                                             *)
(***************************************************************************)
(* An answer to q with a record of its version and content is a step of    *)
(* OnceOnly, or repeats what q was answered.                               *)
LEMMA AnswerStep ==
  ASSUME IInv, NEW q \in Requests, NEW i \in Ids,
         answers' = [answers EXCEPT ![q] = i],
         \/ i \in Found(q)
         \/ i \notin Recorded /\ answers[q] = NULL
  PROVE  [Once!Next]_answers
<1> USE DEF IInv
<1>1. CASE answers[q] # NULL
  <2>1. i \in Recorded /\ SameArtifact(i, q)
    BY <1>1 DEF Found
  <2>2. answers[q] \in Recorded /\ SameArtifact(answers[q], q)
    BY <1>1 DEF RecordsSound
  <2>3. answers[q] = i
    BY <2>1, <2>2 DEF RecordsSound, SameArtifact
  <2> QED
    BY <2>3 DEF TypeOK
<1>2. CASE answers[q] = NULL
  <2>1. Once!Unused(i) \/ \E p \in Requests : answers[p] = i /\ Alike(p, q)
    <3>1. ASSUME NEW p \in Requests, answers[p] = i PROVE Alike(p, q)
      <4>1. i \in Recorded /\ SameArtifact(i, p)
        BY <3>1, NullAssumption DEF RecordsSound
      <4>2. SameArtifact(i, q)
        BY <4>1 DEF Found
      <4> QED
        BY <4>1, <4>2 DEF SameArtifact, Alike
    <3> QED
      BY <3>1 DEF Once!Unused
  <2>2. Once!Answer(q, i)
    BY <1>2, <2>1 DEF Once!Answer
  <2> QED
    BY <2>2 DEF Once!Next
<1> QED
  BY <1>1, <1>2

LEMMA OnceNext ==
  ASSUME IInv, [Next]_vars
  PROVE  [Once!Next]_answers
<1> USE DEF IInv
<1>1. ASSUME NEW q \in Requests, Replay(q) PROVE [Once!Next]_answers
  <2>1. PICK i \in Found(q) : answers' = [answers EXCEPT ![q] = i]
    BY <1>1 DEF Replay
  <2>2. i \in Ids
    BY DEF Found, Recorded
  <2> QED
    BY <2>1, <2>2, AnswerStep
<1>2. ASSUME InsertRow PROVE [Once!Next]_answers
  <2> DEFINE q == upload.request
  <2>1. PICK i \in Ids \ Recorded :
          answers' = [answers EXCEPT ![q] = i] \/ answers' = answers
    BY <1>2, Inserted
  <2>2. q \in Requests
    BY <1>2, UploadType DEF InsertRow, Labels
  <2>3. answers[q] = NULL
    BY <1>2, <2>2 DEF InsertRow, ViolatesUnique, RecordsSound, SameArtifact
  <2>4. CASE answers' = [answers EXCEPT ![q] = i]
    BY <2>1, <2>2, <2>3, <2>4, AnswerStep
  <2> QED
    BY <2>1, <2>4
<1>3. ASSUME UNCHANGED answers PROVE [Once!Next]_answers
  BY <1>3
<1> QED
  BY <1>1, <1>2, <1>3
     DEF Next, Accept, Serve, vars, RecordVersion, Begin, OpenTemp, FillTemp,
         RenameTemp, FailRow, Interrupt, LoseFiles

(* Theorem: uploads are idempotent as OnceOnly promises, through any       *)
(* number of interrupted uploads, lost answers and lost directories.       *)
THEOREM OnceOnlyImplemented == Spec => ImplementsOnceOnly
<1>1. Init => Once!Init
  BY DEF Init, Once!Init
<1>2. IInv /\ [Next]_vars => [Once!Next]_answers
  BY OnceNext
<1> QED
  BY <1>1, <1>2, Invariance, PTL DEF Spec, ImplementsOnceOnly, Once!Spec

=============================================================================

-------------------------- MODULE MCResumeArtifacts -------------------------
(***************************************************************************)
(* One file for two versions, sent with a time, without one and with one   *)
(* that has no zone; and another file.                                     *)
(***************************************************************************)
EXTENDS ResumeArtifacts

Q(version, content, captured) ==
  [version |-> version, content |-> content, captured |-> captured]

MCRequests ==
  {Q("v1", "pdf", NULL), Q("v1", "pdf", "naive"), Q("v2", "pdf", "aware"),
   Q("v2", "rtf", NULL), Q("v1", "rtf", "naive")}

=============================================================================

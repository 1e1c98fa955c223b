---------------------------- MODULE MCRecordPages ---------------------------
(* Instances of RecordPages for TLC.                                       *)
EXTENDS RecordPages

CONSTANTS member, project, client

\* Every member, project and client is offered: organizations have fewer than
\* PageSize projects, all clients are active.
Everything ==
  [assignee |-> {member}, project |-> {project}, client |-> {client}]
=============================================================================

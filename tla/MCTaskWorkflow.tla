--------------------------- MODULE MCTaskWorkflow ---------------------------
(***************************************************************************)
(* Small instances of TaskWorkflow: one organization with a manager and    *)
(* two employees, and a manager of another organization.                   *)
(***************************************************************************)
EXTENDS TaskWorkflow, TLC

CONSTANTS t1, t2, r1, r2, r3, mgr, emp1, emp2, outsider, short, other, long, orgA, orgB

Managers == {mgr, outsider}

OrgOfUser == [u \in User |-> IF u = outsider THEN orgB ELSE orgA]

Body(c, a, s) == [content |-> c, assignee |-> a, status |-> s]

StoredRow(c, a, s) ==
  [org |-> orgA, content |-> c, assignee |-> a, creator |-> mgr,
   status |-> s, locked |-> FALSE, version |-> 1]

\* Bodies that carry a status and nothing else.
StatusBodies == {Body(Unset, Unset, s) : s \in Status}

\* Edits of one field, an edit with a transition, reassignments (one of them
\* to another organization) and the transitions around a review.
MixedBodies ==
  {Body(other, Unset, Unset), Body(long, Unset, "APPROVED"),
   Body(Unset, emp2, Unset), Body(short, outsider, Unset),
   Body(short, emp2, "APPROVED"), Body(Unset, emp1, "PENDING_REVIEW")}
  \cup {Body(Unset, Unset, s) : s \in {"PENDING_REVIEW", "APPROVED", "REJECTED"}}

\* Fewer of them for the run in which a second task may be created.
SerialBodies ==
  {Body(other, Unset, Unset), Body(other, emp2, "APPROVED"), Body(Unset, outsider, Unset),
   Body(Unset, Unset, "PENDING_REVIEW"), Body(Unset, Unset, "DRAFT")}

\* An edit and the approval it may race with.
RaceBodies == {Body(other, Unset, Unset), Body(Unset, Unset, "APPROVED")}

\* A reassignment and the status change it may race with.
HandoverBodies == {Body(Unset, emp2, Unset), Body(Unset, Unset, "APPROVED")}

\* Reassignments and a review, none with a title too long to notify about.
NoticeBodies ==
  {Body(short, emp2, "DRAFT"), Body(Unset, emp2, Unset), Body(other, Unset, "REJECTED"),
   Body(Unset, Unset, "APPROVED")}

\* A title too long for a notification, assigned at once.
LongBodies == {Body(long, emp1, "DRAFT"), Body(Unset, Unset, "PENDING_REVIEW")}

AnyStoredRow == {StoredRow(short, emp1, s) : s \in Status}
                  \cup {StoredRow(short, NoUser, "PENDING_REVIEW")}
ReviewRow    == {StoredRow(short, emp1, "PENDING_REVIEW")}
OpenRow      == {StoredRow(short, emp1, s) : s \in {"PENDING_REVIEW", "REJECTED"}}
NoStoredRow  == {}

\* Requests are alike: each is idle until it begins and never comes back.
RequestSymmetry == Permutations(Request)

=============================================================================

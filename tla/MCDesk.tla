------------------------------- MODULE MCDesk -------------------------------
(* Instances of Desk for TLC.                                              *)
EXTENDS Desk

Bounds == [p \in {"dashboard", "organizations", "audit-logs", "notifications"} |->
             IF p \in {"dashboard", "notifications"} THEN 2 ELSE 3]

SomePages == {"dashboard", "organizations", "audit-logs", "notifications"}

\* Two users, an organization, a project and three tasks of some months, none
\* of them from the last week.
Records ==
  [k \in {"users", "organizations", "projects", "tasks"} |->
     CASE k = "users" -> <<200, 40>> [] k = "organizations" -> <<200>>
       [] k = "projects" -> <<20>> [] OTHER -> <<20, 9, 0>>]

Rows == [r \in {"7d", "30d", "6m", "1y"} |->
           CASE r = "7d" -> 7 [] r \in {"30d", "6m"} -> 30 [] OTHER -> 12]

\* By status, and by nothing but two kinds of client.
Counts ==
  [t \in {"projects", "tasks", "clients"} |->
     CASE t = "projects" -> [PLANNED |-> 0, IN_PROGRESS |-> 1, ON_HOLD |-> 0, COMPLETED |-> 0, CANCELLED |-> 0]
       [] t = "tasks"    -> [DRAFT |-> 1, PENDING_REVIEW |-> 2, CHANGES_REQUESTED |-> 0, APPROVED |-> 0,
                              REJECTED |-> 0]
       [] OTHER          -> [active |-> 1, inactive |-> 0]]

\* A wide canvas, and one so narrow that more is drawn than fits.
Sizes == {<<700, 250>>, <<280, 230>>}
MousePlaces == {<<210, 40>>, <<650, 220>>}
ATip == <<150, 110>>

\* The entries fill two pages, one of them with updates.
AuditPages == [f \in {"", "UPDATE"} |-> IF f = "" THEN 2 ELSE 1]
=============================================================================

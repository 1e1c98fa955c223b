----------------------------- MODULE RecordPages ----------------------------
(***************************************************************************)
(* A browser window on one of the five record pages.  Every page is a      *)
(* document of its own, so a behaviour is about the page it starts on.     *)
(***************************************************************************)
EXTENDS RecordPage

VARIABLE page

Tasks         == INSTANCE TasksPage
Projects      == INSTANCE ProjectsPage
Clients       == INSTANCE ClientsPage
Organizations == INSTANCE OrganizationsPage
Users         == INSTANCE UsersPage

allVars == <<vars, page>>

Init ==
  \/ page = "tasks" /\ Tasks!Init
  \/ page = "projects" /\ Projects!Init
  \/ page = "clients" /\ Clients!Init
  \/ page = "organizations" /\ Organizations!Init
  \/ page = "users" /\ Users!Init

Next ==
  /\ UNCHANGED page
  /\ \/ page = "tasks" /\ Tasks!Next
     \/ page = "projects" /\ Projects!Next
     \/ page = "clients" /\ Clients!Next
     \/ page = "organizations" /\ Organizations!Next
     \/ page = "users" /\ Users!Next

\* The continuations of the page: the event loop runs what is ready.
Handlers ==
  /\ UNCHANGED page
  /\ \/ page = "tasks" /\ Tasks!Handlers
     \/ page = "projects" /\ Projects!Handlers
     \/ page = "clients" /\ Clients!Handlers
     \/ page = "organizations" /\ Organizations!Handlers
     \/ page = "users" /\ Users!Handlers

\* The server answers what reaches it.
Server ==
  /\ UNCHANGED page
  /\ \E n \in DOMAIN calls :
       LET c == calls[n] IN
       \/ page = "tasks" /\ Serve(n, Tasks!accepts(c), Tasks!Created(c.body))
       \/ page = "projects" /\ Serve(n, Projects!accepts(c), Projects!Created(c.body))
       \/ page = "clients" /\ Serve(n, Clients!accepts(c), Clients!Created(c.body))
       \/ page = "organizations" /\ Serve(n, Organizations!accepts(c), Organizations!Created(c.body))
       \/ page = "users" /\ Serve(n, Users!accepts(c), Users!Created(c.body))

Spec == Init /\ [][Next]_allVars

FairSpec == Spec /\ WF_allVars(Handlers) /\ WF_allVars(Server)

\* What a task page never has refused; see TasksPage.
RefusedOnlyWhenStale == [][page = "tasks" => Tasks!RefusedForAChange]_allVars
=============================================================================

------------------------------ MODULE Directory ------------------------------
(***************************************************************************)
(* Organizations and what hangs on them: clients, projects with their      *)
(* members, tasks, departments, the audit log and the accounts.  The       *)
(* endpoints are OrganizationViewSet, ClientViewSet, ProjectViewSet, the   *)
(* department views and, as far as links and deletions go, TaskViewSet.    *)
(*                                                                         *)
(* Every statement is autocommitted.  A handler is cut between any two of  *)
(* them, and what it read is a copy (new) that it writes back whole.  A    *)
(* deletion is four parts: the guard, the audit entry, Django's collector  *)
(* reading what will cascade, and one transaction removing what was read.  *)
(***************************************************************************)
EXTENDS Naturals, FiniteSets, Sequences

CONSTANTS
  Org,         \* primary keys of organizations
  Client, Project, Task, Department,
  User,        \* the accounts
  Writer,      \* those with is_admin_or_manager
  Admin,       \* those with is_admin
  InitialRow,  \* the record tables the model may start with
  InitialOrg,  \* the organizations that exist then
  InitialHome, \* and the organization of each account
  Request,     \* every HTTP request the model lets happen
  Workers,     \* how many requests the server executes at a time
  MaxMoves,    \* how often the admin site moves an account
  Faults,      \* whether a request may die between two statements
  NoLink, NoTarget, NoUser, NoRow, Unset

Record == Client \cup Project \cup Task \cup Department

\* The nullable foreign key of each record: client, project or parent.
LinkKind(x) ==
  {l \in Client : x \in Project} \cup {l \in Project : x \in Task}
    \cup {l \in Department : x \in Department}

Row == [org : Org, link : Client \cup Project \cup Department \cup {NoLink}]

ASSUME DirectoryAssumption ==
  /\ Admin \subseteq Writer /\ Writer \subseteq User
  /\ IsFiniteSet(Request)
  /\ Workers \in Nat /\ MaxMoves \in Nat /\ Faults \in BOOLEAN
  /\ Client \cap (Project \cup Task \cup Department) = {}
  /\ Project \cap (Task \cup Department) = {}
  /\ Task \cap Department = {}
  /\ Record \cap Org = {}
  /\ NoLink \notin Record /\ Unset \notin Record \cup {NoLink}
  /\ NoTarget \notin Record \cup Org
  /\ NoUser \notin User
  /\ NoRow \notin Row

\* The tables of a sound database.
ASSUME InitialAssumption ==
  /\ InitialOrg \subseteq Org
  /\ InitialHome \in [User -> InitialOrg]
  /\ \A w \in InitialRow :
       /\ DOMAIN w \subseteq Record
       /\ \A x \in DOMAIN w :
            /\ w[x] \in Row
            /\ w[x].org \in InitialOrg
            /\ w[x].link # NoLink => /\ w[x].link \in LinkKind(x) \cap DOMAIN w
                                    /\ w[w[x].link].org = w[x].org

VARIABLES
  status,   \* status[k]: whether the row with primary key k is there yet or still
  row,      \* row[x]: the columns of record x, NoRow when it has none
  member,   \* ProjectMember rows, as pairs
  home,     \* home[u]: organization_id of account u
  audit,    \* AuditLog rows
  moves,    \* moves made on the admin site so far
  req       \* req[r]: what the thread serving request r holds

db == <<status, row, member, home, audit>>
vars == <<status, row, member, home, audit, moves, req>>

Live(k) == status[k] = "live"

LinkOf(x) == IF Live(x) THEN row[x].link ELSE NoLink

-----------------------------------------------------------------------------
(* The request as its handler holds it. *)

\* The four tables whose rows protect an organization, in the order counted.
Count == <<"users", "clients", "projects", "tasks">>

Active == {"save", "join", "leave", "saveOrg", "count", "audit", "collect", "purge"}

Local(pc, action, k, w, c, v, S) ==
  [pc |-> pc, action |-> action, target |-> k, new |-> w, changed |-> c,
   user |-> v, next |-> 1, taken |-> {}, before |-> S]

Begin(pc, action, k, w, c) == Local(pc, action, k, w, c, NoUser, {})

Idle == Begin("idle", "none", NoTarget, NoRow, FALSE)

Done == Begin("done", "none", NoTarget, NoRow, FALSE)

InFlight == {r \in Request : req[r].pc \in Active}

CanStart(r) == req[r].pc = "idle" /\ Cardinality(InFlight) < Workers

\* A primary key is a fresh uuid4: never used, by a row or by a creation under way.
Fresh(k) == status[k] = "unborn" /\ \A r \in Request : req[r].target # k

Goto(r, q) == req' = [req EXCEPT ![r] = q]

-----------------------------------------------------------------------------
(* Rules. *)

\* get_queryset: the records of the organization the caller had when the
\* request was authenticated, and nothing else.
Visible(u, x) == Live(x) /\ row[x].org = home[u]

\* Faulty variant: any existing row may be linked to.
AnyLink(u, l) == l \in Record => Live(l)

\* validate_client, validate_project, validate_parent.
ValidLink(u, l) == l \in Record => Visible(u, l)

\* Faulty variant: what the body leaves out is not taken from the instance.
PatchedRaw(w, l) == [w EXCEPT !.link = l]

Patched(w, l) == [w EXCEPT !.link = IF l = Unset THEN @ ELSE l]

\* Faulty variant: tasks are removed without an entry.
AuditedButTasks == Client \cup Project \cup Org

\* Departments and members are written without an entry.
Audited == Client \cup Project \cup Task \cup Org

\* InnoDB checks the foreign keys of a row when it is written; a row may link to
\* itself.
ForeignKeys(x, w) == Live(w.org) /\ (w.link \in Record \ {x} => Live(w.link))

OrgOf(q) == IF q.target \in Org THEN q.target ELSE q.new.org

AuditEntry(r) == [req |-> r, action |-> req[r].action,
                  org |-> OrgOf(req[r]), target |-> req[r].target]

\* What the saved request does next: perform_update records what differs in the
\* compared columns (name, status, priority, is_active), the others nothing.
AfterSave(q) == IF q.target \in Audited /\ q.changed THEN [q EXCEPT !.pc = "audit"] ELSE Done

-----------------------------------------------------------------------------
(* Clients, projects, tasks and departments. *)

Create(r) ==
  \E u \in Writer, x \in Record : \E l \in LinkKind(x) \cup {NoLink} :
    /\ CanStart(r)
    /\ Fresh(x)
    /\ ValidLink(u, l)
    /\ Goto(r, Begin("save", "CREATE", x, [org |-> home[u], link |-> l], TRUE))
    /\ UNCHANGED <<db, moves>>

Update(r) ==
  \E u \in Writer, x \in Record, c \in BOOLEAN :
    \E l \in LinkKind(x) \cup {NoLink, Unset} :
      /\ CanStart(r)
      /\ Visible(u, x)
      /\ ValidLink(u, l)
      /\ Goto(r, Begin("save", "UPDATE", x, Patched(row[x], l), c))
      /\ UNCHANGED <<db, moves>>

\* serializer.save(): an INSERT, or an UPDATE of every column of the copy,
\* which becomes an INSERT when the row has been deleted meanwhile.
Save(r) ==
  /\ req[r].pc = "save"
  /\ LET q == req[r] IN
       IF ForeignKeys(q.target, q.new)
       THEN /\ status' = [status EXCEPT ![q.target] = "live"]
            /\ row' = [row EXCEPT ![q.target] = q.new]
            /\ Goto(r, AfterSave(q))
       ELSE Goto(r, Done) /\ UNCHANGED <<status, row>>
  /\ UNCHANGED <<member, home, audit, moves>>

Destroy(r) ==
  \E u \in Writer, x \in Record :
    /\ CanStart(r)
    /\ Visible(u, x)
    /\ Goto(r, Begin(IF x \in Audited THEN "audit" ELSE "collect", "DELETE", x, row[x], TRUE))
    /\ UNCHANGED <<db, moves>>

\* record_audit_log: the entry's organization must still exist.
Audit(r) ==
  /\ req[r].pc = "audit"
  /\ LET q == req[r] IN
       IF Live(OrgOf(q))
       THEN /\ audit' = audit \cup {AuditEntry(r)}
            /\ Goto(r, IF q.action = "DELETE" THEN [q EXCEPT !.pc = "collect"] ELSE Done)
       ELSE Goto(r, Done) /\ UNCHANGED audit
  /\ UNCHANGED <<status, row, member, home, moves>>

AddMember(r) ==
  \E u \in Writer, p \in Project, v \in User :
    /\ CanStart(r)
    /\ Visible(u, p)
    /\ home[v] = home[u]
    /\ Goto(r, Local("join", "none", p, NoRow, FALSE, v, {}))
    /\ UNCHANGED <<db, moves>>

\* Faulty variant: the project the handler holds is taken to be there still.
JoinUnchecked(r) ==
  /\ req[r].pc = "join"
  /\ member' = member \cup {<<req[r].target, req[r].user>>}
  /\ Goto(r, Done)
  /\ UNCHANGED <<status, row, home, audit, moves>>

\* update_or_create
Join(r) ==
  /\ req[r].pc = "join"
  /\ member' = IF Live(req[r].target)
               THEN member \cup {<<req[r].target, req[r].user>>} ELSE member
  /\ Goto(r, Done)
  /\ UNCHANGED <<status, row, home, audit, moves>>

RemoveMember(r) ==
  \E u \in Writer, p \in Project, v \in User :
    /\ CanStart(r)
    /\ Visible(u, p)
    /\ Goto(r, Local("leave", "none", p, NoRow, FALSE, v, {}))
    /\ UNCHANGED <<db, moves>>

Leave(r) ==
  /\ req[r].pc = "leave"
  /\ member' = member \ {<<req[r].target, req[r].user>>}
  /\ Goto(r, Done)
  /\ UNCHANGED <<status, row, home, audit, moves>>

-----------------------------------------------------------------------------
(* Organizations: an Admin of any of them manages all of them. *)

RecordsOf(o) == {x \in Record : Live(x) /\ row[x].org = o}

UsersOf(o) == {u \in User : home[u] = o}

CreateOrg(r) ==
  \E u \in Admin, o \in Org :
    /\ CanStart(r)
    /\ Fresh(o)
    /\ Goto(r, Begin("saveOrg", "CREATE", o, NoRow, TRUE))
    /\ UNCHANGED <<db, moves>>

UpdateOrg(r) ==
  \E u \in Admin, o \in Org, c \in BOOLEAN :
    /\ CanStart(r)
    /\ Live(o)
    /\ Goto(r, Begin("saveOrg", "UPDATE", o, NoRow, c))
    /\ UNCHANGED <<db, moves>>

SaveOrg(r) ==
  /\ req[r].pc = "saveOrg"
  /\ status' = [status EXCEPT ![req[r].target] = "live"]
  /\ Goto(r, AfterSave(req[r]))
  /\ UNCHANGED <<row, member, home, audit, moves>>

\* before is not in the code: what an organization held when its deletion
\* began and has held ever since.
DestroyOrg(r) ==
  \E u \in Admin, o \in Org :
    /\ CanStart(r)
    /\ Live(o)
    /\ Goto(r, Local("count", "DELETE", o, NoRow, TRUE, NoUser, RecordsOf(o)))
    /\ UNCHANGED <<db, moves>>

\* Faulty variant: what hangs on a project is taken to be counted with it.
CountedUnderProjects(o) ==
  [users |-> UsersOf(o), clients |-> RecordsOf(o) \cap Client,
   projects |-> RecordsOf(o) \cap Project, tasks |-> {}]

related_counts(o) ==
  [users |-> UsersOf(o), clients |-> RecordsOf(o) \cap Client,
   projects |-> RecordsOf(o) \cap Project, tasks |-> RecordsOf(o) \cap Task]

\* The four counts are statements, one after the other.  A count above zero
\* ends in 400 whatever the others say.
CountRelated(r) ==
  /\ req[r].pc = "count"
  /\ LET q == req[r] IN
       Goto(r, IF related_counts(q.target)[Count[q.next]] # {} THEN Done
               ELSE IF q.next < Len(Count) THEN [q EXCEPT !.next = @ + 1]
               ELSE [q EXCEPT !.pc = "audit"])
  /\ UNCHANGED <<db, moves>>

-----------------------------------------------------------------------------
(* instance.delete(), which the views leave to Django's Collector. *)

\* The tasks of a project cascade; what else links to a record is set to null.
Cascade(x) == {x} \cup {t \in Task : LinkOf(t) = x}

\* collect(): reads what will be deleted.  An account is RESTRICT.
Collect(r) ==
  /\ req[r].pc = "collect"
  /\ LET q == req[r] IN
       Goto(r, IF q.target \in Org /\ UsersOf(q.target) # {} THEN Done
               ELSE [q EXCEPT !.pc = "purge",
                              !.taken = IF q.target \in Org THEN RecordsOf(q.target)
                                        ELSE Cascade(q.target)])
  /\ UNCHANGED <<db, moves>>

\* What was not read and still points at what is removed, other than through
\* a key that is set to null: the transaction fails and is rolled back.
Blocking(q) ==
  {t \in Task \ q.taken : LinkOf(t) \in q.taken}
    \cup (IF q.target \in Org THEN (RecordsOf(q.target) \ q.taken) \cup UsersOf(q.target)
          ELSE {})

\* Faulty variant: the keys that point at what is removed are left alone.
KeepLinks(x, taken) == row[x]

SetNull(x, taken) ==
  IF LinkOf(x) \in taken THEN [row[x] EXCEPT !.link = NoLink] ELSE row[x]

\* delete(): one transaction over the rows read before, and over whatever
\* members, audit entries and nullable keys belong to them by now.
Purge(r) ==
  /\ req[r].pc = "purge"
  /\ LET q    == req[r]
         gone == q.taken \cup {q.target}
     IN  IF Blocking(q) = {}
         THEN /\ status' = [k \in Record \cup Org |->
                              IF k \in gone /\ Live(k) THEN "gone" ELSE status[k]]
              /\ row' = [x \in Record |->
                           IF x \in gone THEN NoRow ELSE SetNull(x, q.taken)]
              /\ member' = {m \in member : m[1] \notin q.taken}
              /\ audit' = {e \in audit : e.org # q.target}
              /\ req' = [i \in Request |->
                           IF i = r THEN Done ELSE [req[i] EXCEPT !.before = @ \ gone]]
         ELSE Goto(r, Done) /\ UNCHANGED <<status, row, member, audit>>
  /\ UNCHANGED <<home, moves>>

-----------------------------------------------------------------------------

\* The Django admin site is the one place that moves an account.
MoveUser ==
  \E u \in User, o \in Org :
    /\ moves < MaxMoves
    /\ Live(o)
    /\ home[u] # o
    /\ home' = [home EXCEPT ![u] = o]
    /\ moves' = moves + 1
    /\ UNCHANGED <<status, row, member, audit, req>>

\* The worker is killed, or an exception nobody handles ends the request.
Abort(r) ==
  /\ Faults
  /\ req[r].pc \in Active
  /\ Goto(r, Done)
  /\ UNCHANGED <<db, moves>>

Init ==
  /\ \E w \in InitialRow :
       /\ row = [x \in Record |-> IF x \in DOMAIN w THEN w[x] ELSE NoRow]
       /\ status = [k \in Record \cup Org |->
                      IF k \in DOMAIN w \cup InitialOrg THEN "live" ELSE "unborn"]
  /\ home = InitialHome
  /\ member = {}
  /\ audit = {}
  /\ moves = 0
  /\ req = [r \in Request |-> Idle]

Handler(r) ==
  \/ Create(r) \/ Update(r) \/ Save(r) \/ Destroy(r) \/ Audit(r)
  \/ AddMember(r) \/ Join(r) \/ RemoveMember(r) \/ Leave(r)
  \/ CreateOrg(r) \/ UpdateOrg(r) \/ SaveOrg(r)
  \/ DestroyOrg(r) \/ CountRelated(r)
  \/ Collect(r) \/ Purge(r)
  \/ Abort(r)

Next == MoveUser \/ \E r \in Request : Handler(r)

Spec == Init /\ [][Next]_vars

-----------------------------------------------------------------------------
(* Properties *)

Target == Record \cup Org

Locals ==
  [pc : Active \cup {"idle", "done"}, action : {"none", "CREATE", "UPDATE", "DELETE"},
   target : Target \cup {NoTarget}, new : Row \cup {NoRow}, changed : BOOLEAN,
   user : User \cup {NoUser}, next : 1 .. Len(Count),
   taken : SUBSET Record, before : SUBSET Record]

TypeOK ==
  /\ status \in [Target -> {"unborn", "live", "gone"}]
  /\ row \in [Record -> Row \cup {NoRow}]
  /\ member \subseteq Project \X User
  /\ home \in [User -> Org]
  /\ audit \subseteq [req : Request, action : {"CREATE", "UPDATE", "DELETE"},
                      org : Org, target : Target]
  /\ moves \in 0 .. MaxMoves
  /\ req \in [Request -> Locals]

\* Every row that is there belongs to an organization that is there and links,
\* if to anything, to a row of the kind its key names that is there and in the
\* same organization; members are of projects, accounts and audit entries of
\* organizations that are there.  The serializers check the organizations, on
\* rows read before the insert; nothing checks them again.
LinksHold ==
  /\ \A x \in Record : Live(x) =>
       /\ row[x] \in Row
       /\ Live(row[x].org)
       /\ row[x].link # NoLink =>
            /\ row[x].link \in LinkKind(x)
            /\ Live(row[x].link)
            /\ row[row[x].link].org = row[x].org
  /\ \A m \in member : Live(m[1])
  /\ \A u \in User : Live(home[u])
  /\ \A e \in audit : Live(e.org)

\* A client, project or task that is there leaves only through a request that
\* has recorded a DELETE entry about its own target, be it the record, its
\* project or the organization; and an audit entry leaves only with its
\* organization.
GoneIsRecorded ==
  [][/\ \A x \in Client \cup Project \cup Task :
          Live(x) /\ ~Live(x)' =>
            \E e \in audit :
              /\ e.action = "DELETE"
              /\ req[e.req].pc = "purge" /\ req[e.req].target = e.target
              /\ x \in req[e.req].taken
     /\ \A e \in audit : e \in audit' \/ ~Live(e.org)']_vars

\* The deletion of an organization takes no client, project or task that was
\* there when the request began and has been there since: only what was added
\* while it ran.
CascadeTakesOnlyNew ==
  [][\A r \in Request :
       req[r].pc = "purge" /\ req[r].target \in Org =>
         \A x \in req[r].before \ Department : Live(x) => Live(x)']_vars
=============================================================================

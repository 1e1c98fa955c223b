---------------------------- MODULE TaskWorkflow ----------------------------
(***************************************************************************)
(* The task endpoint (TaskViewSet) over the tables it writes: the tasks,   *)
(* their approval history, the audit log and the notification inbox.       *)
(*                                                                         *)
(* A request is a sequence of database statements.  Django autocommits     *)
(* each of them; only transition_task_status is one transaction.  Between  *)
(* two statements any other request may run, and what a handler read       *)
(* earlier (the serializer's instance) is a copy that may have gone stale. *)
(* A request therefore carries its copy, and an action is the part of a    *)
(* handler from one statement to just before the next.                     *)
(***************************************************************************)
EXTENDS Naturals, FiniteSets

CONSTANTS
  Task,        \* primary keys
  User,        \* accounts, of every organization
  Manager,     \* those with is_admin_or_manager; the others are Employees
  Org,         \* the organization of each account
  Content,     \* title, description, priority, due date: one abstract value
  LongTitle,   \* contents whose title overflows a notification's verb column
  Payload,     \* the bodies a client may send
  InitialRow,  \* the rows the table may hold when the model starts
  Request,     \* every HTTP request the model lets happen
  Workers,     \* how many requests the server executes at a time
  Faults,      \* whether a request may die between two statements
  NoRow, NoUser, NoTask, Unset

Status == {"DRAFT", "PENDING_REVIEW", "CHANGES_REQUESTED", "APPROVED", "REJECTED"}

Assignee == User \cup {NoUser}

Row == [org : {Org[u] : u \in User}, content : Content, assignee : Assignee,
        creator : User, status : Status, locked : BOOLEAN, version : Nat]

PayloadType == [content : Content \cup {Unset},
                assignee : Assignee \cup {Unset},
                status : Status \cup {Unset}]

ASSUME ConstantsAssumption ==
  /\ Manager \subseteq User
  /\ LongTitle \subseteq Content
  /\ Payload \subseteq PayloadType
  /\ Workers \in Nat
  /\ Faults \in BOOLEAN
  /\ IsFiniteSet(Request)
  /\ Unset \notin Content \cup Assignee \cup Status
  /\ NoUser \notin User
  /\ NoTask \notin Task
  /\ NoRow \notin Row

\* A stored task is what TaskSerializer lets an administrator create:
\* any starting status, never locked, version 1.
ASSUME InitialRowAssumption ==
  \A w \in InitialRow :
    /\ w \in Row
    /\ w.version = 1
    /\ ~w.locked
    /\ w.org = Org[w.creator]
    /\ w.assignee # NoUser => Org[w.assignee] = w.org

VARIABLES
  row,      \* row[t]: the tasks table
  born,     \* primary keys handed out so far
  history,  \* TaskApprovalHistory rows
  audit,    \* AuditLog rows about tasks
  inbox,    \* Notification rows about tasks
  req       \* req[r]: what the thread serving request r holds

db == <<row, born, history, audit, inbox>>
vars == <<row, born, history, audit, inbox, req>>

-----------------------------------------------------------------------------
(* The request as its handler holds it. *)

\* Where a request is: the name of the statement it will execute next.
Active == {"auditCreate", "save", "auditUpdate", "transition", "notifyStatus",
           "notifyAssignee", "auditDelete", "delete"}

Answer == {"ok", "400", "403", "404", "500"}

EmptyPatch == [content |-> Unset, assignee |-> Unset, status |-> Unset]

Idle == [pc |-> "idle", user |-> NoUser, task |-> NoTask, copy |-> NoRow,
         patch |-> EmptyPatch, prev |-> NoUser, todo |-> {}, answer |-> "none"]

Begin(pc, u, t, w, p, prev) ==
  [pc |-> pc, user |-> u, task |-> t, copy |-> w, patch |-> p,
   prev |-> prev, todo |-> {}, answer |-> "none"]

\* An answered request is gone but for its answer: a thread's locals die with it.
Answered(a) == [Idle EXCEPT !.pc = "done", !.answer = a]

InFlight == {r \in Request : req[r].pc \in Active}

CanStart(r) == req[r].pc = "idle" /\ Cardinality(InFlight) < Workers

-----------------------------------------------------------------------------
(* The rules of the workflow. *)

ALLOWED_TRANSITIONS ==
  [s \in Status |->
    CASE s = "DRAFT"             -> {"PENDING_REVIEW"}
      [] s = "PENDING_REVIEW"    -> {"APPROVED", "REJECTED", "CHANGES_REQUESTED"}
      [] s = "CHANGES_REQUESTED" -> {"PENDING_REVIEW"}
      [] s = "APPROVED"          -> {}
      [] s = "REJECTED"          -> {"DRAFT"}]

\* Faulty variant: the table of transitions is not consulted.
AnyTransition(w, s) == s \in Status

can_transition_to(w, s) == s \in ALLOWED_TRANSITIONS[w.status]

LockedStatus == {"APPROVED"}

\* get_queryset: a task outside the caller's organization does not exist.
Visible(u, t) == row[t] # NoRow /\ row[t].org = Org[u]

has_object_permission(u, w, method) ==
  \/ u \in Manager
  \/ method = "PATCH" /\ w.assignee = u

\* Faulty variant: the organization of the assignee is not looked at.
AnyAssignee(u, p) == p.assignee \in User => u \in User

validate_assignee(u, p) ==
  p.assignee \in User => Org[p.assignee] = Org[u]

\* Faulty variant: left to the service, which runs after the fields are saved.
AnyStatus(w, p) == p.status \in Status \cup {Unset, w.status}

validate_status(w, p) ==
  p.status \in {Unset, w.status} \/ can_transition_to(w, p.status)

\* Faulty variant: the serializer does not look at the lock.
ValidUnlessLocked(u, w, p) == validate_assignee(u, p) /\ validate_status(w, p)

\* is_valid() on an update, judged on the copy get_object returned.
ValidPatch(u, w, p) ==
  validate_assignee(u, p) /\ validate_status(w, p) /\ ~w.locked

\* Faulty variant: an Employee's body is taken as it is.
EverythingWritable(u, p) == p

\* perform_update drops every field but status from an Employee's body.
Writable(u, p) ==
  IF u \in Manager THEN p ELSE [p EXCEPT !.content = Unset, !.assignee = Unset]

HasFields(p) == p.content # Unset \/ p.assignee # Unset

Patched(w, p) ==
  [w EXCEPT !.content  = IF p.content = Unset THEN @ ELSE p.content,
            !.assignee = IF p.assignee = Unset THEN @ ELSE p.assignee]

Given(x, default) == IF x = Unset THEN default ELSE x

NewRow(u, p) ==
  [org |-> Org[u], content |-> p.content, assignee |-> Given(p.assignee, NoUser),
   creator |-> u, status |-> Given(p.status, "DRAFT"),
   locked |-> FALSE, version |-> 1]

-----------------------------------------------------------------------------
(* What is left of a handler after each of its parts. *)

\* The assignment notification, decided on the row the handler holds by then.
WantsAssigneeNotice(q) == q.copy.assignee \notin {NoUser, q.prev, q.user}

\* Faulty variant: a status change is the only thing notified.
OnlyStatusNoticed(q) ==
  IF q.todo # {} THEN [q EXCEPT !.pc = "notifyStatus"] ELSE Answered("ok")

AfterStatus(q) ==
  IF q.todo # {} THEN [q EXCEPT !.pc = "notifyStatus"]
  ELSE IF WantsAssigneeNotice(q) THEN [q EXCEPT !.pc = "notifyAssignee"]
  ELSE Answered("ok")

\* "if new_status and new_status != task.status": against the copy, not the row.
WantsTransition(q) == q.patch.status \notin {Unset, q.copy.status}

AfterFields(q) ==
  IF WantsTransition(q) THEN [q EXCEPT !.pc = "transition"] ELSE AfterStatus(q)

AuditEntry(r, action, from, to, version) ==
  [req |-> r, action |-> action, task |-> req[r].task, actor |-> req[r].user,
   from |-> from, to |-> to, version |-> version]

record_audit_log(e) == audit' = audit \cup {e}

-----------------------------------------------------------------------------
(* POST /tasks/ *)

CreateTask(r) ==
  \E u \in Manager, t \in Task \ born, p \in Payload :
    /\ CanStart(r)
    /\ p.content # Unset
    /\ validate_assignee(u, p)
    /\ row' = [row EXCEPT ![t] = NewRow(u, p)]
    /\ born' = born \cup {t}
    /\ req' = [req EXCEPT ![r] =
                 Begin("auditCreate", u, t, NewRow(u, p), EmptyPatch, NoUser)]
    /\ UNCHANGED <<history, audit, inbox>>

AuditCreate(r) ==
  /\ req[r].pc = "auditCreate"
  /\ record_audit_log(AuditEntry(r, "CREATE", Unset, req[r].copy.status, 1))
  /\ req' = [req EXCEPT ![r] = AfterStatus(@)]
  /\ UNCHANGED <<row, born, history, inbox>>

(* PATCH or PUT /tasks/<id>/ : get_object and is_valid, then perform_update. *)

BeginUpdate(r) ==
  \E u \in User, t \in Task, p \in Payload :
    /\ CanStart(r)
    /\ Visible(u, t)
    /\ has_object_permission(u, row[t], "PATCH")
    /\ ValidPatch(u, row[t], p)
    /\ LET q == Begin("save", u, t, row[t], Writable(u, p), row[t].assignee)
       IN  req' = [req EXCEPT ![r] = IF HasFields(q.patch) THEN q ELSE AfterFields(q)]
    /\ UNCHANGED db

\* "if before != after", on the handler's own copy.
Changed(before, after) == after # before

\* serializer.save(): every column of the copy is written back.  When the row
\* has been deleted meanwhile, Django's UPDATE matches nothing and it INSERTs.
SaveFields(r) ==
  /\ req[r].pc = "save"
  /\ LET q   == req[r]
         new == Patched(q.copy, q.patch)
     IN  /\ row' = [row EXCEPT ![q.task] = new]
         /\ req' = [req EXCEPT ![r] =
                      IF Changed(q.copy, new)
                      THEN [q EXCEPT !.pc = "auditUpdate", !.copy = new]
                      ELSE AfterFields(q)]
  /\ UNCHANGED <<born, history, audit, inbox>>

AuditUpdate(r) ==
  /\ req[r].pc = "auditUpdate"
  /\ record_audit_log(AuditEntry(r, "UPDATE", Unset, Unset, 0))
  /\ req' = [req EXCEPT ![r] = AfterFields(@)]
  /\ UNCHANGED <<row, born, history, inbox>>

\* Faulty variant: a task without assignee notifies None.
RecipientsWithNone(w, u) == {w.assignee, w.creator} \ {u}

\* Those told of a status change: assignee and creator, never the actor.
Recipients(w, u) == {w.assignee, w.creator} \ {NoUser, u}

\* Faulty variants: the version not counted; the lock decided on the status the
\* task had.
AdvancedUncounted(w, s) == [w EXCEPT !.status = s, !.locked = @ \/ s \in LockedStatus]
AdvancedLockedEarly(w, s) ==
  [w EXCEPT !.status = s, !.version = @ + 1, !.locked = w.status = "PENDING_REVIEW"]

Advanced(w, s) ==
  [w EXCEPT !.status = s, !.version = @ + 1, !.locked = @ \/ s \in LockedStatus]

\* transition_task_status: SELECT ... FOR UPDATE, the checks again on the row
\* itself, then the row, its history and its audit entry in one commit.
TransitionTaskStatus(r) ==
  /\ req[r].pc = "transition"
  /\ LET q == req[r]
         w == row[q.task]
         s == q.patch.status
     IN  /\ w # NoRow
         /\ ~w.locked
         /\ can_transition_to(w, s)
         /\ row' = [row EXCEPT ![q.task] = Advanced(w, s)]
         /\ history' = history \cup {[req |-> r, task |-> q.task, actor |-> q.user,
                                      from |-> w.status, to |-> s]}
         /\ record_audit_log(AuditEntry(r, "WORKFLOW_TRANSITION", w.status, s, w.version + 1))
         /\ req' = [req EXCEPT ![r] =
                      AfterStatus([q EXCEPT !.copy = Advanced(w, s),
                                            !.todo = Recipients(w, q.user)])]
  /\ UNCHANGED <<born, inbox>>

\* The same checks failing: nothing is written by the transaction.  A deleted
\* row is Task.DoesNotExist, which no handler catches.
TransitionRefused(r) ==
  /\ req[r].pc = "transition"
  /\ LET q == req[r]
         w == row[q.task]
     IN  \/ /\ w = NoRow
            /\ req' = [req EXCEPT ![r] = Answered("500")]
         \/ /\ w # NoRow
            /\ w.locked \/ ~can_transition_to(w, q.patch.status)
            /\ req' = [req EXCEPT ![r] = Answered("400")]
  /\ UNCHANGED db

(* DELETE /tasks/<id>/ : the audit entry comes first, then the row. *)

BeginDelete(r) ==
  \E u \in User, t \in Task :
    /\ CanStart(r)
    /\ Visible(u, t)
    /\ has_object_permission(u, row[t], "DELETE")
    /\ req' = [req EXCEPT ![r] =
                 Begin("auditDelete", u, t, row[t], EmptyPatch, row[t].assignee)]
    /\ UNCHANGED db

\* Faulty variant: the history of a deleted task stays.
HistoryKept(t) == {h \in history : h.task \in Task}

\* on_delete=CASCADE of TaskApprovalHistory.task.
HistoryWithout(t) == {h \in history : h.task # t}

AuditDelete(r) ==
  /\ req[r].pc = "auditDelete"
  /\ record_audit_log(AuditEntry(r, "DELETE", Unset, Unset, 0))
  /\ req' = [req EXCEPT ![r].pc = "delete"]
  /\ UNCHANGED <<row, born, history, inbox>>

DeleteRow(r) ==
  /\ req[r].pc = "delete"
  /\ row' = [row EXCEPT ![req[r].task] = NoRow]
  /\ history' = HistoryWithout(req[r].task)
  /\ req' = [req EXCEPT ![r] = Answered("ok")]
  /\ UNCHANGED <<born, audit, inbox>>

(* A request the checks before the first write turn away. *)

Refused(r) ==
  \E u \in User, t \in Task, a \in {"400", "403", "404"} :
    /\ CanStart(r)
    /\ \/ a = "404" /\ ~Visible(u, t)
       \/ /\ a = "403"
          /\ \/ u \notin Manager                       \* POST
             \/ \E m \in {"PATCH", "DELETE"} :
                  Visible(u, t) /\ ~has_object_permission(u, row[t], m)
       \/ /\ a = "400"
          /\ \E p \in Payload :
               \/ u \in Manager /\ (p.content = Unset \/ ~validate_assignee(u, p))
               \/ /\ Visible(u, t)
                  /\ has_object_permission(u, row[t], "PATCH")
                  /\ ~ValidPatch(u, row[t], p)
    /\ req' = [req EXCEPT ![r] = Answered(a)]
    /\ UNCHANGED db

(* notify_user, once per recipient. *)

Notice(r, u, verb) == [req |-> r, to |-> u, task |-> req[r].task, verb |-> verb]

NotifyStatus(r) ==
  /\ req[r].pc = "notifyStatus"
  /\ req[r].copy.content \notin LongTitle
  /\ \E u \in req[r].todo :
       LET q == req[r]
       IN  /\ inbox' = inbox \cup {Notice(r, u, "status")}
           /\ req' = [req EXCEPT ![r] = AfterStatus([q EXCEPT !.todo = q.todo \ {u}])]
  /\ UNCHANGED <<row, born, history, audit>>

NotifyAssignee(r) ==
  /\ req[r].pc = "notifyAssignee"
  /\ req[r].copy.content \notin LongTitle
  /\ inbox' = inbox \cup {Notice(r, req[r].copy.assignee, "assigned")}
  /\ req' = [req EXCEPT ![r] = Answered("ok")]
  /\ UNCHANGED <<row, born, history, audit>>

\* The verb holds the title and overflows its 255 characters: the INSERT
\* raises, nothing catches it, and the answer is a 500.
NotifyFails(r) ==
  /\ req[r].pc \in {"notifyStatus", "notifyAssignee"}
  /\ req[r].copy.content \in LongTitle
  /\ req' = [req EXCEPT ![r] = Answered("500")]
  /\ UNCHANGED db

\* The thread dies before its next statement (a lost connection, a killed or
\* restarted container).  What it committed stays, the rest never happens.
Abort(r) ==
  /\ Faults
  /\ req[r].pc \in Active
  /\ req' = [req EXCEPT ![r] = Answered("500")]
  /\ UNCHANGED db

-----------------------------------------------------------------------------

Init ==
  /\ row \in [Task -> InitialRow \cup {NoRow}]
  /\ born = {t \in Task : row[t] # NoRow}
  /\ history = {}
  /\ audit = {}
  /\ inbox = {}
  /\ req = [r \in Request |-> Idle]

Start(r) == CreateTask(r) \/ BeginUpdate(r) \/ BeginDelete(r) \/ Refused(r)

\* What the server does of itself once it has begun a request.
Serve(r) ==
  \/ AuditCreate(r)
  \/ SaveFields(r) \/ AuditUpdate(r)
  \/ TransitionTaskStatus(r) \/ TransitionRefused(r)
  \/ AuditDelete(r) \/ DeleteRow(r)
  \/ NotifyStatus(r) \/ NotifyAssignee(r) \/ NotifyFails(r)

Next == \E r \in Request : Start(r) \/ Serve(r) \/ Abort(r)

Spec == Init /\ [][Next]_vars

\* A thread that began a request runs until it has answered.
FairSpec == Spec /\ \A r \in Request : WF_vars(Serve(r))

-----------------------------------------------------------------------------
(* What the module should guarantee. *)

ActiveSession ==
  {q \in [pc : Active, user : User, task : Task, copy : Row, patch : PayloadType,
          prev : Assignee, todo : SUBSET User, answer : {"none"}] :
     q.pc = "notifyAssignee" => q.copy.assignee # NoUser}

Session == {Idle} \cup {Answered(a) : a \in Answer} \cup ActiveSession

HistoryRow == [req : Request, task : Task, actor : User, from : Status, to : Status]

AuditRow == [req : Request, task : Task, actor : User, version : Nat,
             action : {"CREATE", "UPDATE", "WORKFLOW_TRANSITION", "DELETE"},
             from : Status \cup {Unset}, to : Status \cup {Unset}]

NoticeRow == [req : Request, to : User, task : Task, verb : {"status", "assigned"}]

\* The tables and the handlers' locals have the types their fields declare.
TypeOK ==
  /\ row \in [Task -> Row \cup {NoRow}]
  /\ born \in SUBSET Task
  /\ history \in SUBSET HistoryRow
  /\ audit \in SUBSET AuditRow
  /\ inbox \in SUBSET NoticeRow
  /\ req \in [Request -> Session]

\* Nobody, not even an Admin, changes a locked task: it may only be deleted.
LockedIsFinal ==
  [][\A t \in Task : row[t] # NoRow /\ row[t].locked
                       => row'[t] \in {row[t], NoRow}]_vars

\* What a handler is about to write back is what is stored, and unlocked.  It
\* holds with one request at a time, or when nobody sends anything but a status.
CopyIsFresh ==
  \A r \in Request :
    req[r].pc = "save" => req[r].copy = row[req[r].task] /\ ~req[r].copy.locked

\* The lock is never left on a task that is back in the workflow: a write-back
\* of a stale row restores its status and its lock together, and a transition
\* locks on the way to APPROVED only (transition_task_status).
LockMeansApproved ==
  \A t \in Task : row[t] # NoRow /\ row[t].locked => row[t].status = "APPROVED"

\* "Locked once approved/rejected to prevent further updates" (the help text of
\* Task.is_locked): a review that is over, either way, leaves the lock behind.
ReviewedIsLocked ==
  \A t \in Task :
    row[t] # NoRow /\ row[t].status \in {"APPROVED", "REJECTED"} => row[t].locked

\* The audited transitions of a task, read by version, are one unbroken path:
\* no version missing or taken twice, each transition starting where the one
\* before ended, the last one ending at the status the row has.
TransitionsOf(t) == {e \in audit : e.action = "WORKFLOW_TRANSITION" /\ e.task = t}

AuditChain ==
  \A t \in Task : row[t] # NoRow =>
    /\ \A e \in TransitionsOf(t) : e.version \in 2 .. row[t].version
    /\ \A v \in 2 .. row[t].version : \E e \in TransitionsOf(t) : e.version = v
    /\ \A e, f \in TransitionsOf(t) :
         /\ e.version = f.version => e = f
         /\ f.version = e.version + 1 => f.from = e.to
    /\ \A e \in TransitionsOf(t) : e.version = row[t].version => e.to = row[t].status

\* An approval-history row exists only for a task that does, and the audit log
\* holds the same transition by the same actor: the two are one commit.
HistoryIsAudited ==
  \A h \in history :
    /\ row[h.task] # NoRow
    /\ \E e \in TransitionsOf(h.task) :
         e.req = h.req /\ e.actor = h.actor /\ e.from = h.from /\ e.to = h.to

\* Tasks never cross organizations: not by assignment, not by who acted on
\* them, not by who is told.
TenantIsolation ==
  \A t \in Task : row[t] # NoRow =>
    /\ row[t].assignee # NoUser => Org[row[t].assignee] = row[t].org
    /\ \A e \in audit : e.task = t => Org[e.actor] = row[t].org
    /\ \A n \in inbox : n.task = t => Org[n.to] = row[t].org

\* An Employee's request moves the status of one task and nothing else: no
\* other column, no other task, no creation, no deletion.
ByManager(r) == {req[r].user, req'[r].user} \cap Manager # {}

EmployeeConfined ==
  [][\A r \in Request, t \in Task :
       (req'[r] # req[r] /\ row'[t] # row[t] /\ ~ByManager(r))
         => /\ t = req[r].task
            /\ row[t] # NoRow /\ row'[t] # NoRow
            /\ row'[t] = [row[t] EXCEPT !.status = row'[t].status,
                                        !.version = row'[t].version,
                                        !.locked = row'[t].locked]]_vars

\* A request that was refused left no trace: no audit entry, so no write.
RefusedLeavesNoTrace ==
  \A r \in Request : req[r].answer \in {"400", "403", "404"}
                       => \A e \in audit : e.req # r

\* Everybody a committed transition owes a notice to gets it, and so does a
\* newly chosen assignee.
NoticesArrive ==
  \A r \in Request, u \in User :
    /\ (u \in req[r].todo) ~> (\E n \in inbox : n.req = r /\ n.to = u /\ n.verb = "status")
    /\ (req[r].pc \in Active /\ WantsAssigneeNotice(req[r]) /\ u = req[r].copy.assignee)
         ~> (\/ \E n \in inbox : n.req = r /\ n.to = u /\ n.verb = "assigned"
             \/ req[r].answer \in {"400", "500"}
             \/ req[r].pc \in Active /\ ~WantsAssigneeNotice(req[r]))

\* "This cannot be undone": a deleted task does not come back.
DeletedStaysDeleted ==
  [][\A t \in born : row[t] = NoRow => row'[t] = NoRow]_vars

\* A failing notification never breaks the request that caused it.
NotificationsNeverBreakRequests ==
  [][\A r \in Request :
       req[r].pc \in {"notifyStatus", "notifyAssignee"} => req'[r].answer # "500"]_vars

\* An Employee changes only tasks assigned to them.
OnlyTheAssigneeMoves ==
  [][\A r \in Request : LET t == req[r].task IN
       req[r].pc = "transition" /\ req[r].user \notin Manager /\ row' # row
         => row[t].assignee = req[r].user]_vars

-----------------------------------------------------------------------------
(* The abstract life of a task, as TaskLifecycle states it. *)

NoBody == [content |-> Unset, assignee |-> NoUser]

BodyOf(t) == IF row[t] = NoRow THEN NoBody
             ELSE [content |-> row[t].content, assignee |-> row[t].assignee]

PhaseOf(t)  == IF row[t] # NoRow THEN "alive"
               ELSE IF t \in born THEN "deleted" ELSE "unborn"
StatusOf(t) == IF row[t] = NoRow THEN "DRAFT" ELSE row[t].status
SealedOf(t) == row[t] # NoRow /\ row[t].locked
MovesOf(t)  == IF row[t] = NoRow THEN 0 ELSE row[t].version - 1

Lifecycle == INSTANCE TaskLifecycle WITH
  Body   <- [content : Content \cup {Unset}, assignee : Assignee],
  Moves  <- ALLOWED_TRANSITIONS,
  Final  <- LockedStatus,
  phase  <- [t \in Task |-> PhaseOf(t)],
  body   <- [t \in Task |-> BodyOf(t)],
  status <- [t \in Task |-> StatusOf(t)],
  sealed <- [t \in Task |-> SealedOf(t)],
  moves  <- [t \in Task |-> MovesOf(t)]

\* The endpoint implements the life of a task: each step of a handler is one
\* step of it, or none.
ImplementsLifecycle == Lifecycle!Spec
=============================================================================

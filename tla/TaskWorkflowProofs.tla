------------------------- MODULE TaskWorkflowProofs -------------------------
(***************************************************************************)
(* What holds of TaskWorkflow for every set of tasks, accounts, bodies and *)
(* requests and every number of workers.                                   *)
(***************************************************************************)
EXTENDS TaskWorkflow, FiniteSetTheorems, TLAPS

-----------------------------------------------------------------------------
(* Typing: what the operators a handler is built from return. *)

\* Sessions in flight and answered sessions do not overlap.
LEMMA ActiveOrNot ==
  ASSUME NEW q \in Session
  PROVE  q.pc \in Active <=> q \in ActiveSession
<1>1. Idle.pc \notin Active
  BY DEF Idle, Active
<1>2. \A a \in Answer : Answered(a).pc \notin Active
  BY DEF Answered, Idle, Active
<1>3. \A x \in ActiveSession : x.pc \in Active
  BY DEF ActiveSession
<1> QED
  BY <1>1, <1>2, <1>3 DEF Session

LEMMA AnsweredIsSession ==
  ASSUME NEW a \in Answer
  PROVE  /\ Answered(a) \in Session
         /\ Answered(a).pc \notin Active
BY DEF Session, Answered, Idle, Active

\* Moving a handler to another statement, with another copy of the row.
LEMMA AtStatement ==
  ASSUME NEW q \in ActiveSession, NEW pc \in Active,
         pc = "notifyAssignee" => q.copy.assignee # NoUser
  PROVE  [q EXCEPT !.pc = pc] \in ActiveSession
BY DEF ActiveSession

LEMMA AfterStatusIsSession ==
  ASSUME NEW q \in ActiveSession
  PROVE  AfterStatus(q) \in Session
<1>1. "notifyStatus" \in Active /\ "notifyAssignee" \in Active /\ "ok" \in Answer
  BY DEF Active, Answer
<1>2. [q EXCEPT !.pc = "notifyStatus"] \in Session
  BY <1>1, AtStatement DEF Session
<1>3. WantsAssigneeNotice(q) => [q EXCEPT !.pc = "notifyAssignee"] \in Session
  BY <1>1, AtStatement DEF Session, WantsAssigneeNotice
<1> QED
  BY <1>1, <1>2, <1>3, AnsweredIsSession DEF AfterStatus

LEMMA AfterFieldsIsSession ==
  ASSUME NEW q \in ActiveSession
  PROVE  AfterFields(q) \in Session
<1>1. "transition" \in Active
  BY DEF Active
<1>2. [q EXCEPT !.pc = "transition"] \in Session
  BY <1>1, AtStatement DEF Session
<1> QED
  BY <1>2, AfterStatusIsSession DEF AfterFields

LEMMA PatchedIsRow ==
  ASSUME NEW w \in Row, NEW p \in PayloadType
  PROVE  Patched(w, p) \in Row
BY DEF Patched, Row, PayloadType

LEMMA WritableIsPayload ==
  ASSUME NEW u \in User, NEW p \in PayloadType
  PROVE  Writable(u, p) \in PayloadType
BY DEF Writable, PayloadType

LEMMA EmptyPatchIsPayload == EmptyPatch \in PayloadType
BY DEF EmptyPatch, PayloadType

LEMMA NewRowIsRow ==
  ASSUME NEW u \in User, NEW p \in PayloadType, p.content # Unset
  PROVE  NewRow(u, p) \in Row
BY DEF NewRow, Row, PayloadType, Given, Status, Assignee

LEMMA AdvancedIsRow ==
  ASSUME NEW w \in Row, NEW s \in Status
  PROVE  Advanced(w, s) \in Row
<1> DEFINE b == w.locked \/ s \in LockedStatus
<1>1. b \in BOOLEAN
  OBVIOUS
<1>2. w.version + 1 \in Nat
  BY DEF Row
<1>3. Advanced(w, s) = [w EXCEPT !.status = s, !.version = w.version + 1, !.locked = b]
  BY DEF Advanced
<1> HIDE DEF b
<1> QED
  BY <1>1, <1>2, <1>3 DEF Row

LEMMA TransitionStatus ==
  ASSUME NEW w \in Row, NEW s, can_transition_to(w, s)
  PROVE  s \in Status
BY DEF can_transition_to, ALLOWED_TRANSITIONS, Row, Status

-----------------------------------------------------------------------------
(* Every handler step keeps the types. *)

LEMMA CreateTaskTypes ==
  ASSUME TypeOK, NEW r \in Request, CreateTask(r)
  PROVE  TypeOK'
<1> USE ConstantsAssumption
<1>1. PICK u \in Manager, t \in Task \ born, p \in Payload :
        /\ p.content # Unset
        /\ row' = [row EXCEPT ![t] = NewRow(u, p)]
        /\ born' = born \cup {t}
        /\ req' = [req EXCEPT ![r] =
                     Begin("auditCreate", u, t, NewRow(u, p), EmptyPatch, NoUser)]
        /\ UNCHANGED <<history, audit, inbox>>
  BY DEF CreateTask
<1>2. u \in User /\ p \in PayloadType
  OBVIOUS
<1>3. NewRow(u, p) \in Row
  BY <1>1, <1>2, NewRowIsRow
<1>4. Begin("auditCreate", u, t, NewRow(u, p), EmptyPatch, NoUser) \in Session
  BY <1>2, <1>3, EmptyPatchIsPayload DEF Begin, Session, ActiveSession, Active, Assignee
<1> QED
  BY <1>1, <1>3, <1>4 DEF TypeOK

LEMMA BeginUpdateTypes ==
  ASSUME TypeOK, NEW r \in Request, BeginUpdate(r)
  PROVE  TypeOK'
<1> USE ConstantsAssumption
<1>1. PICK u \in User, t \in Task, p \in Payload :
        LET q == Begin("save", u, t, row[t], Writable(u, p), row[t].assignee)
        IN  /\ Visible(u, t)
            /\ req' = [req EXCEPT ![r] = IF HasFields(q.patch) THEN q ELSE AfterFields(q)]
            /\ UNCHANGED db
  BY DEF BeginUpdate
<1> DEFINE q == Begin("save", u, t, row[t], Writable(u, p), row[t].assignee)
<1>2. row[t] \in Row /\ row[t].assignee \in Assignee
  BY <1>1 DEF Visible, TypeOK, Row
<1>3. q \in ActiveSession
  BY <1>2, WritableIsPayload DEF Begin, ActiveSession, Active
<1>4. (IF HasFields(q.patch) THEN q ELSE AfterFields(q)) \in Session
  BY <1>3, AfterFieldsIsSession DEF Session
<1> HIDE DEF q
<1> QED
  BY <1>1, <1>4 DEF TypeOK, db, q

LEMMA BeginDeleteTypes ==
  ASSUME TypeOK, NEW r \in Request, BeginDelete(r)
  PROVE  TypeOK'
<1>1. PICK u \in User, t \in Task :
        /\ Visible(u, t)
        /\ req' = [req EXCEPT ![r] =
                     Begin("auditDelete", u, t, row[t], EmptyPatch, row[t].assignee)]
        /\ UNCHANGED db
  BY DEF BeginDelete
<1>2. row[t] \in Row /\ row[t].assignee \in Assignee
  BY <1>1 DEF Visible, TypeOK, Row
<1>3. Begin("auditDelete", u, t, row[t], EmptyPatch, row[t].assignee) \in Session
  BY <1>2, EmptyPatchIsPayload DEF Begin, Session, ActiveSession, Active
<1> QED
  BY <1>1, <1>3 DEF TypeOK, db

LEMMA RefusedTypes ==
  ASSUME TypeOK, NEW r \in Request, Refused(r)
  PROVE  TypeOK'
<1>1. PICK a \in {"400", "403", "404"} :
        req' = [req EXCEPT ![r] = Answered(a)] /\ UNCHANGED db
  BY DEF Refused
<1>2. Answered(a) \in Session
  BY AnsweredIsSession DEF Answer
<1> QED
  BY <1>1, <1>2 DEF TypeOK, db

\* In flight, a handler's session has the fields of one.
LEMMA InFlightSession ==
  ASSUME TypeOK, NEW r \in Request, req[r].pc \in Active
  PROVE  req[r] \in ActiveSession
BY ActiveOrNot DEF TypeOK

LEMMA ServeTypes ==
  ASSUME TypeOK, NEW r \in Request, Serve(r)
  PROVE  TypeOK'
<1> DEFINE q == req[r]
<1> USE ConstantsAssumption
<1>0. q \in ActiveSession
  BY InFlightSession
     DEF Serve, Active, AuditCreate, SaveFields, AuditUpdate, TransitionTaskStatus,
         TransitionRefused, AuditDelete, DeleteRow, NotifyStatus, NotifyAssignee, NotifyFails
<1>1. CASE AuditCreate(r)
  <2>1. AuditEntry(r, "CREATE", Unset, q.copy.status, 1) \in AuditRow
    BY <1>0 DEF AuditEntry, AuditRow, ActiveSession, Row
  <2>2. AfterStatus(q) \in Session
    BY <1>0, AfterStatusIsSession
  <2> QED
    BY <1>1, <2>1, <2>2 DEF AuditCreate, TypeOK, record_audit_log
<1>2. CASE SaveFields(r)
  <2> DEFINE new == Patched(q.copy, q.patch)
  <2>1. new \in Row /\ q.task \in Task
    BY <1>0, PatchedIsRow DEF ActiveSession
  <2>2. [q EXCEPT !.pc = "auditUpdate", !.copy = new] \in Session
    BY <1>0, <2>1 DEF ActiveSession, Session, Active
  <2>3. AfterFields(q) \in Session
    BY <1>0, AfterFieldsIsSession
  <2> HIDE DEF new
  <2>4. row' = [row EXCEPT ![q.task] = new]
    BY <1>2 DEF SaveFields, new
  <2>5. /\ req' = [req EXCEPT ![r] = IF Changed(q.copy, new)
                      THEN [q EXCEPT !.pc = "auditUpdate", !.copy = new]
                      ELSE AfterFields(q)]
        /\ UNCHANGED <<born, history, audit, inbox>>
    BY <1>2 DEF SaveFields, new
  <2>6. req' \in [Request -> Session]
    BY <2>2, <2>3, <2>5 DEF TypeOK
  <2> QED
    BY <2>1, <2>4, <2>5, <2>6 DEF TypeOK
<1>3. CASE AuditUpdate(r)
  <2>1. AuditEntry(r, "UPDATE", Unset, Unset, 0) \in AuditRow
    BY <1>0 DEF AuditEntry, AuditRow, ActiveSession
  <2>2. AfterFields(q) \in Session
    BY <1>0, AfterFieldsIsSession
  <2> QED
    BY <1>3, <2>1, <2>2 DEF AuditUpdate, TypeOK, record_audit_log
<1>4. CASE TransitionTaskStatus(r)
  <2> DEFINE w == row[q.task]
             s == q.patch.status
             new == Advanced(w, s)
             after == [q EXCEPT !.copy = new, !.todo = Recipients(w, q.user)]
  <2>1. /\ w # NoRow
        /\ can_transition_to(w, s)
        /\ row' = [row EXCEPT ![q.task] = new]
        /\ history' = history \cup {[req |-> r, task |-> q.task, actor |-> q.user,
                                     from |-> w.status, to |-> s]}
        /\ audit' = audit \cup {AuditEntry(r, "WORKFLOW_TRANSITION", w.status, s, w.version + 1)}
        /\ req' = [req EXCEPT ![r] = AfterStatus(after)]
        /\ UNCHANGED <<born, inbox>>
    BY <1>4 DEF TransitionTaskStatus, record_audit_log
  <2>2. q.task \in Task /\ q.user \in User
    BY <1>0 DEF ActiveSession
  <2>3. w \in Row
    BY <2>1, <2>2 DEF TypeOK
  <2>4. s \in Status
    BY <2>1, <2>3, TransitionStatus
  <2>5. new \in Row
    BY <2>3, <2>4, AdvancedIsRow
  <2>6. w.status \in Status /\ w.version + 1 \in Nat /\ Recipients(w, q.user) \in SUBSET User
    BY <2>3 DEF Row, Recipients, Assignee
  <2>7. after \in ActiveSession
    <3> HIDE DEF new
    <3>1. q.pc = "transition"
      BY <1>4 DEF TransitionTaskStatus
    <3> QED
      BY <1>0, <2>5, <2>6, <3>1 DEF ActiveSession
  <2>8. AfterStatus(after) \in Session
    BY <2>7, AfterStatusIsSession
  <2>9. [req |-> r, task |-> q.task, actor |-> q.user, from |-> w.status, to |-> s] \in HistoryRow
    BY <2>2, <2>4, <2>6 DEF HistoryRow
  <2>10. AuditEntry(r, "WORKFLOW_TRANSITION", w.status, s, w.version + 1) \in AuditRow
    BY <2>2, <2>4, <2>6 DEF AuditEntry, AuditRow
  <2> HIDE DEF w, s, new, after
  <2> QED
    BY <2>1, <2>2, <2>5, <2>8, <2>9, <2>10 DEF TypeOK
<1>5. CASE TransitionRefused(r)
  <2>1. \E a \in Answer : req' = [req EXCEPT ![r] = Answered(a)] /\ UNCHANGED db
    BY <1>5 DEF TransitionRefused, Answer
  <2> QED
    BY <2>1, AnsweredIsSession DEF TypeOK, db
<1>6. CASE AuditDelete(r)
  <2>1. AuditEntry(r, "DELETE", Unset, Unset, 0) \in AuditRow
    BY <1>0 DEF AuditEntry, AuditRow, ActiveSession
  <2>2. [q EXCEPT !.pc = "delete"] \in Session
    BY <1>0, AtStatement DEF Active, Session
  <2> QED
    BY <1>6, <2>1, <2>2 DEF AuditDelete, TypeOK, record_audit_log
<1>7. CASE DeleteRow(r)
  <2>1. q.task \in Task /\ Answered("ok") \in Session
    BY <1>0, AnsweredIsSession DEF ActiveSession, Answer
  <2> QED
    BY <1>7, <2>1 DEF DeleteRow, HistoryWithout, TypeOK
<1>8. CASE NotifyStatus(r)
  <2>1. PICK u \in q.todo :
          /\ inbox' = inbox \cup {Notice(r, u, "status")}
          /\ req' = [req EXCEPT ![r] = AfterStatus([q EXCEPT !.todo = q.todo \ {u}])]
          /\ UNCHANGED <<row, born, history, audit>>
    BY <1>8 DEF NotifyStatus
  <2>2. [q EXCEPT !.todo = q.todo \ {u}] \in ActiveSession
    BY <1>0 DEF ActiveSession
  <2>3. AfterStatus([q EXCEPT !.todo = q.todo \ {u}]) \in Session
    BY <2>2, AfterStatusIsSession
  <2>4. Notice(r, u, "status") \in NoticeRow
    BY <1>0, <2>1 DEF Notice, NoticeRow, ActiveSession
  <2> QED
    BY <2>1, <2>3, <2>4 DEF TypeOK
<1>9. CASE NotifyAssignee(r)
  <2>1. Answered("ok") \in Session
    BY AnsweredIsSession DEF Answer
  <2>2. q.copy.assignee \in User
    BY <1>0, <1>9 DEF ActiveSession, NotifyAssignee, Row, Assignee
  <2>3. Notice(r, q.copy.assignee, "assigned") \in NoticeRow
    BY <1>0, <2>2 DEF Notice, NoticeRow, ActiveSession
  <2> QED
    BY <1>9, <2>1, <2>3 DEF NotifyAssignee, TypeOK
<1>10. CASE NotifyFails(r)
  <2>1. Answered("500") \in Session
    BY AnsweredIsSession DEF Answer
  <2> QED
    BY <1>10, <2>1 DEF NotifyFails, TypeOK, db
<1> QED
  BY <1>1, <1>2, <1>3, <1>4, <1>5, <1>6, <1>7, <1>8, <1>9, <1>10 DEF Serve

LEMMA AbortTypes ==
  ASSUME TypeOK, NEW r \in Request, Abort(r)
  PROVE  TypeOK'
<1>1. Answered("500") \in Session
  BY AnsweredIsSession DEF Answer
<1> QED
  BY <1>1 DEF Abort, TypeOK, db

\* The type invariant of TaskWorkflow: every table and every session holds
\* what its fields declare, whatever the requests do to each other.
THEOREM TypeCorrect == Spec => []TypeOK
<1>1. Init => TypeOK
  <2> SUFFICES ASSUME Init PROVE TypeOK
    OBVIOUS
  <2>1. InitialRow \subseteq Row
    BY InitialRowAssumption
  <2>2. row \in [Task -> Row \cup {NoRow}]
    BY <2>1 DEF Init
  <2>3. req \in [Request -> Session]
    BY DEF Init, Session
  <2> QED
    BY <2>2, <2>3 DEF Init, TypeOK
<1>2. TypeOK /\ [Next]_vars => TypeOK'
  <2> SUFFICES ASSUME TypeOK, [Next]_vars PROVE TypeOK'
    OBVIOUS
  <2>1. CASE UNCHANGED vars
    BY <2>1 DEF vars, TypeOK
  <2>2. ASSUME NEW r \in Request, Start(r) PROVE TypeOK'
    BY <2>2, CreateTaskTypes, BeginUpdateTypes, BeginDeleteTypes, RefusedTypes DEF Start
  <2>3. ASSUME NEW r \in Request, Serve(r) PROVE TypeOK'
    BY <2>3, ServeTypes
  <2>4. ASSUME NEW r \in Request, Abort(r) PROVE TypeOK'
    BY <2>4, AbortTypes
  <2> QED
    BY <2>1, <2>2, <2>3, <2>4 DEF Next
<1> QED
  BY <1>1, <1>2, PTL DEF Spec

-----------------------------------------------------------------------------
(* When is what a handler writes back still what is stored?  When it is    *)
(* the only one, or when nobody edits fields.                              *)

StatusOnly == \A p \in Payload : ~HasFields(p)

Undisturbed == StatusOnly \/ Workers = 1

\* One request at a time.
Alone == Workers = 1 => \A r, s \in InFlight : r = s

\* Nobody is about to write a whole row.
NobodySaves == StatusOnly => \A r \in Request : req[r].pc # "save"

FreshInv == CopyIsFresh /\ Alone /\ NobodySaves

\* A step of one request leaves every other session as it is.
LEMMA OwnSession ==
  ASSUME TypeOK, NEW r \in Request, Start(r) \/ Serve(r) \/ Abort(r),
         NEW s \in Request, s # r
  PROVE  req'[s] = req[s]
BY DEF TypeOK, Start, CreateTask, BeginUpdate, BeginDelete, Refused, Serve, AuditCreate,
       SaveFields, AuditUpdate, TransitionTaskStatus, TransitionRefused, AuditDelete,
       DeleteRow, NotifyStatus, NotifyAssignee, NotifyFails, Abort

LEMMA StartsIdle ==
  ASSUME NEW r \in Request, Start(r)
  PROVE  CanStart(r)
BY DEF Start, CreateTask, BeginUpdate, BeginDelete, Refused

LEMMA ServesActive ==
  ASSUME NEW r \in Request, Serve(r) \/ Abort(r)
  PROVE  req[r].pc \in Active
BY DEF Serve, Abort, Active, AuditCreate, SaveFields, AuditUpdate, TransitionTaskStatus,
       TransitionRefused, AuditDelete, DeleteRow, NotifyStatus, NotifyAssignee, NotifyFails

\* With one worker, a request starts only when nothing else is in flight.
LEMMA StartsAlone ==
  ASSUME NEW r \in Request, CanStart(r), Workers = 1
  PROVE  InFlight = {}
<1>1. IsFiniteSet(InFlight)
  <2>1. InFlight \subseteq Request
    BY DEF InFlight
  <2> QED
    BY <2>1, ConstantsAssumption, FS_Subset
<1>2. Cardinality(InFlight) \in Nat /\ Cardinality(InFlight) < 1
  BY <1>1, FS_CardinalityType DEF CanStart
<1>3. Cardinality(InFlight) = 0
  BY <1>2
<1> QED
  BY <1>1, <1>3, FS_EmptySet

\* No statement of a handler leads back to the write of the fields.
LEMMA AfterNeverSaves ==
  ASSUME NEW q \in ActiveSession
  PROVE  AfterStatus(q).pc # "save" /\ AfterFields(q).pc # "save"
<1>1. AfterStatus(q).pc # "save"
  BY DEF AfterStatus, Answered, Idle, ActiveSession
<1>2. AfterFields(q).pc # "save"
  BY <1>1 DEF AfterFields, ActiveSession
<1> QED
  BY <1>1, <1>2

LEMMA ServeNeverSaves ==
  ASSUME TypeOK, NEW r \in Request, Serve(r) \/ Abort(r)
  PROVE  req'[r].pc # "save"
<1> DEFINE q == req[r]
<1>0. q \in ActiveSession
  BY ServesActive, InFlightSession
<1>1. \A a : Answered(a).pc # "save"
  BY DEF Answered, Idle
<1>2. CASE AuditCreate(r)
  BY <1>0, <1>2, AfterNeverSaves DEF AuditCreate, TypeOK
<1>3. CASE AuditUpdate(r)
  BY <1>0, <1>3, AfterNeverSaves DEF AuditUpdate, TypeOK
<1>4. CASE SaveFields(r)
  <2>1. [q EXCEPT !.pc = "auditUpdate", !.copy = Patched(q.copy, q.patch)].pc # "save"
    BY <1>0 DEF ActiveSession
  <2> QED
    BY <1>0, <1>4, <2>1, AfterNeverSaves DEF SaveFields, TypeOK
<1>5. CASE TransitionTaskStatus(r)
  <2> DEFINE w == row[q.task]
             new == Advanced(w, q.patch.status)
             after == [q EXCEPT !.copy = new, !.todo = Recipients(w, q.user)]
  <2>1. /\ w # NoRow
        /\ can_transition_to(w, q.patch.status)
        /\ req' = [req EXCEPT ![r] = AfterStatus(after)]
    BY <1>5 DEF TransitionTaskStatus
  <2>2. q.pc = "transition"
    BY <1>5 DEF TransitionTaskStatus
  <2>3. new \in Row /\ Recipients(w, q.user) \in SUBSET User
    BY <1>0, <2>1, TransitionStatus, AdvancedIsRow
       DEF ActiveSession, TypeOK, Recipients, Row, Assignee
  <2>4. after \in ActiveSession
    <3> HIDE DEF new
    <3> QED BY <1>0, <2>2, <2>3 DEF ActiveSession
  <2> HIDE DEF after
  <2> QED
    BY <2>1, <2>4, AfterNeverSaves DEF TypeOK
<1>6. CASE NotifyStatus(r)
  <2>1. PICK u \in q.todo :
          req' = [req EXCEPT ![r] = AfterStatus([q EXCEPT !.todo = q.todo \ {u}])]
    BY <1>6 DEF NotifyStatus
  <2>2. [q EXCEPT !.todo = q.todo \ {u}] \in ActiveSession
    BY <1>0 DEF ActiveSession
  <2> QED
    BY <2>1, <2>2, AfterNeverSaves DEF TypeOK
<1>7. CASE AuditDelete(r)
  BY <1>0, <1>7 DEF AuditDelete, TypeOK, ActiveSession
<1>8. CASE TransitionRefused(r) \/ DeleteRow(r) \/ NotifyAssignee(r) \/ NotifyFails(r) \/ Abort(r)
  BY <1>1, <1>8 DEF TransitionRefused, DeleteRow, NotifyAssignee, NotifyFails, Abort, TypeOK
<1> QED
  BY <1>2, <1>3, <1>4, <1>5, <1>6, <1>7, <1>8 DEF Serve

\* A request that begins at the write of its fields has just read the row.
LEMMA StartSavesFresh ==
  ASSUME TypeOK, NEW r \in Request, Start(r), req'[r].pc = "save"
  PROVE  /\ req'[r].copy = row'[req'[r].task]
         /\ ~req'[r].copy.locked
         /\ ~StatusOnly
<1>1. ~CreateTask(r)
  BY DEF CreateTask, Begin, TypeOK
<1>2. ~BeginDelete(r)
  BY DEF BeginDelete, Begin, TypeOK
<1>3. ~Refused(r)
  BY DEF Refused, Answered, Idle, TypeOK
<1>4. BeginUpdate(r)
  BY <1>1, <1>2, <1>3 DEF Start
<1>5. PICK u \in User, t \in Task, p \in Payload :
        LET q == Begin("save", u, t, row[t], Writable(u, p), row[t].assignee)
        IN  /\ Visible(u, t)
            /\ ValidPatch(u, row[t], p)
            /\ req' = [req EXCEPT ![r] = IF HasFields(q.patch) THEN q ELSE AfterFields(q)]
            /\ UNCHANGED db
  BY <1>4 DEF BeginUpdate
<1> DEFINE q == Begin("save", u, t, row[t], Writable(u, p), row[t].assignee)
<1>6. q \in ActiveSession
  BY <1>5, WritableIsPayload, ConstantsAssumption
     DEF Begin, ActiveSession, Active, Visible, TypeOK, Row
<1>7. req'[r] = q /\ HasFields(q.patch)
  BY <1>5, <1>6, AfterNeverSaves DEF TypeOK
<1>8. q.copy = row[t] /\ q.task = t /\ q.patch = Writable(u, p)
  BY DEF Begin
<1>9. HasFields(p)
  BY <1>7, <1>8, ConstantsAssumption DEF HasFields, Writable, PayloadType
<1> QED
  BY <1>5, <1>7, <1>8, <1>9 DEF db, StatusOnly, ValidPatch

LEMMA FreshInvStep ==
  ASSUME TypeOK, FreshInv, Undisturbed, NEW r \in Request, Start(r) \/ Serve(r) \/ Abort(r)
  PROVE  FreshInv'
<1>1. Alone'
  <2> SUFFICES ASSUME Workers = 1, NEW x \in InFlight', NEW y \in InFlight'
               PROVE  x = y
    BY DEF Alone, InFlight
  <2>1. CASE Start(r)
    <3>1. InFlight = {}
      BY <2>1, StartsIdle, StartsAlone
    <3> QED
      BY <2>1, <3>1, OwnSession DEF InFlight
  <2>2. CASE Serve(r) \/ Abort(r)
    <3>1. \A z \in InFlight' : z \in InFlight
      BY <2>2, ServesActive, OwnSession DEF InFlight
    <3> QED
      BY <3>1 DEF FreshInv, Alone
  <2> QED
    BY <2>1, <2>2
<1>2. NobodySaves'
  <2> SUFFICES ASSUME StatusOnly, NEW s \in Request
               PROVE  req'[s].pc # "save"
    BY DEF NobodySaves, StatusOnly
  <2>1. CASE s # r
    BY <2>1, OwnSession DEF FreshInv, NobodySaves
  <2>2. CASE s = r
    BY <2>2, ServeNeverSaves, StartSavesFresh
  <2> QED
    BY <2>1, <2>2
<1>3. CopyIsFresh'
  <2> SUFFICES ASSUME NEW s \in Request, req'[s].pc = "save"
               PROVE  req'[s].copy = row'[req'[s].task] /\ ~req'[s].copy.locked
    BY DEF CopyIsFresh
  <2>1. CASE s = r
    BY <2>1, ServeNeverSaves, StartSavesFresh
  <2>2. CASE s # r
    <3>1. req[s].pc = "save" /\ s \in InFlight
      BY <2>2, OwnSession DEF InFlight, Active
    <3>2. Workers = 1
      BY <3>1 DEF FreshInv, NobodySaves, Undisturbed
    <3>3. InFlight # {} /\ r \notin InFlight
      BY <2>2, <3>1, <3>2 DEF FreshInv, Alone
    <3>4. ~Start(r)
      BY <3>2, <3>3, StartsIdle, StartsAlone
    <3> QED
      BY <3>3, <3>4, ServesActive DEF InFlight
  <2> QED
    BY <2>1, <2>2
<1> QED
  BY <1>1, <1>2, <1>3 DEF FreshInv

\* With one request at a time, or with bodies that carry nothing but a status,
\* what a handler writes back is always what is stored.
THEOREM FreshWhenUndisturbed ==
  ASSUME Undisturbed
  PROVE  Spec => []CopyIsFresh
<1>1. Init => FreshInv
  BY DEF Init, FreshInv, CopyIsFresh, Alone, NobodySaves, InFlight, Idle, Active
<1>2. TypeOK /\ FreshInv /\ [Next]_vars => FreshInv'
  <2> SUFFICES ASSUME TypeOK, FreshInv, [Next]_vars PROVE FreshInv'
    OBVIOUS
  <2>1. CASE UNCHANGED vars
    BY <2>1 DEF vars, FreshInv, CopyIsFresh, Alone, NobodySaves, InFlight
  <2>2. CASE Next
    BY <2>2, FreshInvStep DEF Next
  <2> QED
    BY <2>1, <2>2
<1>3. FreshInv => CopyIsFresh
  BY DEF FreshInv
<1> QED
  BY <1>1, <1>2, <1>3, TypeCorrect, PTL DEF Spec

-----------------------------------------------------------------------------
(* What one step does to the table and to the session that takes it. *)

LEMMA AfterKeeps ==
  ASSUME NEW q \in ActiveSession,
         NEW x \in {AfterStatus(q), AfterFields(q)}, x.pc \in Active
  PROVE  x.user = q.user /\ x.task = q.task /\ x.copy = q.copy
<1>1. \A a : Answered(a).pc \notin Active
  BY DEF Answered, Idle, Active
<1>2. ASSUME NEW pc
      PROVE  LET y == [q EXCEPT !.pc = pc]
             IN  y.user = q.user /\ y.task = q.task /\ y.copy = q.copy
  BY DEF ActiveSession
<1> QED
  BY <1>1, <1>2 DEF AfterFields, AfterStatus

\* A handler that is still going is on the same task for the same user; its
\* copy is the one it had, that copy with its edits, or the row just written.
LEMMA ServeKeeps ==
  ASSUME TypeOK, NEW r \in Request, Serve(r) \/ Abort(r), req'[r].pc \in Active
  PROVE  /\ req'[r].user = req[r].user
         /\ req'[r].task = req[r].task
         /\ req'[r].copy \in {req[r].copy, Patched(req[r].copy, req[r].patch),
                              row'[req[r].task]}
<1> DEFINE q == req[r]
<1>0. q \in ActiveSession
  BY ServesActive, InFlightSession
<1>1. \A a : Answered(a).pc \notin Active
  BY DEF Answered, Idle, Active
<1>2. CASE AuditCreate(r)
  BY <1>0, <1>2, AfterKeeps DEF AuditCreate, TypeOK
<1>3. CASE AuditUpdate(r)
  BY <1>0, <1>3, AfterKeeps DEF AuditUpdate, TypeOK
<1>4. CASE SaveFields(r)
  <2> DEFINE new == Patched(q.copy, q.patch)
             saved == [q EXCEPT !.pc = "auditUpdate", !.copy = new]
  <2>1. saved.user = q.user /\ saved.task = q.task /\ saved.copy = new
    <3> HIDE DEF new
    <3> QED BY <1>0 DEF ActiveSession
  <2>2. req'[r] = IF new # q.copy THEN saved ELSE AfterFields(q)
    BY <1>4 DEF SaveFields, TypeOK, Changed
  <2> HIDE DEF saved, new
  <2>3. CASE new # q.copy
    BY <2>1, <2>2, <2>3 DEF new
  <2>4. CASE new = q.copy
    BY <1>0, <2>2, <2>4, AfterKeeps
  <2> QED
    BY <2>3, <2>4
<1>5. CASE TransitionTaskStatus(r)
  <2> DEFINE w == row[q.task]
             new == Advanced(w, q.patch.status)
             after == [q EXCEPT !.copy = new, !.todo = Recipients(w, q.user)]
  <2>1. /\ w # NoRow
        /\ can_transition_to(w, q.patch.status)
        /\ row' = [row EXCEPT ![q.task] = new]
        /\ req' = [req EXCEPT ![r] = AfterStatus(after)]
    BY <1>5 DEF TransitionTaskStatus
  <2>2. q.pc = "transition" /\ q.task \in Task
    BY <1>0, <1>5 DEF TransitionTaskStatus, ActiveSession
  <2>3. new \in Row /\ Recipients(w, q.user) \in SUBSET User
    BY <1>0, <2>1, TransitionStatus, AdvancedIsRow
       DEF ActiveSession, TypeOK, Recipients, Row, Assignee
  <2>4. /\ after \in ActiveSession
        /\ after.user = q.user /\ after.task = q.task /\ after.copy = new
    <3> HIDE DEF new
    <3> QED BY <1>0, <2>2, <2>3 DEF ActiveSession
  <2>5. row'[q.task] = new
    BY <2>1, <2>2 DEF TypeOK
  <2>6. req'[r] = AfterStatus(after)
    BY <2>1 DEF TypeOK
  <2> HIDE DEF after, new
  <2> QED
    BY <2>4, <2>5, <2>6, AfterKeeps
<1>6. CASE NotifyStatus(r)
  <2>1. PICK u \in q.todo :
          req' = [req EXCEPT ![r] = AfterStatus([q EXCEPT !.todo = q.todo \ {u}])]
    BY <1>6 DEF NotifyStatus
  <2> DEFINE x == [q EXCEPT !.todo = q.todo \ {u}]
  <2>2. x \in ActiveSession /\ x.user = q.user /\ x.task = q.task /\ x.copy = q.copy
    BY <1>0 DEF ActiveSession
  <2>3. req'[r] = AfterStatus(x)
    BY <2>1 DEF TypeOK
  <2> HIDE DEF x
  <2> QED
    BY <2>2, <2>3, AfterKeeps
<1>7. CASE AuditDelete(r)
  BY <1>0, <1>7 DEF AuditDelete, TypeOK, ActiveSession
<1>8. CASE TransitionRefused(r) \/ DeleteRow(r) \/ NotifyAssignee(r) \/ NotifyFails(r) \/ Abort(r)
  BY <1>1, <1>8 DEF TransitionRefused, DeleteRow, NotifyAssignee, NotifyFails, Abort, TypeOK
<1> QED
  BY <1>2, <1>3, <1>4, <1>5, <1>6, <1>7, <1>8 DEF Serve

\* A key is handed out before anything is stored or done under it.
BornFirst ==
  /\ \A t \in Task : row[t] # NoRow => t \in born
  /\ \A r \in InFlight : req[r].task \in born

\* A request that begins in flight holds the row as it is stored.
LEMMA StartKeeps ==
  ASSUME TypeOK, BornFirst, NEW r \in Request, Start(r), req'[r].pc \in Active
  PROVE  /\ req'[r].task \in born'
         /\ req'[r].copy = row'[req'[r].task]
         /\ req'[r].copy # NoRow
<1>1. CASE CreateTask(r)
  <2>1. PICK u \in Manager, t \in Task \ born, p \in Payload :
          /\ p.content # Unset
          /\ row' = [row EXCEPT ![t] = NewRow(u, p)]
          /\ born' = born \cup {t}
          /\ req' = [req EXCEPT ![r] =
                       Begin("auditCreate", u, t, NewRow(u, p), EmptyPatch, NoUser)]
    BY <1>1 DEF CreateTask
  <2>2. NewRow(u, p) # NoRow
    BY <2>1, NewRowIsRow, ConstantsAssumption
  <2> QED
    BY <2>1, <2>2 DEF Begin, TypeOK
<1>2. CASE BeginDelete(r)
  BY <1>2 DEF BeginDelete, Begin, TypeOK, db, Visible, BornFirst
<1>3. CASE Refused(r)
  BY <1>3 DEF Refused, Answered, Idle, Active, TypeOK
<1>4. CASE BeginUpdate(r)
  <2>1. PICK u \in User, t \in Task, p \in Payload :
          LET q == Begin("save", u, t, row[t], Writable(u, p), row[t].assignee)
          IN  /\ Visible(u, t)
              /\ req' = [req EXCEPT ![r] = IF HasFields(q.patch) THEN q ELSE AfterFields(q)]
              /\ UNCHANGED db
    BY <1>4 DEF BeginUpdate
  <2> DEFINE q == Begin("save", u, t, row[t], Writable(u, p), row[t].assignee)
  <2>2. q \in ActiveSession
    BY <2>1, WritableIsPayload, ConstantsAssumption
       DEF Begin, ActiveSession, Active, Visible, TypeOK, Row
  <2>3. q.task = t /\ q.copy = row[t]
    BY DEF Begin
  <2>4. req'[r] = q \/ req'[r] = AfterFields(q)
    BY <2>1 DEF TypeOK
  <2> HIDE DEF q
  <2>5. req'[r].task = t /\ req'[r].copy = row[t]
    BY <2>2, <2>3, <2>4, AfterKeeps
  <2> QED
    BY <2>1, <2>5 DEF db, Visible, BornFirst
<1> QED
  BY <1>1, <1>2, <1>3, <1>4 DEF Start

\* What a step writes into the table, row by row.
LEMMA RowChange ==
  ASSUME TypeOK, NEW r \in Request, Start(r) \/ Serve(r) \/ Abort(r),
         NEW t \in Task, row'[t] # row[t]
  PROVE  \/ /\ CreateTask(r) /\ t \notin born /\ t \in born'
            /\ \E u \in Manager, p \in Payload :
                 p.content # Unset /\ validate_assignee(u, p) /\ row'[t] = NewRow(u, p)
         \/ /\ req[r] \in ActiveSession /\ req[r].task = t
            /\ \/ /\ req[r].pc = "save"
                  /\ row'[t] = Patched(req[r].copy, req[r].patch)
               \/ /\ req[r].pc = "transition"
                  /\ row[t] # NoRow /\ ~row[t].locked
                  /\ can_transition_to(row[t], req[r].patch.status)
                  /\ row'[t] = Advanced(row[t], req[r].patch.status)
               \/ /\ req[r].pc = "delete"
                  /\ row'[t] = NoRow
<1>1. CASE CreateTask(r)
  BY <1>1 DEF CreateTask, TypeOK
<1>2. CASE BeginUpdate(r) \/ BeginDelete(r) \/ Refused(r) \/ AuditCreate(r) \/ AuditUpdate(r)
           \/ TransitionRefused(r) \/ AuditDelete(r) \/ NotifyStatus(r) \/ NotifyAssignee(r)
           \/ NotifyFails(r) \/ Abort(r)
  BY <1>2 DEF BeginUpdate, BeginDelete, Refused, AuditCreate, AuditUpdate, TransitionRefused,
              AuditDelete, NotifyStatus, NotifyAssignee, NotifyFails, Abort, db
<1>3. CASE SaveFields(r)
  BY <1>3, InFlightSession DEF SaveFields, TypeOK, Active
<1>4. CASE TransitionTaskStatus(r)
  BY <1>4, InFlightSession DEF TransitionTaskStatus, TypeOK, Active
<1>5. CASE DeleteRow(r)
  BY <1>5, InFlightSession DEF DeleteRow, TypeOK, Active
<1> QED
  BY <1>1, <1>2, <1>3, <1>4, <1>5 DEF Start, Serve

LEMMA BornGrows ==
  ASSUME TypeOK, NEW r \in Request, Start(r) \/ Serve(r) \/ Abort(r)
  PROVE  born \subseteq born'
BY DEF Start, CreateTask, BeginUpdate, BeginDelete, Refused, Serve, AuditCreate,
       SaveFields, AuditUpdate, TransitionTaskStatus, TransitionRefused, AuditDelete,
       DeleteRow, NotifyStatus, NotifyAssignee, NotifyFails, Abort, db

LEMMA BornFirstStep ==
  ASSUME TypeOK, BornFirst, NEW r \in Request, Start(r) \/ Serve(r) \/ Abort(r)
  PROVE  BornFirst'
<1>1. ASSUME NEW t \in Task, row'[t] # NoRow
      PROVE  t \in born'
  <2>1. CASE row'[t] = row[t]
    BY <1>1, <2>1, BornGrows DEF BornFirst
  <2>2. CASE row'[t] # row[t]
    <3>1. t \in born' \/ (req[r] \in ActiveSession /\ req[r].task = t)
      BY <2>2, RowChange
    <3> QED
      BY <3>1, BornGrows DEF BornFirst, InFlight, ActiveSession
  <2> QED
    BY <2>1, <2>2
<1>2. ASSUME NEW s \in Request, req'[s].pc \in Active
      PROVE  req'[s].task \in born'
  <2>1. CASE s # r
    BY <1>2, <2>1, OwnSession, BornGrows DEF BornFirst, InFlight
  <2>2. CASE s = r /\ Start(r)
    BY <1>2, <2>2, StartKeeps
  <2>3. CASE s = r /\ (Serve(r) \/ Abort(r))
    BY <1>2, <2>3, ServeKeeps, ServesActive, BornGrows DEF BornFirst, InFlight
  <2> QED
    BY <2>1, <2>2, <2>3
<1> QED
  BY <1>1, <1>2 DEF BornFirst, InFlight

LEMMA BornFirstHolds == Spec => []BornFirst
<1>1. Init => BornFirst
  BY DEF Init, BornFirst, InFlight, Idle, Active
<1>2. TypeOK /\ BornFirst /\ [Next]_vars => BornFirst'
  <2>1. UNCHANGED vars /\ BornFirst => BornFirst'
    BY DEF vars, BornFirst, InFlight
  <2> QED
    BY <2>1, BornFirstStep DEF Next
<1> QED
  BY <1>1, <1>2, TypeCorrect, PTL DEF Spec

-----------------------------------------------------------------------------
(* Locks. *)

Paired(w) == w.locked => w.status \in LockedStatus

LockInv ==
  /\ \A t \in Task : row[t] # NoRow => Paired(row[t])
  /\ \A r \in InFlight : Paired(req[r].copy)

LEMMA PatchedKeepsPair ==
  ASSUME NEW w \in Row, NEW p \in PayloadType, Paired(w)
  PROVE  Paired(Patched(w, p))
BY DEF Paired, Patched, Row, PayloadType

LEMMA AdvancedIsPaired ==
  ASSUME NEW w \in Row, NEW s, ~w.locked
  PROVE  Paired(Advanced(w, s))
BY DEF Paired, Advanced, Row

LEMMA LockInvStep ==
  ASSUME TypeOK, TypeOK', BornFirst, LockInv,
         NEW r \in Request, Start(r) \/ Serve(r) \/ Abort(r)
  PROVE  LockInv'
<1>1. ASSUME NEW t \in Task, row'[t] # NoRow
      PROVE  Paired(row'[t])
  <2>1. CASE row'[t] = row[t]
    BY <1>1, <2>1 DEF LockInv
  <2>2. CASE row'[t] # row[t] /\ ~CreateTask(r)
    <3>1. req[r] \in ActiveSession /\ Paired(req[r].copy)
      BY <2>2, RowChange DEF LockInv, InFlight, ActiveSession
    <3>2. req[r].copy \in Row /\ req[r].patch \in PayloadType
      BY <3>1 DEF ActiveSession
    <3>3. row[t] # NoRow => row[t] \in Row
      BY DEF TypeOK
    <3> QED
      BY <1>1, <2>2, <3>1, <3>2, <3>3, RowChange, PatchedKeepsPair, AdvancedIsPaired
  <2>3. CASE row'[t] # row[t] /\ CreateTask(r)
    <3>1. \E u \in Manager, p \in Payload : row'[t] = NewRow(u, p)
      BY <2>3 DEF CreateTask, TypeOK
    <3> QED
      BY <3>1 DEF NewRow, Paired
  <2> QED
    BY <2>1, <2>2, <2>3
<1>2. ASSUME NEW s \in Request, req'[s].pc \in Active
      PROVE  Paired(req'[s].copy)
  <2>1. CASE s # r
    BY <1>2, <2>1, OwnSession DEF LockInv, InFlight
  <2>2. req'[s] \in ActiveSession
    BY <1>2, ActiveOrNot DEF TypeOK
  <2>3. req'[s].copy \in Row /\ req'[s].copy # NoRow /\ req'[s].task \in Task
    BY <2>2, ConstantsAssumption DEF ActiveSession
  <2>4. CASE s = r /\ Start(r)
    BY <1>1, <1>2, <2>3, <2>4, StartKeeps
  <2>5. CASE s = r /\ (Serve(r) \/ Abort(r))
    <3>1. /\ req[r] \in ActiveSession
          /\ Paired(req[r].copy)
          /\ req'[r].task = req[r].task
          /\ req'[r].copy \in {req[r].copy, Patched(req[r].copy, req[r].patch),
                               row'[req[r].task]}
      BY <1>2, <2>5, ServesActive, ServeKeeps, InFlightSession DEF LockInv, InFlight
    <3>2. Paired(Patched(req[r].copy, req[r].patch))
      BY <3>1, PatchedKeepsPair DEF ActiveSession
    <3> QED
      BY <1>1, <2>3, <2>5, <3>1, <3>2
  <2> QED
    BY <2>1, <2>4, <2>5
<1> QED
  BY <1>1, <1>2 DEF LockInv, InFlight

\* However stale the rows that handlers write back, a locked task is approved:
\* its lock never outlives its status.
THEOREM LockedMeansApproved == Spec => []LockMeansApproved
<1>1. Init => LockInv
  BY InitialRowAssumption DEF Init, LockInv, InFlight, Idle, Active, Paired
<1>2. TypeOK /\ TypeOK' /\ BornFirst /\ LockInv /\ [Next]_vars => LockInv'
  <2>1. UNCHANGED vars /\ LockInv => LockInv'
    BY DEF vars, LockInv, InFlight
  <2> QED
    BY <2>1, LockInvStep DEF Next
<1>3. LockInv => LockMeansApproved
  BY DEF LockInv, LockMeansApproved, Paired, LockedStatus
<1> QED
  BY <1>1, <1>2, <1>3, TypeCorrect, BornFirstHolds, PTL DEF Spec

\* While what is written back is what is stored, a locked row only disappears.
LEMMA LockedRowStep ==
  ASSUME TypeOK, BornFirst, CopyIsFresh,
         NEW r \in Request, Start(r) \/ Serve(r) \/ Abort(r),
         NEW t \in Task, row[t] # NoRow, row[t].locked
  PROVE  row'[t] \in {row[t], NoRow}
<1>1. t \in born
  BY DEF BornFirst
<1>2. ~(req[r] \in ActiveSession /\ req[r].task = t /\ req[r].pc = "save")
  BY DEF CopyIsFresh
<1> QED
  BY <1>1, <1>2, RowChange

\* Once locked, a task is never changed again, for any number of tasks, users
\* and requests, provided requests do not disturb each other.
THEOREM LockIsFinal ==
  ASSUME Undisturbed
  PROVE  Spec => LockedIsFinal
<1>1. TypeOK /\ BornFirst /\ CopyIsFresh /\ [Next]_vars
        => [\A t \in Task : row[t] # NoRow /\ row[t].locked
                              => row'[t] \in {row[t], NoRow}]_vars
  BY LockedRowStep DEF Next
<1>2. Spec => []CopyIsFresh
  BY FreshWhenUndisturbed
<1> QED
  BY <1>1, <1>2, TypeCorrect, BornFirstHolds, PTL DEF Spec, LockedIsFinal

-----------------------------------------------------------------------------
(* Refinement: the endpoint implements the life of a task. *)

LEMMA BodyIsBody ==
  ASSUME TypeOK, NEW t \in Task
  PROVE  BodyOf(t) \in [content : Content \cup {Unset}, assignee : Assignee]
BY DEF TypeOK, BodyOf, NoBody, Row, Assignee

LEMMA StatusIsStatus ==
  ASSUME TypeOK, NEW t \in Task
  PROVE  StatusOf(t) \in Status
BY DEF TypeOK, StatusOf, Row, Status

\* What a step leaves of one task leaves its abstract life.
LEMMA SameLife ==
  ASSUME NEW t \in Task, row'[t] = row[t], t \in born' <=> t \in born
  PROVE  /\ PhaseOf(t)' = PhaseOf(t) /\ BodyOf(t)' = BodyOf(t)
         /\ StatusOf(t)' = StatusOf(t) /\ SealedOf(t)' = SealedOf(t)
         /\ MovesOf(t)' = MovesOf(t)
BY DEF PhaseOf, BodyOf, StatusOf, SealedOf, MovesOf

\* Each step touches at most one task.
LEMMA OneTask ==
  ASSUME TypeOK, BornFirst, NEW r \in Request, Start(r) \/ Serve(r) \/ Abort(r)
  PROVE  \/ UNCHANGED <<row, born>>
         \/ \E t \in Task :
              /\ \A x \in Task \ {t} : row'[x] = row[x] /\ (x \in born' <=> x \in born)
              /\ row'[t] # row[t]
<1>1. CASE CreateTask(r)
  <2>1. PICK u \in Manager, t \in Task \ born, p \in Payload :
          /\ p.content # Unset
          /\ row' = [row EXCEPT ![t] = NewRow(u, p)]
          /\ born' = born \cup {t}
    BY <1>1 DEF CreateTask
  <2>2. NewRow(u, p) # NoRow /\ row[t] = NoRow
    BY <2>1, NewRowIsRow, ConstantsAssumption DEF BornFirst
  <2> QED
    BY <2>1, <2>2 DEF TypeOK
<1>2. CASE BeginUpdate(r) \/ BeginDelete(r) \/ Refused(r) \/ AuditCreate(r) \/ AuditUpdate(r)
           \/ TransitionRefused(r) \/ AuditDelete(r) \/ NotifyStatus(r) \/ NotifyAssignee(r)
           \/ NotifyFails(r) \/ Abort(r)
  BY <1>2 DEF BeginUpdate, BeginDelete, Refused, AuditCreate, AuditUpdate, TransitionRefused,
              AuditDelete, NotifyStatus, NotifyAssignee, NotifyFails, Abort, db
<1>3. ASSUME SaveFields(r) \/ TransitionTaskStatus(r) \/ DeleteRow(r)
      PROVE  \E w : row' = [row EXCEPT ![req[r].task] = w] /\ born' = born
  BY <1>3 DEF SaveFields, TransitionTaskStatus, DeleteRow
<1>4. CASE SaveFields(r) \/ TransitionTaskStatus(r) \/ DeleteRow(r)
  <2>1. req[r] \in ActiveSession
    BY <1>4, InFlightSession DEF SaveFields, TransitionTaskStatus, DeleteRow, Active
  <2>2. req[r].task \in Task
    BY <2>1 DEF ActiveSession
  <2>3. PICK w : row' = [row EXCEPT ![req[r].task] = w] /\ born' = born
    BY <1>3, <1>4
  <2>4. row \in [Task -> Row \cup {NoRow}]
    BY DEF TypeOK
  <2>5. CASE w = row[req[r].task]
    BY <2>2, <2>3, <2>4, <2>5
  <2>6. CASE w # row[req[r].task]
    BY <2>2, <2>3, <2>4, <2>6
  <2> QED
    BY <2>5, <2>6
<1> QED
  BY <1>1, <1>2, <1>4 DEF Start, Serve

\* The abstract variables, when only task t moves.
LEMMA LifeExcept ==
  ASSUME NEW t \in Task,
         \A x \in Task \ {t} : row'[x] = row[x] /\ (x \in born' <=> x \in born)
  PROVE  /\ [x \in Task |-> PhaseOf(x)]' = [[x \in Task |-> PhaseOf(x)] EXCEPT ![t] = PhaseOf(t)']
         /\ [x \in Task |-> BodyOf(x)]' = [[x \in Task |-> BodyOf(x)] EXCEPT ![t] = BodyOf(t)']
         /\ [x \in Task |-> StatusOf(x)]' = [[x \in Task |-> StatusOf(x)] EXCEPT ![t] = StatusOf(t)']
         /\ [x \in Task |-> SealedOf(x)]' = [[x \in Task |-> SealedOf(x)] EXCEPT ![t] = SealedOf(t)']
         /\ [x \in Task |-> MovesOf(x)]' = [[x \in Task |-> MovesOf(x)] EXCEPT ![t] = MovesOf(t)']
<1>1. \A x \in Task \ {t} :
        /\ PhaseOf(x)' = PhaseOf(x) /\ BodyOf(x)' = BodyOf(x)
        /\ StatusOf(x)' = StatusOf(x) /\ SealedOf(x)' = SealedOf(x)
        /\ MovesOf(x)' = MovesOf(x)
  BY SameLife
<1> QED
  BY <1>1

\* An abstract variable keeps its value when task t keeps its part of it.
LEMMA ExceptSame ==
  ASSUME NEW f, NEW t \in Task, f = [x \in Task |-> f[x]]
  PROVE  [f EXCEPT ![t] = f[t]] = f
OBVIOUS

LEMMA LifecycleInit == Init => Lifecycle!Init
<1> SUFFICES ASSUME Init PROVE Lifecycle!Init
  OBVIOUS
<1>1. TypeOK
  <2>1. InitialRow \subseteq Row
    BY InitialRowAssumption
  <2>2. row \in [Task -> Row \cup {NoRow}]
    BY <2>1 DEF Init
  <2>3. req \in [Request -> Session]
    BY DEF Init, Session
  <2> QED
    BY <2>2, <2>3 DEF Init, TypeOK
<1>2. \A t \in Task : row[t] # NoRow => row[t].version = 1 /\ ~row[t].locked
  BY InitialRowAssumption DEF Init
<1>3. \A t \in Task : PhaseOf(t) \in {"unborn", "alive"} /\ SealedOf(t) = FALSE /\ MovesOf(t) = 0
  BY <1>2 DEF Init, PhaseOf, SealedOf, MovesOf
<1>4. \A t \in Task : /\ BodyOf(t) \in [content : Content \cup {Unset}, assignee : Assignee]
                      /\ StatusOf(t) \in Status
  BY <1>1, BodyIsBody, StatusIsStatus
<1> QED
  BY <1>3, <1>4 DEF Lifecycle!Init

\* Each step of the endpoint is a step of the abstract life of one task, or
\* changes no life at all.
LEMMA LifecycleStep ==
  ASSUME TypeOK, TypeOK', BornFirst, CopyIsFresh,
         NEW r \in Request, Start(r) \/ Serve(r) \/ Abort(r)
  PROVE  Lifecycle!Next \/ UNCHANGED Lifecycle!vars
<1>1. CASE UNCHANGED <<row, born>>
  BY <1>1 DEF Lifecycle!vars, PhaseOf, BodyOf, StatusOf, SealedOf, MovesOf
<1>2. ASSUME NEW t \in Task,
             \A x \in Task \ {t} : row'[x] = row[x] /\ (x \in born' <=> x \in born),
             row'[t] # row[t]
      PROVE  Lifecycle!Next
  <2> DEFINE ph == [x \in Task |-> PhaseOf(x)]
             bo == [x \in Task |-> BodyOf(x)]
             st == [x \in Task |-> StatusOf(x)]
             se == [x \in Task |-> SealedOf(x)]
             mo == [x \in Task |-> MovesOf(x)]
  <2>1. /\ ph' = [ph EXCEPT ![t] = PhaseOf(t)']
        /\ bo' = [bo EXCEPT ![t] = BodyOf(t)']
        /\ st' = [st EXCEPT ![t] = StatusOf(t)']
        /\ se' = [se EXCEPT ![t] = SealedOf(t)']
        /\ mo' = [mo EXCEPT ![t] = MovesOf(t)']
    BY <1>2, LifeExcept
  <2>2. /\ ph[t] = PhaseOf(t) /\ bo[t] = BodyOf(t) /\ st[t] = StatusOf(t)
        /\ se[t] = SealedOf(t) /\ mo[t] = MovesOf(t)
    OBVIOUS
  <2>3. row[t] \in Row \cup {NoRow} /\ row'[t] \in Row \cup {NoRow}
    BY DEF TypeOK
  <2>4. /\ BodyOf(t)' \in [content : Content \cup {Unset}, assignee : Assignee]
        /\ StatusOf(t)' \in Status
    BY <2>3 DEF BodyOf, NoBody, StatusOf, Row, Assignee, Status
  <2>5. /\ PhaseOf(t)' = PhaseOf(t) => ph' = ph
        /\ BodyOf(t)' = BodyOf(t) => bo' = bo
        /\ StatusOf(t)' = StatusOf(t) => st' = st
        /\ SealedOf(t)' = SealedOf(t) => se' = se
        /\ MovesOf(t)' = MovesOf(t) => mo' = mo
    BY <2>1, <2>2, ExceptSame
  <2> HIDE DEF ph, bo, st, se, mo
  <2>6. CASE CreateTask(r) /\ t \notin born /\ t \in born'
    <3>1. PICK u \in Manager, p \in Payload : p.content # Unset /\ row'[t] = NewRow(u, p)
      BY <1>2, <2>6, RowChange DEF ActiveSession, BornFirst, InFlight
    <3>2. NewRow(u, p) \in Row
      BY <3>1, NewRowIsRow, ConstantsAssumption
    <3>3. row[t] = NoRow /\ row'[t] # NoRow
      BY <2>6, <3>1, <3>2, ConstantsAssumption DEF BornFirst
    <3>4. PhaseOf(t) = "unborn" /\ PhaseOf(t)' = "alive"
      BY <2>6, <3>3 DEF PhaseOf
    <3>5. SealedOf(t)' = SealedOf(t) /\ MovesOf(t)' = MovesOf(t)
      BY <3>1, <3>3 DEF SealedOf, MovesOf, NewRow
    <3>6. Lifecycle!Create(t, BodyOf(t)', StatusOf(t)')
      BY <2>1, <2>2, <2>5, <3>4, <3>5 DEF Lifecycle!Create, ph, bo, st, se, mo
    <3> QED
      BY <2>4, <3>6 DEF Lifecycle!Next
  <2>7. CASE req[r].pc = "save" /\ req[r] \in ActiveSession /\ req[r].task = t
             /\ row'[t] = Patched(req[r].copy, req[r].patch)
    <3>1. row[t] = req[r].copy /\ ~row[t].locked /\ row[t] # NoRow
      BY <2>7, ConstantsAssumption DEF CopyIsFresh, ActiveSession
    <3>2. row'[t] \in Row /\ row'[t] # NoRow
      BY <2>7, PatchedIsRow, ConstantsAssumption DEF ActiveSession
    <3>3. /\ row'[t].status = row[t].status /\ row'[t].locked = row[t].locked
          /\ row'[t].version = row[t].version
      BY <2>3, <2>7, <3>1 DEF Patched, Row
    <3>4. /\ PhaseOf(t) = "alive" /\ PhaseOf(t)' = PhaseOf(t) /\ StatusOf(t)' = StatusOf(t)
          /\ SealedOf(t) = FALSE /\ SealedOf(t)' = SealedOf(t) /\ MovesOf(t)' = MovesOf(t)
      BY <3>1, <3>2, <3>3 DEF PhaseOf, StatusOf, SealedOf, MovesOf
    <3>5. Lifecycle!Edit(t, BodyOf(t)')
      BY <2>1, <2>2, <2>5, <3>4 DEF Lifecycle!Edit, ph, bo, st, se, mo
    <3> QED
      BY <2>4, <3>5 DEF Lifecycle!Next
  <2>8. CASE /\ row[t] # NoRow /\ ~row[t].locked
             /\ can_transition_to(row[t], req[r].patch.status)
             /\ row'[t] = Advanced(row[t], req[r].patch.status)
    <3> DEFINE s == req[r].patch.status
    <3>1. row[t] \in Row /\ s \in Status
      BY <2>3, <2>8, TransitionStatus
    <3>2. row'[t] \in Row /\ row'[t] # NoRow
      BY <2>8, <3>1, AdvancedIsRow, ConstantsAssumption
    <3>3. /\ row'[t].status = s /\ row'[t].version = row[t].version + 1
          /\ row'[t].content = row[t].content /\ row'[t].assignee = row[t].assignee
      BY <2>8, <3>1 DEF Advanced, Row
    <3>4. row'[t].locked <=> s \in LockedStatus
      BY <2>8, <3>1 DEF Advanced, Row
    <3>5. /\ PhaseOf(t) = "alive" /\ PhaseOf(t)' = PhaseOf(t)
          /\ BodyOf(t)' = BodyOf(t)
          /\ StatusOf(t) = row[t].status /\ StatusOf(t)' = s
      BY <2>8, <3>2, <3>3 DEF PhaseOf, BodyOf, StatusOf
    <3>6. SealedOf(t) = FALSE /\ SealedOf(t)' = (s \in LockedStatus)
      BY <2>8, <3>2, <3>4 DEF SealedOf
    <3>7. MovesOf(t)' = MovesOf(t) + 1
      BY <2>8, <3>1, <3>2, <3>3 DEF MovesOf, Row
    <3>8. s \in ALLOWED_TRANSITIONS[StatusOf(t)]
      BY <2>8, <3>5 DEF can_transition_to
    <3> HIDE DEF s
    <3>9. Lifecycle!Move(t, s)
      BY <2>1, <2>2, <2>5, <3>5, <3>6, <3>7, <3>8 DEF Lifecycle!Move, ph, bo, st, se, mo
    <3> QED
      BY <3>1, <3>9 DEF Lifecycle!Next
  <2>9. CASE req[r] \in ActiveSession /\ req[r].task = t /\ row'[t] = NoRow
    <3>1. row[t] # NoRow
      BY <1>2, <2>9
    <3>2. t \in born'
      BY <3>1, BornGrows DEF BornFirst
    <3>3. /\ PhaseOf(t) = "alive" /\ PhaseOf(t)' = "deleted"
          /\ SealedOf(t)' = FALSE /\ MovesOf(t)' = 0
      BY <2>9, <3>1, <3>2 DEF PhaseOf, SealedOf, MovesOf
    <3>4. Lifecycle!Delete(t, BodyOf(t)', StatusOf(t)')
      BY <2>1, <2>2, <3>3 DEF Lifecycle!Delete, ph, bo, st, se, mo
    <3> QED
      BY <2>4, <3>4 DEF Lifecycle!Next
  <2> QED
    BY <1>2, <2>6, <2>7, <2>8, <2>9, RowChange
<1> QED
  BY <1>1, <1>2, OneTask

\* While requests do not disturb each other, the endpoint implements the life
\* of a task: created in any status, moved along the workflow, edited until it
\* is approved, sealed by approval, deleted for good.
THEOREM EndpointImplementsLifecycle ==
  ASSUME Undisturbed
  PROVE  Spec => ImplementsLifecycle
<1>1. TypeOK /\ TypeOK' /\ BornFirst /\ CopyIsFresh /\ [Next]_vars
        => [Lifecycle!Next]_(Lifecycle!vars)
  <2>1. UNCHANGED vars => UNCHANGED Lifecycle!vars
    BY DEF vars, Lifecycle!vars, PhaseOf, BodyOf, StatusOf, SealedOf, MovesOf
  <2> QED
    BY <2>1, LifecycleStep DEF Next
<1>2. Spec => []CopyIsFresh
  BY FreshWhenUndisturbed
<1> QED
  BY <1>1, <1>2, LifecycleInit, TypeCorrect, BornFirstHolds, PTL
     DEF Spec, ImplementsLifecycle, Lifecycle!Spec

-----------------------------------------------------------------------------
(* What the tables of TaskWorkflow say of each other, and who may write    *)
(* what: history and audit log, organizations, employees, refusals.        *)

-----------------------------------------------------------------------------
(* What one step adds to each of the tables that only grow. *)

Recorders == {"auditCreate", "auditUpdate", "transition", "auditDelete"}

\* The transition as a handler commits it: the row, typed, and what is written.
LEMMA TransitionEffect ==
  ASSUME TypeOK, NEW r \in Request, TransitionTaskStatus(r)
  PROVE  /\ req[r] \in ActiveSession /\ req[r].pc = "transition"
         /\ row[req[r].task] \in Row /\ ~row[req[r].task].locked
         /\ can_transition_to(row[req[r].task], req[r].patch.status)
         /\ req[r].patch.status \in Status
         /\ row'[req[r].task] = Advanced(row[req[r].task], req[r].patch.status)
         /\ history' = history \cup
              {[req |-> r, task |-> req[r].task, actor |-> req[r].user,
                from |-> row[req[r].task].status, to |-> req[r].patch.status]}
         /\ audit' = audit \cup
              {AuditEntry(r, "WORKFLOW_TRANSITION", row[req[r].task].status,
                          req[r].patch.status, row[req[r].task].version + 1)}
         /\ req'[r] = AfterStatus([req[r] EXCEPT
              !.copy = Advanced(row[req[r].task], req[r].patch.status),
              !.todo = Recipients(row[req[r].task], req[r].user)])
         /\ born' = born /\ inbox' = inbox
<1> DEFINE q == req[r]
           w == row[q.task]
           s == q.patch.status
           new == Advanced(w, s)
           after == AfterStatus([q EXCEPT !.copy = new, !.todo = Recipients(w, q.user)])
<1>1. /\ q.pc = "transition" /\ w # NoRow /\ ~w.locked /\ can_transition_to(w, s)
      /\ row' = [row EXCEPT ![q.task] = new]
      /\ history' = history \cup {[req |-> r, task |-> q.task, actor |-> q.user,
                                   from |-> w.status, to |-> s]}
      /\ audit' = audit \cup {AuditEntry(r, "WORKFLOW_TRANSITION", w.status, s, w.version + 1)}
      /\ req' = [req EXCEPT ![r] = after]
      /\ born' = born /\ inbox' = inbox
  BY DEF TransitionTaskStatus, record_audit_log
<1>2. q \in ActiveSession
  BY <1>1, InFlightSession DEF Active
<1>3. q.task \in Task
  BY <1>2 DEF ActiveSession
<1>4. w \in Row
  BY <1>1, <1>3 DEF TypeOK
<1>5. s \in Status
  BY <1>1, <1>4, TransitionStatus
<1> HIDE DEF new, after
<1>6. row'[q.task] = new /\ req'[r] = after
  BY <1>1, <1>3 DEF TypeOK
<1> QED
  BY <1>1, <1>2, <1>4, <1>5, <1>6 DEF new, after

\* Every audit entry is written by a handler in flight, about its own task and
\* in the name of its own user; a transition's entry by the transition itself.
LEMMA AuditChange ==
  ASSUME TypeOK, NEW r \in Request, Start(r) \/ Serve(r) \/ Abort(r)
  PROVE  /\ audit \subseteq audit'
         /\ \A e \in audit' \ audit :
              /\ req[r] \in ActiveSession /\ req[r].pc \in Recorders
              /\ e.req = r /\ e.task = req[r].task /\ e.actor = req[r].user
              /\ e.action = "WORKFLOW_TRANSITION" => TransitionTaskStatus(r)
<1>1. CASE TransitionTaskStatus(r)
  <2> DEFINE new == AuditEntry(r, "WORKFLOW_TRANSITION", row[req[r].task].status,
                               req[r].patch.status, row[req[r].task].version + 1)
  <2>1. audit' = audit \cup {new}
    BY <1>1, TransitionEffect
  <2>3. new.req = r /\ new.task = req[r].task /\ new.actor = req[r].user
    BY DEF AuditEntry
  <2>2. req[r] \in ActiveSession /\ req[r].pc = "transition"
    BY <1>1, TransitionEffect
  <2> QED
    <3> HIDE DEF new
    <3> QED BY <1>1, <2>1, <2>2, <2>3 DEF Recorders
<1>2. CASE AuditCreate(r)
  BY <1>2, InFlightSession DEF AuditCreate, record_audit_log, AuditEntry, Recorders, Active
<1>3. CASE AuditUpdate(r)
  BY <1>3, InFlightSession DEF AuditUpdate, record_audit_log, AuditEntry, Recorders, Active
<1>4. CASE AuditDelete(r)
  BY <1>4, InFlightSession DEF AuditDelete, record_audit_log, AuditEntry, Recorders, Active
<1>5. CASE CreateTask(r) \/ BeginUpdate(r) \/ BeginDelete(r) \/ Refused(r) \/ SaveFields(r)
           \/ TransitionRefused(r) \/ DeleteRow(r) \/ NotifyStatus(r) \/ NotifyAssignee(r)
           \/ NotifyFails(r) \/ Abort(r)
  BY <1>5 DEF CreateTask, BeginUpdate, BeginDelete, Refused, SaveFields, TransitionRefused,
              DeleteRow, NotifyStatus, NotifyAssignee, NotifyFails, Abort, db
<1> QED
  BY <1>1, <1>2, <1>3, <1>4, <1>5 DEF Start, Serve

\* Every notice goes, about the handler's own task, to somebody on its list or
\* to the assignee of the row it holds.
LEMMA InboxChange ==
  ASSUME TypeOK, NEW r \in Request, Start(r) \/ Serve(r) \/ Abort(r)
  PROVE  \A n \in inbox' \ inbox :
           /\ req[r] \in ActiveSession /\ n.task = req[r].task
           /\ n.to \in req[r].todo \/ (n.to = req[r].copy.assignee /\ n.to # NoUser)
<1>1. CASE NotifyStatus(r)
  BY <1>1, InFlightSession DEF NotifyStatus, Notice, Active
<1>2. CASE NotifyAssignee(r)
  <2>1. req[r] \in ActiveSession /\ req[r].copy.assignee # NoUser
    BY <1>2, InFlightSession DEF NotifyAssignee, Active, ActiveSession
  <2> QED
    BY <1>2, <2>1 DEF NotifyAssignee, Notice
<1>3. CASE CreateTask(r) \/ BeginUpdate(r) \/ BeginDelete(r) \/ Refused(r) \/ SaveFields(r)
           \/ TransitionTaskStatus(r) \/ TransitionRefused(r) \/ DeleteRow(r) \/ NotifyFails(r)
           \/ AuditCreate(r) \/ AuditUpdate(r) \/ AuditDelete(r) \/ Abort(r)
  BY <1>3 DEF CreateTask, BeginUpdate, BeginDelete, Refused, SaveFields, TransitionTaskStatus,
              TransitionRefused, DeleteRow, NotifyFails, AuditCreate, AuditUpdate, AuditDelete,
              Abort, db
<1> QED
  BY <1>1, <1>2, <1>3 DEF Start, Serve

\* The approval history grows by a transition only, and a deleted task takes
\* its own rows of it along.
LEMMA HistoryChange ==
  ASSUME TypeOK, NEW r \in Request, Start(r) \/ Serve(r) \/ Abort(r), NEW h \in history'
  PROVE  \/ /\ TransitionTaskStatus(r)
            /\ h = [req |-> r, task |-> req[r].task, actor |-> req[r].user,
                    from |-> row[req[r].task].status, to |-> req[r].patch.status]
         \/ h \in history /\ (row[h.task] # NoRow => row'[h.task] # NoRow)
<1>1. CASE TransitionTaskStatus(r)
  <2>1. \A t \in Task : row[t] # NoRow => row'[t] # NoRow
    <3> DEFINE new == Advanced(row[req[r].task], req[r].patch.status)
    <3>1. row' = [row EXCEPT ![req[r].task] = new]
      BY <1>1 DEF TransitionTaskStatus
    <3>2. new # NoRow
      <4>1. row[req[r].task] \in Row /\ req[r].patch.status \in Status
        BY <1>1, TransitionEffect
      <4>2. new \in Row
        BY <4>1, AdvancedIsRow
      <4> QED
        BY <4>2, ConstantsAssumption
    <3>3. \A t \in Task : row'[t] \in {row[t], new}
      BY <3>1 DEF TypeOK
    <3> HIDE DEF new
    <3> QED
      BY <3>2, <3>3
  <2>2. CASE h \in history
    <3>1. h.task \in Task
      BY <2>2 DEF TypeOK, HistoryRow
    <3> QED
      BY <2>1, <2>2, <3>1
  <2>3. CASE h \notin history
    BY <1>1, <2>3, TransitionEffect
  <2> QED
    BY <2>2, <2>3
<1>2. CASE DeleteRow(r)
  <2>1. h \in history /\ h.task # req[r].task /\ h.task \in Task
    BY <1>2 DEF DeleteRow, HistoryWithout, TypeOK, HistoryRow
  <2> QED
    BY <1>2, <2>1 DEF DeleteRow, TypeOK
<1>3. CASE SaveFields(r)
  <2>1. req[r] \in ActiveSession
    BY <1>3, InFlightSession DEF SaveFields, Active
  <2>2. Patched(req[r].copy, req[r].patch) # NoRow
    BY <2>1, PatchedIsRow, ConstantsAssumption DEF ActiveSession
  <2>3. h \in history /\ h.task \in Task
    BY <1>3 DEF SaveFields, TypeOK, HistoryRow
  <2> QED
    BY <1>3, <2>2, <2>3 DEF SaveFields, TypeOK
<1>4. CASE CreateTask(r)
  <2>1. h \in history /\ h.task \in Task
    BY <1>4 DEF CreateTask, TypeOK, HistoryRow
  <2>2. PICK u \in Manager, t \in Task, p \in Payload :
          p.content # Unset /\ row' = [row EXCEPT ![t] = NewRow(u, p)]
    BY <1>4 DEF CreateTask
  <2>3. NewRow(u, p) # NoRow
    BY <2>2, NewRowIsRow, ConstantsAssumption
  <2> QED
    BY <2>1, <2>2, <2>3 DEF TypeOK
<1>5. CASE BeginUpdate(r) \/ BeginDelete(r) \/ Refused(r) \/ AuditCreate(r) \/ AuditUpdate(r)
           \/ TransitionRefused(r) \/ AuditDelete(r) \/ NotifyStatus(r) \/ NotifyAssignee(r)
           \/ NotifyFails(r) \/ Abort(r)
  <2>1. row' = row /\ history' = history
    BY <1>5 DEF BeginUpdate, BeginDelete, Refused, AuditCreate, AuditUpdate, TransitionRefused,
         AuditDelete, NotifyStatus, NotifyAssignee, NotifyFails, Abort, db
  <2> QED
    BY <2>1
<1> QED
  BY <1>1, <1>2, <1>3, <1>4, <1>5 DEF Start, Serve

-----------------------------------------------------------------------------
(* History and audit log are written by one commit. *)

\* The audit entry of an approval-history row.
Twin(h, e) ==
  /\ e.action = "WORKFLOW_TRANSITION" /\ e.task = h.task
  /\ e.req = h.req /\ e.actor = h.actor /\ e.from = h.from /\ e.to = h.to

LEMMA HistoryStep ==
  ASSUME TypeOK, HistoryIsAudited, NEW r \in Request, Start(r) \/ Serve(r) \/ Abort(r)
  PROVE  HistoryIsAudited'
<1> SUFFICES ASSUME NEW h \in history'
             PROVE  row'[h.task] # NoRow /\ \E e \in audit' : Twin(h, e)
  BY DEF HistoryIsAudited, TransitionsOf, Twin
<1>1. CASE h \in history /\ (row[h.task] # NoRow => row'[h.task] # NoRow)
  <2>1. row[h.task] # NoRow /\ \E e \in audit : Twin(h, e)
    BY <1>1 DEF HistoryIsAudited, TransitionsOf, Twin
  <2> QED
    BY <1>1, <2>1, AuditChange
<1>2. CASE /\ TransitionTaskStatus(r)
           /\ h = [req |-> r, task |-> req[r].task, actor |-> req[r].user,
                   from |-> row[req[r].task].status, to |-> req[r].patch.status]
  <2> DEFINE w == row[req[r].task]
             s == req[r].patch.status
             e == AuditEntry(r, "WORKFLOW_TRANSITION", w.status, s, w.version + 1)
  <2>1. /\ w \in Row /\ s \in Status
        /\ row'[req[r].task] = Advanced(w, s)
        /\ audit' = audit \cup {e}
    BY <1>2, TransitionEffect
  <2>2. Twin(h, e)
    BY <1>2 DEF Twin, AuditEntry
  <2>3. row'[h.task] # NoRow
    BY <1>2, <2>1, AdvancedIsRow, ConstantsAssumption
  <2> HIDE DEF e
  <2> QED
    BY <2>1, <2>2, <2>3
<1> QED
  BY <1>1, <1>2, HistoryChange

\* Whatever requests do to each other, an approval-history row belongs to a
\* task that exists and has its twin in the audit log: a transition writes both
\* at once, and a deletion takes the history along but never the audit log.
THEOREM HistoryAudited == Spec => []HistoryIsAudited
<1>1. Init => HistoryIsAudited
  BY DEF Init, HistoryIsAudited
<1>2. TypeOK /\ HistoryIsAudited /\ [Next]_vars => HistoryIsAudited'
  <2>1. UNCHANGED vars /\ HistoryIsAudited => HistoryIsAudited'
    BY DEF vars, HistoryIsAudited, TransitionsOf
  <2> QED
    BY <2>1, HistoryStep DEF Next
<1> QED
  BY <1>1, <1>2, TypeCorrect, PTL DEF Spec

-----------------------------------------------------------------------------
(* What a handler still holds after a step: its user, task and body, and   *)
(* the people it has to tell.                                              *)

Movers == {"transition", "notifyStatus", "notifyAssignee"}

LEMMA AfterHolds ==
  ASSUME NEW q \in ActiveSession,
         NEW x \in {AfterStatus(q), AfterFields(q)}, x.pc \in Active
  PROVE  /\ x.user = q.user /\ x.task = q.task /\ x.copy = q.copy
         /\ x.patch = q.patch /\ x.todo = q.todo
         /\ x.pc \in Movers
         /\ x.pc = "transition" => x = AfterFields(q) /\ WantsTransition(q)
<1>1. \A a : Answered(a).pc \notin Active
  BY DEF Answered, Idle, Active
<1> DEFINE At(pc) == [q EXCEPT !.pc = pc]
<1>2. \A pc : /\ At(pc).user = q.user /\ At(pc).task = q.task /\ At(pc).copy = q.copy
              /\ At(pc).patch = q.patch /\ At(pc).todo = q.todo /\ At(pc).pc = pc
  BY DEF ActiveSession
<1>3. AfterStatus(q) \in {Answered("ok"), At("notifyStatus"), At("notifyAssignee")}
  BY DEF AfterStatus
<1>4. AfterFields(q) = IF WantsTransition(q) THEN At("transition") ELSE AfterStatus(q)
  BY DEF AfterFields
<1> HIDE DEF At
<1>5. CASE x = AfterStatus(q)
  <2>1. x \in {At("notifyStatus"), At("notifyAssignee")}
    BY <1>1, <1>3, <1>5
  <2> QED
    BY <1>2, <2>1 DEF Movers
<1>6. CASE x # AfterStatus(q)
  <2>1. x = AfterFields(q) /\ WantsTransition(q) /\ x = At("transition")
    BY <1>4, <1>6
  <2> QED
    BY <1>2, <2>1 DEF Movers
<1> QED
  BY <1>5, <1>6

LEMMA ServeHolds ==
  ASSUME TypeOK, NEW r \in Request, Serve(r) \/ Abort(r), req'[r].pc \in Active
  PROVE  /\ req'[r].patch = req[r].patch
         /\ \/ req'[r].todo \subseteq req[r].todo
            \/ /\ TransitionTaskStatus(r)
               /\ req'[r].todo = Recipients(row[req[r].task], req[r].user)
         /\ \/ req'[r].pc \in Movers
            \/ req[r].pc = "save" /\ req'[r].pc = "auditUpdate"
            \/ req[r].pc = "auditDelete" /\ req'[r].pc = "delete"
<1> DEFINE q == req[r]
<1>0. q \in ActiveSession
  BY ServesActive, InFlightSession
<1>1. \A a : Answered(a).pc \notin Active
  BY DEF Answered, Idle, Active
<1>2. CASE AuditCreate(r)
  BY <1>0, <1>2, AfterHolds DEF AuditCreate, TypeOK
<1>3. CASE AuditUpdate(r)
  BY <1>0, <1>3, AfterHolds DEF AuditUpdate, TypeOK
<1>4. CASE SaveFields(r)
  <2> DEFINE new == Patched(q.copy, q.patch)
             saved == [q EXCEPT !.pc = "auditUpdate", !.copy = new]
  <2>1. saved.patch = q.patch /\ saved.todo = q.todo /\ saved.pc = "auditUpdate"
    <3> HIDE DEF new
    <3> QED BY <1>0 DEF ActiveSession
  <2>2. req'[r] = (IF new # q.copy THEN saved ELSE AfterFields(q)) /\ q.pc = "save"
    BY <1>4 DEF SaveFields, TypeOK, Changed
  <2> HIDE DEF saved, new
  <2>3. CASE new # q.copy
    BY <2>1, <2>2, <2>3
  <2>4. CASE new = q.copy
    BY <1>0, <2>2, <2>4, AfterHolds
  <2> QED
    BY <2>3, <2>4
<1>5. CASE TransitionTaskStatus(r)
  <2> DEFINE w == row[q.task]
             new == Advanced(w, q.patch.status)
             after == [q EXCEPT !.copy = new, !.todo = Recipients(w, q.user)]
  <2>1. q.pc = "transition" /\ w \in Row /\ q.patch.status \in Status
    BY <1>5, TransitionEffect
  <2>2. new \in Row /\ Recipients(w, q.user) \in SUBSET User
    BY <2>1, AdvancedIsRow DEF Recipients, Row, Assignee
  <2>3. /\ after \in ActiveSession
        /\ after.patch = q.patch /\ after.todo = Recipients(w, q.user)
    <3> HIDE DEF new
    <3> QED BY <1>0, <2>1, <2>2 DEF ActiveSession
  <2>4. req'[r] = AfterStatus(after)
    BY <1>5, TransitionEffect
  <2> HIDE DEF after, new
  <2> QED
    BY <1>5, <2>3, <2>4, AfterHolds
<1>6. CASE NotifyStatus(r)
  <2>1. PICK u \in q.todo :
          req' = [req EXCEPT ![r] = AfterStatus([q EXCEPT !.todo = q.todo \ {u}])]
    BY <1>6 DEF NotifyStatus
  <2> DEFINE x == [q EXCEPT !.todo = q.todo \ {u}]
  <2>2. x \in ActiveSession /\ x.patch = q.patch /\ x.todo = q.todo \ {u}
    BY <1>0 DEF ActiveSession
  <2>3. req'[r] = AfterStatus(x)
    BY <2>1 DEF TypeOK
  <2> HIDE DEF x
  <2> QED
    BY <2>2, <2>3, AfterHolds
<1>7. CASE AuditDelete(r)
  BY <1>0, <1>7 DEF AuditDelete, TypeOK, ActiveSession
<1>8. CASE TransitionRefused(r) \/ DeleteRow(r) \/ NotifyAssignee(r) \/ NotifyFails(r) \/ Abort(r)
  BY <1>1, <1>8 DEF TransitionRefused, DeleteRow, NotifyAssignee, NotifyFails, Abort, TypeOK
<1> QED
  BY <1>2, <1>3, <1>4, <1>5, <1>6, <1>7, <1>8 DEF Serve

\* A request that begins in flight: an administrator creating, somebody the
\* checks let through updating, an administrator deleting.
LEMMA StartOpens ==
  ASSUME TypeOK, NEW r \in Request, Start(r), req'[r].pc \in Active
  PROVE  /\ req'[r].todo = {}
         /\ \/ /\ CreateTask(r) /\ req'[r].pc = "auditCreate"
               /\ req'[r].task \notin born /\ req'[r].patch = EmptyPatch
               /\ req'[r].user \in Manager
               /\ \E p \in Payload : /\ p.content # Unset /\ validate_assignee(req'[r].user, p)
                                     /\ req'[r].copy = NewRow(req'[r].user, p)
            \/ /\ BeginDelete(r) /\ req'[r].pc = "auditDelete"
               /\ req'[r].user \in Manager /\ Visible(req'[r].user, req'[r].task)
               /\ req'[r].copy = row[req'[r].task] /\ req'[r].patch = EmptyPatch
            \/ /\ BeginUpdate(r)
               /\ req'[r].user \in User /\ Visible(req'[r].user, req'[r].task)
               /\ req'[r].copy = row[req'[r].task]
               /\ \E p \in Payload : /\ ValidPatch(req'[r].user, req'[r].copy, p)
                                     /\ req'[r].patch = Writable(req'[r].user, p)
               /\ \/ req'[r].pc = "save" /\ HasFields(req'[r].patch)
                  \/ req'[r].pc \in Movers /\ ~HasFields(req'[r].patch)
               /\ req'[r].pc = "transition" => WantsTransition(req'[r])
<1>1. CASE CreateTask(r)
  <2>1. PICK u \in Manager, t \in Task \ born, p \in Payload :
          /\ p.content # Unset /\ validate_assignee(u, p)
          /\ req' = [req EXCEPT ![r] =
                       Begin("auditCreate", u, t, NewRow(u, p), EmptyPatch, NoUser)]
    BY <1>1 DEF CreateTask
  <2>2. req'[r] = Begin("auditCreate", u, t, NewRow(u, p), EmptyPatch, NoUser)
    BY <2>1 DEF TypeOK
  <2> QED
    BY <1>1, <2>1, <2>2 DEF Begin
<1>2. CASE BeginDelete(r)
  <2>1. PICK u \in User, t \in Task :
          /\ Visible(u, t) /\ has_object_permission(u, row[t], "DELETE")
          /\ req' = [req EXCEPT ![r] =
                       Begin("auditDelete", u, t, row[t], EmptyPatch, row[t].assignee)]
    BY <1>2 DEF BeginDelete
  <2>2. req'[r] = Begin("auditDelete", u, t, row[t], EmptyPatch, row[t].assignee)
    BY <2>1 DEF TypeOK
  <2>3. u \in Manager
    BY <2>1 DEF has_object_permission
  <2> QED
    BY <1>2, <2>1, <2>2, <2>3 DEF Begin
<1>3. CASE Refused(r)
  BY <1>3 DEF Refused, Answered, Idle, Active, TypeOK
<1>4. CASE BeginUpdate(r)
  <2>1. PICK u \in User, t \in Task, p \in Payload :
          LET q == Begin("save", u, t, row[t], Writable(u, p), row[t].assignee)
          IN  /\ Visible(u, t)
              /\ ValidPatch(u, row[t], p)
              /\ req' = [req EXCEPT ![r] = IF HasFields(q.patch) THEN q ELSE AfterFields(q)]
    BY <1>4 DEF BeginUpdate
  <2> DEFINE q == Begin("save", u, t, row[t], Writable(u, p), row[t].assignee)
  <2>2. q \in ActiveSession
    BY <2>1, WritableIsPayload, ConstantsAssumption
       DEF Begin, ActiveSession, Active, Visible, TypeOK, Row
  <2>3. /\ q.user = u /\ q.task = t /\ q.copy = row[t] /\ q.patch = Writable(u, p)
        /\ q.todo = {} /\ q.pc = "save"
    BY DEF Begin
  <2>4. req'[r] = IF HasFields(q.patch) THEN q ELSE AfterFields(q)
    BY <2>1 DEF TypeOK
  <2> HIDE DEF q
  <2>5. CASE HasFields(q.patch)
    BY <1>4, <2>1, <2>3, <2>4, <2>5
  <2>6. CASE ~HasFields(q.patch)
    <3>1. req'[r] = AfterFields(q)
      BY <2>4, <2>6
    <3> DEFINE x == req'[r]
    <3>2. /\ x.user = q.user /\ x.task = q.task /\ x.copy = q.copy /\ x.patch = q.patch
          /\ x.todo = q.todo /\ x.pc \in Movers
          /\ x.pc = "transition" => WantsTransition(q)
      BY <2>2, <3>1, AfterHolds
    <3>3. x.pc = "transition" => WantsTransition(x)
      BY <3>2 DEF WantsTransition
    <3> HIDE DEF x
    <3>4. /\ x.user = u /\ x.task = t /\ x.copy = row[t] /\ x.patch = Writable(u, p)
          /\ x.todo = {} /\ ~HasFields(x.patch)
      BY <2>3, <2>6, <3>2
    <3> QED
      BY <1>4, <2>1, <3>2, <3>3, <3>4 DEF x
  <2> QED
    BY <2>5, <2>6
<1> QED
  BY <1>1, <1>2, <1>3, <1>4 DEF Start

-----------------------------------------------------------------------------
(* Employees. *)

\* An Employee's request is never at a statement that writes anything but a
\* transition: perform_update took the other fields out of the body.
EmployeesMove ==
  \A r \in InFlight : req[r].user \notin Manager => req[r].pc \in Movers

LEMMA NoFieldsLeft ==
  ASSUME NEW u \in User \ Manager, NEW p \in PayloadType
  PROVE  ~HasFields(Writable(u, p))
BY DEF HasFields, Writable, PayloadType

LEMMA EmployeesMoveStep ==
  ASSUME TypeOK, EmployeesMove, NEW r \in Request, Start(r) \/ Serve(r) \/ Abort(r)
  PROVE  EmployeesMove'
<1> SUFFICES ASSUME NEW s \in Request, req'[s].pc \in Active, req'[s].user \notin Manager
             PROVE  req'[s].pc \in Movers
  BY DEF EmployeesMove, InFlight
<1>1. CASE s # r
  BY <1>1, OwnSession DEF EmployeesMove, InFlight
<1>2. CASE s = r /\ Start(r)
  BY <1>2, StartOpens, NoFieldsLeft, ConstantsAssumption
<1>3. CASE s = r /\ (Serve(r) \/ Abort(r))
  <2>1. req'[r].user = req[r].user /\ r \in InFlight
    BY <1>3, ServeKeeps, ServesActive DEF InFlight
  <2>2. req[r].pc \in Movers
    BY <1>3, <2>1 DEF EmployeesMove
  <2> QED
    BY <1>3, <2>2, ServeHolds DEF Movers
<1> QED
  BY <1>1, <1>2, <1>3

\* The columns a transition writes, and no other.
LEMMA AdvancedMoves ==
  ASSUME NEW w \in Row, NEW s \in Status
  PROVE  LET v == Advanced(w, s)
         IN  v = [w EXCEPT !.status = v.status, !.version = v.version, !.locked = v.locked]
<1> DEFINE l == w.locked \/ s \in LockedStatus
           n == w.version + 1
           v == Advanced(w, s)
<1>1. v = [w EXCEPT !.status = s, !.version = n, !.locked = l]
  BY DEF Advanced
<1> HIDE DEF l, n, v
<1>2. v.status = s /\ v.version = n /\ v.locked = l
  BY <1>1 DEF Row
<1> QED
  BY <1>1, <1>2 DEF v

\* What an Employee's request does to a row is a transition of that row.
LEMMA EmployeeStep ==
  ASSUME TypeOK, EmployeesMove, NEW r \in Request, Start(r) \/ Serve(r) \/ Abort(r),
         NEW t \in Task, row'[t] # row[t], ~ByManager(r)
  PROVE  /\ t = req[r].task
         /\ row[t] # NoRow /\ row'[t] # NoRow
         /\ row'[t] = [row[t] EXCEPT !.status = row'[t].status,
                                     !.version = row'[t].version,
                                     !.locked = row'[t].locked]
<1>1. ~CreateTask(r)
  <2> SUFFICES ASSUME CreateTask(r) PROVE req'[r].user \in Manager
    BY DEF ByManager
  <2>1. PICK u \in Manager, x \in Task, p \in Payload :
          req' = [req EXCEPT ![r] = Begin("auditCreate", u, x, NewRow(u, p), EmptyPatch, NoUser)]
    BY DEF CreateTask
  <2> QED
    BY <2>1 DEF Begin, TypeOK
<1>2. req[r] \in ActiveSession /\ req[r].task = t
  BY <1>1, RowChange
<1>3. req[r].user \notin Manager /\ r \in InFlight
  BY <1>2 DEF ByManager, InFlight, ActiveSession
<1>4. req[r].pc \notin {"save", "delete"}
  BY <1>3 DEF EmployeesMove, Movers
<1>5. /\ row[t] # NoRow
      /\ can_transition_to(row[t], req[r].patch.status)
      /\ row'[t] = Advanced(row[t], req[r].patch.status)
  BY <1>1, <1>4, RowChange
<1>6. row[t] \in Row
  BY <1>5 DEF TypeOK
<1>7. req[r].patch.status \in Status
  BY <1>5, <1>6, TransitionStatus
<1>8. row'[t] # NoRow
  BY <1>5, <1>6, <1>7, AdvancedIsRow, ConstantsAssumption
<1>9. row'[t] = [row[t] EXCEPT !.status = row'[t].status,
                               !.version = row'[t].version,
                               !.locked = row'[t].locked]
  <2> DEFINE v == Advanced(row[t], req[r].patch.status)
  <2>1. v = [row[t] EXCEPT !.status = v.status, !.version = v.version, !.locked = v.locked]
    BY <1>6, <1>7, AdvancedMoves, Zenon
  <2>2. row'[t] = v
    BY <1>5
  <2> HIDE DEF v
  <2> QED
    BY <2>1, <2>2, Zenon
<1> QED
  BY <1>2, <1>5, <1>8, <1>9

\* An Employee moves the status of one existing task and touches nothing else,
\* however many requests the server interleaves.
THEOREM EmployeesAreConfined == Spec => EmployeeConfined
<1> DEFINE Confined ==
      \A r \in Request, t \in Task :
        (req'[r] # req[r] /\ row'[t] # row[t] /\ ~ByManager(r))
          => /\ t = req[r].task
             /\ row[t] # NoRow /\ row'[t] # NoRow
             /\ row'[t] = [row[t] EXCEPT !.status = row'[t].status,
                                         !.version = row'[t].version,
                                         !.locked = row'[t].locked]
<1>1. Init => EmployeesMove
  BY DEF Init, EmployeesMove, InFlight, Idle, Active
<1>2. TypeOK /\ EmployeesMove /\ [Next]_vars => EmployeesMove'
  <2>1. UNCHANGED vars /\ EmployeesMove => EmployeesMove'
    BY DEF vars, EmployeesMove, InFlight
  <2> QED
    BY <2>1, EmployeesMoveStep DEF Next
<1>3. TypeOK /\ EmployeesMove /\ [Next]_vars => [Confined]_vars
  <2> SUFFICES ASSUME TypeOK, EmployeesMove, NEW s \in Request, Start(s) \/ Serve(s) \/ Abort(s)
               PROVE  Confined
    BY DEF Next
  <2> SUFFICES ASSUME NEW r \in Request, NEW t \in Task,
                      req'[r] # req[r], row'[t] # row[t], ~ByManager(r)
               PROVE  /\ t = req[r].task
                      /\ row[t] # NoRow /\ row'[t] # NoRow
                      /\ row'[t] = [row[t] EXCEPT !.status = row'[t].status,
                                                  !.version = row'[t].version,
                                                  !.locked = row'[t].locked]
    OBVIOUS
  <2>1. r = s
    BY OwnSession
  <2> QED
    BY <2>1, EmployeeStep
<1> QED
  BY <1>1, <1>2, <1>3, TypeCorrect, PTL DEF Spec, EmployeeConfined

-----------------------------------------------------------------------------
(* Organizations. *)

RowIn(o, w) ==
  /\ w.org = o /\ Org[w.creator] = o
  /\ w.assignee # NoUser => Org[w.assignee] = o

SessionIn(o, q) ==
  /\ Org[q.user] = o
  /\ RowIn(o, q.copy)
  /\ q.patch.assignee \in User => Org[q.patch.assignee] = o
  /\ \A u \in q.todo : Org[u] = o

\* Everything the system holds about task t belongs to organization o: the
\* row, the handlers at work on it, those in its audit log and those told.
InOrg(o, t) ==
  /\ row[t] # NoRow => RowIn(o, row[t])
  /\ \A r \in InFlight : req[r].task = t => SessionIn(o, req[r])
  /\ \A e \in audit : e.task = t => Org[e.actor] = o
  /\ \A n \in inbox : n.task = t => Org[n.to] = o

\* The audit log and the inbox know of a task only once it has its key.
RecordedAfterBirth ==
  /\ \A e \in audit : e.task \in born
  /\ \A n \in inbox : n.task \in born

\* Every task that was ever created has one organization, deleted or not: a
\* stale save may bring the row back, under the log it left behind.
TenantInv == \A t \in born : \E u \in User : InOrg(Org[u], t)

LEMMA RecordedAfterBirthStep ==
  ASSUME TypeOK, BornFirst, RecordedAfterBirth,
         NEW r \in Request, Start(r) \/ Serve(r) \/ Abort(r)
  PROVE  RecordedAfterBirth'
<1>1. born \subseteq born'
  BY BornGrows
<1>2. req[r] \in ActiveSession => req[r].task \in born
  BY DEF BornFirst, InFlight, ActiveSession
<1>3. \A e \in audit' : e.task \in born'
  BY <1>1, <1>2, AuditChange DEF RecordedAfterBirth
<1>4. \A n \in inbox' : n.task \in born'
  BY <1>1, <1>2, InboxChange DEF RecordedAfterBirth
<1> QED
  BY <1>3, <1>4 DEF RecordedAfterBirth

LEMMA PatchedStaysIn ==
  ASSUME NEW o, NEW w \in Row, NEW p \in PayloadType, RowIn(o, w),
         p.assignee \in User => Org[p.assignee] = o
  PROVE  RowIn(o, Patched(w, p))
<1>1. /\ Patched(w, p).org = w.org /\ Patched(w, p).creator = w.creator
      /\ Patched(w, p).assignee \in {w.assignee, p.assignee}
      /\ p.assignee = Unset => Patched(w, p).assignee = w.assignee
  BY DEF Patched, Row
<1>2. p.assignee \in User \cup {NoUser, Unset}
  BY DEF PayloadType, Assignee
<1> QED
  BY <1>1, <1>2 DEF RowIn

LEMMA AdvancedStaysIn ==
  ASSUME NEW o, NEW w \in Row, NEW s, RowIn(o, w)
  PROVE  RowIn(o, Advanced(w, s))
<1>1. /\ Advanced(w, s).org = w.org /\ Advanced(w, s).creator = w.creator
      /\ Advanced(w, s).assignee = w.assignee
  BY DEF Advanced, Row
<1> QED
  BY <1>1 DEF RowIn

LEMMA NewRowIsIn ==
  ASSUME NEW u \in User, NEW p \in PayloadType, validate_assignee(u, p)
  PROVE  RowIn(Org[u], NewRow(u, p))
<1>1. NewRow(u, p).org = Org[u] /\ NewRow(u, p).creator = u
      /\ NewRow(u, p).assignee = (IF p.assignee = Unset THEN NoUser ELSE p.assignee)
  BY DEF NewRow, Given
<1>2. p.assignee \in User \cup {NoUser, Unset}
  BY DEF PayloadType, Assignee
<1> QED
  BY <1>1, <1>2 DEF RowIn, validate_assignee

LEMMA RecipientsAreIn ==
  ASSUME NEW o, NEW w \in Row, RowIn(o, w), NEW u \in User
  PROVE  \A x \in Recipients(w, u) : Org[x] = o
BY DEF Recipients, RowIn

\* What a step writes about a task that had its key stays in its organization.
LEMMA RowStaysIn ==
  ASSUME TypeOK, NEW r \in Request, Start(r) \/ Serve(r) \/ Abort(r),
         NEW t \in born, NEW o, InOrg(o, t), row'[t] # NoRow
  PROVE  RowIn(o, row'[t])
<1>1. t \in Task
  BY DEF TypeOK
<1>2. CASE row'[t] = row[t]
  BY <1>2 DEF InOrg
<1>3. CASE row'[t] # row[t]
  <2>1. /\ req[r] \in ActiveSession /\ req[r].task = t
        /\ \/ row'[t] = Patched(req[r].copy, req[r].patch)
           \/ row[t] # NoRow /\ row'[t] = Advanced(row[t], req[r].patch.status)
    BY <1>1, <1>3, RowChange
  <2>2. SessionIn(o, req[r])
    BY <2>1 DEF InOrg, InFlight, ActiveSession
  <2>3. RowIn(o, Patched(req[r].copy, req[r].patch))
    BY <2>1, <2>2, PatchedStaysIn DEF SessionIn, ActiveSession
  <2>4. row[t] # NoRow => RowIn(o, Advanced(row[t], req[r].patch.status))
    BY <1>1, AdvancedStaysIn DEF InOrg, TypeOK
  <2> QED
    BY <2>1, <2>3, <2>4
<1> QED
  BY <1>2, <1>3

\* Nobody from another organization begins to work on the task, and a handler
\* at work on it picks up nobody from another organization.
LEMMA SessionStaysIn ==
  ASSUME TypeOK, TypeOK', NEW r \in Request, Start(r) \/ Serve(r) \/ Abort(r),
         NEW t \in born, NEW o, InOrg(o, t),
         NEW s \in Request, req'[s].pc \in Active, req'[s].task = t
  PROVE  SessionIn(o, req'[s])
<1>0. t \in Task
  BY DEF TypeOK
<1>1. CASE s # r
  BY <1>1, OwnSession DEF InOrg, InFlight
<1>2. CASE s = r /\ Start(r)
  <2> DEFINE q == req'[r]
  <2>1. /\ q.todo = {} /\ q.copy = row[t] /\ q.user \in User /\ Visible(q.user, t)
        /\ \/ q.patch = EmptyPatch
           \/ \E p \in Payload : validate_assignee(q.user, p) /\ q.patch = Writable(q.user, p)
    BY <1>2, StartOpens, ConstantsAssumption DEF ValidPatch
  <2>2. row[t] # NoRow /\ RowIn(o, row[t]) /\ Org[q.user] = o
    BY <2>1 DEF InOrg, Visible, RowIn
  <2>3. q.patch.assignee \in User => Org[q.patch.assignee] = o
    <3>1. CASE q.patch = EmptyPatch
      BY <3>1, ConstantsAssumption DEF EmptyPatch, Assignee
    <3>2. ASSUME NEW p \in Payload, validate_assignee(q.user, p), q.patch = Writable(q.user, p)
          PROVE  q.patch.assignee \in User => Org[q.patch.assignee] = o
      <4>1. q.patch.assignee \in {p.assignee, Unset}
        BY <3>2, ConstantsAssumption DEF Writable, PayloadType
      <4> QED
        BY <2>2, <3>2, <4>1, ConstantsAssumption DEF validate_assignee, Assignee
    <3> QED
      BY <2>1, <3>1, <3>2
  <2> QED
    BY <1>2, <2>1, <2>2, <2>3 DEF SessionIn
<1>3. CASE s = r /\ (Serve(r) \/ Abort(r))
  <2>1. /\ req[r] \in ActiveSession /\ req[r].task = t /\ req'[r].user = req[r].user
        /\ req'[r].copy \in {req[r].copy, Patched(req[r].copy, req[r].patch), row'[t]}
    BY <1>3, ServeKeeps, ServesActive, InFlightSession
  <2>2. SessionIn(o, req[r])
    BY <2>1 DEF InOrg, InFlight, ActiveSession
  <2>3. req'[r] \in ActiveSession
    BY <1>3, ActiveOrNot DEF TypeOK
  <2>4. RowIn(o, req'[r].copy)
    <3>1. req'[r].copy \in Row /\ req'[r].copy # NoRow
      BY <2>3, ConstantsAssumption DEF ActiveSession
    <3>2. RowIn(o, Patched(req[r].copy, req[r].patch))
      BY <2>1, <2>2, PatchedStaysIn DEF SessionIn, ActiveSession
    <3> QED
      BY <2>1, <2>2, <3>1, <3>2, RowStaysIn DEF SessionIn
  <2>5. \A u \in req'[r].todo : Org[u] = o
    <3>1. CASE req'[r].todo \subseteq req[r].todo
      BY <2>2, <3>1 DEF SessionIn
    <3>2. CASE TransitionTaskStatus(r) /\ req'[r].todo = Recipients(row[t], req[r].user)
      <4>1. row[t] \in Row /\ req[r].user \in User
        BY <2>1, <3>2, TransitionEffect DEF ActiveSession
      <4>2. RowIn(o, row[t])
        BY <4>1, ConstantsAssumption DEF InOrg
      <4> QED
        BY <3>2, <4>1, <4>2, RecipientsAreIn
    <3> QED
      BY <1>3, <2>1, <3>1, <3>2, ServeHolds
  <2> QED
    BY <1>3, <2>1, <2>2, <2>4, <2>5, ServeHolds DEF SessionIn
<1> QED
  BY <1>1, <1>2, <1>3

LEMMA TenantInvStep ==
  ASSUME TypeOK, TypeOK', BornFirst, BornFirst', RecordedAfterBirth, RecordedAfterBirth',
         TenantInv, NEW r \in Request, Start(r) \/ Serve(r) \/ Abort(r)
  PROVE  TenantInv'
<1> SUFFICES ASSUME NEW t \in born' PROVE \E u \in User : InOrg(Org[u], t)'
  BY DEF TenantInv
<1>1. CASE t \in born
  <2>1. PICK u \in User : InOrg(Org[u], t)
    BY <1>1 DEF TenantInv
  <2> DEFINE o == Org[u]
  <2>2. InOrg(o, t)
    BY <2>1
  <2>3. req[r] \in ActiveSession /\ req[r].task = t => SessionIn(o, req[r])
    BY <2>2 DEF InOrg, InFlight, ActiveSession
  <2> HIDE DEF o
  <2>4. row'[t] # NoRow => RowIn(o, row'[t])
    BY <1>1, <2>2, RowStaysIn
  <2>5. \A s \in Request : req'[s].pc \in Active /\ req'[s].task = t => SessionIn(o, req'[s])
    BY <1>1, <2>2, SessionStaysIn
  <2>6. \A e \in audit' : e.task = t => Org[e.actor] = o
    BY <2>2, <2>3, AuditChange DEF InOrg, SessionIn
  <2>7. \A n \in inbox' : n.task = t => Org[n.to] = o
    BY <2>2, <2>3, InboxChange DEF InOrg, SessionIn, RowIn
  <2>8. InOrg(o, t)'
    BY <2>4, <2>5, <2>6, <2>7 DEF InOrg, InFlight
  <2> QED
    BY <2>8 DEF o
<1>2. CASE t \notin born
  <2>0. t \in Task
    BY DEF TypeOK
  <2>1. CreateTask(r)
    BY <1>2 DEF Start, Serve, BeginUpdate, BeginDelete, Refused, AuditCreate,
       SaveFields, AuditUpdate, TransitionTaskStatus, TransitionRefused, AuditDelete,
       DeleteRow, NotifyStatus, NotifyAssignee, NotifyFails, Abort, db
  <2>2. PICK u \in Manager, x \in Task \ born, p \in Payload :
          /\ p.content # Unset /\ validate_assignee(u, p)
          /\ row' = [row EXCEPT ![x] = NewRow(u, p)]
          /\ born' = born \cup {x}
          /\ req' = [req EXCEPT ![r] =
                       Begin("auditCreate", u, x, NewRow(u, p), EmptyPatch, NoUser)]
          /\ UNCHANGED <<audit, inbox>>
    BY <2>1 DEF CreateTask
  <2>3. x = t /\ u \in User
    BY <1>2, <2>2, ConstantsAssumption
  <2>4. RowIn(Org[u], NewRow(u, p)) /\ row'[t] = NewRow(u, p)
    BY <2>0, <2>2, <2>3, NewRowIsIn, ConstantsAssumption DEF TypeOK
  <2>5. ASSUME NEW s \in Request, req'[s].pc \in Active, req'[s].task = t
        PROVE  SessionIn(Org[u], req'[s])
    <3>1. s = r
      BY <1>2, <2>1, <2>5, OwnSession DEF BornFirst, InFlight, Start
    <3>2. req'[s] = Begin("auditCreate", u, x, NewRow(u, p), EmptyPatch, NoUser)
      BY <2>2, <3>1 DEF TypeOK
    <3> QED
      BY <2>4, <3>2, ConstantsAssumption DEF SessionIn, Begin, EmptyPatch, Assignee
  <2>6. /\ \A e \in audit' : e.task # t
        /\ \A n \in inbox' : n.task # t
    BY <1>2, <2>2 DEF RecordedAfterBirth
  <2>7. InOrg(Org[u], t)'
    BY <2>4, <2>5, <2>6 DEF InOrg, InFlight
  <2> QED
    BY <2>3, <2>7
<1> QED
  BY <1>1, <1>2

\* No task ever crosses from one organization to another, whatever the
\* interleaving: its assignee, everybody in its audit log and everybody told of
\* it are of the organization it was created in.
THEOREM TenantsAreIsolated == Spec => []TenantIsolation
<1>1. Init => RecordedAfterBirth /\ TenantInv
  <2> SUFFICES ASSUME Init, NEW t \in born
               PROVE  \E u \in User : InOrg(Org[u], t)
    BY DEF Init, RecordedAfterBirth, TenantInv
  <2>1. t \in Task /\ row[t] \in InitialRow
    BY DEF Init
  <2>2. /\ row[t].creator \in User /\ row[t].org = Org[row[t].creator]
        /\ row[t].assignee # NoUser => Org[row[t].assignee] = row[t].org
    BY <2>1, InitialRowAssumption DEF Row
  <2>3. RowIn(Org[row[t].creator], row[t])
    BY <2>2 DEF RowIn
  <2>4. InFlight = {}
    BY DEF Init, InFlight, Idle, Active
  <2>5. InOrg(Org[row[t].creator], t)
    BY <2>3, <2>4 DEF InOrg, Init
  <2> QED
    BY <2>2, <2>5
<1>2. TypeOK /\ TypeOK' /\ BornFirst /\ BornFirst' /\ RecordedAfterBirth /\ TenantInv
        /\ [Next]_vars => RecordedAfterBirth' /\ TenantInv'
  <2>1. UNCHANGED vars /\ RecordedAfterBirth /\ TenantInv => RecordedAfterBirth' /\ TenantInv'
    BY DEF vars, RecordedAfterBirth, TenantInv, InOrg, InFlight
  <2> QED
    BY <2>1, RecordedAfterBirthStep, TenantInvStep DEF Next
<1>3. BornFirst /\ TenantInv => TenantIsolation
  <2> SUFFICES ASSUME BornFirst, TenantInv, NEW t \in Task, row[t] # NoRow
               PROVE  /\ row[t].assignee # NoUser => Org[row[t].assignee] = row[t].org
                      /\ \A e \in audit : e.task = t => Org[e.actor] = row[t].org
                      /\ \A n \in inbox : n.task = t => Org[n.to] = row[t].org
    BY DEF TenantIsolation
  <2>1. PICK u \in User : InOrg(Org[u], t)
    BY DEF TenantInv, BornFirst
  <2> QED
    BY <2>1 DEF InOrg, RowIn
<1> QED
  BY <1>1, <1>2, <1>3, TypeCorrect, BornFirstHolds, PTL DEF Spec

-----------------------------------------------------------------------------
(* Refusals. *)

LEMMA AfterReaches ==
  ASSUME NEW q \in ActiveSession, NEW x \in {AfterStatus(q), AfterFields(q)}
  PROVE  /\ x.pc # "idle" /\ x.answer \in {"none", "ok"}
         /\ x = AfterStatus(q) => x.pc # "transition"
         /\ x.pc = "transition" => x.copy = q.copy /\ WantsTransition(q)
<1> DEFINE At(pc) == [q EXCEPT !.pc = pc]
<1>1. \A pc : At(pc).pc = pc /\ At(pc).answer = "none" /\ At(pc).copy = q.copy
  BY DEF ActiveSession
<1>2. Answered("ok").pc = "done" /\ Answered("ok").answer = "ok"
  BY DEF Answered, Idle
<1>3. AfterStatus(q) \in {Answered("ok"), At("notifyStatus"), At("notifyAssignee")}
  BY DEF AfterStatus
<1>4. AfterFields(q) = IF WantsTransition(q) THEN At("transition") ELSE AfterStatus(q)
  BY DEF AfterFields
<1> HIDE DEF At
<1>5. /\ AfterStatus(q).pc \notin {"idle", "transition"}
      /\ AfterStatus(q).answer \in {"none", "ok"}
  BY <1>1, <1>2, <1>3
<1> QED
  BY <1>1, <1>4, <1>5

\* A handler never becomes idle again; what refuses in the middle of one is the
\* workflow service; and a transition follows the write of the fields.
LEMMA ServeReaches ==
  ASSUME TypeOK, NEW r \in Request, Serve(r) \/ Abort(r)
  PROVE  /\ req'[r].pc # "idle"
         /\ req'[r].answer \in {"none", "ok", "500"} \/ TransitionRefused(r)
         /\ req'[r].pc = "transition" => SaveFields(r) \/ AuditUpdate(r)
<1> DEFINE q == req[r]
<1>0. q \in ActiveSession
  BY ServesActive, InFlightSession
<1>1. \A a : Answered(a).pc = "done" /\ Answered(a).answer = a
  BY DEF Answered, Idle
<1>2. CASE AuditCreate(r)
  BY <1>0, <1>2, AfterReaches DEF AuditCreate, TypeOK
<1>3. CASE AuditUpdate(r)
  BY <1>0, <1>3, AfterReaches DEF AuditUpdate, TypeOK
<1>4. CASE SaveFields(r)
  <2> DEFINE new == Patched(q.copy, q.patch)
             saved == [q EXCEPT !.pc = "auditUpdate", !.copy = new]
  <2>1. saved.pc = "auditUpdate" /\ saved.answer = "none"
    <3> HIDE DEF new
    <3> QED BY <1>0 DEF ActiveSession
  <2>2. req'[r] \in {saved, AfterFields(q)}
    BY <1>4 DEF SaveFields, TypeOK
  <2> HIDE DEF saved, new
  <2> QED
    BY <1>0, <1>4, <2>1, <2>2, AfterReaches
<1>5. CASE TransitionTaskStatus(r)
  <2> DEFINE w == row[q.task]
             new == Advanced(w, q.patch.status)
             after == [q EXCEPT !.copy = new, !.todo = Recipients(w, q.user)]
  <2>1. q.pc = "transition" /\ w \in Row /\ q.patch.status \in Status
    BY <1>5, TransitionEffect
  <2>2. new \in Row /\ Recipients(w, q.user) \in SUBSET User
    BY <2>1, AdvancedIsRow DEF Recipients, Row, Assignee
  <2>3. after \in ActiveSession
    <3> HIDE DEF new
    <3> QED BY <1>0, <2>1, <2>2 DEF ActiveSession
  <2>4. req'[r] = AfterStatus(after)
    BY <1>5, TransitionEffect
  <2> HIDE DEF after, new
  <2> QED
    BY <2>3, <2>4, AfterReaches
<1>6. CASE NotifyStatus(r)
  <2>1. PICK u \in q.todo :
          req' = [req EXCEPT ![r] = AfterStatus([q EXCEPT !.todo = q.todo \ {u}])]
    BY <1>6 DEF NotifyStatus
  <2> DEFINE x == [q EXCEPT !.todo = q.todo \ {u}]
  <2>2. x \in ActiveSession
    BY <1>0 DEF ActiveSession
  <2>3. req'[r] = AfterStatus(x)
    BY <2>1 DEF TypeOK
  <2> HIDE DEF x
  <2> QED
    BY <2>2, <2>3, AfterReaches
<1>7. CASE AuditDelete(r)
  BY <1>0, <1>7 DEF AuditDelete, TypeOK, ActiveSession
<1>8. CASE TransitionRefused(r) \/ DeleteRow(r) \/ NotifyAssignee(r) \/ NotifyFails(r) \/ Abort(r)
  BY <1>1, <1>8 DEF TransitionRefused, DeleteRow, NotifyAssignee, NotifyFails, Abort, TypeOK
<1> QED
  BY <1>2, <1>3, <1>4, <1>5, <1>6, <1>7, <1>8 DEF Serve

\* The checks of the update still stand: the copy is the row, it is unlocked,
\* and the transition the body asks for, if any, is one the workflow allows.
StillValid(q) ==
  /\ q.copy = row[q.task] /\ ~q.copy.locked
  /\ q.patch.status \in {Unset, q.copy.status} \/ can_transition_to(q.copy, q.patch.status)
  /\ q.pc = "transition" => WantsTransition(q)

Checked == {"save", "auditUpdate", "transition"}

\* Only a request that has begun has written, and a transition that can still
\* be refused comes first in its request: with one worker it cannot be refused,
\* and bodies without fields leave nothing to write before it.
CleanInv ==
  /\ \A e \in audit : req[e.req].pc # "idle"
  /\ Workers = 1 => \A r \in InFlight : req[r].pc \in Checked => StillValid(req[r])
  /\ StatusOnly =>
       \A r \in InFlight : /\ req[r].pc \notin {"save", "auditUpdate"}
                           /\ req[r].pc = "transition" => \A e \in audit : e.req # r
  /\ RefusedLeavesNoTrace

\* A request that begins has no entry in the audit log.
LEMMA StartsUnrecorded ==
  ASSUME TypeOK, CleanInv, NEW r \in Request, Start(r)
  PROVE  /\ \A e \in audit' : e.req # r
         /\ req'[r].pc # "idle"
<1>1. req[r].pc = "idle" /\ req[r] \notin ActiveSession
  BY StartsIdle DEF CanStart, ActiveSession, Active
<1>2. \A e \in audit' : e.req # r
  BY <1>1, AuditChange DEF CleanInv
<1>3. req'[r].pc # "idle"
  <2>1. CASE CreateTask(r)
    BY <2>1 DEF CreateTask, Begin, TypeOK
  <2>2. CASE BeginDelete(r)
    BY <2>2 DEF BeginDelete, Begin, TypeOK
  <2>3. CASE Refused(r)
    BY <2>3 DEF Refused, Answered, Idle, TypeOK
  <2>4. CASE BeginUpdate(r)
    <3>1. PICK u \in User, t \in Task, p \in Payload :
            LET q == Begin("save", u, t, row[t], Writable(u, p), row[t].assignee)
            IN  /\ Visible(u, t)
                /\ req' = [req EXCEPT ![r] = IF HasFields(q.patch) THEN q ELSE AfterFields(q)]
      BY <2>4 DEF BeginUpdate
    <3> DEFINE q == Begin("save", u, t, row[t], Writable(u, p), row[t].assignee)
    <3>2. q \in ActiveSession /\ q.pc = "save"
      BY <3>1, WritableIsPayload, ConstantsAssumption
         DEF Begin, ActiveSession, Active, Visible, TypeOK, Row
    <3>3. req'[r] \in {q, AfterFields(q)}
      BY <3>1 DEF TypeOK
    <3> HIDE DEF q
    <3> QED
      BY <3>2, <3>3, AfterReaches
  <2> QED
    BY <2>1, <2>2, <2>3, <2>4 DEF Start
<1> QED
  BY <1>2, <1>3

LEMMA PatchedKeepsStatus ==
  ASSUME NEW w \in Row, NEW p
  PROVE  /\ Patched(w, p).status = w.status /\ Patched(w, p).locked = w.locked
         /\ Patched(w, p).version = w.version
BY DEF Patched, Row

\* From the write of the fields to the transition nothing the checks looked at
\* changes, when nobody else is there.
LEMMA StaysValid ==
  ASSUME TypeOK, NEW r \in Request, Serve(r) \/ Abort(r), req'[r].pc \in Checked,
         req[r].pc \in Checked => StillValid(req[r])
  PROVE  StillValid(req[r])' /\ req[r].pc \in {"save", "auditUpdate"}
<1> DEFINE q == req[r]
           p == req'[r]
<1>0. q \in ActiveSession /\ q.task \in Task /\ p.pc \in Active
  BY ServesActive, InFlightSession DEF ActiveSession, Checked, Active
<1>1. p.task = q.task /\ p.patch = q.patch
  BY <1>0, ServeKeeps, ServeHolds
<1>2. CASE SaveFields(r)
  <2> DEFINE new == Patched(q.copy, q.patch)
             saved == [q EXCEPT !.pc = "auditUpdate", !.copy = new]
  <2>1. /\ p = IF Changed(q.copy, new) THEN saved ELSE AfterFields(q)
        /\ row'[q.task] = new /\ q.pc = "save"
    BY <1>0, <1>2 DEF SaveFields, TypeOK
  <2>2. saved.copy = new /\ saved.pc = "auditUpdate"
    <3> HIDE DEF new
    <3> QED BY <1>0 DEF ActiveSession
  <2>3. /\ StillValid(q)
        /\ new.status = q.copy.status /\ new.locked = q.copy.locked
    BY <1>0, <2>1, PatchedKeepsStatus DEF ActiveSession, Checked
  <2> HIDE DEF new, saved
  <2>4. p.copy = new /\ (p.pc = "transition" => WantsTransition(q))
    <3>1. CASE Changed(q.copy, new)
      BY <2>1, <2>2, <3>1
    <3>2. CASE ~Changed(q.copy, new)
      <4>1. new = q.copy /\ p = AfterFields(q)
        BY <2>1, <3>2 DEF Changed
      <4>2. p.pc = "transition" => WantsTransition(q)
        BY <1>0, <4>1, AfterHolds
      <4> QED
        BY <1>0, <4>1, <4>2, AfterHolds
    <3> QED
      BY <3>1, <3>2
  <2>5. p.pc = "transition" => WantsTransition(p)
    BY <1>1, <2>3, <2>4 DEF WantsTransition
  <2>6. /\ p.copy = row'[p.task] /\ ~p.copy.locked
        /\ p.patch.status \in {Unset, p.copy.status} \/ can_transition_to(p.copy, p.patch.status)
    BY <1>1, <2>1, <2>3, <2>4 DEF StillValid, can_transition_to
  <2> QED
    BY <2>1, <2>5, <2>6 DEF StillValid, WantsTransition
<1>3. CASE AuditUpdate(r)
  <2>1. p = AfterFields(q) /\ row' = row /\ q.pc = "auditUpdate"
    BY <1>3 DEF AuditUpdate, TypeOK
  <2>2. p.copy = q.copy /\ (p.pc = "transition" => WantsTransition(q))
    BY <1>0, <2>1, AfterHolds
  <2>3. StillValid(q)
    BY <2>1 DEF Checked
  <2> QED
    BY <1>1, <2>1, <2>2, <2>3 DEF StillValid, WantsTransition
<1>4. CASE ~SaveFields(r) /\ ~AuditUpdate(r)
  <2>1. p.pc \in {"save", "auditUpdate"}
    BY <1>4, ServeReaches DEF Checked
  <2>2. q.pc = "save"
    BY <1>0, <2>1, ServeHolds DEF Movers
  <2>3. Abort(r)
    BY <1>4, <2>2 DEF Serve, AuditCreate, TransitionTaskStatus, TransitionRefused,
       AuditDelete, DeleteRow, NotifyStatus, NotifyAssignee, NotifyFails
  <2> QED
    BY <2>1, <2>3 DEF Abort, Answered, Idle, TypeOK
<1> QED
  BY <1>2, <1>3, <1>4

\* A request that has just begun passed the checks on the row as it is.
LEMMA StartsValid ==
  ASSUME TypeOK, NEW r \in Request, Start(r), req'[r].pc \in Checked
  PROVE  StillValid(req[r])'
<1> DEFINE p == req'[r]
<1>0. p.pc \in Active
  BY DEF Checked, Active
<1>1. /\ BeginUpdate(r)
      /\ p.copy = row[p.task]
      /\ p.pc = "transition" => WantsTransition(p)
      /\ \E b \in Payload : ValidPatch(p.user, p.copy, b) /\ p.patch = Writable(p.user, b)
  BY <1>0, StartOpens DEF Checked, Movers
<1>2. row' = row
  BY <1>1 DEF BeginUpdate, db
<1>3. PICK b \in Payload : ValidPatch(p.user, p.copy, b) /\ p.patch = Writable(p.user, b)
  BY <1>1
<1>4. p.patch.status = b.status
  BY <1>3, ConstantsAssumption DEF Writable, PayloadType
<1> QED
  BY <1>1, <1>2, <1>3, <1>4 DEF StillValid, ValidPatch, validate_status, WantsTransition

\* With one worker, the request in flight after a step is the one that took it.
LEMMA OnlyOneMoves ==
  ASSUME TypeOK, Alone, Workers = 1, NEW r \in Request, Start(r) \/ Serve(r) \/ Abort(r),
         NEW s \in Request, req'[s].pc \in Active
  PROVE  s = r
<1> SUFFICES ASSUME s # r PROVE FALSE
  OBVIOUS
<1>1. s \in InFlight
  BY OwnSession DEF InFlight
<1>2. ~Start(r)
  BY <1>1, StartsIdle, StartsAlone
<1>3. r \in InFlight
  BY <1>2, ServesActive DEF InFlight
<1> QED
  BY <1>1, <1>3 DEF Alone

\* The workflow's refusal of a request that has begun writes nothing.
LEMMA RefusedInPlace ==
  ASSUME TypeOK, NEW r \in Request, TransitionRefused(r), req'[r].answer # "500"
  PROVE  /\ req[r].pc = "transition" /\ r \in InFlight /\ audit' = audit
         /\ row[req[r].task].locked
              \/ ~can_transition_to(row[req[r].task], req[r].patch.status)
<1>1. req[r].pc = "transition" /\ audit' = audit
  BY DEF TransitionRefused, db
<1>2. row[req[r].task].locked \/ ~can_transition_to(row[req[r].task], req[r].patch.status)
  BY DEF TransitionRefused, Answered, Idle, TypeOK
<1> QED
  BY <1>1, <1>2 DEF InFlight, Active

LEMMA CleanInvStep ==
  ASSUME TypeOK, FreshInv, Undisturbed, CleanInv,
         NEW r \in Request, Start(r) \/ Serve(r) \/ Abort(r)
  PROVE  CleanInv'
<1>0. req'[r].pc # "idle"
  BY StartsUnrecorded, ServeReaches
<1>1. \A e \in audit' : req'[e.req].pc # "idle"
  <2> SUFFICES ASSUME NEW e \in audit' PROVE req'[e.req].pc # "idle"
    OBVIOUS
  <2>1. CASE e \in audit
    BY <1>0, <2>1, OwnSession DEF CleanInv, TypeOK, AuditRow
  <2>2. CASE e \notin audit
    BY <1>0, <2>2, AuditChange
  <2> QED
    BY <2>1, <2>2
<1>2. ASSUME Workers = 1, NEW s \in Request, req'[s].pc \in Checked
      PROVE  StillValid(req[s])'
  <2>1. s = r
    BY <1>2, OnlyOneMoves DEF FreshInv, Checked, Active
  <2>2. CASE Start(r)
    BY <1>2, <2>1, <2>2, StartsValid
  <2>3. CASE Serve(r) \/ Abort(r)
    <3>1. req[r].pc \in Checked => StillValid(req[r])
      BY <1>2, <2>3, ServesActive DEF CleanInv, InFlight
    <3> QED
      BY <1>2, <2>1, <2>3, <3>1, StaysValid
  <2> QED
    BY <2>2, <2>3
<1>3. ASSUME StatusOnly, NEW s \in Request, req'[s].pc \in Active
      PROVE  /\ req'[s].pc \notin {"save", "auditUpdate"}
             /\ req'[s].pc = "transition" => \A e \in audit' : e.req # s
  <2>1. CASE s # r
    BY <1>3, <2>1, OwnSession, AuditChange DEF CleanInv, InFlight
  <2>2. CASE s = r /\ Start(r)
    BY <1>3, <2>2, StartSavesFresh, StartOpens, StartsUnrecorded DEF Movers
  <2>3. CASE s = r /\ (Serve(r) \/ Abort(r))
    <3>1. req[r].pc \notin {"save", "auditUpdate"}
      BY <1>3, <2>3, ServesActive DEF CleanInv, InFlight
    <3>2. req'[r].pc # "transition"
      BY <2>3, <3>1, ServeReaches DEF SaveFields, AuditUpdate
    <3> QED
      BY <1>3, <2>3, <3>1, <3>2, ServeNeverSaves, ServeHolds DEF Movers
  <2> QED
    BY <2>1, <2>2, <2>3
<1>4. ASSUME NEW s \in Request, req'[s].answer \in {"400", "403", "404"}
      PROVE  \A e \in audit' : e.req # s
  <2>1. CASE s # r
    BY <1>4, <2>1, OwnSession, AuditChange DEF CleanInv, RefusedLeavesNoTrace
  <2>2. CASE s = r /\ Start(r)
    BY <2>2, StartsUnrecorded
  <2>3. CASE s = r /\ (Serve(r) \/ Abort(r))
    <3>1. TransitionRefused(r)
      BY <1>4, <2>3, ServeReaches
    <3>2. /\ req[r].pc = "transition" /\ r \in InFlight /\ audit' = audit
          /\ row[req[r].task].locked
               \/ ~can_transition_to(row[req[r].task], req[r].patch.status)
      BY <1>4, <2>3, <3>1, RefusedInPlace
    <3>3. Workers # 1
      <4>1. StillValid(req[r]) => ~row[req[r].task].locked
                                  /\ can_transition_to(row[req[r].task], req[r].patch.status)
        BY <3>2 DEF StillValid, WantsTransition
      <4> QED
        BY <3>2, <4>1 DEF CleanInv, Checked
    <3> QED
      BY <2>3, <3>2, <3>3 DEF CleanInv, Undisturbed
  <2> QED
    BY <2>1, <2>2, <2>3
<1>5. RefusedLeavesNoTrace'
  BY <1>4 DEF RefusedLeavesNoTrace
<1>6. StatusOnly' = StatusOnly
  BY DEF StatusOnly
<1> QED
  BY <1>1, <1>2, <1>3, <1>5, <1>6 DEF CleanInv, InFlight

\* A request that is refused has written nothing, when requests do not disturb
\* each other: every refusal comes before the first write.
THEOREM RefusalsLeaveNoTrace ==
  ASSUME Undisturbed
  PROVE  Spec => []RefusedLeavesNoTrace
<1>1. Init => FreshInv /\ CleanInv
  BY DEF Init, FreshInv, CopyIsFresh, Alone, NobodySaves, CleanInv, RefusedLeavesNoTrace,
         InFlight, Idle, Active
<1>2. TypeOK /\ FreshInv /\ CleanInv /\ [Next]_vars => FreshInv' /\ CleanInv'
  <2> SUFFICES ASSUME TypeOK, FreshInv, CleanInv, [Next]_vars PROVE FreshInv' /\ CleanInv'
    OBVIOUS
  <2>1. CASE UNCHANGED vars
    BY <2>1 DEF vars, FreshInv, CopyIsFresh, Alone, NobodySaves, CleanInv,
                RefusedLeavesNoTrace, StillValid, InFlight
  <2>2. CASE Next
    BY <2>2, FreshInvStep, CleanInvStep DEF Next
  <2> QED
    BY <2>1, <2>2
<1>3. CleanInv => RefusedLeavesNoTrace
  BY DEF CleanInv
<1> QED
  BY <1>1, <1>2, <1>3, TypeCorrect, PTL DEF Spec

-----------------------------------------------------------------------------
(* The audited transitions of a task are its path through the workflow. *)

\* AuditChain of one task.
Chain(t) ==
  /\ \A e \in TransitionsOf(t) : e.version \in 2 .. row[t].version
  /\ \A v \in 2 .. row[t].version : \E e \in TransitionsOf(t) : e.version = v
  /\ \A e, f \in TransitionsOf(t) :
       /\ e.version = f.version => e = f
       /\ f.version = e.version + 1 => f.from = e.to
  /\ \A e \in TransitionsOf(t) : e.version = row[t].version => e.to = row[t].status

\* The path grows by the step the transaction takes, from where the row stands.
LEMMA ChainGrows ==
  ASSUME TypeOK, NEW t \in Task, row[t] # NoRow, row[t].version >= 1, Chain(t),
         NEW s \in Status, NEW e \in AuditRow,
         e.task = t, e.action = "WORKFLOW_TRANSITION",
         e.from = row[t].status, e.to = s, e.version = row[t].version + 1,
         audit' = audit \cup {e}, row'[t] = Advanced(row[t], s)
  PROVE  row'[t].version >= 1 /\ Chain(t)'
<1> DEFINE n == row[t].version
           T == TransitionsOf(t)
<1>1. n \in Nat /\ n >= 1 /\ row[t] \in Row
  BY DEF TypeOK, Row
<1>2. row'[t].version = n + 1 /\ row'[t].status = s
  BY <1>1 DEF Advanced, Row
<1>3. T' = T \cup {e}
  BY DEF TransitionsOf
<1>4. /\ \A f \in T : f.version \in 2 .. n
      /\ \A v \in 2 .. n : \E f \in T : f.version = v
      /\ \A f, g \in T : /\ f.version = g.version => f = g
                         /\ g.version = f.version + 1 => g.from = f.to
      /\ \A f \in T : f.version = n => f.to = row[t].status
  BY DEF Chain
<1>5. e.version = n + 1 /\ e.from = row[t].status /\ e.to = s
  OBVIOUS
<1> HIDE DEF n, T
<1>6. \A f \in T : f.version \in Int /\ 2 <= f.version /\ f.version <= n
  BY <1>1, <1>4
<1>7. \A f \in T' : f.version \in 2 .. n + 1
  BY <1>1, <1>3, <1>5, <1>6
<1>8. ASSUME NEW v \in 2 .. n + 1
      PROVE  \E f \in T' : f.version = v
  <2>1. CASE v = n + 1
    BY <1>3, <1>5, <2>1
  <2>2. CASE v # n + 1
    <3>1. v \in 2 .. n
      BY <1>1, <1>8, <2>2
    <3> QED
      BY <1>3, <1>4, <3>1
  <2> QED
    BY <2>1, <2>2
<1>9. ASSUME NEW f \in T', NEW g \in T'
      PROVE  /\ f.version = g.version => f = g
             /\ g.version = f.version + 1 => g.from = f.to
  <2>1. CASE f \in T /\ g \in T
    BY <1>4, <2>1
  <2>2. CASE f \in T /\ g = e
    BY <1>1, <1>4, <1>5, <1>6, <2>2
  <2>3. CASE f = e /\ g \in T
    BY <1>1, <1>5, <1>6, <2>3
  <2>4. CASE f = e /\ g = e
    BY <1>1, <1>5, <2>4
  <2> QED
    BY <1>3, <2>1, <2>2, <2>3, <2>4
<1>10. \A f \in T' : f.version = n + 1 => f.to = s
  BY <1>1, <1>3, <1>5, <1>6
<1>11. Chain(t)'
  BY <1>2, <1>7, <1>8, <1>9, <1>10 DEF Chain, T
<1> QED
  BY <1>1, <1>2, <1>11

\* A task that exists is at version 1 or later, and its path is whole.
ChainInv == \A t \in Task : row[t] # NoRow => row[t].version >= 1 /\ Chain(t)

LEMMA ChainInvStep ==
  ASSUME TypeOK, TypeOK', BornFirst, RecordedAfterBirth, CopyIsFresh, ChainInv,
         NEW r \in Request, Start(r) \/ Serve(r) \/ Abort(r)
  PROVE  ChainInv'
<1> SUFFICES ASSUME NEW t \in Task, row'[t] # NoRow
             PROVE  row'[t].version >= 1 /\ Chain(t)'
  BY DEF ChainInv
<1>1. CASE TransitionTaskStatus(r) /\ req[r].task = t
  <2> DEFINE w == row[t]
             s == req[r].patch.status
             e == AuditEntry(r, "WORKFLOW_TRANSITION", w.status, s, w.version + 1)
  <2>1. /\ w \in Row /\ s \in Status
        /\ row'[t] = Advanced(w, s) /\ audit' = audit \cup {e}
    BY <1>1, TransitionEffect
  <2>2. w # NoRow
    BY <2>1, ConstantsAssumption
  <2>3. /\ e.task = t /\ e.action = "WORKFLOW_TRANSITION"
        /\ e.from = w.status /\ e.to = s /\ e.version = w.version + 1
    BY <1>1 DEF AuditEntry
  <2>4. e \in AuditRow
    BY <2>1 DEF TypeOK
  <2> HIDE DEF w, s, e
  <2> QED
    BY <2>1, <2>2, <2>3, <2>4, ChainGrows DEF ChainInv, w
<1>2. CASE ~(TransitionTaskStatus(r) /\ req[r].task = t)
  <2>1. TransitionsOf(t)' = TransitionsOf(t)
    BY <1>2, AuditChange DEF TransitionsOf
  <2>2. CASE row'[t] = row[t]
    BY <2>1, <2>2 DEF ChainInv, Chain
  <2>3. CASE CreateTask(r) /\ t \notin born /\ row'[t] # row[t]
    <3>1. PICK u \in Manager, p \in Payload : row'[t] = NewRow(u, p)
      BY <2>3 DEF CreateTask, TypeOK
    <3>2. row'[t].version = 1
      BY <3>1 DEF NewRow
    <3>3. TransitionsOf(t)' = {}
      BY <2>1, <2>3 DEF RecordedAfterBirth, TransitionsOf
    <3> QED
      BY <3>2, <3>3 DEF Chain
  <2>4. CASE /\ req[r] \in ActiveSession /\ req[r].task = t /\ req[r].pc = "save"
             /\ row'[t] = Patched(req[r].copy, req[r].patch)
    <3>1. req[r].copy = row[t] /\ row[t] \in Row /\ row[t] # NoRow
      BY <2>4, ConstantsAssumption DEF CopyIsFresh, ActiveSession
    <3>2. row'[t].version = row[t].version /\ row'[t].status = row[t].status
      BY <2>4, <3>1, PatchedKeepsStatus
    <3> QED
      BY <2>1, <3>1, <3>2 DEF ChainInv, Chain
  <2>5. CASE /\ req[r] \in ActiveSession /\ req[r].task = t /\ req[r].pc = "transition"
             /\ row'[t] # row[t]
    <3>1. ~Start(r) /\ ~Abort(r)
      BY <2>5, StartsIdle DEF CanStart, Abort, db
    <3>2. TransitionTaskStatus(r)
      BY <2>5, <3>1 DEF Serve, AuditCreate, SaveFields, AuditUpdate, TransitionRefused,
         AuditDelete, DeleteRow, NotifyStatus, NotifyAssignee, NotifyFails, db
    <3> QED
      BY <1>2, <2>5, <3>2
  <2> QED
    BY <2>2, <2>3, <2>4, <2>5, RowChange
<1> QED
  BY <1>1, <1>2

\* The audit log tells the whole story of every task that exists, when requests
\* do not disturb each other: version by version its transitions form one path,
\* from where each began to where the next one does, up to the present status.
THEOREM AuditLogIsChained ==
  ASSUME Undisturbed
  PROVE  Spec => []AuditChain
<1>1. Init => RecordedAfterBirth /\ ChainInv
  <2> SUFFICES ASSUME Init PROVE RecordedAfterBirth /\ ChainInv
    OBVIOUS
  <2>1. \A t \in Task : row[t] # NoRow => row[t].version = 1
    BY InitialRowAssumption DEF Init
  <2>2. \A t \in Task : TransitionsOf(t) = {}
    BY DEF Init, TransitionsOf
  <2>3. \A t \in Task : row[t] # NoRow => Chain(t)
    BY <2>1, <2>2 DEF Chain
  <2> QED
    BY <2>1, <2>3 DEF Init, RecordedAfterBirth, ChainInv
<1>2. TypeOK /\ TypeOK' /\ BornFirst /\ CopyIsFresh /\ RecordedAfterBirth /\ ChainInv
        /\ [Next]_vars => RecordedAfterBirth' /\ ChainInv'
  <2>1. UNCHANGED vars /\ RecordedAfterBirth /\ ChainInv => RecordedAfterBirth' /\ ChainInv'
    BY DEF vars, RecordedAfterBirth, ChainInv, Chain, TransitionsOf
  <2> QED
    BY <2>1, RecordedAfterBirthStep, ChainInvStep DEF Next
<1>3. ChainInv => AuditChain
  BY DEF ChainInv, Chain, AuditChain
<1>4. Spec => []CopyIsFresh
  BY FreshWhenUndisturbed
<1> QED
  BY <1>1, <1>2, <1>3, <1>4, TypeCorrect, BornFirstHolds, PTL DEF Spec

-----------------------------------------------------------------------------
(* What races break (TaskUndeleted.cfg, TaskHandover.cfg) holds without.   *)

LEMMA DeletedRowStep ==
  ASSUME TypeOK, BornFirst, CopyIsFresh,
         NEW r \in Request, Start(r) \/ Serve(r) \/ Abort(r),
         NEW t \in born, row[t] = NoRow
  PROVE  row'[t] = NoRow
<1>1. t \in Task
  BY DEF TypeOK
<1>2. ~(req[r] \in ActiveSession /\ req[r].task = t /\ req[r].pc = "save")
  BY ConstantsAssumption DEF CopyIsFresh, ActiveSession
<1> QED
  BY <1>1, <1>2, RowChange

\* "This cannot be undone": a deleted task stays deleted when requests do not
\* disturb each other, since only the save of a stale row brings one back.
THEOREM DeletionIsFinal ==
  ASSUME Undisturbed
  PROVE  Spec => DeletedStaysDeleted
<1>1. TypeOK /\ BornFirst /\ CopyIsFresh /\ [Next]_vars
        => [\A t \in born : row[t] = NoRow => row'[t] = NoRow]_vars
  BY DeletedRowStep DEF Next
<1>2. Spec => []CopyIsFresh
  BY FreshWhenUndisturbed
<1> QED
  BY <1>1, <1>2, TypeCorrect, BornFirstHolds, PTL DEF Spec, DeletedStaysDeleted

\* An Employee about to move a task is the one it is assigned to.
MoverIsAssignee ==
  \A r \in InFlight :
    req[r].pc = "transition" /\ req[r].user \notin Manager
      => row[req[r].task].assignee = req[r].user

LEMMA MoverIsAssigneeStep ==
  ASSUME TypeOK, Alone, EmployeesMove, Workers = 1,
         NEW r \in Request, Start(r) \/ Serve(r) \/ Abort(r)
  PROVE  MoverIsAssignee'
<1> SUFFICES ASSUME NEW s \in Request, req'[s].pc = "transition", req'[s].user \notin Manager
             PROVE  row'[req'[s].task].assignee = req'[s].user
  BY DEF MoverIsAssignee, InFlight
<1>0. s = r /\ req'[r].pc \in Active
  BY OnlyOneMoves DEF Active
<1>1. CASE Start(r)
  <2>1. BeginUpdate(r)
    BY <1>0, <1>1, StartOpens DEF Movers
  <2>2. PICK u \in User, t \in Task, p \in Payload :
          LET q == Begin("save", u, t, row[t], Writable(u, p), row[t].assignee)
          IN  /\ Visible(u, t) /\ has_object_permission(u, row[t], "PATCH")
              /\ req' = [req EXCEPT ![r] = IF HasFields(q.patch) THEN q ELSE AfterFields(q)]
              /\ UNCHANGED db
    BY <2>1 DEF BeginUpdate
  <2> DEFINE q == Begin("save", u, t, row[t], Writable(u, p), row[t].assignee)
  <2>3. q \in ActiveSession /\ q.user = u /\ q.task = t
    BY <2>2, WritableIsPayload, ConstantsAssumption
       DEF Begin, ActiveSession, Active, Visible, TypeOK, Row
  <2>4. req'[r] \in {q, AfterFields(q)}
    BY <2>2 DEF TypeOK
  <2> HIDE DEF q
  <2>5. req'[r].user = u /\ req'[r].task = t
    BY <1>0, <2>3, <2>4, AfterKeeps
  <2>6. row[t].assignee = u
    BY <1>0, <2>2, <2>5 DEF has_object_permission
  <2> QED
    BY <1>0, <2>2, <2>5, <2>6 DEF db
<1>2. CASE Serve(r) \/ Abort(r)
  <2>1. req[r].user = req'[r].user /\ r \in InFlight
    BY <1>0, <1>2, ServeKeeps, ServesActive DEF InFlight
  <2>2. req[r].pc \in Movers
    BY <1>0, <2>1 DEF EmployeesMove
  <2>3. req[r].pc \in {"save", "auditUpdate"}
    BY <1>0, <1>2, ServeReaches DEF SaveFields, AuditUpdate
  <2> QED
    BY <2>2, <2>3 DEF Movers
<1> QED
  BY <1>1, <1>2

\* With one request at a time an Employee moves only tasks assigned to them:
\* what was checked when the request began still holds at the transition.
THEOREM AssigneesMove ==
  ASSUME Workers = 1
  PROVE  Spec => OnlyTheAssigneeMoves
<1> DEFINE Moves == \A r \in Request : LET t == req[r].task IN
      req[r].pc = "transition" /\ req[r].user \notin Manager /\ row' # row
        => row[t].assignee = req[r].user
<1>0. Undisturbed
  BY DEF Undisturbed
<1>1. Init => FreshInv /\ EmployeesMove /\ MoverIsAssignee
  BY DEF Init, FreshInv, CopyIsFresh, Alone, NobodySaves, EmployeesMove, MoverIsAssignee,
         InFlight, Idle, Active
<1>2. TypeOK /\ FreshInv /\ EmployeesMove /\ MoverIsAssignee /\ [Next]_vars
        => FreshInv' /\ EmployeesMove' /\ MoverIsAssignee'
  <2>1. ASSUME TypeOK, FreshInv, EmployeesMove, MoverIsAssignee, UNCHANGED vars
        PROVE  FreshInv' /\ EmployeesMove' /\ MoverIsAssignee'
    BY <2>1 DEF vars, FreshInv, CopyIsFresh, Alone, NobodySaves, EmployeesMove,
                MoverIsAssignee, InFlight
  <2>2. ASSUME TypeOK, FreshInv, EmployeesMove, NEW r \in Request,
               Start(r) \/ Serve(r) \/ Abort(r)
        PROVE  FreshInv' /\ EmployeesMove' /\ MoverIsAssignee'
    BY <1>0, <2>2, FreshInvStep, EmployeesMoveStep, MoverIsAssigneeStep DEF FreshInv
  <2> QED
    BY <2>1, <2>2 DEF Next
<1>3. TypeOK /\ FreshInv /\ MoverIsAssignee /\ [Next]_vars => [Moves]_vars
  BY DEF MoverIsAssignee, InFlight, Active
<1> QED
  BY <1>1, <1>2, <1>3, TypeCorrect, PTL DEF Spec, OnlyTheAssigneeMoves
=============================================================================

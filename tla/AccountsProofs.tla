--------------------------- MODULE AccountsProofs ---------------------------
(***************************************************************************)
(* What holds of Accounts for every set of accounts, organizations, bodies *)
(* and requests and every number of workers.                               *)
(***************************************************************************)
EXTENDS Accounts, FiniteSetTheorems, TLAPS

-----------------------------------------------------------------------------
(* Typing. *)

\* Accounts are never deleted, so what a handler has read is still there.
Registered ==
  \A r \in Request : req[r].pc \in Active \ {"insert"} => user[req[r].target] # NoRow

TypeInv == TypeOK /\ Registered

LEMMA IdleIsSession ==
  /\ Idle \in Session
  /\ Idle.pc = "idle" /\ Idle.link = NoLink
BY AccountsAssumption DEF Session, Idle, NoBody, BodyType, Active, Administering, Telling

LEMMA AnsweredIsSession ==
  ASSUME NEW q \in Session, NEW a \in Answer
  PROVE  /\ Answered(q, a) \in Session
         /\ Answered(q, a).pc = "done"
<1>1. q.link \in LinkRow \cup {NoLink}
  BY DEF Session
<1>2. NoBody \in BodyType
  BY DEF NoBody, BodyType
<1>3. Answered(q, a) =
        [pc |-> "done", caller |-> NoAccount, target |-> NoAccount, me |-> NoRow,
         seen |-> NoRow, copy |-> NoRow, body |-> NoBody, link |-> q.link, answer |-> a]
  <2>1. Answered(q, a) = [[[Idle EXCEPT !.pc = "done"] EXCEPT !.answer = a] EXCEPT !.link = q.link]
    BY Zenon DEF Answered, Idle
  <2> QED
    BY <2>1 DEF Idle
<1>4. NoAccount \notin Account
  BY AccountsAssumption
<1> QED
  BY <1>1, <1>2, <1>3, <1>4 DEF Session, Active, Administering, Telling

LEMMA NewRowIsRow ==
  ASSUME NEW b \in BodyType, NEW org \in Org, NEW h \in Nat
  PROVE  NewRow(b, org, h) \in Row
BY DEF NewRow, Row, BodyType, Role

LEMMA EditedIsRow ==
  ASSUME NEW w \in Row, NEW b \in BodyType
  PROVE  Edited(w, b) \in Row
<1>1. ActiveAfter(w, b) \in BOOLEAN
  BY DEF ActiveAfter, Row
<1> HIDE DEF ActiveAfter
<1> QED
  BY <1>1 DEF Edited, Row, BodyType

LEMMA NextHashIsNat ==
  ASSUME TypeOK
  PROVE  NextHash \in Nat /\ NextHash > 0
BY DEF TypeOK, NextHash

\* A step of one request that leaves the users table alone.
LEMMA SessionStepTypes ==
  ASSUME TypeInv, NEW r \in Request, NEW q \in Session,
         q.pc \in Active \ {"insert"} => user[q.target] # NoRow,
         req' = [req EXCEPT ![r] = q],
         UNCHANGED <<user, given>>,
         (mail \in SUBSET LinkRow)', (audit \in Seq(AuditRow))', (inbox \in SUBSET NoticeRow)'
  PROVE  TypeInv'
BY DEF TypeInv, TypeOK, Registered

LEMMA BeginTypes ==
  ASSUME TypeInv, NEW r \in Request, NEW pc \in Active,
         NEW c \in Account \cup {NoAccount}, NEW t \in Account, NEW b \in BodyType,
         c \in Account => user[c] # NoRow,
         pc \in Administering \cup {"saveMe", "auditLogin"} => c \in Account,
         pc \notin {"auditCreate", "save", "countAdmins"} \cup Telling,
         pc = "load" => b.method = "PUT"
  PROVE  Begin(pc, c, t, b) \in Session
BY AccountsAssumption
DEF Begin, Idle, Session, Active, Administering, Telling, TypeInv, TypeOK

LEMMA StartTypes ==
  ASSUME TypeInv, NEW r \in Request, Start(r)
  PROVE  TypeInv'
<1> USE AccountsAssumption
<1>a. NoBody \in BodyType /\ Body \subseteq BodyType
  BY DEF NoBody, BodyType
<1>b. UNCHANGED db => /\ (mail \in SUBSET LinkRow)' /\ (audit \in Seq(AuditRow))'
                      /\ (inbox \in SUBSET NoticeRow)' /\ UNCHANGED <<user, given>>
  BY DEF TypeInv, TypeOK, db
<1>1. CASE BeginSignup(r)
  <2>1. PICK t \in Account : /\ req' = [req EXCEPT ![r] = Begin("insert", NoAccount, t, NoBody)]
                             /\ UNCHANGED db
    BY <1>1 DEF BeginSignup
  <2>2. Begin("insert", NoAccount, t, NoBody) \in Session
    BY <1>a, BeginTypes DEF Active, Administering, Telling
  <2> QED
    BY <1>b, <2>1, <2>2, SessionStepTypes DEF Begin, Idle
<1>2. CASE BeginProvision(r)
  <2>1. PICK c \in Account, t \in Account, b \in Body :
          /\ Authenticated(c)
          /\ req' = [req EXCEPT ![r] = Begin("insert", c, t, b)]
          /\ UNCHANGED db
    BY <1>2 DEF BeginProvision
  <2>2. Begin("insert", c, t, b) \in Session
    BY <1>a, <2>1, BeginTypes DEF Active, Administering, Telling, Authenticated
  <2> QED
    BY <1>b, <2>1, <2>2, SessionStepTypes DEF Begin, Idle
<1>3. CASE BeginAdminUpdate(r)
  <2>1. PICK c \in Account, t \in Account, b \in Body :
          /\ Authenticated(c) /\ user[t] # NoRow /\ b.method \in {"PATCH", "PUT"}
          /\ req' = [req EXCEPT ![r] =
                       Begin(IF b.method = "PATCH" THEN "getTarget" ELSE "load", c, t, b)]
          /\ UNCHANGED db
    BY <1>3 DEF BeginAdminUpdate
  <2> DEFINE pc == IF b.method = "PATCH" THEN "getTarget" ELSE "load"
  <2>2. Begin(pc, c, t, b) \in Session
    BY <1>a, <2>1, BeginTypes DEF Active, Administering, Telling, Authenticated
  <2>3. Begin(pc, c, t, b).target = t
    BY DEF Begin, Idle
  <2> QED
    BY <1>b, <2>1, <2>2, <2>3, SessionStepTypes
<1>4. CASE BeginProfile(r) \/ BeginChangePassword(r) \/ BeginLogin(r)
  <2>1. PICK c \in Account, pc \in {"saveMe", "setPassword", "auditLogin"} :
          /\ Authenticated(c)
          /\ req' = [req EXCEPT ![r] = Begin(pc, c, c, NoBody)]
          /\ UNCHANGED db
    BY <1>4 DEF BeginProfile, BeginChangePassword, BeginLogin
  <2>2. Begin(pc, c, c, NoBody) \in Session
    BY <1>a, <2>1, BeginTypes DEF Active, Administering, Telling, Authenticated
  <2>3. Begin(pc, c, c, NoBody).target = c
    BY DEF Begin, Idle
  <2> QED
    BY <1>b, <2>1, <2>2, <2>3, SessionStepTypes DEF Authenticated
<1>5. CASE RequestReset(r)
  <2>1. PICK t \in Account :
          /\ mail' = IF Authenticated(t)
                     THEN mail \cup {[account |-> t, hash |-> user[t].hash, at |-> Len(audit)]}
                     ELSE mail
          /\ req' = [req EXCEPT ![r] = Answered(Idle, "ok")]
          /\ UNCHANGED <<user, given, audit, inbox>>
    BY <1>5 DEF RequestReset
  <2>2. (mail \in SUBSET LinkRow)'
    BY <2>1 DEF LinkRow, TypeInv, TypeOK, Authenticated, Row
  <2>3. Answered(Idle, "ok") \in Session /\ Answered(Idle, "ok").pc = "done"
    BY IdleIsSession, AnsweredIsSession DEF Answer
  <2> QED
    BY <2>1, <2>2, <2>3, SessionStepTypes DEF TypeInv, TypeOK, Active
<1>6. CASE BeginConfirm(r)
  <2>1. PICK k \in mail :
          /\ user[k.account] # NoRow
          /\ req' = [req EXCEPT ![r] =
                       [Begin("setPassword", NoAccount, k.account, NoBody) EXCEPT !.link = k]]
          /\ UNCHANGED db
    BY <1>6 DEF BeginConfirm
  <2> DEFINE q == Begin("setPassword", NoAccount, k.account, NoBody)
  <2>2. k \in LinkRow /\ k.account \in Account
    BY DEF TypeInv, TypeOK, LinkRow
  <2>3. q \in Session
    BY <1>a, <2>2, BeginTypes DEF Active, Administering, Telling
  <2>4. [q EXCEPT !.link = k] \in Session
    BY <2>2, <2>3 DEF Session
  <2>5. [q EXCEPT !.link = k].target = k.account /\ user[k.account] # NoRow
    BY <2>1 DEF Begin, Idle
  <2> QED
    BY <1>b, <2>1, <2>4, <2>5, SessionStepTypes
<1>7. CASE Refused(r)
  <2>1. PICK a \in Answer : /\ req' = [req EXCEPT ![r] = Answered(Idle, a)]
                            /\ UNCHANGED db
    BY <1>7 DEF Refused, Answer
  <2>2. Answered(Idle, a) \in Session /\ Answered(Idle, a).pc = "done"
    BY IdleIsSession, AnsweredIsSession
  <2> QED
    BY <1>b, <2>1, <2>2, SessionStepTypes DEF Active
<1> QED
  BY <1>1, <1>2, <1>3, <1>4, <1>5, <1>6, <1>7 DEF Start

\* A step of one request that writes one existing row, or adds one.
LEMMA WriteStepTypes ==
  ASSUME TypeInv, NEW r \in Request, NEW q \in Session,
         q.pc \in Active => /\ q.target = req[r].target
                            /\ req[r].pc \in Active \ {"insert"} \/ user'[q.target] # NoRow,
         NEW t \in Account, NEW w \in Row,
         user' = [user EXCEPT ![t] = w],
         req' = [req EXCEPT ![r] = q],
         (given \in Seq(Account))',
         UNCHANGED <<mail, audit, inbox>>
  PROVE  TypeInv'
<1>1. \A u \in Account : user[u] # NoRow => user'[u] # NoRow
  BY AccountsAssumption DEF TypeInv, TypeOK
<1>2. \A s \in Request : s # r => req'[s] = req[s]
  BY DEF TypeInv, TypeOK
<1>3. \A s \in Request : req[s].pc \in Active => req[s].target \in Account
  BY DEF TypeInv, TypeOK, Session
<1>4. TypeOK'
  BY DEF TypeInv, TypeOK
<1>5. ASSUME NEW s \in Request, req'[s].pc \in Active \ {"insert"}
      PROVE  user'[req'[s].target] # NoRow
  <2>1. CASE s # r
    BY <1>1, <1>2, <1>3, <1>5, <2>1 DEF TypeInv, Registered
  <2>2. CASE s = r
    BY <1>1, <1>3, <1>5, <2>2 DEF TypeInv, Registered, TypeOK
  <2> QED
    BY <2>1, <2>2
<1> QED
  BY <1>4, <1>5 DEF TypeInv, Registered

\* The next statement of the same handler.
LEMMA NextStatement ==
  ASSUME TypeInv, NEW r \in Request, req[r].pc \in Active, NEW pc \in Active,
         pc \in Administering \cup {"saveMe", "auditLogin"} => req[r].caller \in Account,
         pc \in {"auditCreate", "save"} \cup Telling => req[r].copy \in Row,
         pc \in {"countAdmins"} \cup Telling => req[r].seen \in Row,
         pc \in {"load", "save"} => req[r].body.method = "PUT" \/ req[r].seen \in Row
  PROVE  /\ [req[r] EXCEPT !.pc = pc] \in Session
         /\ [req[r] EXCEPT !.pc = pc].pc = pc
         /\ [req[r] EXCEPT !.pc = pc].target = req[r].target
BY DEF TypeInv, TypeOK, Session

LEMMA ServeTypes ==
  ASSUME TypeInv, NEW r \in Request, Serve(r)
  PROVE  TypeInv'
<1> USE AccountsAssumption
<1> DEFINE q == req[r]
<1>a. q \in Session /\ r \in DOMAIN req
  BY DEF TypeInv, TypeOK
<1>b. UNCHANGED db => /\ (mail \in SUBSET LinkRow)' /\ (audit \in Seq(AuditRow))'
                      /\ (inbox \in SUBSET NoticeRow)' /\ UNCHANGED <<user, given>>
  BY DEF TypeInv, TypeOK, db
<1>c. \A a \in Answer : Answered(q, a) \in Session /\ Answered(q, a).pc \notin Active
  BY <1>a, AnsweredIsSession DEF Active
<1>d. {"ok", "400", "403", "500"} \subseteq Answer
  BY DEF Answer
<1>e. q.pc \in Active => q.target \in Account
  BY <1>a DEF Session
<1>f. q.pc \in Active \ {"insert"} => user[q.target] \in Row
  BY <1>e DEF TypeInv, TypeOK, Registered
<1>g. \A e \in AuditRow : Append(audit, e) \in Seq(AuditRow)
  BY DEF TypeInv, TypeOK
<1>h. \A t \in Account : Append(given, t) \in Seq(Account)
  BY DEF TypeInv, TypeOK
<1>1. CASE InsertUser(r)
  <2> DEFINE org == IF q.caller = NoAccount THEN DefaultOrg ELSE q.me.org
  <2>1. q.pc = "insert" /\ q.target \in Account /\ "insert" \in Active
    BY <1>1, <1>e DEF InsertUser, Active
  <2>2. org \in Org
    BY <1>a DEF Session, Row
  <2>3. NewRow(q.body, org, NextHash) \in Row
    BY <1>a, <2>2, NewRowIsRow, NextHashIsNat DEF Session, TypeInv
  <2>4. CASE user[q.target] = NoRow
    <3> DEFINE n == [q EXCEPT !.pc = "auditCreate", !.copy = NewRow(q.body, org, NextHash)]
    <3>1. /\ user' = [user EXCEPT ![q.target] = NewRow(q.body, org, NextHash)]
          /\ given' = Append(given, q.target)
          /\ req' = [req EXCEPT ![r].pc = "auditCreate",
                                ![r].copy = NewRow(q.body, org, NextHash)]
          /\ UNCHANGED <<mail, audit, inbox>>
      BY <1>1, <2>4 DEF InsertUser
    <3> HIDE DEF org
    <3>2. req' = [req EXCEPT ![r] = n]
      BY <3>1, <1>a DEF TypeInv, TypeOK
    <3>3. n \in Session /\ n.target = q.target
      BY <1>a, <2>1, <2>3 DEF Session, Active, Administering, Telling
    <3>4. user'[n.target] # NoRow
      BY <2>1, <2>3, <3>1, <3>3 DEF TypeInv, TypeOK
    <3> HIDE DEF n
    <3> QED
      BY <1>h, <2>1, <2>3, <3>1, <3>2, <3>3, <3>4, WriteStepTypes
  <2>5. CASE user[q.target] # NoRow
    <3>1. /\ req' = [req EXCEPT ![r] = Answered(q, "500")]
          /\ UNCHANGED <<user, given, mail, audit, inbox>>
      BY <1>1, <2>5 DEF InsertUser
    <3> QED
      BY <1>b, <1>c, <1>d, <3>1, SessionStepTypes DEF db
  <2> QED
    BY <2>4, <2>5
<1>2. CASE AuditCreate(r)
  <2> DEFINE e == AuditEntry(r, "CREATE",
                    IF q.caller = NoAccount THEN q.target ELSE q.caller, q.target,
                    q.copy.role, Unset)
  <2>1. q.pc = "auditCreate" /\ "auditCreate" \in Active
    BY <1>2 DEF AuditCreate, Active
  <2>2. q.caller \in Account \cup {NoAccount} /\ q.copy \in Row /\ q.target \in Account
    BY <1>a, <2>1 DEF Session, Telling
  <2>3. e \in AuditRow
    BY <2>2 DEF AuditEntry, AuditRow, Row
  <2> QED
    BY <1>2, <1>c, <1>d, <1>g, <2>3, SessionStepTypes
    DEF AuditCreate, record_audit_log, TypeInv, TypeOK
<1>3. CASE GetTarget(r)
  <2> DEFINE w == user[q.target]
             n == [q EXCEPT !.seen = w,
                            !.pc = IF w.role = "ADMIN" /\ w.active
                                   THEN "countAdmins" ELSE "load"]
  <2>1. q.pc = "getTarget" /\ {"getTarget", "countAdmins", "load"} \subseteq Active \ {"insert"}
    BY <1>3 DEF GetTarget, Active
  <2>2. n \in Session /\ n.target = q.target
    BY <1>a, <1>f, <2>1 DEF Session, Administering, Telling
  <2>3. user[n.target] # NoRow
    BY <1>f, <2>1, <2>2
  <2> HIDE DEF n
  <2>4. PICK m \in {n, Answered(q, "403")} : req' = [req EXCEPT ![r] = m] /\ UNCHANGED db
    BY <1>3 DEF GetTarget, n
  <2> QED
    BY <1>b, <1>c, <1>d, <2>2, <2>3, <2>4, SessionStepTypes
<1>4. CASE CountAdmins(r)
  <2>1. q.pc = "countAdmins" /\ {"countAdmins", "load"} \subseteq Active \ {"insert"}
    BY <1>4 DEF CountAdmins, Active
  <2>2. q.caller \in Account /\ q.seen \in Row
    BY <1>a, <2>1 DEF Session, Administering
  <2> DEFINE n == [q EXCEPT !.pc = "load"]
  <2>3. n \in Session /\ n.target = q.target
    BY <2>1, <2>2, NextStatement DEF Telling
  <2>4. user[n.target] # NoRow
    BY <1>f, <2>1, <2>3
  <2> HIDE DEF n
  <2>5. PICK m \in {n, Answered(q, "400")} : req' = [req EXCEPT ![r] = m] /\ UNCHANGED db
    BY <1>4 DEF CountAdmins, n
  <2> QED
    BY <1>b, <1>c, <1>d, <2>3, <2>4, <2>5, SessionStepTypes
<1>5. CASE LoadInstance(r)
  <2> DEFINE n == [q EXCEPT !.copy = user[q.target], !.pc = "save"]
  <2>1. q.pc = "load" /\ {"load", "save"} \subseteq Active \ {"insert"}
    BY <1>5 DEF LoadInstance, Active
  <2>2. n \in Session /\ n.target = q.target
    BY <1>a, <1>f, <2>1 DEF Session, Administering, Telling
  <2>3. user[n.target] # NoRow
    BY <1>f, <2>1, <2>2
  <2> HIDE DEF n
  <2>4. PICK m \in {n, Answered(q, "403"), Answered(q, "400")} :
          req' = [req EXCEPT ![r] = m] /\ UNCHANGED db
    BY <1>5 DEF LoadInstance, n
  <2> QED
    BY <1>b, <1>c, <1>d, <2>2, <2>3, <2>4, SessionStepTypes
<1>6. CASE SaveInstance(r)
  <2> DEFINE n == [q EXCEPT !.pc = "refresh"]
  <2>1. q.pc = "save" /\ {"save", "refresh"} \subseteq Active \ {"insert"}
    BY <1>6 DEF SaveInstance, Active
  <2>2. q.copy \in Row /\ q.body \in BodyType /\ q.caller \in Account
    BY <1>a, <2>1 DEF Session, Administering
  <2>3. Edited(q.copy, q.body) \in Row
    BY <2>2, EditedIsRow
  <2>4. PICK m \in {n, Answered(q, "ok")} :
          /\ m = Answered(q, "ok") \/ q.body.method # "PUT"
          /\ req' = [req EXCEPT ![r] = m]
          /\ user' = [user EXCEPT ![q.target] = Edited(q.copy, q.body)]
          /\ UNCHANGED <<given, mail, audit, inbox>>
    BY <1>6 DEF SaveInstance
  <2>5. (given \in Seq(Account))'
    BY <2>4 DEF TypeInv, TypeOK
  <2>6. m \in Session /\ (m.pc \in Active => m.target = q.target)
    <3>1. CASE m = Answered(q, "ok")
      BY <1>c, <1>d, <3>1
    <3>2. CASE m = n
      <4>1. n.pc = "refresh" /\ "refresh" \in Active
        BY <1>a DEF Session, Active
      <4> HIDE DEF n
      <4>2. q.body.method # "PUT"
        BY <1>c, <1>d, <2>4, <3>2, <4>1
      <4>3. q.seen \in Row
        BY <1>a, <2>1, <4>2 DEF Session
      <4>4. n \in Session /\ n.target = q.target
        BY <2>1, <2>2, <4>1, <4>3, NextStatement DEF n
      <4> QED
        BY <3>2, <4>4
    <3> QED
      BY <2>4, <3>1, <3>2
  <2> QED
    BY <1>e, <2>1, <2>3, <2>4, <2>5, <2>6, WriteStepTypes
<1>7. CASE RefreshTarget(r)
  <2> DEFINE m == [q EXCEPT !.copy = user[q.target]]
             n == [m EXCEPT !.pc = "auditUpdate"]
  <2>1. q.pc = "refresh" /\ {"refresh", "auditUpdate"} \subseteq Active \ {"insert"}
    BY <1>7 DEF RefreshTarget, Active
  <2>2. m \in Session /\ m.target = q.target /\ m.link = q.link
    BY <1>a, <1>f, <2>1 DEF Session, Administering, Telling
  <2>3. n \in Session /\ n.target = q.target
    BY <1>a, <1>f, <2>1 DEF Session, Administering, Telling
  <2>4. user[q.target] # NoRow
    BY <1>f, <2>1
  <2>5. Answered(m, "ok") = Answered(q, "ok")
    BY <2>2 DEF Answered
  <2>6. PICK x \in {n, Answered(m, "ok")} : req' = [req EXCEPT ![r] = x] /\ UNCHANGED db
    BY <1>7 DEF RefreshTarget
  <2> HIDE DEF n, m
  <2> QED
    BY <1>b, <1>c, <1>d, <2>3, <2>4, <2>5, <2>6, SessionStepTypes
<1>8. CASE AuditUpdate(r)
  <2> DEFINE e == AuditEntry(r, "UPDATE", q.caller, q.target,
                    IF RoleChanged(q) THEN q.copy.role ELSE Unset,
                    IF ActiveChanged(q) THEN q.copy.active ELSE Unset)
             pc == IF RoleChanged(q) THEN "notifyRole" ELSE "notifyActive"
             n == [q EXCEPT !.pc = pc]
  <2>1. q.pc = "auditUpdate" /\ {"auditUpdate", pc} \subseteq Active \ {"insert"}
    BY <1>8 DEF AuditUpdate, Active
  <2>2. q.caller \in Account /\ q.copy \in Row /\ q.seen \in Row /\ q.target \in Account
    BY <1>a, <2>1 DEF Session, Administering, Telling
  <2>3. e \in AuditRow
    BY <2>2 DEF AuditEntry, AuditRow, Row
  <2>4. n \in Session /\ n.target = q.target
    BY <2>1, <2>2, NextStatement
  <2>5. user[q.target] # NoRow
    BY <1>f, <2>1
  <2>6. req' = [req EXCEPT ![r] = n] /\ audit' = Append(audit, e)
        /\ UNCHANGED <<user, given, mail, inbox>>
    BY <1>8, <1>a DEF AuditUpdate, record_audit_log, TypeInv, TypeOK
  <2> HIDE DEF n, e
  <2> QED
    BY <1>g, <2>3, <2>4, <2>5, <2>6, SessionStepTypes DEF TypeInv, TypeOK
<1>9. CASE NotifyRole(r)
  <2> DEFINE n == [q EXCEPT !.pc = "notifyActive"]
  <2>1. q.pc = "notifyRole" /\ {"notifyRole", "notifyActive"} \subseteq Active \ {"insert"}
    BY <1>9 DEF NotifyRole, Active
  <2>2. q.caller \in Account /\ q.copy \in Row /\ q.seen \in Row /\ q.target \in Account
    BY <1>a, <2>1 DEF Session, Administering, Telling
  <2>3. n \in Session /\ n.target = q.target
    BY <2>1, <2>2, NextStatement
  <2>4. user[q.target] # NoRow
    BY <1>f, <2>1
  <2>5. PICK m \in {n, Answered(q, "ok")} :
          /\ req' = [req EXCEPT ![r] = m]
          /\ inbox' = inbox \cup {Notice(r, "role")}
          /\ UNCHANGED <<user, given, mail, audit>>
    BY <1>9 DEF NotifyRole, AfterRoleNotice
  <2>6. (inbox \in SUBSET NoticeRow)'
    BY <2>2, <2>5 DEF Notice, NoticeRow, TypeInv, TypeOK
  <2> HIDE DEF n
  <2> QED
    BY <1>c, <1>d, <2>3, <2>4, <2>5, <2>6, SessionStepTypes DEF TypeInv, TypeOK
<1>10. CASE NotifyActive(r)
  <2>1. q.pc \in Active
    BY <1>10 DEF NotifyActive, Active
  <2>2. /\ req' = [req EXCEPT ![r] = Answered(q, "ok")]
        /\ inbox' = inbox \cup {Notice(r, "active")}
        /\ UNCHANGED <<user, given, mail, audit>>
    BY <1>10 DEF NotifyActive
  <2>3. (inbox \in SUBSET NoticeRow)'
    BY <1>e, <2>1, <2>2 DEF Notice, NoticeRow, TypeInv, TypeOK
  <2> QED
    BY <1>c, <1>d, <2>2, <2>3, SessionStepTypes DEF TypeInv, TypeOK
<1>11. CASE SaveProfile(r)
  <2>1. q.pc = "saveMe" /\ q.pc \in Active
    BY <1>11 DEF SaveProfile, Active
  <2>2. q.caller \in Account /\ q.me \in Row
    BY <1>a, <2>1 DEF Session
  <2>3. /\ user' = [user EXCEPT ![q.caller] = q.me]
        /\ req' = [req EXCEPT ![r] = Answered(q, "ok")]
        /\ UNCHANGED <<given, mail, audit, inbox>>
    BY <1>11 DEF SaveProfile
  <2> QED
    BY <1>c, <1>d, <2>2, <2>3, WriteStepTypes DEF TypeInv, TypeOK
<1>12. CASE SetPassword(r)
  <2> DEFINE w == [user[q.target] EXCEPT !.hash = NextHash]
  <2>1. q.pc = "setPassword" /\ q.pc \in Active \ {"insert"} /\ q.target \in Account
    BY <1>12, <1>e DEF SetPassword, Active
  <2>2. w \in Row
    BY <1>f, <2>1, NextHashIsNat DEF Row, TypeInv
  <2>3. /\ user' = [user EXCEPT ![q.target].hash = NextHash]
        /\ req' = [req EXCEPT ![r] = Answered(q, "ok")]
        /\ given' = Append(given, q.target)
        /\ UNCHANGED <<mail, audit, inbox>>
    BY <1>12 DEF SetPassword
  <2>4. user' = [user EXCEPT ![q.target] = w]
    BY <2>1, <2>3 DEF TypeInv, TypeOK
  <2> HIDE DEF w
  <2> QED
    BY <1>c, <1>d, <1>h, <2>1, <2>2, <2>3, <2>4, WriteStepTypes
<1>13. CASE AuditLogin(r)
  <2> DEFINE e == AuditEntry(r, "LOGIN", q.caller, q.caller, Unset, Unset)
  <2>1. q.caller \in Account
    BY <1>13, <1>a DEF AuditLogin, Session
  <2>2. e \in AuditRow
    BY <2>1 DEF AuditEntry, AuditRow
  <2>3. /\ audit' = Append(audit, e)
        /\ req' = [req EXCEPT ![r] = Answered(q, "ok")]
        /\ UNCHANGED <<user, given, mail, inbox>>
    BY <1>13 DEF AuditLogin, record_audit_log
  <2> HIDE DEF e
  <2> QED
    BY <1>c, <1>d, <1>g, <2>2, <2>3, SessionStepTypes DEF TypeInv, TypeOK
<1> QED
  BY <1>1, <1>2, <1>3, <1>4, <1>5, <1>6, <1>7, <1>8, <1>9, <1>10, <1>11, <1>12, <1>13 DEF Serve

LEMMA AbortTypes ==
  ASSUME TypeInv, NEW r \in Request, Abort(r)
  PROVE  TypeInv'
<1>1. Answered(req[r], "500") \in Session /\ Answered(req[r], "500").pc \notin Active
  BY AnsweredIsSession DEF TypeInv, TypeOK, Answer, Active
<1> QED
  BY <1>1, SessionStepTypes DEF Abort, db, TypeInv, TypeOK

LEMMA TypeInvHolds == Spec => []TypeInv
<1>1. Init => TypeInv
  <2> SUFFICES ASSUME Init PROVE TypeInv
    OBVIOUS
  <2>1. \A r \in Request : req[r].pc \notin Active
    BY IdleIsSession DEF Init, Active
  <2> QED
    BY <2>1, IdleIsSession, AccountsAssumption DEF Init, TypeInv, TypeOK, Registered
<1>2. TypeInv /\ [Next]_vars => TypeInv'
  <2> SUFFICES ASSUME TypeInv, [Next]_vars PROVE TypeInv'
    OBVIOUS
  <2>1. CASE Next
    BY <2>1, StartTypes, ServeTypes, AbortTypes DEF Next
  <2>2. CASE UNCHANGED vars
    BY <2>2 DEF vars, TypeInv, TypeOK, Registered
  <2> QED
    BY <2>1, <2>2
<1> QED
  BY <1>1, <1>2, PTL DEF Spec

\* The tables and the handlers' locals have their types, and no handler comes
\* to a statement without the rows it uses there.
THEOREM TypeCorrect == Spec => []TypeOK
<1>1. TypeInv => TypeOK
  BY DEF TypeInv
<1> QED
  BY <1>1, TypeInvHolds, PTL

-----------------------------------------------------------------------------
(* The Admin role: handlers hold an administrator's row only if its account *)
(* is one of the seeded ones, so no stale row can confer the role either.   *)

SeedSession(q) ==
  /\ q.me \in Row /\ is_admin(q.me) => SeededAdmin(q.caller)
  /\ q.copy \in Row /\ is_admin(q.copy) => SeededAdmin(q.target)
  /\ q.pc \in Administering => is_admin(q.me)
  /\ q.pc \in {"insert", "auditCreate"} => q.caller = NoAccount \/ is_admin(q.me)
  /\ q.pc \in {"insert", "save"} => validate_role(q.body)

SeedInv == AdminPowerIsSeeded /\ \A r \in Request : SeedSession(req[r])

LEMMA AnsweredSeed ==
  ASSUME NEW q, NEW a
  PROVE  SeedSession(Answered(q, a))
<1>1. /\ Answered(q, a).pc = "done"
      /\ Answered(q, a).me = NoRow
      /\ Answered(q, a).copy = NoRow
  BY DEF Answered, Idle
<1> HIDE DEF Answered
<1> QED
  BY <1>1, AccountsAssumption DEF SeedSession, Administering

LEMMA BeginSeed ==
  ASSUME TypeInv, SeedInv, NEW pc, NEW c \in Account \cup {NoAccount}, NEW t, NEW b,
         c \in Account => user[c] # NoRow,
         pc \in Administering => c \in Account /\ is_admin(user[c]),
         pc # "auditCreate" /\ pc # "save",
         pc = "insert" => /\ c = NoAccount \/ is_admin(user[c])
                          /\ validate_role(b)
  PROVE  SeedSession(Begin(pc, c, t, b))
<1> DEFINE q == Begin(pc, c, t, b)
<1>1. /\ q.pc = pc /\ q.caller = c /\ q.target = t /\ q.body = b /\ q.copy = NoRow
      /\ q.me = IF c = NoAccount THEN NoRow ELSE user[c]
  BY DEF Begin, Idle
<1>2. q.me \in Row /\ is_admin(q.me) => SeededAdmin(c)
  BY <1>1, AccountsAssumption DEF SeedInv, AdminPowerIsSeeded
<1> HIDE DEF q
<1>3. SeedSession(q)
  BY <1>1, <1>2, AccountsAssumption DEF SeedSession
<1> QED
  BY <1>3 DEF q

\* What a step of one request has to respect.
LEMMA SeedStep ==
  ASSUME TypeInv, SeedInv, NEW r \in Request, NEW q, SeedSession(q),
         req' = [req EXCEPT ![r] = q],
         \A u \in Account : user'[u] # NoRow /\ is_admin(user'[u]) => SeededAdmin(u),
         \/ audit' = audit
         \/ \E e \in AuditRow :
              /\ audit' = Append(audit, e)
              /\ e.action = "UPDATE" \/ e.actor # e.target => SeededAdmin(e.actor)
  PROVE  SeedInv'
<1>1. \A s \in Request : SeedSession(req'[s])
  BY DEF SeedInv, TypeInv, TypeOK
<1>2. ASSUME NEW i \in DOMAIN audit', audit'[i].action = "UPDATE" \/ audit'[i].actor # audit'[i].target
      PROVE  SeededAdmin(audit'[i].actor)
  <2>1. CASE audit' = audit
    BY <1>2, <2>1 DEF SeedInv, AdminPowerIsSeeded
  <2>2. ASSUME NEW e \in AuditRow, audit' = Append(audit, e),
               e.action = "UPDATE" \/ e.actor # e.target => SeededAdmin(e.actor)
        PROVE  SeededAdmin(audit'[i].actor)
    <3>1. audit \in Seq(AuditRow)
      BY DEF TypeInv, TypeOK
    <3>2. (i \in DOMAIN audit /\ audit'[i] = audit[i]) \/ audit'[i] = e
      BY <3>1, <2>2
    <3> QED
      BY <1>2, <2>2, <3>2 DEF SeedInv, AdminPowerIsSeeded
  <2> QED
    BY <2>1, <2>2
<1>3. AdminPowerIsSeeded'
  BY <1>2 DEF AdminPowerIsSeeded, SeededAdmin
<1> QED
  BY <1>1, <1>3 DEF SeedInv, SeedSession, SeededAdmin

LEMMA StartSeed ==
  ASSUME TypeInv, SeedInv, NEW r \in Request, Start(r)
  PROVE  SeedInv'
<1> USE AccountsAssumption
<1>a. UNCHANGED user /\ UNCHANGED audit
  BY DEF Start, BeginSignup, BeginProvision, BeginAdminUpdate, BeginProfile,
         BeginChangePassword, RequestReset, BeginConfirm, BeginLogin, Refused, db
<1>b. validate_role(NoBody)
  BY DEF validate_role, NoBody
<1>1. ASSUME NEW q, SeedSession(q), req' = [req EXCEPT ![r] = q]
      PROVE  SeedInv'
  BY <1>a, <1>1, SeedStep DEF SeedInv, AdminPowerIsSeeded
<1>2. CASE BeginSignup(r)
  <2>1. PICK t \in Account : req' = [req EXCEPT ![r] = Begin("insert", NoAccount, t, NoBody)]
    BY <1>2 DEF BeginSignup
  <2> QED
    BY <1>1, <1>b, <2>1, BeginSeed DEF Administering
<1>3. CASE BeginProvision(r)
  <2>1. PICK c \in Account, t \in Account, b \in Body :
          /\ Authenticated(c) /\ is_admin(user[c]) /\ validate_role(b)
          /\ req' = [req EXCEPT ![r] = Begin("insert", c, t, b)]
    BY <1>3 DEF BeginProvision
  <2> QED
    BY <1>1, <2>1, BeginSeed DEF Administering, Authenticated
<1>4. CASE BeginAdminUpdate(r)
  <2>1. PICK c \in Account, t \in Account, b \in Body, pc \in {"getTarget", "load"} :
          /\ Authenticated(c) /\ is_admin(user[c])
          /\ req' = [req EXCEPT ![r] = Begin(pc, c, t, b)]
    BY <1>4 DEF BeginAdminUpdate
  <2> QED
    BY <1>1, <2>1, BeginSeed DEF Administering, Authenticated
<1>5. CASE BeginProfile(r) \/ BeginChangePassword(r) \/ BeginLogin(r)
  <2>1. PICK c \in Account, pc \in {"saveMe", "setPassword", "auditLogin"} :
          /\ Authenticated(c)
          /\ req' = [req EXCEPT ![r] = Begin(pc, c, c, NoBody)]
    BY <1>5 DEF BeginProfile, BeginChangePassword, BeginLogin
  <2> QED
    BY <1>1, <2>1, BeginSeed DEF Administering, Authenticated
<1>6. CASE RequestReset(r) \/ Refused(r)
  BY <1>1, <1>6, AnsweredSeed DEF RequestReset, Refused
<1>7. CASE BeginConfirm(r)
  <2>1. PICK k \in mail :
          req' = [req EXCEPT ![r] =
                    [Begin("setPassword", NoAccount, k.account, NoBody) EXCEPT !.link = k]]
    BY <1>7 DEF BeginConfirm
  <2> DEFINE q == [Begin("setPassword", NoAccount, k.account, NoBody) EXCEPT !.link = k]
  <2>2. q.pc = "setPassword" /\ q.me = NoRow /\ q.copy = NoRow
    BY DEF Begin, Idle
  <2> HIDE DEF q
  <2>3. SeedSession(q)
    BY <2>2 DEF SeedSession, Administering
  <2> QED
    BY <1>1, <2>1, <2>3 DEF q
<1> QED
  BY <1>2, <1>3, <1>4, <1>5, <1>6, <1>7 DEF Start

LEMMA EditedSeed ==
  ASSUME NEW w \in Row, NEW b \in BodyType, validate_role(b), is_admin(Edited(w, b))
  PROVE  is_admin(w)
<1>1. Edited(w, b).superuser = w.superuser
  BY DEF Edited, Row
<1>2. Edited(w, b).role = IF b.role = Unset THEN w.role ELSE b.role
  BY DEF Edited, Row
<1>3. b.role # Unset => b.role # "ADMIN"
  BY DEF validate_role, ASSIGNABLE_ROLES
<1> QED
  BY <1>1, <1>2, <1>3 DEF is_admin

LEMMA ServeSeed ==
  ASSUME TypeInv, SeedInv, NEW r \in Request, Serve(r)
  PROVE  SeedInv'
<1> USE AccountsAssumption
<1> DEFINE q == req[r]
<1>a. q \in Session /\ SeedSession(q)
  BY DEF TypeInv, TypeOK, SeedInv
<1>b. \A u \in Account : user[u] # NoRow /\ is_admin(user[u]) => SeededAdmin(u)
  BY DEF SeedInv, AdminPowerIsSeeded
<1>c. \A u \in Account : user[u] # NoRow => user[u] \in Row
  BY DEF TypeInv, TypeOK
\* A statement that writes neither the users nor the audit log.
<1>d. ASSUME NEW n, SeedSession(n), req' = [req EXCEPT ![r] = n], UNCHANGED <<user, audit>>
      PROVE  SeedInv'
  BY <1>b, <1>d, SeedStep
\* One that writes one row of the users.
<1>e. ASSUME NEW n, SeedSession(n), req' = [req EXCEPT ![r] = n], UNCHANGED audit,
             NEW t \in Account, NEW w \in Row, is_admin(w) => SeededAdmin(t),
             user' = [user EXCEPT ![t] = w]
      PROVE  SeedInv'
  <2>1. \A u \in Account : user'[u] # NoRow /\ is_admin(user'[u]) => SeededAdmin(u)
    BY <1>b, <1>e DEF TypeInv, TypeOK
  <2> QED
    BY <1>e, <2>1, SeedStep
\* One that adds an audit entry.
<1>f. ASSUME NEW n, SeedSession(n), req' = [req EXCEPT ![r] = n], UNCHANGED user,
             NEW e \in AuditRow, audit' = Append(audit, e),
             e.action = "UPDATE" \/ e.actor # e.target => SeededAdmin(e.actor)
      PROVE  SeedInv'
  BY <1>b, <1>f, SeedStep
<1>g. \A a : SeedSession(Answered(q, a))
  BY AnsweredSeed
<1>h. /\ q.pc \in Active => q.target \in Account
      /\ q.caller \in Account => q.me \in Row
  BY <1>a DEF Session
<1>1. CASE InsertUser(r)
  <2> DEFINE org == IF q.caller = NoAccount THEN DefaultOrg ELSE q.me.org
             w == NewRow(q.body, org, NextHash)
             n == [q EXCEPT !.pc = "auditCreate", !.copy = w]
  <2>1. q.pc = "insert" /\ q.pc \in Active /\ q.body \in BodyType
    BY <1>1, <1>a DEF InsertUser, Active, Session
  <2>2. w \in Row
    BY <1>a, <2>1, NewRowIsRow, NextHashIsNat DEF Session, Row, TypeInv
  <2>3. ~is_admin(w)
    <3>1. validate_role(q.body)
      BY <1>a, <2>1 DEF SeedSession
    <3> QED
      BY <3>1 DEF is_admin, NewRow, validate_role, ASSIGNABLE_ROLES
  <2> HIDE DEF w
  <2>4. /\ n.pc = "auditCreate" /\ n.copy = w /\ n.me = q.me /\ n.caller = q.caller
    BY <1>a DEF Session
  <2>5. SeedSession(n)
    <3> HIDE DEF n
    <3> QED
      BY <1>a, <2>1, <2>3, <2>4 DEF SeedSession, Administering
  <2>6. \/ /\ user' = [user EXCEPT ![q.target] = w]
           /\ req' = [req EXCEPT ![r].pc = "auditCreate", ![r].copy = w]
           /\ UNCHANGED audit
        \/ req' = [req EXCEPT ![r] = Answered(q, "500")] /\ UNCHANGED <<user, audit>>
    BY <1>1 DEF InsertUser, w
  <2>7. [req EXCEPT ![r].pc = "auditCreate", ![r].copy = w] = [req EXCEPT ![r] = n]
    BY DEF TypeInv, TypeOK
  <2> HIDE DEF n
  <2> QED
    BY <1>d, <1>e, <1>g, <1>h, <2>1, <2>2, <2>3, <2>5, <2>6, <2>7
<1>2. CASE AuditCreate(r)
  <2> DEFINE actor == IF q.caller = NoAccount THEN q.target ELSE q.caller
             e == AuditEntry(r, "CREATE", actor, q.target, q.copy.role, Unset)
  <2>1. q.pc = "auditCreate" /\ q.pc \in Active
    BY <1>2 DEF AuditCreate, Active
  <2>2. q.caller \in Account \cup {NoAccount} /\ q.copy \in Row /\ q.target \in Account
    BY <1>a, <2>1 DEF Session, Telling
  <2>3. e \in AuditRow /\ e.action = "CREATE" /\ e.actor = actor /\ e.target = q.target
    BY <2>2 DEF AuditEntry, AuditRow, Row
  <2>4. actor # q.target => SeededAdmin(actor)
    BY <1>a, <1>h, <2>1, <2>2 DEF SeedSession
  <2>5. audit' = Append(audit, e) /\ req' = [req EXCEPT ![r] = Answered(q, "ok")]
        /\ UNCHANGED user
    BY <1>2 DEF AuditCreate, record_audit_log
  <2> HIDE DEF e, actor
  <2> QED
    BY <1>f, <1>g, <2>3, <2>4, <2>5
<1>3. CASE GetTarget(r) \/ CountAdmins(r)
  <2> DEFINE stages == {"countAdmins", "load"}
  <2>1. q.pc \in {"getTarget", "countAdmins"}
    BY <1>3 DEF GetTarget, CountAdmins
  <2>2. PICK n : /\ req' = [req EXCEPT ![r] = n]
                 /\ \/ \E a : n = Answered(q, a)
                    \/ \E pc \in stages : \/ n = [q EXCEPT !.pc = pc]
                                          \/ n = [q EXCEPT !.seen = user[q.target], !.pc = pc]
                 /\ UNCHANGED <<user, audit>>
    BY <1>3 DEF GetTarget, CountAdmins, db
  <2>3. \/ \E a : n = Answered(q, a)
        \/ /\ n.pc \in stages /\ n.me = q.me /\ n.copy = q.copy
           /\ n.caller = q.caller /\ n.target = q.target
    BY <1>a, <2>2 DEF Session
  <2>4. SeedSession(n)
    BY <1>a, <1>g, <2>1, <2>3 DEF SeedSession, Administering
  <2> QED
    BY <1>d, <2>2, <2>4
<1>4. CASE LoadInstance(r)
  <2> DEFINE n == [q EXCEPT !.copy = user[q.target], !.pc = "save"]
  <2>1. q.pc = "load" /\ q.pc \in Active
    BY <1>4 DEF LoadInstance, Active
  <2>2. /\ n.pc = "save" /\ n.copy = user[q.target] /\ n.me = q.me
        /\ n.caller = q.caller /\ n.target = q.target /\ n.body = q.body
    BY <1>a DEF Session
  <2>3. /\ UNCHANGED <<user, audit>>
        /\ \/ \E a : req' = [req EXCEPT ![r] = Answered(q, a)]
           \/ validate_role(q.body) /\ req' = [req EXCEPT ![r] = n]
    BY <1>4 DEF LoadInstance, db
  <2> HIDE DEF n
  <2>4. validate_role(q.body) => SeedSession(n)
    BY <1>a, <1>b, <1>h, <2>1, <2>2 DEF SeedSession, Administering
  <2> QED
    BY <1>d, <1>g, <2>3, <2>4
<1>5. CASE SaveInstance(r)
  <2> DEFINE n == [q EXCEPT !.pc = "refresh"]
  <2>1. q.pc = "save" /\ q.pc \in Active
    BY <1>5 DEF SaveInstance, Active
  <2>2. q.copy \in Row /\ q.body \in BodyType /\ q.target \in Account
    BY <1>a, <2>1 DEF Session
  <2>3. Edited(q.copy, q.body) \in Row
    BY <2>2, EditedIsRow
  <2>4. is_admin(Edited(q.copy, q.body)) => SeededAdmin(q.target)
    BY <1>a, <2>1, <2>2, EditedSeed DEF SeedSession
  <2>5. /\ n.pc = "refresh" /\ n.copy = q.copy /\ n.me = q.me
        /\ n.caller = q.caller /\ n.target = q.target
    BY <1>a DEF Session
  <2>6. /\ user' = [user EXCEPT ![q.target] = Edited(q.copy, q.body)]
        /\ UNCHANGED audit
        /\ req' = [req EXCEPT ![r] = n] \/ \E a : req' = [req EXCEPT ![r] = Answered(q, a)]
    BY <1>5 DEF SaveInstance
  <2> HIDE DEF n
  <2>7. SeedSession(n)
    BY <1>a, <2>1, <2>5 DEF SeedSession, Administering
  <2> QED
    BY <1>e, <1>g, <2>2, <2>3, <2>4, <2>6, <2>7
<1>6. CASE RefreshTarget(r)
  <2> DEFINE m == [q EXCEPT !.copy = user[q.target]]
             n == [m EXCEPT !.pc = "auditUpdate"]
  <2>1. q.pc = "refresh" /\ q.pc \in Active
    BY <1>6 DEF RefreshTarget, Active
  <2>2. /\ n.pc = "auditUpdate" /\ n.copy = user[q.target] /\ n.me = q.me
        /\ n.caller = q.caller /\ n.target = q.target
    BY <1>a DEF Session
  <2>3. /\ req' = [req EXCEPT ![r] = n] \/ \E a : req' = [req EXCEPT ![r] = Answered(m, a)]
        /\ UNCHANGED <<user, audit>>
    BY <1>6 DEF RefreshTarget, db
  <2> HIDE DEF n
  <2>4. SeedSession(n)
    BY <1>a, <1>b, <1>h, <2>1, <2>2 DEF SeedSession, Administering
  <2> QED
    BY <1>d, <2>3, <2>4, AnsweredSeed
<1>7. CASE AuditUpdate(r)
  <2> DEFINE e == AuditEntry(r, "UPDATE", q.caller, q.target,
                    IF RoleChanged(q) THEN q.copy.role ELSE Unset,
                    IF ActiveChanged(q) THEN q.copy.active ELSE Unset)
             pc == IF RoleChanged(q) THEN "notifyRole" ELSE "notifyActive"
             n == [q EXCEPT !.pc = pc]
  <2>1. q.pc = "auditUpdate" /\ q.pc \in Active
    BY <1>7 DEF AuditUpdate, Active
  <2>2. q.caller \in Account /\ q.copy \in Row /\ q.seen \in Row /\ q.target \in Account
    BY <1>a, <2>1 DEF Session, Administering, Telling
  <2>3. e \in AuditRow /\ e.actor = q.caller
    BY <2>2 DEF AuditEntry, AuditRow, Row
  <2>4. SeededAdmin(q.caller)
    BY <1>a, <1>h, <2>1, <2>2 DEF SeedSession, Administering
  <2>5. /\ n.pc \in {"notifyRole", "notifyActive"} /\ n.copy = q.copy /\ n.me = q.me
        /\ n.caller = q.caller /\ n.target = q.target
    BY <1>a DEF Session
  <2>6. req' = [req EXCEPT ![r] = n] /\ audit' = Append(audit, e) /\ UNCHANGED user
    BY <1>7, <1>a DEF AuditUpdate, record_audit_log, TypeInv, TypeOK
  <2> HIDE DEF n, e
  <2>7. SeedSession(n)
    BY <1>a, <2>1, <2>5 DEF SeedSession, Administering
  <2> QED
    BY <1>f, <2>3, <2>4, <2>6, <2>7
<1>8. CASE NotifyRole(r) \/ NotifyActive(r)
  <2> DEFINE n == [q EXCEPT !.pc = "notifyActive"]
  <2>1. q.pc \in {"notifyRole", "notifyActive"}
    BY <1>8 DEF NotifyRole, NotifyActive
  <2>2. /\ n.pc = "notifyActive" /\ n.copy = q.copy /\ n.me = q.me
        /\ n.caller = q.caller /\ n.target = q.target
    BY <1>a DEF Session
  <2>3. /\ req' = [req EXCEPT ![r] = n] \/ \E a : req' = [req EXCEPT ![r] = Answered(q, a)]
        /\ UNCHANGED <<user, audit>>
    BY <1>8 DEF NotifyRole, NotifyActive, AfterRoleNotice
  <2> HIDE DEF n
  <2>4. SeedSession(n)
    BY <1>a, <2>1, <2>2 DEF SeedSession, Administering
  <2> QED
    BY <1>d, <1>g, <2>3, <2>4
<1>9. CASE SaveProfile(r)
  <2>1. q.pc = "saveMe" /\ q.caller \in Account /\ q.me \in Row
    BY <1>9, <1>a DEF SaveProfile, Session
  <2>2. is_admin(q.me) => SeededAdmin(q.caller)
    BY <1>a, <2>1 DEF SeedSession
  <2> QED
    BY <1>9, <1>e, <1>g, <2>1, <2>2 DEF SaveProfile
<1>10. CASE SetPassword(r)
  <2> DEFINE w == [user[q.target] EXCEPT !.hash = NextHash]
  <2>1. q.pc = "setPassword" /\ q.pc \in Active \ {"insert"} /\ q.target \in Account
    BY <1>10, <1>h DEF SetPassword, Active
  <2>2. user[q.target] \in Row /\ user[q.target] # NoRow
    BY <1>c, <2>1 DEF TypeInv, Registered
  <2>3. w \in Row /\ is_admin(w) = is_admin(user[q.target])
    BY <2>2, NextHashIsNat DEF Row, TypeInv, is_admin
  <2>4. user' = [user EXCEPT ![q.target] = w]
    BY <1>10, <2>1 DEF SetPassword, TypeInv, TypeOK
  <2> HIDE DEF w
  <2> QED
    BY <1>10, <1>b, <1>e, <1>g, <2>1, <2>2, <2>3, <2>4 DEF SetPassword
<1>11. CASE AuditLogin(r)
  <2> DEFINE e == AuditEntry(r, "LOGIN", q.caller, q.caller, Unset, Unset)
  <2>1. q.caller \in Account
    BY <1>11, <1>a DEF AuditLogin, Session
  <2>2. e \in AuditRow /\ e.action = "LOGIN" /\ e.actor = e.target
    BY <2>1 DEF AuditEntry, AuditRow
  <2>3. /\ audit' = Append(audit, e)
        /\ req' = [req EXCEPT ![r] = Answered(q, "ok")]
        /\ UNCHANGED user
    BY <1>11 DEF AuditLogin, record_audit_log
  <2> HIDE DEF e
  <2> QED
    BY <1>f, <1>g, <2>2, <2>3
<1> QED
  BY <1>1, <1>2, <1>3, <1>4, <1>5, <1>6, <1>7, <1>8, <1>9, <1>10, <1>11 DEF Serve

LEMMA SeedInvHolds == Spec => []SeedInv
<1>1. Init => SeedInv
  <2> SUFFICES ASSUME Init PROVE SeedInv
    OBVIOUS
  <2>1. AdminPowerIsSeeded
    BY DEF Init, AdminPowerIsSeeded, SeededAdmin
  <2>2. SeedSession(Idle)
    BY AccountsAssumption DEF SeedSession, Idle, Administering
  <2> QED
    BY <2>1, <2>2 DEF Init, SeedInv
<1>2. TypeInv /\ SeedInv /\ [Next]_vars => SeedInv'
  <2> SUFFICES ASSUME TypeInv, SeedInv, [Next]_vars PROVE SeedInv'
    OBVIOUS
  <2>1. ASSUME NEW r \in Request, Abort(r) PROVE SeedInv'
    BY <2>1, AnsweredSeed, SeedStep DEF Abort, db, SeedInv, AdminPowerIsSeeded
  <2>2. CASE UNCHANGED vars
    BY <2>2 DEF vars, SeedInv, AdminPowerIsSeeded, SeedSession, SeededAdmin
  <2> QED
    BY <2>1, <2>2, StartSeed, ServeSeed DEF Next
<1> QED
  BY <1>1, <1>2, TypeInvHolds, PTL DEF Spec

\* However requests interleave, and with rows as stale as the handlers hold
\* them: the Admin role is nobody's who was not seeded with it, and only those
\* who were administer accounts.
THEOREM AdminsAreSeeded == Spec => []AdminPowerIsSeeded
<1>1. SeedInv => AdminPowerIsSeeded
  BY DEF SeedInv
<1> QED
  BY <1>1, SeedInvHolds, PTL

-----------------------------------------------------------------------------
(* The last Admin: one request at a time, sent as the User Management screen *)
(* sends them (PATCH, JSON), never leaves the platform without one.          *)

Careful ==
  /\ Workers = 1
  /\ \A b \in Body : b.method # "PUT" /\ ~b.form

AdminSeeded ==
  \E u \in Account : /\ InitialUser[u] # NoRow
                     /\ InitialUser[u].role = "ADMIN" /\ InitialUser[u].active

ActiveAdmin(w) == w # NoRow /\ w.role = "ADMIN" /\ w.active

\* What a handler holds is what is stored, and past the check another Admin
\* is there if the body takes this one's place away.
CarefulSession(q, table) ==
  /\ q.pc \in Active => q.body.method # "PUT" /\ ~q.body.form
  /\ q.pc = "save" => q.copy = table[q.target]
  /\ q.pc = "saveMe" => q.me = table[q.caller]
  /\ q.pc \in {"load", "save"} /\ WouldLoseAdmin(q.body) /\ ActiveAdmin(table[q.target])
       => \E u \in Account \ {q.target} : ActiveAdmin(table[u])

Alone == \A r, s \in InFlight : r = s

CarefulInv ==
  /\ SomeAdminLeft
  /\ Alone
  /\ \A r \in Request : CarefulSession(req[r], user)

LEMMA StartsIdle ==
  ASSUME NEW r \in Request, Start(r)
  PROVE  CanStart(r)
BY DEF Start, BeginSignup, BeginProvision, BeginAdminUpdate, BeginProfile,
       BeginChangePassword, RequestReset, BeginConfirm, BeginLogin, Refused

LEMMA ServesActive ==
  ASSUME NEW r \in Request, Serve(r) \/ Abort(r)
  PROVE  req[r].pc \in Active
BY DEF Serve, Abort, Active, InsertUser, AuditCreate, GetTarget, CountAdmins, LoadInstance,
       SaveInstance, RefreshTarget, AuditUpdate, NotifyRole, NotifyActive, SaveProfile,
       SetPassword, AuditLogin

\* With one worker, a request starts only when nothing else is in flight.
LEMMA StartsAlone ==
  ASSUME NEW r \in Request, CanStart(r), Workers = 1
  PROVE  InFlight = {}
<1>1. InFlight \subseteq Request
  BY DEF InFlight
<1>2. IsFiniteSet(InFlight)
  BY <1>1, AccountsAssumption, FS_Subset
<1>3. Cardinality(InFlight) \in Nat /\ Cardinality(InFlight) < 1
  BY <1>2, FS_CardinalityType DEF CanStart
<1>4. Cardinality(InFlight) = 0
  BY <1>3
<1> QED
  BY <1>2, <1>4, FS_EmptySet

\* What a step of the only request in flight has to respect.
LEMMA CarefulStep ==
  ASSUME TypeInv, CarefulInv, NEW r \in Request, NEW q,
         req[r].pc \in Active \/ InFlight = {},
         req' = [req EXCEPT ![r] = q],
         SomeAdminLeft',
         CarefulSession(q, user')
  PROVE  CarefulInv'
<1>1. \A s \in Request \ {r} : req'[s] = req[s] /\ req[s].pc \notin Active
  BY DEF TypeInv, TypeOK, CarefulInv, Alone, InFlight
<1>2. req'[r] = q
  BY DEF TypeInv, TypeOK
<1>3. Alone'
  BY <1>1 DEF Alone, InFlight
<1>4. \A s \in Request \ {r} : CarefulSession(req'[s], user')
  <2>1. \A s \in Request \ {r} : req'[s].pc \notin {"save", "saveMe", "load"}
    BY <1>1 DEF Active
  <2> QED
    BY <1>1, <2>1 DEF CarefulSession
<1>5. CarefulSession(req'[r], user')
  BY <1>2
<1> QED
  BY <1>3, <1>4, <1>5 DEF CarefulInv

\* Stages at which the handler holds nothing that could be stale.
LEMMA AtEase ==
  ASSUME NEW q, NEW table, q.pc \notin {"save", "saveMe", "load"},
         q.pc \in Active => q.body.method # "PUT" /\ ~q.body.form
  PROVE  CarefulSession(q, table)
BY DEF CarefulSession

LEMMA AnsweredAtEase ==
  ASSUME NEW q, NEW a, NEW table
  PROVE  CarefulSession(Answered(q, a), table)
<1>1. Answered(q, a).pc = "done"
  BY DEF Answered, Idle
<1> HIDE DEF Answered
<1> QED
  BY <1>1, AtEase DEF Active

LEMMA StartCareful ==
  ASSUME Careful, TypeInv, CarefulInv, NEW r \in Request, Start(r)
  PROVE  CarefulInv'
<1>a. InFlight = {}
  BY StartsIdle, StartsAlone DEF Careful
<1>b. UNCHANGED user
  BY DEF Start, BeginSignup, BeginProvision, BeginAdminUpdate, BeginProfile,
         BeginChangePassword, RequestReset, BeginConfirm, BeginLogin, Refused, db
<1>c. SomeAdminLeft'
  BY <1>b DEF CarefulInv, SomeAdminLeft
<1>d. ASSUME NEW q, CarefulSession(q, user'), req' = [req EXCEPT ![r] = q]
      PROVE  CarefulInv'
  BY <1>a, <1>c, <1>d, CarefulStep
<1>e. NoBody.method # "PUT" /\ ~NoBody.form
  BY DEF NoBody
<1>f. \A pc, c, t, b : Begin(pc, c, t, b).pc = pc /\ Begin(pc, c, t, b).body = b
  BY DEF Begin, Idle
<1>1. CASE BeginSignup(r)
  <2>1. PICK t \in Account : req' = [req EXCEPT ![r] = Begin("insert", NoAccount, t, NoBody)]
    BY <1>1 DEF BeginSignup
  <2> DEFINE q == Begin("insert", NoAccount, t, NoBody)
  <2>2. q.pc = "insert" /\ q.body = NoBody
    BY <1>f
  <2> HIDE DEF q
  <2> QED
    BY <1>d, <1>e, <2>1, <2>2, AtEase DEF q
<1>2. CASE BeginProvision(r)
  <2>1. PICK c \in Account, t \in Account, b \in Body :
          req' = [req EXCEPT ![r] = Begin("insert", c, t, b)]
    BY <1>2 DEF BeginProvision
  <2> DEFINE q == Begin("insert", c, t, b)
  <2>2. q.pc = "insert" /\ q.body = b
    BY <1>f
  <2> HIDE DEF q
  <2> QED
    BY <1>d, <2>1, <2>2, AtEase DEF q, Careful
<1>3. CASE BeginAdminUpdate(r)
  <2>1. PICK c \in Account, t \in Account, b \in Body :
          /\ b.method \in {"PATCH", "PUT"}
          /\ req' = [req EXCEPT ![r] =
                       Begin(IF b.method = "PATCH" THEN "getTarget" ELSE "load", c, t, b)]
    BY <1>3 DEF BeginAdminUpdate
  <2>2. b.method = "PATCH"
    BY <2>1 DEF Careful
  <2> DEFINE q == Begin("getTarget", c, t, b)
  <2>3. q.pc = "getTarget" /\ q.body = b
    BY <1>f
  <2> HIDE DEF q
  <2> QED
    BY <1>d, <2>1, <2>2, <2>3, AtEase DEF q, Careful
<1>4. CASE BeginProfile(r)
  <2>1. PICK c \in Account : req' = [req EXCEPT ![r] = Begin("saveMe", c, c, NoBody)]
    BY <1>4 DEF BeginProfile
  <2> DEFINE q == Begin("saveMe", c, c, NoBody)
  <2>2. q.pc = "saveMe" /\ q.caller = c /\ q.me = user[c] /\ q.body = NoBody
    BY AccountsAssumption DEF Begin, Idle
  <2> HIDE DEF q
  <2>3. CarefulSession(q, user')
    BY <1>b, <1>e, <2>2 DEF CarefulSession
  <2> QED
    BY <1>d, <2>1, <2>3 DEF q
<1>5. CASE BeginChangePassword(r) \/ BeginLogin(r)
  <2>1. PICK c \in Account, pc \in {"setPassword", "auditLogin"} :
          req' = [req EXCEPT ![r] = Begin(pc, c, c, NoBody)]
    BY <1>5 DEF BeginChangePassword, BeginLogin
  <2> DEFINE q == Begin(pc, c, c, NoBody)
  <2>2. q.pc \in {"setPassword", "auditLogin"} /\ q.body = NoBody
    BY <1>f
  <2> HIDE DEF q
  <2> QED
    BY <1>d, <1>e, <2>1, <2>2, AtEase DEF q
<1>6. CASE RequestReset(r) \/ Refused(r)
  BY <1>d, <1>6, AnsweredAtEase DEF RequestReset, Refused
<1>7. CASE BeginConfirm(r)
  <2>1. PICK k \in mail :
          req' = [req EXCEPT ![r] =
                    [Begin("setPassword", NoAccount, k.account, NoBody) EXCEPT !.link = k]]
    BY <1>7 DEF BeginConfirm
  <2> DEFINE q == [Begin("setPassword", NoAccount, k.account, NoBody) EXCEPT !.link = k]
  <2>2. q.pc = "setPassword" /\ q.body = NoBody
    BY DEF Begin, Idle
  <2> HIDE DEF q
  <2> QED
    BY <1>d, <1>e, <2>1, <2>2, AtEase DEF q
<1> QED
  BY <1>1, <1>2, <1>3, <1>4, <1>5, <1>6, <1>7 DEF Start

LEMMA EditedKeepsAdmin ==
  ASSUME NEW w \in Row, NEW b \in BodyType, b.method # "PUT", ~b.form,
         ActiveAdmin(w), ~WouldLoseAdmin(b)
  PROVE  ActiveAdmin(Edited(w, b))
<1>1. ActiveAfter(w, b)
  BY DEF ActiveAfter, ActiveAdmin, WouldLoseAdmin, BodyType
<1>2. Edited(w, b).role = "ADMIN"
  BY DEF Edited, Row, ActiveAdmin, WouldLoseAdmin
<1>3. Edited(w, b).active = ActiveAfter(w, b)
  BY DEF Edited, Row
<1>4. Edited(w, b) # NoRow
  BY EditedIsRow, AccountsAssumption
<1> QED
  BY <1>1, <1>2, <1>3, <1>4 DEF ActiveAdmin

LEMMA ServeCareful ==
  ASSUME Careful, TypeInv, CarefulInv, NEW r \in Request, Serve(r)
  PROVE  CarefulInv'
<1> USE AccountsAssumption
<1> DEFINE q == req[r]
<1>a. q \in Session /\ CarefulSession(q, user) /\ q.pc \in Active
  BY ServesActive DEF TypeInv, TypeOK, CarefulInv
<1>b. q.body.method # "PUT" /\ ~q.body.form /\ q.body \in BodyType
  BY <1>a DEF CarefulSession, Session
<1>c. \E u \in Account : ActiveAdmin(user[u])
  BY DEF CarefulInv, SomeAdminLeft, ActiveAdmin
<1>d. (\E u \in Account : ActiveAdmin(user'[u])) => SomeAdminLeft'
  BY DEF SomeAdminLeft, ActiveAdmin
<1>e. \A t \in Account : q.pc # "insert" => user[q.target] \in Row
  BY <1>a DEF TypeInv, TypeOK, Registered, Session
\* A statement that leaves the users alone.
<1>f. ASSUME NEW n, CarefulSession(n, user'), req' = [req EXCEPT ![r] = n], UNCHANGED user
      PROVE  CarefulInv'
  BY <1>a, <1>c, <1>d, <1>f, CarefulStep
\* One that writes them and answers.
<1>g. ASSUME NEW n, n.pc \notin {"save", "saveMe", "load"},
             n.pc \in Active => n.body = q.body,
             req' = [req EXCEPT ![r] = n],
             \E u \in Account : ActiveAdmin(user'[u])
      PROVE  CarefulInv'
  BY <1>a, <1>b, <1>d, <1>g, AtEase, CarefulStep
<1>h. \A a : Answered(q, a).pc = "done"
  BY DEF Answered, Idle
<1>i. "done" \notin Active
  BY DEF Active
<1>1. CASE InsertUser(r)
  <2>1. q.pc = "insert" /\ q.target \in Account
    BY <1>1, <1>a DEF InsertUser, Session
  <2> DEFINE w == NewRow(q.body, IF q.caller = NoAccount THEN DefaultOrg ELSE q.me.org, NextHash)
             n == [q EXCEPT !.pc = "auditCreate", !.copy = w]
  <2>2. n.pc = "auditCreate" /\ n.body = q.body
    BY <1>a DEF Session
  <2>3. [req EXCEPT ![r].pc = "auditCreate", ![r].copy = w] = [req EXCEPT ![r] = n]
    BY DEF TypeInv, TypeOK
  <2> HIDE DEF w, n
  <2>4. \/ /\ user[q.target] = NoRow /\ user' = [user EXCEPT ![q.target] = w]
           /\ req' = [req EXCEPT ![r].pc = "auditCreate", ![r].copy = w]
        \/ UNCHANGED user /\ req' = [req EXCEPT ![r] = Answered(q, "500")]
    BY <1>1 DEF InsertUser, w
  <2>5. \E u \in Account : ActiveAdmin(user'[u])
    BY <1>c, <2>1, <2>4 DEF ActiveAdmin, TypeInv, TypeOK
  <2> QED
    BY <1>g, <1>h, <1>i, <2>2, <2>3, <2>4, <2>5
<1>2. CASE AuditCreate(r) \/ NotifyActive(r) \/ AuditLogin(r)
  BY <1>2, <1>f, AnsweredAtEase DEF AuditCreate, NotifyActive, AuditLogin
<1>3. CASE GetTarget(r)
  <2> DEFINE w == user[q.target]
             n == [q EXCEPT !.seen = w,
                            !.pc = IF w.role = "ADMIN" /\ w.active
                                   THEN "countAdmins" ELSE "load"]
  <2>1. /\ n.pc = IF w.role = "ADMIN" /\ w.active THEN "countAdmins" ELSE "load"
        /\ n.body = q.body /\ n.target = q.target
    BY <1>a DEF Session
  <2>2. /\ UNCHANGED user
        /\ \/ req' = [req EXCEPT ![r] = Answered(q, "403")]
           \/ req' = [req EXCEPT ![r] = n]
    BY <1>3 DEF GetTarget, db
  <2> HIDE DEF n
  <2>3. CarefulSession(n, user')
    BY <1>b, <2>1, <2>2 DEF CarefulSession, ActiveAdmin
  <2> QED
    BY <1>f, <2>2, <2>3, AnsweredAtEase
<1>4. CASE CountAdmins(r)
  <2> DEFINE n == [q EXCEPT !.pc = "load"]
  <2>1. n.pc = "load" /\ n.body = q.body /\ n.target = q.target
    BY <1>a DEF Session
  <2>2. /\ UNCHANGED user
        /\ \/ req' = [req EXCEPT ![r] = Answered(q, "400")]
           \/ /\ OtherActiveAdmins(q.target) # {} \/ ~WouldLoseAdmin(q.body)
              /\ req' = [req EXCEPT ![r] = n]
    BY <1>4 DEF CountAdmins, db
  <2> HIDE DEF n
  <2>3. OtherActiveAdmins(q.target) # {} =>
          \E u \in Account \ {q.target} : ActiveAdmin(user[u])
    BY DEF OtherActiveAdmins, ActiveAdmin
  <2>4. OtherActiveAdmins(q.target) # {} \/ ~WouldLoseAdmin(q.body) => CarefulSession(n, user')
    BY <1>b, <2>1, <2>2, <2>3 DEF CarefulSession
  <2> QED
    BY <1>f, <2>2, <2>4, AnsweredAtEase
<1>5. CASE LoadInstance(r)
  <2> DEFINE n == [q EXCEPT !.copy = user[q.target], !.pc = "save"]
  <2>1. /\ n.pc = "save" /\ n.body = q.body /\ n.target = q.target
        /\ n.copy = user[q.target]
    BY <1>a DEF Session
  <2>2. q.pc = "load"
    BY <1>5 DEF LoadInstance
  <2>3. /\ UNCHANGED user
        /\ \/ \E a : req' = [req EXCEPT ![r] = Answered(q, a)]
           \/ req' = [req EXCEPT ![r] = n]
    BY <1>5 DEF LoadInstance, db
  <2> HIDE DEF n
  <2>4. CarefulSession(n, user')
    BY <1>a, <1>b, <2>1, <2>2, <2>3 DEF CarefulSession
  <2> QED
    BY <1>f, <2>3, <2>4, AnsweredAtEase
<1>6. CASE SaveInstance(r)
  <2> DEFINE n == [q EXCEPT !.pc = "refresh"]
             w == Edited(q.copy, q.body)
  <2>1. n.pc = "refresh" /\ n.body = q.body
    BY <1>a DEF Session
  <2>2. q.pc = "save" /\ q.target \in Account /\ q.copy = user[q.target]
    BY <1>6, <1>a DEF SaveInstance, CarefulSession, Session
  <2>3. user' = [user EXCEPT ![q.target] = w] /\ req' = [req EXCEPT ![r] = n]
    BY <1>6, <1>b DEF SaveInstance
  <2>4. /\ user'[q.target] = w
        /\ \A u \in Account \ {q.target} : user'[u] = user[u]
    BY <2>2, <2>3 DEF TypeInv, TypeOK
  <2>5. ActiveAdmin(user[q.target]) /\ ~WouldLoseAdmin(q.body) => ActiveAdmin(w)
    BY <1>b, <1>e, <2>2, EditedKeepsAdmin
  <2> HIDE DEF n, w
  <2>6. \E u \in Account : ActiveAdmin(user'[u])
    <3>1. CASE \E u \in Account \ {q.target} : ActiveAdmin(user[u])
      BY <2>4, <3>1
    <3>2. CASE ~ \E u \in Account \ {q.target} : ActiveAdmin(user[u])
      <4>1. ActiveAdmin(user[q.target])
        BY <1>c, <3>2
      <4>2. ~WouldLoseAdmin(q.body)
        BY <1>a, <2>2, <3>2, <4>1 DEF CarefulSession
      <4> QED
        BY <2>2, <2>4, <2>5, <4>1, <4>2
    <3> QED
      BY <3>1, <3>2
  <2> QED
    BY <1>g, <2>1, <2>3, <2>6
<1>7. CASE RefreshTarget(r)
  <2> DEFINE m == [q EXCEPT !.copy = user[q.target]]
             n == [m EXCEPT !.pc = "auditUpdate"]
  <2>1. n.pc = "auditUpdate" /\ n.body = q.body
    BY <1>a DEF Session
  <2>2. /\ UNCHANGED user
        /\ \/ req' = [req EXCEPT ![r] = Answered(m, "ok")]
           \/ req' = [req EXCEPT ![r] = n]
    BY <1>7 DEF RefreshTarget, db
  <2> HIDE DEF n
  <2>3. CarefulSession(n, user')
    BY <1>b, <2>1, AtEase
  <2> QED
    BY <1>f, <2>2, <2>3, AnsweredAtEase
<1>8. CASE AuditUpdate(r) \/ NotifyRole(r)
  <2>1. PICK pc \in {"notifyRole", "notifyActive"} :
          /\ UNCHANGED user
          /\ \/ req' = [req EXCEPT ![r] = Answered(q, "ok")]
             \/ req' = [req EXCEPT ![r] = [q EXCEPT !.pc = pc]]
    BY <1>8, <1>a DEF AuditUpdate, NotifyRole, AfterRoleNotice, TypeInv, TypeOK
  <2> DEFINE n == [q EXCEPT !.pc = pc]
  <2>2. n.pc \in {"notifyRole", "notifyActive"} /\ n.body = q.body
    BY <1>a DEF Session
  <2> HIDE DEF n
  <2>3. CarefulSession(n, user')
    BY <1>b, <2>2, AtEase
  <2> QED
    BY <1>f, <2>1, <2>3, AnsweredAtEase DEF n
<1>9. CASE SaveProfile(r)
  <2>1. q.pc = "saveMe" /\ q.me = user[q.caller] /\ q.caller \in Account
    BY <1>9, <1>a DEF SaveProfile, CarefulSession, Session
  <2>2. user' = user /\ req' = [req EXCEPT ![r] = Answered(q, "ok")]
    BY <1>9, <2>1 DEF SaveProfile, TypeInv, TypeOK
  <2> QED
    BY <1>f, <2>2, AnsweredAtEase
<1>10. CASE SetPassword(r)
  <2> DEFINE w == [user[q.target] EXCEPT !.hash = NextHash]
  <2>1. q.target \in Account /\ user[q.target] \in Row
    BY <1>10, <1>a, <1>e DEF SetPassword, Session
  <2>2. w \in Row /\ w.role = user[q.target].role /\ w.active = user[q.target].active
    BY <2>1, NextHashIsNat DEF Row, TypeInv
  <2>3. user' = [user EXCEPT ![q.target] = w] /\ req' = [req EXCEPT ![r] = Answered(q, "ok")]
    BY <1>10, <2>1 DEF SetPassword, TypeInv, TypeOK
  <2> HIDE DEF w
  <2>4. \E u \in Account : ActiveAdmin(user'[u])
    BY <1>c, <2>1, <2>2, <2>3 DEF ActiveAdmin, TypeInv, TypeOK
  <2> QED
    BY <1>g, <1>h, <1>i, <2>3, <2>4
<1> QED
  BY <1>1, <1>2, <1>3, <1>4, <1>5, <1>6, <1>7, <1>8, <1>9, <1>10 DEF Serve

\* Administered one request at a time, with PATCH and JSON, the platform never
\* loses its last active Admin.
THEOREM AnAdminRemains ==
  ASSUME Careful, AdminSeeded
  PROVE  Spec => []SomeAdminLeft
<1>1. Init => CarefulInv
  <2> SUFFICES ASSUME Init PROVE CarefulInv
    OBVIOUS
  <2>1. SomeAdminLeft
    BY AdminSeeded DEF Init, SomeAdminLeft, AdminSeeded
  <2>2. \A r \in Request : req[r].pc = "idle"
    BY IdleIsSession DEF Init
  <2> QED
    BY <2>1, <2>2 DEF CarefulInv, Alone, InFlight, CarefulSession, Active
<1>2. TypeInv /\ CarefulInv /\ [Next]_vars => CarefulInv'
  <2> SUFFICES ASSUME TypeInv, CarefulInv, [Next]_vars PROVE CarefulInv'
    OBVIOUS
  <2>1. ASSUME NEW r \in Request, Abort(r) PROVE CarefulInv'
    <3>1. UNCHANGED user /\ req' = [req EXCEPT ![r] = Answered(req[r], "500")]
      BY <2>1 DEF Abort, db
    <3>2. SomeAdminLeft'
      BY <3>1 DEF CarefulInv, SomeAdminLeft
    <3> QED
      BY <2>1, <3>1, <3>2, ServesActive, AnsweredAtEase, CarefulStep
  <2>2. CASE UNCHANGED vars
    BY <2>2 DEF vars, CarefulInv, SomeAdminLeft, Alone, InFlight
  <2> QED
    BY <2>1, <2>2, StartCareful, ServeCareful DEF Next
<1>3. CarefulInv => SomeAdminLeft
  BY DEF CarefulInv
<1> QED
  BY <1>1, <1>2, <1>3, TypeInvHolds, PTL DEF Spec
=============================================================================

------------------------ MODULE AccountsTablesProofs ------------------------
(***************************************************************************)
(* What the tables of Accounts say of each other: organizations, the audit *)
(* log and the notices owed for it, reset links, and who changes whose     *)
(* standing.                                                               *)
(***************************************************************************)
EXTENDS AccountsProofs

-----------------------------------------------------------------------------
(* What each statement does to the session that executes it, field by      *)
(* field, and to the tables.                                               *)

\* The fields that no statement of a handler changes.
Holds(q, n) ==
  /\ n.caller = q.caller /\ n.target = q.target /\ n.me = q.me
  /\ n.body = q.body /\ n.link = q.link /\ n.answer = q.answer

LEMMA OwnSession ==
  ASSUME TypeInv, NEW r \in Request, Start(r) \/ Serve(r) \/ Abort(r),
         NEW s \in Request, s # r
  PROVE  req'[s] = req[s]
BY DEF TypeInv, TypeOK, Start, BeginSignup, BeginProvision, BeginAdminUpdate, BeginProfile,
       BeginChangePassword, RequestReset, BeginConfirm, BeginLogin, Refused, Serve, InsertUser,
       AuditCreate, GetTarget, CountAdmins, LoadInstance, SaveInstance, RefreshTarget,
       AuditUpdate, NotifyRole, NotifyActive, SaveProfile, SetPassword, AuditLogin, Abort

\* An answered request keeps its answer and its link.
LEMMA AnsweredFields ==
  ASSUME NEW q, NEW a
  PROVE  LET n == Answered(q, a)
         IN  /\ n.pc = "done" /\ n.answer = a /\ n.link = q.link
             /\ n.caller = NoAccount /\ n.target = NoAccount /\ n.body = NoBody
             /\ n.me = NoRow /\ n.seen = NoRow /\ n.copy = NoRow
BY DEF Answered, Idle

LEMMA BeginFields ==
  ASSUME NEW pc, NEW c, NEW t, NEW b
  PROVE  LET n == Begin(pc, c, t, b)
         IN  /\ n.pc = pc /\ n.caller = c /\ n.target = t /\ n.body = b
             /\ n.me = (IF c = NoAccount THEN NoRow ELSE user[c])
             /\ n.seen = NoRow /\ n.copy = NoRow /\ n.link = NoLink /\ n.answer = "none"
BY DEF Begin, Idle

\* The request r begins, for the caller c and the target t.
Begun(r, pc, c, t, b) ==
  /\ req'[r] = Begin(pc, c, t, b)
  /\ c # NoAccount => user[c] # NoRow
  /\ \/ /\ pc = "insert" /\ user[t] = NoRow
        /\ validate_department(b, IF c = NoAccount THEN DefaultOrg ELSE user[c].org)
     \/ pc = "getTarget" /\ b.method = "PATCH" /\ c # NoAccount /\ user[t] # NoRow
     \/ pc = "load" /\ b.method = "PUT" /\ c # NoAccount /\ user[t] # NoRow /\ b \in Body
     \/ pc \in {"saveMe", "auditLogin", "setPassword"} /\ c = t /\ b = NoBody

\* The request r presents the reset link k, and it is accepted.
Presented(r, k) ==
  /\ req'[r] = [Begin("setPassword", NoAccount, k.account, NoBody) EXCEPT !.link = k]
  /\ user[k.account] # NoRow /\ check_token(user[k.account], k)

\* A request that begins has read the caller's row, and nothing else is written
\* yet but the mail of a reset request.
LEMMA StartEffect ==
  ASSUME TypeInv, NEW r \in Request, Start(r)
  PROVE  /\ req[r].pc = "idle"
         /\ UNCHANGED <<user, given, audit, inbox>>
         /\ mail \subseteq mail'
         /\ \A k \in mail' \ mail : /\ user[k.account] # NoRow
                                    /\ k.hash = user[k.account].hash
         /\ \/ \E a \in Answer : req'[r] = Answered(Idle, a)
            \/ \E pc \in Active, c \in Account \cup {NoAccount}, t \in Account,
                  b \in Body \cup {NoBody} : Begun(r, pc, c, t, b)
            \/ \E k \in mail : Presented(r, k)
<1> USE AccountsAssumption DEF TypeInv, TypeOK
<1>0. req[r].pc = "idle"
  BY StartsIdle DEF CanStart
<1>1. CASE BeginSignup(r)
  <2>1. PICK t \in Account : /\ user[t] = NoRow
                             /\ req' = [req EXCEPT ![r] = Begin("insert", NoAccount, t, NoBody)]
                             /\ UNCHANGED db
    BY <1>1 DEF BeginSignup
  <2>2. req'[r] = Begin("insert", NoAccount, t, NoBody) /\ "insert" \in Active
    BY <2>1 DEF Active
  <2>3. validate_department(NoBody, DefaultOrg)
    BY DEF validate_department, NoBody
  <2> QED
    BY <1>0, <2>1, <2>2, <2>3 DEF db, Begun
<1>2. CASE BeginProvision(r)
  <2>1. PICK c \in Account, t \in Account, b \in Body :
          /\ Authenticated(c) /\ user[t] = NoRow /\ validate_department(b, user[c].org)
          /\ req' = [req EXCEPT ![r] = Begin("insert", c, t, b)]
          /\ UNCHANGED db
    BY <1>2 DEF BeginProvision
  <2>2. req'[r] = Begin("insert", c, t, b) /\ "insert" \in Active
    BY <2>1 DEF Active
  <2> QED
    BY <1>0, <2>1, <2>2 DEF db, Authenticated, Begun
<1>3. CASE BeginAdminUpdate(r)
  <2>1. PICK c \in Account, t \in Account, b \in Body :
          /\ Authenticated(c) /\ user[t] # NoRow /\ b.method \in {"PATCH", "PUT"}
          /\ req' = [req EXCEPT ![r] =
                       Begin(IF b.method = "PATCH" THEN "getTarget" ELSE "load", c, t, b)]
          /\ UNCHANGED db
    BY <1>3 DEF BeginAdminUpdate
  <2>2. PICK pc \in {"getTarget", "load"} :
          /\ pc = IF b.method = "PATCH" THEN "getTarget" ELSE "load"
          /\ req'[r] = Begin(pc, c, t, b)
    BY <2>1
  <2> QED
    BY <1>0, <2>1, <2>2 DEF db, Authenticated, Active, Begun
<1>4. CASE BeginProfile(r) \/ BeginChangePassword(r) \/ BeginLogin(r)
  <2>1. PICK c \in Account, pc \in {"saveMe", "setPassword", "auditLogin"} :
          /\ Authenticated(c)
          /\ req' = [req EXCEPT ![r] = Begin(pc, c, c, NoBody)]
          /\ UNCHANGED db
    BY <1>4 DEF BeginProfile, BeginChangePassword, BeginLogin
  <2>2. req'[r] = Begin(pc, c, c, NoBody) /\ pc \in Active
    BY <2>1 DEF Active
  <2> QED
    BY <1>0, <2>1, <2>2 DEF db, Authenticated, Begun
<1>5. CASE RequestReset(r)
  <2>1. PICK t \in Account :
          /\ mail' = IF Authenticated(t)
                     THEN mail \cup {[account |-> t, hash |-> user[t].hash, at |-> Len(audit)]}
                     ELSE mail
          /\ req' = [req EXCEPT ![r] = Answered(Idle, "ok")]
          /\ UNCHANGED <<user, given, audit, inbox>>
    BY <1>5 DEF RequestReset
  <2>2. req'[r] = Answered(Idle, "ok") /\ "ok" \in Answer
    BY <2>1 DEF Answer
  <2>3. \A k \in mail' \ mail : user[k.account] # NoRow /\ k.hash = user[k.account].hash
    BY <2>1 DEF Authenticated
  <2> QED
    BY <1>0, <2>1, <2>2, <2>3
<1>6. CASE Refused(r)
  <2>1. PICK a \in Answer : req' = [req EXCEPT ![r] = Answered(Idle, a)] /\ UNCHANGED db
    BY <1>6 DEF Refused, Answer
  <2> QED
    BY <1>0, <2>1 DEF db
<1>7. CASE BeginConfirm(r)
  <2>1. PICK k \in mail :
          /\ user[k.account] # NoRow /\ check_token(user[k.account], k)
          /\ req' = [req EXCEPT ![r] =
                       [Begin("setPassword", NoAccount, k.account, NoBody) EXCEPT !.link = k]]
          /\ UNCHANGED db
    BY <1>7 DEF BeginConfirm
  <2> QED
    BY <1>0, <2>1 DEF db, Presented
<1> QED
  BY <1>1, <1>2, <1>3, <1>4, <1>5, <1>6, <1>7 DEF Start

\* A handler on its way to another statement.
LEMMA Moved ==
  ASSUME NEW q \in Session, NEW pc
  PROVE  LET n == [q EXCEPT !.pc = pc]
         IN  Holds(q, n) /\ n.pc = pc /\ n.copy = q.copy /\ n.seen = q.seen
BY DEF Holds, Session

LEMMA InsertEffect ==
  ASSUME TypeInv, NEW r \in Request, InsertUser(r)
  PROVE  LET q == req[r]
             n == req'[r]
             w == NewRow(q.body, IF q.caller = NoAccount THEN DefaultOrg ELSE q.me.org, NextHash)
         IN  /\ q.pc = "insert" /\ UNCHANGED <<mail, audit, inbox>>
             /\ \/ /\ user[q.target] = NoRow /\ user' = [user EXCEPT ![q.target] = w]
                   /\ given' = Append(given, q.target)
                   /\ Holds(q, n) /\ n.pc = "auditCreate" /\ n.copy = w
                \/ n = Answered(q, "500") /\ UNCHANGED <<user, given>>
<1> DEFINE q == req[r]
           w == NewRow(q.body, IF q.caller = NoAccount THEN DefaultOrg ELSE q.me.org, NextHash)
           n == [q EXCEPT !.copy = w, !.pc = "auditCreate"]
<1>1. q \in Session
  BY DEF TypeInv, TypeOK
<1>2. /\ q.pc = "insert" /\ UNCHANGED <<mail, audit, inbox>>
      /\ \/ /\ user[q.target] = NoRow /\ user' = [user EXCEPT ![q.target] = w]
            /\ given' = Append(given, q.target)
            /\ req' = [req EXCEPT ![r].pc = "auditCreate", ![r].copy = w]
         \/ req' = [req EXCEPT ![r] = Answered(q, "500")] /\ UNCHANGED <<user, given>>
  BY DEF InsertUser
<1> HIDE DEF w
<1>3. Holds(q, n) /\ n.pc = "auditCreate" /\ n.copy = w
  BY <1>1 DEF Session, Holds
<1>4. [req EXCEPT ![r].pc = "auditCreate", ![r].copy = w][r] = n
  BY <1>1 DEF TypeInv, TypeOK, Session
<1>5. [req EXCEPT ![r] = Answered(q, "500")][r] = Answered(q, "500")
  BY DEF TypeInv, TypeOK
<1> HIDE DEF n
<1>6. \/ /\ user[q.target] = NoRow /\ user' = [user EXCEPT ![q.target] = w]
         /\ given' = Append(given, q.target) /\ req'[r] = n
      \/ req'[r] = Answered(q, "500") /\ UNCHANGED <<user, given>>
  BY <1>2, <1>4, <1>5
<1> QED
  BY <1>2, <1>3, <1>6 DEF w

LEMMA AuditCreateEffect ==
  ASSUME TypeInv, NEW r \in Request, AuditCreate(r)
  PROVE  LET q == req[r] IN
         /\ q.pc = "auditCreate" /\ UNCHANGED <<user, given, mail, inbox>>
         /\ audit' = Append(audit, AuditEntry(r, "CREATE",
              IF q.caller = NoAccount THEN q.target ELSE q.caller, q.target, q.copy.role, Unset))
         /\ req'[r] = Answered(q, "ok")
BY DEF AuditCreate, record_audit_log, TypeInv, TypeOK

LEMMA GetTargetEffect ==
  ASSUME TypeInv, NEW r \in Request, GetTarget(r)
  PROVE  LET q == req[r]
             n == req'[r]
             w == user[q.target]
         IN  /\ q.pc = "getTarget" /\ UNCHANGED db
             /\ \/ n = Answered(q, "403")
                \/ /\ q.me.org = w.org /\ Holds(q, n) /\ n.seen = w
                   /\ n.pc = IF w.role = "ADMIN" /\ w.active THEN "countAdmins" ELSE "load"
<1> DEFINE q == req[r]
           w == user[q.target]
           pc == IF w.role = "ADMIN" /\ w.active THEN "countAdmins" ELSE "load"
           n == [q EXCEPT !.seen = w, !.pc = pc]
<1>1. q \in Session
  BY DEF TypeInv, TypeOK
<1>2. /\ q.pc = "getTarget" /\ UNCHANGED db
      /\ req'[r] = IF q.me.org # w.org THEN Answered(q, "403") ELSE n
  BY DEF GetTarget, SameOrganization, TypeInv, TypeOK
<1> HIDE DEF pc
<1>3. Holds(q, n) /\ n.seen = w /\ n.pc = pc
  BY <1>1 DEF Session, Holds
<1> HIDE DEF n
<1> QED
  BY <1>2, <1>3 DEF pc

LEMMA CountAdminsEffect ==
  ASSUME TypeInv, NEW r \in Request, CountAdmins(r)
  PROVE  LET q == req[r]
             n == req'[r]
         IN  /\ q.pc = "countAdmins" /\ UNCHANGED db
             /\ \/ n = Answered(q, "400")
                \/ Holds(q, n) /\ n.seen = q.seen /\ n.pc = "load"
<1> DEFINE q == req[r]
           n == [q EXCEPT !.pc = "load"]
<1>1. q \in Session
  BY DEF TypeInv, TypeOK
<1>2. /\ q.pc = "countAdmins" /\ UNCHANGED db
      /\ req'[r] \in {Answered(q, "400"), n}
  BY DEF CountAdmins, TypeInv, TypeOK
<1>3. Holds(q, n) /\ n.seen = q.seen /\ n.pc = "load"
  BY <1>1, Moved
<1> HIDE DEF n
<1> QED
  BY <1>2, <1>3

LEMMA LoadEffect ==
  ASSUME TypeInv, NEW r \in Request, LoadInstance(r)
  PROVE  LET q == req[r]
             n == req'[r]
             w == user[q.target]
         IN  /\ q.pc = "load" /\ UNCHANGED db
             /\ \/ n \in {Answered(q, "403"), Answered(q, "400")}
                \/ /\ q.me.org = w.org /\ validate_department(q.body, w.org)
                   /\ Holds(q, n) /\ n.seen = q.seen /\ n.copy = w /\ n.pc = "save"
<1> DEFINE q == req[r]
           w == user[q.target]
           n == [q EXCEPT !.copy = w, !.pc = "save"]
<1>1. q \in Session
  BY DEF TypeInv, TypeOK
<1>2. /\ q.pc = "load" /\ UNCHANGED db
      /\ \/ req'[r] \in {Answered(q, "403"), Answered(q, "400")}
         \/ /\ q.me.org = w.org /\ validate_department(q.body, w.org)
            /\ req'[r] = n
  BY DEF LoadInstance, SameOrganization, TypeInv, TypeOK
<1>3. Holds(q, n) /\ n.seen = q.seen /\ n.copy = w /\ n.pc = "save"
  BY <1>1 DEF Session, Holds
<1> HIDE DEF n
<1> QED
  BY <1>2, <1>3

LEMMA SaveEffect ==
  ASSUME TypeInv, NEW r \in Request, SaveInstance(r)
  PROVE  LET q == req[r]
             n == req'[r]
         IN  /\ q.pc = "save" /\ UNCHANGED <<given, mail, audit, inbox>>
             /\ user' = [user EXCEPT ![q.target] = Edited(q.copy, q.body)]
             /\ \/ q.body.method = "PUT" /\ n = Answered(q, "ok")
                \/ /\ q.body.method # "PUT"
                   /\ Holds(q, n) /\ n.seen = q.seen /\ n.pc = "refresh"
<1> DEFINE q == req[r]
           n == [q EXCEPT !.pc = "refresh"]
<1>1. q \in Session
  BY DEF TypeInv, TypeOK
<1>2. /\ q.pc = "save" /\ UNCHANGED <<given, mail, audit, inbox>>
      /\ user' = [user EXCEPT ![q.target] = Edited(q.copy, q.body)]
      /\ req'[r] = IF q.body.method = "PUT" THEN Answered(q, "ok") ELSE n
  BY DEF SaveInstance, TypeInv, TypeOK
<1>3. Holds(q, n) /\ n.seen = q.seen /\ n.pc = "refresh"
  BY <1>1, Moved
<1> HIDE DEF n
<1> QED
  BY <1>2, <1>3

LEMMA RefreshEffect ==
  ASSUME TypeInv, NEW r \in Request, RefreshTarget(r)
  PROVE  LET q == req[r]
             n == req'[r]
             w == user[q.target]
         IN  /\ q.pc = "refresh" /\ UNCHANGED db
             /\ \/ n = Answered(q, "ok") /\ w.role = q.seen.role /\ w.active = q.seen.active
                \/ Holds(q, n) /\ n.seen = q.seen /\ n.copy = w /\ n.pc = "auditUpdate"
<1> DEFINE q == req[r]
           w == user[q.target]
           m == [q EXCEPT !.copy = w]
           n == [m EXCEPT !.pc = "auditUpdate"]
<1>1. q \in Session
  BY DEF TypeInv, TypeOK
<1>2. /\ q.pc = "refresh" /\ UNCHANGED db
      /\ req'[r] = IF WantsAudit(m) THEN n ELSE Answered(m, "ok")
  BY DEF RefreshTarget, TypeInv, TypeOK
<1>3. m.copy = w /\ m.seen = q.seen /\ m.link = q.link
  BY <1>1 DEF Session
<1>4. n.copy = w /\ n.seen = q.seen /\ n.pc = "auditUpdate" /\ Holds(q, n)
  BY <1>1 DEF Session, Holds
<1>5. Answered(m, "ok") = Answered(q, "ok")
  BY <1>3 DEF Answered
<1>6. ~WantsAudit(m) => w.role = q.seen.role /\ w.active = q.seen.active
  BY <1>3 DEF WantsAudit, RoleChanged, ActiveChanged
<1> HIDE DEF m, n
<1> QED
  BY <1>2, <1>4, <1>5, <1>6

LEMMA AuditUpdateEffect ==
  ASSUME TypeInv, NEW r \in Request, AuditUpdate(r)
  PROVE  LET q == req[r]
             n == req'[r]
         IN  /\ q.pc = "auditUpdate" /\ UNCHANGED <<user, given, mail, inbox>>
             /\ audit' = Append(audit, AuditEntry(r, "UPDATE", q.caller, q.target,
                           IF RoleChanged(q) THEN q.copy.role ELSE Unset,
                           IF ActiveChanged(q) THEN q.copy.active ELSE Unset))
             /\ Holds(q, n) /\ n.seen = q.seen /\ n.copy = q.copy
             /\ n.pc = IF RoleChanged(q) THEN "notifyRole" ELSE "notifyActive"
<1> DEFINE q == req[r]
           pc == IF RoleChanged(q) THEN "notifyRole" ELSE "notifyActive"
           n == [q EXCEPT !.pc = pc]
<1>1. q \in Session
  BY DEF TypeInv, TypeOK
<1>2. /\ q.pc = "auditUpdate" /\ UNCHANGED <<user, given, mail, inbox>>
      /\ audit' = Append(audit, AuditEntry(r, "UPDATE", q.caller, q.target,
                    IF RoleChanged(q) THEN q.copy.role ELSE Unset,
                    IF ActiveChanged(q) THEN q.copy.active ELSE Unset))
      /\ req'[r] = n
  BY DEF AuditUpdate, record_audit_log, TypeInv, TypeOK
<1> HIDE DEF pc
<1>3. Holds(q, n) /\ n.seen = q.seen /\ n.copy = q.copy /\ n.pc = pc
  BY <1>1, Moved
<1> HIDE DEF n
<1> QED
  BY <1>2, <1>3 DEF pc

LEMMA NotifyEffect ==
  ASSUME TypeInv, NEW r \in Request, NotifyRole(r) \/ NotifyActive(r)
  PROVE  LET q == req[r]
             n == req'[r]
         IN  /\ UNCHANGED <<user, given, mail, audit>>
             /\ \/ q.pc = "notifyRole" /\ inbox' = inbox \cup {Notice(r, "role")}
                   /\ \/ ~ActiveChanged(q) /\ n = Answered(q, "ok")
                      \/ /\ Holds(q, n) /\ n.seen = q.seen /\ n.copy = q.copy
                         /\ n.pc = "notifyActive"
                \/ /\ q.pc = "notifyActive" /\ inbox' = inbox \cup {Notice(r, "active")}
                   /\ n = Answered(q, "ok")
<1> DEFINE q == req[r]
           n == [q EXCEPT !.pc = "notifyActive"]
<1>1. q \in Session
  BY DEF TypeInv, TypeOK
<1>2. /\ UNCHANGED <<user, given, mail, audit>>
      /\ \/ /\ q.pc = "notifyRole" /\ inbox' = inbox \cup {Notice(r, "role")}
            /\ req'[r] = IF ActiveChanged(q) THEN n ELSE Answered(q, "ok")
         \/ /\ q.pc = "notifyActive" /\ inbox' = inbox \cup {Notice(r, "active")}
            /\ req'[r] = Answered(q, "ok")
  BY DEF NotifyRole, NotifyActive, AfterRoleNotice, TypeInv, TypeOK
<1>3. Holds(q, n) /\ n.seen = q.seen /\ n.copy = q.copy /\ n.pc = "notifyActive"
  BY <1>1, Moved
<1> HIDE DEF n
<1> QED
  BY <1>2, <1>3

LEMMA ProfileEffect ==
  ASSUME TypeInv, NEW r \in Request, SaveProfile(r)
  PROVE  LET q == req[r] IN
         /\ q.pc = "saveMe" /\ q.caller \in Account /\ q.me \in Row
         /\ UNCHANGED <<given, mail, audit, inbox>>
         /\ user' = [user EXCEPT ![q.caller] = q.me]
         /\ req'[r] = Answered(q, "ok")
BY DEF SaveProfile, TypeInv, TypeOK, Session

LEMMA PasswordEffect ==
  ASSUME TypeInv, NEW r \in Request, SetPassword(r)
  PROVE  LET q == req[r] IN
         /\ q.pc = "setPassword" /\ UNCHANGED <<mail, audit, inbox>>
         /\ q.target \in Account /\ user[q.target] \in Row
         /\ user' = [user EXCEPT ![q.target] = [@ EXCEPT !.hash = NextHash]]
         /\ given' = Append(given, q.target)
         /\ req'[r] = Answered(q, "ok")
BY DEF SetPassword, TypeInv, TypeOK, Session, Registered, Active

LEMMA AuditLoginEffect ==
  ASSUME TypeInv, NEW r \in Request, AuditLogin(r)
  PROVE  LET q == req[r] IN
         /\ q.pc = "auditLogin" /\ UNCHANGED <<user, given, mail, inbox>>
         /\ q.caller \in Account
         /\ audit' = Append(audit, AuditEntry(r, "LOGIN", q.caller, q.caller, Unset, Unset))
         /\ req'[r] = Answered(q, "ok")
BY DEF AuditLogin, record_audit_log, TypeInv, TypeOK, Session

LEMMA AbortEffect ==
  ASSUME TypeInv, NEW r \in Request, Abort(r)
  PROVE  /\ req[r].pc \in Active /\ Faults /\ UNCHANGED db
         /\ req'[r] = Answered(req[r], "500")
BY DEF Abort, TypeInv, TypeOK

\* An entry of the longer audit log is one of the old ones or the new one.
LEMMA Appended ==
  ASSUME TypeInv, NEW e \in AuditRow, audit' = Append(audit, e)
  PROVE  /\ DOMAIN audit' = DOMAIN audit \cup {Len(audit) + 1}
         /\ \A i \in DOMAIN audit : audit'[i] = audit[i] /\ i <= Len(audit) /\ i \in Nat
         /\ audit'[Len(audit) + 1] = e /\ Len(audit) \in Nat
<1>1. audit \in Seq(AuditRow)
  BY DEF TypeInv, TypeOK
<1> QED
  BY <1>1

\* A request has an answer only when it is done.
AnsweredLast == \A r \in Request : req[r].pc # "done" => req[r].answer = "none"

LEMMA AnsweredLastHolds == Spec => []AnsweredLast
<1>1. Init => AnsweredLast
  BY DEF Init, AnsweredLast, Idle
<1>2. TypeInv /\ AnsweredLast /\ [Next]_vars => AnsweredLast'
  <2> SUFFICES ASSUME TypeInv, AnsweredLast, [Next]_vars PROVE AnsweredLast'
    OBVIOUS
  <2>1. ASSUME NEW r \in Request, Start(r) \/ Serve(r) \/ Abort(r)
        PROVE  AnsweredLast'
    <3> DEFINE q == req[r]
               n == req'[r]
    <3>1. \A s \in Request : s # r => req'[s] = req[s]
      BY <2>1, OwnSession
    <3>2. \A p, a : n = Answered(p, a) => n.pc = "done"
      BY AnsweredFields
    <3>3. CASE Start(r)
      <4>1. ASSUME NEW pc \in Active, NEW c \in Account \cup {NoAccount}, NEW t \in Account,
                   NEW b \in Body \cup {NoBody}, Begun(r, pc, c, t, b)
            PROVE  n.answer = "none"
        BY <4>1, BeginFields DEF Begun
      <4>2. ASSUME NEW k \in mail, Presented(r, k)
            PROVE  n.answer = "none"
        BY <4>2 DEF Presented, Begin, Idle
      <4>3. (\E a \in Answer : n = Answered(Idle, a)) \/ n.answer = "none"
        BY <3>3, <4>1, <4>2, StartEffect
      <4> QED
        BY <3>1, <3>2, <4>3 DEF AnsweredLast
    <3>4. CASE Serve(r) \/ Abort(r)
      <4> HIDE DEF n
      <4>1. q.pc \in Active /\ q.pc # "done"
        <5>1. q.pc \in Active
          BY <3>4, ServesActive
        <5> QED
          BY <5>1 DEF Active
      <4>2. (\E a : n = Answered(q, a)) \/ Holds(q, n)
        <5>1. CASE InsertUser(r) \/ GetTarget(r) \/ CountAdmins(r) \/ LoadInstance(r)
          BY <5>1, InsertEffect, GetTargetEffect, CountAdminsEffect, LoadEffect DEF n
        <5>2. CASE SaveInstance(r) \/ RefreshTarget(r) \/ AuditUpdate(r)
          BY <5>2, SaveEffect, RefreshEffect, AuditUpdateEffect DEF n
        <5>3. CASE NotifyRole(r) \/ NotifyActive(r)
          BY <5>3, NotifyEffect DEF n
        <5>4. CASE AuditCreate(r) \/ SaveProfile(r) \/ SetPassword(r) \/ AuditLogin(r) \/ Abort(r)
          BY <5>4, AuditCreateEffect, ProfileEffect, PasswordEffect, AuditLoginEffect,
             AbortEffect DEF n
        <5> QED
          BY <3>4, <5>1, <5>2, <5>3, <5>4 DEF Serve
      <4> QED
        BY <3>1, <3>2, <4>1, <4>2 DEF AnsweredLast, Holds, n
    <3> QED
      BY <2>1, <3>3, <3>4
  <2> QED
    BY <2>1 DEF Next, vars, AnsweredLast
<1> QED
  BY <1>1, <1>2, TypeInvHolds, PTL DEF Spec

\* Whoever is registered stays so, in the same organization.
OrgsKept ==
  \A u \in Account : user[u] # NoRow => user'[u] # NoRow /\ user'[u].org = user[u].org

-----------------------------------------------------------------------------
(* Organizations. *)

WellPlaced(w) == w.dept # NoDept => DeptOrg[w.dept] = w.org

OrgFor(q) == IF q.caller = NoAccount THEN DefaultOrg ELSE q.me.org

\* The caller was registered when the request began, in the organization the
\* handler has noted, and so is the target once it has been compared with it;
\* the row about to be written back is in order, and the body fits it.
OrgSession(q, table) ==
  /\ q.me # NoRow => /\ q.caller \in Account /\ table[q.caller] # NoRow
                     /\ WellPlaced(q.me) /\ q.me.org = table[q.caller].org
  /\ q.pc = "insert" => validate_department(q.body, OrgFor(q))
  /\ q.pc = "save" => /\ WellPlaced(q.copy) /\ q.copy.org = table[q.target].org
                      /\ validate_department(q.body, q.copy.org)
  /\ q.pc \in {"auditCreate", "countAdmins", "save"} \cup Telling /\ q.caller # NoAccount =>
       q.me.org = table[q.target].org

OneOrg(e, table) ==
  /\ table[e.actor] # NoRow /\ table[e.target] # NoRow
  /\ table[e.actor].org = table[e.target].org

OrgInv ==
  /\ \A u \in Account : user[u] # NoRow => WellPlaced(user[u])
  /\ \A i \in DOMAIN audit : OneOrg(audit[i], user)
  /\ \A r \in Request : OrgSession(req[r], user)

\* What a step must show: the rest is as it was.
LEMMA OrgStep ==
  ASSUME TypeInv, OrgInv, NEW r \in Request,
         \A s \in Request : s # r => req'[s] = req[s],
         OrgsKept, OrgSession(req'[r], user'),
         \A u \in Account : user'[u] # user[u] /\ user'[u] # NoRow => WellPlaced(user'[u]),
         \/ UNCHANGED audit
         \/ \E e \in AuditRow : audit' = Append(audit, e) /\ OneOrg(e, user)
  PROVE  OrgInv'
<1>1. \A u \in Account : user'[u] # NoRow => WellPlaced(user'[u])
  BY DEF OrgInv
<1>2. ASSUME NEW e \in AuditRow, OneOrg(e, user)
      PROVE  OneOrg(e, user')
  BY <1>2 DEF OneOrg, OrgsKept, AuditRow
<1>3. \A i \in DOMAIN audit : audit[i] \in AuditRow /\ OneOrg(audit[i], user')
  BY <1>2 DEF OrgInv, TypeInv, TypeOK
<1>4. \A i \in DOMAIN audit' : OneOrg(audit'[i], user')
  <2>1. CASE UNCHANGED audit
    BY <1>3, <2>1
  <2>2. ASSUME NEW e \in AuditRow, audit' = Append(audit, e), OneOrg(e, user)
        PROVE  \A i \in DOMAIN audit' : OneOrg(audit'[i], user')
    BY <1>2, <1>3, <2>2, Appended
  <2> QED
    BY <2>1, <2>2
<1>5. ASSUME NEW s \in Request, s # r
      PROVE  OrgSession(req'[s], user')
  <2> DEFINE q == req[s]
  <2>1. q \in Session /\ OrgSession(q, user) /\ req'[s] = q
    BY <1>5 DEF TypeInv, TypeOK, OrgInv
  <2>2. q.pc \in {"auditCreate", "countAdmins", "save"} \cup Telling =>
          q.target \in Account /\ user[q.target] # NoRow
    BY <2>1 DEF TypeInv, Registered, Active, Telling, Session
  <2> HIDE DEF q
  <2> QED
    BY <2>1, <2>2 DEF OrgSession, OrgsKept, Telling
<1> QED
  BY <1>1, <1>4, <1>5 DEF OrgInv

LEMMA AnsweredOrg ==
  ASSUME NEW q, NEW a, NEW table
  PROVE  OrgSession(Answered(q, a), table)
BY AnsweredFields DEF OrgSession, Telling

LEMMA StartOrg ==
  ASSUME TypeInv, OrgInv, NEW r \in Request, Start(r)
  PROVE  OrgInv'
<1>1. /\ UNCHANGED <<user, audit>>
      /\ \A s \in Request : s # r => req'[s] = req[s]
  BY StartEffect, OwnSession
<1>2. ASSUME NEW a, req'[r] = Answered(Idle, a)
      PROVE  OrgSession(req'[r], user)
  BY <1>2, AnsweredOrg
<1>3. ASSUME NEW pc \in Active, NEW c \in Account \cup {NoAccount}, NEW t \in Account,
             NEW b \in Body \cup {NoBody}, Begun(r, pc, c, t, b)
      PROVE  OrgSession(req'[r], user)
  <2> DEFINE n == req'[r]
  <2>1. /\ n.pc = pc /\ n.caller = c /\ n.target = t /\ n.body = b
        /\ n.me = (IF c = NoAccount THEN NoRow ELSE user[c])
    BY <1>3, BeginFields DEF Begun
  <2> HIDE DEF n
  <2> QED
    BY <1>3, <2>1 DEF OrgSession, OrgInv, OrgFor, Telling, n, Begun
<1>4. ASSUME NEW k \in mail, Presented(r, k)
      PROVE  OrgSession(req'[r], user)
  <2>1. req'[r].pc = "setPassword" /\ req'[r].me = NoRow
    BY <1>4 DEF Begin, Idle, Presented
  <2> QED
    BY <2>1 DEF OrgSession, Telling
<1>5. OrgSession(req'[r], user)
  BY <1>2, <1>3, <1>4, StartEffect
<1> QED
  BY <1>1, <1>5, OrgStep DEF OrgsKept


\* A row written over a registered account's, in the same organization.
LEMMA WriteKeepsOrgs ==
  ASSUME TypeInv, NEW t \in Account, NEW w \in Row,
         user' = [user EXCEPT ![t] = w], user[t] # NoRow => w.org = user[t].org
  PROVE  /\ OrgsKept /\ user'[t] = w /\ w # NoRow
         /\ \A u \in Account : u # t => user'[u] = user[u]
BY AccountsAssumption DEF TypeInv, TypeOK, OrgsKept

LEMMA EditedIsPlaced ==
  ASSUME NEW w \in Row, NEW b \in BodyType, WellPlaced(w), validate_department(b, w.org)
  PROVE  WellPlaced(Edited(w, b)) /\ Edited(w, b).org = w.org
<1>1. Edited(w, b).org = w.org /\ Edited(w, b).dept = IF b.dept = Unset THEN w.dept ELSE b.dept
  BY DEF Edited, Row
<1>2. b.dept \in Dept \cup {NoDept, Unset}
  BY DEF BodyType
<1> HIDE DEF Edited
<1> QED
  BY <1>1, <1>2 DEF WellPlaced, validate_department

LEMMA NewRowIsPlaced ==
  ASSUME NEW b \in BodyType, NEW org \in Org, NEW h \in Nat, validate_department(b, org)
  PROVE  WellPlaced(NewRow(b, org, h)) /\ NewRow(b, org, h).org = org
<1>1. b.dept \in Dept \cup {NoDept, Unset}
  BY DEF BodyType
<1> QED
  BY <1>1 DEF WellPlaced, validate_department, NewRow

LEMMA ServeOrg ==
  ASSUME TypeInv, OrgInv, NEW r \in Request, Serve(r) \/ Abort(r)
  PROVE  OrgInv'
<1> DEFINE q == req[r]
           n == req'[r]
<1>1. q \in Session /\ OrgSession(q, user)
  BY DEF TypeInv, TypeOK, OrgInv
<1>2. \A s \in Request : s # r => req'[s] = req[s]
  BY OwnSession
<1>3. q.pc \in Active => q.target \in Account /\ (q.pc # "insert" => user[q.target] \in Row)
  BY <1>1 DEF Session, TypeInv, Registered, TypeOK
<1>4. /\ q.caller # NoAccount => q.caller \in Account /\ q.me \in Row /\ q.me # NoRow
      /\ q.body \in BodyType /\ NoRow \notin Row
  BY <1>1, AccountsAssumption DEF Session
<1>5. \A a : OrgSession(Answered(q, a), user')
  BY AnsweredOrg
<1>6. UNCHANGED user =>
        /\ OrgsKept
        /\ \A u \in Account : user'[u] # user[u] /\ user'[u] # NoRow => WellPlaced(user'[u])
  BY DEF OrgsKept
<1> HIDE DEF n
<1>7. ASSUME Holds(q, n), n.pc \notin {"insert", "save"},
             n.pc \in {"auditCreate", "countAdmins"} \cup Telling /\ q.caller # NoAccount =>
               q.me.org = user'[q.target].org,
             OrgsKept
      PROVE  OrgSession(n, user')
  BY <1>1, <1>7 DEF Holds, OrgSession, OrgsKept, Telling
<1>8. CASE InsertUser(r)
  <2> DEFINE w == NewRow(q.body, OrgFor(q), NextHash)
  <2>1. /\ q.pc = "insert" /\ UNCHANGED <<mail, audit, inbox>>
        /\ \/ /\ user[q.target] = NoRow /\ user' = [user EXCEPT ![q.target] = w]
              /\ Holds(q, n) /\ n.pc = "auditCreate"
           \/ n = Answered(q, "500") /\ UNCHANGED user
    BY <1>8, InsertEffect DEF n, OrgFor
  <2>2. q.target \in Account /\ validate_department(q.body, OrgFor(q))
    BY <1>1, <1>3, <2>1 DEF OrgSession, Active
  <2>3. OrgFor(q) \in Org
    BY <1>4, AccountsAssumption DEF OrgFor, Row
  <2>4. WellPlaced(w) /\ w.org = OrgFor(q) /\ w \in Row
    BY <1>4, <2>2, <2>3, NewRowIsPlaced, NewRowIsRow, NextHashIsNat DEF TypeInv
  <2> HIDE DEF w
  <2>5. CASE UNCHANGED user /\ n = Answered(q, "500")
    BY <1>2, <1>5, <1>6, <2>1, <2>5, OrgStep DEF n
  <2>6. CASE user[q.target] = NoRow /\ user' = [user EXCEPT ![q.target] = w]
             /\ Holds(q, n) /\ n.pc = "auditCreate"
    <3>1. OrgsKept /\ user'[q.target] = w /\ (\A u \in Account : u # q.target => user'[u] = user[u])
      BY <2>2, <2>4, <2>6, WriteKeepsOrgs
    <3>2. q.caller # NoAccount => q.me.org = user'[q.target].org
      BY <2>4, <3>1 DEF OrgFor
    <3>3. OrgSession(n, user')
      BY <1>7, <2>6, <3>1, <3>2
    <3> QED
      BY <1>2, <2>1, <2>4, <3>1, <3>3, OrgStep DEF n
  <2> QED
    BY <2>1, <2>5, <2>6
<1>9. CASE AuditCreate(r)
  <2> DEFINE actor == IF q.caller = NoAccount THEN q.target ELSE q.caller
             e == AuditEntry(r, "CREATE", actor, q.target, q.copy.role, Unset)
  <2>1. /\ q.pc = "auditCreate" /\ UNCHANGED user /\ audit' = Append(audit, e)
        /\ n = Answered(q, "ok")
    BY <1>9, AuditCreateEffect DEF n
  <2>2. q.target \in Account /\ user[q.target] # NoRow /\ q.copy \in Row /\ actor \in Account
    BY <1>1, <1>3, <1>4, <2>1 DEF Active, Session
  <2>3. user[actor] # NoRow /\ user[actor].org = user[q.target].org
    BY <1>1, <1>4, <2>1, <2>2 DEF OrgSession
  <2>4. e \in AuditRow /\ OneOrg(e, user)
    BY <2>2, <2>3 DEF AuditEntry, AuditRow, Row, OneOrg
  <2> HIDE DEF e
  <2> QED
    BY <1>2, <1>5, <1>6, <2>1, <2>4, OrgStep DEF n
<1>10. CASE GetTarget(r)
  <2>1. /\ q.pc = "getTarget" /\ UNCHANGED db
        /\ \/ n = Answered(q, "403")
           \/ q.me.org = user[q.target].org /\ Holds(q, n) /\ n.pc \in {"countAdmins", "load"}
    BY <1>10, GetTargetEffect DEF n
  <2>2. OrgSession(n, user')
    BY <1>5, <1>6, <1>7, <2>1 DEF db, Telling
  <2> QED
    BY <1>2, <1>6, <2>1, <2>2, OrgStep DEF n, db
<1>11. CASE CountAdmins(r)
  <2>1. /\ q.pc = "countAdmins" /\ UNCHANGED db
        /\ \/ n = Answered(q, "400")
           \/ Holds(q, n) /\ n.pc = "load"
    BY <1>11, CountAdminsEffect DEF n
  <2>2. OrgSession(n, user')
    BY <1>5, <1>6, <1>7, <2>1 DEF db, Telling
  <2> QED
    BY <1>2, <1>6, <2>1, <2>2, OrgStep DEF n, db
<1>12. CASE LoadInstance(r)
  <2>1. /\ q.pc = "load" /\ UNCHANGED db
        /\ \/ n \in {Answered(q, "403"), Answered(q, "400")}
           \/ /\ q.me.org = user[q.target].org /\ validate_department(q.body, user[q.target].org)
              /\ Holds(q, n) /\ n.copy = user[q.target] /\ n.pc = "save"
    BY <1>12, LoadEffect DEF n
  <2>2. q.target \in Account /\ user[q.target] # NoRow /\ WellPlaced(user[q.target])
    BY <1>3, <1>4, <2>1 DEF Active, OrgInv
  <2>3. OrgSession(n, user)
    BY <1>1, <1>5, <2>1, <2>2 DEF db, Holds, OrgSession
  <2> QED
    BY <1>2, <1>6, <2>1, <2>3, OrgStep DEF n, db
<1>13. CASE SaveInstance(r)
  <2> DEFINE w == Edited(q.copy, q.body)
  <2>1. /\ q.pc = "save" /\ UNCHANGED audit /\ user' = [user EXCEPT ![q.target] = w]
        /\ \/ n = Answered(q, "ok")
           \/ Holds(q, n) /\ n.pc = "refresh"
    BY <1>13, SaveEffect DEF n
  <2>2. q.target \in Account /\ q.copy \in Row /\ q.copy.org = user[q.target].org
    BY <1>1, <1>3, <2>1 DEF OrgSession, Active, Session
  <2>3. WellPlaced(w) /\ w.org = user[q.target].org /\ w \in Row
    BY <1>1, <1>4, <2>1, <2>2, EditedIsPlaced, EditedIsRow DEF OrgSession
  <2> HIDE DEF w
  <2>4. /\ OrgsKept /\ user'[q.target] = w
        /\ \A u \in Account : u # q.target => user'[u] = user[u]
    BY <2>1, <2>2, <2>3, WriteKeepsOrgs
  <2>5. q.caller # NoAccount => q.me.org = user'[q.target].org
    BY <1>1, <2>1, <2>3, <2>4 DEF OrgSession
  <2>6. OrgSession(n, user')
    BY <1>5, <1>7, <2>1, <2>4, <2>5
  <2> QED
    BY <1>2, <2>1, <2>3, <2>4, <2>6, OrgStep DEF n
<1>14. CASE RefreshTarget(r) \/ AuditUpdate(r) \/ NotifyRole(r) \/ NotifyActive(r)
  <2>1. /\ q.pc \in Telling /\ UNCHANGED user
        /\ \/ n = Answered(q, "ok")
           \/ Holds(q, n) /\ n.pc \in Telling
    <3>1. CASE RefreshTarget(r)
      BY <3>1, RefreshEffect DEF n, db, Telling
    <3>2. CASE AuditUpdate(r)
      BY <3>2, AuditUpdateEffect DEF n, Telling
    <3>3. CASE NotifyRole(r) \/ NotifyActive(r)
      BY <3>3, NotifyEffect DEF n, Telling
    <3> QED
      BY <1>14, <3>1, <3>2, <3>3
  <2>2. q.caller \in Account /\ q.target \in Account /\ user[q.target] # NoRow
    BY <1>1, <1>3, <1>4, <2>1 DEF Active, Session, Administering, Telling
  <2>3. q.me.org = user[q.target].org /\ user[q.caller] # NoRow /\ q.me.org = user[q.caller].org
    BY <1>1, <1>4, <2>1, <2>2, AccountsAssumption DEF OrgSession
  <2>4. OrgSession(n, user')
    BY <1>5, <1>6, <1>7, <2>1, <2>3 DEF Telling
  <2>5. UNCHANGED audit \/ \E e \in AuditRow : audit' = Append(audit, e) /\ OneOrg(e, user)
    <3>1. CASE AuditUpdate(r)
      <4> DEFINE e == AuditEntry(r, "UPDATE", q.caller, q.target,
                        IF RoleChanged(q) THEN q.copy.role ELSE Unset,
                        IF ActiveChanged(q) THEN q.copy.active ELSE Unset)
      <4>1. audit' = Append(audit, e)
        BY <3>1, AuditUpdateEffect
      <4>2. q.copy \in Row
        BY <1>1, <2>1 DEF Session
      <4>3. e \in AuditRow /\ OneOrg(e, user)
        BY <2>2, <2>3, <4>2 DEF AuditEntry, AuditRow, OneOrg, Row
      <4> QED
        BY <4>1, <4>3
    <3> QED
      BY <1>14, <3>1, RefreshEffect, NotifyEffect DEF db
  <2> QED
    BY <1>2, <1>6, <2>1, <2>4, <2>5, OrgStep DEF n
<1>15. CASE SaveProfile(r)
  <2>1. /\ q.pc = "saveMe" /\ q.caller \in Account /\ q.me \in Row /\ UNCHANGED audit
        /\ user' = [user EXCEPT ![q.caller] = q.me] /\ n = Answered(q, "ok")
    BY <1>15, ProfileEffect DEF n
  <2>2. WellPlaced(q.me) /\ q.me.org = user[q.caller].org
    BY <1>1, <1>4, <2>1 DEF OrgSession
  <2>3. /\ OrgsKept /\ user'[q.caller] = q.me
        /\ \A u \in Account : u # q.caller => user'[u] = user[u]
    BY <2>1, <2>2, WriteKeepsOrgs
  <2> QED
    BY <1>2, <1>5, <2>1, <2>2, <2>3, OrgStep DEF n
<1>16. CASE SetPassword(r)
  <2> DEFINE w == [user[q.target] EXCEPT !.hash = NextHash]
  <2>1. /\ q.target \in Account /\ user[q.target] \in Row /\ UNCHANGED audit
        /\ user' = [user EXCEPT ![q.target] = w] /\ n = Answered(q, "ok")
    BY <1>16, PasswordEffect DEF n
  <2>2. w \in Row /\ w.org = user[q.target].org /\ w.dept = user[q.target].dept
    BY <2>1, NextHashIsNat DEF Row, TypeInv
  <2>3. WellPlaced(w)
    BY <1>4, <2>1, <2>2 DEF WellPlaced, OrgInv
  <2> HIDE DEF w
  <2>4. /\ OrgsKept /\ user'[q.target] = w
        /\ \A u \in Account : u # q.target => user'[u] = user[u]
    BY <2>1, <2>2, WriteKeepsOrgs
  <2> QED
    BY <1>2, <1>5, <2>1, <2>3, <2>4, OrgStep DEF n
<1>17. CASE AuditLogin(r)
  <2> DEFINE e == AuditEntry(r, "LOGIN", q.caller, q.caller, Unset, Unset)
  <2>1. /\ q.caller \in Account /\ UNCHANGED user /\ audit' = Append(audit, e)
        /\ n = Answered(q, "ok")
    BY <1>17, AuditLoginEffect DEF n
  <2>2. e \in AuditRow /\ OneOrg(e, user)
    BY <1>1, <1>4, <2>1, AccountsAssumption DEF AuditEntry, AuditRow, OneOrg, OrgSession
  <2> HIDE DEF e
  <2> QED
    BY <1>2, <1>5, <1>6, <2>1, <2>2, OrgStep DEF n
<1>18. CASE Abort(r)
  <2>1. UNCHANGED db /\ n = Answered(q, "500")
    BY <1>18, AbortEffect DEF n
  <2> QED
    BY <1>2, <1>5, <1>6, <2>1, OrgStep DEF n, db
<1> QED
  BY <1>8, <1>9, <1>10, <1>11, <1>12, <1>13, <1>14, <1>15, <1>16, <1>17, <1>18 DEF Serve

LEMMA OrgInvHolds == Spec => []OrgInv
<1>1. Init => OrgInv
  <2> SUFFICES ASSUME Init PROVE OrgInv
    OBVIOUS
  <2>1. \A u \in Account : user[u] # NoRow => WellPlaced(user[u])
    BY AccountsAssumption DEF Init, WellPlaced
  <2>2. \A r \in Request : OrgSession(req[r], user)
    BY DEF Init, Idle, OrgSession, Telling
  <2> QED
    BY <2>1, <2>2 DEF Init, OrgInv
<1>2. TypeInv /\ OrgInv /\ [Next]_vars => OrgInv'
  <2> SUFFICES ASSUME TypeInv, OrgInv, [Next]_vars PROVE OrgInv'
    OBVIOUS
  <2>1. CASE UNCHANGED vars
    BY <2>1 DEF vars, OrgInv
  <2> QED
    BY <2>1, StartOrg, ServeOrg DEF Next
<1> QED
  BY <1>1, <1>2, TypeInvHolds, PTL DEF Spec

\* However requests interleave and die, no account is ever in a department of
\* another organization, and nobody outside its organization ever created or
\* changed one: the object permission is checked on a row read
\* several statements before the one that is written, and it is enough that
\* nothing the server does moves an account to another organization.
THEOREM OrganizationsStayApart == Spec => []OrganizationsApart
<1>1. TypeInv /\ OrgInv => OrganizationsApart
  BY DEF OrgInv, OneOrg, WellPlaced, OrganizationsApart
<1> QED
  BY <1>1, TypeInvHolds, OrgInvHolds, PTL


-----------------------------------------------------------------------------
(* Notices. *)

Noticed(e, verb, box) == \E n \in box : n.req = e.req /\ n.to = e.target /\ n.verb = verb

\* How far the request that recorded the entry e has come in telling of it.
\* A request that may record one still is at none of these stages.
Telt(e, q, box) ==
  \/ /\ q.pc = "notifyRole" /\ q.target = e.target
     /\ e.active # Unset => ActiveChanged(q)
  \/ /\ q.pc = "notifyActive" /\ q.target = e.target
     /\ e.role # Unset => Noticed(e, "role", box)
  \/ /\ q.pc = "done"
     /\ q.answer = "ok" =>
          \A verb \in {"role", "active"} : e[verb] # Unset => Noticed(e, verb, box)

ToldInv ==
  \A i \in DOMAIN audit :
    audit[i].action = "UPDATE" => Telt(audit[i], req[audit[i].req], inbox)

\* What a step of r must show: the entries of the other requests are safe.
LEMMA ToldStep ==
  ASSUME TypeInv, ToldInv, NEW r \in Request,
         \A s \in Request : s # r => req'[s] = req[s],
         inbox \subseteq inbox',
         \A e \in AuditRow : Telt(e, req[r], inbox) /\ e.req = r => Telt(e, req'[r], inbox'),
         \/ UNCHANGED audit
         \/ \E e \in AuditRow : /\ audit' = Append(audit, e)
                                /\ e.action = "UPDATE" => e.req = r /\ Telt(e, req'[r], inbox')
  PROVE  ToldInv'
<1>1. ASSUME NEW e \in AuditRow, NEW verb, Noticed(e, verb, inbox)
      PROVE  Noticed(e, verb, inbox')
  BY <1>1 DEF Noticed
<1>2. ASSUME NEW e \in AuditRow, e.req # r, Telt(e, req[e.req], inbox)
      PROVE  Telt(e, req'[e.req], inbox')
  <2>1. e.req \in Request /\ req'[e.req] = req[e.req]
    BY <1>2 DEF AuditRow
  <2> QED
    BY <1>1, <1>2, <2>1 DEF Telt
<1>3. \A i \in DOMAIN audit : audit[i] \in AuditRow
  BY DEF TypeInv, TypeOK
<1>4. \A i \in DOMAIN audit : audit[i].action = "UPDATE" =>
         Telt(audit[i], req'[audit[i].req], inbox')
  BY <1>2, <1>3 DEF ToldInv
<1>5. CASE UNCHANGED audit
  BY <1>4, <1>5 DEF ToldInv
<1>6. ASSUME NEW e \in AuditRow, audit' = Append(audit, e),
             e.action = "UPDATE" => e.req = r /\ Telt(e, req'[r], inbox')
      PROVE  ToldInv'
  <2> SUFFICES ASSUME NEW i \in DOMAIN audit', audit'[i].action = "UPDATE"
               PROVE  Telt(audit'[i], req'[audit'[i].req], inbox')
    BY DEF ToldInv
  <2>1. CASE i \in DOMAIN audit
    BY <1>4, <1>6, <2>1, Appended
  <2>2. CASE i = Len(audit) + 1
    BY <1>6, <2>2, Appended
  <2> QED
    BY <1>6, <2>1, <2>2, Appended
<1> QED
  BY <1>5, <1>6

LEMMA NoticeIsNoticed ==
  ASSUME NEW e, NEW verb, NEW r \in Request, e.req = r, e.target = req[r].target,
         NEW box, Notice(r, verb) \in box
  PROVE  Noticed(e, verb, box)
<1>1. /\ Notice(r, verb).req = r /\ Notice(r, verb).to = req[r].target
      /\ Notice(r, verb).verb = verb
  BY DEF Notice
<1> QED
  BY <1>1, Zenon DEF Noticed

LEMMA NextTold ==
  ASSUME TypeInv, ToldInv, [Next]_vars
  PROVE  ToldInv'
<1>1. CASE UNCHANGED vars
  BY <1>1 DEF vars, ToldInv
<1>2. ASSUME NEW r \in Request, Start(r) \/ Serve(r) \/ Abort(r)
      PROVE  ToldInv'
  <2> DEFINE q == req[r]
             n == req'[r]
  <2>1. q \in Session /\ \A s \in Request : s # r => req'[s] = req[s]
    BY <1>2, OwnSession DEF TypeInv, TypeOK
  \* Where no entry can have been recorded yet, there is nothing to keep.
  <2>2. q.pc \notin {"notifyRole", "notifyActive", "done"} => \A e : ~Telt(e, q, inbox)
    BY DEF Telt
  <2>3. CASE Start(r)
    <3>1. q.pc = "idle" /\ UNCHANGED <<audit, inbox>>
      BY <2>3, StartEffect
    <3> QED
      BY <2>1, <2>2, <3>1, ToldStep
  <2>4. CASE AuditCreate(r) \/ AuditLogin(r)
    <3> DEFINE actor == IF q.caller = NoAccount THEN q.target ELSE q.caller
    <3>1. /\ q.pc \in {"auditCreate", "auditLogin"} /\ UNCHANGED inbox
          /\ q.caller # NoAccount \/ q.pc = "auditLogin" => q.caller \in Account
          /\ q.pc = "auditCreate" => q.copy \in Row /\ q.target \in Account
          /\ audit' = Append(audit,
               IF q.pc = "auditCreate"
               THEN AuditEntry(r, "CREATE", actor, q.target, q.copy.role, Unset)
               ELSE AuditEntry(r, "LOGIN", q.caller, q.caller, Unset, Unset))
      BY <2>1, <2>4, AuditCreateEffect, AuditLoginEffect DEF Session, Telling, Active
    <3> DEFINE e == IF q.pc = "auditCreate"
                    THEN AuditEntry(r, "CREATE", actor, q.target, q.copy.role, Unset)
                    ELSE AuditEntry(r, "LOGIN", q.caller, q.caller, Unset, Unset)
    <3>2. e \in AuditRow /\ e.action # "UPDATE"
      BY <3>1 DEF AuditEntry, AuditRow, Row
    <3> HIDE DEF e
    <3>3. audit' = Append(audit, e)
      BY <3>1 DEF e
    <3> QED
      BY <2>1, <2>2, <3>1, <3>2, <3>3, ToldStep
  <2>5. CASE AuditUpdate(r)
    <3> DEFINE e == AuditEntry(r, "UPDATE", q.caller, q.target,
                      IF RoleChanged(q) THEN q.copy.role ELSE Unset,
                      IF ActiveChanged(q) THEN q.copy.active ELSE Unset)
    <3>1. /\ q.pc = "auditUpdate" /\ UNCHANGED inbox /\ audit' = Append(audit, e)
          /\ Holds(q, n) /\ n.seen = q.seen /\ n.copy = q.copy
          /\ n.pc = IF RoleChanged(q) THEN "notifyRole" ELSE "notifyActive"
      BY <2>5, AuditUpdateEffect
    <3>2. q.caller \in Account /\ q.target \in Account /\ q.copy \in Row
      BY <2>1, <3>1 DEF Session, Administering, Telling, Active
    <3>3. /\ e \in AuditRow /\ e.req = r /\ e.target = q.target
          /\ ~RoleChanged(q) => e.role = Unset
          /\ ~ActiveChanged(q) => e.active = Unset
      BY <3>2 DEF AuditEntry, AuditRow, Row
    <3> HIDE DEF e, n
    <3>4. ActiveChanged(n) = ActiveChanged(q)
      BY <3>1 DEF ActiveChanged
    <3>5. Telt(e, n, inbox')
      <4>1. CASE RoleChanged(q)
        BY <3>1, <3>3, <3>4, <4>1 DEF Telt, Holds
      <4>2. CASE ~RoleChanged(q)
        BY <3>1, <3>3, <4>2 DEF Telt, Holds
      <4> QED
        BY <4>1, <4>2
    <3> QED
      BY <2>1, <2>2, <3>1, <3>3, <3>5, ToldStep DEF n
  <2>6. CASE NotifyRole(r) \/ NotifyActive(r)
    <3>1. /\ UNCHANGED audit
          /\ \/ /\ q.pc = "notifyRole" /\ inbox' = inbox \cup {Notice(r, "role")}
                /\ \/ ~ActiveChanged(q) /\ n = Answered(q, "ok")
                   \/ Holds(q, n) /\ n.pc = "notifyActive"
             \/ /\ q.pc = "notifyActive" /\ inbox' = inbox \cup {Notice(r, "active")}
                /\ n = Answered(q, "ok")
      BY <2>6, NotifyEffect
    <3>2. n = Answered(q, "ok") => n.pc = "done"
      BY AnsweredFields
    <3>3. ASSUME NEW e \in AuditRow, e.req = r, Telt(e, q, inbox)
          PROVE  Telt(e, n, inbox')
      <4>1. CASE q.pc = "notifyRole"
        <5>1. q.target = e.target /\ (e.active # Unset => ActiveChanged(q))
          BY <3>3, <4>1 DEF Telt
        <5>2. Noticed(e, "role", inbox')
          BY <3>1, <3>3, <4>1, <5>1, NoticeIsNoticed
        <5> HIDE DEF n
        <5> QED
          BY <3>1, <3>2, <4>1, <5>1, <5>2 DEF Telt, Holds
      <4>2. CASE q.pc = "notifyActive"
        <5>1. q.target = e.target /\ (e.role # Unset => Noticed(e, "role", inbox))
          BY <3>3, <4>2 DEF Telt
        <5>2. Noticed(e, "active", inbox') /\ (e.role # Unset => Noticed(e, "role", inbox'))
          <6>1. Noticed(e, "active", inbox')
            BY <3>1, <3>3, <4>2, <5>1, NoticeIsNoticed
          <6>2. e.role # Unset => Noticed(e, "role", inbox')
            BY <3>1, <4>2, <5>1 DEF Noticed
          <6> QED
            BY <6>1, <6>2
        <5> HIDE DEF n
        <5> QED
          BY <3>1, <3>2, <4>2, <5>2 DEF Telt
      <4> QED
        BY <3>1, <4>1, <4>2
    <3> QED
      BY <2>1, <3>1, <3>3, ToldStep
  <2>7. CASE Abort(r)
    <3>1. q.pc \in Active /\ UNCHANGED <<audit, inbox>> /\ n = Answered(q, "500")
      BY <2>7, AbortEffect DEF db
    <3>2. n.pc = "done" /\ n.answer = "500"
      BY <3>1, AnsweredFields
    <3>3. \A e : Telt(e, n, inbox')
      BY <3>2 DEF Telt
    <3> QED
      BY <2>1, <3>1, <3>3, ToldStep
  <2>8. CASE InsertUser(r) \/ GetTarget(r) \/ CountAdmins(r) \/ LoadInstance(r)
             \/ SaveInstance(r) \/ RefreshTarget(r) \/ SaveProfile(r) \/ SetPassword(r)
    <3>1. /\ q.pc \in {"insert", "getTarget", "countAdmins", "load", "save", "refresh",
                       "saveMe", "setPassword"}
          /\ UNCHANGED <<audit, inbox>>
      BY <2>8 DEF InsertUser, GetTarget, CountAdmins, LoadInstance, SaveInstance,
                  RefreshTarget, SaveProfile, SetPassword, db
    <3> QED
      BY <2>1, <2>2, <3>1, ToldStep
  <2> QED
    BY <1>2, <2>3, <2>4, <2>5, <2>6, <2>7, <2>8 DEF Serve
<1> QED
  BY <1>1, <1>2 DEF Next

LEMMA ToldInvHolds == Spec => []ToldInv
<1>1. Init => ToldInv
  BY DEF Init, ToldInv
<1> QED
  BY <1>1, NextTold, TypeInvHolds, PTL DEF Spec

\* Whoever's role or activation the audit log says was changed has been told of
\* each by the time the request that changed it answers "ok": patch() reads the
\* row again before the audit entry and decides on its notices from that copy
\* three commits later, when other requests may have changed the row, and still
\* what it tells is what it recorded.
THEOREM TheAffectedAreTold == Spec => []AffectedAreTold
<1>1. ASSUME TypeInv, AnsweredLast, ToldInv
      PROVE  AffectedAreTold
  <2> SUFFICES ASSUME NEW i \in DOMAIN audit, NEW verb \in {"role", "active"},
                      audit[i].action = "UPDATE", audit[i][verb] # Unset,
                      req[audit[i].req].answer = "ok"
               PROVE  Noticed(audit[i], verb, inbox)
    BY DEF AffectedAreTold, Noticed
  <2>1. audit[i].req \in Request /\ Telt(audit[i], req[audit[i].req], inbox)
    <3>1. audit[i] \in AuditRow
      BY <1>1 DEF TypeInv, TypeOK
    <3> QED
      BY <1>1, <3>1 DEF ToldInv, AuditRow
  <2>2. req[audit[i].req].pc = "done"
    BY <1>1, <2>1 DEF AnsweredLast
  <2> QED
    BY <2>1, <2>2 DEF Telt
<1> QED
  BY <1>1, TypeInvHolds, AnsweredLastHolds, ToldInvHolds, PTL


-----------------------------------------------------------------------------
(* One request at a time.  Nothing a handler holds is then stale: what it    *)
(* writes back is what is stored.                                            *)

FreshSession(q, table) ==
  /\ q.pc = "save" => q.copy = table[q.target]
  /\ q.pc = "saveMe" => q.me = table[q.caller]
  /\ q.pc \in {"countAdmins", "load", "save"} /\ q.body.method # "PUT" =>
       q.seen = table[q.target]
  /\ q.pc \in {"auditCreate", "auditUpdate"} => q.copy = table[q.target]

FreshInv == Alone /\ \A r \in Request : FreshSession(req[r], user)

LEMMA OthersRest ==
  ASSUME TypeInv, Alone, Workers = 1, NEW r \in Request, Start(r) \/ Serve(r) \/ Abort(r)
  PROVE  /\ \A s \in Request : s # r => req'[s] = req[s] /\ req[s].pc \notin Active
         /\ Alone'
<1>1. \A s \in Request : s # r => req'[s] = req[s]
  BY OwnSession
<1>2. \A s \in Request : s # r => req[s].pc \notin Active
  <2>1. CASE Start(r)
    BY <2>1, StartsIdle, StartsAlone DEF InFlight
  <2>2. CASE Serve(r) \/ Abort(r)
    BY <2>2, ServesActive DEF Alone, InFlight
  <2> QED
    BY <2>1, <2>2
<1> QED
  BY <1>1, <1>2 DEF Alone, InFlight

LEMMA AtRestIsFresh ==
  ASSUME NEW q, NEW table,
         q.pc \notin {"save", "saveMe", "countAdmins", "load", "auditCreate", "auditUpdate"}
  PROVE  FreshSession(q, table)
BY DEF FreshSession

LEMMA StartFresh ==
  ASSUME TypeInv, FreshInv, NEW r \in Request, Start(r)
  PROVE  FreshSession(req'[r], user')
<1>1. UNCHANGED user
  BY StartEffect
<1>2. ASSUME NEW a, req'[r] = Answered(Idle, a)
      PROVE  FreshSession(req'[r], user)
  BY <1>2, AnsweredFields, AtRestIsFresh
<1>3. ASSUME NEW pc \in Active, NEW c \in Account \cup {NoAccount}, NEW t \in Account,
             NEW b \in Body \cup {NoBody}, Begun(r, pc, c, t, b)
      PROVE  FreshSession(req'[r], user)
  <2> DEFINE n == req'[r]
  <2>1. /\ n.pc = pc /\ n.caller = c /\ n.target = t /\ n.body = b
        /\ n.me = (IF c = NoAccount THEN NoRow ELSE user[c])
    BY <1>3, BeginFields DEF Begun
  <2> HIDE DEF n
  <2> QED
    BY <1>3, <2>1, AccountsAssumption DEF FreshSession, n, Begun
<1>4. ASSUME NEW k \in mail, Presented(r, k)
      PROVE  FreshSession(req'[r], user)
  <2>1. req'[r].pc = "setPassword"
    BY <1>4 DEF Begin, Idle, Presented
  <2> QED
    BY <2>1, AtRestIsFresh
<1> QED
  BY <1>1, <1>2, <1>3, <1>4, StartEffect

LEMMA ServeFresh ==
  ASSUME TypeInv, FreshInv, NEW r \in Request, Serve(r) \/ Abort(r)
  PROVE  FreshSession(req'[r], user')
<1> DEFINE q == req[r]
           n == req'[r]
<1>1. q \in Session /\ FreshSession(q, user) /\ (q.pc \in Active => q.target \in Account)
  BY DEF TypeInv, TypeOK, FreshInv, Session
<1>2. \A a : FreshSession(Answered(q, a), user')
  BY AnsweredFields, AtRestIsFresh
<1>3. CASE InsertUser(r)
  <2> DEFINE w == NewRow(q.body, IF q.caller = NoAccount THEN DefaultOrg ELSE q.me.org, NextHash)
  <2>1. /\ q.pc = "insert"
        /\ \/ /\ user' = [user EXCEPT ![q.target] = w]
              /\ Holds(q, n) /\ n.pc = "auditCreate" /\ n.copy = w
           \/ n = Answered(q, "500")
    BY <1>3, InsertEffect
  <2>2. q.target \in DOMAIN user
    BY <1>1, <2>1 DEF TypeInv, TypeOK, Active
  <2> HIDE DEF w, n
  <2> QED
    BY <1>2, <2>1, <2>2 DEF FreshSession, Holds, n
<1>4. CASE GetTarget(r)
  <2>1. /\ UNCHANGED db
        /\ \/ n = Answered(q, "403")
           \/ /\ Holds(q, n) /\ n.seen = user[q.target]
              /\ n.pc \in {"countAdmins", "load"}
    BY <1>4, GetTargetEffect
  <2> HIDE DEF n
  <2> QED
    BY <1>2, <2>1 DEF FreshSession, Holds, db, n
<1>5. CASE CountAdmins(r)
  <2>1. /\ q.pc = "countAdmins" /\ UNCHANGED db
        /\ \/ n = Answered(q, "400")
           \/ Holds(q, n) /\ n.seen = q.seen /\ n.pc = "load"
    BY <1>5, CountAdminsEffect
  <2> HIDE DEF n
  <2> QED
    BY <1>1, <1>2, <2>1 DEF FreshSession, Holds, db, n
<1>6. CASE LoadInstance(r)
  <2>1. /\ q.pc = "load" /\ UNCHANGED db
        /\ \/ n \in {Answered(q, "403"), Answered(q, "400")}
           \/ Holds(q, n) /\ n.seen = q.seen /\ n.copy = user[q.target] /\ n.pc = "save"
    BY <1>6, LoadEffect
  <2> HIDE DEF n
  <2> QED
    BY <1>1, <1>2, <2>1 DEF FreshSession, Holds, db, n
<1>7. CASE SaveInstance(r)
  <2>1. n = Answered(q, "ok") \/ n.pc = "refresh"
    BY <1>7, SaveEffect
  <2> QED
    BY <1>2, <2>1, AtRestIsFresh
<1>8. CASE RefreshTarget(r)
  <2>1. /\ UNCHANGED db
        /\ \/ n = Answered(q, "ok")
           \/ Holds(q, n) /\ n.copy = user[q.target] /\ n.pc = "auditUpdate"
    BY <1>8, RefreshEffect
  <2> HIDE DEF n
  <2> QED
    BY <1>2, <2>1 DEF FreshSession, Holds, db, n
<1>9. CASE AuditUpdate(r)
  <2>1. n.pc \in {"notifyRole", "notifyActive"}
    BY <1>9, AuditUpdateEffect
  <2> QED
    BY <2>1, AtRestIsFresh
<1>10. CASE NotifyRole(r) \/ NotifyActive(r)
  <2>1. n = Answered(q, "ok") \/ n.pc = "notifyActive"
    BY <1>10, NotifyEffect
  <2> QED
    BY <1>2, <2>1, AtRestIsFresh
<1>11. CASE AuditCreate(r) \/ SaveProfile(r) \/ SetPassword(r) \/ AuditLogin(r) \/ Abort(r)
  <2>1. n \in {Answered(q, "ok"), Answered(q, "500")}
    BY <1>11, AuditCreateEffect, ProfileEffect, PasswordEffect, AuditLoginEffect, AbortEffect
  <2> QED
    BY <1>2, <2>1
<1> QED
  BY <1>3, <1>4, <1>5, <1>6, <1>7, <1>8, <1>9, <1>10, <1>11 DEF Serve

LEMMA FreshInvHolds ==
  ASSUME Workers = 1
  PROVE  Spec => []FreshInv
<1>1. Init => FreshInv
  <2> SUFFICES ASSUME Init PROVE FreshInv
    OBVIOUS
  <2>1. \A r \in Request : req[r].pc = "idle"
    BY IdleIsSession DEF Init
  <2> QED
    BY <2>1, AtRestIsFresh DEF FreshInv, Alone, InFlight, Active
<1>2. TypeInv /\ FreshInv /\ [Next]_vars => FreshInv'
  <2> SUFFICES ASSUME TypeInv, FreshInv, [Next]_vars PROVE FreshInv'
    OBVIOUS
  <2>1. ASSUME NEW r \in Request, Start(r) \/ Serve(r) \/ Abort(r)
        PROVE  FreshInv'
    <3>1. FreshSession(req'[r], user')
      BY <2>1, StartFresh, ServeFresh
    <3>2. ASSUME NEW s \in Request, s # r
          PROVE  FreshSession(req'[s], user')
      <4>1. req'[s].pc \notin Active
        BY <2>1, <3>2, OthersRest DEF FreshInv
      <4> QED
        BY <4>1, AtRestIsFresh DEF Active
    <3> QED
      BY <2>1, <3>1, <3>2, OthersRest DEF FreshInv
  <2>2. CASE UNCHANGED vars
    BY <2>2 DEF vars, FreshInv, Alone, InFlight
  <2> QED
    BY <2>1, <2>2 DEF Next
<1> QED
  BY <1>1, <1>2, TypeInvHolds, PTL DEF Spec


\* The row of a registered account changes when an administrator's edit of it is
\* saved, or its password is set, and not when a stale instance is saved.
LEMMA RowStep ==
  ASSUME TypeInv, FreshInv, NEW r \in Request, Start(r) \/ Serve(r) \/ Abort(r),
         NEW u \in Account, user[u] # NoRow
  PROVE  \/ user'[u] = user[u]
         \/ /\ req[r].pc = "save" /\ u = req[r].target /\ req'[r].pc \in {"refresh", "done"}
            /\ user'[u] = Edited(user[u], req[r].body)
         \/ /\ SetPassword(r) /\ u = req[r].target
            /\ user'[u] = [user[u] EXCEPT !.hash = NextHash]
<1> DEFINE q == req[r]
<1>1. /\ q \in Session /\ FreshSession(q, user) /\ user \in [Account -> Row \cup {NoRow}]
      /\ q.pc \in Active => q.target \in Account
  BY DEF TypeInv, TypeOK, FreshInv, Session
<1>2. CASE InsertUser(r)
  <2> DEFINE w == NewRow(q.body, IF q.caller = NoAccount THEN DefaultOrg ELSE q.me.org, NextHash)
  <2>1. (user[q.target] = NoRow /\ user' = [user EXCEPT ![q.target] = w]) \/ UNCHANGED user
    BY <1>2, InsertEffect
  <2> HIDE DEF w
  <2> QED
    BY <1>1, <2>1
<1>3. CASE SaveInstance(r)
  <2>1. /\ q.pc = "save" /\ user' = [user EXCEPT ![q.target] = Edited(q.copy, q.body)]
        /\ req'[r] = Answered(q, "ok") \/ req'[r].pc = "refresh"
    BY <1>3, SaveEffect
  <2>2. q.copy = user[q.target]
    BY <1>1, <2>1 DEF FreshSession
  <2>3. req'[r].pc \in {"refresh", "done"}
    BY <2>1, AnsweredFields
  <2> HIDE DEF Edited
  <2> QED
    BY <1>1, <2>1, <2>2, <2>3
<1>4. CASE SaveProfile(r)
  <2>1. q.pc = "saveMe" /\ user' = [user EXCEPT ![q.caller] = q.me]
    BY <1>4, ProfileEffect
  <2> QED
    BY <1>1, <2>1 DEF FreshSession
<1>5. CASE SetPassword(r)
  BY <1>1, <1>5, PasswordEffect
<1>6. CASE Start(r) \/ Abort(r)
  BY <1>6, StartEffect, AbortEffect DEF db
<1>7. CASE AuditCreate(r) \/ GetTarget(r) \/ CountAdmins(r) \/ LoadInstance(r)
           \/ RefreshTarget(r) \/ AuditUpdate(r) \/ NotifyRole(r) \/ NotifyActive(r)
           \/ AuditLogin(r)
  BY <1>7 DEF AuditCreate, GetTarget, CountAdmins, LoadInstance, RefreshTarget, AuditUpdate,
              NotifyRole, NotifyActive, AuditLogin, db
<1> QED
  BY <1>2, <1>3, <1>4, <1>5, <1>6, <1>7 DEF Serve

\* Served one request at a time, nobody's role, activation or department
\* changes but by an administrator's edit: profile edits, password changes and
\* resets leave them alone.  With two at a time a profile edit can undo an
\* administrator's, because it saves the whole row the request began with.
THEOREM StandingIsForAdmins ==
  ASSUME Workers = 1
  PROVE  Spec => OnlyAdminsChangeStanding
<1> DEFINE Kept ==
      \A u \in Account :
        user[u] # NoRow /\ StandingOf(user'[u]) # StandingOf(user[u])
          => \E r \in Request : req[r].pc = "save" /\ req'[r].pc # "save"
<1>1. ASSUME TypeInv, FreshInv, Next, NEW u \in Account, user[u] # NoRow,
             StandingOf(user'[u]) # StandingOf(user[u])
      PROVE  \E r \in Request : req[r].pc = "save" /\ req'[r].pc # "save"
  <2>1. PICK r \in Request : Start(r) \/ Serve(r) \/ Abort(r)
    BY <1>1 DEF Next
  <2>2. user[u] \in Row /\ NoRow \notin Row
    BY <1>1, AccountsAssumption DEF TypeInv, TypeOK
  <2> DEFINE w == [user[u] EXCEPT !.hash = NextHash]
  <2>3. /\ w \in Row /\ w.role = user[u].role /\ w.active = user[u].active
        /\ w.dept = user[u].dept
    BY <1>1, <2>2, NextHashIsNat DEF Row, TypeInv
  <2> HIDE DEF w
  <2>4. StandingOf(w) = StandingOf(user[u])
    BY <2>2, <2>3 DEF StandingOf
  <2>5. user'[u] # user[u] /\ user'[u] # w
    BY <1>1, <2>4
  <2>6. req[r].pc = "save" /\ req'[r].pc \in {"refresh", "done"}
    BY <1>1, <2>1, <2>5, RowStep DEF w
  <2> QED
    BY <2>6
<1>2. TypeInv /\ FreshInv /\ [Next]_vars => [Kept]_vars
  BY <1>1
<1> QED
  BY <1>2, TypeInvHolds, FreshInvHolds, PTL DEF Spec, OnlyAdminsChangeStanding

-----------------------------------------------------------------------------
(* Reset links. *)

\* A link that was accepted was mailed; its password is still the stored one
\* while it waits to be set, and a later one is stored once it was.
LinkSession(q, table, sent) ==
  q.link # NoLink =>
    /\ q.link \in sent
    /\ q.pc = "done" \/ /\ q.pc = "setPassword" /\ q.target = q.link.account
                        /\ q.link.hash = table[q.target].hash
    /\ q.answer = "ok" => table[q.link.account].hash > q.link.hash

LinkInv ==
  /\ \A u \in Account : user[u] # NoRow => user[u].hash <= Len(given)
  /\ \A k \in mail : user[k.account] # NoRow /\ k.hash <= user[k.account].hash
  /\ \A r \in Request : LinkSession(req[r], user, mail)
  /\ LinkUsedOnce

\* Hashes are numbered in the order they are made, and none comes back.
HashesGrow ==
  \A u \in Account : user[u] # NoRow =>
    user'[u] # NoRow /\ user'[u].hash >= user[u].hash

LEMMA EditedKeepsHash ==
  ASSUME NEW w \in Row, NEW b
  PROVE  Edited(w, b).hash = w.hash
BY DEF Edited, Row

LEMMA HashStep ==
  ASSUME TypeInv, FreshInv, LinkInv, NEW r \in Request, Start(r) \/ Serve(r) \/ Abort(r)
  PROVE  /\ HashesGrow
         /\ \A u \in Account : user'[u] # NoRow => user'[u].hash <= Len(given')
<1> DEFINE q == req[r]
<1>1. /\ user \in [Account -> Row \cup {NoRow}] /\ NoRow \notin Row /\ Len(given) \in Nat
      /\ q \in Session
  BY AccountsAssumption DEF TypeInv, TypeOK
<1>2. UNCHANGED given \/ Len(given') = NextHash
  <2>1. UNCHANGED given \/ \E t \in Account : given' = Append(given, t)
    <3>1. CASE InsertUser(r) \/ SetPassword(r)
      <4>1. q.target \in Account
        BY <3>1 DEF TypeInv, TypeOK, Session, InsertUser, SetPassword, Active
      <4> QED
        BY <3>1, <4>1 DEF InsertUser, SetPassword
    <3>2. CASE Start(r) \/ Abort(r)
      BY <3>2, StartEffect, AbortEffect DEF db
    <3> QED
      BY <3>1, <3>2 DEF Serve, AuditCreate, GetTarget, CountAdmins, LoadInstance, SaveInstance,
         RefreshTarget, AuditUpdate, NotifyRole, NotifyActive, SaveProfile, AuditLogin, db
  <2> QED
    BY <2>1 DEF NextHash, TypeInv, TypeOK
<1>3. ASSUME NEW u \in Account, user[u] # NoRow
      PROVE  /\ user'[u] \in Row /\ user'[u].hash >= user[u].hash
             /\ user'[u].hash <= Len(given')
  <2>1. user[u] \in Row /\ user[u].hash \in Nat /\ user[u].hash <= Len(given)
    BY <1>1, <1>3 DEF LinkInv, Row
  <2>2. CASE user'[u] = user[u]
    BY <1>1, <1>2, <2>1, <2>2 DEF NextHash
  <2>3. CASE req[r].pc = "save" /\ user'[u] = Edited(user[u], req[r].body)
    <3>1. user'[u] \in Row /\ user'[u].hash = user[u].hash
      BY <1>1, <2>1, <2>3, EditedIsRow, EditedKeepsHash DEF Session
    <3> QED
      BY <1>1, <1>2, <2>1, <3>1 DEF NextHash
  <2>4. CASE SetPassword(r) /\ user'[u] = [user[u] EXCEPT !.hash = NextHash]
    <3>1. user'[u] \in Row /\ user'[u].hash = NextHash
      BY <2>1, <2>4, NextHashIsNat DEF Row, TypeInv
    <3>2. Len(given') = NextHash
      <4>1. given' = Append(given, q.target) /\ q.target \in Account
        BY <2>4, PasswordEffect
      <4> QED
        BY <4>1 DEF NextHash, TypeInv, TypeOK
    <3> QED
      BY <1>1, <2>1, <3>1, <3>2 DEF NextHash
  <2> QED
    BY <1>3, <2>2, <2>3, <2>4, RowStep
<1>4. ASSUME NEW u \in Account, user[u] = NoRow, user'[u] # NoRow
      PROVE  user'[u].hash <= Len(given')
  <2>1. InsertUser(r)
    <3>1. CASE SaveInstance(r) \/ SaveProfile(r) \/ SetPassword(r)
      <4>1. PICK t \in Account : user[t] # NoRow /\ \A v \in Account : v # t => user'[v] = user[v]
        <5>1. CASE SaveInstance(r)
          <6>1. /\ q.pc = "save" /\ user' = [user EXCEPT ![q.target] = Edited(q.copy, q.body)]
                /\ q.target \in Account /\ user[q.target] # NoRow
            BY <5>1, SaveEffect DEF TypeInv, TypeOK, Registered, Active, Session
          <6> HIDE DEF Edited
          <6> QED
            BY <1>1, <6>1
        <5>2. CASE SaveProfile(r)
          <6>1. /\ q.pc = "saveMe" /\ user' = [user EXCEPT ![q.caller] = q.me]
                /\ q.caller \in Account /\ q.me \in Row
            BY <5>2, ProfileEffect
          <6>2. user[q.caller] = q.me
            BY <6>1 DEF FreshInv, FreshSession
          <6> QED
            BY <1>1, <6>1, <6>2
        <5>3. CASE SetPassword(r)
          BY <1>1, <5>3, PasswordEffect
        <5> QED
          BY <3>1, <5>1, <5>2, <5>3
      <4> QED
        BY <1>4, <4>1
    <3>2. UNCHANGED user \/ InsertUser(r) \/ SaveInstance(r) \/ SaveProfile(r) \/ SetPassword(r)
      <4>1. CASE Start(r) \/ Abort(r)
        BY <4>1, StartEffect, AbortEffect DEF db
      <4> QED
        BY <4>1 DEF Serve, AuditCreate, GetTarget, CountAdmins, LoadInstance, RefreshTarget,
           AuditUpdate, NotifyRole, NotifyActive, AuditLogin, db
    <3> QED
      BY <1>4, <3>1, <3>2
  <2> DEFINE w == NewRow(q.body, IF q.caller = NoAccount THEN DefaultOrg ELSE q.me.org, NextHash)
  <2>2. /\ user[q.target] = NoRow /\ user' = [user EXCEPT ![q.target] = w]
        /\ given' = Append(given, q.target) /\ q.target \in Account
    BY <1>4, <2>1, InsertEffect DEF TypeInv, TypeOK, Active, Session
  <2>3. w.hash = NextHash /\ Len(given') = NextHash
    BY <2>2 DEF NewRow, NextHash, TypeInv, TypeOK
  <2> HIDE DEF w
  <2>4. user'[u] = w
    BY <1>1, <1>4, <2>2
  <2> QED
    BY <2>3, <2>4, NextHashIsNat DEF TypeInv
<1> QED
  BY <1>1, <1>3, <1>4 DEF HashesGrow


\* Only a request that sets the password through a link answers "ok" with it.
LEMMA LinkServes ==
  ASSUME TypeInv, AnsweredLast, FreshInv, LinkInv, Workers = 1,
         NEW r \in Request, Start(r) \/ Serve(r) \/ Abort(r)
  PROVE  /\ LinkSession(req'[r], user', mail')
         /\ req'[r].link # NoLink /\ req'[r].answer = "ok" =>
              req'[r].link.hash = user[req'[r].link.account].hash
<1> DEFINE q == req[r]
           n == req'[r]
<1>1. /\ q \in Session /\ LinkSession(q, user, mail) /\ mail \subseteq LinkRow
      /\ q.pc # "done" => q.answer = "none"
  BY DEF TypeInv, TypeOK, LinkInv, AnsweredLast
<1>2. CASE Start(r)
  <2>1. UNCHANGED user /\ mail \subseteq mail'
    BY <1>2, StartEffect
  <2>2. ASSUME NEW k \in mail, Presented(r, k)
        PROVE  /\ n.link = k /\ n.pc = "setPassword" /\ n.target = k.account
               /\ n.answer = "none" /\ k.hash = user[k.account].hash
    BY <2>2 DEF Presented, Begin, Idle, check_token
  <2>3. \/ n.link = NoLink
        \/ \E k \in mail : /\ n.link = k /\ n.pc = "setPassword" /\ n.target = k.account
                           /\ n.answer = "none" /\ k.hash = user[k.account].hash
    <3>1. ASSUME NEW pc \in Active, NEW c \in Account \cup {NoAccount}, NEW t \in Account,
                 NEW b \in Body \cup {NoBody}, Begun(r, pc, c, t, b)
          PROVE  n.link = NoLink
      BY <3>1, BeginFields DEF Begun
    <3>2. ASSUME NEW a \in Answer, n = Answered(Idle, a)
          PROVE  n.link = NoLink
      BY <3>2, AnsweredFields, IdleIsSession
    <3> QED
      BY <1>2, <2>2, <3>1, <3>2, StartEffect
  <2> HIDE DEF n
  <2>4. LinkSession(n, user', mail') /\ ~(n.link # NoLink /\ n.answer = "ok")
    BY <2>1, <2>3 DEF LinkSession
  <2> QED
    BY <2>4 DEF n
<1>3. CASE SetPassword(r)
  <2> DEFINE t == q.target
  <2>1. /\ q.pc = "setPassword" /\ UNCHANGED mail /\ t \in Account /\ user[t] \in Row
        /\ user' = [user EXCEPT ![t] = [@ EXCEPT !.hash = NextHash]]
        /\ n = Answered(q, "ok")
    BY <1>3, PasswordEffect
  <2>2. n.link = q.link /\ n.pc = "done"
    BY <2>1, AnsweredFields
  <2>3. CASE q.link = NoLink
    BY <2>2, <2>3 DEF LinkSession
  <2>4. CASE q.link # NoLink
    <3>1. q.link \in mail /\ q.link.account = t /\ q.link.hash = user[t].hash
      BY <1>1, <2>1, <2>4 DEF LinkSession
    <3>2. user[t].hash \in Nat /\ user[t].hash <= Len(given) /\ Len(given) \in Nat
      BY <2>1, AccountsAssumption DEF LinkInv, TypeInv, TypeOK, Row
    <3>3. user'[t].hash = NextHash
      BY <2>1 DEF Row, TypeInv, TypeOK
    <3>4. user'[t].hash > user[t].hash
      BY <3>2, <3>3 DEF NextHash
    <3> HIDE DEF n
    <3> QED
      BY <2>1, <2>2, <3>1, <3>4 DEF LinkSession, n
  <2> QED
    BY <2>3, <2>4
<1>4. CASE Abort(r)
  <2>1. n.link = q.link /\ n.pc = "done" /\ n.answer = "500" /\ UNCHANGED <<user, mail>>
    BY <1>4, AbortEffect, AnsweredFields DEF db
  <2> HIDE DEF n
  <2>2. LinkSession(n, user', mail') /\ n.answer # "ok"
    BY <1>1, <2>1 DEF LinkSession
  <2> QED
    BY <2>2 DEF n
<1>5. CASE Serve(r) /\ ~SetPassword(r)
  <2>1. q.pc \in Active \ {"setPassword"}
    BY <1>5 DEF Active, Serve, InsertUser, AuditCreate, GetTarget, CountAdmins, LoadInstance,
       SaveInstance, RefreshTarget, AuditUpdate, NotifyRole, NotifyActive, SaveProfile,
       AuditLogin
  <2>2. q.link = NoLink
    BY <1>1, <2>1 DEF LinkSession, Active
  <2>3. \A a : Answered(q, a).link = q.link
    BY AnsweredFields
  <2>4. n.link = q.link
    <3>1. CASE InsertUser(r) \/ GetTarget(r) \/ CountAdmins(r) \/ LoadInstance(r)
      BY <2>3, <3>1, InsertEffect, GetTargetEffect, CountAdminsEffect, LoadEffect DEF Holds
    <3>2. CASE SaveInstance(r) \/ RefreshTarget(r) \/ AuditUpdate(r)
      BY <2>3, <3>2, SaveEffect, RefreshEffect, AuditUpdateEffect DEF Holds
    <3>3. CASE NotifyRole(r) \/ NotifyActive(r)
      BY <2>3, <3>3, NotifyEffect DEF Holds
    <3>4. CASE AuditCreate(r) \/ SaveProfile(r) \/ AuditLogin(r)
      BY <2>3, <3>4, AuditCreateEffect, ProfileEffect, AuditLoginEffect
    <3> QED
      BY <1>5, <3>1, <3>2, <3>3, <3>4 DEF Serve
  <2> QED
    BY <2>2, <2>4 DEF LinkSession
<1> QED
  BY <1>2, <1>3, <1>4, <1>5

LEMMA NextLink ==
  ASSUME TypeInv, AnsweredLast, FreshInv, LinkInv, Workers = 1, [Next]_vars
  PROVE  LinkInv'
<1>1. CASE UNCHANGED vars
  BY <1>1 DEF vars, LinkInv, LinkUsedOnce
<1>2. ASSUME NEW r \in Request, Start(r) \/ Serve(r) \/ Abort(r)
      PROVE  LinkInv'
  <2>1. /\ HashesGrow /\ \A u \in Account : user'[u] # NoRow => user'[u].hash <= Len(given')
    BY <1>2, HashStep
  <2>2. \A k \in mail : k \in LinkRow /\ k.account \in Account /\ k.hash \in Nat
    BY DEF TypeInv, TypeOK, LinkRow
  <2>3. /\ mail \subseteq mail' /\ mail' \subseteq LinkRow
        /\ \A k \in mail' \ mail : /\ user[k.account] # NoRow
                                   /\ k.hash = user[k.account].hash
    <3>1. CASE Start(r)
      BY <3>1, StartEffect, StartTypes DEF TypeInv, TypeOK
    <3>2. CASE Serve(r) \/ Abort(r)
      <4>1. UNCHANGED mail
        BY <3>2 DEF Serve, Abort, db, InsertUser, AuditCreate, GetTarget, CountAdmins,
           LoadInstance, SaveInstance, RefreshTarget, AuditUpdate, NotifyRole, NotifyActive,
           SaveProfile, SetPassword, AuditLogin
      <4> QED
        BY <4>1 DEF TypeInv, TypeOK
    <3> QED
      BY <1>2, <3>1, <3>2
  <2>4. \A u \in Account : user[u] # NoRow => user[u].hash \in Nat /\ user'[u].hash >= user[u].hash
    BY <2>1, AccountsAssumption DEF HashesGrow, TypeInv, TypeOK, Row
  <2>5. \A u \in Account : user'[u] # NoRow => user'[u].hash \in Nat
    <3>1. TypeInv'
      BY <1>2, StartTypes, ServeTypes, AbortTypes
    <3> QED
      BY <3>1, AccountsAssumption DEF TypeInv, TypeOK, Row
  <2>6. ASSUME NEW k \in mail'
        PROVE  user'[k.account] # NoRow /\ k.hash <= user'[k.account].hash
    <3>1. k.account \in Account /\ k.hash \in Nat
      BY <2>3, <2>6 DEF LinkRow
    <3>2. user[k.account] # NoRow /\ k.hash <= user[k.account].hash
      BY <2>3, <2>4, <2>6, <3>1 DEF LinkInv
    <3>3. user'[k.account] # NoRow /\ user'[k.account].hash \in Nat
      BY <2>1, <2>5, <3>1, <3>2 DEF HashesGrow
    <3> QED
      BY <2>4, <3>1, <3>2, <3>3
  <2>7. ASSUME NEW s \in Request, s # r
        PROVE  LinkSession(req'[s], user', mail')
    <3> DEFINE q == req[s]
    <3>1. req'[s] = q /\ q.pc \notin Active /\ LinkSession(q, user, mail)
      BY <1>2, <2>7, OthersRest DEF FreshInv, LinkInv
    <3> HIDE DEF q
    <3>2. SUFFICES ASSUME q.link # NoLink PROVE LinkSession(q, user', mail')
      BY <3>1 DEF LinkSession
    <3>3. q.link \in mail /\ q.pc = "done"
      BY <3>1, <3>2 DEF LinkSession, Active
    <3>4. q.answer = "ok" => user'[q.link.account].hash > q.link.hash
      <4>1. q.link.account \in Account /\ q.link.hash \in Nat /\ user[q.link.account] # NoRow
        BY <2>2, <3>3 DEF LinkInv
      <4>2. user'[q.link.account] # NoRow /\ user'[q.link.account].hash \in Nat
        BY <2>1, <2>5, <4>1 DEF HashesGrow
      <4> QED
        BY <2>4, <3>1, <3>2, <4>1, <4>2 DEF LinkSession
    <3> QED
      BY <2>3, <3>3, <3>4 DEF LinkSession
  <2>8. LinkSession(req'[r], user', mail')
    BY <1>2, LinkServes
  <2>9. ASSUME NEW s \in Request, s # r, req'[r].answer = "ok", req'[s].answer = "ok",
               req'[r].link # NoLink, req'[s].link = req'[r].link
        PROVE  FALSE
    <3>1. req'[r].link.hash = user[req'[r].link.account].hash
      BY <1>2, <2>9, LinkServes
    <3>2. req'[s] = req[s] /\ LinkSession(req[s], user, mail)
      BY <1>2, <2>9, OthersRest DEF FreshInv, LinkInv
    <3>3. req[s].link \in mail /\ user[req[s].link.account].hash > req[s].link.hash
      BY <2>9, <3>2 DEF LinkSession
    <3>4. req[s].link.hash \in Nat /\ user[req[s].link.account].hash = req[s].link.hash
      BY <2>2, <2>9, <3>1, <3>2, <3>3
    <3> QED
      BY <3>3, <3>4
  <2>10. LinkUsedOnce'
    <3>1. \A s \in Request : s # r => req'[s] = req[s]
      BY <1>2, OwnSession
    <3>2. LinkUsedOnce
      BY DEF LinkInv
    <3> QED
      BY <2>9, <3>1, <3>2 DEF LinkUsedOnce
  <2> QED
    BY <2>1, <2>6, <2>7, <2>8, <2>10 DEF LinkInv
<1> QED
  BY <1>1, <1>2 DEF Next

\* Served one request at a time, a reset link sets a password at most once: it
\* is good for the hash it was signed with, hashes only grow, and one that was
\* used lies below the stored one.  Two requests that both checked the link
\* before either saved are the way around it.
THEOREM LinksAreUsedOnce ==
  ASSUME Workers = 1
  PROVE  Spec => []LinkUsedOnce
<1>1. Init => LinkInv
  <2> SUFFICES ASSUME Init PROVE LinkInv
    OBVIOUS
  <2>1. \A r \in Request : req[r].link = NoLink
    BY IdleIsSession DEF Init
  <2>2. \A u \in Account : user[u] # NoRow => user[u].hash <= Len(given)
    BY AccountsAssumption DEF Init
  <2> QED
    BY <2>1, <2>2 DEF Init, LinkInv, LinkSession, LinkUsedOnce
<1>2. TypeInv /\ AnsweredLast /\ FreshInv /\ LinkInv /\ [Next]_vars => LinkInv'
  BY NextLink
<1>3. LinkInv => LinkUsedOnce
  BY DEF LinkInv
<1> QED
  BY <1>1, <1>2, <1>3, TypeInvHolds, AnsweredLastHolds, FreshInvHolds, PTL DEF Spec


-----------------------------------------------------------------------------
(* What the audit log says. *)

Field == {"role", "active"}

\* The accounts there were at first are still there, and of the entries that
\* tell a field of an account one is the last.
Latest(S) == \E i \in S : \A j \in S : j <= i

LogInv ==
  /\ \A u \in Account : InitialUser[u] # NoRow => user[u] # NoRow
  /\ \A u \in Account, field \in Field :
       Told(u, field) = {} \/ Latest(Told(u, field))

LEMMA ToldIsIndex ==
  ASSUME TypeInv, NEW u, NEW field
  PROVE  /\ Told(u, field) \subseteq DOMAIN audit
         /\ \A i \in Told(u, field) : i \in Nat /\ i <= Len(audit)
BY DEF Told, TypeInv, TypeOK

\* An entry about somebody else, or silent about the field, is not the last word;
\* one that tells it is.
LEMMA AppendTold ==
  ASSUME TypeInv, NEW e \in AuditRow, audit' = Append(audit, e), NEW u, NEW field \in Field
  PROVE  Told(u, field)' = IF e.target = u /\ e[field] # Unset
                           THEN Told(u, field) \cup {Len(audit) + 1} ELSE Told(u, field)
<1>1. DOMAIN audit' = DOMAIN audit \cup {Len(audit) + 1}
  BY Appended
<1>2. \A i \in DOMAIN audit : audit'[i] = audit[i] /\ i # Len(audit) + 1
  BY Appended
<1>3. audit'[Len(audit) + 1] = e
  BY Appended
<1> QED
  BY <1>1, <1>2, <1>3 DEF Told

LEMMA AppendLast ==
  ASSUME TypeInv, LogInv, NEW e \in AuditRow, audit' = Append(audit, e),
         NEW u \in Account, NEW field \in Field
  PROVE  /\ Told(u, field)' = {} \/ Latest(Told(u, field)')
         /\ e.target = u /\ e[field] # Unset =>
              Told(u, field)' # {} /\ LastTold(u, field)' = e[field]
         /\ ~(e.target = u /\ e[field] # Unset) =>
              /\ Told(u, field)' = Told(u, field)
              /\ Told(u, field) # {} => LastTold(u, field)' = LastTold(u, field)
<1> DEFINE T == Told(u, field)
           n == Len(audit) + 1
<1>1. \A i \in T : i \in DOMAIN audit /\ i \in Nat /\ i < n
  BY ToldIsIndex DEF TypeInv, TypeOK
<1>2. n \in Nat /\ audit'[n] = e /\ \A i \in DOMAIN audit : audit'[i] = audit[i]
  BY Appended
<1>3. CASE e.target = u /\ e[field] # Unset
  <2>1. T' = T \cup {n}
    BY <1>3, AppendTold
  <2>2. n \in T' /\ \A j \in T' : j <= n
    BY <1>1, <1>2, <2>1
  <2>3. \A i \in T' : (\A j \in T' : j <= i) => i = n
    BY <1>1, <1>2, <2>1
  <2> HIDE DEF T
  <2>4. (CHOOSE i \in T' : \A j \in T' : j <= i) = n
    BY <2>2, <2>3
  <2>5. LastTold(u, field)' = e[field]
    BY <1>2, <2>4 DEF LastTold, T
  <2>6. Latest(T')
    BY <2>2 DEF Latest
  <2> QED
    BY <1>3, <2>2, <2>5, <2>6 DEF T
<1>4. CASE ~(e.target = u /\ e[field] # Unset)
  <2>1. T' = T
    BY <1>4, AppendTold
  <2>2. T # {} => LastTold(u, field)' = LastTold(u, field)
    <3> SUFFICES ASSUME T # {} PROVE LastTold(u, field)' = LastTold(u, field)
      OBVIOUS
    <3> DEFINE c == CHOOSE i \in T : \A j \in T : j <= i
    <3>1. \E i \in T : \A j \in T : j <= i
      BY DEF LogInv, Latest, Field
    <3> HIDE DEF T
    <3>2. c \in T
      BY <3>1
    <3> HIDE DEF c
    <3>3. audit'[c] = audit[c]
      BY <1>1, <1>2, <3>2
    <3>4. LastTold(u, field) = audit[c][field]
      BY DEF LastTold, T, c
    <3>5. LastTold(u, field)' = audit'[c][field]
      BY <2>1 DEF LastTold, T, c
    <3> QED
      BY <3>3, <3>4, <3>5
  <2> QED
    BY <1>4, <2>1, <2>2 DEF LogInv, Field
<1> QED
  BY <1>3, <1>4


LEMMA StaysRegistered ==
  ASSUME TypeInv, FreshInv, NEW r \in Request, Start(r) \/ Serve(r) \/ Abort(r),
         NEW u \in Account, user[u] # NoRow
  PROVE  user'[u] # NoRow
<1>1. user[u] \in Row /\ NoRow \notin Row /\ req[r].body \in BodyType
  BY AccountsAssumption DEF TypeInv, TypeOK, Session
<1>2. Edited(user[u], req[r].body) \in Row
  BY <1>1, EditedIsRow
<1>3. [user[u] EXCEPT !.hash = NextHash] \in Row
  BY <1>1, NextHashIsNat DEF Row, TypeInv
<1> QED
  BY <1>1, <1>2, <1>3, RowStep

\* What the audit log lets its reader conclude.
KnownRole(u) ==
  IF Told(u, "role") # {} THEN LastTold(u, "role") ELSE InitialUser[u].role

KnownActive(u) ==
  IF Told(u, "active") # {} THEN LastTold(u, "active")
  ELSE InitialUser[u] = NoRow \/ InitialUser[u].active

AsKnown(u) == user[u].role = KnownRole(u) /\ user[u].active = KnownActive(u)

\* The account has been changed and the audit log does not say so yet.
Pending(q, u) == q.target = u /\ q.pc \in {"auditCreate", "refresh", "auditUpdate"}

\* What the handler knows meanwhile: the new account was not heard of, or the
\* values it compares with are those the audit log told last.
Secret(q) ==
  /\ q.pc = "auditCreate" =>
       /\ user[q.target].active /\ InitialUser[q.target] = NoRow
       /\ Told(q.target, "role") = {} /\ Told(q.target, "active") = {}
  /\ q.pc \in {"refresh", "auditUpdate"} =>
       KnownRole(q.target) = q.seen.role /\ KnownActive(q.target) = q.seen.active

TruthInv ==
  /\ LogInv
  /\ \A u \in Account : (\E r \in Request : Pending(req[r], u)) \/ user[u] = NoRow \/ AsKnown(u)
  /\ \A r \in InFlight : req[r].body.method # "PUT" /\ Secret(req[r])

\* The conditions of the theorem: requests are served one at a time and finish,
\* and accounts are changed with the method that the view audits.
Audited ==
  /\ Workers = 1
  /\ ~Faults
  /\ \A b \in Body : b.method # "PUT"

\* What a step of the only request in flight must show.
LEMMA TruthStep ==
  ASSUME TypeInv, FreshInv, TruthInv, Workers = 1,
         NEW r \in Request, Start(r) \/ Serve(r) \/ Abort(r),
         LogInv',
         \A u \in Account : Pending(req'[r], u) \/ user'[u] = NoRow \/ AsKnown(u)',
         req'[r].pc \in Active => req'[r].body.method # "PUT" /\ Secret(req[r])'
  PROVE  TruthInv'
<1>1. \A s \in Request : s # r => req'[s].pc \notin Active
  BY OthersRest DEF FreshInv
<1>2. \A s \in InFlight' : s = r
  BY <1>1 DEF InFlight
<1>3. \A s \in InFlight' : req'[s].body.method # "PUT" /\ Secret(req[s])'
  BY <1>2 DEF InFlight
<1>4. \A u \in Account : \/ \E s \in Request : Pending(req'[s], u)
                         \/ user'[u] = NoRow \/ AsKnown(u)'
  OBVIOUS
<1> QED
  BY <1>3, <1>4 DEF TruthInv, Pending

LEMMA LogKept ==
  ASSUME TypeInv, FreshInv, TruthInv, NEW r \in Request, Start(r) \/ Serve(r) \/ Abort(r),
         UNCHANGED audit \/ \E e \in AuditRow : audit' = Append(audit, e)
  PROVE  LogInv'
<1>1. \A u \in Account : InitialUser[u] # NoRow => user'[u] # NoRow
  BY StaysRegistered DEF TruthInv, LogInv
<1>2. ASSUME NEW u \in Account, NEW field \in Field
      PROVE  (Told(u, field) = {} \/ Latest(Told(u, field)))'
  <2>1. CASE UNCHANGED audit
    <3>1. Told(u, field)' = Told(u, field)
      BY <2>1 DEF Told
    <3> QED
      BY <3>1 DEF TruthInv, LogInv
  <2>2. ASSUME NEW e \in AuditRow, audit' = Append(audit, e)
        PROVE  (Told(u, field) = {} \/ Latest(Told(u, field)))'
    BY <2>2, AppendLast DEF TruthInv
  <2> QED
    BY <2>1, <2>2
<1> QED
  BY <1>1, <1>2 DEF LogInv

\* Nobody else's request is in flight, so nobody else's changes are pending.
LEMMA Known ==
  ASSUME TypeInv, FreshInv, TruthInv, Workers = 1,
         NEW r \in Request, Start(r) \/ Serve(r) \/ Abort(r), NEW u \in Account,
         ~Pending(req[r], u), user[u] # NoRow
  PROVE  AsKnown(u)
<1>1. \A s \in Request : s # r => req[s].pc \notin Active
  BY OthersRest DEF FreshInv
<1>2. \A s \in Request : ~Pending(req[s], u)
  BY <1>1 DEF Pending, Active
<1> QED
  BY <1>2 DEF TruthInv

LEMMA KnownKept ==
  ASSUME UNCHANGED audit, NEW u
  PROVE  /\ KnownRole(u)' = KnownRole(u) /\ KnownActive(u)' = KnownActive(u)
         /\ \A field \in Field : Told(u, field)' = Told(u, field)
BY DEF KnownRole, KnownActive, Told, LastTold

LEMMA KnownAppended ==
  ASSUME TypeInv, LogInv, NEW e \in AuditRow, audit' = Append(audit, e), NEW u \in Account
  PROVE  /\ KnownRole(u)' = IF e.target = u /\ e.role # Unset THEN e.role ELSE KnownRole(u)
         /\ KnownActive(u)' = IF e.target = u /\ e.active # Unset THEN e.active
                              ELSE KnownActive(u)
<1>1. "role" \in Field /\ "active" \in Field
  BY DEF Field
<1>2. KnownRole(u)' = IF e.target = u /\ e["role"] # Unset THEN e["role"] ELSE KnownRole(u)
  BY <1>1, AppendLast DEF KnownRole
<1>3. KnownActive(u)' = IF e.target = u /\ e["active"] # Unset THEN e["active"]
                        ELSE KnownActive(u)
  BY <1>1, AppendLast DEF KnownActive
<1> QED
  BY <1>2, <1>3


\* The statements that touch neither the audit log nor anybody's standing.
LEMMA QuietTruth ==
  ASSUME TypeInv, FreshInv, TruthInv, Workers = 1,
         NEW r \in Request, Start(r) \/ Serve(r) \/ Abort(r),
         UNCHANGED audit,
         \A u \in Account : user[u] # NoRow =>
           user'[u].role = user[u].role /\ user'[u].active = user[u].active,
         \A u \in Account : user[u] = NoRow => user'[u] = NoRow,
         \A u \in Account : ~Pending(req[r], u),
         req'[r].pc \notin {"auditCreate", "refresh", "auditUpdate"},
         req'[r].pc \in Active => req'[r].body.method # "PUT"
  PROVE  TruthInv'
<1>1. ASSUME NEW u \in Account, user'[u] # NoRow
      PROVE  AsKnown(u)'
  <2>1. user[u] # NoRow /\ AsKnown(u)
    BY <1>1, Known
  <2> QED
    BY <2>1, KnownKept DEF AsKnown
<1>2. LogInv'
  BY LogKept
<1>3. Secret(req[r])'
  BY DEF Secret
<1> QED
  BY <1>1, <1>2, <1>3, TruthStep

LEMMA StartTruth ==
  ASSUME TypeInv, FreshInv, TruthInv, Audited, NEW r \in Request, Start(r)
  PROVE  TruthInv'
<1> DEFINE n == req'[r]
<1>1. req[r].pc = "idle" /\ UNCHANGED <<user, audit>>
  BY StartEffect
<1>2. ASSUME NEW pc \in Active, NEW c \in Account \cup {NoAccount}, NEW t \in Account,
             NEW b \in Body \cup {NoBody}, Begun(r, pc, c, t, b)
      PROVE  n.body.method # "PUT" /\ n.pc \notin {"auditCreate", "refresh", "auditUpdate"}
  <2>1. n.pc = pc /\ n.body = b
    BY <1>2, BeginFields DEF Begun
  <2>2. NoBody.method = "PATCH"
    BY DEF NoBody
  <2>3. b.method # "PUT"
    BY <2>2 DEF Audited
  <2>4. pc \notin {"auditCreate", "refresh", "auditUpdate"}
    BY <1>2 DEF Begun
  <2> QED
    BY <2>1, <2>3, <2>4
<1>3. ASSUME NEW k \in mail, Presented(r, k)
      PROVE  n.body.method # "PUT" /\ n.pc \notin {"auditCreate", "refresh", "auditUpdate"}
  BY <1>3 DEF Presented, Begin, Idle, NoBody
<1>4. ASSUME NEW a \in Answer, n = Answered(Idle, a)
      PROVE  n.pc = "done"
  BY <1>4, AnsweredFields
<1>5. /\ n.pc \notin {"auditCreate", "refresh", "auditUpdate"}
      /\ n.pc \in Active => n.body.method # "PUT"
  BY <1>2, <1>3, <1>4, StartEffect DEF Active
<1> QED
  BY <1>1, <1>5, QuietTruth DEF Pending, Audited

LEMMA ServeTruth ==
  ASSUME TypeInv, OrgInv, FreshInv, TruthInv, Audited, NEW r \in Request, Serve(r),
         NEW t, t = req[r].target
  PROVE  TruthInv'
<1> DEFINE q == req[r]
           n == req'[r]
<1>1. /\ q \in Session /\ FreshSession(q, user) /\ q.pc \in Active /\ t \in Account
      /\ q.body.method # "PUT" /\ Secret(q)
      /\ q.pc # "insert" => user[t] \in Row /\ user[t] # NoRow
  <2>1. q \in Session /\ FreshSession(q, user) /\ q.pc \in Active
    BY ServesActive DEF TypeInv, TypeOK, FreshInv
  <2>2. r \in InFlight
    BY <2>1 DEF InFlight
  <2>3. t \in Account /\ (q.pc # "insert" => user[t] # NoRow)
    BY <2>1 DEF Session, TypeInv, Registered
  <2> QED
    BY <2>1, <2>2, <2>3 DEF TruthInv, TypeInv, TypeOK
<1>2. \A a : Answered(q, a).pc = "done" /\ "done" \notin Active
  BY AnsweredFields DEF Active
<1>3. user \in [Account -> Row \cup {NoRow}] /\ NoRow \notin Row /\ Workers = 1
  BY AccountsAssumption DEF TypeInv, TypeOK, Audited
\* The statements before the row is written, and after its change was told.
<1>4. CASE GetTarget(r) \/ CountAdmins(r) \/ LoadInstance(r) \/ NotifyRole(r) \/ NotifyActive(r)
  <2>1. /\ UNCHANGED <<user, audit>>
        /\ q.pc \in {"getTarget", "countAdmins", "load", "notifyRole", "notifyActive"}
        /\ \/ n.pc = "done"
           \/ /\ n.body = q.body
              /\ n.pc \in {"countAdmins", "load", "save", "notifyActive"}
    <3>1. CASE GetTarget(r)
      BY <1>2, <3>1, GetTargetEffect DEF Holds, db
    <3>2. CASE CountAdmins(r)
      BY <1>2, <3>2, CountAdminsEffect DEF Holds, db
    <3>3. CASE LoadInstance(r)
      BY <1>2, <3>3, LoadEffect DEF Holds, db
    <3>4. CASE NotifyRole(r) \/ NotifyActive(r)
      BY <1>2, <3>4, NotifyEffect DEF Holds
    <3> QED
      BY <1>4, <3>1, <3>2, <3>3, <3>4
  <2>2. \A u \in Account : ~Pending(q, u)
    BY <2>1 DEF Pending
  <2> HIDE DEF n, q
  <2> QED
    BY <1>1, <1>2, <1>3, <2>1, <2>2, QuietTruth DEF n, q
<1>5. CASE SaveProfile(r) \/ SetPassword(r)
  <2>1. /\ UNCHANGED audit /\ q.pc \in {"saveMe", "setPassword"} /\ n.pc = "done"
    BY <1>2, <1>5, ProfileEffect, PasswordEffect
  <2>2. \A u \in Account : ~Pending(q, u)
    BY <2>1 DEF Pending
  <2>3. ASSUME NEW u \in Account, user[u] # NoRow
        PROVE  user'[u].role = user[u].role /\ user'[u].active = user[u].active
    <3>1. user'[u] = user[u] \/ user'[u] = [user[u] EXCEPT !.hash = NextHash]
      BY <2>1, <2>3, RowStep
    <3>2. user[u] \in Row
      BY <1>3, <2>3
    <3> QED
      BY <3>1, <3>2 DEF Row
  <2>4. ASSUME NEW u \in Account, user[u] = NoRow
        PROVE  user'[u] = NoRow
    <3>1. CASE SaveProfile(r)
      <4>1. /\ user' = [user EXCEPT ![q.caller] = q.me] /\ q.caller \in Account
            /\ q.me \in Row /\ user[q.caller] = q.me
        BY <1>1, <3>1, ProfileEffect DEF FreshSession
      <4> QED
        BY <1>3, <2>4, <4>1
    <3>2. CASE SetPassword(r)
      BY <1>3, <2>4, <3>2, PasswordEffect
    <3> QED
      BY <1>5, <3>1, <3>2
  <2> QED
    BY <1>2, <1>3, <2>1, <2>2, <2>3, <2>4, QuietTruth
\* A new account: pending until its entry is recorded.
<1>6. CASE InsertUser(r)
  <2> DEFINE w == NewRow(q.body, OrgFor(q), NextHash)
  <2>1. /\ q.pc = "insert" /\ UNCHANGED audit
        /\ \/ /\ user[t] = NoRow /\ user' = [user EXCEPT ![t] = w]
              /\ n.target = t /\ n.body = q.body /\ n.pc = "auditCreate"
           \/ n.pc = "done" /\ UNCHANGED user
    BY <1>2, <1>6, InsertEffect DEF Holds, OrgFor
  <2>2. \A u \in Account : ~Pending(q, u)
    BY <2>1 DEF Pending
  <2>3. CASE n.pc = "done" /\ UNCHANGED user
    BY <1>2, <1>3, <2>1, <2>2, <2>3, QuietTruth
  <2>4. CASE /\ user[t] = NoRow /\ user' = [user EXCEPT ![t] = w]
             /\ n.target = t /\ n.body = q.body /\ n.pc = "auditCreate"
    <3>1. w.active
      BY DEF NewRow
    <3> HIDE DEF w
    <3>2. user'[t] = w /\ \A u \in Account : u # t => user'[u] = user[u]
      BY <1>1, <1>3, <2>4
    <3>3. InitialUser[t] = NoRow
      BY <1>1, <2>4 DEF TruthInv, LogInv
    <3>4. \A field : Told(t, field) = {}
      <4>1. \A i \in DOMAIN audit : audit[i].target # t
        BY <2>4 DEF OrgInv, OneOrg
      <4> QED
        BY <4>1 DEF Told
    <3>5. \A field : Told(t, field)' = {}
      BY <2>1, <3>4 DEF Told
    <3>6. Secret(req[r])'
      BY <2>4, <3>1, <3>2, <3>3, <3>5 DEF Secret
    <3>7. ASSUME NEW u \in Account, u # t, user'[u] # NoRow
          PROVE  AsKnown(u)'
      <4>1. user'[u] = user[u] /\ AsKnown(u)
        BY <1>3, <2>2, <3>2, <3>7, Known
      <4> QED
        BY <2>1, <4>1, KnownKept DEF AsKnown
    <3>8. LogInv'
      BY <2>1, LogKept
    <3>9. \A u \in Account : Pending(n, u) \/ user'[u] = NoRow \/ AsKnown(u)'
      BY <2>4, <3>7 DEF Pending
    <3> QED
      BY <1>1, <1>3, <2>4, <3>6, <3>8, <3>9, TruthStep
  <2> QED
    BY <2>1, <2>3, <2>4
\* Its entry tells the role it was given.
<1>7. CASE AuditCreate(r)
  <2> DEFINE e == AuditEntry(r, "CREATE", IF q.caller = NoAccount THEN t ELSE q.caller, t,
                             q.copy.role, Unset)
  <2>1. /\ q.pc = "auditCreate" /\ UNCHANGED user /\ audit' = Append(audit, e)
        /\ n.pc = "done"
    BY <1>2, <1>7, AuditCreateEffect
  <2>2. q.copy = user[t] /\ user[t] \in Row /\ user[t].role \in Role
    BY <1>1, <2>1 DEF FreshSession, Row
  <2>3. e \in AuditRow /\ e.target = t /\ e.role = user[t].role /\ e.active = Unset
    BY <1>1, <2>2 DEF AuditEntry, AuditRow, Session
  <2>4. e.role # Unset
    BY <2>2, <2>3, AccountsAssumption
  <2> HIDE DEF e
  <2>5. user[t].active /\ KnownActive(t)
    BY <1>1, <2>1 DEF Secret, KnownActive
  <2>6. KnownRole(t)' = user[t].role /\ KnownActive(t)' = KnownActive(t)
    BY <1>1, <2>1, <2>3, <2>4, KnownAppended DEF TruthInv
  <2>7. AsKnown(t)'
    <3>1. user[t].active = TRUE /\ KnownActive(t) = TRUE
      BY <2>2, <2>5 DEF Row, KnownActive, Secret
    <3> QED
      BY <2>1, <2>6, <3>1 DEF AsKnown
  <2>8. ASSUME NEW u \in Account, u # t, user[u] # NoRow
        PROVE  AsKnown(u)'
    <3>1. AsKnown(u)
      BY <1>3, <2>8, Known DEF Pending
    <3>2. KnownRole(u)' = KnownRole(u) /\ KnownActive(u)' = KnownActive(u)
      BY <2>1, <2>3, <2>8, KnownAppended DEF TruthInv
    <3> QED
      BY <2>1, <3>1, <3>2 DEF AsKnown
  <2>9. LogInv'
    BY <2>1, <2>3, LogKept
  <2>10. \A u \in Account : user'[u] = NoRow \/ AsKnown(u)'
    BY <2>1, <2>7, <2>8
  <2> QED
    BY <1>2, <1>3, <2>1, <2>9, <2>10, TruthStep
\* An entry of a sign-in tells nothing.
<1>8. CASE AuditLogin(r)
  <2> DEFINE e == AuditEntry(r, "LOGIN", q.caller, q.caller, Unset, Unset)
  <2>1. /\ q.pc = "auditLogin" /\ UNCHANGED user /\ audit' = Append(audit, e)
        /\ q.caller \in Account /\ n.pc = "done"
    BY <1>2, <1>8, AuditLoginEffect
  <2>2. e \in AuditRow /\ e.role = Unset /\ e.active = Unset
    BY <2>1 DEF AuditEntry, AuditRow
  <2> HIDE DEF e
  <2>3. ASSUME NEW u \in Account, user[u] # NoRow
        PROVE  AsKnown(u)'
    <3>1. AsKnown(u)
      BY <1>3, <2>1, <2>3, Known DEF Pending
    <3>2. KnownRole(u)' = KnownRole(u) /\ KnownActive(u)' = KnownActive(u)
      BY <2>1, <2>2, KnownAppended DEF TruthInv
    <3> QED
      BY <2>1, <3>1, <3>2 DEF AsKnown
  <2>4. LogInv'
    BY <2>1, <2>2, LogKept
  <2> QED
    BY <1>2, <1>3, <2>1, <2>3, <2>4, TruthStep
\* An edit: pending until it is compared with what was read before it.
<1>9. CASE SaveInstance(r)
  <2>1. /\ q.pc = "save" /\ UNCHANGED audit
        /\ user' = [user EXCEPT ![t] = Edited(q.copy, q.body)]
        /\ n.target = t /\ n.body = q.body /\ n.seen = q.seen /\ n.pc = "refresh"
    BY <1>1, <1>9, SaveEffect DEF Holds
  <2>2. q.seen = user[t] /\ user[t] # NoRow
    BY <1>1, <2>1 DEF FreshSession
  <2> HIDE DEF Edited
  <2>3. \A u \in Account : u # t => user'[u] = user[u]
    BY <1>1, <1>3, <2>1
  <2>4. AsKnown(t)
    BY <1>1, <1>3, <2>1, <2>2, Known DEF Pending
  <2>5. Secret(req[r])'
    <3>1. KnownRole(t)' = user[t].role /\ KnownActive(t)' = user[t].active
      BY <2>1, <2>4, KnownKept DEF AsKnown
    <3> QED
      BY <2>1, <2>2, <3>1 DEF Secret
  <2>6. ASSUME NEW u \in Account, u # t, user'[u] # NoRow
        PROVE  AsKnown(u)'
    <3>1. user'[u] = user[u] /\ AsKnown(u)
      BY <1>3, <2>1, <2>3, <2>6, Known DEF Pending
    <3> QED
      BY <2>1, <3>1, KnownKept DEF AsKnown
  <2>7. LogInv'
    BY <2>1, LogKept
  <2>8. \A u \in Account : Pending(n, u) \/ user'[u] = NoRow \/ AsKnown(u)'
    BY <2>1, <2>6 DEF Pending
  <2> QED
    BY <1>1, <1>3, <2>1, <2>5, <2>7, <2>8, TruthStep
<1>10. CASE RefreshTarget(r)
  <2>1. /\ q.pc = "refresh" /\ UNCHANGED <<user, audit>>
        /\ \/ n.pc = "done" /\ user[t].role = q.seen.role /\ user[t].active = q.seen.active
           \/ n.target = t /\ n.body = q.body /\ n.seen = q.seen /\ n.pc = "auditUpdate"
    BY <1>2, <1>10, RefreshEffect DEF Holds, db
  <2>2. KnownRole(t) = q.seen.role /\ KnownActive(t) = q.seen.active
    BY <1>1, <2>1 DEF Secret
  <2>3. ASSUME NEW u \in Account, u # t, user[u] # NoRow
        PROVE  AsKnown(u)'
    <3>1. AsKnown(u)
      BY <1>3, <2>3, Known DEF Pending
    <3> QED
      BY <2>1, <3>1, KnownKept DEF AsKnown
  <2>4. n.pc = "done" => AsKnown(t)'
    BY <2>1, <2>2, KnownKept DEF AsKnown
  <2>5. \A u \in Account : Pending(n, u) \/ user'[u] = NoRow \/ AsKnown(u)'
    BY <2>1, <2>3, <2>4 DEF Pending
  <2>6. n.pc \in Active => n.body.method # "PUT" /\ Secret(req[r])'
    BY <1>1, <1>2, <2>1, <2>2, KnownKept DEF Secret
  <2>7. LogInv'
    BY <2>1, LogKept
  <2> QED
    BY <1>3, <2>5, <2>6, <2>7, TruthStep
<1>11. CASE AuditUpdate(r)
  <2> DEFINE e == AuditEntry(r, "UPDATE", q.caller, t,
                    IF RoleChanged(q) THEN q.copy.role ELSE Unset,
                    IF ActiveChanged(q) THEN q.copy.active ELSE Unset)
  <2>1. /\ q.pc = "auditUpdate" /\ UNCHANGED user /\ audit' = Append(audit, e)
        /\ n.body = q.body /\ n.pc \in {"notifyRole", "notifyActive"}
    BY <1>11, AuditUpdateEffect DEF Holds
  <2>2. q.copy = user[t] /\ q.copy \in Row /\ q.caller \in Account
    BY <1>1, <2>1 DEF FreshSession, Session, Administering
  <2>3. q.copy.role \in Role /\ q.copy.active \in BOOLEAN
    BY <2>2 DEF Row
  <2>4. /\ e \in AuditRow /\ e.target = t
        /\ e.role = IF RoleChanged(q) THEN q.copy.role ELSE Unset
        /\ e.active = IF ActiveChanged(q) THEN q.copy.active ELSE Unset
    BY <1>1, <2>2, <2>3 DEF AuditEntry, AuditRow
  <2>5. Unset # q.copy.role /\ Unset # q.copy.active
    BY <2>3, AccountsAssumption
  <2> HIDE DEF e
  <2>6. KnownRole(t) = q.seen.role /\ KnownActive(t) = q.seen.active
    BY <1>1, <2>1 DEF Secret
  <2>7. AsKnown(t)'
    <3>1. KnownRole(t)' = user[t].role
      BY <1>1, <2>1, <2>2, <2>4, <2>5, <2>6, KnownAppended DEF TruthInv, RoleChanged
    <3>2. KnownActive(t)' = user[t].active
      BY <1>1, <2>1, <2>2, <2>4, <2>5, <2>6, KnownAppended DEF TruthInv, ActiveChanged
    <3> QED
      BY <2>1, <3>1, <3>2 DEF AsKnown
  <2>8. ASSUME NEW u \in Account, u # t, user[u] # NoRow
        PROVE  AsKnown(u)'
    <3>1. AsKnown(u)
      BY <1>3, <2>8, Known DEF Pending
    <3>2. KnownRole(u)' = KnownRole(u) /\ KnownActive(u)' = KnownActive(u)
      BY <2>1, <2>4, <2>8, KnownAppended DEF TruthInv
    <3> QED
      BY <2>1, <3>1, <3>2 DEF AsKnown
  <2>9. LogInv'
    BY <2>1, <2>4, LogKept
  <2>10. \A u \in Account : user'[u] = NoRow \/ AsKnown(u)'
    BY <2>1, <2>7, <2>8
  <2>11. Secret(req[r])'
    BY <2>1 DEF Secret
  <2> QED
    BY <1>1, <1>3, <2>1, <2>9, <2>10, <2>11, TruthStep
<1> QED
  BY <1>4, <1>5, <1>6, <1>7, <1>8, <1>9, <1>10, <1>11 DEF Serve

\* Served one request at a time, to the end, and with the method the view
\* audits, nothing about accounts escapes the audit log: whenever no request is
\* under way, every account has the role and the activation that the log told
\* last.  A request that dies after its save, two at a time, or a PUT, which the
\* view inherits, leave a change untold.
THEOREM AuditIsTrue ==
  ASSUME Audited
  PROVE  Spec => []AuditTellsTheTruth
<1>1. Init => TruthInv
  <2> SUFFICES ASSUME Init PROVE TruthInv
    OBVIOUS
  <2>1. \A u, field : Told(u, field) = {}
    BY DEF Init, Told
  <2>2. InFlight = {}
    BY IdleIsSession DEF Init, InFlight, Active
  <2>3. LogInv
    BY <2>1 DEF Init, LogInv
  <2>4. \A u \in Account : user[u] # NoRow => AsKnown(u)
    <3>1. ASSUME NEW u \in Account, user[u] # NoRow
          PROVE  AsKnown(u)
      <4>1. KnownRole(u) = InitialUser[u].role
        BY <2>1 DEF KnownRole
      <4>2. InitialUser[u] \in Row /\ user[u] = InitialUser[u]
        BY <3>1, AccountsAssumption DEF Init
      <4>3. KnownActive(u) = (InitialUser[u] = NoRow \/ InitialUser[u].active)
        BY <2>1 DEF KnownActive
      <4>4. InitialUser[u].active \in BOOLEAN /\ InitialUser[u] # NoRow
        BY <3>1, <4>2 DEF Row
      <4> QED
        BY <4>1, <4>2, <4>3, <4>4 DEF AsKnown
    <3> QED
      BY <3>1
  <2> QED
    BY <2>2, <2>3, <2>4 DEF TruthInv
<1>2. TypeInv /\ OrgInv /\ FreshInv /\ TruthInv /\ [Next]_vars => TruthInv'
  <2> SUFFICES ASSUME TypeInv, OrgInv, FreshInv, TruthInv, [Next]_vars PROVE TruthInv'
    OBVIOUS
  <2>1. CASE UNCHANGED vars
    <3>1. \A u, field : Told(u, field)' = Told(u, field) /\ LastTold(u, field)' = LastTold(u, field)
      BY <2>1 DEF vars, Told, LastTold
    <3>2. \A u : KnownRole(u)' = KnownRole(u) /\ KnownActive(u)' = KnownActive(u)
      BY <3>1 DEF KnownRole, KnownActive
    <3>3. InFlight' = InFlight
      BY <2>1 DEF InFlight, vars
    <3> QED
      BY <2>1, <3>1, <3>2, <3>3 DEF vars, TruthInv, LogInv, AsKnown, Secret
  <2>2. ASSUME NEW r \in Request, Abort(r)
        PROVE  FALSE
    BY <2>2 DEF Abort, Audited
  <2> QED
    BY <2>1, <2>2, StartTruth, ServeTruth DEF Next
<1>3. TypeInv /\ TruthInv => AuditTellsTheTruth
  <2> SUFFICES ASSUME TypeInv, TruthInv, InFlight = {}, NEW u \in Account, user[u] # NoRow
               PROVE  AsKnown(u)
    BY DEF AuditTellsTheTruth, AsKnown, KnownRole, KnownActive
  <2>1. \A r \in Request : ~Pending(req[r], u)
    BY DEF Pending, InFlight, Active
  <2> QED
    BY <2>1 DEF TruthInv
<1>4. Workers = 1
  BY DEF Audited
<1> QED
  BY <1>1, <1>2, <1>3, <1>4, TypeInvHolds, OrgInvHolds, FreshInvHolds, PTL DEF Spec

=============================================================================

------------------------------ MODULE Accounts ------------------------------
(***************************************************************************)
(* Accounts: sign-up, provisioning and administration, the own profile,    *)
(* passwords and reset links, over the users table, the audit log, the     *)
(* notification inbox and the mail that was sent.                          *)
(*                                                                         *)
(* As in TaskWorkflow a request is a sequence of autocommitted statements, *)
(* and an action is the part of a handler from one statement to just       *)
(* before the next.  Model.save() without update_fields writes every       *)
(* column of the instance a handler read earlier; save(update_fields=      *)
(* ['password']) writes one.  Names and e-mail texts are left out: a       *)
(* profile edit is the writing back of the caller's row.                   *)
(***************************************************************************)
EXTENDS Naturals, Sequences, FiniteSets

CONSTANTS
  Account,      \* e-mail addresses, registered or not: the table's unique key
  Dept,         \* departments
  DeptOrg,      \* DeptOrg[d]: the organization of a department
  Org,          \* organizations
  DefaultOrg,   \* the one sign-up assigns
  InitialUser,  \* the users table as migrations, seed and superuser left it
  Body,         \* the bodies an administrator may send
  Request,      \* every HTTP request the model lets happen
  Workers,      \* how many requests the server executes at a time
  Faults,       \* whether a request may die between two statements
  NoRow, NoAccount, NoDept, NoLink, Unset

Role == {"ADMIN", "MANAGER", "EMPLOYEE", "CLIENT"}

\* A password is known by its hash, and salting makes every hash a new one:
\* the number of the set_password call that made it.
Row == [role : Role, active : BOOLEAN, superuser : BOOLEAN, org : Org,
        dept : Dept \cup {NoDept}, hash : Nat]

\* form: the body is a form and not JSON, so that its values are texts.
BodyType == [method : {"POST", "PATCH", "PUT"}, form : BOOLEAN,
             role : Role \cup {Unset}, active : {"on", "off", Unset},
             dept : Dept \cup {NoDept, Unset}]

ASSUME AccountsAssumption ==
  /\ InitialUser \in [Account -> Row \cup {NoRow}]
  /\ \A u \in Account : InitialUser[u] # NoRow =>
       /\ InitialUser[u].hash = 0
       /\ InitialUser[u].dept # NoDept => DeptOrg[InitialUser[u].dept] = InitialUser[u].org
  /\ DeptOrg \in [Dept -> Org]
  /\ DefaultOrg \in Org
  /\ Body \subseteq BodyType
  /\ Workers \in Nat
  /\ Faults \in BOOLEAN
  /\ IsFiniteSet(Request)
  /\ NoRow \notin Row
  /\ NoAccount \notin Account
  /\ NoDept \notin Dept
  /\ Unset \notin Role \cup Dept \cup {NoDept, "on", "off"}
  /\ Unset \notin BOOLEAN

VARIABLES
  user,   \* user[u]: the row of the account with this e-mail, or NoRow
  given,  \* given[h]: whose password the hash h was made for
  mail,   \* the reset links sent: whose, the hash then, and when
  audit,  \* AuditLog rows about accounts, oldest first
  inbox,  \* Notification rows about accounts
  req     \* req[r]: what the thread serving request r holds

db == <<user, given, mail, audit, inbox>>
vars == <<user, given, mail, audit, inbox, req>>

-----------------------------------------------------------------------------
(* The request as its handler holds it. *)

Active == {"insert", "auditCreate", "getTarget", "countAdmins", "load", "save",
           "refresh", "auditUpdate", "notifyRole", "notifyActive", "saveMe",
           "setPassword", "auditLogin"}

Answer == {"ok", "400", "401", "403", "404", "500"}

NoBody == [method |-> "PATCH", form |-> FALSE, role |-> Unset, active |-> Unset,
           dept |-> Unset]

\* me: request.user.  seen: the target when its previous values were noted.
\* copy: the instance the serializer works on, or the target read again.
Idle == [pc |-> "idle", caller |-> NoAccount, target |-> NoAccount, me |-> NoRow,
         seen |-> NoRow, copy |-> NoRow, body |-> NoBody, link |-> NoLink,
         answer |-> "none"]

\* Of an answered request only the answer is left, and the link it used.
Answered(q, a) == [Idle EXCEPT !.pc = "done", !.answer = a, !.link = q.link]

InFlight == {r \in Request : req[r].pc \in Active}

CanStart(r) == req[r].pc = "idle" /\ Cardinality(InFlight) < Workers

\* JWTAuthentication reads the caller's row at the start of every request.
Authenticated(c) == user[c] # NoRow /\ user[c].active

is_admin(w) == w.superuser \/ w.role = "ADMIN"

Begin(pc, c, t, b) ==
  [Idle EXCEPT !.pc = pc, !.caller = c, !.target = t, !.body = b,
               !.me = IF c = NoAccount THEN NoRow ELSE user[c]]

AuditEntry(r, action, actor, target, role, active) ==
  [req |-> r, action |-> action, actor |-> actor, target |-> target,
   role |-> role, active |-> active]

record_audit_log(e) == audit' = Append(audit, e)

-----------------------------------------------------------------------------
(* The rules for accounts. *)

ASSIGNABLE_ROLES == {"EMPLOYEE", "MANAGER"}

\* Faulty variant: the role is any of the choices the model declares.
AnyRole(b) == b.role \in Role \cup {Unset}

validate_role(b) == b.role \in ASSIGNABLE_ROLES \cup {Unset}

validate_department(b, org) == b.dept \in Dept => DeptOrg[b.dept] = org

\* Faulty variant: an administrator's system-wide queryset is all there is.
AnyOrganization(me, w) == TRUE

\* IsOrganizationMember.has_object_permission.
SameOrganization(me, w) == me.org = w.org

\* Faulty variant: deactivated Admins are counted too.
OtherAdminsOfAnyState(t) ==
  {u \in Account \ {t} : user[u] # NoRow /\ user[u].role = "ADMIN"}

OtherActiveAdmins(t) ==
  {u \in Account \ {t} : user[u] # NoRow /\ user[u].role = "ADMIN" /\ user[u].active}

\* Judged on request.data as it came: the text "False" of a form is true.
WouldLoseAdmin(b) ==
  \/ b.role \notin {Unset, "ADMIN"}
  \/ b.active = "off" /\ ~b.form

\* A checkbox missing from a form that replaces the whole object is unchecked.
ActiveAfter(w, b) ==
  IF b.active = Unset THEN w.active /\ ~(b.form /\ b.method = "PUT")
  ELSE b.active = "on"

Edited(w, b) ==
  [w EXCEPT !.role   = IF b.role = Unset THEN @ ELSE b.role,
            !.active = ActiveAfter(w, b),
            !.dept   = IF b.dept = Unset THEN @ ELSE b.dept]

\* Faulty variant: the role's default is left to a serializer that has none.
NewRowAsSent(b, org, h) ==
  [role |-> b.role, active |-> TRUE, superuser |-> FALSE, org |-> org,
   dept |-> IF b.dept = Unset THEN NoDept ELSE b.dept, hash |-> h]

NewRow(b, org, h) ==
  [role |-> IF b.role = Unset THEN "EMPLOYEE" ELSE b.role,
   active |-> TRUE, superuser |-> FALSE, org |-> org,
   dept |-> IF b.dept = Unset THEN NoDept ELSE b.dept, hash |-> h]

\* Faulty variant: the link is signed with the key and the time alone.
UsableWhileActive(w, k) == w.active

\* check_token: the link was signed with the password and the state (active,
\* or it had not been sent) the row must still have.
check_token(w, k) == w.hash = k.hash /\ w.active

NextHash == Len(given) + 1

-----------------------------------------------------------------------------
(* POST /auth/register/ and POST /admin/users/ : the serializer looks for    *)
(* the e-mail address, the manager inserts, and the unique index decides.    *)

BeginSignup(r) ==
  \E t \in Account :
    /\ CanStart(r)
    /\ user[t] = NoRow
    /\ req' = [req EXCEPT ![r] = Begin("insert", NoAccount, t, NoBody)]
    /\ UNCHANGED db

BeginProvision(r) ==
  \E c, t \in Account, b \in Body :
    /\ CanStart(r)
    /\ b.method = "POST"
    /\ Authenticated(c) /\ is_admin(user[c])
    /\ user[t] = NoRow
    /\ validate_role(b) /\ validate_department(b, user[c].org)
    /\ req' = [req EXCEPT ![r] = Begin("insert", c, t, b)]
    /\ UNCHANGED db

InsertUser(r) ==
  /\ req[r].pc = "insert"
  /\ LET q   == req[r]
         org == IF q.caller = NoAccount THEN DefaultOrg ELSE q.me.org
     IN  \/ /\ user[q.target] = NoRow
            /\ user' = [user EXCEPT ![q.target] = NewRow(q.body, org, NextHash)]
            /\ given' = Append(given, q.target)
            /\ req' = [req EXCEPT ![r].pc = "auditCreate",
                                  ![r].copy = NewRow(q.body, org, NextHash)]
         \/ /\ user[q.target] # NoRow          \* IntegrityError
            /\ req' = [req EXCEPT ![r] = Answered(q, "500")]
            /\ UNCHANGED <<user, given>>
  /\ UNCHANGED <<mail, audit, inbox>>

AuditCreate(r) ==
  /\ req[r].pc = "auditCreate"
  /\ LET q == req[r]
     IN  record_audit_log(AuditEntry(r, "CREATE",
           IF q.caller = NoAccount THEN q.target ELSE q.caller, q.target,
           q.copy.role, Unset))
  /\ req' = [req EXCEPT ![r] = Answered(@, "ok")]
  /\ UNCHANGED <<user, given, mail, inbox>>

(* PATCH and PUT /admin/users/<id>/ .  Only patch() is written out in the    *)
(* view: put() is the inherited one, which reads, validates and saves.       *)

BeginAdminUpdate(r) ==
  \E c, t \in Account, b \in Body :
    /\ CanStart(r)
    /\ b.method \in {"PATCH", "PUT"}
    /\ Authenticated(c) /\ is_admin(user[c])
    /\ user[t] # NoRow
    /\ req' = [req EXCEPT ![r] =
                 Begin(IF b.method = "PATCH" THEN "getTarget" ELSE "load", c, t, b)]
    /\ UNCHANGED db

\* get_object, and the values the changes will be told from.
GetTarget(r) ==
  /\ req[r].pc = "getTarget"
  /\ LET q == req[r]
         w == user[q.target]
     IN  req' = [req EXCEPT ![r] =
                   IF ~SameOrganization(q.me, w) THEN Answered(q, "403")
                   ELSE [q EXCEPT !.seen = w,
                                  !.pc = IF w.role = "ADMIN" /\ w.active
                                         THEN "countAdmins" ELSE "load"]]
  /\ UNCHANGED db

CountAdmins(r) ==
  /\ req[r].pc = "countAdmins"
  /\ LET q == req[r]
     IN  req' = [req EXCEPT ![r] =
                   IF OtherActiveAdmins(q.target) = {} /\ WouldLoseAdmin(q.body)
                   THEN Answered(q, "400") ELSE [q EXCEPT !.pc = "load"]]
  /\ UNCHANGED db

\* get_object again, and is_valid().
LoadInstance(r) ==
  /\ req[r].pc = "load"
  /\ LET q == req[r]
         w == user[q.target]
     IN  req' = [req EXCEPT ![r] =
                   IF ~SameOrganization(q.me, w) THEN Answered(q, "403")
                   ELSE IF ~(validate_role(q.body) /\ validate_department(q.body, w.org))
                   THEN Answered(q, "400")
                   ELSE [q EXCEPT !.copy = w, !.pc = "save"]]
  /\ UNCHANGED db

SaveInstance(r) ==
  /\ req[r].pc = "save"
  /\ LET q == req[r]
     IN  /\ user' = [user EXCEPT ![q.target] = Edited(q.copy, q.body)]
         /\ req' = [req EXCEPT ![r] = IF q.body.method = "PUT" THEN Answered(q, "ok")
                                      ELSE [q EXCEPT !.pc = "refresh"]]
  /\ UNCHANGED <<given, mail, audit, inbox>>

RoleChanged(q) == q.copy.role # q.seen.role
ActiveChanged(q) == q.copy.active # q.seen.active

\* Faulty variant: a deactivation is not a change worth an audit entry.
RoleChangedOnly(q) == RoleChanged(q)

WantsAudit(q) == RoleChanged(q) \/ ActiveChanged(q)

\* target.refresh_from_db(): whatever is stored by now.
RefreshTarget(r) ==
  /\ req[r].pc = "refresh"
  /\ LET q == [req[r] EXCEPT !.copy = user[req[r].target]]
     IN  req' = [req EXCEPT ![r] = IF WantsAudit(q) THEN [q EXCEPT !.pc = "auditUpdate"]
                                   ELSE Answered(q, "ok")]
  /\ UNCHANGED db

AuditUpdate(r) ==
  /\ req[r].pc = "auditUpdate"
  /\ LET q == req[r]
     IN  /\ record_audit_log(AuditEntry(r, "UPDATE", q.caller, q.target,
              IF RoleChanged(q) THEN q.copy.role ELSE Unset,
              IF ActiveChanged(q) THEN q.copy.active ELSE Unset))
         /\ req' = [req EXCEPT ![r].pc = IF RoleChanged(q) THEN "notifyRole"
                                         ELSE "notifyActive"]
  /\ UNCHANGED <<user, given, mail, inbox>>

Notice(r, verb) == [req |-> r, to |-> req[r].target, verb |-> verb]

\* Faulty variant: one notice per request is enough.
RoleNoticeEndsIt(q) == Answered(q, "ok")

AfterRoleNotice(q) ==
  IF ActiveChanged(q) THEN [q EXCEPT !.pc = "notifyActive"] ELSE Answered(q, "ok")

NotifyRole(r) ==
  /\ req[r].pc = "notifyRole"
  /\ inbox' = inbox \cup {Notice(r, "role")}
  /\ req' = [req EXCEPT ![r] = AfterRoleNotice(@)]
  /\ UNCHANGED <<user, given, mail, audit>>

NotifyActive(r) ==
  /\ req[r].pc = "notifyActive"
  /\ inbox' = inbox \cup {Notice(r, "active")}
  /\ req' = [req EXCEPT ![r] = Answered(@, "ok")]
  /\ UNCHANGED <<user, given, mail, audit>>

(* PATCH /auth/me/ : the instance is request.user itself, saved whole. *)

BeginProfile(r) ==
  \E c \in Account :
    /\ CanStart(r)
    /\ Authenticated(c)
    /\ req' = [req EXCEPT ![r] = Begin("saveMe", c, c, NoBody)]
    /\ UNCHANGED db

\* Faulty variant: role is missing from the read-only fields.
SaveProfileWithRole(r) ==
  /\ req[r].pc = "saveMe"
  /\ \E role \in ASSIGNABLE_ROLES :
       user' = [user EXCEPT ![req[r].caller] = [req[r].me EXCEPT !.role = role]]
  /\ req' = [req EXCEPT ![r] = Answered(@, "ok")]
  /\ UNCHANGED <<given, mail, audit, inbox>>

SaveProfile(r) ==
  /\ req[r].pc = "saveMe"
  /\ user' = [user EXCEPT ![req[r].caller] = req[r].me]
  /\ req' = [req EXCEPT ![r] = Answered(@, "ok")]
  /\ UNCHANGED <<given, mail, audit, inbox>>

(* Passwords: the own one changed, or reset through a mailed link. *)

BeginChangePassword(r) ==
  \E c \in Account :
    /\ CanStart(r)
    /\ Authenticated(c)
    /\ req' = [req EXCEPT ![r] = Begin("setPassword", c, c, NoBody)]
    /\ UNCHANGED db

\* request_reset: silent for an unknown or inactive address.
RequestReset(r) ==
  \E t \in Account :
    /\ CanStart(r)
    /\ mail' = IF Authenticated(t)
               THEN mail \cup {[account |-> t, hash |-> user[t].hash, at |-> Len(audit)]}
               ELSE mail
    /\ req' = [req EXCEPT ![r] = Answered(Idle, "ok")]
    /\ UNCHANGED <<user, given, audit, inbox>>

\* confirm_reset: the check, on the row as it was read.
BeginConfirm(r) ==
  \E k \in mail :
    /\ CanStart(r)
    /\ user[k.account] # NoRow /\ check_token(user[k.account], k)
    /\ req' = [req EXCEPT ![r] =
                 [Begin("setPassword", NoAccount, k.account, NoBody) EXCEPT !.link = k]]
    /\ UNCHANGED db

\* set_password and save(update_fields=['password']).
SetPassword(r) ==
  /\ req[r].pc = "setPassword"
  /\ user' = [user EXCEPT ![req[r].target].hash = NextHash]
  /\ given' = Append(given, req[r].target)
  /\ req' = [req EXCEPT ![r] = Answered(@, "ok")]
  /\ UNCHANGED <<mail, audit, inbox>>

(* POST /auth/token/ : the tokens, then the audit entry.  last_login stays   *)
(* as it is: UPDATE_LAST_LOGIN is not set.                                   *)

BeginLogin(r) ==
  \E c \in Account :
    /\ CanStart(r)
    /\ Authenticated(c)
    /\ req' = [req EXCEPT ![r] = Begin("auditLogin", c, c, NoBody)]
    /\ UNCHANGED db

AuditLogin(r) ==
  /\ req[r].pc = "auditLogin"
  /\ record_audit_log(AuditEntry(r, "LOGIN", req[r].caller, req[r].caller, Unset, Unset))
  /\ req' = [req EXCEPT ![r] = Answered(@, "ok")]
  /\ UNCHANGED <<user, given, mail, inbox>>

(* A request the checks before the first write turn away. *)

\* IsAdminUserRole, for whoever is no Admin.
Forbidden == \E c \in Account : Authenticated(c) /\ ~is_admin(user[c])

\* get_object, for an Admin who names nobody's primary key.
NotFound == \E c \in Account : Authenticated(c) /\ is_admin(user[c])

Refused(r) ==
  \E a \in {"400", "401", "403", "404"} :
    /\ CanStart(r)
    /\ \/ a = "401"                       \* no token, or a wrong password
       \/ a = "404" /\ NotFound
       \/ a = "403" /\ Forbidden
       \/ a = "400"                       \* an expired link, a weak password
    /\ req' = [req EXCEPT ![r] = Answered(Idle, a)]
    /\ UNCHANGED db

\* The thread dies before its next statement.
Abort(r) ==
  /\ Faults
  /\ req[r].pc \in Active
  /\ req' = [req EXCEPT ![r] = Answered(@, "500")]
  /\ UNCHANGED db

-----------------------------------------------------------------------------

Init ==
  /\ user = InitialUser
  /\ given = <<>>
  /\ mail = {}
  /\ audit = <<>>
  /\ inbox = {}
  /\ req = [r \in Request |-> Idle]

Start(r) ==
  \/ BeginSignup(r) \/ BeginProvision(r) \/ BeginAdminUpdate(r)
  \/ BeginProfile(r) \/ BeginChangePassword(r) \/ RequestReset(r)
  \/ BeginConfirm(r) \/ BeginLogin(r) \/ Refused(r)

\* What the server does of itself once it has begun a request.
Serve(r) ==
  \/ InsertUser(r) \/ AuditCreate(r)
  \/ GetTarget(r) \/ CountAdmins(r) \/ LoadInstance(r) \/ SaveInstance(r)
  \/ RefreshTarget(r) \/ AuditUpdate(r) \/ NotifyRole(r) \/ NotifyActive(r)
  \/ SaveProfile(r) \/ SetPassword(r) \/ AuditLogin(r)

Next == \E r \in Request : Start(r) \/ Serve(r) \/ Abort(r)

Spec == Init /\ [][Next]_vars

-----------------------------------------------------------------------------
(* What the module should guarantee. *)

LinkRow == [account : Account, hash : Nat, at : Nat]

AuditRow == [req : Request, action : {"CREATE", "UPDATE", "LOGIN"},
             actor : Account, target : Account,
             role : Role \cup {Unset}, active : BOOLEAN \cup {Unset}]

NoticeRow == [req : Request, to : Account, verb : {"role", "active"}]

\* The stages by what the handler holds there.
Administering == {"getTarget", "countAdmins", "load", "save", "refresh",
                  "auditUpdate", "notifyRole", "notifyActive"}
Telling == {"refresh", "auditUpdate", "notifyRole", "notifyActive"}

Session ==
  {q \in [pc : Active \cup {"idle", "done"}, caller : Account \cup {NoAccount},
          target : Account \cup {NoAccount}, me : Row \cup {NoRow},
          seen : Row \cup {NoRow}, copy : Row \cup {NoRow}, body : BodyType,
          link : LinkRow \cup {NoLink}, answer : Answer \cup {"none"}] :
     /\ q.pc \in Active => q.target \in Account
     /\ q.caller \in Account => q.me \in Row
     /\ q.pc \in Administering \cup {"saveMe", "auditLogin"} => q.caller \in Account
     /\ q.pc \in {"auditCreate", "save"} \cup Telling => q.copy \in Row
     /\ q.pc \in {"countAdmins"} \cup Telling => q.seen \in Row
     /\ q.pc \in {"load", "save"} => q.body.method = "PUT" \/ q.seen \in Row}

\* The tables have the types their fields declare, and no handler reaches a
\* statement without the rows it uses there.
TypeOK ==
  /\ user \in [Account -> Row \cup {NoRow}]
  /\ given \in Seq(Account)
  /\ mail \in SUBSET LinkRow
  /\ audit \in Seq(AuditRow)
  /\ inbox \in SUBSET NoticeRow
  /\ req \in [Request -> Session]

\* The Admin role and the superuser flag cannot be obtained through any HTTP
\* request, however requests interleave and whatever stale rows they write:
\* who has them had them from the start, and whoever provisioned or changed an
\* account has them.
SeededAdmin(u) == InitialUser[u] # NoRow /\ is_admin(InitialUser[u])

AdminPowerIsSeeded ==
  /\ \A u \in Account : user[u] # NoRow /\ is_admin(user[u]) => SeededAdmin(u)
  /\ \A i \in DOMAIN audit :
       audit[i].action = "UPDATE" \/ audit[i].actor # audit[i].target
         => SeededAdmin(audit[i].actor)

\* An account and its department are of one organization, and nobody else's
\* administrator ever created or changed it.
OrganizationsApart ==
  /\ \A u \in Account : user[u] # NoRow /\ user[u].dept # NoDept
                          => DeptOrg[user[u].dept] = user[u].org
  /\ \A i \in DOMAIN audit :
       user[audit[i].actor] # NoRow /\ user[audit[i].target] # NoRow
         => user[audit[i].actor].org = user[audit[i].target].org

\* There is always an active Admin account to administer the others with.
SomeAdminLeft ==
  \E u \in Account : user[u] # NoRow /\ user[u].role = "ADMIN" /\ user[u].active

\* When no request is under way, the last entry of the audit log that tells an
\* account's role, or that it was (de)activated, tells what the table says;
\* without one, the account is as it was at first.
Told(u, field) == {i \in DOMAIN audit : audit[i].target = u /\ audit[i][field] # Unset}

LastTold(u, field) ==
  audit[CHOOSE i \in Told(u, field) : \A j \in Told(u, field) : j <= i][field]

AuditTellsTheTruth ==
  InFlight = {} =>
    \A u \in Account : user[u] # NoRow =>
      /\ user[u].role = IF Told(u, "role") # {} THEN LastTold(u, "role")
                        ELSE InitialUser[u].role
      /\ user[u].active = IF Told(u, "active") # {} THEN LastTold(u, "active")
                          ELSE InitialUser[u] = NoRow \/ InitialUser[u].active

\* Role, status and department change in Admin User Management and nowhere
\* else: a profile edit, a password change or a reset leaves them alone.
StandingOf(w) == IF w = NoRow THEN NoRow ELSE <<w.role, w.active, w.dept>>

OnlyAdminsChangeStanding ==
  [][\A u \in Account :
       user[u] # NoRow /\ StandingOf(user'[u]) # StandingOf(user[u])
         => \E r \in Request : req[r].pc = "save" /\ req'[r].pc # "save"]_vars

\* A reset link sets a password at most once.
LinkUsedOnce ==
  \A r, s \in Request :
    r # s /\ req[r].answer = "ok" /\ req[s].answer = "ok" /\ req[r].link # NoLink
      => req[s].link # req[r].link

\* A reset link is dead from the moment the password changes: the one it is
\* accepted for is the newest the account was ever given.
Hashes(u) == {h \in DOMAIN given : given[h] = u}

Accepted(r) ==
  req[r].link = NoLink /\ req'[r].link # NoLink

LinkDiesWithPassword ==
  [][\A r \in Request : Accepted(r) =>
       \A h \in Hashes(req'[r].link.account) : h <= req'[r].link.hash]_vars

\* A reset link is dead from the moment the user logs in again.
LinkDiesWithLogin ==
  [][\A r \in Request : Accepted(r) =>
       \A i \in DOMAIN audit :
         i > req'[r].link.at /\ audit[i].action = "LOGIN"
           => audit[i].actor # req'[r].link.account]_vars

\* Whoever's role or activation the audit log says was changed has been told of
\* each once the request that changed it has answered, whatever the row has
\* become by then (patch() decides on its own copies, after three more commits).
AffectedAreTold ==
  \A i \in DOMAIN audit, verb \in {"role", "active"} :
    (audit[i].action = "UPDATE" /\ audit[i][verb] # Unset /\ req[audit[i].req].answer = "ok")
      => \E n \in inbox : n.req = audit[i].req /\ n.to = audit[i].target /\ n.verb = verb
=============================================================================

------------------------------ MODULE UsersPage -----------------------------
(* user-management.js: for Admins only.  An existing account's role and     *)
(* Active box can be changed, except one's own and another Admin's; a new  *)
(* account gets an e-mail, the name of its row.                            *)
EXTENDS RecordPage

Active == {"true", "false"}

-----------------------------------------------------------------------------
load(v) == Reload(v)

\* The dashboard's links come with ?role= or ?is_active=, which set the filters.
guardPassed ==
  /\ stage = "guard"
  /\ stage' = "ready"
  /\ view' = [view EXCEPT !.pick = Merged(Given(me.link), @)]
  /\ StartLoad(0, view')
  /\ UNCHANGED <<me, rows, lastRows, options, form, asked, events, ghost>>

ChangeFilter ==
  /\ Event /\ Uncovered
  /\ \E f \in DOMAIN view.pick :
       \E x \in {""} \cup (IF f = "role" THEN {"MANAGER"} ELSE {"true"}) :
         /\ x # view.pick[f]
         /\ load([view EXCEPT !.pick[f] = x])

SortColumn ==
  /\ Event /\ Uncovered
  /\ load(Sorted(view))

TimerFires ==
  /\ view.timer
  /\ load([view EXCEPT !.timer = FALSE])
  /\ UNCHANGED events

renderRows(found) == "plain"

loaded(n) == EndLoad(n, renderRows(calls[n].found))

-----------------------------------------------------------------------------
\* The fields change with the dialog; the Save button stays as it was left.
openCreateModal ==
  /\ Uncovered
  /\ Opened(0, None, [name |-> "", role |-> "EMPLOYEE"], {"name", "role"}, dialog.canSave)

\* Faulty variant: another Admin's account can be saved, as an Employee.
OpenAnyAccount(i) ==
  /\ Uncovered
  /\ Lists /\ i \in DOMAIN lastRows
  /\ Opened(i, lastRows[i],
            [role |-> IF lastRows[i].role = "ADMIN" THEN "EMPLOYEE" ELSE lastRows[i].role,
             is_active |-> lastRows[i].is_active],
            {"role", "is_active"}, i # me.who)

\* The role select has no Admin option, and shows Employee for an Admin.
openEditModal(i) ==
  /\ Uncovered
  /\ Lists /\ i \in DOMAIN lastRows
  /\ LET u == lastRows[i] IN
     Opened(i, u,
            [role |-> IF u.role = "ADMIN" THEN "EMPLOYEE" ELSE u.role, is_active |-> u.is_active],
            (IF i = me.who \/ u.role = "ADMIN" THEN {} ELSE {"role"})
              \cup (IF i = me.who THEN {} ELSE {"is_active"}),
            i # me.who /\ u.role # "ADMIN")

Offers(f) ==
  CASE f = "name"      -> Text
    [] f = "role"      -> {"MANAGER", "EMPLOYEE"}
    [] f = "is_active" -> Active

Fillings == {<<>>} \cup UNION {[{f} -> Offers(f)] : f \in dialog.editable}

save ==
  /\ dialog.open /\ dialog.canSave /\ ~busy
  /\ \E filled \in Fillings :
       LET body == Merged(filled, dialog.values) IN
       IF dialog.row = 0 /\ body.name = "" THEN RefuseSave ELSE StartSave(body, DOMAIN filled)

saved(n) == EndSave(n)

-----------------------------------------------------------------------------
\* The serializers: Admin is not assignable, an e-mail is used once.
accepts(c) ==
  IF c.row = 0 THEN \A i \in Alive : rows[i].name # c.body.name
  ELSE c.body.role # "ADMIN"

Created(body) == Merged([is_active |-> "true"], body)
Versions(u) == IF u.role = "ADMIN" THEN {} ELSE {[u EXCEPT !.role = IF @ = "MANAGER" THEN "EMPLOYEE" ELSE "MANAGER"]}

\* The Admin who looks, another Admin, and somebody else.
Init ==
  /\ \E link \in {[role |-> ""], [role |-> "MANAGER"]} : me = [role |-> "ADMIN", who |-> 1, link |-> link]
  /\ \E t \in Text :
       rows = << [name |-> t, role |-> "ADMIN", is_active |-> "true"],
                 [name |-> "colleague", role |-> "ADMIN", is_active |-> "false"],
                 [name |-> "employee", role |-> "EMPLOYEE", is_active |-> "true"] >>
  /\ options = <<>>
  /\ PageInit([search |-> "", pick |-> [role |-> "", is_active |-> ""],
               up |-> FALSE, sort |-> "default", timer |-> FALSE])

Handlers ==
  \/ guardPassed
  \/ TimerFires
  \/ \E n \in DOMAIN calls : loaded(n) \/ saved(n)

User ==
  \/ \E x \in Text \cup {""} : Uncovered /\ debounce(x)
  \/ ChangeFilter \/ SortColumn
  \/ openCreateModal \/ \E i \in DOMAIN lastRows : openEditModal(i)
  \/ closeModal \/ save

Next ==
  \/ Handlers \/ User \/ Lose
  \/ \E n \in DOMAIN calls : Serve(n, accepts(calls[n]), Created(calls[n].body))
  \/ \E i \in Alive : OtherEdits(i, Versions(rows[i]))
=============================================================================

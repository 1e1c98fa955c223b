-------------------------- MODULE OrganizationsPage -------------------------
(* organizations.js: for Admins only, every button from the start.  A row's *)
(* counts say whether anything belongs to the organization.                *)
EXTENDS RecordPage

Active == {"true", "false"}

-----------------------------------------------------------------------------
load(v) == Reload(v)

\* Layout.init("organizations").then(load)
guardPassed ==
  /\ stage = "guard"
  /\ stage' = "ready"
  /\ StartLoad(0, view)
  /\ UNCHANGED <<me, rows, view, lastRows, options, form, asked, events, ghost>>

ChangeFilter ==
  /\ Event /\ Uncovered
  /\ \E x \in {"", "true"} \ {view.pick.is_active} :
       load([view EXCEPT !.pick.is_active = x])

SortColumn ==
  /\ Event /\ Uncovered
  /\ load(Sorted(view))

TimerFires ==
  /\ view.timer
  /\ load([view EXCEPT !.timer = FALSE])
  /\ UNCHANGED events

renderRows(found) == "rows"

loaded(n) == EndLoad(n, renderRows(calls[n].found))

-----------------------------------------------------------------------------
openModal(i) ==
  /\ Uncovered
  /\ i = 0 \/ (Lists /\ i \in DOMAIN lastRows)
  /\ Opened(i, IF i = 0 THEN None ELSE lastRows[i],
            IF i = 0 THEN [name |-> ""]
            ELSE [name |-> lastRows[i].name, is_active |-> lastRows[i].is_active],
            IF i = 0 THEN {"name"} ELSE {"name", "is_active"}, TRUE)

Offers(f) == IF f = "name" THEN Text ELSE Active

Fillings == {<<>>} \cup UNION {[{f} -> Offers(f)] : f \in dialog.editable}

save ==
  /\ dialog.open /\ dialog.canSave /\ ~busy
  /\ \E filled \in Fillings :
       LET body == Merged(filled, dialog.values) IN
       IF body.name = "" THEN RefuseSave ELSE StartSave(body, DOMAIN filled)

saved(n) == EndSave(n)

handleDelete ==
  /\ Uncovered
  /\ Lists
  /\ \E i \in DOMAIN lastRows : confirmAction(i)

deleted(n) == EndDelete(n)

-----------------------------------------------------------------------------
\* The slug is unique, and made of the name when there is none yet: a rename
\* keeps it.  An organization in use is not deleted.
accepts(c) ==
  IF c.row = 0 THEN \A i \in Alive : rows[i].slug # c.body.name
  ELSE /\ c.row \in Alive
       /\ c.kind = "delete" => ~rows[c.row].inUse

Created(body) == Merged([is_active |-> "true", inUse |-> FALSE, slug |-> body.name], body)
Versions(o) == {[o EXCEPT !.is_active = IF @ = "true" THEN "false" ELSE "true"], [o EXCEPT !.inUse = ~@]}

Init ==
  /\ me = [role |-> "ADMIN"]
  /\ \E t \in Text, b \in BOOLEAN : rows = << [name |-> t, slug |-> t, is_active |-> "true", inUse |-> b] >>
  /\ options = <<>>
  /\ PageInit([search |-> "", pick |-> [is_active |-> ""], up |-> TRUE, sort |-> "up", timer |-> FALSE])

Handlers ==
  \/ guardPassed
  \/ TimerFires
  \/ \E n \in DOMAIN calls : loaded(n) \/ saved(n) \/ deleted(n)

User ==
  \/ \E x \in Text \cup {""} : Uncovered /\ debounce(x)
  \/ ChangeFilter \/ SortColumn
  \/ openModal(0) \/ \E i \in DOMAIN lastRows : openModal(i)
  \/ closeModal \/ save \/ handleDelete
  \/ \E yes \in BOOLEAN : ConfirmAnswered(yes)

Next ==
  \/ Handlers \/ User \/ Lose
  \/ \E n \in DOMAIN calls : Serve(n, accepts(calls[n]), Created(calls[n].body))
  \/ \E i \in Alive : OtherEdits(i, Versions(rows[i]))
=============================================================================

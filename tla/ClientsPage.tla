----------------------------- MODULE ClientsPage ----------------------------
(* clients.js: the Active box exists only when an existing client is       *)
(* edited, and a new client is active.                                     *)
EXTENDS RecordPage

Active == {"true", "false"}

canWrite == stage # "guard" /\ me.role = "MANAGER"

-----------------------------------------------------------------------------
load(v) == Reload(v)

guardPassed ==
  /\ stage = "guard"
  /\ stage' = "ready"
  /\ StartLoad(0, view)
  /\ UNCHANGED <<me, rows, view, lastRows, options, form, asked, events, ghost>>

ChangeFilter ==
  /\ Event /\ Uncovered
  /\ \E x \in {"", "true"} \ {view.pick.is_active} : load([view EXCEPT !.pick.is_active = x])

SortColumn ==
  /\ Event /\ Uncovered
  /\ load(Sorted(view))

TimerFires ==
  /\ view.timer
  /\ load([view EXCEPT !.timer = FALSE])
  /\ UNCHANGED events

\* Rows are "View only" unless they were rendered for someone who may write.
renderRows(found) == IF canWrite THEN "rows" ELSE "plain"

loaded(n) == EndLoad(n, renderRows(calls[n].found))

-----------------------------------------------------------------------------
EmptyForm == [name |-> ""]

openModal(i) ==
  /\ Uncovered
  /\ IF i = 0 THEN canWrite ELSE table = "rows" /\ i \in DOMAIN lastRows
  /\ Opened(i, IF i = 0 THEN None ELSE lastRows[i],
            IF i = 0 THEN EmptyForm ELSE lastRows[i],
            IF i = 0 THEN {"name"} ELSE {"name", "is_active"}, TRUE)

Offers(f) == IF f = "name" THEN Text ELSE Active

Fillings == {<<>>} \cup UNION {[{f} -> Offers(f)] : f \in dialog.editable}

save ==
  /\ dialog.open /\ dialog.canSave /\ ~busy
  /\ \E filled \in Fillings :
       LET body == Merged(filled, dialog.values) IN
       IF body.name = "" THEN RefuseSave ELSE StartSave(body, DOMAIN filled)

saved(n) == EndSave(n)

handleDelete ==
  /\ Uncovered
  /\ table = "rows"
  /\ \E i \in DOMAIN lastRows : confirmAction(i)

deleted(n) == EndDelete(n)

-----------------------------------------------------------------------------
\* unique_together (organization, name), met as an IntegrityError.
Taken(c) == \E i \in Alive \ {c.row} : rows[i].name = c.body.name

accepts(c) ==
  /\ me.role = "MANAGER"
  /\ c.row # 0 => c.row \in Alive
  /\ c.kind = "save" => ~Taken(c)

Created(body) == Merged([is_active |-> "true"], body)
Versions(c) == {Gone, [c EXCEPT !.is_active = IF @ = "true" THEN "false" ELSE "true"]}

Init ==
  /\ me \in [role : {"MANAGER", "EMPLOYEE"}]
  /\ \E t \in Text : rows = << [name |-> t, is_active |-> "true"] >>
  /\ options = <<>>
  /\ PageInit([search |-> "", pick |-> [is_active |-> ""], up |-> TRUE, sort |-> "up", timer |-> FALSE])

Handlers ==
  \/ guardPassed
  \/ TimerFires
  \/ \E n \in DOMAIN calls : loaded(n) \/ saved(n) \/ deleted(n)

User ==
  \/ \E x \in Text \cup {""} : Uncovered /\ debounce(x)
  \/ ChangeFilter \/ SortColumn
  \/ openModal(0) \/ \E i \in DOMAIN lastRows : openModal(i)
  \/ closeModal \/ save \/ handleDelete
  \/ \E yes \in BOOLEAN : ConfirmAnswered(yes)

Next ==
  \/ Handlers \/ User \/ Lose
  \/ \E n \in DOMAIN calls : Serve(n, accepts(calls[n]), Created(calls[n].body))
  \/ \E i \in Alive : OtherEdits(i, Versions(rows[i]))
=============================================================================

----------------------------- MODULE TasksPage ------------------------------
(* tasks.js: an Employee may only move a task assigned to them.            *)
EXTENDS RecordPage

Status == {"DRAFT", "PENDING_REVIEW", "CHANGES_REQUESTED", "APPROVED", "REJECTED"}

\* Faulty variant: the page still offers the way back from a review.
TableWithReturn ==
  [s \in Status |-> IF s = "PENDING_REVIEW" THEN {"APPROVED", "DRAFT"} ELSE {}]

ALLOWED_TRANSITIONS ==
  [s \in Status |->
    CASE s = "PENDING_REVIEW" -> {"APPROVED", "REJECTED", "CHANGES_REQUESTED"}
      [] s = "REJECTED"       -> {"DRAFT"}
      [] s = "APPROVED"       -> {}
      [] OTHER                -> {"PENDING_REVIEW"}]

canWriteGlobally == stage # "guard" /\ me.role = "MANAGER"

\* is_locked: a task is locked by its approval.
Locked(t) == t.status = "APPROVED"

-----------------------------------------------------------------------------
(* The page coming up: who is looking, then the two selects, at once, and  *)
(* the first load when both are there.                                     *)

guardPassed ==
  /\ stage = "guard"
  /\ stage' = "options"
  /\ Turn(0, <<OptionCall("assignee"), OptionCall("project")>>)
  /\ UNCHANGED <<me, rows, list, options, form, asked, events, ghost>>

\* Api.get("/tasks/"); mine-only is the server's comparison with the caller.
load(v) == Reload(v)

AllOptions(n) == \A m \in DOMAIN calls : Is(m, "options") => m = n

\* A failed option list is an empty one: the catch of both loaders is empty.
AddOptions(n) ==
  IF calls[n].phase = "sent"
  THEN [options EXCEPT ![calls[n].select] = Listed[calls[n].select]]
  ELSE options

\* Faulty variant: an error of a loader is not caught, and nothing follows.
LoadersThrow(n) ==
  /\ Is(n, "options")
  /\ options' = AddOptions(n)
  /\ IF AllOptions(n) /\ calls[n].phase = "sent"
     THEN stage' = "ready" /\ StartLoad(n, view)
     ELSE Turn(n, <<>>) /\ UNCHANGED <<stage, table>>
  /\ UNCHANGED <<me, rows, view, lastRows, form, asked, events, ghost>>

loadOptions(n) ==
  /\ Is(n, "options")
  /\ options' = AddOptions(n)
  /\ IF AllOptions(n)
     THEN stage' = "ready" /\ StartLoad(n, view)
     ELSE Turn(n, <<>>) /\ UNCHANGED <<stage, table>>
  /\ UNCHANGED <<me, rows, view, lastRows, form, asked, events, ghost>>

-----------------------------------------------------------------------------
(* The list.  The listeners are bound before the guard has answered.       *)

\* mine-only, status-filter and project-filter.
FilterValues(f) ==
  {""} \cup CASE f = "assignee" -> {me.who}
              [] f = "status"   -> {"DRAFT"}
              [] f = "project"  -> options.project

ChangeFilter ==
  /\ Event /\ Uncovered
  /\ \E f \in DOMAIN view.pick : \E x \in FilterValues(f) \ {view.pick[f]} :
       load([view EXCEPT !.pick[f] = x])

SortColumn ==
  /\ Event /\ Uncovered
  /\ load(Sorted(view))

\* Faulty variant: the search is asked for before its timer, then never again.
TimerForgets ==
  /\ view.timer
  /\ view' = [view EXCEPT !.timer = FALSE]
  /\ UNCHANGED <<me, rows, stage, table, lastRows, options, form, asked, calls, events, ghost>>

TimerFires ==
  /\ view.timer
  /\ load([view EXCEPT !.timer = FALSE])
  /\ UNCHANGED events

\* Rows are compared with currentUser.id, which is null until the guard is
\* passed: the TypeError ends in the error row.
renderRows(found) ==
  IF found # <<>> /\ stage = "guard" THEN "error"
  ELSE IF canWriteGlobally THEN "rows" ELSE "plain"

loaded(n) == EndLoad(n, renderRows(calls[n].found))

-----------------------------------------------------------------------------
(* The dialog.                                                             *)

fullEdit(i) == canWriteGlobally /\ (i # 0 => ~Locked(lastRows[i]))
statusOnlyEdit(i) ==
  /\ i # 0
  /\ ~canWriteGlobally /\ lastRows[i].assignee = me.who /\ ~Locked(lastRows[i])

\* A date input empties itself of everything that is not a day.
DateShown(x) == IF x \in Day THEN x ELSE None

\* Assigning to a select what it does not offer leaves it on no option.
FormOf(t) ==
  [name |-> t.name, status |-> t.status, due |-> DateShown(t.due),
   project |-> Shown(t.project, options.project), assignee |-> Shown(t.assignee, options.assignee)]

EmptyForm == [name |-> "", status |-> "DRAFT", due |-> None, project |-> None, assignee |-> None]

openModal(i) ==
  /\ Uncovered /\ stage # "guard"
  /\ IF i = 0 THEN canWriteGlobally ELSE Lists /\ i \in DOMAIN lastRows
  /\ Opened(i, IF i = 0 THEN None ELSE lastRows[i],
            IF i = 0 THEN EmptyForm ELSE FormOf(lastRows[i]),
            IF fullEdit(i) THEN DOMAIN EmptyForm
            ELSE IF statusOnlyEdit(i) THEN {"status"} ELSE {},
            fullEdit(i) \/ statusOnlyEdit(i))

\* restrictStatusOptions: where the assignee may move the task to.
restrictStatusOptions ==
  IF dialog.editable = {"status"}
  THEN {dialog.copy.status} \cup ALLOWED_TRANSITIONS[dialog.copy.status]
  ELSE Status

\* What the user may choose in a field.
Offers(f) ==
  CASE f = "name"   -> Text
    [] f = "status" -> restrictStatusOptions
    [] f = "due"    -> Day \cup {None}
    [] OTHER        -> options[f] \cup {None}

\* At most one field is filled in before the button is clicked.
Fillings == {<<>>} \cup UNION {[{f} -> Offers(f)] : f \in dialog.editable}

save ==
  /\ dialog.open /\ dialog.canSave /\ ~busy
  /\ \E filled \in Fillings :
       LET body == Merged(filled, dialog.values) IN
       IF dialog.editable = {"status"}
       THEN StartSave([status |-> body.status], DOMAIN filled)
       ELSE IF body.name = "" THEN RefuseSave ELSE StartSave(body, DOMAIN filled)

saved(n) == EndSave(n)

handleDelete ==
  /\ Uncovered
  /\ table = "rows"
  /\ \E i \in DOMAIN lastRows : confirmAction(i)

deleted(n) == EndDelete(n)

-----------------------------------------------------------------------------
(* The API: TaskPermission, TaskSerializer and the two-step update.        *)

Movable(old, s) ==
  s = old \/ s \in CASE old = "PENDING_REVIEW" -> {"APPROVED", "REJECTED", "CHANGES_REQUESTED"}
                     [] old = "REJECTED"       -> {"DRAFT"}
                     [] old = "APPROVED"       -> {}
                     [] OTHER                  -> {"PENDING_REVIEW"}

accepts(c) ==
  IF c.kind = "delete" THEN me.role = "MANAGER"
  ELSE IF c.row = 0 THEN me.role = "MANAGER"
  ELSE /\ c.row \in Alive
       /\ me.role = "MANAGER" \/ rows[c.row].assignee = me.who
       /\ ~Locked(rows[c.row])
       /\ Movable(rows[c.row].status, c.body.status)

\* due_date is a DateTimeField: it holds, and the list shows, moments.
Midnight(day) == <<day>>

Created(body) ==
  IF "due" \in DOMAIN body /\ body.due # None THEN [body EXCEPT !.due = Midnight(@)] ELSE body

\* A review, a reassignment, a deletion.
Versions(t) ==
  IF Locked(t) THEN {Gone}
  ELSE {Gone, [t EXCEPT !.assignee = None],
             [t EXCEPT !.status = IF @ = "PENDING_REVIEW" THEN "APPROVED" ELSE "DRAFT"]}

-----------------------------------------------------------------------------
Init ==
  /\ me \in [role : {"MANAGER", "EMPLOYEE"}, who : Choice["assignee"]]
  /\ \E m \in Choice["assignee"], p \in Choice["project"], d \in Day :
       rows = << [name |-> "first", status |-> "PENDING_REVIEW", due |-> Midnight(d),
                  project |-> p, assignee |-> m] >>
  /\ options = [assignee |-> {}, project |-> {}]
  /\ PageInit([search |-> "", pick |-> [assignee |-> "", status |-> "", project |-> ""],
               up |-> FALSE, sort |-> "default", timer |-> FALSE])

Handlers ==
  \/ guardPassed
  \/ TimerFires
  \/ \E n \in DOMAIN calls : loadOptions(n) \/ loaded(n) \/ saved(n) \/ deleted(n)

User ==
  \/ \E x \in Text \cup {""} : Uncovered /\ debounce(x)
  \/ ChangeFilter \/ SortColumn
  \/ openModal(0) \/ \E i \in DOMAIN lastRows : openModal(i)
  \/ closeModal \/ save \/ handleDelete
  \/ \E yes \in BOOLEAN : ConfirmAnswered(yes)

Next ==
  \/ Handlers \/ User \/ Lose
  \/ \E n \in DOMAIN calls : Serve(n, accepts(calls[n]), Created(calls[n].body))
  \/ \E i \in Alive : OtherEdits(i, Versions(rows[i]))

-----------------------------------------------------------------------------
\* What the page offers an Employee is refused only when the task is another
\* than the one listed, at that moment: later it may become the listed one again
\* (the page's copy of ALLOWED_TRANSITIONS, isMine and the lock against
\* TaskPermission and TaskSerializer).
RefusedForAChange ==
  \A n \in DOMAIN calls :
    (/\ me.role = "EMPLOYEE" /\ Is(n, "save") /\ calls[n].phase = "sent"
     /\ n \in DOMAIN calls' /\ calls'[n] = [calls[n] EXCEPT !.phase = "refused"])
      => rows[calls[n].row] # calls[n].copy
=============================================================================

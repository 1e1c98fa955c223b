---------------------------- MODULE ProjectsPage ----------------------------
(* projects.js: a project may be linked to a client; the page offers the    *)
(* active ones.                                                            *)
EXTENDS RecordPage

canWrite == stage # "guard" /\ me.role = "MANAGER"

-----------------------------------------------------------------------------
guardPassed ==
  /\ stage = "guard"
  /\ stage' = "options"
  /\ Turn(0, <<OptionCall("client")>>)
  /\ UNCHANGED <<me, rows, list, options, form, asked, events, ghost>>

load(v) == Reload(v)

\* A failed list of clients is an empty one.
loadClientOptions(n) ==
  /\ Is(n, "options")
  /\ options' = IF calls[n].phase = "sent" THEN [client |-> Listed["client"]] ELSE options
  /\ stage' = "ready"
  /\ StartLoad(n, view)
  /\ UNCHANGED <<me, rows, view, lastRows, form, asked, events, ghost>>

ChangeFilter ==
  /\ Event /\ Uncovered
  /\ \E f \in DOMAIN view.pick :
       \E x \in {""} \cup (IF f = "status" THEN {"PLANNED"} ELSE options.client) :
         /\ x # view.pick[f]
         /\ load([view EXCEPT !.pick[f] = x])

SortColumn ==
  /\ Event /\ Uncovered
  /\ load(Sorted(view))

TimerFires ==
  /\ view.timer
  /\ load([view EXCEPT !.timer = FALSE])
  /\ UNCHANGED events

renderRows(found) == IF canWrite THEN "rows" ELSE "plain"

loaded(n) == EndLoad(n, renderRows(calls[n].found))

-----------------------------------------------------------------------------
EmptyForm == [name |-> "", status |-> "PLANNED", client |-> None]

openModal(i) ==
  /\ Uncovered
  /\ IF i = 0 THEN canWrite ELSE Lists /\ i \in DOMAIN lastRows
  /\ Opened(i, IF i = 0 THEN None ELSE lastRows[i],
            IF i = 0 THEN EmptyForm
            ELSE [lastRows[i] EXCEPT !.client = Shown(@, options.client)],
            IF canWrite THEN DOMAIN EmptyForm ELSE {}, canWrite)

Offers(f) ==
  CASE f = "name"   -> Text
    [] f = "status" -> {"PLANNED", "COMPLETED"}
    [] f = "client" -> options.client \cup {None}

Fillings == {<<>>} \cup UNION {[{f} -> Offers(f)] : f \in dialog.editable}

save ==
  /\ dialog.open /\ dialog.canSave /\ ~busy
  /\ \E filled \in Fillings :
       LET body == Merged(filled, dialog.values) IN
       IF body.name = "" THEN RefuseSave ELSE StartSave(body, DOMAIN filled)

saved(n) == EndSave(n)

handleDelete ==
  /\ Uncovered
  /\ table = "rows"
  /\ \E i \in DOMAIN lastRows : confirmAction(i)

deleted(n) == EndDelete(n)

-----------------------------------------------------------------------------
accepts(c) == me.role = "MANAGER" /\ (c.row # 0 => c.row \in Alive)
Created(body) == body
Versions(p) == {Gone, [p EXCEPT !.status = "COMPLETED"]}

Init ==
  /\ me \in [role : {"MANAGER", "EMPLOYEE"}]
  /\ \E c \in Choice["client"] :
       rows = << [name |-> "first", status |-> "PLANNED", client |-> c] >>
  /\ options = [client |-> {}]
  /\ PageInit([search |-> "", pick |-> [status |-> "", client |-> ""],
               up |-> FALSE, sort |-> "default", timer |-> FALSE])

Handlers ==
  \/ guardPassed
  \/ TimerFires
  \/ \E n \in DOMAIN calls : loadClientOptions(n) \/ loaded(n) \/ saved(n) \/ deleted(n)

User ==
  \/ \E x \in Text \cup {""} : Uncovered /\ debounce(x)
  \/ ChangeFilter \/ SortColumn
  \/ openModal(0) \/ \E i \in DOMAIN lastRows : openModal(i)
  \/ closeModal \/ save \/ handleDelete
  \/ \E yes \in BOOLEAN : ConfirmAnswered(yes)

Next ==
  \/ Handlers \/ User \/ Lose
  \/ \E n \in DOMAIN calls : Serve(n, accepts(calls[n]), Created(calls[n].body))
  \/ \E i \in Alive : OtherEdits(i, Versions(rows[i]))
=============================================================================

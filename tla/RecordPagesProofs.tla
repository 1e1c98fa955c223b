-------------------------- MODULE RecordPagesProofs -------------------------
(***************************************************************************)
(* What RecordPages promises, for any texts, choices, options and numbers. *)
(* The five pages differ in their handlers, but each handler is a step of  *)
(* one common machine, PageStep.  The first part proves that of each page; *)
(* the promises are then proved once, of that machine.                     *)
(***************************************************************************)
EXTENDS RecordPages, RequestLists

-----------------------------------------------------------------------------
(* The common machine.                                                     *)

\* The page comes up with its list, or asks for its options first.
ComesUp(v) ==
  /\ stage' = "ready"
  /\ view' = v
  /\ StartLoad(0, v)
  /\ UNCHANGED <<me, rows, lastRows, options, form, asked, events, ghost>>

\* A control changes, the timer fires, or the page comes up.
Loads == \E v : DOMAIN v = DOMAIN view /\ (Reload(v) \/ ComesUp(v))

AsksForOptions ==
  /\ stage' = "options"
  /\ \/ \E s : Turn(0, <<OptionCall(s)>>)
     \/ \E s, t : Turn(0, <<OptionCall(s), OptionCall(t)>>)
  /\ UNCHANGED <<me, rows, list, options, form, asked, events, ghost>>

EndOptions(n) ==
  /\ Is(n, "options")
  /\ DOMAIN options' = DOMAIN options
  /\ \/ stage' = "ready" /\ StartLoad(n, view)
     \/ Turn(n, <<>>) /\ UNCHANGED <<stage, table>>
  /\ UNCHANGED <<me, rows, view, lastRows, form, asked, events, ghost>>

\* What a form shows of a row: its fields, or no option or day.
Faithful(values, copy) ==
  \A f \in DOMAIN values :
    values[f] = copy[f] \/ (f \in DOMAIN options \cup {"due"} /\ values[f] = None)

\* An employee can save no more than the status of a listed task of theirs.
OwnStatus(i, copy, values, editable) ==
  /\ i \in DOMAIN lastRows /\ copy = lastRows[i]
  /\ copy.assignee = me.who /\ ~Tasks!Locked(copy)
  /\ editable = {"status"} /\ values.status = copy.status

\* Whatever can be saved shows the row it edits.
Opens ==
  \E i, copy, values, editable, canSave :
    /\ Opened(i, copy, values, editable, canSave)
    /\ i # 0 /\ canSave => Faithful(values, copy)
    /\ page = "tasks" => /\ "status" \in DOMAIN values
                         /\ me.role = "EMPLOYEE" /\ canSave => OwnStatus(i, copy, values, editable)

\* What is sent and was not filled in is what the form shows.
Sends(body, filled) ==
  /\ dialog.open /\ dialog.canSave /\ ~busy
  /\ StartSave(body, filled)
  /\ \A f \in DOMAIN body \ filled : f \in DOMAIN dialog.values /\ body[f] = dialog.values[f]
  /\ page = "tasks" /\ dialog.editable = {"status"} =>
       DOMAIN body = {"status"} /\ body.status \in {dialog.values.status} \cup Tasks!restrictStatusOptions

Saves == \E body, filled : Sends(body, filled)

\* What the handlers of a page do, and what happens to it.
InPage ==
  \/ Loads \/ AsksForOptions
  \/ \E n \in DOMAIN calls :
       EndOptions(n) \/ (\E shows : EndLoad(n, shows)) \/ EndSave(n) \/ EndDelete(n)
  \/ \E x : debounce(x)
  \/ Opens \/ Saves \/ RefuseSave \/ closeModal
  \/ \E i : confirmAction(i)
  \/ \E yes : ConfirmAnswered(yes)

PageStep ==
  \/ InPage \/ Lose
  \/ \E n \in DOMAIN calls : \E ok, new : Serve(n, ok, new)
  \/ \E i, versions : OtherEdits(i, versions)

-----------------------------------------------------------------------------
(* The invariants.                                                         *)

IsList(s) == s \in Seq({s[i] : i \in DOMAIN s})

CallShape(c) ==
  /\ c.phase \in {"sent", "ok", "refused", "lost"}
  /\ \/ c = [kind |-> "list", query |-> c.query, phase |-> c.phase] /\ c.phase # "ok"
     \/ c = [kind |-> "list", phase |-> c.phase, found |-> c.found] /\ c.phase # "sent"
     \/ c = [kind |-> "options", select |-> c.select, phase |-> c.phase]
     \/ c = [kind |-> "delete", row |-> c.row, phase |-> c.phase]
     \/ c = [kind |-> "save", row |-> c.row, body |-> c.body, filled |-> c.filled,
             copy |-> c.copy, filling |-> c.filling, phase |-> c.phase]

DialogShape ==
  dialog = [open |-> dialog.open, row |-> dialog.row, copy |-> dialog.copy,
            values |-> dialog.values, editable |-> dialog.editable,
            canSave |-> dialog.canSave, error |-> dialog.error, filling |-> dialog.filling]

Shape ==
  /\ IsList(rows) /\ IsList(calls) /\ DialogShape /\ "timer" \in DOMAIN view
  /\ \A n \in DOMAIN calls : CallShape(calls[n])
  /\ page = "tasks" => DOMAIN options = {"assignee", "project"}
  /\ page = "projects" => DOMAIN options = {"client"}
  /\ page = "tasks" /\ dialog.open => "status" \in DOMAIN dialog.values

\* A write that has been done will be followed by a load.
Reloading ==
  \E n \in DOMAIN calls : calls[n].kind \in {"save", "delete"} /\ calls[n].phase = "ok"

\* The last load under way asks for what the filters say and, when answered,
\* has found what is there; when there is none, the rows on the screen are so.
FreshInv ==
  (stage = "ready" /\ ~view.timer /\ ~excused /\ ~Reloading) =>
    /\ \A n : Latest(calls, "list", n) =>
         /\ calls[n].phase = "sent" => calls[n].query = Query(view)
         /\ calls[n].phase = "ok" => calls[n].found = Answer(Query(view))
    /\ (~Has(calls, "list") /\ Lists) => lastRows = Answer(Query(view))

ListedInv ==
  /\ (dialog.open /\ dialog.canSave /\ dialog.row # 0) => Faithful(dialog.values, dialog.copy)
  /\ SentAsListed

\* Saves come one at a time, and what waits to create has not created yet.
OnceInv ==
  /\ dialog.filling \in Nat
  /\ \A x \in stored : x \in Nat /\ x <= dialog.filling
  /\ ~Twice(calls, "save") /\ (~busy => ~Has(calls, "save"))
  /\ \A n \in DOMAIN calls :
        calls[n].kind = "save" => calls[n].filling \in Nat /\ calls[n].filling <= dialog.filling
  /\ ~excused =>
       /\ \A n \in DOMAIN calls :
            (calls[n].kind = "save" /\ calls[n].phase = "sent" /\ calls[n].row = 0)
              => calls[n].filling \notin stored
       /\ (dialog.open /\ dialog.row = 0
             /\ \A n \in DOMAIN calls : ~(calls[n].kind = "save" /\ calls[n].phase = "ok"))
            => dialog.filling \notin stored

TaskRow(t) == "status" \in DOMAIN t /\ t.status \in Tasks!Status

\* An unlocked task of the employee who looks.
Mine(t) == t # Gone /\ TaskRow(t) /\ t.assignee = me.who /\ ~Tasks!Locked(t)

Known(found) ==
  \A i \in DOMAIN found : i \in DOMAIN rows /\ found[i] # Gone /\ TaskRow(found[i])

\* What an employee has listed, opened and sent: changes of status of a task
\* that was, as listed, theirs to move there.
EmployeeInv ==
  (page = "tasks" /\ me.role = "EMPLOYEE") =>
    /\ \A i \in DOMAIN rows : rows[i] # Gone => TaskRow(rows[i])
    /\ Known(lastRows)
    /\ \A n \in DOMAIN calls :
         calls[n].kind = "list" /\ calls[n].phase = "ok" => Known(calls[n].found)
    /\ (dialog.open /\ dialog.canSave) =>
         /\ dialog.row \in DOMAIN rows /\ Mine(dialog.copy)
         /\ dialog.editable = {"status"}
         /\ dialog.values.status = dialog.copy.status
    /\ \A n \in DOMAIN calls :
         calls[n].kind = "save" =>
           /\ calls[n].row \in DOMAIN rows /\ Mine(calls[n].copy)
           /\ DOMAIN calls[n].body = {"status"}
           /\ calls[n].body.status \in Tasks!Status
           /\ Tasks!Movable(calls[n].copy.status, calls[n].body.status)

-----------------------------------------------------------------------------
(* Each page is an instance of it.                                         *)

\* The operators of Tasks, which extends RecordPage, are those of RecordPage.
LEMMA TasksParts ==
  /\ \A n, more : Tasks!Turn(n, more) <=> Turn(n, more)
  /\ \A n, v : Tasks!StartLoad(n, v) <=> StartLoad(n, v)
  /\ \A v : Tasks!Reload(v) => Reload(v)
  /\ \A n, shows : Tasks!EndLoad(n, shows) => EndLoad(n, shows)
  /\ \A n : Tasks!EndSave(n) => EndSave(n)
  /\ \A n : Tasks!EndDelete(n) => EndDelete(n)
  /\ \A x : Tasks!debounce(x) => debounce(x)
  /\ \A i, copy, values, editable, canSave :
       Tasks!Opened(i, copy, values, editable, canSave) => Opened(i, copy, values, editable, canSave)
  /\ \A body, filled : Tasks!StartSave(body, filled) => StartSave(body, filled)
  /\ Tasks!RefuseSave => RefuseSave
  /\ Tasks!closeModal => closeModal
  /\ \A i : Tasks!confirmAction(i) => confirmAction(i)
  /\ \A yes : Tasks!ConfirmAnswered(yes) => ConfirmAnswered(yes)
  /\ Tasks!Lose => Lose
  /\ \A n, ok, new : Tasks!Serve(n, ok, new) => Serve(n, ok, new)
  /\ \A i, versions : Tasks!OtherEdits(i, versions) => OtherEdits(i, versions)
<1> USE DEF list, Tasks!list, form, Tasks!form, ghost, Tasks!ghost, Event, Tasks!Event
<1>1. \A v : Tasks!Query(v) = Query(v)
  BY DEF Query, Tasks!Query, Given, Tasks!Given, Restrict, Tasks!Restrict
<1>2. \A q : Tasks!Answer(q) = Answer(q)
  <2>1. \A S : Tasks!Cardinality(S) = Cardinality(S)
    BY DEF Cardinality, Tasks!Cardinality
  <2> QED
    BY <2>1, Zenon DEF Answer, Tasks!Answer, Matches, Tasks!Matches, Alive, Tasks!Alive, Restrict, Tasks!Restrict
<1>3. \A n, more : Tasks!Turn(n, more) <=> Turn(n, more)
  BY Zenon DEF Turn, Tasks!Turn
<1>4. \A n, v : Tasks!StartLoad(n, v) <=> StartLoad(n, v)
  BY <1>1, <1>3, Zenon DEF StartLoad, Tasks!StartLoad, ListCall, Tasks!ListCall
<1>5. \A n, k : (Tasks!Is(n, k) <=> Is(n, k)) /\ (Tasks!Answered(n, k) <=> Answered(n, k))
  BY Zenon DEF Is, Tasks!Is, Answered, Tasks!Answered
<1>6. \A v : Tasks!Reload(v) => Reload(v)
  BY <1>4, Zenon DEF Reload, Tasks!Reload
<1>7. \A n, shows : Tasks!EndLoad(n, shows) => EndLoad(n, shows)
  BY <1>3, <1>5, Zenon DEF EndLoad, Tasks!EndLoad
<1>8. Tasks!AfterClose = AfterClose
  BY Zenon DEF AfterClose, Tasks!AfterClose, Closed, Tasks!Closed
<1>9. \A n : Tasks!EndSave(n) => EndSave(n)
  BY <1>3, <1>4, <1>5, <1>8, Zenon DEF EndSave, Tasks!EndSave
<1>10. \A n : Tasks!EndDelete(n) => EndDelete(n)
  BY <1>3, <1>4, <1>5, Zenon DEF EndDelete, Tasks!EndDelete
<1>11. \A x : Tasks!debounce(x) => debounce(x)
  BY Zenon DEF debounce, Tasks!debounce
<1>12. \A i, copy, values, editable, canSave :
         Tasks!Opened(i, copy, values, editable, canSave) => Opened(i, copy, values, editable, canSave)
  BY Zenon DEF Opened, Tasks!Opened
<1>13. \A body, filled : Tasks!StartSave(body, filled) => StartSave(body, filled)
  BY <1>3, Zenon DEF StartSave, Tasks!StartSave, SaveCall, Tasks!SaveCall
<1>14. (Tasks!RefuseSave => RefuseSave) /\ (Tasks!closeModal => closeModal)
  BY <1>8, Zenon DEF RefuseSave, Tasks!RefuseSave, closeModal, Tasks!closeModal
<1>15. \A i : Tasks!confirmAction(i) => confirmAction(i)
  BY Zenon DEF confirmAction, Tasks!confirmAction
<1>16. \A yes : Tasks!ConfirmAnswered(yes) => ConfirmAnswered(yes)
  BY <1>3, Zenon DEF ConfirmAnswered, Tasks!ConfirmAnswered, DeleteCall, Tasks!DeleteCall
<1>17. Tasks!Lose => Lose
  BY Zenon DEF Lose, Tasks!Lose, Others, Tasks!Others
<1>18. \A n, ok, new : Tasks!Serve(n, ok, new) => Serve(n, ok, new)
  <2>1. \A n : Tasks!ServeList(n) => ServeList(n)
    BY <1>2, <1>5, Zenon DEF ServeList, Tasks!ServeList
  <2>2. \A n, ok, new : Tasks!ServeSave(n, ok, new) => ServeSave(n, ok, new)
    BY <1>5, Zenon DEF ServeSave, Tasks!ServeSave, Merged, Tasks!Merged, Restrict, Tasks!Restrict
  <2>3. \A n, ok : Tasks!ServeDelete(n, ok) => ServeDelete(n, ok)
    BY <1>5, Zenon DEF ServeDelete, Tasks!ServeDelete, Alive, Tasks!Alive
  <2> QED
    BY <2>1, <2>2, <2>3, Zenon DEF Serve, Tasks!Serve, Others, Tasks!Others
<1>19. \A i, versions : Tasks!OtherEdits(i, versions) => OtherEdits(i, versions)
  BY Zenon DEF OtherEdits, Tasks!OtherEdits, Others, Tasks!Others
<1> QED
  BY <1>3, <1>4, <1>6, <1>7, <1>9, <1>10, <1>11, <1>12, <1>13, <1>14, <1>15, <1>16, <1>17, <1>18, <1>19, Zenon

\* Every step of the tasks page is a step of the common machine.
LEMMA TasksNext ==
  ASSUME Shape, page = "tasks", Tasks!Next
  PROVE  \/ InPage \/ Lose
         \/ \E n \in DOMAIN calls : Serve(n, Tasks!accepts(calls[n]), Tasks!Created(calls[n].body))
         \/ \E i \in Alive : OtherEdits(i, Tasks!Versions(rows[i]))
<1> USE TasksParts
<1>1. Tasks!guardPassed => AsksForOptions
  BY Zenon DEF AsksForOptions, Tasks!guardPassed, OptionCall, Tasks!OptionCall,
     list, Tasks!list, form, Tasks!form, ghost, Tasks!ghost
<1>2. Tasks!TimerFires \/ Tasks!ChangeFilter \/ Tasks!SortColumn => Loads
  <2>1. Tasks!TimerFires => \E v : v = [view EXCEPT !.timer = FALSE] /\ Reload(v)
    BY Zenon DEF Tasks!TimerFires, Tasks!load
  <2>2. Tasks!ChangeFilter => \E v, f, x : v = [view EXCEPT !.pick[f] = x] /\ Reload(v)
    BY Zenon DEF Tasks!ChangeFilter, Tasks!load
  <2>3. Tasks!SortColumn => \E v : v = Tasks!Sorted(view) /\ Reload(v)
    BY Zenon DEF Tasks!SortColumn, Tasks!load
  <2>4. \A v : (\/ v = [view EXCEPT !.timer = FALSE]
               \/ \E f, x : v = [view EXCEPT !.pick[f] = x]
               \/ v = Tasks!Sorted(view)) => DOMAIN v = DOMAIN view
    BY DEF Tasks!Sorted
  <2> QED
    BY <2>1, <2>2, <2>3, <2>4, Zenon DEF Loads
<1>3. \A n : Tasks!loadOptions(n) => EndOptions(n)
  <2> SUFFICES ASSUME NEW n, Tasks!loadOptions(n) PROVE EndOptions(n)
    OBVIOUS
  <2>1. Is(n, "options") /\ options' = Tasks!AddOptions(n)
    BY Zenon DEF Tasks!loadOptions, Is, Tasks!Is
  <2>2. DOMAIN options' = DOMAIN options
    BY <2>1 DEF Tasks!AddOptions
  <2> QED
    BY <2>1, <2>2, Zenon DEF EndOptions, Tasks!loadOptions, form, Tasks!form, ghost, Tasks!ghost
<1>4. \A n : Tasks!loaded(n) => \E shows : EndLoad(n, shows)
  BY Zenon DEF Tasks!loaded
<1>5. \A n : (Tasks!saved(n) => EndSave(n)) /\ (Tasks!deleted(n) => EndDelete(n))
  BY Zenon DEF Tasks!saved, Tasks!deleted
<1>6. \A i : Tasks!openModal(i) => Opens
  <2> SUFFICES ASSUME NEW i, Tasks!openModal(i) PROVE Opens
    OBVIOUS
  <2> DEFINE copy == IF i = 0 THEN None ELSE lastRows[i]
             values == IF i = 0 THEN Tasks!EmptyForm ELSE Tasks!FormOf(lastRows[i])
             editable == IF Tasks!fullEdit(i) THEN DOMAIN Tasks!EmptyForm
                         ELSE IF Tasks!statusOnlyEdit(i) THEN {"status"} ELSE {}
             canSave == Tasks!fullEdit(i) \/ Tasks!statusOnlyEdit(i)
  <2>1. Opened(i, copy, values, editable, canSave)
    BY Zenon DEF Tasks!openModal
  <2>2. "status" \in DOMAIN values
    BY DEF Tasks!EmptyForm, Tasks!FormOf
  <2>3. i # 0 => Faithful(values, copy)
    BY DEF Faithful, Tasks!FormOf, Tasks!Shown, Tasks!DateShown, Shape
  <2>4. me.role = "EMPLOYEE" /\ canSave => OwnStatus(i, copy, values, editable)
    BY DEF Tasks!openModal, Tasks!fullEdit, Tasks!statusOnlyEdit, Tasks!canWriteGlobally, Tasks!FormOf,
           OwnStatus
  <2> HIDE DEF copy, values, editable, canSave
  <2> QED
    BY <2>1, <2>2, <2>3, <2>4, Zenon DEF Opens
<1>7. Tasks!save => Saves \/ RefuseSave
  <2> SUFFICES ASSUME Tasks!save, ~RefuseSave PROVE Saves
    OBVIOUS
  <2>1. dialog.open /\ dialog.canSave /\ ~busy
    BY DEF Tasks!save
  <2>2. PICK filled \in Tasks!Fillings :
               LET body == Tasks!Merged(filled, dialog.values) IN
               \/ dialog.editable = {"status"} /\ StartSave([status |-> body.status], DOMAIN filled)
               \/ dialog.editable # {"status"} /\ StartSave(body, DOMAIN filled)
    BY Zenon DEF Tasks!save
  <2> DEFINE body == Tasks!Merged(filled, dialog.values)
  <2>3. \A f \in DOMAIN body \ DOMAIN filled : f \in DOMAIN dialog.values /\ body[f] = dialog.values[f]
    BY DEF Tasks!Merged
  <2>4. "status" \in DOMAIN body
    BY <2>1 DEF Tasks!Merged, Shape
  <2>5. CASE dialog.editable = {"status"} /\ StartSave([status |-> body.status], DOMAIN filled)
    <3> DEFINE sent == [status |-> body.status]
    <3>1. body.status \in {dialog.values.status} \cup Tasks!restrictStatusOptions
      <4>1. CASE filled = <<>>
        BY <2>1, <4>1 DEF Tasks!Merged, Shape
      <4>2. CASE filled \in [{"status"} -> Tasks!Offers("status")]
        BY <4>2 DEF Tasks!Merged, Tasks!Offers
      <4> QED
        BY <2>5, <4>1, <4>2 DEF Tasks!Fillings
    <3> HIDE DEF body
    <3>2. \A f \in DOMAIN sent \ DOMAIN filled : f \in DOMAIN dialog.values /\ sent[f] = dialog.values[f]
      BY <2>3, <2>4
    <3>3. StartSave(sent, DOMAIN filled) /\ DOMAIN sent = {"status"} /\ sent.status = body.status
      BY <2>5
    <3> HIDE DEF sent
    <3> QED
      BY <2>1, <3>1, <3>2, <3>3 DEF Saves, Sends
  <2> HIDE DEF body
  <2>6. CASE dialog.editable # {"status"} /\ StartSave(body, DOMAIN filled)
    BY <2>1, <2>3, <2>6 DEF Saves, Sends
  <2> QED
    BY <2>2, <2>5, <2>6 DEF body
<1>8. Tasks!handleDelete => \E i : confirmAction(i)
  BY Zenon DEF Tasks!handleDelete
<1> HIDE TasksParts
<1>a. CASE Tasks!Handlers
  BY <1>a, <1>1, <1>2, <1>3, <1>4, <1>5, <1>6, <1>7, <1>8, Zenon DEF Tasks!Handlers, InPage
<1>b. CASE Tasks!User
  BY <1>b, TasksParts, <1>1, <1>2, <1>3, <1>4, <1>5, <1>6, <1>7, <1>8, Zenon DEF Tasks!User, InPage
<1>c. CASE Tasks!Lose
  BY <1>c, TasksParts, Zenon
<1>d. CASE \E n \in DOMAIN calls : Tasks!Serve(n, Tasks!accepts(calls[n]), Tasks!Created(calls[n].body))
  BY <1>d, TasksParts, Zenon
<1>e. CASE \E i \in Tasks!Alive : Tasks!OtherEdits(i, Tasks!Versions(rows[i]))
  <2>1. Tasks!Alive = Alive
    BY DEF Alive, Tasks!Alive
  <2> QED
    BY <1>e, <2>1, TasksParts, Zenon
<1> QED
  BY <1>a, <1>b, <1>c, <1>d, <1>e, Zenon DEF Tasks!Next

\* So are the steps of the tasks page.
LEMMA TasksSteps == ASSUME Shape, page = "tasks", Tasks!Next PROVE PageStep
BY TasksNext, Zenon DEF PageStep

\* The operators of Projects, which extends RecordPage, are those of RecordPage.
LEMMA ProjectsParts ==
  /\ \A n, more : Projects!Turn(n, more) <=> Turn(n, more)
  /\ \A n, v : Projects!StartLoad(n, v) <=> StartLoad(n, v)
  /\ \A v : Projects!Reload(v) => Reload(v)
  /\ \A n, shows : Projects!EndLoad(n, shows) => EndLoad(n, shows)
  /\ \A n : Projects!EndSave(n) => EndSave(n)
  /\ \A n : Projects!EndDelete(n) => EndDelete(n)
  /\ \A x : Projects!debounce(x) => debounce(x)
  /\ \A i, copy, values, editable, canSave :
       Projects!Opened(i, copy, values, editable, canSave) => Opened(i, copy, values, editable, canSave)
  /\ \A body, filled : Projects!StartSave(body, filled) => StartSave(body, filled)
  /\ Projects!RefuseSave => RefuseSave
  /\ Projects!closeModal => closeModal
  /\ \A i : Projects!confirmAction(i) => confirmAction(i)
  /\ \A yes : Projects!ConfirmAnswered(yes) => ConfirmAnswered(yes)
  /\ Projects!Lose => Lose
  /\ \A n, ok, new : Projects!Serve(n, ok, new) => Serve(n, ok, new)
  /\ \A i, versions : Projects!OtherEdits(i, versions) => OtherEdits(i, versions)
<1> USE DEF list, Projects!list, form, Projects!form, ghost, Projects!ghost, Event, Projects!Event
<1>1. \A v : Projects!Query(v) = Query(v)
  BY DEF Query, Projects!Query, Given, Projects!Given, Restrict, Projects!Restrict
<1>2. \A q : Projects!Answer(q) = Answer(q)
  <2>1. \A S : Projects!Cardinality(S) = Cardinality(S)
    BY DEF Cardinality, Projects!Cardinality
  <2> QED
    BY <2>1, Zenon DEF Answer, Projects!Answer, Matches, Projects!Matches, Alive, Projects!Alive, Restrict, Projects!Restrict
<1>3. \A n, more : Projects!Turn(n, more) <=> Turn(n, more)
  BY Zenon DEF Turn, Projects!Turn
<1>4. \A n, v : Projects!StartLoad(n, v) <=> StartLoad(n, v)
  BY <1>1, <1>3, Zenon DEF StartLoad, Projects!StartLoad, ListCall, Projects!ListCall
<1>5. \A n, k : (Projects!Is(n, k) <=> Is(n, k)) /\ (Projects!Answered(n, k) <=> Answered(n, k))
  BY Zenon DEF Is, Projects!Is, Answered, Projects!Answered
<1>6. \A v : Projects!Reload(v) => Reload(v)
  BY <1>4, Zenon DEF Reload, Projects!Reload
<1>7. \A n, shows : Projects!EndLoad(n, shows) => EndLoad(n, shows)
  BY <1>3, <1>5, Zenon DEF EndLoad, Projects!EndLoad
<1>8. Projects!AfterClose = AfterClose
  BY Zenon DEF AfterClose, Projects!AfterClose, Closed, Projects!Closed
<1>9. \A n : Projects!EndSave(n) => EndSave(n)
  BY <1>3, <1>4, <1>5, <1>8, Zenon DEF EndSave, Projects!EndSave
<1>10. \A n : Projects!EndDelete(n) => EndDelete(n)
  BY <1>3, <1>4, <1>5, Zenon DEF EndDelete, Projects!EndDelete
<1>11. \A x : Projects!debounce(x) => debounce(x)
  BY Zenon DEF debounce, Projects!debounce
<1>12. \A i, copy, values, editable, canSave :
         Projects!Opened(i, copy, values, editable, canSave) => Opened(i, copy, values, editable, canSave)
  BY Zenon DEF Opened, Projects!Opened
<1>13. \A body, filled : Projects!StartSave(body, filled) => StartSave(body, filled)
  BY <1>3, Zenon DEF StartSave, Projects!StartSave, SaveCall, Projects!SaveCall
<1>14. (Projects!RefuseSave => RefuseSave) /\ (Projects!closeModal => closeModal)
  BY <1>8, Zenon DEF RefuseSave, Projects!RefuseSave, closeModal, Projects!closeModal
<1>15. \A i : Projects!confirmAction(i) => confirmAction(i)
  BY Zenon DEF confirmAction, Projects!confirmAction
<1>16. \A yes : Projects!ConfirmAnswered(yes) => ConfirmAnswered(yes)
  BY <1>3, Zenon DEF ConfirmAnswered, Projects!ConfirmAnswered, DeleteCall, Projects!DeleteCall
<1>17. Projects!Lose => Lose
  BY Zenon DEF Lose, Projects!Lose, Others, Projects!Others
<1>18. \A n, ok, new : Projects!Serve(n, ok, new) => Serve(n, ok, new)
  <2>1. \A n : Projects!ServeList(n) => ServeList(n)
    BY <1>2, <1>5, Zenon DEF ServeList, Projects!ServeList
  <2>2. \A n, ok, new : Projects!ServeSave(n, ok, new) => ServeSave(n, ok, new)
    BY <1>5, Zenon DEF ServeSave, Projects!ServeSave, Merged, Projects!Merged, Restrict, Projects!Restrict
  <2>3. \A n, ok : Projects!ServeDelete(n, ok) => ServeDelete(n, ok)
    BY <1>5, Zenon DEF ServeDelete, Projects!ServeDelete, Alive, Projects!Alive
  <2> QED
    BY <2>1, <2>2, <2>3, Zenon DEF Serve, Projects!Serve, Others, Projects!Others
<1>19. \A i, versions : Projects!OtherEdits(i, versions) => OtherEdits(i, versions)
  BY Zenon DEF OtherEdits, Projects!OtherEdits, Others, Projects!Others
<1> QED
  BY <1>3, <1>4, <1>6, <1>7, <1>9, <1>10, <1>11, <1>12, <1>13, <1>14, <1>15, <1>16, <1>17, <1>18, <1>19, Zenon

\* Every step of the projects page is a step of the common machine.
LEMMA ProjectsSteps == ASSUME Shape, page = "projects", Projects!Next PROVE PageStep
<1> USE ProjectsParts
<1>1. Projects!guardPassed => AsksForOptions
  BY Zenon DEF AsksForOptions, Projects!guardPassed, OptionCall, Projects!OptionCall,
     list, Projects!list, form, Projects!form, ghost, Projects!ghost
<1>2. Projects!TimerFires \/ Projects!ChangeFilter \/ Projects!SortColumn => Loads
  <2>1. Projects!TimerFires => \E v : v = [view EXCEPT !.timer = FALSE] /\ Reload(v)
    BY Zenon DEF Projects!TimerFires, Projects!load
  <2>2. Projects!ChangeFilter => \E v, f, x : v = [view EXCEPT !.pick[f] = x] /\ Reload(v)
    BY Zenon DEF Projects!ChangeFilter, Projects!load
  <2>3. Projects!SortColumn => \E v : v = Projects!Sorted(view) /\ Reload(v)
    BY Zenon DEF Projects!SortColumn, Projects!load
  <2>4. \A v : (\/ v = [view EXCEPT !.timer = FALSE]
               \/ \E f, x : v = [view EXCEPT !.pick[f] = x]
               \/ v = Projects!Sorted(view)) => DOMAIN v = DOMAIN view
    BY DEF Projects!Sorted
  <2> QED
    BY <2>1, <2>2, <2>3, <2>4, Zenon DEF Loads
<1>3. \A n : Projects!loadClientOptions(n) => EndOptions(n)
  <2> SUFFICES ASSUME NEW n, Projects!loadClientOptions(n) PROVE EndOptions(n)
    OBVIOUS
  <2>1. DOMAIN options' = DOMAIN options
    BY DEF Projects!loadClientOptions, Shape
  <2> QED
    BY <2>1, Zenon DEF EndOptions, Projects!loadClientOptions, Is, Projects!Is, form, Projects!form,
       ghost, Projects!ghost
<1>4. \A n : Projects!loaded(n) => \E shows : EndLoad(n, shows)
  BY Zenon DEF Projects!loaded
<1>5. \A n : (Projects!saved(n) => EndSave(n)) /\ (Projects!deleted(n) => EndDelete(n))
  BY Zenon DEF Projects!saved, Projects!deleted
<1>6. \A i : Projects!openModal(i) => Opens
  <2> SUFFICES ASSUME NEW i, Projects!openModal(i) PROVE Opens
    OBVIOUS
  <2> DEFINE copy == IF i = 0 THEN None ELSE lastRows[i]
             values == IF i = 0 THEN Projects!EmptyForm ELSE [lastRows[i] EXCEPT !.client = Projects!Shown(@, options.client)]
  <2>1. \E editable, canSave : Opened(i, copy, values, editable, canSave)
    BY Zenon DEF Projects!openModal
  <2>2. i # 0 => Faithful(values, copy)
    BY DEF Faithful, Projects!Shown, Shape
  <2> HIDE DEF copy, values
  <2> QED
    BY <2>1, <2>2, Zenon DEF Opens
<1>7. Projects!save => Saves \/ RefuseSave
  <2> SUFFICES ASSUME Projects!save, ~RefuseSave PROVE Saves
    OBVIOUS
  <2>1. dialog.open /\ dialog.canSave /\ ~busy
    BY DEF Projects!save
  <2>2. PICK filled : StartSave(Projects!Merged(filled, dialog.values), DOMAIN filled)
    BY Zenon DEF Projects!save
  <2> DEFINE body == Projects!Merged(filled, dialog.values)
  <2>3. \A f \in DOMAIN body \ DOMAIN filled : f \in DOMAIN dialog.values /\ body[f] = dialog.values[f]
    BY DEF Projects!Merged
  <2>4. StartSave(body, DOMAIN filled)
    BY <2>2
  <2> HIDE DEF body
  <2> QED
    BY <2>1, <2>3, <2>4 DEF Saves, Sends
<1>8. Projects!handleDelete => \E i : confirmAction(i)
  BY Zenon DEF Projects!handleDelete
<1> HIDE ProjectsParts
<1>a. CASE Projects!Handlers
  BY <1>a, <1>1, <1>2, <1>3, <1>4, <1>5, <1>6, <1>7, <1>8, Zenon DEF Projects!Handlers, PageStep, InPage
<1>b. CASE Projects!User
  BY <1>b, ProjectsParts, <1>1, <1>2, <1>3, <1>4, <1>5, <1>6, <1>7, <1>8, Zenon DEF Projects!User, PageStep, InPage
<1>c. CASE Projects!Lose \/ (\E n \in DOMAIN calls : Projects!Serve(n, Projects!accepts(calls[n]), Projects!Created(calls[n].body)))
          \/ (\E i \in Projects!Alive : Projects!OtherEdits(i, Projects!Versions(rows[i])))
  BY <1>c, ProjectsParts, Zenon DEF PageStep
<1> QED
  BY <1>a, <1>b, <1>c, Zenon DEF Projects!Next, PageStep

\* The operators of Clients, which extends RecordPage, are those of RecordPage.
LEMMA ClientsParts ==
  /\ \A n, more : Clients!Turn(n, more) <=> Turn(n, more)
  /\ \A n, v : Clients!StartLoad(n, v) <=> StartLoad(n, v)
  /\ \A v : Clients!Reload(v) => Reload(v)
  /\ \A n, shows : Clients!EndLoad(n, shows) => EndLoad(n, shows)
  /\ \A n : Clients!EndSave(n) => EndSave(n)
  /\ \A n : Clients!EndDelete(n) => EndDelete(n)
  /\ \A x : Clients!debounce(x) => debounce(x)
  /\ \A i, copy, values, editable, canSave :
       Clients!Opened(i, copy, values, editable, canSave) => Opened(i, copy, values, editable, canSave)
  /\ \A body, filled : Clients!StartSave(body, filled) => StartSave(body, filled)
  /\ Clients!RefuseSave => RefuseSave
  /\ Clients!closeModal => closeModal
  /\ \A i : Clients!confirmAction(i) => confirmAction(i)
  /\ \A yes : Clients!ConfirmAnswered(yes) => ConfirmAnswered(yes)
  /\ Clients!Lose => Lose
  /\ \A n, ok, new : Clients!Serve(n, ok, new) => Serve(n, ok, new)
  /\ \A i, versions : Clients!OtherEdits(i, versions) => OtherEdits(i, versions)
<1> USE DEF list, Clients!list, form, Clients!form, ghost, Clients!ghost, Event, Clients!Event
<1>1. \A v : Clients!Query(v) = Query(v)
  BY DEF Query, Clients!Query, Given, Clients!Given, Restrict, Clients!Restrict
<1>2. \A q : Clients!Answer(q) = Answer(q)
  <2>1. \A S : Clients!Cardinality(S) = Cardinality(S)
    BY DEF Cardinality, Clients!Cardinality
  <2> QED
    BY <2>1, Zenon DEF Answer, Clients!Answer, Matches, Clients!Matches, Alive, Clients!Alive, Restrict, Clients!Restrict
<1>3. \A n, more : Clients!Turn(n, more) <=> Turn(n, more)
  BY Zenon DEF Turn, Clients!Turn
<1>4. \A n, v : Clients!StartLoad(n, v) <=> StartLoad(n, v)
  BY <1>1, <1>3, Zenon DEF StartLoad, Clients!StartLoad, ListCall, Clients!ListCall
<1>5. \A n, k : (Clients!Is(n, k) <=> Is(n, k)) /\ (Clients!Answered(n, k) <=> Answered(n, k))
  BY Zenon DEF Is, Clients!Is, Answered, Clients!Answered
<1>6. \A v : Clients!Reload(v) => Reload(v)
  BY <1>4, Zenon DEF Reload, Clients!Reload
<1>7. \A n, shows : Clients!EndLoad(n, shows) => EndLoad(n, shows)
  BY <1>3, <1>5, Zenon DEF EndLoad, Clients!EndLoad
<1>8. Clients!AfterClose = AfterClose
  BY Zenon DEF AfterClose, Clients!AfterClose, Closed, Clients!Closed
<1>9. \A n : Clients!EndSave(n) => EndSave(n)
  BY <1>3, <1>4, <1>5, <1>8, Zenon DEF EndSave, Clients!EndSave
<1>10. \A n : Clients!EndDelete(n) => EndDelete(n)
  BY <1>3, <1>4, <1>5, Zenon DEF EndDelete, Clients!EndDelete
<1>11. \A x : Clients!debounce(x) => debounce(x)
  BY Zenon DEF debounce, Clients!debounce
<1>12. \A i, copy, values, editable, canSave :
         Clients!Opened(i, copy, values, editable, canSave) => Opened(i, copy, values, editable, canSave)
  BY Zenon DEF Opened, Clients!Opened
<1>13. \A body, filled : Clients!StartSave(body, filled) => StartSave(body, filled)
  BY <1>3, Zenon DEF StartSave, Clients!StartSave, SaveCall, Clients!SaveCall
<1>14. (Clients!RefuseSave => RefuseSave) /\ (Clients!closeModal => closeModal)
  BY <1>8, Zenon DEF RefuseSave, Clients!RefuseSave, closeModal, Clients!closeModal
<1>15. \A i : Clients!confirmAction(i) => confirmAction(i)
  BY Zenon DEF confirmAction, Clients!confirmAction
<1>16. \A yes : Clients!ConfirmAnswered(yes) => ConfirmAnswered(yes)
  BY <1>3, Zenon DEF ConfirmAnswered, Clients!ConfirmAnswered, DeleteCall, Clients!DeleteCall
<1>17. Clients!Lose => Lose
  BY Zenon DEF Lose, Clients!Lose, Others, Clients!Others
<1>18. \A n, ok, new : Clients!Serve(n, ok, new) => Serve(n, ok, new)
  <2>1. \A n : Clients!ServeList(n) => ServeList(n)
    BY <1>2, <1>5, Zenon DEF ServeList, Clients!ServeList
  <2>2. \A n, ok, new : Clients!ServeSave(n, ok, new) => ServeSave(n, ok, new)
    BY <1>5, Zenon DEF ServeSave, Clients!ServeSave, Merged, Clients!Merged, Restrict, Clients!Restrict
  <2>3. \A n, ok : Clients!ServeDelete(n, ok) => ServeDelete(n, ok)
    BY <1>5, Zenon DEF ServeDelete, Clients!ServeDelete, Alive, Clients!Alive
  <2> QED
    BY <2>1, <2>2, <2>3, Zenon DEF Serve, Clients!Serve, Others, Clients!Others
<1>19. \A i, versions : Clients!OtherEdits(i, versions) => OtherEdits(i, versions)
  BY Zenon DEF OtherEdits, Clients!OtherEdits, Others, Clients!Others
<1> QED
  BY <1>3, <1>4, <1>6, <1>7, <1>9, <1>10, <1>11, <1>12, <1>13, <1>14, <1>15, <1>16, <1>17, <1>18, <1>19, Zenon

\* Every step of the clients page is a step of the common machine.
LEMMA ClientsSteps == ASSUME Shape, page = "clients", Clients!Next PROVE PageStep
<1> USE ClientsParts
<1>1. Clients!guardPassed => Loads
  <2> SUFFICES ASSUME Clients!guardPassed PROVE ComesUp(view)
    BY Zenon DEF Loads
  <2> QED
    BY Zenon DEF ComesUp, Clients!guardPassed, form, Clients!form, ghost, Clients!ghost
<1>2. Clients!TimerFires \/ Clients!ChangeFilter \/ Clients!SortColumn => Loads
  <2>1. Clients!TimerFires => \E v : v = [view EXCEPT !.timer = FALSE] /\ Reload(v)
    BY Zenon DEF Clients!TimerFires, Clients!load
  <2>2. Clients!ChangeFilter => \E v, f, x : v = [view EXCEPT !.pick[f] = x] /\ Reload(v)
    BY Zenon DEF Clients!ChangeFilter, Clients!load
  <2>3. Clients!SortColumn => \E v : v = Clients!Sorted(view) /\ Reload(v)
    BY Zenon DEF Clients!SortColumn, Clients!load
  <2>4. \A v : (\/ v = [view EXCEPT !.timer = FALSE]
               \/ \E f, x : v = [view EXCEPT !.pick[f] = x]
               \/ v = Clients!Sorted(view)) => DOMAIN v = DOMAIN view
    BY DEF Clients!Sorted
  <2> QED
    BY <2>1, <2>2, <2>3, <2>4, Zenon DEF Loads
<1>3. \A n : Clients!loaded(n) => \E shows : EndLoad(n, shows)
  BY Zenon DEF Clients!loaded
<1>4. \A n : (Clients!saved(n) => EndSave(n)) /\ (Clients!deleted(n) => EndDelete(n))
  BY Zenon DEF Clients!saved, Clients!deleted
<1>5. \A i : Clients!openModal(i) => Opens
  <2> SUFFICES ASSUME NEW i, Clients!openModal(i) PROVE Opens
    OBVIOUS
  <2> DEFINE copy == IF i = 0 THEN None ELSE lastRows[i]
             values == IF i = 0 THEN Clients!EmptyForm ELSE lastRows[i]
  <2>1. \E editable, canSave : Opened(i, copy, values, editable, canSave)
    BY Zenon DEF Clients!openModal
  <2>2. i # 0 => Faithful(values, copy)
    BY DEF Faithful
  <2> HIDE DEF copy, values
  <2> QED
    BY <2>1, <2>2, Zenon DEF Opens
<1>6. Clients!save => Saves \/ RefuseSave
  <2> SUFFICES ASSUME Clients!save, ~RefuseSave PROVE Saves
    OBVIOUS
  <2>1. dialog.open /\ dialog.canSave /\ ~busy
    BY DEF Clients!save
  <2>2. PICK filled : StartSave(Clients!Merged(filled, dialog.values), DOMAIN filled)
    BY Zenon DEF Clients!save
  <2> DEFINE body == Clients!Merged(filled, dialog.values)
  <2>3. \A f \in DOMAIN body \ DOMAIN filled : f \in DOMAIN dialog.values /\ body[f] = dialog.values[f]
    BY DEF Clients!Merged
  <2>4. StartSave(body, DOMAIN filled)
    BY <2>2
  <2> HIDE DEF body
  <2> QED
    BY <2>1, <2>3, <2>4 DEF Saves, Sends
<1>7. Clients!handleDelete => \E i : confirmAction(i)
  BY Zenon DEF Clients!handleDelete
<1> HIDE ClientsParts
<1>a. CASE Clients!Handlers
  BY <1>a, <1>1, <1>2, <1>3, <1>4, <1>5, <1>6, <1>7, Zenon DEF Clients!Handlers, PageStep, InPage
<1>b. CASE Clients!User
  BY <1>b, ClientsParts, <1>1, <1>2, <1>3, <1>4, <1>5, <1>6, <1>7, Zenon DEF Clients!User, PageStep, InPage
<1>c. CASE Clients!Lose \/ (\E n \in DOMAIN calls : Clients!Serve(n, Clients!accepts(calls[n]), Clients!Created(calls[n].body)))
          \/ (\E i \in Clients!Alive : Clients!OtherEdits(i, Clients!Versions(rows[i])))
  BY <1>c, ClientsParts, Zenon DEF PageStep
<1> QED
  BY <1>a, <1>b, <1>c, Zenon DEF Clients!Next, PageStep

\* The operators of Organizations, which extends RecordPage, are those of RecordPage.
LEMMA OrganizationsParts ==
  /\ \A n, more : Organizations!Turn(n, more) <=> Turn(n, more)
  /\ \A n, v : Organizations!StartLoad(n, v) <=> StartLoad(n, v)
  /\ \A v : Organizations!Reload(v) => Reload(v)
  /\ \A n, shows : Organizations!EndLoad(n, shows) => EndLoad(n, shows)
  /\ \A n : Organizations!EndSave(n) => EndSave(n)
  /\ \A n : Organizations!EndDelete(n) => EndDelete(n)
  /\ \A x : Organizations!debounce(x) => debounce(x)
  /\ \A i, copy, values, editable, canSave :
       Organizations!Opened(i, copy, values, editable, canSave) => Opened(i, copy, values, editable, canSave)
  /\ \A body, filled : Organizations!StartSave(body, filled) => StartSave(body, filled)
  /\ Organizations!RefuseSave => RefuseSave
  /\ Organizations!closeModal => closeModal
  /\ \A i : Organizations!confirmAction(i) => confirmAction(i)
  /\ \A yes : Organizations!ConfirmAnswered(yes) => ConfirmAnswered(yes)
  /\ Organizations!Lose => Lose
  /\ \A n, ok, new : Organizations!Serve(n, ok, new) => Serve(n, ok, new)
  /\ \A i, versions : Organizations!OtherEdits(i, versions) => OtherEdits(i, versions)
<1> USE DEF list, Organizations!list, form, Organizations!form, ghost, Organizations!ghost, Event, Organizations!Event
<1>1. \A v : Organizations!Query(v) = Query(v)
  BY DEF Query, Organizations!Query, Given, Organizations!Given, Restrict, Organizations!Restrict
<1>2. \A q : Organizations!Answer(q) = Answer(q)
  <2>1. \A S : Organizations!Cardinality(S) = Cardinality(S)
    BY DEF Cardinality, Organizations!Cardinality
  <2> QED
    BY <2>1, Zenon DEF Answer, Organizations!Answer, Matches, Organizations!Matches, Alive, Organizations!Alive, Restrict, Organizations!Restrict
<1>3. \A n, more : Organizations!Turn(n, more) <=> Turn(n, more)
  BY Zenon DEF Turn, Organizations!Turn
<1>4. \A n, v : Organizations!StartLoad(n, v) <=> StartLoad(n, v)
  BY <1>1, <1>3, Zenon DEF StartLoad, Organizations!StartLoad, ListCall, Organizations!ListCall
<1>5. \A n, k : (Organizations!Is(n, k) <=> Is(n, k)) /\ (Organizations!Answered(n, k) <=> Answered(n, k))
  BY Zenon DEF Is, Organizations!Is, Answered, Organizations!Answered
<1>6. \A v : Organizations!Reload(v) => Reload(v)
  BY <1>4, Zenon DEF Reload, Organizations!Reload
<1>7. \A n, shows : Organizations!EndLoad(n, shows) => EndLoad(n, shows)
  BY <1>3, <1>5, Zenon DEF EndLoad, Organizations!EndLoad
<1>8. Organizations!AfterClose = AfterClose
  BY Zenon DEF AfterClose, Organizations!AfterClose, Closed, Organizations!Closed
<1>9. \A n : Organizations!EndSave(n) => EndSave(n)
  BY <1>3, <1>4, <1>5, <1>8, Zenon DEF EndSave, Organizations!EndSave
<1>10. \A n : Organizations!EndDelete(n) => EndDelete(n)
  BY <1>3, <1>4, <1>5, Zenon DEF EndDelete, Organizations!EndDelete
<1>11. \A x : Organizations!debounce(x) => debounce(x)
  BY Zenon DEF debounce, Organizations!debounce
<1>12. \A i, copy, values, editable, canSave :
         Organizations!Opened(i, copy, values, editable, canSave) => Opened(i, copy, values, editable, canSave)
  BY Zenon DEF Opened, Organizations!Opened
<1>13. \A body, filled : Organizations!StartSave(body, filled) => StartSave(body, filled)
  BY <1>3, Zenon DEF StartSave, Organizations!StartSave, SaveCall, Organizations!SaveCall
<1>14. (Organizations!RefuseSave => RefuseSave) /\ (Organizations!closeModal => closeModal)
  BY <1>8, Zenon DEF RefuseSave, Organizations!RefuseSave, closeModal, Organizations!closeModal
<1>15. \A i : Organizations!confirmAction(i) => confirmAction(i)
  BY Zenon DEF confirmAction, Organizations!confirmAction
<1>16. \A yes : Organizations!ConfirmAnswered(yes) => ConfirmAnswered(yes)
  BY <1>3, Zenon DEF ConfirmAnswered, Organizations!ConfirmAnswered, DeleteCall, Organizations!DeleteCall
<1>17. Organizations!Lose => Lose
  BY Zenon DEF Lose, Organizations!Lose, Others, Organizations!Others
<1>18. \A n, ok, new : Organizations!Serve(n, ok, new) => Serve(n, ok, new)
  <2>1. \A n : Organizations!ServeList(n) => ServeList(n)
    BY <1>2, <1>5, Zenon DEF ServeList, Organizations!ServeList
  <2>2. \A n, ok, new : Organizations!ServeSave(n, ok, new) => ServeSave(n, ok, new)
    BY <1>5, Zenon DEF ServeSave, Organizations!ServeSave, Merged, Organizations!Merged, Restrict, Organizations!Restrict
  <2>3. \A n, ok : Organizations!ServeDelete(n, ok) => ServeDelete(n, ok)
    BY <1>5, Zenon DEF ServeDelete, Organizations!ServeDelete, Alive, Organizations!Alive
  <2> QED
    BY <2>1, <2>2, <2>3, Zenon DEF Serve, Organizations!Serve, Others, Organizations!Others
<1>19. \A i, versions : Organizations!OtherEdits(i, versions) => OtherEdits(i, versions)
  BY Zenon DEF OtherEdits, Organizations!OtherEdits, Others, Organizations!Others
<1> QED
  BY <1>3, <1>4, <1>6, <1>7, <1>9, <1>10, <1>11, <1>12, <1>13, <1>14, <1>15, <1>16, <1>17, <1>18, <1>19, Zenon

\* Every step of the organizations page is a step of the common machine.
LEMMA OrganizationsSteps == ASSUME Shape, page = "organizations", Organizations!Next PROVE PageStep
<1> USE OrganizationsParts
<1>1. Organizations!guardPassed => Loads
  <2> SUFFICES ASSUME Organizations!guardPassed PROVE ComesUp(view)
    BY Zenon DEF Loads
  <2> QED
    BY Zenon DEF ComesUp, Organizations!guardPassed, form, Organizations!form, ghost, Organizations!ghost
<1>2. Organizations!TimerFires \/ Organizations!ChangeFilter \/ Organizations!SortColumn => Loads
  <2>1. Organizations!TimerFires => \E v : v = [view EXCEPT !.timer = FALSE] /\ Reload(v)
    BY Zenon DEF Organizations!TimerFires, Organizations!load
  <2>2. Organizations!ChangeFilter => \E v, f, x : v = [view EXCEPT !.pick[f] = x] /\ Reload(v)
    BY Zenon DEF Organizations!ChangeFilter, Organizations!load
  <2>3. Organizations!SortColumn => \E v : v = Organizations!Sorted(view) /\ Reload(v)
    BY Zenon DEF Organizations!SortColumn, Organizations!load
  <2>4. \A v : (\/ v = [view EXCEPT !.timer = FALSE]
               \/ \E f, x : v = [view EXCEPT !.pick[f] = x]
               \/ v = Organizations!Sorted(view)) => DOMAIN v = DOMAIN view
    BY DEF Organizations!Sorted
  <2> QED
    BY <2>1, <2>2, <2>3, <2>4, Zenon DEF Loads
<1>3. \A n : Organizations!loaded(n) => \E shows : EndLoad(n, shows)
  BY Zenon DEF Organizations!loaded
<1>4. \A n : (Organizations!saved(n) => EndSave(n)) /\ (Organizations!deleted(n) => EndDelete(n))
  BY Zenon DEF Organizations!saved, Organizations!deleted
<1>5. \A i : Organizations!openModal(i) => Opens
  <2> SUFFICES ASSUME NEW i, Organizations!openModal(i) PROVE Opens
    OBVIOUS
  <2> DEFINE copy == IF i = 0 THEN None ELSE lastRows[i]
             values == IF i = 0 THEN [name |-> ""] ELSE [name |-> lastRows[i].name, is_active |-> lastRows[i].is_active]
  <2>1. \E editable, canSave : Opened(i, copy, values, editable, canSave)
    BY Zenon DEF Organizations!openModal
  <2>2. i # 0 => Faithful(values, copy)
    BY DEF Faithful
  <2> HIDE DEF copy, values
  <2> QED
    BY <2>1, <2>2, Zenon DEF Opens
<1>6. Organizations!save => Saves \/ RefuseSave
  <2> SUFFICES ASSUME Organizations!save, ~RefuseSave PROVE Saves
    OBVIOUS
  <2>1. dialog.open /\ dialog.canSave /\ ~busy
    BY DEF Organizations!save
  <2>2. PICK filled : StartSave(Organizations!Merged(filled, dialog.values), DOMAIN filled)
    BY Zenon DEF Organizations!save
  <2> DEFINE body == Organizations!Merged(filled, dialog.values)
  <2>3. \A f \in DOMAIN body \ DOMAIN filled : f \in DOMAIN dialog.values /\ body[f] = dialog.values[f]
    BY DEF Organizations!Merged
  <2>4. StartSave(body, DOMAIN filled)
    BY <2>2
  <2> HIDE DEF body
  <2> QED
    BY <2>1, <2>3, <2>4 DEF Saves, Sends
<1>7. Organizations!handleDelete => \E i : confirmAction(i)
  BY Zenon DEF Organizations!handleDelete
<1> HIDE OrganizationsParts
<1>a. CASE Organizations!Handlers
  BY <1>a, <1>1, <1>2, <1>3, <1>4, <1>5, <1>6, <1>7, Zenon DEF Organizations!Handlers, PageStep, InPage
<1>b. CASE Organizations!User
  BY <1>b, OrganizationsParts, <1>1, <1>2, <1>3, <1>4, <1>5, <1>6, <1>7, Zenon DEF Organizations!User, PageStep, InPage
<1>c. CASE Organizations!Lose \/ (\E n \in DOMAIN calls : Organizations!Serve(n, Organizations!accepts(calls[n]), Organizations!Created(calls[n].body)))
          \/ (\E i \in Organizations!Alive : Organizations!OtherEdits(i, Organizations!Versions(rows[i])))
  BY <1>c, OrganizationsParts, Zenon DEF PageStep
<1> QED
  BY <1>a, <1>b, <1>c, Zenon DEF Organizations!Next, PageStep

\* The operators of Users, which extends RecordPage, are those of RecordPage.
LEMMA UsersParts ==
  /\ \A n, more : Users!Turn(n, more) <=> Turn(n, more)
  /\ \A n, v : Users!StartLoad(n, v) <=> StartLoad(n, v)
  /\ \A v : Users!Reload(v) => Reload(v)
  /\ \A n, shows : Users!EndLoad(n, shows) => EndLoad(n, shows)
  /\ \A n : Users!EndSave(n) => EndSave(n)
  /\ \A n : Users!EndDelete(n) => EndDelete(n)
  /\ \A x : Users!debounce(x) => debounce(x)
  /\ \A i, copy, values, editable, canSave :
       Users!Opened(i, copy, values, editable, canSave) => Opened(i, copy, values, editable, canSave)
  /\ \A body, filled : Users!StartSave(body, filled) => StartSave(body, filled)
  /\ Users!RefuseSave => RefuseSave
  /\ Users!closeModal => closeModal
  /\ \A i : Users!confirmAction(i) => confirmAction(i)
  /\ \A yes : Users!ConfirmAnswered(yes) => ConfirmAnswered(yes)
  /\ Users!Lose => Lose
  /\ \A n, ok, new : Users!Serve(n, ok, new) => Serve(n, ok, new)
  /\ \A i, versions : Users!OtherEdits(i, versions) => OtherEdits(i, versions)
<1> USE DEF list, Users!list, form, Users!form, ghost, Users!ghost, Event, Users!Event
<1>1. \A v : Users!Query(v) = Query(v)
  BY DEF Query, Users!Query, Given, Users!Given, Restrict, Users!Restrict
<1>2. \A q : Users!Answer(q) = Answer(q)
  <2>1. \A S : Users!Cardinality(S) = Cardinality(S)
    BY DEF Cardinality, Users!Cardinality
  <2> QED
    BY <2>1, Zenon DEF Answer, Users!Answer, Matches, Users!Matches, Alive, Users!Alive, Restrict, Users!Restrict
<1>3. \A n, more : Users!Turn(n, more) <=> Turn(n, more)
  BY Zenon DEF Turn, Users!Turn
<1>4. \A n, v : Users!StartLoad(n, v) <=> StartLoad(n, v)
  BY <1>1, <1>3, Zenon DEF StartLoad, Users!StartLoad, ListCall, Users!ListCall
<1>5. \A n, k : (Users!Is(n, k) <=> Is(n, k)) /\ (Users!Answered(n, k) <=> Answered(n, k))
  BY Zenon DEF Is, Users!Is, Answered, Users!Answered
<1>6. \A v : Users!Reload(v) => Reload(v)
  BY <1>4, Zenon DEF Reload, Users!Reload
<1>7. \A n, shows : Users!EndLoad(n, shows) => EndLoad(n, shows)
  BY <1>3, <1>5, Zenon DEF EndLoad, Users!EndLoad
<1>8. Users!AfterClose = AfterClose
  BY Zenon DEF AfterClose, Users!AfterClose, Closed, Users!Closed
<1>9. \A n : Users!EndSave(n) => EndSave(n)
  BY <1>3, <1>4, <1>5, <1>8, Zenon DEF EndSave, Users!EndSave
<1>10. \A n : Users!EndDelete(n) => EndDelete(n)
  BY <1>3, <1>4, <1>5, Zenon DEF EndDelete, Users!EndDelete
<1>11. \A x : Users!debounce(x) => debounce(x)
  BY Zenon DEF debounce, Users!debounce
<1>12. \A i, copy, values, editable, canSave :
         Users!Opened(i, copy, values, editable, canSave) => Opened(i, copy, values, editable, canSave)
  BY Zenon DEF Opened, Users!Opened
<1>13. \A body, filled : Users!StartSave(body, filled) => StartSave(body, filled)
  BY <1>3, Zenon DEF StartSave, Users!StartSave, SaveCall, Users!SaveCall
<1>14. (Users!RefuseSave => RefuseSave) /\ (Users!closeModal => closeModal)
  BY <1>8, Zenon DEF RefuseSave, Users!RefuseSave, closeModal, Users!closeModal
<1>15. \A i : Users!confirmAction(i) => confirmAction(i)
  BY Zenon DEF confirmAction, Users!confirmAction
<1>16. \A yes : Users!ConfirmAnswered(yes) => ConfirmAnswered(yes)
  BY <1>3, Zenon DEF ConfirmAnswered, Users!ConfirmAnswered, DeleteCall, Users!DeleteCall
<1>17. Users!Lose => Lose
  BY Zenon DEF Lose, Users!Lose, Others, Users!Others
<1>18. \A n, ok, new : Users!Serve(n, ok, new) => Serve(n, ok, new)
  <2>1. \A n : Users!ServeList(n) => ServeList(n)
    BY <1>2, <1>5, Zenon DEF ServeList, Users!ServeList
  <2>2. \A n, ok, new : Users!ServeSave(n, ok, new) => ServeSave(n, ok, new)
    BY <1>5, Zenon DEF ServeSave, Users!ServeSave, Merged, Users!Merged, Restrict, Users!Restrict
  <2>3. \A n, ok : Users!ServeDelete(n, ok) => ServeDelete(n, ok)
    BY <1>5, Zenon DEF ServeDelete, Users!ServeDelete, Alive, Users!Alive
  <2> QED
    BY <2>1, <2>2, <2>3, Zenon DEF Serve, Users!Serve, Others, Users!Others
<1>19. \A i, versions : Users!OtherEdits(i, versions) => OtherEdits(i, versions)
  BY Zenon DEF OtherEdits, Users!OtherEdits, Others, Users!Others
<1> QED
  BY <1>3, <1>4, <1>6, <1>7, <1>9, <1>10, <1>11, <1>12, <1>13, <1>14, <1>15, <1>16, <1>17, <1>18, <1>19, Zenon

\* Every step of the users page is a step of the common machine.
LEMMA UsersSteps == ASSUME Shape, page = "users", Users!Next PROVE PageStep
<1> USE UsersParts
<1>1. Users!guardPassed => Loads
  <2> SUFFICES ASSUME Users!guardPassed PROVE Loads
    OBVIOUS
  <2>1. DOMAIN view' = DOMAIN view
    BY DEF Users!guardPassed
  <2>2. ComesUp(view')
    BY Zenon DEF ComesUp, Users!guardPassed, form, Users!form, ghost, Users!ghost
  <2> QED
    BY <2>1, <2>2, Zenon DEF Loads
<1>2. Users!TimerFires \/ Users!ChangeFilter \/ Users!SortColumn => Loads
  <2>1. Users!TimerFires => \E v : v = [view EXCEPT !.timer = FALSE] /\ Reload(v)
    BY Zenon DEF Users!TimerFires, Users!load
  <2>2. Users!ChangeFilter => \E v, f, x : v = [view EXCEPT !.pick[f] = x] /\ Reload(v)
    BY Zenon DEF Users!ChangeFilter, Users!load
  <2>3. Users!SortColumn => \E v : v = Users!Sorted(view) /\ Reload(v)
    BY Zenon DEF Users!SortColumn, Users!load
  <2>4. \A v : (\/ v = [view EXCEPT !.timer = FALSE]
               \/ \E f, x : v = [view EXCEPT !.pick[f] = x]
               \/ v = Users!Sorted(view)) => DOMAIN v = DOMAIN view
    BY DEF Users!Sorted
  <2> QED
    BY <2>1, <2>2, <2>3, <2>4, Zenon DEF Loads
<1>3. \A n : Users!loaded(n) => \E shows : EndLoad(n, shows)
  BY Zenon DEF Users!loaded
<1>4. \A n : (Users!saved(n) => EndSave(n))
  BY Zenon DEF Users!saved
<1>5. Users!openCreateModal => Opens
  <2> SUFFICES ASSUME Users!openCreateModal PROVE Opens
    OBVIOUS
  <2> DEFINE values == [name |-> "", role |-> "EMPLOYEE"]
             copy == None
             i == 0
  <2>1. \E editable, canSave : Opened(i, copy, values, editable, canSave)
    BY Zenon DEF Users!openCreateModal
  <2>2. ~(i # 0)
    OBVIOUS
  <2> HIDE DEF values, copy, i
  <2> QED
    BY <2>1, <2>2, Zenon DEF Opens
<1>6. \A i : Users!openEditModal(i) => Opens
  <2> SUFFICES ASSUME NEW i, Users!openEditModal(i) PROVE Opens
    OBVIOUS
  <2> DEFINE u == lastRows[i]
             values == [role |-> IF u.role = "ADMIN" THEN "EMPLOYEE" ELSE u.role, is_active |-> u.is_active]
             canSave == i # me.who /\ u.role # "ADMIN"
  <2>1. \E editable : Opened(i, u, values, editable, canSave)
    BY Zenon DEF Users!openEditModal
  <2>2. canSave => Faithful(values, u)
    BY DEF Faithful
  <2> HIDE DEF u, values, canSave
  <2> QED
    BY <2>1, <2>2, Zenon DEF Opens
<1>7. Users!save => Saves \/ RefuseSave
  <2> SUFFICES ASSUME Users!save, ~RefuseSave PROVE Saves
    OBVIOUS
  <2>1. dialog.open /\ dialog.canSave /\ ~busy
    BY DEF Users!save
  <2>2. PICK filled : StartSave(Users!Merged(filled, dialog.values), DOMAIN filled)
    BY Zenon DEF Users!save
  <2> DEFINE body == Users!Merged(filled, dialog.values)
  <2>3. \A f \in DOMAIN body \ DOMAIN filled : f \in DOMAIN dialog.values /\ body[f] = dialog.values[f]
    BY DEF Users!Merged
  <2>4. StartSave(body, DOMAIN filled)
    BY <2>2
  <2> HIDE DEF body
  <2> QED
    BY <2>1, <2>3, <2>4 DEF Saves, Sends
<1> HIDE UsersParts
<1>a. CASE Users!Handlers
  BY <1>a, <1>1, <1>2, <1>3, <1>4, <1>5, <1>6, <1>7, Zenon DEF Users!Handlers, PageStep, InPage
<1>b. CASE Users!User
  BY <1>b, UsersParts, <1>1, <1>2, <1>3, <1>4, <1>5, <1>6, <1>7, Zenon DEF Users!User, PageStep, InPage
<1>c. CASE Users!Lose \/ (\E n \in DOMAIN calls : Users!Serve(n, Users!accepts(calls[n]), Users!Created(calls[n].body)))
          \/ (\E i \in Users!Alive : Users!OtherEdits(i, Users!Versions(rows[i])))
  BY <1>c, UsersParts, Zenon DEF PageStep
<1> QED
  BY <1>a, <1>b, <1>c, Zenon DEF Users!Next, PageStep

-----------------------------------------------------------------------------
(* Lists, and what the steps of the machine do to them.                    *)

\* Whatever a list is a list of, it is a list of its elements.
LEMMA ListOf == ASSUME NEW C, NEW s \in Seq(C) PROVE IsList(s)
<1>1. Len(s) \in Nat /\ s = [i \in 1 .. Len(s) |-> s[i]] /\ DOMAIN s = 1 .. Len(s)
  OBVIOUS
<1> DEFINE D == {s[i] : i \in DOMAIN s}
<1>2. \A i \in 1 .. Len(s) : s[i] \in D
  BY <1>1
<1>3. D = {s[i] : i \in DOMAIN s}
  OBVIOUS
<1> HIDE DEF D
<1>4. s \in [1 .. Len(s) -> D]
  BY <1>1, <1>2
<1>5. s \in Seq(D)
  BY <1>1, <1>4, IsASeq
<1> QED
  BY <1>3, <1>5 DEF IsList

\* The domain and length of a list.
LEMMA ListDomain == ASSUME NEW s, IsList(s)
                    PROVE  DOMAIN s = 1 .. Len(s) /\ Len(s) \in Nat /\ s = [i \in 1 .. Len(s) |-> s[i]]
BY DEF IsList

\* Changing an element keeps the length and the others.
LEMMA Marked ==
  ASSUME NEW s, IsList(s), NEW n, NEW c, NEW t, t = [s EXCEPT ![n] = c]
  PROVE  /\ IsList(t) /\ Len(t) = Len(s) /\ DOMAIN t = DOMAIN s
         /\ \A i \in DOMAIN s : t[i] = IF i = n THEN c ELSE s[i]
<1> DEFINE D == {s[i] : i \in DOMAIN s} \cup {c}
<1>1. DOMAIN s = 1 .. Len(s) /\ Len(s) \in Nat
  BY ListDomain
<1>2. \A i \in 1 .. Len(s) : s[i] \in D
  BY <1>1
<1>3. c \in D
  OBVIOUS
<1> HIDE DEF D
<1>4. /\ DOMAIN t = 1 .. Len(s)
      /\ \A i \in 1 .. Len(s) : t[i] = IF i = n THEN c ELSE s[i]
  BY <1>1
<1>5. t = [i \in 1 .. Len(s) |-> t[i]]
  BY <1>1
<1>6. t \in [1 .. Len(s) -> D]
  BY <1>2, <1>3, <1>4, <1>5
<1>7. t \in Seq(D) /\ Len(t) = Len(s)
  <2>0. \A u \in [1 .. Len(s) -> D] : u \in Seq(D)
    BY <1>1
  <2>1. t \in Seq(D)
    BY <1>6, <2>0
  <2> QED
    BY <1>1, <1>4, <2>1
<1> QED
  BY <1>1, <1>4, <1>7, ListOf

\* Adding an element at the end.
LEMMA Appended ==
  ASSUME NEW s, IsList(s), NEW c, NEW t, t = Append(s, c)
  PROVE  /\ IsList(t) /\ Len(t) = Len(s) + 1 /\ DOMAIN s \subseteq DOMAIN t
         /\ \A i \in DOMAIN t : t[i] = IF i = Len(s) + 1 THEN c ELSE s[i]
<1> DEFINE D == {s[i] : i \in DOMAIN s} \cup {c}
<1>1. DOMAIN s = 1 .. Len(s) /\ Len(s) \in Nat /\ s = [i \in 1 .. Len(s) |-> s[i]]
  BY ListDomain
<1>2. \A i \in 1 .. Len(s) : s[i] \in D
  BY <1>1
<1>3. c \in D
  OBVIOUS
<1> HIDE DEF D
<1>4. s \in Seq(D)
  BY <1>1, <1>2, IsASeq
<1>5. t \in Seq(D)
  BY <1>3, <1>4
<1>6. IsList(t)
  BY <1>5, ListOf
<1> QED
  BY <1>1, <1>3, <1>4, <1>6

\* Turn replaces request n, if any, by some more at the end.
LEMMA TurnEffect ==
  ASSUME IsList(calls), NEW n \in {0} \cup DOMAIN calls, NEW more, IsList(more), Turn(n, more)
  PROVE  /\ IsList(calls') /\ Replaced(calls, n, more, calls')
         /\ n = 0 => Joined(calls, more, calls')
<1> DEFINE C == {calls[i] : i \in DOMAIN calls} \cup {more[i] : i \in DOMAIN more}
<1>1. /\ DOMAIN calls = 1 .. Len(calls) /\ Len(calls) \in Nat
      /\ DOMAIN more = 1 .. Len(more) /\ Len(more) \in Nat
      /\ calls = [i \in 1 .. Len(calls) |-> calls[i]]
      /\ more = [i \in 1 .. Len(more) |-> more[i]]
  BY ListDomain
<1>2. (\A i \in 1 .. Len(calls) : calls[i] \in C) /\ (\A i \in 1 .. Len(more) : more[i] \in C)
  BY <1>1
<1> HIDE DEF C
<1>3. calls \in Seq(C) /\ more \in Seq(C) /\ n \in 0 .. Len(calls)
  BY <1>1, <1>2, IsASeq
<1>4. calls' = Unanswered(calls, n) \o more
  BY Zenon DEF Turn, Unanswered
<1> QED
  BY <1>3, <1>4, TurnedList, ListOf, Zenon

\* Lists of none, of one, of two and of three.
LEMMA ShortLists ==
  /\ IsList(<<>>) /\ Len(<<>>) = 0 /\ DOMAIN <<>> = {}
  /\ \A a : IsList(<<a>>) /\ Len(<<a>>) = 1 /\ <<a>>[1] = a
  /\ \A a, b : IsList(<<a, b>>) /\ Len(<<a, b>>) = 2 /\ <<a, b>>[1] = a /\ <<a, b>>[2] = b
  /\ \A a, b, c : IsList(<<a, b, c>>)
<1>1. <<>> \in Seq({}) /\ Len(<<>>) = 0 /\ DOMAIN <<>> = {}
  OBVIOUS
<1>2. ASSUME NEW a PROVE <<a>> \in Seq({a}) /\ Len(<<a>>) = 1 /\ <<a>>[1] = a
  OBVIOUS
<1>3. ASSUME NEW a, NEW b
      PROVE  <<a, b>> \in Seq({a, b}) /\ Len(<<a, b>>) = 2 /\ <<a, b>>[1] = a /\ <<a, b>>[2] = b
  OBVIOUS
<1>4. IsList(<<>>)
  BY <1>1, ListOf
<1>5. \A a : IsList(<<a>>)
  BY <1>2, ListOf
<1>6. \A a, b : IsList(<<a, b>>)
  BY <1>3, ListOf
<1>7. ASSUME NEW a, NEW b, NEW c PROVE IsList(<<a, b, c>>)
  <2>1. <<a, b, c>> \in Seq({a, b, c})
    OBVIOUS
  <2> QED
    BY <2>1, ListOf
<1> QED
  BY <1>1, <1>2, <1>3, <1>4, <1>5, <1>6, <1>7, Zenon

-----------------------------------------------------------------------------
(* Shapes.                                                                 *)

\* What is sent.
LEMMA SentShape ==
  /\ \A q : CallShape(ListCall(q)) /\ ListCall(q).kind = "list"
            /\ ListCall(q).phase = "sent" /\ ListCall(q).query = q
  /\ \A s : CallShape(OptionCall(s)) /\ OptionCall(s).kind = "options" /\ OptionCall(s).phase = "sent"
  /\ \A i : CallShape(DeleteCall(i)) /\ DeleteCall(i).kind = "delete" /\ DeleteCall(i).phase = "sent"
  /\ \A b, f : LET c == SaveCall(b, f) IN
       /\ CallShape(c) /\ c.kind = "save" /\ c.phase = "sent"
       /\ c.row = dialog.row /\ c.body = b /\ c.filled = f /\ c.copy = dialog.copy
       /\ c.filling = dialog.filling
BY DEF CallShape, ListCall, OptionCall, DeleteCall, SaveCall

\* Another phase of the same request.
LEMMA Rephased ==
  ASSUME NEW c, CallShape(c), NEW p \in {"ok", "refused", "lost"}, c.kind = "list" => p = "lost",
         NEW d, d = [c EXCEPT !.phase = p]
  PROVE  /\ CallShape(d) /\ d.kind = c.kind /\ d.phase = p
         /\ c.kind = "save" => /\ d.row = c.row /\ d.body = c.body /\ d.filled = c.filled
                               /\ d.copy = c.copy /\ d.filling = c.filling
<1>1. CASE c = [kind |-> "list", query |-> c.query, phase |-> c.phase]
  <2>1. d = [kind |-> "list", query |-> c.query, phase |-> p] /\ c.kind = "list"
    BY <1>1
  <2> QED
    BY <2>1 DEF CallShape
<1>2. CASE c = [kind |-> "list", phase |-> c.phase, found |-> c.found]
  <2>1. d = [kind |-> "list", phase |-> p, found |-> c.found] /\ c.kind = "list"
    BY <1>2
  <2> QED
    BY <2>1 DEF CallShape
<1>3. CASE c = [kind |-> "options", select |-> c.select, phase |-> c.phase]
  <2>1. d = [kind |-> "options", select |-> c.select, phase |-> p] /\ c.kind = "options"
    BY <1>3
  <2> QED
    BY <2>1 DEF CallShape
<1>4. CASE c = [kind |-> "delete", row |-> c.row, phase |-> c.phase]
  <2>1. d = [kind |-> "delete", row |-> c.row, phase |-> p] /\ c.kind = "delete"
    BY <1>4
  <2> QED
    BY <2>1 DEF CallShape
<1>5. CASE c = [kind |-> "save", row |-> c.row, body |-> c.body, filled |-> c.filled,
                copy |-> c.copy, filling |-> c.filling, phase |-> c.phase]
  <2>1. d = [kind |-> "save", row |-> c.row, body |-> c.body, filled |-> c.filled,
             copy |-> c.copy, filling |-> c.filling, phase |-> p] /\ c.kind = "save"
    BY <1>5
  <2> QED
    BY <2>1 DEF CallShape
<1> QED
  BY <1>1, <1>2, <1>3, <1>4, <1>5 DEF CallShape

\* Requests are replaced by requests that have just been sent.
LEMMA TurnShape ==
  ASSUME Shape, NEW n \in {0} \cup DOMAIN calls, NEW more, IsList(more),
         \A j \in 1 .. Len(more) : CallShape(more[j]), Turn(n, more)
  PROVE  /\ IsList(calls') /\ DOMAIN calls' = 1 .. Len(calls')
         /\ \A i \in DOMAIN calls' : CallShape(calls'[i])
         /\ Replaced(calls, n, more, calls')
<1>1. IsList(calls') /\ Replaced(calls, n, more, calls')
  BY TurnEffect, Zenon DEF Shape
<1>2. DOMAIN calls = 1 .. Len(calls) /\ DOMAIN calls' = 1 .. Len(calls')
  BY <1>1, ListDomain, Zenon DEF Shape
<1>3. \A i \in DOMAIN calls' : CallShape(calls'[i])
  <2> TAKE i \in DOMAIN calls'
  <2>1. CASE \E j \in 1 .. Len(calls) : calls'[i] = calls[j]
    BY <1>2, <2>1, Zenon DEF Shape
  <2>2. CASE \E j \in 1 .. Len(more) : calls'[i] = more[j]
    BY <2>2, Zenon
  <2> QED
    BY <1>1, <1>2, <2>1, <2>2, Zenon DEF Replaced
<1> QED
  BY <1>1, <1>2, <1>3, Zenon

\* A handler that sends nothing.
LEMMA EndShape ==
  ASSUME Shape, NEW n \in {0} \cup DOMAIN calls, Turn(n, <<>>)
  PROVE  /\ IsList(calls') /\ DOMAIN calls' = 1 .. Len(calls')
         /\ \A i \in DOMAIN calls' : CallShape(calls'[i])
         /\ Replaced(calls, n, <<>>, calls')
<1>1. \A j \in 1 .. Len(<<>>) : CallShape(<<>>[j])
  BY ShortLists
<1> QED
  BY <1>1, ShortLists, TurnShape, Zenon

\* A handler that sends one request.
LEMMA SendShape ==
  ASSUME Shape, NEW n \in {0} \cup DOMAIN calls, NEW c, CallShape(c), Turn(n, <<c>>)
  PROVE  /\ IsList(calls') /\ DOMAIN calls' = 1 .. Len(calls')
         /\ \A i \in DOMAIN calls' : CallShape(calls'[i])
         /\ Replaced(calls, n, <<c>>, calls')
<1>1. \A j \in 1 .. Len(<<c>>) : CallShape(<<c>>[j])
  BY ShortLists
<1>2. IsList(<<c>>)
  BY ShortLists
<1> QED
  BY <1>1, <1>2, TurnShape, Zenon

\* What the server does with a request.
LEMMA ServeEffect ==
  ASSUME Shape, NEW n \in DOMAIN calls, NEW ok, NEW new, Serve(n, ok, new)
  PROVE  \E c :
    /\ calls' = [calls EXCEPT ![n] = c] /\ CallShape(c)
    /\ calls[n].phase = "sent" /\ c.kind = calls[n].kind /\ c.phase \in {"ok", "refused"}
    /\ calls[n].kind = "list" => c.phase = "ok" /\ c.found = Answer(calls[n].query)
    /\ calls[n].kind # "list" => c = [calls[n] EXCEPT !.phase = c.phase]
    /\ calls[n].kind \in {"list", "save", "delete"}
    /\ c.phase = "refused" \/ calls[n].kind = "list" => UNCHANGED <<rows, stored>>
    /\ calls[n].kind = "delete" => UNCHANGED stored
    /\ calls[n].kind = "save" =>
         /\ c.phase = "ok" <=> ok
         /\ c.row = calls[n].row /\ c.body = calls[n].body /\ c.filled = calls[n].filled
         /\ c.copy = calls[n].copy /\ c.filling = calls[n].filling
         /\ (c.phase = "ok" /\ c.row = 0) =>
              rows' = Append(rows, new) /\ stored' = stored \cup {calls[n].filling}
         /\ (c.phase = "ok" /\ c.row # 0) =>
              rows' = [rows EXCEPT ![c.row] = Merged(Restrict(new, DOMAIN c.body), @)] /\ stored' = stored
    /\ (calls[n].kind = "delete" /\ c.phase = "ok") => rows' = [rows EXCEPT ![calls[n].row] = Gone]
<1>0. CallShape(calls[n])
  BY DEF Shape
<1>1. CASE ServeList(n)
  <2> DEFINE c == [kind |-> "list", phase |-> "ok", found |-> Answer(calls[n].query)]
  <2>1. /\ calls[n].kind = "list" /\ calls[n].phase = "sent"
        /\ calls' = [calls EXCEPT ![n] = c] /\ UNCHANGED <<rows, stored>>
    BY <1>1, Zenon DEF ServeList, Is
  <2>2. CallShape(c) /\ c.kind = "list" /\ c.phase = "ok" /\ c.found = Answer(calls[n].query)
    BY DEF CallShape
  <2> HIDE DEF c
  <2> QED
    BY <2>1, <2>2
<1>2. CASE ServeSave(n, ok, new)
  <2> DEFINE p == IF ok THEN "ok" ELSE "refused"
             c == [calls[n] EXCEPT !.phase = p]
  <2>1. /\ calls[n].kind = "save" /\ calls[n].phase = "sent"
        /\ calls' = [calls EXCEPT ![n] = c]
        /\ ~ok => UNCHANGED <<rows, stored>>
        /\ (ok /\ calls[n].row = 0) => rows' = Append(rows, new) /\ stored' = stored \cup {calls[n].filling}
        /\ (ok /\ calls[n].row # 0) =>
             rows' = [rows EXCEPT ![calls[n].row] = Merged(Restrict(new, DOMAIN calls[n].body), @)] /\ stored' = stored
    BY <1>2 DEF ServeSave, Is
  <2>2. p \in {"ok", "refused", "lost"} /\ (calls[n].kind = "list" => p = "lost") /\ (p = "ok" <=> ok)
        /\ p \in {"ok", "refused"}
    BY <2>1
  <2>3. c = [calls[n] EXCEPT !.phase = p]
    OBVIOUS
  <2> HIDE DEF p, c
  <2>4. /\ CallShape(c) /\ c.kind = calls[n].kind /\ c.phase = p
        /\ c.row = calls[n].row /\ c.body = calls[n].body /\ c.filled = calls[n].filled
        /\ c.copy = calls[n].copy /\ c.filling = calls[n].filling
    BY <1>0, <2>1, <2>2, <2>3, Rephased
  <2>5. calls[n].kind # "list" /\ calls[n].kind # "delete"
    BY <2>1
  <2>6. c.phase = "refused" => ~ok
    BY <2>2, <2>4
  <2> QED
    BY <2>1, <2>2, <2>3, <2>4, <2>5, <2>6
<1>3. CASE ServeDelete(n, ok)
  <2> DEFINE p == IF calls[n].row \in Alive /\ ok THEN "ok" ELSE "refused"
             c == [calls[n] EXCEPT !.phase = p]
  <2>1. /\ calls[n].kind = "delete" /\ calls[n].phase = "sent"
        /\ calls' = [calls EXCEPT ![n] = c]
        /\ p = "refused" => UNCHANGED rows
        /\ p = "ok" => rows' = [rows EXCEPT ![calls[n].row] = Gone]
        /\ UNCHANGED stored
    BY <1>3 DEF ServeDelete, Is
  <2>2. p \in {"ok", "refused", "lost"} /\ (calls[n].kind = "list" => p = "lost") /\ p \in {"ok", "refused"}
    BY <2>1
  <2>3. c = [calls[n] EXCEPT !.phase = p]
    OBVIOUS
  <2> HIDE DEF p, c
  <2>4. CallShape(c) /\ c.kind = calls[n].kind /\ c.phase = p
    BY <1>0, <2>1, <2>2, <2>3, Rephased
  <2>5. calls[n].kind # "list" /\ calls[n].kind # "save"
    BY <2>1
  <2> QED
    BY <2>1, <2>2, <2>3, <2>4, <2>5
<1> QED
  BY <1>1, <1>2, <1>3 DEF Serve

\* A request, or its answer, that is lost.
LEMMA LoseEffect ==
  ASSUME Shape, Lose
  PROVE  \E n \in DOMAIN calls : \E c :
    /\ calls' = [calls EXCEPT ![n] = c] /\ CallShape(c) /\ c.kind = calls[n].kind /\ c.phase = "lost"
    /\ c.kind = "save" => /\ c.row = calls[n].row /\ c.body = calls[n].body /\ c.filled = calls[n].filled
                          /\ c.copy = calls[n].copy /\ c.filling = calls[n].filling
    /\ excused' = (excused \/ (calls[n].phase = "ok" /\ calls[n].kind \in {"save", "delete"}))
<1>1. PICK n \in DOMAIN calls :
        /\ calls' = [calls EXCEPT ![n].phase = "lost"]
        /\ excused' = (excused \/ (calls[n].phase = "ok" /\ calls[n].kind \in {"save", "delete"}))
  BY DEF Lose
<1> DEFINE c == [calls[n] EXCEPT !.phase = "lost"]
<1>2. c = [calls[n] EXCEPT !.phase = "lost"] /\ calls' = [calls EXCEPT ![n] = c]
  BY <1>1
<1>3. CallShape(calls[n])
  BY DEF Shape
<1> HIDE DEF c
<1>4. /\ CallShape(c) /\ c.kind = calls[n].kind /\ c.phase = "lost"
      /\ c.kind = "save" => /\ c.row = calls[n].row /\ c.body = calls[n].body /\ c.filled = calls[n].filled
                            /\ c.copy = calls[n].copy /\ c.filling = calls[n].filling
  BY <1>2, <1>3, Rephased
<1> QED
  BY <1>1, <1>2, <1>4

\* How every page starts.
LEMMA InitFacts ==
  ASSUME Init
  PROVE  /\ page \in {"tasks", "projects", "clients", "organizations", "users"}
         /\ stage = "guard" /\ lastRows = <<>> /\ dialog = Closed /\ busy = FALSE
         /\ calls = <<>> /\ stored = {} /\ excused = FALSE /\ IsList(rows)
         /\ "timer" \in DOMAIN view
         /\ page = "tasks" => DOMAIN options = {"assignee", "project"}
         /\ page = "projects" => DOMAIN options = {"client"}
         /\ page = "tasks" => \A i \in DOMAIN rows : TaskRow(rows[i])
<1>1. CASE page = "tasks" /\ Tasks!Init
  <2>1. \A v : Tasks!PageInit(v) => /\ stage = "guard" /\ lastRows = <<>> /\ dialog = Closed /\ busy = FALSE
                                    /\ calls = <<>> /\ stored = {} /\ excused = FALSE
    BY Zenon DEF Tasks!PageInit, Tasks!Closed, Closed
  <2>2. PICK t : rows = <<t>> /\ t.status = "PENDING_REVIEW" /\ "status" \in DOMAIN t
    <3>1. PICK m, p, d : rows = <<[name |-> "first", status |-> "PENDING_REVIEW", due |-> Tasks!Midnight(d),
                                   project |-> p, assignee |-> m]>>
      BY <1>1, Zenon DEF Tasks!Init
    <3> DEFINE t == [name |-> "first", status |-> "PENDING_REVIEW", due |-> Tasks!Midnight(d),
                     project |-> p, assignee |-> m]
    <3>2. t.status = "PENDING_REVIEW" /\ "status" \in DOMAIN t
      OBVIOUS
    <3>3. rows = <<t>>
      BY <3>1
    <3> HIDE DEF t
    <3> QED
      BY <3>2, <3>3
  <2>3. IsList(rows) /\ DOMAIN rows = 1 .. 1 /\ rows[1] = t
    BY <2>2, ShortLists, ListDomain
  <2>4. DOMAIN options = {"assignee", "project"}
    BY <1>1 DEF Tasks!Init
  <2>5. stage = "guard" /\ lastRows = <<>> /\ dialog = Closed /\ busy = FALSE
        /\ calls = <<>> /\ stored = {} /\ excused = FALSE
    BY <1>1, <2>1, Zenon DEF Tasks!Init
  <2>6. \A i \in DOMAIN rows : TaskRow(rows[i])
    BY <2>2, <2>3 DEF TaskRow, Tasks!Status
  <2>7. "timer" \in DOMAIN view
    BY <1>1 DEF Tasks!Init, Tasks!PageInit
  <2> QED
    BY <1>1, <2>3, <2>4, <2>5, <2>6, <2>7
<1>2. CASE page = "projects" /\ Projects!Init
  <2>1. \A v : Projects!PageInit(v) => /\ stage = "guard" /\ lastRows = <<>> /\ dialog = Closed /\ busy = FALSE
                                        /\ calls = <<>> /\ stored = {} /\ excused = FALSE
    BY Zenon DEF Projects!PageInit, Projects!Closed, Closed
  <2>2. \E t : rows = <<t>>
    BY <1>2, Zenon DEF Projects!Init
  <2>3. IsList(rows)
    BY <2>2, ShortLists, Zenon
  <2>4. stage = "guard" /\ lastRows = <<>> /\ dialog = Closed /\ busy = FALSE
        /\ calls = <<>> /\ stored = {} /\ excused = FALSE
    BY <1>2, <2>1, Zenon DEF Projects!Init
  <2>5. DOMAIN options = {"client"}
    BY <1>2 DEF Projects!Init
  <2>7. "timer" \in DOMAIN view
    BY <1>2 DEF Projects!Init, Projects!PageInit
  <2> QED
    BY <1>2, <2>3, <2>4, <2>5, <2>7
<1>3. CASE page = "clients" /\ Clients!Init
  <2>1. \A v : Clients!PageInit(v) => /\ stage = "guard" /\ lastRows = <<>> /\ dialog = Closed /\ busy = FALSE
                                       /\ calls = <<>> /\ stored = {} /\ excused = FALSE
    BY Zenon DEF Clients!PageInit, Clients!Closed, Closed
  <2>2. \E t : rows = <<t>>
    BY <1>3, Zenon DEF Clients!Init
  <2>3. IsList(rows)
    BY <2>2, ShortLists, Zenon
  <2>4. stage = "guard" /\ lastRows = <<>> /\ dialog = Closed /\ busy = FALSE
        /\ calls = <<>> /\ stored = {} /\ excused = FALSE
    BY <1>3, <2>1, Zenon DEF Clients!Init
  <2>7. "timer" \in DOMAIN view
    BY <1>3 DEF Clients!Init, Clients!PageInit
  <2> QED
    BY <1>3, <2>3, <2>4, <2>7
<1>4. CASE page = "organizations" /\ Organizations!Init
  <2>1. \A v : Organizations!PageInit(v) => /\ stage = "guard" /\ lastRows = <<>> /\ dialog = Closed /\ busy = FALSE
                                             /\ calls = <<>> /\ stored = {} /\ excused = FALSE
    BY Zenon DEF Organizations!PageInit, Organizations!Closed, Closed
  <2>2. \E t : rows = <<t>>
    BY <1>4, Zenon DEF Organizations!Init
  <2>3. IsList(rows)
    BY <2>2, ShortLists, Zenon
  <2>4. stage = "guard" /\ lastRows = <<>> /\ dialog = Closed /\ busy = FALSE
        /\ calls = <<>> /\ stored = {} /\ excused = FALSE
    BY <1>4, <2>1, Zenon DEF Organizations!Init
  <2>7. "timer" \in DOMAIN view
    BY <1>4 DEF Organizations!Init, Organizations!PageInit
  <2> QED
    BY <1>4, <2>3, <2>4, <2>7
<1>5. CASE page = "users" /\ Users!Init
  <2>1. \A v : Users!PageInit(v) => /\ stage = "guard" /\ lastRows = <<>> /\ dialog = Closed /\ busy = FALSE
                                     /\ calls = <<>> /\ stored = {} /\ excused = FALSE
    BY Zenon DEF Users!PageInit, Users!Closed, Closed
  <2>2. \E a, b, c : rows = <<a, b, c>>
    BY <1>5, Zenon DEF Users!Init
  <2>3. IsList(rows)
    BY <2>2, ShortLists, Zenon
  <2>4. stage = "guard" /\ lastRows = <<>> /\ dialog = Closed /\ busy = FALSE
        /\ calls = <<>> /\ stored = {} /\ excused = FALSE
    BY <1>5, <2>1, Zenon DEF Users!Init
  <2>7. "timer" \in DOMAIN view
    BY <1>5 DEF Users!Init, Users!PageInit
  <2> QED
    BY <1>5, <2>3, <2>4, <2>7
<1> QED
  BY <1>1, <1>2, <1>3, <1>4, <1>5 DEF Init

\* Pages start in shape.
LEMMA ShapeInit == Init => Shape
<1> SUFFICES ASSUME Init PROVE Shape
  OBVIOUS
<1>1. DialogShape /\ ~dialog.open
  BY InitFacts DEF DialogShape, Closed
<1>2. IsList(calls) /\ DOMAIN calls = {}
  BY InitFacts, ShortLists
<1> QED
  BY <1>1, <1>2, InitFacts DEF Shape

\* A step of the page is a step of the common machine.
LEMMA NextSteps == ASSUME Shape, [Next]_allVars PROVE PageStep \/ UNCHANGED vars
<1>1. CASE Next
  BY <1>1, TasksSteps, ProjectsSteps, ClientsSteps, OrganizationsSteps, UsersSteps DEF Next
<1>2. CASE UNCHANGED allVars
  BY <1>2 DEF allVars
<1> QED
  BY <1>1, <1>2

\* A document stays the page it is.
LEMMA PageFixed == ASSUME [Next]_allVars PROVE page' = page
BY DEF Next, allVars

\* The table of rows stays a list, and grows by one row at most.
LEMMA RowsStep ==
  ASSUME Shape, PageStep
  PROVE  IsList(rows') /\ DOMAIN rows \subseteq DOMAIN rows'
<1>1. ASSUME UNCHANGED rows PROVE IsList(rows') /\ DOMAIN rows \subseteq DOMAIN rows'
  BY <1>1 DEF Shape
<1>2. ASSUME NEW i, NEW r, rows' = [rows EXCEPT ![i] = r]
      PROVE  IsList(rows') /\ DOMAIN rows \subseteq DOMAIN rows'
  BY <1>2, Marked DEF Shape
<1>3. ASSUME NEW r, rows' = Append(rows, r)
      PROVE  IsList(rows') /\ DOMAIN rows \subseteq DOMAIN rows'
  BY <1>3, Appended DEF Shape
<1>4. ASSUME NEW n \in DOMAIN calls, NEW ok, NEW new, Serve(n, ok, new)
      PROVE  \/ UNCHANGED rows
             \/ \E i, r : rows' = [rows EXCEPT ![i] = r]
             \/ \E r : rows' = Append(rows, r)
  BY <1>4, Zenon DEF Serve, ServeList, ServeSave, ServeDelete
<1>5. \/ UNCHANGED rows
      \/ \E i, r : rows' = [rows EXCEPT ![i] = r]
      \/ \E r : rows' = Append(rows, r)
  <2>1. CASE \E n \in DOMAIN calls : \E ok, new : Serve(n, ok, new)
    BY <1>4, <2>1, Zenon
  <2>2. CASE \E i, versions : OtherEdits(i, versions)
    BY <2>2, Zenon DEF OtherEdits
  <2>3. CASE Lose
    BY <2>3, Zenon DEF Lose
  <2>4. CASE Opens \/ Saves \/ RefuseSave \/ closeModal
    BY <2>4, Zenon DEF Opens, Opened, Saves, Sends, StartSave, RefuseSave, closeModal
  <2>5. CASE \E n \in DOMAIN calls :
               EndOptions(n) \/ (\E shows : EndLoad(n, shows)) \/ EndSave(n) \/ EndDelete(n)
    BY <2>5, Zenon DEF EndOptions, EndLoad, EndSave, EndDelete
  <2>6. CASE Loads \/ AsksForOptions \/ (\E x : debounce(x))
             \/ (\E i : confirmAction(i)) \/ (\E yes : ConfirmAnswered(yes))
    BY <2>6, Zenon DEF Loads, Reload, ComesUp, AsksForOptions, debounce, confirmAction, ConfirmAnswered
  <2> QED
    BY <2>1, <2>2, <2>3, <2>4, <2>5, <2>6, Zenon DEF PageStep, InPage
<1> QED
  BY <1>1, <1>2, <1>3, <1>5, Zenon

\* The requests keep their shapes.
LEMMA CallsStep ==
  ASSUME Shape, PageStep
  PROVE  IsList(calls') /\ \A i \in DOMAIN calls' : CallShape(calls'[i])
<1> DEFINE Goal == IsList(calls') /\ \A i \in DOMAIN calls' : CallShape(calls'[i])
<1>1. ASSUME UNCHANGED calls PROVE Goal
  BY <1>1 DEF Shape
<1>2. ASSUME NEW n \in DOMAIN calls, NEW c, CallShape(c), calls' = [calls EXCEPT ![n] = c] PROVE Goal
  <2>1. IsList(calls') /\ DOMAIN calls' = DOMAIN calls
        /\ \A i \in DOMAIN calls : calls'[i] = IF i = n THEN c ELSE calls[i]
    BY <1>2, Marked DEF Shape
  <2> QED
    BY <1>2, <2>1 DEF Shape
<1>3. ASSUME NEW n \in {0} \cup DOMAIN calls, Turn(n, <<>>) PROVE Goal
  BY <1>3, EndShape, Zenon
<1>4. ASSUME NEW n \in {0} \cup DOMAIN calls, NEW v, StartLoad(n, v) PROVE Goal
  BY <1>4, SendShape, SentShape, Zenon DEF StartLoad
<1>5. ASSUME NEW c, CallShape(c), Turn(0, <<c>>) PROVE Goal
  BY <1>5, SendShape
<1>6. ASSUME NEW n \in DOMAIN calls, NEW ok, NEW new, Serve(n, ok, new) PROVE Goal
  BY <1>2, <1>6, ServeEffect, Zenon
<1>7. ASSUME Lose PROVE Goal
  BY <1>2, <1>7, LoseEffect, Zenon
<1>8. ASSUME NEW n \in DOMAIN calls,
             EndOptions(n) \/ (\E shows : EndLoad(n, shows)) \/ EndSave(n) \/ EndDelete(n)
      PROVE  Goal
  <2>1. n \in {0} \cup DOMAIN calls
    OBVIOUS
  <2>2. Turn(n, <<>>) \/ \E v : StartLoad(n, v)
    BY <1>8, Zenon DEF EndOptions, EndLoad, EndSave, EndDelete
  <2> QED
    BY <1>3, <1>4, <2>1, <2>2, Zenon
<1>9. 0 \in {0} \cup DOMAIN calls
  OBVIOUS
<1>10. ASSUME Loads PROVE Goal
  BY <1>4, <1>9, <1>10, Zenon DEF Loads, Reload, ComesUp
<1>11. ASSUME AsksForOptions PROVE Goal
  <2>1. CASE \E s : Turn(0, <<OptionCall(s)>>)
    BY <1>5, <2>1, SentShape, Zenon
  <2>2. ASSUME NEW s, NEW t, Turn(0, <<OptionCall(s), OptionCall(t)>>) PROVE Goal
    <3> DEFINE more == <<OptionCall(s), OptionCall(t)>>
    <3>1. IsList(more) /\ Len(more) = 2 /\ more[1] = OptionCall(s) /\ more[2] = OptionCall(t)
      BY ShortLists
    <3>2. Turn(0, more)
      BY <2>2
    <3> HIDE DEF more
    <3>3. \A j \in 1 .. Len(more) : CallShape(more[j])
      BY <3>1, SentShape
    <3> QED
      BY <1>9, <3>1, <3>2, <3>3, TurnShape, Zenon
  <2> QED
    BY <1>11, <2>1, <2>2, Zenon DEF AsksForOptions
<1>12. ASSUME Saves PROVE Goal
  BY <1>5, <1>12, SentShape, Zenon DEF Saves, Sends, StartSave
<1>13. ASSUME NEW yes, ConfirmAnswered(yes) PROVE Goal
  <2>1. Turn(0, <<DeleteCall(asked)>>) \/ Turn(0, <<>>)
    BY <1>13, Zenon DEF ConfirmAnswered
  <2> QED
    BY <1>3, <1>5, <1>9, <2>1, SentShape, Zenon
<1> HIDE DEF Goal
<1>14. CASE UNCHANGED calls
  BY <1>1, <1>14 DEF Goal
<1>15. CASE ~UNCHANGED calls
  <2>1. /\ ~Opens /\ ~RefuseSave /\ ~closeModal /\ ~(\E x : debounce(x)) /\ ~(\E i : confirmAction(i))
        /\ ~(\E i, versions : OtherEdits(i, versions))
    BY <1>15, Zenon DEF Opens, Opened, RefuseSave, closeModal, debounce, confirmAction, OtherEdits, Others
  <2> QED
    BY <1>6, <1>7, <1>8, <1>10, <1>11, <1>12, <1>13, <2>1, Zenon DEF PageStep, InPage, Goal
<1> QED
  BY <1>14, <1>15

\* What a step may do to the dialog, and what it leaves of the options.
LEMMA DialogStep ==
  ASSUME PageStep
  PROVE  /\ \/ UNCHANGED dialog
            \/ \E b : dialog' = [dialog EXCEPT !.error = b]
            \/ dialog' = AfterClose
            \/ Opens
         /\ DOMAIN options' = DOMAIN options
<1> USE DEF list, form, ghost, Others
<1>1. CASE \E n \in DOMAIN calls : EndOptions(n) \/ (\E shows : EndLoad(n, shows)) \/ EndSave(n) \/ EndDelete(n)
  BY <1>1, Zenon DEF EndOptions, EndLoad, EndSave, EndDelete
<1>2. CASE Opens
  BY <1>2, Zenon DEF Opens, Opened
<1>3. CASE Saves \/ RefuseSave \/ closeModal
  BY <1>3, Zenon DEF Saves, Sends, StartSave, RefuseSave, closeModal
<1>4. CASE Loads \/ AsksForOptions \/ (\E x : debounce(x))
           \/ (\E i : confirmAction(i)) \/ (\E yes : ConfirmAnswered(yes))
  BY <1>4, Zenon DEF Loads, Reload, ComesUp, AsksForOptions, debounce, confirmAction, ConfirmAnswered
<1>5. CASE Lose \/ (\E n \in DOMAIN calls : \E ok, new : Serve(n, ok, new)) \/ (\E i, versions : OtherEdits(i, versions))
  BY <1>5, Zenon DEF Lose, Serve, OtherEdits
<1> QED
  BY <1>1, <1>2, <1>3, <1>4, <1>5, Zenon DEF PageStep, InPage

\* The dialog after it was closed, refused or opened.
LEMMA DialogAfter ==
  ASSUME DialogShape
  PROVE  /\ \A b : LET d == [dialog EXCEPT !.error = b] IN
              /\ d = [open |-> d.open, row |-> d.row, copy |-> d.copy, values |-> d.values,
                      editable |-> d.editable, canSave |-> d.canSave, error |-> d.error,
                      filling |-> d.filling]
              /\ d.open = dialog.open /\ d.row = dialog.row /\ d.copy = dialog.copy
              /\ d.values = dialog.values /\ d.editable = dialog.editable
              /\ d.canSave = dialog.canSave /\ d.filling = dialog.filling
         /\ LET d == AfterClose IN
              /\ d = [open |-> d.open, row |-> d.row, copy |-> d.copy, values |-> d.values,
                      editable |-> d.editable, canSave |-> d.canSave, error |-> d.error,
                      filling |-> d.filling]
              /\ ~d.open /\ d.filling = dialog.filling
<1>1. ASSUME NEW b, NEW d, d = [dialog EXCEPT !.error = b]
      PROVE  /\ d = [open |-> d.open, row |-> d.row, copy |-> d.copy, values |-> d.values,
                     editable |-> d.editable, canSave |-> d.canSave, error |-> d.error,
                     filling |-> d.filling]
             /\ d.open = dialog.open /\ d.row = dialog.row /\ d.copy = dialog.copy
             /\ d.values = dialog.values /\ d.editable = dialog.editable
             /\ d.canSave = dialog.canSave /\ d.filling = dialog.filling
  <2>1. d = [open |-> dialog.open, row |-> dialog.row, copy |-> dialog.copy,
             values |-> dialog.values, editable |-> dialog.editable,
             canSave |-> dialog.canSave, error |-> b, filling |-> dialog.filling]
    BY <1>1 DEF DialogShape
  <2> QED
    BY <2>1
<1>2. ASSUME NEW d, d = AfterClose
      PROVE  /\ d = [open |-> d.open, row |-> d.row, copy |-> d.copy, values |-> d.values,
                     editable |-> d.editable, canSave |-> d.canSave, error |-> d.error,
                     filling |-> d.filling]
             /\ ~d.open /\ d.filling = dialog.filling
  <2>1. d = [open |-> FALSE, row |-> 0, copy |-> None, values |-> <<>>, editable |-> {},
             canSave |-> dialog.canSave, error |-> FALSE, filling |-> dialog.filling]
    BY <1>2 DEF AfterClose, Closed
  <2> QED
    BY <2>1
<1> QED
  BY <1>1, <1>2

\* The dialog that was opened.
LEMMA OpenedDialog ==
  ASSUME NEW i, NEW copy, NEW values, NEW editable, NEW canSave,
         Opened(i, copy, values, editable, canSave)
  PROVE  /\ DialogShape' /\ dialog'.open /\ dialog'.row = i /\ dialog'.copy = copy
         /\ dialog'.values = values /\ dialog'.editable = editable /\ dialog'.canSave = canSave
         /\ dialog'.filling = dialog.filling + 1
BY DEF Opened, DialogShape

\* The controls stay those the page started with.
LEMMA ViewStep == ASSUME PageStep PROVE DOMAIN view' = DOMAIN view
<1> USE DEF list, form, ghost, Others
<1>1. CASE Loads
  BY <1>1, Zenon DEF Loads, Reload, ComesUp
<1>2. CASE \E x : debounce(x)
  BY <1>2 DEF debounce
<1>3. CASE \E n \in DOMAIN calls : EndOptions(n) \/ (\E shows : EndLoad(n, shows)) \/ EndSave(n) \/ EndDelete(n)
  BY <1>3, Zenon DEF EndOptions, EndLoad, EndSave, EndDelete
<1>4. CASE Opens \/ Saves \/ RefuseSave \/ closeModal
  BY <1>4, Zenon DEF Opens, Opened, Saves, Sends, StartSave, RefuseSave, closeModal
<1>5. CASE AsksForOptions \/ (\E i : confirmAction(i)) \/ (\E yes : ConfirmAnswered(yes))
  BY <1>5, Zenon DEF AsksForOptions, confirmAction, ConfirmAnswered
<1>6. CASE Lose \/ (\E n \in DOMAIN calls : \E ok, new : Serve(n, ok, new)) \/ (\E i, versions : OtherEdits(i, versions))
  BY <1>6, Zenon DEF Lose, Serve, OtherEdits
<1> QED
  BY <1>1, <1>2, <1>3, <1>4, <1>5, <1>6, Zenon DEF PageStep, InPage

\* Every step keeps the shape.
LEMMA ShapeStep == Shape /\ [Next]_allVars => Shape'
<1> SUFFICES ASSUME Shape, [Next]_allVars PROVE Shape'
  OBVIOUS
<1>1. page' = page
  BY PageFixed
<1>2. CASE UNCHANGED vars
  BY <1>1, <1>2 DEF Shape, vars, list, form, ghost, DialogShape
<1>3. CASE PageStep
  <2>1. IsList(rows') /\ IsList(calls') /\ \A i \in DOMAIN calls' : CallShape(calls'[i])
    BY <1>3, RowsStep, CallsStep, Zenon
  <2>2. DOMAIN options' = DOMAIN options /\ DOMAIN view' = DOMAIN view
    BY <1>3, DialogStep, ViewStep, Zenon
  <2>3. DialogShape' /\ (page = "tasks" /\ dialog'.open => "status" \in DOMAIN dialog'.values)
    <3>1. CASE UNCHANGED dialog
      BY <3>1 DEF Shape, DialogShape
    <3>2. CASE \E b : dialog' = [dialog EXCEPT !.error = b]
      BY <3>2, DialogAfter DEF Shape, DialogShape
    <3>3. CASE dialog' = AfterClose
      BY <3>3, DialogAfter DEF Shape, DialogShape
    <3>4. CASE Opens
      BY <3>4, OpenedDialog DEF Opens
    <3> QED
      BY <1>3, <3>1, <3>2, <3>3, <3>4, DialogStep, Zenon
  <2> QED
    BY <1>1, <2>1, <2>2, <2>3, Zenon DEF Shape
<1> QED
  BY <1>2, <1>3, NextSteps

\* What a record page is made of keeps its shape: the requests under way are a
\* list, each of its kind, and so are the rows of the table (record pages).
THEOREM PagesKeepShape == Spec => []Shape
BY ShapeInit, ShapeStep, PTL DEF Spec

-----------------------------------------------------------------------------
(* What is sent is what was listed.                                        *)

SameSave(c, d) ==
  /\ c.kind = "save" /\ d.kind = "save" /\ d.row = c.row /\ d.body = c.body /\ d.filled = c.filled
  /\ d.copy = c.copy /\ d.filling = c.filling

\* The save that this step sends.
SaveSent(c) == \E body, filled : Sends(body, filled) /\ c = SaveCall(body, filled)

\* Requests after a turn are older ones or those it sent.
LEMMA TurnOrigin ==
  ASSUME Shape, NEW n, NEW more, IsList(calls'), Replaced(calls, n, more, calls'), NEW i \in DOMAIN calls'
  PROVE  \/ \E j \in DOMAIN calls : j # n /\ calls'[i] = calls[j]
         \/ \E j \in 1 .. Len(more) : calls'[i] = more[j]
<1>1. DOMAIN calls = 1 .. Len(calls) /\ DOMAIN calls' = 1 .. Len(calls')
  BY ListDomain DEF Shape
<1> QED
  BY <1>1, Zenon DEF Replaced

\* Where a request under way comes from after a step of the page itself: it was
\* there, or the step has sent it.
LEMMA OwnOrigin ==
  ASSUME Shape, InPage, NEW i \in DOMAIN calls'
  PROVE  \/ \E j \in DOMAIN calls : calls'[i] = calls[j]
         \/ calls'[i].phase = "sent" /\ (calls'[i].kind = "save" => SaveSent(calls'[i]))
<1> DEFINE c == calls'[i]
           Old == \E j \in DOMAIN calls : c = calls[j]
           New == c.phase = "sent" /\ (c.kind = "save" => SaveSent(c))
<1>1. CASE UNCHANGED calls
  BY <1>1
<1>3. ASSUME NEW n \in {0} \cup DOMAIN calls, Turn(n, <<>>) PROVE Old
  <2>1. IsList(calls') /\ Replaced(calls, n, <<>>, calls')
    BY <1>3, EndShape, Zenon
  <2>2. ~ \E j \in 1 .. Len(<<>>) : c = <<>>[j]
    BY ShortLists
  <2> QED
    BY <2>1, <2>2, TurnOrigin
<1>4. ASSUME NEW n \in {0} \cup DOMAIN calls, NEW d, CallShape(d), Turn(n, <<d>>) PROVE Old \/ c = d
  <2>1. IsList(calls') /\ Replaced(calls, n, <<d>>, calls')
    BY <1>4, SendShape, Zenon
  <2>2. \A j \in 1 .. Len(<<d>>) : <<d>>[j] = d
    BY ShortLists
  <2> QED
    BY <2>1, <2>2, TurnOrigin
<1>5. ASSUME NEW n \in {0} \cup DOMAIN calls, NEW v, StartLoad(n, v) PROVE Old \/ New
  <2> DEFINE d == ListCall(Query(v))
  <2>1. CallShape(d) /\ d.kind # "save" /\ d.phase = "sent"
    BY SentShape
  <2>2. Turn(n, <<d>>)
    BY <1>5 DEF StartLoad
  <2> HIDE DEF d
  <2>3. Old \/ c = d
    BY <1>4, <2>1, <2>2
  <2> QED
    BY <2>1, <2>3
<1>8. ASSUME NEW n \in DOMAIN calls,
             EndOptions(n) \/ (\E shows : EndLoad(n, shows)) \/ EndSave(n) \/ EndDelete(n)
      PROVE  Old \/ New
  <2>1. n \in {0} \cup DOMAIN calls
    OBVIOUS
  <2>2. Turn(n, <<>>) \/ \E v : StartLoad(n, v)
    BY <1>8, Zenon DEF EndOptions, EndLoad, EndSave, EndDelete
  <2> HIDE DEF Old, New
  <2> QED
    BY <1>3, <1>5, <2>1, <2>2, Zenon
<1>9. 0 \in {0} \cup DOMAIN calls
  OBVIOUS
<1>10. ASSUME Loads PROVE Old \/ New
  <2>1. \E v : StartLoad(0, v)
    BY <1>10, Zenon DEF Loads, Reload, ComesUp
  <2> HIDE DEF Old, New
  <2> QED
    BY <1>5, <1>9, <2>1, Zenon
<1>11. ASSUME AsksForOptions PROVE Old \/ New
  <2>1. ASSUME NEW s, Turn(0, <<OptionCall(s)>>) PROVE Old \/ New
    <3>1. Old \/ c = OptionCall(s)
      BY <1>4, <1>9, <2>1, SentShape
    <3>2. OptionCall(s).phase = "sent" /\ OptionCall(s).kind # "save"
      BY SentShape
    <3> QED
      BY <3>1, <3>2
  <2>2. ASSUME NEW s, NEW t, Turn(0, <<OptionCall(s), OptionCall(t)>>) PROVE Old \/ New
    <3> DEFINE more == <<OptionCall(s), OptionCall(t)>>
    <3>1. IsList(more) /\ Len(more) = 2 /\ more[1] = OptionCall(s) /\ more[2] = OptionCall(t)
      BY ShortLists
    <3>2. Turn(0, more)
      BY <2>2
    <3> HIDE DEF more
    <3>3. \A j \in 1 .. Len(more) :
            CallShape(more[j]) /\ more[j].phase = "sent" /\ more[j].kind # "save"
      BY <3>1, SentShape
    <3>4. IsList(calls') /\ Replaced(calls, 0, more, calls')
      BY <1>9, <3>1, <3>2, <3>3, TurnShape, Zenon
    <3>5. Old \/ \E j \in 1 .. Len(more) : c = more[j]
      BY <3>4, TurnOrigin, Zenon
    <3> QED
      BY <3>3, <3>5
  <2> QED
    BY <1>11, <2>1, <2>2, Zenon DEF AsksForOptions
<1>12. ASSUME Saves PROVE Old \/ New
  <2>1. PICK body, filled : Sends(body, filled)
    BY <1>12 DEF Saves
  <2>2. Turn(0, <<SaveCall(body, filled)>>)
    BY <2>1, Zenon DEF Sends, StartSave
  <2>3. CallShape(SaveCall(body, filled)) /\ SaveCall(body, filled).phase = "sent"
    BY SentShape
  <2>4. Old \/ c = SaveCall(body, filled)
    BY <1>4, <1>9, <2>2, <2>3
  <2>5. SaveSent(SaveCall(body, filled))
    BY <2>1, Zenon DEF SaveSent
  <2> QED
    BY <2>3, <2>4, <2>5
<1>13. ASSUME NEW yes, ConfirmAnswered(yes) PROVE Old \/ New
  <2>1. Turn(0, <<DeleteCall(asked)>>) \/ Turn(0, <<>>)
    BY <1>13, Zenon DEF ConfirmAnswered
  <2>2. CallShape(DeleteCall(asked)) /\ DeleteCall(asked).phase = "sent" /\ DeleteCall(asked).kind # "save"
    BY SentShape
  <2>3. Old \/ c = DeleteCall(asked)
    BY <1>3, <1>4, <1>9, <2>1, <2>2
  <2> QED
    BY <2>2, <2>3
<1>14. CASE ~UNCHANGED calls
  <2>1. ~Opens /\ ~RefuseSave /\ ~closeModal /\ ~(\E x : debounce(x)) /\ ~(\E k : confirmAction(k))
    BY <1>14, Zenon DEF Opens, Opened, RefuseSave, closeModal, debounce, confirmAction
  <2>2. Old \/ New
    <3> HIDE DEF Old, New
    <3> QED
      BY <1>8, <1>10, <1>11, <1>12, <1>13, <2>1, Zenon DEF InPage
  <2> QED
    BY <2>2
<1> QED
  BY <1>1, <1>14

\* Where a request under way comes from: it was there, this step has sent it, or
\* the network or the server has brought it into another phase.
LEMMA Origin ==
  ASSUME Shape, PageStep, NEW i \in DOMAIN calls'
  PROVE  \/ \E j \in DOMAIN calls : calls'[i] = calls[j]
         \/ /\ i \in DOMAIN calls /\ calls'[i].kind = calls[i].kind
            /\ calls'[i].kind = "save" => SameSave(calls[i], calls'[i])
            /\ (calls'[i].kind = "list" /\ calls'[i].phase = "ok") => \E q : calls'[i].found = Answer(q)
         \/ calls'[i].phase = "sent" /\ (calls'[i].kind = "save" => SaveSent(calls'[i]))
<1> DEFINE c == calls'[i]
           Old == \E j \in DOMAIN calls : c = calls[j]
           Same == /\ i \in DOMAIN calls /\ c.kind = calls[i].kind
                   /\ c.kind = "save" => SameSave(calls[i], c)
                   /\ (c.kind = "list" /\ c.phase = "ok") => \E q : c.found = Answer(q)
<1>1. CASE InPage
  BY <1>1, OwnOrigin
<1>2. ASSUME NEW n \in DOMAIN calls, NEW d, calls' = [calls EXCEPT ![n] = d], d.kind = calls[n].kind,
             d.kind = "save" => SameSave(calls[n], d),
             (d.kind = "list" /\ d.phase = "ok") => \E q : d.found = Answer(q)
      PROVE  Old \/ Same
  <2>1. DOMAIN calls' = DOMAIN calls /\ \A k \in DOMAIN calls : calls'[k] = IF k = n THEN d ELSE calls[k]
    BY <1>2, Marked DEF Shape
  <2>2. CASE i = n
    <3>1. c = d /\ i \in DOMAIN calls
      BY <2>1, <2>2
    <3> QED
      BY <1>2, <2>2, <3>1, Zenon
  <2>3. CASE i # n
    BY <2>1, <2>3
  <2> QED
    BY <2>2, <2>3
<1>3. ASSUME NEW n \in DOMAIN calls, NEW ok, NEW new, Serve(n, ok, new) PROVE Old \/ Same
  <2>1. PICK d : /\ calls' = [calls EXCEPT ![n] = d] /\ d.kind = calls[n].kind
                 /\ calls[n].kind = "list" => d.phase = "ok" /\ d.found = Answer(calls[n].query)
                 /\ calls[n].kind = "save" => /\ d.row = calls[n].row /\ d.body = calls[n].body
                                              /\ d.filled = calls[n].filled
                                              /\ d.copy = calls[n].copy /\ d.filling = calls[n].filling
    BY <1>3, ServeEffect
  <2>2. d.kind = "save" => SameSave(calls[n], d)
    BY <2>1 DEF SameSave
  <2>3. (d.kind = "list" /\ d.phase = "ok") => \E q : d.found = Answer(q)
    BY <2>1, Zenon
  <2> HIDE DEF Old, Same
  <2> QED
    BY <1>2, <2>1, <2>2, <2>3
<1>4. ASSUME Lose PROVE Old \/ Same
  <2>1. PICK n \in DOMAIN calls : \E d :
                 /\ calls' = [calls EXCEPT ![n] = d] /\ d.kind = calls[n].kind /\ d.phase = "lost"
                 /\ d.kind = "save" => /\ d.row = calls[n].row /\ d.body = calls[n].body
                                       /\ d.filled = calls[n].filled
                                       /\ d.copy = calls[n].copy /\ d.filling = calls[n].filling
    BY <1>4, LoseEffect, Zenon
  <2>2. PICK d :
                 /\ calls' = [calls EXCEPT ![n] = d] /\ d.kind = calls[n].kind /\ d.phase = "lost"
                 /\ d.kind = "save" => /\ d.row = calls[n].row /\ d.body = calls[n].body
                                       /\ d.filled = calls[n].filled
                                       /\ d.copy = calls[n].copy /\ d.filling = calls[n].filling
    BY <2>1
  <2>3. d.kind = "save" => SameSave(calls[n], d)
    BY <2>2 DEF SameSave
  <2>4. ~(d.kind = "list" /\ d.phase = "ok")
    BY <2>2
  <2> HIDE DEF Old, Same
  <2> QED
    BY <1>2, <2>2, <2>3, <2>4
<1>5. CASE \E k, versions : OtherEdits(k, versions)
  <2>1. calls' = calls
    BY <1>5, Zenon DEF OtherEdits
  <2> QED
    BY <2>1
<1> QED
  BY <1>1, <1>3, <1>4, <1>5, Zenon DEF PageStep

\* Nothing is open and nothing sent at first.
LEMMA ListedInit == Init => ListedInv
<1> SUFFICES ASSUME Init PROVE ListedInv
  OBVIOUS
<1>1. ~dialog.open /\ DOMAIN calls = {}
  BY InitFacts, ShortLists DEF Closed
<1> QED
  BY <1>1 DEF ListedInv, SentAsListed, Is

\* What is open shows its row, and so does what is sent from it.
LEMMA ListedStep == Shape /\ ListedInv /\ [Next]_allVars => ListedInv'
<1> SUFFICES ASSUME Shape, ListedInv, [Next]_allVars PROVE ListedInv'
  OBVIOUS
<1>1. CASE UNCHANGED vars
  BY <1>1, Zenon DEF ListedInv, SentAsListed, Is, Faithful, vars, form
<1>2. CASE PageStep
  <2>0. DOMAIN options' = DOMAIN options
    BY <1>2, DialogStep, Zenon
  <2>1. (dialog'.open /\ dialog'.canSave /\ dialog'.row # 0) => Faithful(dialog.values, dialog.copy)'
    <3>1. CASE UNCHANGED dialog
      BY <2>0, <3>1 DEF ListedInv, Faithful
    <3>2. CASE \E b : dialog' = [dialog EXCEPT !.error = b]
      BY <2>0, <3>2, DialogAfter DEF ListedInv, Faithful, Shape
    <3>3. CASE dialog' = AfterClose
      BY <3>3, DialogAfter DEF Shape
    <3>4. CASE Opens
      <4>1. PICK i, copy, values, editable, canSave :
              Opened(i, copy, values, editable, canSave) /\ (i # 0 /\ canSave => Faithful(values, copy))
        BY <3>4, Zenon DEF Opens
      <4>2. dialog'.row = i /\ dialog'.copy = copy /\ dialog'.values = values /\ dialog'.canSave = canSave
        BY <4>1, OpenedDialog, Zenon
      <4> QED
        BY <2>0, <4>1, <4>2 DEF Faithful
    <3> QED
      BY <1>2, <3>1, <3>2, <3>3, <3>4, DialogStep, Zenon
  <2>2. ASSUME NEW n \in DOMAIN calls', calls'[n].kind = "save", calls'[n].row # 0,
               NEW f \in DOMAIN calls'[n].body \ calls'[n].filled
        PROVE  \/ calls'[n].body[f] = calls'[n].copy[f]
               \/ f \in DOMAIN options' \cup {"due"} /\ calls'[n].body[f] = None
    <3>1. CASE \E j \in DOMAIN calls : calls'[n] = calls[j]
      <4>1. PICK j \in DOMAIN calls : calls'[n] = calls[j]
        BY <3>1
      <4>2. calls[j].kind = "save" /\ calls[j].row # 0 /\ f \in DOMAIN calls[j].body \ calls[j].filled
        BY <2>2, <4>1
      <4>3. calls[j].body[f] = calls[j].copy[f] \/ (f \in DOMAIN options \cup {"due"} /\ calls[j].body[f] = None)
        BY <4>2, Zenon DEF ListedInv, SentAsListed, Is
      <4> QED
        BY <2>0, <4>1, <4>3
    <3>2. CASE n \in DOMAIN calls /\ SameSave(calls[n], calls'[n])
      BY <2>0, <2>2, <3>2 DEF ListedInv, SentAsListed, Is, SameSave
    <3>3. CASE SaveSent(calls'[n])
      <4>1. PICK body, filled :
              /\ dialog.open /\ dialog.canSave
              /\ \A g \in DOMAIN body \ filled : g \in DOMAIN dialog.values /\ body[g] = dialog.values[g]
              /\ calls'[n] = SaveCall(body, filled)
        BY <3>3, Zenon DEF SaveSent, Sends
      <4>2. /\ calls'[n].row = dialog.row /\ calls'[n].copy = dialog.copy
            /\ calls'[n].body = body /\ calls'[n].filled = filled
        BY <4>1, SentShape
      <4>3. Faithful(dialog.values, dialog.copy)
        BY <2>2, <4>1, <4>2 DEF ListedInv
      <4> QED
        BY <2>0, <2>2, <4>1, <4>2, <4>3 DEF Faithful
    <3> QED
      BY <1>2, <2>2, <3>1, <3>2, <3>3, Origin, Zenon
  <2> QED
    BY <2>1, <2>2 DEF ListedInv, SentAsListed, Is
<1> QED
  BY <1>1, <1>2, NextSteps

\* A field the user has not chosen in a dialog is sent as it was listed when the
\* dialog opened, whatever has happened since, unless its select has no option
\* for it or it is a task's due date, which are sent empty: on all five pages
\* (SentAsListed, the openModal and save handlers).
THEOREM FieldsAreSentAsListed == Spec => []SentAsListed
<1>1. Init => Shape /\ ListedInv
  BY ShapeInit, ListedInit
<1>2. Shape /\ ListedInv /\ [Next]_allVars => (Shape /\ ListedInv)'
  BY ShapeStep, ListedStep
<1>3. ListedInv => SentAsListed
  BY DEF ListedInv
<1> QED
  BY <1>1, <1>2, <1>3, PTL DEF Spec

-----------------------------------------------------------------------------
(* One filling of the dialog creates one row.                              *)

\* Fillings are numbered upwards.
LEMMA OnceInit == Init => OnceInv
<1> SUFFICES ASSUME Init PROVE OnceInv
  OBVIOUS
<1>1. ~dialog.open /\ dialog.filling = 0 /\ stored = {} /\ DOMAIN calls = {} /\ Len(calls) = 0
  BY InitFacts, ShortLists DEF Closed
<1> QED
  BY <1>1 DEF OnceInv, Twice, Has

\* A turn that neither handles nor sends a save.
LEMMA OnceTurned ==
  ASSUME Shape, OnceInv, NEW n \in {0} \cup DOMAIN calls, n # 0 => calls[n].kind # "save",
         NEW more, \A j \in 1 .. Len(more) : more[j].kind # "save",
         IsList(calls'), Replaced(calls, n, more, calls'),
         UNCHANGED <<dialog, busy, stored>>, excused => excused'
  PROVE  OnceInv'
<1>1. DOMAIN calls = 1 .. Len(calls) /\ DOMAIN calls' = 1 .. Len(calls')
  BY ListDomain, Zenon DEF Shape
<1>2. \A i \in DOMAIN calls' : calls'[i].kind = "save" => \E j \in DOMAIN calls : calls'[i] = calls[j]
  <2> TAKE i \in DOMAIN calls'
  <2>1. \/ \E j \in 1 .. Len(calls) : calls'[i] = calls[j]
        \/ \E j \in 1 .. Len(more) : calls'[i] = more[j]
    BY <1>1, Zenon DEF Replaced
  <2> QED
    BY <1>1, <2>1
<1>3. \A j \in DOMAIN calls : calls[j].kind = "save" => \E i \in DOMAIN calls' : calls'[i] = calls[j]
  <2> TAKE j \in DOMAIN calls
  <2> HAVE calls[j].kind = "save"
  <2>1. j # n
    <3>1. CASE n = 0
      BY <1>1, <3>1, ListDomain DEF Shape
    <3>2. CASE n # 0
      BY <3>2
    <3> QED
      BY <3>1, <3>2
  <2> QED
    BY <1>1, <2>1, Zenon DEF Replaced
<1>4. ~Has(more, "save")
  BY Zenon DEF Has
<1>5. ~Twice(calls', "save")
  BY <1>4, Zenon DEF Replaced, OnceInv
<1>6. ~busy' => ~Has(calls', "save")
  BY <1>1, <1>2, Zenon DEF Has, OnceInv
<1>7. \A i \in DOMAIN calls' :
        calls'[i].kind = "save" => calls'[i].filling \in Nat /\ calls'[i].filling <= dialog'.filling
  BY <1>2, Zenon DEF OnceInv
<1>8. ASSUME ~excused', NEW i \in DOMAIN calls', calls'[i].kind = "save", calls'[i].phase = "sent",
             calls'[i].row = 0
      PROVE  calls'[i].filling \notin stored'
  BY <1>2, <1>8, Zenon DEF OnceInv
<1>9. ASSUME ~excused', dialog'.open, dialog'.row = 0,
             \A i \in DOMAIN calls' : ~(calls'[i].kind = "save" /\ calls'[i].phase = "ok")
      PROVE  dialog'.filling \notin stored'
  BY <1>3, <1>9, Zenon DEF OnceInv
<1>10. dialog'.filling \in Nat /\ \A x \in stored' : x \in Nat /\ x <= dialog'.filling
  BY Zenon DEF OnceInv
<1> QED
  BY <1>5, <1>6, <1>7, <1>8, <1>9, <1>10, Zenon DEF OnceInv

\* The dialog closes, is refused or opens while the requests wait.
LEMMA OnceDialog ==
  ASSUME Shape, OnceInv, UNCHANGED <<calls, busy, stored, excused>>,
         \/ UNCHANGED dialog
         \/ \E b : dialog' = [dialog EXCEPT !.error = b]
         \/ dialog' = AfterClose
         \/ Opens
  PROVE  OnceInv'
<1>1. CASE UNCHANGED <<dialog.open, dialog.row, dialog.filling>> \/ (~dialog'.open /\ UNCHANGED dialog.filling)
  BY <1>1 DEF OnceInv
<1>2. CASE \E b : dialog' = [dialog EXCEPT !.error = b]
  BY <1>1, <1>2, DialogAfter DEF Shape
<1>3. CASE dialog' = AfterClose
  BY <1>1, <1>3, DialogAfter DEF Shape
<1>4. CASE Opens
  <2>1. dialog'.filling = dialog.filling + 1
    BY <1>4, OpenedDialog, Zenon DEF Opens
  <2> QED
    BY <2>1 DEF OnceInv
<1> QED
  BY <1>1, <1>2, <1>3, <1>4

\* A save ends: it was the only one.
LEMMA OnceSaved ==
  ASSUME Shape, OnceInv, NEW n \in DOMAIN calls, EndSave(n)
  PROVE  OnceInv'
<1>1. calls[n].kind = "save" /\ busy' = FALSE /\ UNCHANGED <<stored, excused>>
  BY Zenon DEF EndSave, Answered, Is, ghost
<1>2. n \in {0} \cup DOMAIN calls /\ DOMAIN calls = 1 .. Len(calls) /\ n # 0
  BY ListDomain DEF Shape
<1>3. PICK more : /\ IsList(calls') /\ Replaced(calls, n, more, calls')
                  /\ \A j \in 1 .. Len(more) : more[j].kind # "save"
  <2>1. CASE Turn(n, <<>>)
    <3>1. \A j \in 1 .. Len(<<>>) : <<>>[j].kind # "save"
      BY ShortLists
    <3> QED
      BY <1>2, <2>1, <3>1, EndShape, Zenon
  <2>2. CASE StartLoad(n, view)
    <3> DEFINE c == ListCall(Query(view))
    <3>1. CallShape(c) /\ c.kind # "save"
      BY SentShape
    <3>2. Turn(n, <<c>>)
      BY <2>2 DEF StartLoad
    <3> HIDE DEF c
    <3>3. \A j \in 1 .. Len(<<c>>) : <<c>>[j].kind # "save"
      BY <3>1, ShortLists
    <3> QED
      BY <1>2, <3>1, <3>2, <3>3, SendShape, Zenon
  <2> QED
    BY <2>1, <2>2, Zenon DEF EndSave
<1>4. ~Has(calls', "save")
  <2>1. ~Has(more, "save")
    BY <1>3, Zenon DEF Has
  <2> QED
    BY <1>1, <1>2, <1>3, <2>1, Zenon DEF Replaced, OnceInv
<1>5. DOMAIN calls' = 1 .. Len(calls') /\ \A i \in DOMAIN calls' : calls'[i].kind # "save"
  BY <1>3, <1>4, ListDomain, Zenon DEF Has
<1>6. ~Twice(calls', "save")
  BY <1>5, Zenon DEF Twice
<1>7. dialog'.filling = dialog.filling
  BY DialogAfter, Zenon DEF EndSave, Shape
<1>8. ASSUME ~excused', dialog'.open, dialog'.row = 0 PROVE dialog'.filling \notin stored'
  <2>1. calls[n].phase # "ok" /\ dialog' = [dialog EXCEPT !.error = TRUE]
    BY <1>8, DialogAfter, Zenon DEF EndSave, Shape
  <2>2. dialog.open /\ dialog.row = 0
    BY <1>8, <2>1, DialogAfter, Zenon DEF Shape
  <2>3. \A i \in DOMAIN calls : ~(calls[i].kind = "save" /\ calls[i].phase = "ok")
    <3>1. \A i \in DOMAIN calls : calls[i].kind = "save" => i = n
      BY <1>1, <1>2, Zenon DEF OnceInv, Twice
    <3> QED
      BY <2>1, <3>1
  <2> QED
    BY <1>1, <1>7, <1>8, <2>2, <2>3, Zenon DEF OnceInv
<1> QED
  BY <1>1, <1>4, <1>5, <1>6, <1>7, <1>8 DEF OnceInv

\* A save starts: there is none.
LEMMA OnceSending ==
  ASSUME Shape, OnceInv, Saves
  PROVE  OnceInv'
<1>1. PICK body, filled :
        /\ dialog.open /\ dialog.canSave /\ ~busy
        /\ StartSave(body, filled)
  BY Zenon DEF Saves, Sends
<1> DEFINE c == SaveCall(body, filled)
<1>2. CallShape(c) /\ c.kind = "save" /\ c.row = dialog.row /\ c.filling = dialog.filling /\ c.phase = "sent"
  BY SentShape
<1>3. Turn(0, <<c>>) /\ busy' = TRUE /\ dialog' = [dialog EXCEPT !.error = FALSE] /\ UNCHANGED <<stored, excused>>
  BY <1>1, Zenon DEF StartSave, ghost
<1> HIDE DEF c
<1>4. IsList(calls') /\ Joined(calls, <<c>>, calls')
  BY <1>3, ShortLists, TurnEffect, Zenon DEF Shape
<1>5. /\ DOMAIN calls = 1 .. Len(calls) /\ Len(calls) \in Nat /\ DOMAIN calls' = 1 .. Len(calls')
      /\ Len(calls') = Len(calls) + 1
      /\ \A i \in DOMAIN calls' : calls'[i] = IF i <= Len(calls) THEN calls[i] ELSE c
  <2>1. DOMAIN calls = 1 .. Len(calls) /\ Len(calls) \in Nat /\ DOMAIN calls' = 1 .. Len(calls')
    BY <1>4, ListDomain, Zenon DEF Shape
  <2>2. Len(<<c>>) = 1 /\ <<c>>[1] = c
    BY ShortLists
  <2>3. Len(calls') = Len(calls) + 1
    BY <1>4, <2>2 DEF Joined
  <2>4. ASSUME NEW i \in DOMAIN calls' PROVE calls'[i] = IF i <= Len(calls) THEN calls[i] ELSE c
    <3>1. calls'[i] = IF i <= Len(calls) THEN calls[i] ELSE <<c>>[i - Len(calls)]
      BY <1>4, <2>1, Zenon DEF Joined
    <3>2. ~(i <= Len(calls)) => i - Len(calls) = 1
      BY <2>1, <2>3
    <3> QED
      BY <2>2, <3>1, <3>2
  <2> QED
    BY <2>1, <2>3, <2>4
<1>6. \A i \in DOMAIN calls : calls[i].kind # "save"
  BY <1>1, <1>5, Zenon DEF OnceInv, Has
<1>7. \A i \in DOMAIN calls' : calls'[i].kind = "save" => i = Len(calls) + 1 /\ calls'[i] = c
  BY <1>5, <1>6
<1>8. ~Twice(calls', "save")
  <2> SUFFICES ASSUME NEW i \in 1 .. Len(calls'), NEW j \in 1 .. Len(calls'), i # j,
                      calls'[i].kind = "save", calls'[j].kind = "save"
               PROVE  FALSE
    BY Zenon DEF Twice
  <2>1. i \in DOMAIN calls' /\ j \in DOMAIN calls'
    BY <1>5
  <2> QED
    BY <1>7, <2>1
<1>9. dialog'.filling = dialog.filling /\ dialog'.open = dialog.open /\ dialog'.row = dialog.row
  BY <1>3, DialogAfter, Zenon DEF Shape
<1>10. (~excused /\ dialog.row = 0) => dialog.filling \notin stored
  BY <1>1, <1>6, Zenon DEF OnceInv
<1>11. ASSUME ~excused', NEW i \in DOMAIN calls', calls'[i].kind = "save", calls'[i].row = 0
       PROVE  calls'[i].filling \notin stored'
  BY <1>2, <1>3, <1>7, <1>10, <1>11
<1>12. \A i \in DOMAIN calls' :
         calls'[i].kind = "save" => calls'[i].filling \in Nat /\ calls'[i].filling <= dialog'.filling
  BY <1>2, <1>7, <1>9 DEF OnceInv
<1>13. dialog'.filling \in Nat /\ \A x \in stored' : x \in Nat /\ x <= dialog'.filling
  BY <1>3, <1>9 DEF OnceInv
<1>14. busy' /\ ((~excused' /\ dialog'.open /\ dialog'.row = 0) => dialog'.filling \notin stored')
  BY <1>3, <1>9, <1>10
<1> QED
  BY <1>8, <1>11, <1>12, <1>13, <1>14, Zenon DEF OnceInv

\* A request reaches another phase.
LEMMA OnceMarked ==
  ASSUME Shape, OnceInv, NEW n \in DOMAIN calls, NEW c, calls' = [calls EXCEPT ![n] = c],
         c.kind = calls[n].kind, c.kind = "save" => c.row = calls[n].row /\ c.filling = calls[n].filling,
         c.phase # "sent", UNCHANGED <<dialog, busy>>, excused => excused',
         stored' = stored \cup (IF c.kind = "save" /\ c.row = 0 /\ c.phase = "ok" THEN {c.filling} ELSE {}),
         calls[n].kind = "save" /\ calls[n].phase = "ok" => excused'
  PROVE  OnceInv'
<1>1. /\ DOMAIN calls' = DOMAIN calls /\ DOMAIN calls = 1 .. Len(calls) /\ Len(calls') = Len(calls)
      /\ \A i \in DOMAIN calls : calls'[i] = IF i = n THEN c ELSE calls[i]
  BY Marked, ListDomain DEF Shape
<1>2. \A i \in DOMAIN calls : calls'[i].kind = calls[i].kind
  BY <1>1
<1>3. ~Twice(calls', "save") /\ (~busy' => ~Has(calls', "save"))
  <2>1. ~Twice(calls, "save") /\ (~busy' => ~Has(calls, "save"))
    BY Zenon DEF OnceInv
  <2>2. \A i \in 1 .. Len(calls) : calls'[i].kind = calls[i].kind
    BY <1>1, <1>2
  <2>3. Len(calls') = Len(calls)
    BY <1>1
  <2> QED
    BY <2>1, <2>2, <2>3 DEF Twice, Has
<1>4. \A i \in DOMAIN calls' :
        calls'[i].kind = "save" => calls'[i].filling \in Nat /\ calls'[i].filling <= dialog'.filling
  BY <1>1 DEF OnceInv
<1>5. dialog'.filling \in Nat /\ \A x \in stored' : x \in Nat /\ x <= dialog'.filling
  BY <1>1, <1>4 DEF OnceInv
<1>6. ASSUME ~excused', NEW i \in DOMAIN calls', calls'[i].kind = "save", calls'[i].phase = "sent",
             calls'[i].row = 0
      PROVE  calls'[i].filling \notin stored'
  <2>1. i # n /\ calls'[i] = calls[i]
    BY <1>1, <1>6
  <2>2. c.kind # "save"
    BY <1>1, <1>6, <2>1, Zenon DEF OnceInv, Twice
  <2> QED
    BY <1>1, <1>6, <2>1, <2>2 DEF OnceInv
<1>7. ASSUME ~excused', dialog'.open, dialog'.row = 0,
             \A i \in DOMAIN calls' : ~(calls'[i].kind = "save" /\ calls'[i].phase = "ok")
      PROVE  dialog'.filling \notin stored'
  <2>1. \A i \in DOMAIN calls : ~(calls[i].kind = "save" /\ calls[i].phase = "ok")
    BY <1>1, <1>7
  <2>2. stored' = stored
    BY <1>1, <1>7
  <2> QED
    BY <1>7, <2>1, <2>2 DEF OnceInv
<1> QED
  BY <1>3, <1>4, <1>5, <1>6, <1>7, Zenon DEF OnceInv

\* No step lets a filling create twice.
LEMMA OnceStep == Shape /\ OnceInv /\ [Next]_allVars => OnceInv'
<1> SUFFICES ASSUME Shape, OnceInv, [Next]_allVars PROVE OnceInv'
  OBVIOUS
<1> USE DEF list, form, ghost
<1>1. CASE UNCHANGED vars
  BY <1>1, Zenon DEF vars, OnceInv, Twice, Has
<1>2. ASSUME NEW n \in {0} \cup DOMAIN calls, n # 0 => calls[n].kind # "save", Turn(n, <<>>),
             UNCHANGED <<dialog, busy, stored>>, excused => excused'
      PROVE  OnceInv'
  <2>1. IsList(calls') /\ Replaced(calls, n, <<>>, calls')
    BY <1>2, EndShape, Zenon
  <2>2. \A j \in 1 .. Len(<<>>) : <<>>[j].kind # "save"
    BY ShortLists
  <2> QED
    BY <1>2, <2>1, <2>2, OnceTurned
<1>3. ASSUME NEW n \in {0} \cup DOMAIN calls, n # 0 => calls[n].kind # "save", NEW c, CallShape(c),
             c.kind # "save", Turn(n, <<c>>), UNCHANGED <<dialog, busy, stored>>, excused => excused'
      PROVE  OnceInv'
  <2> DEFINE more == <<c>>
  <2>1. IsList(calls') /\ Replaced(calls, n, more, calls')
    BY <1>3, SendShape, Zenon
  <2>2. \A j \in 1 .. Len(more) : more[j].kind # "save"
    BY <1>3, ShortLists
  <2> HIDE DEF more
  <2> QED
    BY <1>3, <2>1, <2>2, OnceTurned
<1>4. ASSUME NEW n \in {0} \cup DOMAIN calls, n # 0 => calls[n].kind # "save", NEW v, StartLoad(n, v),
             UNCHANGED <<dialog, busy, stored>>, excused => excused'
      PROVE  OnceInv'
  <2>1. Turn(n, <<ListCall(Query(v))>>)
    BY <1>4, Zenon DEF StartLoad
  <2>2. CallShape(ListCall(Query(v))) /\ ListCall(Query(v)).kind # "save"
    BY SentShape
  <2> QED
    BY <1>3, <1>4, <2>1, <2>2
<1>5. 0 \in {0} \cup DOMAIN calls
  OBVIOUS
<1>6. CASE Loads
  <2>1. PICK v : StartLoad(0, v) /\ UNCHANGED <<dialog, busy, stored, excused>>
    BY <1>6, Zenon DEF Loads, Reload, ComesUp
  <2> QED
    BY <1>4, <1>5, <2>1
<1>7. CASE AsksForOptions
  <2>1. UNCHANGED <<dialog, busy, stored, excused>>
    BY <1>7, Zenon DEF AsksForOptions
  <2>2. ASSUME NEW s, Turn(0, <<OptionCall(s)>>) PROVE OnceInv'
    <3>1. CallShape(OptionCall(s)) /\ OptionCall(s).kind # "save"
      BY SentShape
    <3> QED
      BY <1>3, <1>5, <2>1, <2>2, <3>1
  <2>3. ASSUME NEW s, NEW t, Turn(0, <<OptionCall(s), OptionCall(t)>>) PROVE OnceInv'
    <3> DEFINE more == <<OptionCall(s), OptionCall(t)>>
    <3>1. IsList(more) /\ Len(more) = 2 /\ more[1] = OptionCall(s) /\ more[2] = OptionCall(t)
      BY ShortLists
    <3>2. Turn(0, more)
      BY <2>3
    <3> HIDE DEF more
    <3>3. \A j \in 1 .. Len(more) : CallShape(more[j]) /\ more[j].kind # "save"
      BY <3>1, SentShape
    <3>4. IsList(calls') /\ Replaced(calls, 0, more, calls')
      BY <1>5, <3>1, <3>2, <3>3, TurnShape, Zenon
    <3> QED
      BY <1>5, <2>1, <3>3, <3>4, OnceTurned
  <2> QED
    BY <1>7, <2>2, <2>3, Zenon DEF AsksForOptions
<1>8. ASSUME NEW n \in DOMAIN calls, EndOptions(n) \/ (\E shows : EndLoad(n, shows)) \/ EndDelete(n)
      PROVE  OnceInv'
  <2>1. n \in {0} \cup DOMAIN calls
    OBVIOUS
  <2>2. calls[n].kind # "save"
    BY <1>8 DEF EndOptions, EndLoad, EndDelete, Answered, Is
  <2>3. Turn(n, <<>>) \/ \E v : StartLoad(n, v)
    BY <1>8, Zenon DEF EndOptions, EndLoad, EndDelete
  <2>4. UNCHANGED <<dialog, busy, stored>> /\ (excused => excused')
    <3>1. CASE EndOptions(n) \/ EndDelete(n)
      <4>1. UNCHANGED <<stored, excused>> /\ UNCHANGED <<dialog, busy>>
        BY <1>8, <3>1, Zenon DEF EndOptions, EndDelete, EndLoad
      <4> QED
        BY <4>1
    <3>2. CASE \E shows : EndLoad(n, shows)
      BY <3>2 DEF EndLoad
    <3> QED
      BY <1>8, <3>1, <3>2
  <2> QED
    BY <1>2, <1>4, <2>1, <2>2, <2>3, <2>4
<1>9. CASE Opens \/ RefuseSave \/ closeModal \/ (\E x : debounce(x)) \/ (\E i : confirmAction(i))
  <2>1. /\ UNCHANGED <<calls, busy, stored, excused>>
        /\ \/ UNCHANGED dialog
           \/ \E b : dialog' = [dialog EXCEPT !.error = b]
           \/ dialog' = AfterClose
           \/ Opens
    BY <1>9, Zenon DEF Opens, Opened, RefuseSave, closeModal, debounce, confirmAction
  <2> QED
    BY <2>1, OnceDialog, Zenon
<1>10. ASSUME NEW yes, ConfirmAnswered(yes) PROVE OnceInv'
  <2>1. Turn(0, <<DeleteCall(asked)>>) \/ Turn(0, <<>>)
    BY <1>10, Zenon DEF ConfirmAnswered
  <2>2. UNCHANGED <<dialog, busy, stored, excused>>
    BY <1>10, Zenon DEF ConfirmAnswered
  <2>3. CallShape(DeleteCall(asked)) /\ DeleteCall(asked).kind # "save"
    BY SentShape
  <2> QED
    BY <1>2, <1>3, <1>5, <2>1, <2>2, <2>3
<1>11. CASE Lose
  <2>1. PICK n \in DOMAIN calls : \E c :
          /\ calls' = [calls EXCEPT ![n] = c] /\ c.kind = calls[n].kind /\ c.phase = "lost"
          /\ c.kind = "save" => c.row = calls[n].row /\ c.filling = calls[n].filling
          /\ excused' = (excused \/ (calls[n].phase = "ok" /\ calls[n].kind \in {"save", "delete"}))
    BY <1>11, LoseEffect, Zenon
  <2>2. PICK c :
          /\ calls' = [calls EXCEPT ![n] = c] /\ c.kind = calls[n].kind /\ c.phase = "lost"
          /\ c.kind = "save" => c.row = calls[n].row /\ c.filling = calls[n].filling
          /\ excused' = (excused \/ (calls[n].phase = "ok" /\ calls[n].kind \in {"save", "delete"}))
    BY <2>1
  <2>3. UNCHANGED <<dialog, busy, stored>>
    BY <1>11, Zenon DEF Lose, Others
  <2>4. stored' = stored \cup (IF c.kind = "save" /\ c.row = 0 /\ c.phase = "ok" THEN {c.filling} ELSE {})
    BY <2>2, <2>3
  <2>5. c.phase # "sent" /\ (excused => excused')
        /\ (calls[n].kind = "save" /\ calls[n].phase = "ok" => excused')
    BY <2>2
  <2> QED
    BY <2>2, <2>3, <2>4, <2>5, OnceMarked
<1>12. ASSUME NEW n \in DOMAIN calls, NEW ok, NEW new, Serve(n, ok, new) PROVE OnceInv'
  <2>1. PICK c :
          /\ calls' = [calls EXCEPT ![n] = c]
          /\ calls[n].phase = "sent" /\ c.kind = calls[n].kind /\ c.phase \in {"ok", "refused"}
          /\ calls[n].kind \in {"list", "save", "delete"}
          /\ c.phase = "refused" \/ calls[n].kind = "list" => UNCHANGED <<rows, stored>>
          /\ calls[n].kind = "delete" => UNCHANGED stored
          /\ calls[n].kind = "save" =>
               /\ c.row = calls[n].row /\ c.filling = calls[n].filling
               /\ (c.phase = "ok" /\ c.row = 0) => stored' = stored \cup {calls[n].filling}
               /\ (c.phase = "ok" /\ c.row # 0) => stored' = stored
    BY <1>12, ServeEffect
  <2>2. UNCHANGED <<dialog, busy, excused>>
    BY <1>12, Zenon DEF Serve, Others
  <2>3. stored' = stored \cup (IF c.kind = "save" /\ c.row = 0 /\ c.phase = "ok" THEN {c.filling} ELSE {})
    BY <2>1
  <2>4. c.phase # "sent" /\ ~(calls[n].kind = "save" /\ calls[n].phase = "ok")
    BY <2>1
  <2> QED
    BY <2>1, <2>2, <2>3, <2>4, OnceMarked
<1>13. ASSUME NEW i, NEW versions, OtherEdits(i, versions) PROVE OnceInv'
  <2>1. UNCHANGED <<dialog, busy, calls, stored>> /\ excused'
    BY <1>13, Zenon DEF OtherEdits, Others
  <2> QED
    BY <2>1, Zenon DEF OnceInv, Twice, Has
<1> QED
  BY <1>1, <1>6, <1>7, <1>8, <1>9, <1>10, <1>11, <1>12, <1>13, NextSteps, OnceSaved, OnceSending, Zenon
     DEF PageStep, InPage

\* A dialog filled in once creates at most one row, however often Save is
\* clicked and whatever becomes of the answers, as long as no answer to a write
\* is lost: on all five pages (CreatedOnce; the save handlers disable the button
\* for as long as a save waits, and opening the dialog starts a new filling).
THEOREM OneRowForOneFilling == Spec => CreatedOnce
<1>1. Init => Shape /\ OnceInv
  BY ShapeInit, OnceInit
<1>2. Shape /\ OnceInv /\ [Next]_allVars => (Shape /\ OnceInv)'
  BY ShapeStep, OnceStep
<1> DEFINE Once ==
      \A n \in DOMAIN calls :
        (Is(n, "save") /\ calls[n].row = 0 /\ Len(rows') > Len(rows) /\ calls'[n] # calls[n])
          => calls[n].filling \notin stored \/ excused
<1>3. ASSUME Shape, OnceInv, [Next]_allVars, ~UNCHANGED vars PROVE Once
  <2> SUFFICES ASSUME NEW n \in DOMAIN calls, calls[n].kind = "save", calls[n].row = 0,
                      Len(rows') > Len(rows), calls'[n] # calls[n], ~excused
               PROVE  calls[n].filling \notin stored
    BY Zenon DEF Is
  <2>1. ~UNCHANGED rows
    <3> SUFFICES ASSUME rows' = rows PROVE FALSE
      OBVIOUS
    <3>1. Len(rows) \in Nat
      BY <1>3, ListDomain DEF Shape
    <3> QED
      BY <3>1
  <2>2. CASE \E m \in DOMAIN calls : \E ok, new : Serve(m, ok, new)
    <3>1. PICK m \in DOMAIN calls : \E ok, new : Serve(m, ok, new)
      BY <2>2
    <3>2. calls[m].phase = "sent" /\ \E c : calls' = [calls EXCEPT ![m] = c]
      BY <1>3, <3>1, ServeEffect
    <3>3. m = n
      BY <3>2
    <3> QED
      BY <1>3, <3>2, <3>3 DEF OnceInv
  <2>3. CASE \E i, versions : OtherEdits(i, versions)
    <3>1. calls' = calls
      BY <2>3, Zenon DEF OtherEdits
    <3> QED
      BY <3>1
  <2>4. CASE \E m \in DOMAIN calls :
               EndOptions(m) \/ (\E shows : EndLoad(m, shows)) \/ EndSave(m) \/ EndDelete(m)
    BY <2>1, <2>4, Zenon DEF EndOptions, EndLoad, EndSave, EndDelete
  <2>5. CASE Opens \/ Saves \/ RefuseSave \/ closeModal \/ Lose
    BY <2>1, <2>5, Zenon DEF Opens, Opened, Saves, Sends, StartSave, RefuseSave, closeModal, Lose
  <2>6. CASE Loads \/ AsksForOptions \/ (\E x : debounce(x))
             \/ (\E i : confirmAction(i)) \/ (\E yes : ConfirmAnswered(yes))
    BY <2>1, <2>6, Zenon DEF Loads, Reload, ComesUp, AsksForOptions, debounce, confirmAction, ConfirmAnswered
  <2> QED
    BY <1>3, <2>2, <2>3, <2>4, <2>5, <2>6, NextSteps, Zenon DEF PageStep, InPage
<1>4. Shape /\ OnceInv /\ [Next]_allVars => [Once]_vars
  BY <1>3, Zenon
<1> QED
  BY <1>1, <1>2, <1>4, PTL DEF Spec, CreatedOnce

-----------------------------------------------------------------------------
(* The list that is shown once nothing is under way.                       *)

\* A page is not ready at first.
LEMMA FreshInit == Init => FreshInv
BY InitFacts DEF FreshInv

\* The same filters select the same in the same database.
LEMMA SameAnswer ==
  ASSUME UNCHANGED <<rows, view>>
  PROVE  Query(view)' = Query(view) /\ Answer(Query(view))' = Answer(Query(view))
BY DEF Query, Given, Answer, Alive, Matches

\* A handler that loads asks for what the filters now say, after all others.
LEMMA FreshLoading ==
  ASSUME Shape, NEW n \in {0} \cup DOMAIN calls, StartLoad(n, view')
  PROVE  FreshInv'
<1> DEFINE c == ListCall(Query(view'))
           more == <<c>>
<1>1. CallShape(c) /\ c.kind = "list" /\ c.phase = "sent" /\ c.query = Query(view')
  BY SentShape
<1>2. Turn(n, <<c>>)
  BY Zenon DEF StartLoad
<1>3. Len(more) = 1 /\ more[1] = c
  BY ShortLists
<1> HIDE DEF c
<1>4. IsList(calls') /\ Replaced(calls, n, more, calls')
  BY <1>1, <1>2, SendShape, Zenon
<1> HIDE DEF more
<1>5. Has(more, "list") /\ \A j \in 1 .. Len(more) : more[j] = c
  BY <1>1, <1>3 DEF Has
<1>6. Has(calls', "list")
  <2>1. PICK j \in 1 .. Len(more) : more[j].kind = "list"
    BY <1>5, Zenon DEF Has
  <2>2. PICK i \in 1 .. Len(calls') : calls'[i] = more[j]
    BY <1>4, <2>1, Zenon DEF Replaced
  <2> QED
    BY <2>1, <2>2 DEF Has
<1>7. ASSUME NEW i, Latest(calls', "list", i) PROVE calls'[i] = c
  <2>1. \E j : Latest(more, "list", j) /\ calls'[i] = more[j]
    BY <1>4, <1>5, <1>7, Zenon DEF Replaced
  <2> QED
    BY <1>5, <2>1 DEF Latest
<1>8. Query(view') = Query(view)'
  BY DEF Query, Given, Restrict
<1> QED
  BY <1>1, <1>6, <1>7, <1>8 DEF FreshInv

\* Another request is handled or sent.
LEMMA FreshTurned ==
  ASSUME Shape, FreshInv, NEW n \in {0} \cup DOMAIN calls,
         n # 0 => calls[n].kind # "list" /\ ~(calls[n].kind \in {"save", "delete"} /\ calls[n].phase = "ok"),
         NEW more, \A j \in 1 .. Len(more) : more[j].kind # "list",
         IsList(calls'), Replaced(calls, n, more, calls'),
         UNCHANGED <<rows, stage, view, table, lastRows, excused>>
  PROVE  FreshInv'
<1>1. DOMAIN calls = 1 .. Len(calls) /\ DOMAIN calls' = 1 .. Len(calls')
  BY ListDomain DEF Shape
<1>2. \A j \in 1 .. Len(calls) : j # n => \E i \in 1 .. Len(calls') : calls'[i] = calls[j]
  BY Zenon DEF Replaced
<1>3. n # 0 => n \in DOMAIN calls
  OBVIOUS
<1>4. ~Reloading' => ~Reloading
  BY <1>1, <1>2, <1>3 DEF Reloading
<1>5. Has(calls, "list") => Has(calls', "list")
  <2> SUFFICES ASSUME NEW j \in 1 .. Len(calls), calls[j].kind = "list" PROVE Has(calls', "list")
    BY Zenon DEF Has
  <2>1. j # n
    BY <1>1
  <2> QED
    BY <1>2, <2>1, Zenon DEF Has
<1>6. ASSUME NEW i, Latest(calls', "list", i)
      PROVE  \E j : Latest(calls, "list", j) /\ calls'[i] = calls[j]
  <2>1. ~ \E j : Latest(more, "list", j)
    BY Zenon DEF Latest
  <2>2. PICK j \in 1 .. Len(calls) :
          calls'[i] = calls[j] /\ (Latest(calls, "list", j) \/ (n # 0 /\ calls[n].kind = "list"))
    BY <1>6, <2>1, Zenon DEF Replaced
  <2> QED
    BY <2>2
<1>7. Query(view)' = Query(view) /\ Answer(Query(view))' = Answer(Query(view))
  BY SameAnswer
<1>8. (Lists' => Lists) /\ stage' = stage /\ view' = view /\ excused' = excused /\ lastRows' = lastRows
  BY DEF Lists
<1> QED
  BY <1>4, <1>5, <1>6, <1>7, <1>8 DEF FreshInv

\* The answer to a list request is shown.
LEMMA FreshLoaded ==
  ASSUME Shape, FreshInv, NEW n \in DOMAIN calls, NEW shows, EndLoad(n, shows)
  PROVE  FreshInv'
<1>1. /\ calls[n].kind = "list" /\ UNCHANGED <<rows, stage, view>>
      /\ excused' = (excused \/ \E m \in DOMAIN calls : m < n /\ Is(m, "list"))
      /\ Turn(n, <<>>)
      /\ \/ calls[n].phase = "ok" /\ lastRows' = calls[n].found
         \/ table' = "error"
  BY DEF EndLoad, Answered, Is
<1>2. n \in {0} \cup DOMAIN calls /\ n # 0 /\ n \in Nat
  BY ListDomain DEF Shape
<1>3. IsList(calls') /\ Replaced(calls, n, <<>>, calls')
  BY <1>1, <1>2, EndShape, Zenon
<1>4. DOMAIN calls = 1 .. Len(calls) /\ DOMAIN calls' = 1 .. Len(calls')
  BY <1>3, ListDomain DEF Shape
<1>5. \A j \in 1 .. Len(calls) : j # n => \E i \in 1 .. Len(calls') : calls'[i] = calls[j]
  BY <1>3, Zenon DEF Replaced
<1>6. ~Reloading' => ~Reloading
  <2> SUFFICES ASSUME NEW j \in DOMAIN calls, calls[j].kind \in {"save", "delete"}, calls[j].phase = "ok"
               PROVE  Reloading'
    BY Zenon DEF Reloading
  <2>1. j # n
    BY <1>1
  <2>2. PICK i \in DOMAIN calls' : calls'[i] = calls[j]
    BY <1>4, <1>5, <2>1, Zenon
  <2> QED
    BY <2>2, Zenon DEF Reloading
<1>7. Query(view)' = Query(view) /\ Answer(Query(view))' = Answer(Query(view))
  BY <1>1, SameAnswer
<1>8. ASSUME ~excused' PROVE ~excused /\ \A m \in 1 .. Len(calls) : m < n => calls[m].kind # "list"
  BY <1>1, <1>4, <1>8, Zenon DEF Is
<1>9. ASSUME ~excused', NEW i, Latest(calls', "list", i)
      PROVE  \E j : Latest(calls, "list", j) /\ calls'[i] = calls[j]
  <2>1. ~ \E j : Latest(<<>>, "list", j)
    BY ShortLists DEF Latest
  <2>2. PICK j \in 1 .. Len(calls) :
          calls'[i] = calls[j] /\ calls[j].kind = "list" /\ (Latest(calls, "list", j) \/ j < n)
    <3>1. \/ \E j : Latest(<<>>, "list", j) /\ calls'[i] = <<>>[j]
          \/ \E j \in 1 .. Len(calls) :
               /\ calls'[i] = calls[j] /\ calls[j].kind = "list"
               /\ Latest(calls, "list", j) \/ (n # 0 /\ j < n /\ calls[n].kind = "list")
      BY <1>3, <1>9 DEF Replaced
    <3> QED
      BY <2>1, <3>1, Zenon
  <2> QED
    BY <1>8, <1>9, <2>2, Zenon
<1>10. ASSUME ~Has(calls', "list") PROVE Latest(calls, "list", n)
  <2>1. \A j \in 1 .. Len(calls) : j # n => calls[j].kind # "list"
    BY <1>5, <1>10, Zenon DEF Has
  <2>2. \A j \in 1 .. Len(calls) : j > n => j # n
    BY <1>2
  <2> QED
    BY <1>1, <1>4, <2>1, <2>2, Zenon DEF Latest
<1>11. ASSUME stage' = "ready", ~view'.timer, ~excused', ~Reloading'
       PROVE  \A i : Latest(calls', "list", i) =>
                /\ calls'[i].phase = "sent" => calls'[i].query = Query(view)
                /\ calls'[i].phase = "ok" => calls'[i].found = Answer(Query(view))
  BY <1>1, <1>6, <1>8, <1>9, <1>11 DEF FreshInv
<1>12. ASSUME stage' = "ready", ~view'.timer, ~excused', ~Reloading', ~Has(calls', "list"), Lists'
       PROVE  lastRows' = Answer(Query(view))
  <2>1. calls[n].phase = "ok" /\ lastRows' = calls[n].found
    BY <1>1, <1>12 DEF Lists
  <2> QED
    BY <1>1, <1>6, <1>8, <1>10, <1>12, <2>1 DEF FreshInv
<1> QED
  BY <1>7, <1>11, <1>12 DEF FreshInv

\* A request gets another phase, and the rows stay.
LEMMA FreshMarked ==
  ASSUME Shape, FreshInv, NEW n \in DOMAIN calls, NEW c, calls' = [calls EXCEPT ![n] = c],
         c.kind = calls[n].kind, c.phase # "sent",
         c.kind = "list" /\ c.phase = "ok" => calls[n].phase = "sent" /\ c.found = Answer(calls[n].query),
         calls[n].kind \in {"save", "delete"} /\ calls[n].phase = "ok" => excused',
         UNCHANGED <<rows, stage, view, table, lastRows>>, excused => excused'
  PROVE  FreshInv'
<1>1. /\ DOMAIN calls' = DOMAIN calls /\ DOMAIN calls = 1 .. Len(calls) /\ Len(calls') = Len(calls)
      /\ \A i \in DOMAIN calls : calls'[i] = IF i = n THEN c ELSE calls[i]
  BY Marked, ListDomain DEF Shape
<1>2. \A i \in 1 .. Len(calls) : calls'[i].kind = calls[i].kind
  BY <1>1
<1>3. ASSUME ~excused', ~Reloading' PROVE ~excused /\ ~Reloading
  BY <1>1, <1>3 DEF Reloading
<1>4. Has(calls, "list") => Has(calls', "list")
  BY <1>1, <1>2, Zenon DEF Has
<1>5. \A i : Latest(calls', "list", i) => Latest(calls, "list", i)
  BY <1>1, <1>2, Zenon DEF Latest
<1>6. Query(view)' = Query(view) /\ Answer(Query(view))' = Answer(Query(view)) /\ (Lists' => Lists)
  BY SameAnswer DEF Lists
<1>7. ASSUME stage' = "ready", ~view'.timer, ~excused', ~Reloading', NEW i, Latest(calls', "list", i)
      PROVE  /\ calls'[i].phase = "sent" => calls'[i].query = Query(view)
             /\ calls'[i].phase = "ok" => calls'[i].found = Answer(Query(view))
  <2>1. /\ Latest(calls, "list", i) /\ i \in DOMAIN calls
        /\ calls[i].phase = "sent" => calls[i].query = Query(view)
        /\ calls[i].phase = "ok" => calls[i].found = Answer(Query(view))
    BY <1>1, <1>3, <1>5, <1>7 DEF FreshInv, Latest
  <2>2. calls[i].kind = "list"
    BY <2>1 DEF Latest
  <2> QED
    BY <1>1, <2>1, <2>2
<1> QED
  BY <1>3, <1>4, <1>6, <1>7 DEF FreshInv

\* Every step keeps the last load the current one, or excuses it.
LEMMA FreshStep == Shape /\ FreshInv /\ [Next]_allVars => FreshInv'
<1> SUFFICES ASSUME Shape, FreshInv, [Next]_allVars PROVE FreshInv'
  OBVIOUS
<1> USE DEF list, form, ghost
<1>1. ASSUME UNCHANGED <<rows, stage, view, table, lastRows, calls, excused>> PROVE FreshInv'
  <2>1. Query(view)' = Query(view) /\ Answer(Query(view))' = Answer(Query(view))
    BY <1>1, SameAnswer
  <2> QED
    BY <1>1, <2>1, Zenon DEF FreshInv, Reloading, Lists
<1>2. 0 \in {0} \cup DOMAIN calls
  OBVIOUS
<1>3. CASE Loads
  <2>1. StartLoad(0, view')
    BY <1>3, Zenon DEF Loads, Reload, ComesUp
  <2> QED
    BY <1>2, <2>1, FreshLoading
<1>4. CASE AsksForOptions
  <2>1. stage' = "options"
    BY <1>4, Zenon DEF AsksForOptions
  <2> QED
    BY <2>1 DEF FreshInv
<1>5. ASSUME NEW n \in DOMAIN calls, calls[n].kind # "list",
             ~(calls[n].kind \in {"save", "delete"} /\ calls[n].phase = "ok"),
             Turn(n, <<>>), UNCHANGED <<rows, stage, view, table, lastRows, excused>>
      PROVE  FreshInv'
  <2>1. n \in {0} \cup DOMAIN calls
    OBVIOUS
  <2>2. IsList(calls') /\ Replaced(calls, n, <<>>, calls')
    BY <1>5, <2>1, EndShape, Zenon
  <2>3. \A j \in 1 .. Len(<<>>) : <<>>[j].kind # "list"
    BY ShortLists
  <2> QED
    BY <1>5, <2>1, <2>2, <2>3, FreshTurned
<1>6. ASSUME NEW n \in DOMAIN calls, EndOptions(n) \/ EndSave(n) \/ EndDelete(n) PROVE FreshInv'
  <2>1. CASE StartLoad(n, view) /\ UNCHANGED view
    <3>1. n \in {0} \cup DOMAIN calls /\ StartLoad(n, view')
      BY <2>1
    <3> QED
      BY <3>1, FreshLoading
  <2>2. \/ StartLoad(n, view) /\ UNCHANGED view
        \/ /\ Turn(n, <<>>) /\ UNCHANGED <<rows, stage, view, table, lastRows, excused>>
           /\ \/ calls[n].kind = "options"
              \/ calls[n].kind \in {"save", "delete"} /\ calls[n].phase # "ok"
    <3>1. CASE EndOptions(n)
      BY <3>1 DEF EndOptions, Is
    <3>2. CASE EndSave(n)
      BY <3>2 DEF EndSave, Answered, Is
    <3>3. CASE EndDelete(n)
      BY <3>3 DEF EndDelete, Answered, Is
    <3> QED
      BY <1>6, <3>1, <3>2, <3>3
  <2>3. CASE /\ Turn(n, <<>>) /\ UNCHANGED <<rows, stage, view, table, lastRows, excused>>
             /\ \/ calls[n].kind = "options"
                \/ calls[n].kind \in {"save", "delete"} /\ calls[n].phase # "ok"
    BY <1>5, <2>3
  <2> QED
    BY <2>1, <2>2, <2>3
<1>7. CASE \E x : debounce(x)
  <2>1. view'.timer
    BY <1>7 DEF debounce, Shape
  <2> QED
    BY <2>1 DEF FreshInv
<1>8. CASE Opens \/ RefuseSave \/ closeModal \/ (\E i : confirmAction(i))
  <2>1. UNCHANGED <<rows, stage, view, table, lastRows, calls, excused>>
    BY <1>8, Zenon DEF Opens, Opened, RefuseSave, closeModal, confirmAction
  <2> QED
    BY <1>1, <2>1
<1>9. ASSUME NEW more, IsList(more), \A j \in 1 .. Len(more) : CallShape(more[j]) /\ more[j].kind # "list",
             Turn(0, more), UNCHANGED <<rows, stage, view, table, lastRows, excused>>
      PROVE  FreshInv'
  <2>1. IsList(calls') /\ Replaced(calls, 0, more, calls')
    BY <1>2, <1>9, TurnShape, Zenon
  <2> QED
    BY <1>2, <1>9, <2>1, FreshTurned
<1>10. ASSUME NEW c, CallShape(c), c.kind # "list", Turn(0, <<c>>) \/ Turn(0, <<>>),
              UNCHANGED <<rows, stage, view, table, lastRows, excused>>
       PROVE  FreshInv'
  <2>1. CASE Turn(0, <<c>>)
    <3> DEFINE more == <<c>>
    <3>1. IsList(more) /\ \A j \in 1 .. Len(more) : CallShape(more[j]) /\ more[j].kind # "list"
      BY <1>10, ShortLists
    <3>2. Turn(0, more)
      BY <2>1
    <3> HIDE DEF more
    <3> QED
      BY <1>9, <1>10, <3>1, <3>2
  <2>2. CASE Turn(0, <<>>)
    <3>1. IsList(<<>>) /\ \A j \in 1 .. Len(<<>>) : CallShape(<<>>[j]) /\ <<>>[j].kind # "list"
      BY ShortLists
    <3> QED
      BY <1>9, <1>10, <2>2, <3>1
  <2> QED
    BY <1>10, <2>1, <2>2
<1>11. CASE Saves
  <2>1. PICK body, filled : StartSave(body, filled)
    BY <1>11, Zenon DEF Saves, Sends
  <2>2. Turn(0, <<SaveCall(body, filled)>>) /\ UNCHANGED <<rows, stage, view, table, lastRows, excused>>
    BY <2>1, Zenon DEF StartSave
  <2>3. CallShape(SaveCall(body, filled)) /\ SaveCall(body, filled).kind # "list"
    BY SentShape
  <2> QED
    BY <1>10, <2>2, <2>3
<1>12. ASSUME NEW yes, ConfirmAnswered(yes) PROVE FreshInv'
  <2>1. Turn(0, <<DeleteCall(asked)>>) \/ Turn(0, <<>>)
    BY <1>12, Zenon DEF ConfirmAnswered
  <2>2. UNCHANGED <<rows, stage, view, table, lastRows, excused>>
    BY <1>12, Zenon DEF ConfirmAnswered
  <2>3. CallShape(DeleteCall(asked)) /\ DeleteCall(asked).kind # "list"
    BY SentShape
  <2> QED
    BY <1>10, <2>1, <2>2, <2>3
<1>13. CASE Lose
  <2>1. PICK n \in DOMAIN calls : \E c :
          /\ calls' = [calls EXCEPT ![n] = c] /\ c.kind = calls[n].kind /\ c.phase = "lost"
          /\ excused' = (excused \/ (calls[n].phase = "ok" /\ calls[n].kind \in {"save", "delete"}))
    BY <1>13, LoseEffect, Zenon
  <2>2. UNCHANGED <<rows, stage, view, table, lastRows>>
    BY <1>13, Zenon DEF Lose, Others
  <2> QED
    BY <2>1, <2>2, FreshMarked
<1>14. ASSUME NEW n \in DOMAIN calls, NEW ok, NEW new, Serve(n, ok, new) PROVE FreshInv'
  <2>1. PICK c :
          /\ calls' = [calls EXCEPT ![n] = c]
          /\ calls[n].phase = "sent" /\ c.kind = calls[n].kind /\ c.phase \in {"ok", "refused"}
          /\ calls[n].kind = "list" => c.phase = "ok" /\ c.found = Answer(calls[n].query)
          /\ calls[n].kind \in {"list", "save", "delete"}
          /\ c.phase = "refused" \/ calls[n].kind = "list" => UNCHANGED <<rows, stored>>
    BY <1>14, ServeEffect
  <2>2. UNCHANGED <<stage, view, table, lastRows, excused>>
    BY <1>14, Zenon DEF Serve, Others
  <2>3. CASE c.phase = "refused" \/ calls[n].kind = "list"
    BY <2>1, <2>2, <2>3, FreshMarked
  <2>4. CASE calls[n].kind # "list" /\ c.phase = "ok"
    <3>1. n \in DOMAIN calls' /\ calls'[n] = c
      BY <2>1
    <3>2. Reloading'
      BY <2>1, <2>4, <3>1 DEF Reloading
    <3> QED
      BY <3>2 DEF FreshInv
  <2> QED
    BY <2>1, <2>3, <2>4
<1>15. ASSUME NEW i, NEW versions, OtherEdits(i, versions) PROVE FreshInv'
  <2>1. excused'
    BY <1>15, Zenon DEF OtherEdits
  <2> QED
    BY <2>1 DEF FreshInv
<1>16. CASE UNCHANGED vars
  BY <1>1, <1>16, Zenon DEF vars
<1> QED
  BY <1>3, <1>4, <1>6, <1>7, <1>8, <1>11, <1>12, <1>13, <1>14, <1>15, <1>16, NextSteps, FreshLoaded, Zenon
     DEF PageStep, InPage

\* Once nothing is under way, what a page shows is what its filters select in
\* the database, its own writes included, as long as answers kept their order
\* and nobody else wrote: on all five pages (QuietListIsCurrent; every handler
\* of a control and of an answered write ends in load()).
THEOREM ShownListIsCurrent == Spec => []QuietListIsCurrent
<1>1. Init => Shape /\ FreshInv
  BY ShapeInit, FreshInit
<1>2. Shape /\ FreshInv /\ [Next]_allVars => (Shape /\ FreshInv)'
  BY ShapeStep, FreshStep
<1>3. FreshInv => QuietListIsCurrent
  <2> SUFFICES ASSUME FreshInv, calls = <<>>, ~view.timer, stage = "ready", Lists, ~excused
               PROVE  lastRows = Answer(Query(view))
    BY Zenon DEF QuietListIsCurrent
  <2>1. ~Reloading /\ ~Has(calls, "list")
    BY ShortLists DEF Reloading, Has
  <2> QED
    BY <2>1 DEF FreshInv
<1> QED
  BY <1>1, <1>2, <1>3, PTL DEF Spec

-----------------------------------------------------------------------------
(* What an employee has refused.                                           *)

\* An employee who looks at the tasks.
Employee == page = "tasks" /\ me.role = "EMPLOYEE"

\* The account does not change.
LEMMA MeStep == ASSUME PageStep PROVE me' = me
<1> USE DEF list, form, ghost, Others
<1>1. CASE \E n \in DOMAIN calls : EndOptions(n) \/ (\E shows : EndLoad(n, shows)) \/ EndSave(n) \/ EndDelete(n)
  BY <1>1, Zenon DEF EndOptions, EndLoad, EndSave, EndDelete
<1>2. CASE Opens \/ Saves \/ RefuseSave \/ closeModal
  BY <1>2, Zenon DEF Opens, Opened, Saves, Sends, StartSave, RefuseSave, closeModal
<1>3. CASE Loads \/ AsksForOptions \/ (\E x : debounce(x)) \/ (\E i : confirmAction(i)) \/ (\E yes : ConfirmAnswered(yes))
  BY <1>3, Zenon DEF Loads, Reload, ComesUp, AsksForOptions, debounce, confirmAction, ConfirmAnswered
<1>4. CASE Lose \/ (\E n \in DOMAIN calls : \E ok, new : Serve(n, ok, new)) \/ (\E i, versions : OtherEdits(i, versions))
  BY <1>4, Zenon DEF Lose, Serve, OtherEdits
<1> QED
  BY <1>1, <1>2, <1>3, <1>4, Zenon DEF PageStep, InPage

\* An employee starts with nothing listed.
LEMMA EmployeeInit == Init => EmployeeInv
<1> SUFFICES ASSUME Init, page = "tasks" PROVE EmployeeInv
  BY Zenon DEF EmployeeInv
<1>1. /\ lastRows = <<>> /\ DOMAIN lastRows = {} /\ ~dialog.open /\ DOMAIN calls = {}
      /\ \A i \in DOMAIN rows : TaskRow(rows[i])
  BY InitFacts, ShortLists DEF Closed
<1> QED
  BY <1>1 DEF EmployeeInv, Known

\* The page's own steps leave the table alone.
LEMMA OwnRows == ASSUME InPage PROVE rows' = rows
<1>1. CASE \E n \in DOMAIN calls : EndOptions(n) \/ (\E shows : EndLoad(n, shows)) \/ EndSave(n) \/ EndDelete(n)
  BY <1>1, Zenon DEF EndOptions, EndLoad, EndSave, EndDelete
<1>2. CASE Opens \/ Saves \/ RefuseSave \/ closeModal
  BY <1>2, Zenon DEF Opens, Opened, Saves, Sends, StartSave, RefuseSave, closeModal
<1>3. CASE Loads \/ AsksForOptions \/ (\E x : debounce(x)) \/ (\E i : confirmAction(i)) \/ (\E yes : ConfirmAnswered(yes))
  BY <1>3, Zenon DEF Loads, Reload, ComesUp, AsksForOptions, debounce, confirmAction, ConfirmAnswered
<1> QED
  BY <1>1, <1>2, <1>3, Zenon DEF InPage

\* A task stays a task whoever writes.
LEMMA TasksStay ==
  ASSUME Shape, EmployeeInv, Employee, Tasks!Next
  PROVE  \A i \in DOMAIN rows' : rows'[i] # Gone => TaskRow(rows'[i])
<1>0. /\ page = "tasks" /\ \A i \in DOMAIN rows : rows[i] # Gone => TaskRow(rows[i])
      /\ \A n \in DOMAIN calls :
           calls[n].kind = "save" => /\ calls[n].row \in DOMAIN rows
                                     /\ DOMAIN calls[n].body = {"status"}
                                     /\ calls[n].body.status \in Tasks!Status
  BY Zenon DEF EmployeeInv, Employee
<1>1. ASSUME UNCHANGED rows PROVE \A i \in DOMAIN rows' : rows'[i] # Gone => TaskRow(rows'[i])
  BY <1>0, <1>1
<1>2. ASSUME NEW k, NEW r, rows' = [rows EXCEPT ![k] = r],
             k \in DOMAIN rows => r = Gone \/ TaskRow(r)
      PROVE  \A i \in DOMAIN rows' : rows'[i] # Gone => TaskRow(rows'[i])
  <2>1. DOMAIN rows' = DOMAIN rows /\ \A i \in DOMAIN rows : rows'[i] = IF i = k THEN r ELSE rows[i]
    BY <1>2
  <2> QED
    BY <1>0, <1>2, <2>1
<1>3. ASSUME NEW n \in DOMAIN calls, NEW new, new = Tasks!Created(calls[n].body),
             Serve(n, Tasks!accepts(calls[n]), new)
      PROVE  \A i \in DOMAIN rows' : rows'[i] # Gone => TaskRow(rows'[i])
  <2>1. PICK c :
          /\ c.kind = calls[n].kind /\ c.phase \in {"ok", "refused"}
          /\ calls[n].kind \in {"list", "save", "delete"}
          /\ c.phase = "refused" \/ calls[n].kind = "list" => UNCHANGED <<rows, stored>>
          /\ calls[n].kind = "save" =>
               /\ c.phase = "ok" <=> Tasks!accepts(calls[n])
               /\ c.row = calls[n].row /\ c.body = calls[n].body
               /\ (c.phase = "ok" /\ c.row # 0) =>
                    rows' = [rows EXCEPT ![c.row] = Merged(Restrict(new, DOMAIN c.body), @)]
          /\ (calls[n].kind = "delete" /\ c.phase = "ok") => rows' = [rows EXCEPT ![calls[n].row] = Gone]
    BY <1>3, ServeEffect
  <2>2. CASE calls[n].kind = "save" /\ c.phase = "ok"
    <3>1. calls[n].row \in DOMAIN rows /\ calls[n].row # 0
      BY <1>0, <2>2, ListDomain DEF Shape
    <3>2. calls[n].row \in Tasks!Alive
      BY <2>1, <2>2, <3>1 DEF Tasks!accepts, Employee
    <3>3. rows[calls[n].row] # Gone
      BY <3>2 DEF Tasks!Alive
    <3> DEFINE new_row == Merged(Restrict(new, DOMAIN calls[n].body), rows[calls[n].row])
    <3>4. TaskRow(new_row)
      <4>1. new = calls[n].body
        BY <1>0, <1>3, <2>2 DEF Tasks!Created
      <4> QED
        BY <1>0, <2>2, <3>1, <3>3, <4>1 DEF TaskRow, Merged, Restrict
    <3>5. rows' = [rows EXCEPT ![calls[n].row] = new_row]
      BY <2>1, <2>2, <3>1
    <3> HIDE DEF new_row
    <3> QED
      BY <1>2, <3>4, <3>5
  <2>3. CASE calls[n].kind = "delete" /\ c.phase = "ok"
    BY <1>2, <2>1, <2>3
  <2>4. CASE c.phase = "refused" \/ calls[n].kind = "list"
    BY <1>1, <2>1, <2>4
  <2> QED
    BY <2>1, <2>2, <2>3, <2>4
<1>4. ASSUME NEW k \in Alive, OtherEdits(k, Tasks!Versions(rows[k]))
      PROVE  \A i \in DOMAIN rows' : rows'[i] # Gone => TaskRow(rows'[i])
  <2>1. PICK r \in Tasks!Versions(rows[k]) : rows' = [rows EXCEPT ![k] = r]
    BY <1>4, Zenon DEF OtherEdits
  <2>2. TaskRow(rows[k])
    BY <1>0 DEF Alive
  <2>3. r = Gone \/ TaskRow(r)
    BY <2>1, <2>2 DEF Tasks!Versions, TaskRow, Tasks!Status
  <2> QED
    BY <1>2, <2>1, <2>3
<1>5. CASE Lose
  BY <1>1, <1>5, Zenon DEF Lose
<1> QED
  BY <1>0, <1>1, <1>3, <1>4, <1>5, OwnRows, TasksNext, Zenon

\* What the dialog of an employee can save after a step.
LEMMA DialogOfOwn ==
  ASSUME Shape, EmployeeInv, Employee, PageStep, dialog'.open, dialog'.canSave
  PROVE  /\ dialog'.row \in DOMAIN rows' /\ Mine(dialog'.copy)
         /\ dialog'.editable = {"status"}
         /\ dialog'.values.status = dialog'.copy.status
<1>1. DOMAIN rows \subseteq DOMAIN rows'
  BY RowsStep
<1>2. (dialog.open /\ dialog.canSave) =>
         /\ dialog.row \in DOMAIN rows /\ Mine(dialog.copy)
         /\ dialog.editable = {"status"}
         /\ dialog.values.status = dialog.copy.status
  BY Zenon DEF EmployeeInv, Employee
<1>3. CASE UNCHANGED dialog
  BY <1>1, <1>2, <1>3
<1>4. CASE \E b : dialog' = [dialog EXCEPT !.error = b]
  <2>1. /\ dialog'.open = dialog.open /\ dialog'.row = dialog.row /\ dialog'.copy = dialog.copy
        /\ dialog'.values = dialog.values /\ dialog'.editable = dialog.editable
        /\ dialog'.canSave = dialog.canSave
    BY <1>4, DialogAfter DEF Shape
  <2> QED
    BY <1>1, <1>2, <2>1
<1>5. CASE dialog' = AfterClose
  BY <1>5, DialogAfter DEF Shape
<1>6. CASE Opens
  <2>1. PICK i, copy, values, editable, canSave :
          /\ Opened(i, copy, values, editable, canSave)
          /\ page = "tasks" => (me.role = "EMPLOYEE" /\ canSave => OwnStatus(i, copy, values, editable))
    BY <1>6 DEF Opens
  <2>2. /\ dialog'.row = i /\ dialog'.copy = copy /\ dialog'.values = values
        /\ dialog'.editable = editable /\ dialog'.canSave = canSave
    BY <2>1, OpenedDialog, Zenon
  <2>3. Known(lastRows)
    BY Zenon DEF EmployeeInv, Employee
  <2>4. /\ i \in DOMAIN lastRows /\ copy = lastRows[i]
        /\ copy.assignee = me.who /\ ~Tasks!Locked(copy)
        /\ editable = {"status"} /\ values.status = copy.status
    BY <2>1, <2>2 DEF OwnStatus, Employee
  <2> QED
    BY <1>1, <2>2, <2>3, <2>4 DEF Known, Mine
<1> QED
  BY <1>3, <1>4, <1>5, <1>6, DialogStep, Zenon

\* What was listed last is the answer to some list request.
LEMMA LastRowsStep ==
  ASSUME PageStep
  PROVE  \/ lastRows' = lastRows
         \/ \E n \in DOMAIN calls :
              calls[n].kind = "list" /\ calls[n].phase = "ok" /\ lastRows' = calls[n].found
<1> USE DEF list, form, ghost, Others
<1>1. ASSUME NEW n \in DOMAIN calls, NEW shows, EndLoad(n, shows)
      PROVE  lastRows' = lastRows \/ (calls[n].kind = "list" /\ calls[n].phase = "ok" /\ lastRows' = calls[n].found)
  BY <1>1 DEF EndLoad, Answered, Is
<1>2. ASSUME NEW n \in DOMAIN calls, EndOptions(n) \/ EndSave(n) \/ EndDelete(n) PROVE lastRows' = lastRows
  BY <1>2, Zenon DEF EndOptions, EndSave, EndDelete
<1>3. CASE Opens \/ Saves \/ RefuseSave \/ closeModal
  BY <1>3, Zenon DEF Opens, Opened, Saves, Sends, StartSave, RefuseSave, closeModal
<1>4. CASE Loads \/ AsksForOptions \/ (\E x : debounce(x)) \/ (\E i : confirmAction(i)) \/ (\E yes : ConfirmAnswered(yes))
  BY <1>4, Zenon DEF Loads, Reload, ComesUp, AsksForOptions, debounce, confirmAction, ConfirmAnswered
<1>5. CASE Lose \/ (\E n \in DOMAIN calls : \E ok, new : Serve(n, ok, new)) \/ (\E i, versions : OtherEdits(i, versions))
  BY <1>5, Zenon DEF Lose, Serve, OtherEdits
<1> QED
  BY <1>1, <1>2, <1>3, <1>4, <1>5, Zenon DEF PageStep, InPage

\* What an employee lists, opens and sends stays a change of status they may make.
LEMMA EmployeeStep == Shape /\ EmployeeInv /\ [Next]_allVars => EmployeeInv'
<1> SUFFICES ASSUME Shape, EmployeeInv, [Next]_allVars PROVE EmployeeInv'
  OBVIOUS
<1>0. page' = page
  BY PageFixed
<1>1. CASE UNCHANGED vars
  BY <1>0, <1>1 DEF EmployeeInv, Known, Mine, vars, list, form
<1>2. CASE PageStep /\ ~UNCHANGED vars
  <2>0. me' = me /\ DOMAIN rows \subseteq DOMAIN rows'
    BY <1>2, MeStep, RowsStep, Zenon
  <2> SUFFICES ASSUME Employee PROVE EmployeeInv'
    BY <1>0, <2>0, Zenon DEF EmployeeInv, Employee
  <2>1. Tasks!Next
    BY <1>2 DEF Next, Employee, allVars
  <2>2. \A i \in DOMAIN rows' : rows'[i] # Gone => TaskRow(rows'[i])
    BY <2>1, TasksStay
  <2>3. ASSUME NEW found, Known(found) PROVE Known(found)'
    BY <2>0, <2>3 DEF Known
  <2>4. /\ Known(lastRows) /\ \A i \in DOMAIN rows : rows[i] # Gone => TaskRow(rows[i])
        /\ \A n \in DOMAIN calls : calls[n].kind = "list" /\ calls[n].phase = "ok" => Known(calls[n].found)
    BY Zenon DEF EmployeeInv, Employee
  <2>5. Known(lastRows)'
    <3>1. lastRows' = lastRows \/ \E n \in DOMAIN calls :
            calls[n].kind = "list" /\ calls[n].phase = "ok" /\ lastRows' = calls[n].found
      BY <1>2, LastRowsStep
    <3>2. Known(lastRows')
      BY <2>4, <3>1, Zenon
    <3> QED
      BY <2>0, <3>2 DEF Known
  <2>6. ASSUME NEW n \in DOMAIN calls', calls'[n].kind = "list", calls'[n].phase = "ok"
        PROVE  Known(calls[n].found)'
    <3>1. \/ \E j \in DOMAIN calls : calls'[n] = calls[j]
          \/ \E q : calls'[n].found = Answer(q)
      BY <1>2, <2>6, Origin
    <3>2. CASE \E j \in DOMAIN calls : calls'[n] = calls[j]
      <4>1. Known(calls'[n].found)
        BY <2>4, <2>6, <3>2, Zenon
      <4> QED
        BY <2>0, <4>1 DEF Known
    <3>3. CASE \E q : calls'[n].found = Answer(q)
      <4>1. PICK q : calls'[n].found = Answer(q)
        BY <3>3
      <4>2. Known(Answer(q))
        BY <2>4 DEF Known, Answer, Alive, Restrict
      <4> QED
        BY <2>0, <4>1, <4>2 DEF Known
    <3> QED
      BY <3>1, <3>2, <3>3
  <2>7. (dialog'.open /\ dialog'.canSave) =>
          /\ dialog'.row \in DOMAIN rows' /\ Mine(dialog'.copy)
          /\ dialog'.editable = {"status"}
          /\ dialog'.values.status = dialog'.copy.status
    BY <1>2, DialogOfOwn
  <2>8. \A t : Mine(t) => (t # Gone /\ TaskRow(t) /\ t.assignee = me'.who /\ ~Tasks!Locked(t))
    BY <2>0 DEF Mine
  <2>9. ASSUME NEW n \in DOMAIN calls', calls'[n].kind = "save"
        PROVE  /\ calls'[n].row \in DOMAIN rows' /\ Mine(calls'[n].copy)
               /\ DOMAIN calls'[n].body = {"status"}
               /\ calls'[n].body.status \in Tasks!Status
               /\ Tasks!Movable(calls'[n].copy.status, calls'[n].body.status)
    <3>1. \A j \in DOMAIN calls :
            calls[j].kind = "save" =>
              /\ calls[j].row \in DOMAIN rows /\ Mine(calls[j].copy)
              /\ DOMAIN calls[j].body = {"status"}
              /\ calls[j].body.status \in Tasks!Status
              /\ Tasks!Movable(calls[j].copy.status, calls[j].body.status)
      BY Zenon DEF EmployeeInv, Employee
    <3>2. CASE \E j \in DOMAIN calls : calls'[n] = calls[j]
      <4>1. PICK j \in DOMAIN calls : calls'[n] = calls[j]
        BY <3>2
      <4> QED
        BY <2>0, <2>9, <3>1, <4>1
    <3>3. CASE n \in DOMAIN calls /\ SameSave(calls[n], calls'[n])
      BY <2>0, <3>1, <3>3 DEF SameSave
    <3>4. CASE SaveSent(calls'[n])
      <4>1. PICK body, filled : Sends(body, filled) /\ calls'[n] = SaveCall(body, filled)
        BY <3>4, Zenon DEF SaveSent
      <4>2. calls'[n].row = dialog.row /\ calls'[n].copy = dialog.copy /\ calls'[n].body = body
        BY <4>1, SentShape
      <4>3. /\ dialog.row \in DOMAIN rows /\ Mine(dialog.copy)
            /\ dialog.editable = {"status"}
            /\ dialog.values.status = dialog.copy.status
        BY <4>1, Zenon DEF Sends, EmployeeInv, Employee
      <4>4. DOMAIN body = {"status"} /\ body.status \in {dialog.values.status} \cup Tasks!restrictStatusOptions
        BY <4>1, <4>3, Zenon DEF Sends, Employee
      <4>5. body.status \in {dialog.copy.status} \cup Tasks!ALLOWED_TRANSITIONS[dialog.copy.status]
        BY <4>3, <4>4 DEF Tasks!restrictStatusOptions
      <4>6. dialog.copy.status \in Tasks!Status
        BY <4>3 DEF Mine, TaskRow
      <4>7. body.status \in Tasks!Status /\ Tasks!Movable(dialog.copy.status, body.status)
        BY <4>5, <4>6 DEF Tasks!ALLOWED_TRANSITIONS, Tasks!Movable, Tasks!Status
      <4> QED
        BY <2>0, <4>2, <4>3, <4>4, <4>7
    <3> QED
      BY <1>2, <2>9, <3>2, <3>3, <3>4, Origin, Zenon
  <2>10. me'.role = "EMPLOYEE" /\ page' = "tasks"
    BY <1>0, <2>0 DEF Employee
  <2>11. \A t : Mine(t) => (Mine(t))'
    BY <2>0 DEF Mine
  <2> QED
    BY <2>2, <2>5, <2>6, <2>7, <2>9, <2>11 DEF EmployeeInv
<1> QED
  BY <1>1, <1>2, NextSteps

\* A request of an employee that is refused, is refused by the server at this
\* step: then the task is another than the one that was listed.
LEMMA RefusedByServer ==
  ASSUME Shape, OnceInv, EmployeeInv, Employee, Tasks!Next,
         NEW n \in DOMAIN calls, calls[n].kind = "save", calls[n].phase = "sent",
         n \in DOMAIN calls', calls'[n] = [calls[n] EXCEPT !.phase = "refused"]
  PROVE  rows[calls[n].row] # calls[n].copy
<1>1. /\ page = "tasks" /\ calls[n].row \in DOMAIN rows /\ Mine(calls[n].copy)
      /\ Tasks!Movable(calls[n].copy.status, calls[n].body.status)
  BY Zenon DEF EmployeeInv, Employee
<1>2. calls'[n].phase = "refused" /\ calls'[n].kind = "save"
  <2>1. CallShape(calls[n])
    BY DEF Shape
  <2> QED
    BY <2>1, Rephased
<1>3. CASE InPage
  <2>1. \A j \in DOMAIN calls : calls[j].kind = "save" => j = n
    <3>1. DOMAIN calls = 1 .. Len(calls)
      BY ListDomain, Zenon DEF Shape
    <3>2. ~Twice(calls, "save")
      BY Zenon DEF OnceInv
    <3> QED
      BY <3>1, <3>2, Zenon DEF Twice
  <2>2. (\E j \in DOMAIN calls : calls'[n] = calls[j]) \/ calls'[n].phase = "sent"
    BY <1>3, OwnOrigin, Zenon
  <2>3. ASSUME NEW j \in DOMAIN calls, calls'[n] = calls[j] PROVE FALSE
    BY <1>2, <2>1, <2>3
  <2> QED
    BY <1>2, <2>2, <2>3
<1>4. CASE Lose
  <2>1. PICK m \in DOMAIN calls : \E c : calls' = [calls EXCEPT ![m] = c] /\ c.phase = "lost"
    BY <1>4, LoseEffect, Zenon
  <2> QED
    BY <1>2, <2>1
<1>5. CASE \E k, versions : OtherEdits(k, versions)
  <2>1. calls' = calls
    BY <1>5, Zenon DEF OtherEdits
  <2> QED
    BY <1>2, <2>1
<1>6. ASSUME NEW m \in DOMAIN calls, Serve(m, Tasks!accepts(calls[m]), Tasks!Created(calls[m].body))
      PROVE  rows[calls[n].row] # calls[n].copy
  <2>1. PICK c :
          /\ calls' = [calls EXCEPT ![m] = c] /\ c.kind = calls[m].kind
          /\ calls[m].kind = "save" => (c.phase = "ok" <=> Tasks!accepts(calls[m]))
    BY <1>6, ServeEffect
  <2>2. m = n /\ c.phase = "refused"
    BY <1>2, <2>1
  <2>3. ~Tasks!accepts(calls[n])
    BY <2>1, <2>2
  <2>4. calls[n].row # 0
    BY <1>1, ListDomain DEF Shape
  <2> SUFFICES ASSUME rows[calls[n].row] = calls[n].copy PROVE Tasks!accepts(calls[n])
    BY <2>3
  <2>5. calls[n].row \in Tasks!Alive /\ rows[calls[n].row].assignee = me.who /\ ~Tasks!Locked(rows[calls[n].row])
    BY <1>1 DEF Mine, Tasks!Alive
  <2> QED
    BY <1>1, <2>4, <2>5, Zenon DEF Tasks!accepts
<1> QED
  BY <1>1, <1>3, <1>4, <1>5, <1>6, TasksNext, Zenon

\* What the page offers an employee is refused only when, at that moment, the
\* task is another than the one listed: the page's own table of transitions and
\* its rules of who may edit what never let through what the server refuses
\* (RefusedOnlyWhenStale; restrictStatusOptions and openModal of tasks.js against
\* TaskPermission and TaskSerializer).
THEOREM RefusalsAreOfStaleTasks == Spec => RefusedOnlyWhenStale
<1>1. Init => Shape /\ OnceInv /\ EmployeeInv
  BY ShapeInit, OnceInit, EmployeeInit
<1>2. Shape /\ OnceInv /\ EmployeeInv /\ [Next]_allVars => (Shape /\ OnceInv /\ EmployeeInv)'
  BY ShapeStep, OnceStep, EmployeeStep
<1>3. ASSUME Shape, OnceInv, EmployeeInv, Next
      PROVE  page = "tasks" => Tasks!RefusedForAChange
  <2> SUFFICES ASSUME page = "tasks", me.role = "EMPLOYEE",
                      NEW n \in DOMAIN calls, calls[n].kind = "save", calls[n].phase = "sent",
                      n \in DOMAIN calls', calls'[n] = [calls[n] EXCEPT !.phase = "refused"]
               PROVE  rows[calls[n].row] # calls[n].copy
    BY Zenon DEF Tasks!RefusedForAChange, Tasks!Is
  <2>1. Employee /\ Tasks!Next
    BY <1>3 DEF Employee, Next
  <2> QED
    BY <1>3, <2>1, RefusedByServer
<1>4. Shape /\ OnceInv /\ EmployeeInv /\ [Next]_allVars => [page = "tasks" => Tasks!RefusedForAChange]_allVars
  BY <1>3, Zenon
<1> QED
  BY <1>1, <1>2, <1>4, PTL DEF Spec, RefusedOnlyWhenStale
=============================================================================

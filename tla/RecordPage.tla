----------------------------- MODULE RecordPage -----------------------------
(***************************************************************************)
(* What the five record pages of the front end share: tasks, projects,     *)
(* clients, organizations and user management.  Each is one script with a  *)
(* filtered list, one dialog for creating and editing, a confirmed delete, *)
(* and requests whose answers come back when they come.  This module holds *)
(* their state, the requests and the database as those requests see it;    *)
(* the handlers are in the module of each page.                            *)
(*                                                                         *)
(* A handler runs to its next await without interruption, so an action is  *)
(* one such stretch.  A row's first field is the text the search looks at. *)
(***************************************************************************)
EXTENDS Naturals, Sequences, FiniteSets, Functions

CONSTANTS
  Text,      \* what people type into a search box or a name field
  Day,       \* what a date input may hold
  Choice,    \* Choice[f]: what the field f of a row may point to
  Listed,    \* Listed[f]: those the API returns for the options of f's select
  None,      \* a select left on its first option, a null foreign key
  Gone,      \* a row that has been deleted
  PageSize,  \* REST_FRAMEWORK.PAGE_SIZE
  MaxEvents  \* how often, together, the user acts, another person edits a
             \* row, and a request or its answer is lost

ASSUME RecordPageAssumption ==
  /\ "" \notin Text
  /\ \A f \in DOMAIN Listed : Listed[f] \subseteq Choice[f] \ {None}
  /\ {PageSize, MaxEvents} \subseteq Nat

VARIABLES
  me,        \* who is logged in: a role, and the choice that stands for them
  rows,      \* the table, from primary keys in order of creation to rows
  stage,     \* how far Layout.init and the callback behind it have come
  view,      \* the filter controls, currentOrdering and the debounce timer
  table,     \* what the tbody shows: rows with or without a Delete button
  lastRows,
  options,   \* what the selects filled from the API offer
  dialog,    \* the modal with its form
  busy,      \* whether saveBtn is disabled
  asked,     \* the row the confirm dialog is about, 0 for none
  calls,     \* the requests under way, in the order in which they were sent
  events,    \* how many of MaxEvents have happened
  stored,    \* ghost: the fillings of the dialog that have created a row
  excused    \* ghost: another person has edited a row, an answer has overtaken
             \* an older one, or the answer to a write has been lost

list  == <<view, table, lastRows>>
form  == <<dialog, busy>>
ghost == <<stored, excused>>
vars  == <<me, rows, stage, list, options, form, asked, calls, events, ghost>>

-----------------------------------------------------------------------------
(* The database, as the list and detail endpoints show it.                 *)

Alive == {i \in DOMAIN rows : rows[i] # Gone}

\* What is in new, and of old the rest.
Merged(new, old) ==
  [f \in DOMAIN new \cup DOMAIN old |-> IF f \in DOMAIN new THEN new[f] ELSE old[f]]

\* Filters left on "All" are undefined, and undefined parameters are not sent.
Given(pick) == Restrict(pick, {f \in DOMAIN pick : pick[f] # ""})

Matches(q, r) ==
  /\ q.search \in {"", r.name}
  /\ \A f \in DOMAIN q.where : r[f] = q.where[f]

\* The API knows no page_size parameter: PAGE_SIZE rows are all there is.
Answer(q) ==
  LET hits      == {i \in Alive : Matches(q, rows[i])}
      before(i) == {j \in hits : IF q.up THEN j < i ELSE j > i}
  IN  Restrict(rows, {i \in hits : Cardinality(before(i)) < PageSize})

\* The parameters of the list request.
Query(v) == [search |-> v.search, where |-> Given(v.pick), up |-> v.up]

-----------------------------------------------------------------------------
(* Requests.  A call is "sent", then "ok", "refused" or "lost".  A list of   *)
(* options never changes while the page is up: its answer may come at once. *)

\* Call n, if any, has been answered for good, and those in more are sent.
Turn(n, more) ==
  calls' = SubSeq(calls, 1, n - 1) \o SubSeq(calls, n + 1, Len(calls)) \o more

ListCall(q) == [kind |-> "list", query |-> q, phase |-> "sent"]
OptionCall(s) == [kind |-> "options", select |-> s, phase |-> "sent"]
DeleteCall(i) == [kind |-> "delete", row |-> i, phase |-> "sent"]

\* What the dialog sends.  filled says which fields the user chose there, and
\* copy is the row as it was listed when the dialog opened.
SaveCall(body, filled) ==
  [kind |-> "save", row |-> dialog.row, body |-> body, filled |-> filled,
   copy |-> dialog.copy, filling |-> dialog.filling, phase |-> "sent"]

Is(n, kind) == n \in DOMAIN calls /\ calls[n].kind = kind
Answered(n, kind) == Is(n, kind) /\ calls[n].phase # "sent"

ServeList(n) ==
  /\ Is(n, "list") /\ calls[n].phase = "sent"
  /\ calls' = [calls EXCEPT ![n] = [kind |-> "list", phase |-> "ok", found |-> Answer(calls[n].query)]]
  /\ UNCHANGED <<rows, stored>>

\* POST and PATCH: ok says whether the serializer and the view let it through,
\* and new is the row a POST then creates; a PATCH takes over from it what the
\* body names.
ServeSave(n, ok, new) ==
  /\ Is(n, "save") /\ calls[n].phase = "sent"
  /\ LET c == calls[n] IN
     IF ~ok
     THEN calls' = [calls EXCEPT ![n].phase = "refused"] /\ UNCHANGED <<rows, stored>>
     ELSE /\ calls' = [calls EXCEPT ![n].phase = "ok"]
          /\ IF c.row = 0
             THEN /\ rows' = Append(rows, new)
                  /\ stored' = stored \cup {c.filling}
             ELSE /\ rows' = [rows EXCEPT ![c.row] = Merged(Restrict(new, DOMAIN c.body), @)]
                  /\ UNCHANGED stored

ServeDelete(n, ok) ==
  /\ Is(n, "delete") /\ calls[n].phase = "sent"
  /\ IF calls[n].row \in Alive /\ ok
     THEN /\ calls' = [calls EXCEPT ![n].phase = "ok"]
          /\ rows' = [rows EXCEPT ![calls[n].row] = Gone]
     ELSE calls' = [calls EXCEPT ![n].phase = "refused"] /\ UNCHANGED rows
  /\ UNCHANGED stored

\* Something nobody in the page decides.
Event == events < MaxEvents /\ events' = events + 1

Others == <<me, stage, list, options, form, asked>>

Serve(n, ok, new) ==
  /\ ServeList(n) \/ ServeSave(n, ok, new) \/ ServeDelete(n, ok)
  /\ UNCHANGED <<Others, events, excused>>

\* The request never arrives, or its answer never comes back.
Lose ==
  /\ Event
  /\ \E n \in DOMAIN calls :
       /\ calls[n].phase # "lost"
       /\ calls' = [calls EXCEPT ![n].phase = "lost"]
       /\ excused' = (excused \/ (calls[n].phase = "ok" /\ calls[n].kind \in {"save", "delete"}))
  /\ UNCHANGED <<Others, rows, stored>>

\* Another person turns row i into one of these versions, or deletes it.
OtherEdits(i, versions) ==
  /\ Event
  /\ \E r \in versions : rows' = [rows EXCEPT ![i] = r]
  /\ excused' = TRUE
  /\ UNCHANGED <<Others, calls, stored>>

-----------------------------------------------------------------------------
(* The pieces every handler is made of.                                    *)

\* tbody.innerHTML = loadingRow(); Api.get(...)
StartLoad(n, v) == table' = "loading" /\ Turn(n, <<ListCall(Query(v))>>)

\* A handler that sets the controls to v and loads.
Reload(v) ==
  /\ view' = v
  /\ StartLoad(0, v)
  /\ UNCHANGED <<me, rows, stage, lastRows, options, form, asked, ghost>>

\* Faulty variant: the request has no catch.
EndLoadUncaught(n, shows) ==
  /\ Answered(n, "list")
  /\ IF calls[n].phase = "ok"
     THEN lastRows' = calls[n].found /\ table' = shows
     ELSE UNCHANGED <<lastRows, table>>
  /\ UNCHANGED excused
  /\ Turn(n, <<>>)
  /\ UNCHANGED <<me, rows, stage, view, options, form, asked, events, stored>>

\* The rest of load(): what renderRows shows, or the error row.  lastRows
\* outlives an error.
EndLoad(n, shows) ==
  /\ Answered(n, "list")
  /\ IF calls[n].phase = "ok"
     THEN lastRows' = calls[n].found /\ table' = shows
     ELSE table' = "error" /\ UNCHANGED lastRows
  /\ excused' = (excused \/ \E m \in DOMAIN calls : m < n /\ Is(m, "list"))
  /\ Turn(n, <<>>)
  /\ UNCHANGED <<me, rows, stage, view, options, form, asked, events, stored>>

\* currentOrdering === field ? "-" + field : field
Sorted(v) == [v EXCEPT !.up = (v.sort # "up"), !.sort = IF @ = "up" THEN "down" ELSE "up"]

\* debounce(load, 350): the timer of the last keystroke is the one that counts.
debounce(x) ==
  /\ Event
  /\ view.search # x
  /\ view' = [view EXCEPT !.search = x, !.timer = TRUE]
  /\ UNCHANGED <<me, rows, stage, table, lastRows, options, form, asked, calls, ghost>>

\* Faulty variant: the button can be clicked again.
StartSaveAgain(body, filled) ==
  /\ Event
  /\ dialog' = [dialog EXCEPT !.error = FALSE]
  /\ Turn(0, <<SaveCall(body, filled)>>)
  /\ UNCHANGED <<me, rows, stage, list, options, busy, asked, ghost>>

\* setButtonLoading(saveBtn, true), and the request behind it.
StartSave(body, filled) ==
  /\ Event
  /\ busy' = TRUE
  /\ dialog' = [dialog EXCEPT !.error = FALSE]
  /\ Turn(0, <<SaveCall(body, filled)>>)
  /\ UNCHANGED <<me, rows, stage, list, options, asked, ghost>>

\* Validation in the browser: the message, and nothing is sent.
RefuseSave ==
  /\ Event
  /\ dialog' = [dialog EXCEPT !.error = TRUE]
  /\ UNCHANGED <<me, rows, stage, list, options, busy, asked, calls, ghost>>

Closed == [open |-> FALSE, row |-> 0, copy |-> None, values |-> <<>>, editable |-> {},
           canSave |-> TRUE, error |-> FALSE, filling |-> 0]

\* modal.classList.remove("open"): the next opening resets the form, not what
\* an earlier one left of the button.
AfterClose == [Closed EXCEPT !.canSave = dialog.canSave, !.filling = dialog.filling]

\* Faulty variant: setButtonLoading(saveBtn, false) is not in the finally.
EndSaveBusy(n) ==
  /\ Answered(n, "save")
  /\ busy' = (calls[n].phase # "ok")
  /\ IF calls[n].phase = "ok"
     THEN dialog' = AfterClose /\ StartLoad(n, view)
     ELSE dialog' = [dialog EXCEPT !.error = TRUE] /\ Turn(n, <<>>) /\ UNCHANGED table
  /\ UNCHANGED <<me, rows, stage, view, lastRows, options, asked, events, ghost>>

\* What comes after the await of a save: closeModal() and load(), or the error
\* box; whatever dialog is open by then.  The button comes back either way.
EndSave(n) ==
  /\ Answered(n, "save")
  /\ busy' = FALSE
  /\ IF calls[n].phase = "ok"
     THEN dialog' = AfterClose /\ StartLoad(n, view)
     ELSE dialog' = [dialog EXCEPT !.error = TRUE] /\ Turn(n, <<>>) /\ UNCHANGED table
  /\ UNCHANGED <<me, rows, stage, view, lastRows, options, asked, events, ghost>>

\* confirmAction: an overlay of its own, which covers the page until answered.
confirmAction(i) ==
  /\ Event
  /\ asked' = i
  /\ UNCHANGED <<me, rows, stage, list, options, form, calls, ghost>>

ConfirmAnswered(yes) ==
  /\ asked # 0
  /\ asked' = 0
  /\ Turn(0, IF yes THEN <<DeleteCall(asked)>> ELSE <<>>)
  /\ UNCHANGED <<me, rows, stage, list, options, form, events, ghost>>

EndDelete(n) ==
  /\ Answered(n, "delete")
  /\ IF calls[n].phase = "ok" THEN StartLoad(n, view) ELSE Turn(n, <<>>) /\ UNCHANGED table
  /\ UNCHANGED <<me, rows, stage, view, lastRows, options, form, asked, events, ghost>>

Lists == table \in {"rows", "plain"}

\* The page can be clicked unless an overlay covers it.
Uncovered == asked = 0 /\ ~dialog.open

closeModal ==
  /\ dialog.open
  /\ dialog' = AfterClose
  /\ UNCHANGED <<me, rows, stage, list, options, busy, asked, calls, events, ghost>>

\* The form after reset() and the assignments of openModal.
Opened(i, copy, values, editable, canSave) ==
  /\ Event
  /\ dialog' = [open |-> TRUE, row |-> i, copy |-> copy, values |-> values,
                editable |-> editable, canSave |-> canSave, error |-> FALSE,
                filling |-> dialog.filling + 1]
  /\ UNCHANGED <<me, rows, stage, list, options, busy, asked, calls, ghost>>

\* A select shows the option whose value is assigned to it, or no option.
Shown(x, offered) == IF x \in offered THEN x ELSE None

PageInit(firstView) ==
  /\ stage = "guard" /\ view = firstView /\ table = "none" /\ lastRows = <<>>
  /\ dialog = Closed /\ busy = FALSE /\ asked = 0
  /\ calls = <<>> /\ events = 0
  /\ stored = {} /\ excused = FALSE

-----------------------------------------------------------------------------
(* What every page promises.                                               *)

\* Once nothing is under way, the rows on the screen are what the filters on
\* the screen select in the database, the page's own writes included, as long
\* as answers kept their order and nobody else wrote (load, save and delete
\* handlers: every change of a control and every write ends in a load).
QuietListIsCurrent ==
  (calls = <<>> /\ ~view.timer /\ stage = "ready" /\ Lists /\ ~excused)
    => lastRows = Answer(Query(view))

\* A dialog filled in once creates at most one row, however often Save is
\* clicked and whatever the answers do, as long as no answer to a write is
\* lost (setButtonLoading disables the button for as long as a save waits).
CreatedOnce ==
  [][\A n \in DOMAIN calls :
       (Is(n, "save") /\ calls[n].row = 0 /\ Len(rows') > Len(rows) /\ calls'[n] # calls[n])
         => calls[n].filling \notin stored \/ excused]_vars

\* A field the user has not chosen is sent as it was listed, but for a select
\* that has no option for it and the due date of a task, which are then sent
\* empty (openModal copies the row into the form; tasks.js:157 assigns a moment
\* to a date input, which shows none).
SentAsListed ==
  \A n \in DOMAIN calls :
    (Is(n, "save") /\ calls[n].row # 0) =>
      \A f \in DOMAIN calls[n].body \ calls[n].filled :
        \/ calls[n].body[f] = calls[n].copy[f]
        \/ f \in DOMAIN options \cup {"due"} /\ calls[n].body[f] = None

\* Saving an edit never clears a link the user has not touched.
LinksSurviveSaving ==
  \A n \in DOMAIN calls :
    (Is(n, "save") /\ calls[n].row # 0) =>
      \A f \in (DOMAIN calls[n].body \cap DOMAIN options) \ calls[n].filled :
        calls[n].body[f] = calls[n].copy[f]

\* Saving an edit never clears a due date the user has not touched.
DueDatesSurviveSaving ==
  \A n \in DOMAIN calls :
    (Is(n, "save") /\ calls[n].row # 0) =>
      \A f \in (DOMAIN calls[n].body \cap {"due"}) \ calls[n].filled :
        calls[n].body[f] = calls[n].copy[f]

Settled == stage = "ready" /\ table # "loading" /\ ~busy

\* The page comes up, "Loading..." does not stay and the Save button comes
\* back, whatever gets lost (the catches of the option loaders and of load(),
\* and the finally of the save handlers).
WaitingEnds == ~Settled ~> Settled
=============================================================================

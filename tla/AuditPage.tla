----------------------------- MODULE AuditPage ------------------------------
(* audit.js: the Admin's list, in pages of the API's size.                 *)
EXTENDS Shell

CONSTANT PagesOf  \* PagesOf[f]: how many pages the entries of filter f fill

ASSUME AuditAssumption == "" \in DOMAIN PagesOf /\ \A f \in DOMAIN PagesOf : PagesOf[f] \in Nat \ {0}

\* The page number [object Object].
UserObject == 99

\* The API answers 404 to any other page.
Exists(q) == q.page \in 1 .. PagesOf[q.filter]

\* What a request asks for, and the rows it gets.
Query(c) == [page |-> c.id, filter |-> c.what, up |-> c.up]

Ask(b, p) == [Call("audit", b.filter) EXCEPT !.id = p, !.up = b.up]

AuditBody ==
  [table |-> "empty", filter |-> "", up |-> FALSE, typed |-> FALSE, current |-> 1,
   rows |-> [page |-> 0, filter |-> "", up |-> FALSE], previous |-> FALSE, next |-> FALSE]

\* Faulty variant: the current page is not noted.
loadUnnoted(b, p) ==
  /\ body' = [b EXCEPT !.table = "loading"]
  /\ Turn(0, <<Ask(b, p)>>)

\* load(page): the page is the current one before there is an answer.
loadAudit(b, p) ==
  /\ body' = [b EXCEPT !.table = "loading", !.current = p]
  /\ Turn(0, <<Ask(b, p)>>)

\* Layout.init("audit-logs").then(load): the callback gets the user, and asks
\* for a page that does not exist.
AuditStart(b) == [b EXCEPT !.table = "loading", !.current = UserObject]
AuditCalls(b) == <<Ask(b, UserObject)>>

OnAudit == page = "audit-logs" /\ gate # "left"

\* The filters start again from page 1, and so does a sorted column.
FilterAudit ==
  /\ Event /\ OnAudit
  /\ \E f \in DOMAIN PagesOf \ {body.filter} : loadAudit([body EXCEPT !.filter = f], 1)
  /\ UNCHANGED <<user, frame, menus, theme, bell, notes, missed>>

SortAudit ==
  /\ Event /\ OnAudit
  /\ loadAudit([body EXCEPT !.up = ~@], 1)
  /\ ClickReachesDocument
  /\ UNCHANGED <<user, frame, theme, bell, notes, missed>>

\* The search box, and its timer: the same word again.
TypeAudit ==
  /\ Event /\ OnAudit
  /\ ~body.typed
  /\ body' = [body EXCEPT !.typed = TRUE]
  /\ UNCHANGED <<user, frame, menus, theme, bell, notes, calls, missed>>

AuditTimer ==
  /\ page = "audit-logs"
  /\ body.typed
  /\ loadAudit([body EXCEPT !.typed = FALSE], 1)
  /\ UNCHANGED <<user, frame, menus, theme, bell, notes, events, missed>>

\* The buttons stay while a page is loading, and after an error.
TurnPage ==
  /\ Event /\ OnAudit
  /\ \/ body.previous /\ loadAudit(body, body.current - 1)
     \/ body.next /\ loadAudit(body, body.current + 1)
  /\ ClickReachesDocument
  /\ UNCHANGED <<user, frame, theme, bell, notes, missed>>

\* renderRows and renderPagination, or the error row alone.
AuditLoaded(n) ==
  /\ Answered(n, "audit")
  /\ body' = IF calls[n].phase # "lost" /\ Exists(Query(calls[n]))
             THEN [body EXCEPT !.table = "rows", !.rows = Query(calls[n]),
                               !.previous = (calls[n].id > 1),
                               !.next = (calls[n].id < PagesOf[calls[n].what])]
             ELSE [body EXCEPT !.table = "failed"]
  /\ missed' = missed \cup Overtaking(n, "audit")
  /\ Turn(n, <<>>)
  /\ UNCHANGED <<user, frame, menus, theme, bell, notes, events>>

-----------------------------------------------------------------------------
\* Once nothing is asked, rows on the screen are the current page of what the
\* controls select, and the buttons lead to pages that exist, unless answers came
\* in another order (currentPage is set before the answer and may outrun the rows).
AuditIsCurrent ==
  (page = "audit-logs" /\ body.table = "rows" /\ ~Waiting({"audit"}) /\ ~body.typed
     /\ "audit" \notin missed)
    => /\ body.rows = [page |-> body.current, filter |-> body.filter, up |-> body.up]
       /\ body.previous => Exists([body.rows EXCEPT !.page = @ - 1])
       /\ body.next => Exists([body.rows EXCEPT !.page = @ + 1])
=============================================================================

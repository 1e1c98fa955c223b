----------------------------- MODULE InboxPage ------------------------------
(* notifications.js: the newest of one's own notices, filtered by is_read,  *)
(* with "Mark read" on each unread one.                                    *)
EXTENDS Shell

CONSTANT PageSize  \* the PAGE_SIZE of the API, which no page_size changes

ASSUME InboxAssumption == PageSize \in Nat

\* The read filter selects all, the unread, or the read ones.
Selected(filter, all) ==
  {i \in DOMAIN all : filter = "" \/ (filter = "false" /\ ~all[i]) \/ (filter = "true" /\ all[i])}

\* get_queryset and its page: of the notices that the filter selects the newest come
\* first, and the answer ends with the page.  The front end asks for no other.
Listed(filter, all) ==
  {i \in Selected(filter, all) : Cardinality({j \in Selected(filter, all) : i < j}) < PageSize}

InboxBody == [list |-> "empty", filter |-> "", shown |-> {}, unread |-> {}]

loadInbox(n, b) ==
  /\ body' = [b EXCEPT !.list = "loading"]
  /\ Turn(n, <<Call("inbox", b.filter)>>)

ReadFilter ==
  /\ Event /\ page = "notifications" /\ gate # "left"
  /\ \E f \in {"", "false", "true"} \ {body.filter} : loadInbox(0, [body EXCEPT !.filter = f])
  /\ UNCHANGED <<user, frame, menus, theme, bell, notes, missed>>

InboxLoaded(n) ==
  /\ Answered(n, "inbox")
  /\ body' = IF calls[n].phase # "lost"
             THEN [body EXCEPT !.list = "rows",
                               !.shown = Listed(calls[n].what, calls[n].found),
                               !.unread = {i \in Listed(calls[n].what, calls[n].found) : ~calls[n].found[i]}]
             ELSE [body EXCEPT !.list = "failed"]
  /\ missed' = missed \cup Overtaking(n, "inbox")
  /\ Turn(n, <<>>)
  /\ UNCHANGED <<user, frame, menus, theme, bell, notes, events>>

markRead ==
  /\ Event /\ page = "notifications" /\ gate # "left"
  /\ body.list = "rows"
  /\ \E i \in body.unread : Turn(0, <<[Call("mark", "") EXCEPT !.id = i]>>)
  /\ ClickReachesDocument
  /\ UNCHANGED <<user, frame, theme, bell, notes, body, missed>>

\* The page's own "Mark all read", which stays enabled.
MarkAllHere ==
  /\ Event /\ page = "notifications" /\ gate # "left"
  /\ Turn(0, <<Call("markAll", "page")>>)
  /\ ClickReachesDocument
  /\ UNCHANGED <<user, frame, theme, bell, notes, body, missed>>

\* Faulty variant: the dot is forgotten.
MarkedOnly(n) ==
  /\ Answered(n, "mark") \/ (Answered(n, "markAll") /\ calls[n].what = "page")
  /\ IF calls[n].phase # "lost" THEN loadInbox(n, body) ELSE Turn(n, <<>>) /\ UNCHANGED body
  /\ UNCHANGED <<user, frame, menus, theme, bell, notes, events, missed>>

\* Faulty variant: the list stays as it is.
MarkedUnlisted(n) ==
  /\ Answered(n, "mark") \/ (Answered(n, "markAll") /\ calls[n].what = "page")
  /\ Turn(n, IF calls[n].phase # "lost" THEN <<Call("unread", "")>> ELSE <<>>)
  /\ UNCHANGED <<user, frame, menus, theme, bell, notes, body, events, missed>>

\* load() and refreshUnreadBadge(), side by side; on an error a toast.
Marked(n) ==
  /\ Answered(n, "mark") \/ (Answered(n, "markAll") /\ calls[n].what = "page")
  /\ IF calls[n].phase # "lost"
     THEN /\ body' = [body EXCEPT !.list = "loading"]
          /\ Turn(n, <<Call("inbox", body.filter), Call("unread", "")>>)
     ELSE Turn(n, <<>>) /\ UNCHANGED body
  /\ UNCHANGED <<user, frame, menus, theme, bell, notes, events, missed>>

-----------------------------------------------------------------------------
\* Once nothing is asked or written, the list is the newest page of what its filter
\* selects, and its buttons are on the unread ones, unless the panel under the bell
\* has marked them, a notice came, or an answer was lost or late.
InboxIsCurrent ==
  (page = "notifications" /\ body.list = "rows" /\ "inbox" \notin missed
     /\ ~Waiting({"inbox", "mark", "markAll"}))
    => /\ body.shown = Listed(body.filter, notes)
       /\ body.unread = {i \in body.shown : ~notes[i]}
=============================================================================

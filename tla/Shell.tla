------------------------------- MODULE Shell --------------------------------
(***************************************************************************)
(* What surrounds every page of the front end (layout.js): the guard that  *)
(* lets a role see a page, the sidebar, the topbar with its two menus, the *)
(* theme button, the unread dot and the panel under the bell.  The bodies  *)
(* of the pages are in Dashboard, AuditPage and InboxPage, and Desk puts   *)
(* them together; the state a page keeps is one variable, body.            *)
(*                                                                         *)
(* A document is thrown away when another one is opened, and its requests  *)
(* with it.  A handler runs to its next await without interruption.        *)
(***************************************************************************)
EXTENDS Naturals, Sequences, FiniteSets, TLC

CONSTANTS
  Role,      \* the roles the account may be given
  Linked,    \* the pages of the sidebar that are visited
  MaxEvents  \* how often, together, the user acts, a notice arrives, a role
             \* is changed, and a request or its answer is lost: on page p,
             \* while fewer than MaxEvents[p] of these have happened

AnyRole == {"ADMIN", "MANAGER", "EMPLOYEE"}

\* NAV_ITEMS and ACCOUNT_NAV_ITEMS: the roles that see a page.
RolesOf ==
  [p \in {"dashboard", "clients", "projects", "tasks", "notifications", "profile", "settings"} |-> AnyRole]
    @@ [p \in {"organizations", "user-management", "audit-logs"} |-> {"ADMIN"}]

ASSUME ShellAssumption ==
  Role \subseteq AnyRole /\ Linked \subseteq DOMAIN RolesOf /\ MaxEvents \in [Linked -> Nat]

VARIABLES
  role,      \* the role of the account, on the server
  cached,    \* the role of the user kept in localStorage
  page,      \* which page the document is
  gate,      \* Layout.init: "asking" for the user, "open", or "left" for good
  sidebar,   \* the role whose links the sidebar shows
  flash,     \* whether a message waits in sessionStorage
  menu,      \* the menus with class open
  expanded,  \* the toggles with aria-expanded true
  theme,     \* of the document and in localStorage
  dot,       \* whether the bell shows that something is unread
  panel,     \* what the panel under the bell shows
  marking,   \* whether its "Mark all read" is disabled
  notes,     \* the notices of the user, oldest first: whether each is read
  body,      \* what the page keeps beside all this
  calls,     \* the requests under way, in the order in which they were sent
  events,    \* how many of MaxEvents have happened
  missed     \* ghost: which parts of the screen know less than the server: a
             \* notice came, an answer overtook an older one or got lost

user  == <<role, cached>>
frame == <<page, gate, sidebar, flash>>
menus == <<menu, expanded>>
bell  == <<dot, panel, marking>>
vars  == <<user, frame, menus, theme, bell, notes, body, calls, events, missed>>

Event == events < MaxEvents[page] /\ events' = events + 1

-----------------------------------------------------------------------------
(* Requests: "sent", then "ok" with what the server found, or "lost".  What *)
(* is asked for is a filter, a range, or who asks; id is a notice or a page *)
(* number, and up the direction of an order.                               *)

Call(kind, what) ==
  [kind |-> kind, what |-> what, id |-> 0, up |-> FALSE, phase |-> "sent", found |-> <<>>]

\* Requests whose answer depends on when the server sees them, or that change
\* something there; any other is answered when it is handled.
Timed == {"unread", "inbox", "mark", "markAll"}

Is(n, kind) == n \in DOMAIN calls /\ calls[n].kind = kind
Answered(n, kind) == Is(n, kind) /\ (calls[n].phase = "sent" => kind \notin Timed)
Waiting(kinds) == \E n \in DOMAIN calls : calls[n].kind \in kinds

\* Call n, if any, has been answered for good, and those in more are sent.
Turn(n, more) ==
  calls' = SubSeq(calls, 1, n - 1) \o SubSeq(calls, n + 1, Len(calls)) \o more

\* The part of the screen that knows less once call n is handled, because an
\* older answer will come after it.
Overtaking(n, part) ==
  IF \E m \in 1 .. n - 1 : calls[m].kind = calls[n].kind THEN {part} ELSE {}

Unread(all) == \E i \in DOMAIN all : ~all[i]

\* What NotificationViewSet lists and counts, and its writes.
Found(c) == IF c.kind \in {"unread", "inbox"} THEN notes ELSE <<>>

AfterCall(c) ==
  CASE c.kind = "mark"    -> [notes EXCEPT ![c.id] = TRUE]
    [] c.kind = "markAll" -> [i \in DOMAIN notes |-> TRUE]
    [] OTHER              -> notes

Serve(n) ==
  /\ n \in DOMAIN calls /\ calls[n].kind \in Timed /\ calls[n].phase = "sent"
  /\ calls' = [calls EXCEPT ![n].phase = "ok", ![n].found = Found(calls[n])]
  /\ notes' = AfterCall(calls[n])
  /\ UNCHANGED <<user, frame, menus, theme, bell, body, events, missed>>

\* A request or its answer is lost, or the server fails.  A write whose answer
\* is lost has happened.
Lose(n) ==
  /\ Event
  /\ n \in DOMAIN calls /\ calls[n].phase # "lost"
  /\ calls' = [calls EXCEPT ![n].phase = "lost"]
  /\ missed' = missed \cup (IF calls[n].kind \in {"mark", "markAll"} THEN {"dot", "inbox"} ELSE {})
  /\ UNCHANGED <<user, frame, menus, theme, bell, notes, body>>

\* A notice arrives; the screen hears of it at its next request.
Arrive ==
  /\ Event
  /\ notes' = Append(notes, FALSE)
  /\ missed' = missed \cup {"dot", "inbox"}
  /\ UNCHANGED <<user, frame, menus, theme, bell, body, calls>>

\* An admin changes the role of the account.
ChangeRole ==
  /\ Event
  /\ role' \in Role \ {role}
  /\ UNCHANGED <<cached, frame, menus, theme, bell, notes, body, calls, missed>>

-----------------------------------------------------------------------------
(* Opening a page.                                                         *)

isBlocked(p, r) == p \in DOMAIN RolesOf /\ r \notin RolesOf[p]

\* renderSidebar: the links a role is shown.
visible(r) == {p \in Linked : r \in RolesOf[p]}

\* A topbar is drawn once for each document.
renderTopbar ==
  /\ menu' = {} /\ expanded' = {}
  /\ dot' = FALSE /\ panel' = "old" /\ marking' = FALSE

\* Layout.init up to the request for the user, and the page's own script.
NewDocument(p, first) ==
  /\ page' = p
  /\ renderTopbar
  /\ missed' = {}
  /\ body' = first
  /\ sidebar' = cached
  /\ IF isBlocked(p, cached)
     THEN gate' = "left" /\ flash' = TRUE /\ calls' = <<>>
     ELSE gate' = "asking" /\ flash' = FALSE /\ calls' = <<Call("me", "")>>
  /\ UNCHANGED <<user, theme, notes>>

\* A link of the sidebar, or redirectUnauthorized coming to its end.
FollowLink(p, first) ==
  /\ Event /\ gate # "left"
  /\ NewDocument(p, first)

Redirected(first) ==
  /\ gate = "left"
  /\ NewDocument("dashboard", first)
  /\ UNCHANGED events

\* Faulty variant: the role is not checked again.
MeOnce(n, requests, started) ==
  /\ Answered(n, "me")
  /\ cached' = IF calls[n].phase = "lost" THEN cached ELSE role
  /\ sidebar' = IF calls[n].phase = "lost" THEN sidebar ELSE role
  /\ gate' = "open" /\ UNCHANGED flash
  /\ body' = started
  /\ Turn(n, <<Call("unread", "")>> \o requests)
  /\ UNCHANGED <<role, page, menus, theme, bell, notes, events, missed>>

\* The answer of /auth/me/, which may come at once: the second look at the
\* role, the unread count, and the page's callback with its requests.
MeAnswered(n, requests, started) ==
  /\ Answered(n, "me")
  /\ cached' = IF calls[n].phase = "lost" THEN cached ELSE role
  /\ sidebar' = IF calls[n].phase = "lost" THEN sidebar ELSE role
  /\ IF calls[n].phase # "lost" /\ isBlocked(page, role)
     THEN gate' = "left" /\ flash' = TRUE /\ Turn(n, <<>>) /\ UNCHANGED body
     ELSE /\ gate' = "open" /\ UNCHANGED flash
          /\ body' = started
          /\ Turn(n, <<Call("unread", "")>> \o requests)
  /\ UNCHANGED <<role, page, menus, theme, bell, notes, events, missed>>

-----------------------------------------------------------------------------
(* The topbar, wired before the answer about the user.  Its buttons keep    *)
(* their clicks to themselves; every other click reaches the document, which *)
(* closes both menus.                                                      *)

closeUserMenu(open) == open \ {"user"}
closeNotifications(open) == open \ {"notif"}

\* class open and aria-expanded change together.
Open(these) == menu' = these /\ expanded' = these

ClickReachesDocument == Open({})

UserChip ==
  /\ Event /\ gate # "left"
  /\ Open(IF "user" \in menu THEN closeNotifications(menu) \ {"user"}
          ELSE closeNotifications(menu) \cup {"user"})
  /\ UNCHANGED <<user, frame, theme, bell, notes, body, calls, missed>>

\* The bell: opening the panel asks for the notices.
Bell ==
  /\ Event /\ gate # "left"
  /\ Open(IF "notif" \in menu THEN closeUserMenu(menu) \ {"notif"}
          ELSE closeUserMenu(menu) \cup {"notif"})
  /\ IF "notif" \in menu THEN UNCHANGED <<panel, calls>>
     ELSE panel' = "loading" /\ Turn(0, <<Call("panel", "bell")>>)
  /\ UNCHANGED <<user, frame, theme, dot, marking, notes, body, missed>>

\* A click on nothing in particular.
ClickOutside ==
  /\ Event /\ gate # "left"
  /\ menu # {}
  /\ ClickReachesDocument
  /\ UNCHANGED <<user, frame, theme, bell, notes, body, calls, missed>>

\* loadNotifPanel: the rows, or a sentence and a Retry button.  Behind "Mark all
\* read" the count is asked for when the panel has been filled.
PanelAnswered(n) ==
  /\ Answered(n, "panel")
  /\ panel' = IF calls[n].phase # "lost" THEN "rows" ELSE "failed"
  /\ Turn(n, IF calls[n].what = "markAll" THEN <<Call("unread", "markAll")>> ELSE <<>>)
  /\ UNCHANGED <<user, frame, menus, theme, dot, marking, notes, body, events, missed>>

\* The Retry button is gone from the panel when its click reaches the document,
\* which takes it for a click elsewhere and closes the panel.
RetryPanel ==
  /\ Event
  /\ "notif" \in menu /\ panel = "failed"
  /\ ClickReachesDocument
  /\ panel' = "loading"
  /\ Turn(0, <<Call("panel", "bell")>>)
  /\ UNCHANGED <<user, frame, theme, dot, marking, notes, body, missed>>

\* refreshUnreadBadge, and the finally of the click that waits for it.
UnreadAnswered(n) ==
  /\ Answered(n, "unread")
  /\ dot' = IF calls[n].phase # "lost" THEN Unread(calls[n].found) ELSE dot
  /\ marking' = (marking /\ calls[n].what # "markAll")
  /\ missed' = missed \cup (IF calls[n].phase = "lost" THEN {"dot"} ELSE Overtaking(n, "dot"))
  /\ Turn(n, <<>>)
  /\ UNCHANGED <<user, frame, menus, theme, panel, notes, body, events>>

MarkAll ==
  /\ Event
  /\ "notif" \in menu /\ ~marking
  /\ marking' = TRUE
  /\ Turn(0, <<Call("markAll", "bell")>>)
  /\ UNCHANGED <<user, frame, menus, theme, dot, panel, notes, body, missed>>

\* Faulty variant: the button is given back only after a success.
MarkAllStuck(n) ==
  /\ Answered(n, "markAll") /\ calls[n].what = "bell"
  /\ IF calls[n].phase # "lost"
     THEN panel' = "loading" /\ Turn(n, <<Call("panel", "markAll")>>)
     ELSE Turn(n, <<>>) /\ UNCHANGED panel
  /\ missed' = missed \cup {"inbox"}
  /\ UNCHANGED <<user, frame, menus, theme, dot, marking, notes, body, events>>

MarkAllAnswered(n) ==
  /\ Answered(n, "markAll") /\ calls[n].what = "bell"
  /\ IF calls[n].phase # "lost"
     THEN panel' = "loading" /\ Turn(n, <<Call("panel", "markAll")>>) /\ UNCHANGED marking
     ELSE marking' = FALSE /\ Turn(n, <<>>) /\ UNCHANGED panel
  /\ missed' = missed \cup {"inbox"}
  /\ UNCHANGED <<user, frame, menus, theme, dot, notes, body, events>>

-----------------------------------------------------------------------------
\* A page runs only for a role that may see it, as far as the browser knows the
\* role, however it has changed since the link was clicked (isBlocked, asked of
\* the stored and of the fresh role).
PageSuitsRole == gate = "open" => ~isBlocked(page, cached)

\* Once nothing is asked or written, the dot says whether something is unread,
\* if no notice came and no answer was lost or late (every write of a page or of
\* the panel ends in refreshUnreadBadge).
BadgeTellsUnread ==
  (gate = "open" /\ ~Waiting({"unread", "panel", "mark", "markAll"}) /\ "dot" \notin missed)
    => dot = Unread(notes)
=============================================================================

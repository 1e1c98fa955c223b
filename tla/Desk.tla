-------------------------------- MODULE Desk --------------------------------
(***************************************************************************)
(* One browser tab that goes from page to page: the shell around every     *)
(* page, with the dashboard, the audit log and the inbox inside it.  Of    *)
(* other pages only the shell is here (see RecordPages for their bodies).  *)
(***************************************************************************)
EXTENDS Dashboard, AuditPage, InboxPage

FirstBody(p) ==
  CASE p = "dashboard"     -> DashboardBody
    [] p = "audit-logs"    -> AuditBody
    [] p = "notifications" -> InboxBody
    [] OTHER               -> [cards |-> "none"]

\* What the page's script does when Layout.init has resolved: its requests, and
\* the spinners before them.
start(p) ==
  CASE p = "dashboard"     -> DashboardCalls(body)
    [] p = "audit-logs"    -> AuditCalls(body)
    [] p = "notifications" -> <<Call("inbox", body.filter)>>
    [] OTHER               -> <<>>

StartBody(p) ==
  CASE p = "dashboard"     -> DashboardStart(body)
    [] p = "audit-logs"    -> AuditStart(body)
    [] p = "notifications" -> [body EXCEPT !.list = "loading"]
    [] OTHER               -> body

-----------------------------------------------------------------------------
\* A new tab on some page, by a bookmark or after the login, which has just stored
\* the user.  There is an unread notice.
Init ==
  /\ role \in Role /\ cached = role
  /\ page \in Linked /\ sidebar = cached /\ flash = isBlocked(page, cached)
  /\ gate = IF flash THEN "left" ELSE "asking"
  /\ calls = IF flash THEN <<>> ELSE <<Call("me", "")>>
  /\ menu = {} /\ expanded = {}
  /\ theme = "light"
  /\ dot = FALSE /\ panel = "old" /\ marking = FALSE
  /\ notes = <<FALSE>>
  /\ body = FirstBody(page)
  /\ events = 0 /\ missed = {}

\* Continuations: the event loop runs them when their answer is there.
Handlers ==
  \/ Redirected(FirstBody("dashboard"))
  \/ AuditTimer
  \/ \E n \in DOMAIN calls :
       \/ MeAnswered(n, start(page), StartBody(page))
       \/ PanelAnswered(n) \/ UnreadAnswered(n) \/ MarkAllAnswered(n)
       \/ GrowthAnswered(n) \/ DistributionAnswered(n)
       \/ OverviewAnswered(n) \/ ActivityAnswered(n)
       \/ AuditLoaded(n)
       \/ InboxLoaded(n) \/ Marked(n)

Server == \E n \in DOMAIN calls : Serve(n)

Environment == Arrive \/ ChangeRole \/ \E n \in DOMAIN calls : Lose(n)

Next ==
  \/ \E p \in visible(sidebar) : FollowLink(p, FirstBody(p))
  \/ UserChip \/ Bell \/ ClickOutside \/ RetryPanel \/ MarkAll
  \/ ToggleTheme
  \/ PickRange \/ PickType \/ HoverGrowth \/ HoverDistribution
  \/ FilterAudit \/ SortAudit \/ TypeAudit \/ TurnPage
  \/ ReadFilter \/ markRead \/ MarkAllHere
  \/ Handlers \/ Server \/ Environment

Spec == Init /\ [][Next]_vars

\* An answer comes, or its failure does; scripts run when they can.
FairSpec == Spec /\ WF_vars(Handlers) /\ WF_vars(Server)

-----------------------------------------------------------------------------
\* Nothing on the screen is still waiting for an answer.
AtRest ==
  /\ gate = "open"
  /\ panel # "loading" /\ ~marking
  /\ page = "dashboard" => /\ \A p \in Panel : body.chart[p].message # "loading"
                           /\ body.cards # "loading" /\ body.feed # "loading"
  /\ page = "audit-logs" => body.table # "loading"
  /\ page = "notifications" => body.list # "loading"

\* Every page comes to rest: redirects end at a page the role may see, and a
\* failed or unanswered request leaves neither a spinner nor a dead button.
EverythingSettles == ~AtRest ~> AtRest
=============================================================================

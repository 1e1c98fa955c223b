----------------------------- MODULE DeskProofs -----------------------------
(***************************************************************************)
(* What Desk promises of a browser tab, for any roles, pages and numbers.  *)
(* A part of the screen is right when nothing is asked for because, until  *)
(* then, the last request that fills it asks for the right thing: the      *)
(* proofs follow, for each kind of request, the last one under way.        *)
(***************************************************************************)
EXTENDS Desk, RequestLists, FiniteSetTheorems

-----------------------------------------------------------------------------
(* Sequences of requests.                                                  *)

Kind ==
  {"me", "unread", "panel", "markAll", "overview", "growth", "dist", "activity", "audit", "inbox", "mark"}

Filter == {"", "false", "true"}

What ==
  {"bell", "markAll", "page"} \cup Filter \cup Buttons.growth \cup Buttons.dist \cup DOMAIN PagesOf

AnyCall ==
  [kind : Kind, what : What, id : Int, up : BOOLEAN, phase : {"sent", "ok", "lost"}, found : Seq(BOOLEAN)]

\* A request that has just been made.
LEMMA CallTyped == ASSUME NEW k \in Kind, NEW w \in What
                   PROVE  /\ Call(k, w) \in AnyCall
                          /\ Call(k, w).kind = k /\ Call(k, w).what = w /\ Call(k, w).phase = "sent"
<1>1. <<>> \in Seq(BOOLEAN)
  OBVIOUS
<1> QED
  BY <1>1 DEF Call, AnyCall

\* Turn replaces request n, if any, by some more at the end.
LEMMA TurnEffect ==
  ASSUME NEW C, calls \in Seq(C), NEW n \in 0 .. Len(calls), NEW more \in Seq(C), Turn(n, more)
  PROVE  calls' \in Seq(C) /\ Replaced(calls, n, more, calls')
<1>1. calls' = Unanswered(calls, n) \o more
  BY Zenon DEF Turn, Unanswered
<1> QED
  BY <1>1, TurnedList

-----------------------------------------------------------------------------
(* The invariants.                                                         *)

\* What the body of a page is made of.
DashboardShape(b) ==
  /\ b = [lit |-> b.lit, chart |-> b.chart, breakdown |-> b.breakdown, tip |-> b.tip,
          cards |-> b.cards, feed |-> b.feed]
  /\ b.lit \in [growth : Buttons.growth, dist : Buttons.dist]
  /\ b.chart = [p \in Panel |-> b.chart[p]]
  /\ \A p \in Panel : /\ b.chart[p] = [message |-> b.chart[p].message, data |-> b.chart[p].data,
                                       theme |-> b.chart[p].theme, size |-> b.chart[p].size]
                       /\ b.chart[p].size \in Nat \X Nat

AuditShape(b) ==
  /\ b = [table |-> b.table, filter |-> b.filter, up |-> b.up, typed |-> b.typed, current |-> b.current,
          rows |-> b.rows, previous |-> b.previous, next |-> b.next]
  /\ b.filter \in DOMAIN PagesOf /\ b.up \in BOOLEAN /\ b.typed \in BOOLEAN /\ b.current \in Int
  /\ b.rows \in [page : Int, filter : What, up : BOOLEAN]

InboxShape ==
  [list : {"empty", "loading", "rows", "failed"}, filter : Filter, shown : SUBSET Nat, unread : SUBSET Nat]

\* What a page asks for, besides what every page does.
KindsOf(p) ==
  CASE p = "dashboard"     -> {"overview", "growth", "dist", "activity"}
    [] p = "audit-logs"    -> {"audit"}
    [] p = "notifications" -> {"inbox", "mark"}
    [] OTHER               -> {}

Fits(c, p) ==
  /\ c.kind \in {"me", "unread", "panel", "markAll"} \cup KindsOf(p)
  /\ c.kind = "markAll" /\ c.what = "page" => p = "notifications"

BodyFits(b, p) ==
  /\ p = "dashboard" => DashboardShape(b)
  /\ p = "audit-logs" => AuditShape(b)
  /\ p = "notifications" => b \in InboxShape

DeskShape ==
  /\ calls \in Seq(AnyCall)
  /\ notes \in Seq(BOOLEAN)
  /\ BodyFits(body, page)
  /\ \A n \in 1 .. Len(calls) : Fits(calls[n], page)

\* The user is asked for once in each document, and a document that is left has
\* no answer to wait for.
AskedOnce == ~Twice(calls, "me") /\ (gate # "asking" => ~Has(calls, "me"))

Suits == gate # "left" => ~isBlocked(page, cached)

\* A write whose answer is lost has excused what it may leave behind.
Writes == {"mark", "markAll"}
LostExcused ==
  \A n \in 1 .. Len(calls) :
    (calls[n].kind \in Writes /\ calls[n].phase = "lost") => {"dot", "inbox"} \subseteq missed

\* Whatever is going to end in another count of the unread.
Recounts(c) == c.kind \in Writes \/ (c.kind = "panel" /\ c.what = "markAll")

\* The dot is about to be counted again, or the last count that is under way will
\* be right, or there is none and the dot is right.
BadgeInv ==
  (gate = "open" /\ "dot" \notin missed /\ \A n \in 1 .. Len(calls) : ~Recounts(calls[n])) =>
    /\ \A n \in 1 .. Len(calls) :
         Latest(calls, "unread", n) /\ calls[n].phase = "ok" => calls[n].found = notes
    /\ ~Has(calls, "unread") => dot = Unread(notes)

\* The same of the list of the inbox.
InboxInv ==
  (page = "notifications" /\ "inbox" \notin missed
     /\ \A n \in 1 .. Len(calls) : calls[n].kind \notin Writes) =>
    /\ \A n \in 1 .. Len(calls) :
         Latest(calls, "inbox", n) =>
           calls[n].what = body.filter /\ (calls[n].phase = "ok" => calls[n].found = notes)
    /\ (~Has(calls, "inbox") /\ body.list = "rows") =>
         /\ body.shown = Listed(body.filter, notes)
         /\ body.unread = {i \in body.shown : ~notes[i]}

\* The rows are those of the current page, and the buttons lead to others.
AuditShown(b) ==
  /\ b.rows = [page |-> b.current, filter |-> b.filter, up |-> b.up]
  /\ Exists(b.rows)
  /\ b.previous = (b.current > 1)
  /\ b.next = (b.current < PagesOf[b.filter])

AuditInv ==
  (page = "audit-logs" /\ "audit" \notin missed) =>
    /\ \A n \in 1 .. Len(calls) :
         Latest(calls, "audit", n) =>
           Query(calls[n]) = [page |-> body.current, filter |-> body.filter, up |-> body.up]
    /\ (~Has(calls, "audit") /\ body.table = "rows") => AuditShown(body)

\* What a chart shows for a button.
Stands(p, button) == IF p = "growth" THEN Effective(button) ELSE button

\* The last request for a chart is for the lit button, or the chart shows it.
LitOf(p) ==
  p \notin missed =>
    /\ \A n \in 1 .. Len(calls) : Latest(calls, p, n) => calls[n].what = body.lit[p]
    /\ (~Has(calls, p) /\ Visible(p)) => body.chart[p].data = Stands(p, body.lit[p])

LitInv == page = "dashboard" => \A p \in Panel : LitOf(p)

\* Nothing is drawn before the page is open, and what is drawn wears the theme.
WholeOf(p) ==
  /\ body.chart[p].data # "nothing" => body.chart[p].theme = theme
  /\ gate # "open" => body.chart[p].data = "nothing" /\ ~Has(calls, p)

WholeInv == page = "dashboard" => body.breakdown = body.chart["dist"].data /\ \A p \in Panel : WholeOf(p)

\* A step that handles at most one request, of these kinds, and sends some of
\* those kinds.
Turned(handled, sent) ==
  /\ calls' \in Seq(AnyCall)
  /\ \E n \in 0 .. Len(calls), more \in Seq(AnyCall) :
       /\ Replaced(calls, n, more, calls')
       /\ n # 0 => calls[n].kind \in handled
       /\ \A j \in 1 .. Len(more) : more[j].kind \in sent

\* More kinds may be named.
LEMMA TurnedMore ==
  ASSUME NEW R, NEW A, NEW S, NEW B, Turned(R, A), R \subseteq S, A \subseteq B
  PROVE  Turned(S, B)
BY DEF Turned

\* Nothing asked, nothing handled.
LEMMA NothingTurned ==
  ASSUME DeskShape, UNCHANGED calls
  PROVE  Turned({}, {})
<1>1. calls \in Seq(AnyCall) /\ Len(calls) \in Nat /\ 0 \in 0 .. Len(calls)
  BY DEF DeskShape
<1>2. <<>> \in Seq(AnyCall) /\ Len(<<>>) = 0
  OBVIOUS
<1>3. Replaced(calls, 0, <<>>, calls)
  <2>1. Without(calls, 0, calls)
    BY <1>1 DEF Without
  <2>2. Joined(calls, <<>>, calls)
    BY <1>1, <1>2 DEF Joined
  <2> QED
    BY <1>1, <1>2, <2>1, <2>2, Spliced, Zenon
<1> QED
  <2>1. Replaced(calls, 0, <<>>, calls')
    BY <1>3
  <2>2. \A j \in 1 .. Len(<<>>) : <<>>[j].kind \in {}
    BY <1>2
  <2> QED
    BY <1>1, <1>2, <2>1, <2>2, Zenon DEF Turned

\* One request sent, and no other handled or one that is.
LEMMA SentOne ==
  ASSUME DeskShape, NEW n \in 0 .. Len(calls), NEW handled, n # 0 => calls[n].kind \in handled,
         NEW c \in AnyCall, Turn(n, <<c>>)
  PROVE  Turned(handled, {c.kind}) /\ Replaced(calls, n, <<c>>, calls')
<1>1. calls \in Seq(AnyCall)
  BY DEF DeskShape
<1>2. <<c>> \in Seq(AnyCall) /\ \A j \in 1 .. Len(<<c>>) : <<c>>[j].kind \in {c.kind}
  OBVIOUS
<1> QED
  BY <1>1, <1>2, TurnEffect DEF Turned

\* A request handled, none sent.
LEMMA SentNone ==
  ASSUME DeskShape, NEW n \in 0 .. Len(calls), NEW handled, n # 0 => calls[n].kind \in handled, Turn(n, <<>>)
  PROVE  Turned(handled, {}) /\ Replaced(calls, n, <<>>, calls')
<1>1. calls \in Seq(AnyCall)
  BY DEF DeskShape
<1>2. <<>> \in Seq(AnyCall) /\ \A j \in 1 .. Len(<<>>) : FALSE
  OBVIOUS
<1> QED
  BY <1>1, <1>2, TurnEffect DEF Turned

\* Asking for a page keeps the shape.
LEMMA Asking ==
  ASSUME NEW b, AuditShape(b), NEW i \in Int
  PROVE  AuditShape([b EXCEPT !.table = "loading", !.current = i])
<1>1. ASSUME NEW c, c = [b EXCEPT !.table = "loading", !.current = i] PROVE AuditShape(c)
  BY <1>1 DEF AuditShape
<1> QED
  BY <1>1, Zenon

\* The timer of the search box keeps the shape.
LEMMA Untyped ==
  ASSUME AuditShape(body)
  PROVE  AuditShape([body EXCEPT !.typed = FALSE])
<1>1. ASSUME NEW x \in BOOLEAN PROVE AuditShape([body EXCEPT !.typed = x])
  BY DEF AuditShape
<1> QED
  BY <1>1

\* The steps of the user, and of others, that send a request or none.
LEMMA UserTurns ==
  ASSUME DeskShape
  PROVE  /\ UserChip \/ ClickOutside \/ ToggleTheme \/ ChangeRole \/ Arrive => Turned({}, {})
         /\ HoverGrowth \/ HoverDistribution \/ TypeAudit => Turned({}, {})
         /\ Bell \/ RetryPanel => Turned({}, {"panel"})
         /\ MarkAll \/ MarkAllHere => Turned({}, {"markAll"})
         /\ PickRange => Turned({}, {"growth"})
         /\ PickType => Turned({}, {"dist"})
         /\ FilterAudit \/ SortAudit \/ TurnPage \/ AuditTimer => Turned({}, {"audit"})
         /\ ReadFilter => Turned({}, {"inbox"})
         /\ markRead => Turned({}, {"mark"})
<1>0. /\ calls \in Seq(AnyCall) /\ 0 \in 0 .. Len(calls)
  BY DEF DeskShape
<1>1. ASSUME NEW k \in Kind, NEW w \in What, Turn(0, <<Call(k, w)>>)
      PROVE  Turned({}, {k})
  <2>1. Call(k, w) \in AnyCall /\ Call(k, w).kind = k
    BY CallTyped
  <2> QED
    BY <1>0, <1>1, <2>1, SentOne
<1>2. UserChip \/ ClickOutside \/ ToggleTheme \/ ChangeRole \/ Arrive => Turned({}, {})
  <2>1. UserChip \/ ClickOutside \/ ToggleTheme \/ ChangeRole \/ Arrive => UNCHANGED calls
    BY DEF UserChip, ClickOutside, ToggleTheme, ChangeRole, Arrive
  <2> QED
    BY <2>1, NothingTurned
<1>3. HoverGrowth \/ HoverDistribution \/ TypeAudit => Turned({}, {})
  <2>1. HoverGrowth \/ HoverDistribution \/ TypeAudit => UNCHANGED calls
    <3>1. HoverGrowth => UNCHANGED calls
      BY DEF HoverGrowth
    <3>2. HoverDistribution => UNCHANGED calls
      BY DEF HoverDistribution
    <3>3. TypeAudit => UNCHANGED calls
      BY DEF TypeAudit
    <3> QED
      BY <3>1, <3>2, <3>3
  <2> QED
    BY <2>1, NothingTurned
<1>4. Bell \/ RetryPanel => Turned({}, {"panel"})
  <2>1. Bell \/ RetryPanel => UNCHANGED calls \/ Turn(0, <<Call("panel", "bell")>>)
    BY DEF Bell, RetryPanel
  <2>2. UNCHANGED calls => Turned({}, {"panel"})
    BY NothingTurned, TurnedMore
  <2> QED
    BY <1>1, <2>1, <2>2 DEF Kind, What
<1>5. MarkAll \/ MarkAllHere => Turned({}, {"markAll"})
  <2>1. MarkAll \/ MarkAllHere => Turn(0, <<Call("markAll", "bell")>>) \/ Turn(0, <<Call("markAll", "page")>>)
    BY DEF MarkAll, MarkAllHere
  <2> QED
    BY <1>1, <2>1 DEF Kind, What
<1>6. PickRange => Turned({}, {"growth"})
  <2>1. PickRange => \E r \in Buttons.growth : Turn(0, <<Call("growth", r)>>)
    BY DEF PickRange
  <2> QED
    BY <1>1, <2>1 DEF Kind, What
<1>7. PickType => Turned({}, {"dist"})
  <2>1. PickType => \E t \in Buttons.dist : Turn(0, <<Call("dist", t)>>)
    BY DEF PickType
  <2> QED
    BY <1>1, <2>1 DEF Kind, What
<1>8. FilterAudit \/ SortAudit \/ TurnPage \/ AuditTimer => Turned({}, {"audit"})
  <2>1. ASSUME NEW b, AuditShape(b), NEW p \in Int, loadAudit(b, p)
        PROVE  Turned({}, {"audit"})
    <3>1. Ask(b, p) \in AnyCall /\ Ask(b, p).kind = "audit"
      <4>1. b.filter \in What /\ b.up \in BOOLEAN
        BY <2>1 DEF AuditShape, What
      <4>2. Call("audit", b.filter) \in AnyCall /\ Call("audit", b.filter).kind = "audit"
        BY <4>1, CallTyped DEF Kind
      <4> QED
        BY <4>1, <4>2 DEF Ask, AnyCall
    <3>2. Turn(0, <<Ask(b, p)>>)
      BY <2>1 DEF loadAudit
    <3> QED
      BY <1>0, <3>1, <3>2, SentOne
  <2>2. FilterAudit \/ SortAudit \/ TurnPage \/ AuditTimer =>
          \E b, p : AuditShape(b) /\ p \in Int /\ loadAudit(b, p)
    <3>1. ASSUME FilterAudit \/ SortAudit \/ TurnPage \/ AuditTimer
          PROVE  AuditShape(body) /\ body.current \in Int
      BY <3>1 DEF FilterAudit, SortAudit, TurnPage, AuditTimer, OnAudit, DeskShape, BodyFits, AuditShape
    <3>2. CASE FilterAudit
      <4>1. PICK f \in DOMAIN PagesOf : loadAudit([body EXCEPT !.filter = f], 1)
        BY <3>2 DEF FilterAudit
      <4>2. AuditShape([body EXCEPT !.filter = f])
        BY <3>1, <3>2 DEF AuditShape
      <4> QED
        BY <4>1, <4>2
    <3>3. CASE SortAudit
      <4>1. loadAudit([body EXCEPT !.up = ~@], 1)
        BY <3>3 DEF SortAudit
      <4>2. AuditShape([body EXCEPT !.up = ~@])
        BY <3>1, <3>3 DEF AuditShape
      <4> QED
        BY <4>1, <4>2
    <3>4. CASE TurnPage
      <4>1. loadAudit(body, body.current - 1) \/ loadAudit(body, body.current + 1)
        BY <3>4 DEF TurnPage
      <4> QED
        BY <3>1, <3>4, <4>1
    <3>5. CASE AuditTimer
      <4>1. loadAudit([body EXCEPT !.typed = FALSE], 1)
        BY <3>5 DEF AuditTimer
      <4>2. AuditShape([body EXCEPT !.typed = FALSE])
        BY <3>1, <3>5, Untyped
      <4> QED
        BY <4>1, <4>2
    <3> QED
      BY <3>2, <3>3, <3>4, <3>5
  <2> QED
    BY <2>1, <2>2
<1>9. ReadFilter => Turned({}, {"inbox"})
  <2>1. ReadFilter => \E f \in Filter : Turn(0, <<Call("inbox", f)>>)
    <3> SUFFICES ASSUME ReadFilter PROVE \E f \in Filter : Turn(0, <<Call("inbox", f)>>)
      OBVIOUS
    <3>1. body \in InboxShape
      BY DEF ReadFilter, DeskShape, BodyFits
    <3>2. PICK f \in Filter : loadInbox(0, [body EXCEPT !.filter = f])
      BY DEF ReadFilter, Filter
    <3>3. [body EXCEPT !.filter = f].filter = f
      BY <3>1 DEF InboxShape
    <3> QED
      BY <3>2, <3>3 DEF loadInbox
  <2> QED
    BY <1>1, <2>1 DEF Kind, What
<1>10. markRead => Turned({}, {"mark"})
  <2> SUFFICES ASSUME markRead PROVE Turned({}, {"mark"})
    OBVIOUS
  <2>1. body \in InboxShape
    BY DEF markRead, DeskShape, BodyFits
  <2>2. PICK i \in Int : Turn(0, <<[Call("mark", "") EXCEPT !.id = i]>>)
    <3>1. body.unread \subseteq Int
      BY <2>1 DEF InboxShape
    <3> QED
      BY <3>1, Zenon DEF markRead
  <2>3. [Call("mark", "") EXCEPT !.id = i] \in AnyCall /\ [Call("mark", "") EXCEPT !.id = i].kind = "mark"
    <3>1. Call("mark", "") \in AnyCall /\ Call("mark", "").kind = "mark"
      BY CallTyped DEF Kind, What, Filter
    <3> QED
      BY <3>1 DEF AnyCall
  <2> QED
    BY <1>0, <2>2, <2>3, SentOne
<1> QED
  BY <1>2, <1>3, <1>4, <1>5, <1>6, <1>7, <1>8, <1>9, <1>10

\* The requests that follow the answer about the user.
FirstCalls == <<Call("unread", "")>> \o start(page)

\* They ask for the unread, and for all that the page shows.
LEMMA FirstCallsAre ==
  ASSUME DeskShape
  PROVE  /\ FirstCalls \in Seq(AnyCall) /\ Has(FirstCalls, "unread")
         /\ page = "dashboard" => \A p \in Panel : Has(FirstCalls, p)
         /\ page = "audit-logs" => Has(FirstCalls, "audit")
         /\ page = "notifications" => Has(FirstCalls, "inbox")
         /\ \A j \in 1 .. Len(FirstCalls) : LET c == FirstCalls[j] IN
              \/ c = Call("unread", "")
              \/ /\ page = "dashboard"
                 /\ c \in {Call("overview", ""), Call("growth", body.lit.growth),
                           Call("dist", body.lit.dist), Call("activity", "")}
              \/ page = "audit-logs" /\ c = Ask(body, UserObject)
              \/ page = "notifications" /\ c = Call("inbox", body.filter)
<1> DEFINE u == Call("unread", "")
<1>1. u \in AnyCall /\ u.kind = "unread"
  <2>1. "unread" \in Kind /\ "" \in What
    BY DEF Kind, What, Filter
  <2> QED
    BY <2>1, CallTyped
<1> HIDE DEF u
<1>0. <<u>> \in Seq(AnyCall) /\ Len(<<u>>) = 1 /\ <<u>>[1] = u
  BY <1>1
<1>2. CASE page = "dashboard"
  <2> DEFINE o == Call("overview", "")
             g == Call("growth", body.lit.growth)
             d == Call("dist", body.lit.dist)
             a == Call("activity", "")
  <2>1. body.lit.growth \in What /\ body.lit.dist \in What /\ "" \in What
    BY <1>2 DEF DeskShape, BodyFits, DashboardShape, What, Filter
  <2>2. {"overview", "growth", "dist", "activity"} \subseteq Kind
    BY DEF Kind
  <2>3. /\ o \in AnyCall /\ g \in AnyCall /\ d \in AnyCall /\ a \in AnyCall
        /\ g.kind = "growth" /\ d.kind = "dist"
    BY <2>1, <2>2, CallTyped
  <2>4. FirstCalls = <<u>> \o <<o, g, d, a>>
    BY <1>2 DEF FirstCalls, start, DashboardCalls, u
  <2> HIDE DEF o, g, d, a
  <2>5. <<o, g, d, a>> \in Seq(AnyCall) /\ Len(<<o, g, d, a>>) = 4
    BY <2>3
  <2>6. /\ FirstCalls \in Seq(AnyCall) /\ Len(FirstCalls) = 5
        /\ \A j \in 1 .. 5 : FirstCalls[j] = IF j <= 1 THEN <<u>>[j] ELSE <<o, g, d, a>>[j - 1]
    BY <1>0, <2>4, <2>5, ConcatProperties
  <2>7. /\ FirstCalls[1] = u /\ FirstCalls[2] = o /\ FirstCalls[3] = g
        /\ FirstCalls[4] = d /\ FirstCalls[5] = a
    BY <1>0, <2>6
  <2>8. /\ Has(FirstCalls, "unread") /\ Has(FirstCalls, "growth") /\ Has(FirstCalls, "dist")
    BY <1>1, <2>3, <2>6, <2>7 DEF Has
  <2>9. \A j \in 1 .. Len(FirstCalls) : FirstCalls[j] = u \/ FirstCalls[j] \in {o, g, d, a}
    BY <2>6, <2>7
  <2> QED
    BY <1>2, <2>6, <2>8, <2>9 DEF Panel, u, o, g, d, a
<1>3. ASSUME NEW c \in AnyCall, FirstCalls = <<u>> \o <<c>>
      PROVE  /\ FirstCalls \in Seq(AnyCall) /\ Has(FirstCalls, "unread") /\ Has(FirstCalls, c.kind)
             /\ \A j \in 1 .. Len(FirstCalls) : FirstCalls[j] = u \/ FirstCalls[j] = c
  <2>1. <<c>> \in Seq(AnyCall) /\ Len(<<c>>) = 1 /\ <<c>>[1] = c
    OBVIOUS
  <2>2. /\ FirstCalls \in Seq(AnyCall) /\ Len(FirstCalls) = 2
        /\ \A j \in 1 .. 2 : FirstCalls[j] = IF j <= 1 THEN <<u>>[j] ELSE <<c>>[j - 1]
    BY <1>0, <1>3, <2>1, ConcatProperties
  <2>3. FirstCalls[1] = u /\ FirstCalls[2] = c
    BY <1>0, <2>1, <2>2
  <2> QED
    BY <1>1, <2>2, <2>3 DEF Has
<1>4. CASE page = "audit-logs"
  <2>1. Ask(body, UserObject) \in AnyCall /\ Ask(body, UserObject).kind = "audit"
    <3>1. body.filter \in What /\ body.up \in BOOLEAN
      BY <1>4 DEF DeskShape, BodyFits, AuditShape, What
    <3>2. Call("audit", body.filter) \in AnyCall /\ Call("audit", body.filter).kind = "audit"
      BY <3>1, CallTyped DEF Kind
    <3>3. UserObject \in Int
      BY DEF UserObject
    <3> QED
      BY <3>1, <3>2, <3>3 DEF Ask, AnyCall
  <2>2. FirstCalls = <<u>> \o <<Ask(body, UserObject)>>
    BY <1>4 DEF FirstCalls, start, AuditCalls, u
  <2> QED
    BY <1>3, <1>4, <2>1, <2>2 DEF u
<1>5. CASE page = "notifications"
  <2>1. Call("inbox", body.filter) \in AnyCall /\ Call("inbox", body.filter).kind = "inbox"
    <3>1. body.filter \in What
      BY <1>5 DEF DeskShape, BodyFits, InboxShape, What
    <3> QED
      BY <3>1, CallTyped DEF Kind
  <2>2. FirstCalls = <<u>> \o <<Call("inbox", body.filter)>>
    BY <1>5 DEF FirstCalls, start, u
  <2> QED
    BY <1>3, <1>5, <2>1, <2>2 DEF u
<1>6. CASE page \notin {"dashboard", "audit-logs", "notifications"}
  <2>1. FirstCalls = <<u>> \o <<>>
    BY <1>6 DEF FirstCalls, start, u
  <2>2. FirstCalls = <<u>>
    BY <1>1, <2>1
  <2> HIDE DEF FirstCalls
  <2>3. FirstCalls \in Seq(AnyCall) /\ Len(FirstCalls) = 1 /\ FirstCalls[1] = u
    BY <1>0, <2>2
  <2>4. Has(FirstCalls, "unread") /\ \A j \in 1 .. Len(FirstCalls) : FirstCalls[j] = u
    BY <1>1, <2>3 DEF Has
  <2> QED
    BY <1>6, <2>3, <2>4 DEF u
<1> QED
  BY <1>2, <1>4, <1>5, <1>6

\* The steps that handle an answer.
LEMMA HandlerTurns ==
  ASSUME DeskShape, NEW n \in 1 .. Len(calls)
  PROVE  /\ PanelAnswered(n) => Turned({"panel"}, {"unread"})
         /\ UnreadAnswered(n) => Turned({"unread"}, {})
         /\ MarkAllAnswered(n) => Turned({"markAll"}, {"panel"})
         /\ GrowthAnswered(n) => Turned({"growth"}, {})
         /\ DistributionAnswered(n) => Turned({"dist"}, {})
         /\ OverviewAnswered(n) => Turned({"overview"}, {})
         /\ ActivityAnswered(n) => Turned({"activity"}, {})
         /\ AuditLoaded(n) => Turned({"audit"}, {})
         /\ InboxLoaded(n) => Turned({"inbox"}, {})
<1>0. /\ calls \in Seq(AnyCall) /\ n \in 0 .. Len(calls) /\ n # 0
  BY DEF DeskShape
<1>1. ASSUME NEW k, calls[n].kind = k, Turn(n, <<>>)
      PROVE  Turned({k}, {})
  BY <1>0, <1>1, SentNone
<1>2. ASSUME NEW k, calls[n].kind = k, NEW c \in AnyCall, Turn(n, <<c>>)
      PROVE  Turned({k}, {c.kind})
  BY <1>0, <1>2, SentOne
<1>3. PanelAnswered(n) => Turned({"panel"}, {"unread"})
  <2> SUFFICES ASSUME PanelAnswered(n) PROVE Turned({"panel"}, {"unread"})
    OBVIOUS
  <2>1. calls[n].kind = "panel" /\ (Turn(n, <<>>) \/ Turn(n, <<Call("unread", "markAll")>>))
    BY DEF PanelAnswered, Answered, Is
  <2>2. Call("unread", "markAll") \in AnyCall /\ Call("unread", "markAll").kind = "unread"
    BY CallTyped DEF Kind, What
  <2>3. Turn(n, <<>>) => Turned({"panel"}, {"unread"})
    BY <1>1, <2>1, TurnedMore
  <2> QED
    BY <1>2, <2>1, <2>2, <2>3
<1>4. MarkAllAnswered(n) => Turned({"markAll"}, {"panel"})
  <2> SUFFICES ASSUME MarkAllAnswered(n) PROVE Turned({"markAll"}, {"panel"})
    OBVIOUS
  <2>1. calls[n].kind = "markAll" /\ (Turn(n, <<>>) \/ Turn(n, <<Call("panel", "markAll")>>))
    BY DEF MarkAllAnswered, Answered, Is
  <2>2. Call("panel", "markAll") \in AnyCall /\ Call("panel", "markAll").kind = "panel"
    BY CallTyped DEF Kind, What
  <2>3. Turn(n, <<>>) => Turned({"markAll"}, {"panel"})
    BY <1>1, <2>1, TurnedMore
  <2> QED
    BY <1>2, <2>1, <2>2, <2>3
<1>5. UnreadAnswered(n) => Turned({"unread"}, {})
  BY <1>1 DEF UnreadAnswered, Answered, Is
<1>6. GrowthAnswered(n) => Turned({"growth"}, {})
  BY <1>1 DEF GrowthAnswered, Answered, Is
<1>7. DistributionAnswered(n) => Turned({"dist"}, {})
  BY <1>1 DEF DistributionAnswered, Answered, Is
<1>8. OverviewAnswered(n) => Turned({"overview"}, {})
  BY <1>1 DEF OverviewAnswered, Answered, Is
<1>9. ActivityAnswered(n) => Turned({"activity"}, {})
  BY <1>1 DEF ActivityAnswered, Answered, Is
<1>10. AuditLoaded(n) => Turned({"audit"}, {})
  BY <1>1 DEF AuditLoaded, Answered, Is
<1>11. InboxLoaded(n) => Turned({"inbox"}, {})
  BY <1>1 DEF InboxLoaded, Answered, Is
<1> QED
  BY <1>3, <1>4, <1>5, <1>6, <1>7, <1>8, <1>9, <1>10, <1>11

\* The kinds of step, with what each is about.
UserStep ==
  \/ UserChip \/ Bell \/ ClickOutside \/ RetryPanel \/ MarkAll
  \/ ToggleTheme
  \/ PickRange \/ PickType \/ HoverGrowth \/ HoverDistribution
  \/ FilterAudit \/ SortAudit \/ TypeAudit \/ TurnPage \/ AuditTimer
  \/ ReadFilter \/ markRead \/ MarkAllHere
  \/ Arrive \/ ChangeRole

HandlerStep(n) ==
  \/ PanelAnswered(n) \/ UnreadAnswered(n) \/ MarkAllAnswered(n)
  \/ GrowthAnswered(n) \/ DistributionAnswered(n)
  \/ OverviewAnswered(n) \/ ActivityAnswered(n)
  \/ AuditLoaded(n) \/ InboxLoaded(n) \/ Marked(n)

\* Every step opens a document, is one of these, or changes nothing.
LEMMA StepKinds ==
  ASSUME calls \in Seq(AnyCall), [Next]_vars
  PROVE  \/ \E p : NewDocument(p, FirstBody(p))
         \/ UserStep
         \/ \E n \in 1 .. Len(calls) :
              \/ MeAnswered(n, start(page), StartBody(page))
              \/ HandlerStep(n)
              \/ Serve(n) \/ Lose(n)
         \/ UNCHANGED vars
<1>1. DOMAIN calls = 1 .. Len(calls)
  OBVIOUS
<1>2. CASE \E p \in visible(sidebar) : FollowLink(p, FirstBody(p))
  BY <1>2 DEF FollowLink
<1>3. CASE Handlers
  BY <1>1, <1>3 DEF Handlers, Redirected, UserStep, HandlerStep
<1>4. CASE Server \/ Environment
  BY <1>1, <1>4 DEF Server, Environment, UserStep
<1> QED
  BY <1>2, <1>3, <1>4 DEF Next, UserStep

\* The answer about the user.
LEMMA MeTurns ==
  ASSUME DeskShape, NEW n \in 1 .. Len(calls), MeAnswered(n, start(page), StartBody(page))
  PROVE  /\ calls' \in Seq(AnyCall) /\ calls[n].kind = "me"
         /\ \/ gate' = "left" /\ Replaced(calls, n, <<>>, calls') /\ UNCHANGED body
            \/ gate' = "open" /\ Replaced(calls, n, FirstCalls, calls') /\ body' = StartBody(page)
<1>0. calls[n].kind = "me"
  BY Zenon DEF MeAnswered, Answered, Is
<1>1. calls \in Seq(AnyCall) /\ n \in 0 .. Len(calls)
  BY DEF DeskShape
<1>2. <<>> \in Seq(AnyCall) /\ FirstCalls \in Seq(AnyCall)
  <2>1. FirstCalls \in Seq(AnyCall)
    BY FirstCallsAre, Zenon
  <2> QED
    BY <2>1
<1>3. \/ gate' = "left" /\ Turn(n, <<>>) /\ UNCHANGED body
      \/ gate' = "open" /\ Turn(n, FirstCalls) /\ body' = StartBody(page)
  BY DEF MeAnswered, FirstCalls
<1> QED
  BY <1>0, <1>1, <1>2, <1>3, TurnEffect

\* The answer to a write of the inbox.
LEMMA MarkedTurns ==
  ASSUME DeskShape, NEW n \in 1 .. Len(calls), Marked(n)
  PROVE  /\ calls' \in Seq(AnyCall) /\ calls[n].kind \in Writes /\ page = "notifications"
         /\ \/ /\ calls[n].phase = "lost" /\ UNCHANGED body
               /\ Replaced(calls, n, <<>>, calls')
            \/ /\ calls[n].phase # "lost" /\ body' = [body EXCEPT !.list = "loading"]
               /\ Replaced(calls, n, <<Call("inbox", body.filter), Call("unread", "")>>, calls')
<1>0. calls[n].kind \in Writes
  BY DEF Marked, Answered, Is, Writes
<1>1. calls \in Seq(AnyCall) /\ n \in 0 .. Len(calls)
  BY DEF DeskShape
<1>2. page = "notifications"
  BY DEF DeskShape, Marked, Answered, Is, Fits, KindsOf
<1>3. <<>> \in Seq(AnyCall) /\ <<Call("inbox", body.filter), Call("unread", "")>> \in Seq(AnyCall)
  <2>1. body.filter \in What /\ "" \in What /\ "inbox" \in Kind /\ "unread" \in Kind
    BY <1>2 DEF DeskShape, BodyFits, InboxShape, What, Filter, Kind
  <2>2. Call("inbox", body.filter) \in AnyCall /\ Call("unread", "") \in AnyCall
    BY <2>1, CallTyped
  <2>3. ASSUME NEW a \in AnyCall, NEW b \in AnyCall PROVE <<a, b>> \in Seq(AnyCall)
    OBVIOUS
  <2>4. <<>> \in Seq(AnyCall)
    OBVIOUS
  <2> QED
    BY <2>2, <2>3, <2>4
<1>4. \/ calls[n].phase = "lost" /\ Turn(n, <<>>) /\ UNCHANGED body
      \/ /\ calls[n].phase # "lost" /\ body' = [body EXCEPT !.list = "loading"]
         /\ Turn(n, <<Call("inbox", body.filter), Call("unread", "")>>)
  BY DEF Marked
<1> QED
  BY <1>0, <1>1, <1>2, <1>3, <1>4, TurnEffect

\* Serve and Lose give a request another phase, and perhaps something found.
Rephased(n) ==
  /\ calls' \in Seq(AnyCall) /\ Len(calls') = Len(calls)
  /\ \A m \in 1 .. Len(calls) : m # n => calls'[m] = calls[m]
  /\ calls'[n].kind = calls[n].kind /\ calls'[n].what = calls[n].what
  /\ calls'[n].id = calls[n].id /\ calls'[n].up = calls[n].up

\* The server answers a request, and changes the notices only at a write.
LEMMA ServeEffect ==
  ASSUME DeskShape, NEW n \in 1 .. Len(calls), Serve(n)
  PROVE  /\ Rephased(n) /\ calls'[n].phase = "ok" /\ calls'[n].found = Found(calls[n])
         /\ calls[n].kind \in Timed /\ notes' \in Seq(BOOLEAN)
         /\ calls[n].kind \notin Writes => notes' = notes
<1> DEFINE c == [calls[n] EXCEPT !.phase = "ok", !.found = Found(calls[n])]
<1>1. calls \in Seq(AnyCall) /\ calls[n] \in AnyCall /\ notes \in Seq(BOOLEAN)
  BY DEF DeskShape
<1>2. Found(calls[n]) \in Seq(BOOLEAN)
  <2>1. <<>> \in Seq(BOOLEAN)
    OBVIOUS
  <2> QED
    BY <1>1, <2>1 DEF Found
<1>3. /\ c \in AnyCall /\ c.phase = "ok" /\ c.found = Found(calls[n])
      /\ c.kind = calls[n].kind /\ c.what = calls[n].what /\ c.id = calls[n].id /\ c.up = calls[n].up
  BY <1>1, <1>2 DEF AnyCall
<1>4. calls' = [calls EXCEPT ![n] = c]
  BY DEF Serve
<1> HIDE DEF c
<1>5. /\ calls' \in Seq(AnyCall) /\ Len(calls') = Len(calls) /\ calls'[n] = c
      /\ \A m \in 1 .. Len(calls) : m # n => calls'[m] = calls[m]
  BY <1>1, <1>3, <1>4
<1>6. notes' \in Seq(BOOLEAN) /\ (calls[n].kind \notin Writes => notes' = notes)
  <2>1. notes' = AfterCall(calls[n])
    BY DEF Serve
  <2>2. CASE calls[n].kind = "mark"
    <3>1. notes' = [notes EXCEPT ![calls[n].id] = TRUE]
      BY <2>1, <2>2 DEF AfterCall
    <3>2. ASSUME NEW i PROVE [notes EXCEPT ![i] = TRUE] \in Seq(BOOLEAN)
      <4>1. Len(notes) \in Nat /\ DOMAIN notes = 1 .. Len(notes) /\ notes \in [1 .. Len(notes) -> BOOLEAN]
        BY <1>1, LenProperties
      <4>2. [notes EXCEPT ![i] = TRUE] = [x \in 1 .. Len(notes) |-> IF x = i THEN TRUE ELSE notes[x]]
        BY <4>1
      <4>3. CASE i \in 1 .. Len(notes)
        BY <1>1, <4>3, ExceptSeq
      <4>4. CASE i \notin 1 .. Len(notes)
        <5>1. [notes EXCEPT ![i] = TRUE] = [x \in 1 .. Len(notes) |-> notes[x]]
          BY <4>2, <4>4
        <5>2. [notes EXCEPT ![i] = TRUE] = notes
          BY <4>1, <5>1
        <5> QED
          BY <1>1, <5>2
      <4> QED
        BY <4>3, <4>4
    <3> QED
      BY <2>2, <3>1, <3>2 DEF Writes
  <2>3. CASE calls[n].kind = "markAll"
    <3>1. notes' = [i \in 1 .. Len(notes) |-> TRUE]
      BY <1>1, <2>1, <2>3 DEF AfterCall
    <3> QED
      BY <1>1, <2>3, <3>1 DEF Writes
  <2>4. CASE calls[n].kind \notin Writes
    BY <1>1, <2>1, <2>4 DEF AfterCall, Writes
  <2> QED
    BY <2>2, <2>3, <2>4 DEF Writes
<1>7. calls[n].kind \in Timed
  BY DEF Serve
<1> QED
  BY <1>3, <1>5, <1>6, <1>7 DEF Rephased

\* A request that is lost keeps everything but its phase.
LEMMA LoseEffect ==
  ASSUME DeskShape, NEW n \in 1 .. Len(calls), Lose(n)
  PROVE  Rephased(n) /\ calls'[n].phase = "lost"
<1> DEFINE c == [calls[n] EXCEPT !.phase = "lost"]
<1>1. calls \in Seq(AnyCall) /\ calls[n] \in AnyCall
  BY DEF DeskShape
<1>3. /\ c \in AnyCall /\ c.phase = "lost"
      /\ c.kind = calls[n].kind /\ c.what = calls[n].what /\ c.id = calls[n].id /\ c.up = calls[n].up
  BY <1>1 DEF AnyCall
<1>4. calls' = [calls EXCEPT ![n] = c]
  BY DEF Lose
<1> HIDE DEF c
<1>5. /\ calls' \in Seq(AnyCall) /\ Len(calls') = Len(calls) /\ calls'[n] = c
      /\ \A m \in 1 .. Len(calls) : m # n => calls'[m] = calls[m]
  BY <1>1, <1>3, <1>4
<1> QED
  BY <1>3, <1>5 DEF Rephased

\* A request that is given another phase keeps its place among its kind.
LEMMA RephasedKinds ==
  ASSUME NEW n \in 1 .. Len(calls), Rephased(n)
  PROVE  /\ \A k : Has(calls', k) <=> Has(calls, k)
         /\ \A k : Twice(calls', k) <=> Twice(calls, k)
         /\ \A k, m : Latest(calls', k, m) <=> Latest(calls, k, m)
<1>1. /\ Len(calls') = Len(calls)
      /\ \A m \in 1 .. Len(calls) : calls'[m].kind = calls[m].kind
  BY DEF Rephased
<1>2. ASSUME NEW k PROVE Has(calls', k) <=> Has(calls, k)
  BY <1>1 DEF Has
<1>3. ASSUME NEW k PROVE Twice(calls', k) <=> Twice(calls, k)
  BY <1>1 DEF Twice
<1>4. ASSUME NEW k, NEW m PROVE Latest(calls', k, m) <=> Latest(calls, k, m)
  BY <1>1 DEF Latest
<1> QED
  BY <1>2, <1>3, <1>4

-----------------------------------------------------------------------------
(* The shape of the state.                                                 *)

Common == {"me", "unread", "panel", "markAll"}

\* Requests of the right kinds are sent.
LEMMA FitsKept ==
  ASSUME DeskShape, NEW R, NEW A, Turned(R, A), A \subseteq Common \cup KindsOf(page), "markAll" \notin A
  PROVE  calls' \in Seq(AnyCall) /\ \A i \in 1 .. Len(calls') : Fits(calls'[i], page)
<1>1. PICK n \in 0 .. Len(calls), more \in Seq(AnyCall) :
        /\ Replaced(calls, n, more, calls')
        /\ \A j \in 1 .. Len(more) : more[j].kind \in A
  BY DEF Turned
<1>2. calls' \in Seq(AnyCall)
  BY DEF Turned
<1>3. \A j \in 1 .. Len(calls) : Fits(calls[j], page)
  BY DEF DeskShape
<1>4. ASSUME NEW i \in 1 .. Len(calls') PROVE Fits(calls'[i], page)
  <2>1. \/ \E j \in 1 .. Len(calls) : j # n /\ calls'[i] = calls[j]
        \/ \E j \in 1 .. Len(more) : calls'[i] = more[j]
    BY <1>1 DEF Replaced
  <2>2. CASE \E j \in 1 .. Len(calls) : j # n /\ calls'[i] = calls[j]
    BY <1>3, <2>2
  <2>3. CASE \E j \in 1 .. Len(more) : calls'[i] = more[j]
    <3>1. calls'[i].kind \in A
      BY <1>1, <2>3
    <3> QED
      BY <3>1 DEF Fits, Common
  <2> QED
    BY <2>1, <2>2, <2>3
<1> QED
  BY <1>2, <1>4

\* "Mark all read" is sent by the panel, or by the page of the notices.
LEMMA FitsMarkAll ==
  ASSUME DeskShape, MarkAll \/ MarkAllHere
  PROVE  calls' \in Seq(AnyCall) /\ \A i \in 1 .. Len(calls') : Fits(calls'[i], page)
<1>1. PICK w \in {"bell", "page"} : Turn(0, <<Call("markAll", w)>>) /\ (w = "page" => page = "notifications")
  BY DEF MarkAll, MarkAllHere
<1>2. Call("markAll", w) \in AnyCall /\ Fits(Call("markAll", w), page)
  <2>1. /\ Call("markAll", w) \in AnyCall
        /\ Call("markAll", w).kind = "markAll" /\ Call("markAll", w).what = w
    BY CallTyped DEF Kind, What
  <2> QED
    BY <1>1, <2>1 DEF Fits
<1>3. calls' \in Seq(AnyCall) /\ Replaced(calls, 0, <<Call("markAll", w)>>, calls')
  <2>1. 0 \in 0 .. Len(calls)
    BY DEF DeskShape
  <2> QED
    BY <1>1, <1>2, <2>1, SentOne DEF Turned
<1>4. \A j \in 1 .. Len(calls) : Fits(calls[j], page)
  BY DEF DeskShape
<1>5. \A j \in 1 .. Len(<<Call("markAll", w)>>) : Fits(<<Call("markAll", w)>>[j], page)
  BY <1>2
<1> QED
  BY <1>3, <1>4, <1>5, Zenon DEF Replaced

\* A picture has a width and a height.
LEMMA PictureSize ==
  ASSUME NEW size \in ChartSize
  PROVE  Picture(size) \in Nat \X Nat
BY DashboardAssumption DEF DashboardAssumption, Picture, Chart!canvasWidth, Chart!canvasHeight, Chart!AtLeast

\* What the user does keeps the shape.
LEMMA UserShape ==
  ASSUME DeskShape, UserStep
  PROVE  DeskShape'
<1>1. UNCHANGED page
  BY DEF UserStep, frame, Rest, UserChip, Bell, ClickOutside, RetryPanel, MarkAll, ToggleTheme, PickRange,
         PickType, HoverGrowth, HoverDistribution, FilterAudit, SortAudit, TypeAudit, TurnPage, AuditTimer,
         ReadFilter, markRead, MarkAllHere, Arrive, ChangeRole
<1>2. calls' \in Seq(AnyCall) /\ \A i \in 1 .. Len(calls') : Fits(calls'[i], page)
  <2>1. MarkAll \/ MarkAllHere \/ \E A : Turned({}, A) /\ A \subseteq Common \cup KindsOf(page) /\ "markAll" \notin A
    <3>1. CASE \/ UserChip \/ ClickOutside \/ ToggleTheme \/ ChangeRole \/ Arrive
               \/ HoverGrowth \/ HoverDistribution \/ TypeAudit
      BY <3>1, UserTurns
    <3>2. CASE Bell \/ RetryPanel
      BY <3>2, UserTurns DEF Common
    <3>3. CASE PickRange \/ PickType
      <4>1. page = "dashboard"
        BY <3>3 DEF PickRange, PickType, Ready
      <4> QED
        BY <3>3, <4>1, UserTurns DEF KindsOf
    <3>4. CASE FilterAudit \/ SortAudit \/ TurnPage \/ AuditTimer
      <4>1. page = "audit-logs"
        BY <3>4 DEF FilterAudit, SortAudit, TurnPage, AuditTimer, OnAudit
      <4> QED
        BY <3>4, <4>1, UserTurns DEF KindsOf
    <3>5. CASE ReadFilter \/ markRead
      <4>1. page = "notifications"
        BY <3>5 DEF ReadFilter, markRead
      <4> QED
        BY <3>5, <4>1, UserTurns DEF KindsOf
    <3> QED
      BY <3>1, <3>2, <3>3, <3>4, <3>5 DEF UserStep
  <2> QED
    BY <2>1, FitsKept, FitsMarkAll
<1>3. notes' \in Seq(BOOLEAN)
  <2>1. notes' = notes \/ notes' = Append(notes, FALSE)
    BY DEF UserStep, Rest, UserChip, Bell, ClickOutside, RetryPanel, MarkAll, ToggleTheme, PickRange, PickType,
           HoverGrowth, HoverDistribution, FilterAudit, SortAudit, TypeAudit, TurnPage, AuditTimer,
           ReadFilter, markRead, MarkAllHere, Arrive, ChangeRole
  <2> QED
    BY <2>1, AppendProperties DEF DeskShape
<1>4. BodyFits(body', page)
  <2>0. BodyFits(body, page)
    BY DEF DeskShape
  <2>1. CASE UNCHANGED body
    BY <2>0, <2>1
  <2>2. CASE PickRange
    <3>1. page = "dashboard" /\ DashboardShape(body)
      BY <2>0, <2>2 DEF PickRange, Ready, BodyFits
    <3>2. PICK r \in Buttons.growth : body' = [body EXCEPT !.lit.growth = r, !.chart.growth.message = "loading"]
      BY <2>2 DEF PickRange
    <3>3. DashboardShape(body')
      BY <3>1, <3>2 DEF DashboardShape, Panel, Buttons
    <3> QED
      BY <3>1, <3>3 DEF BodyFits
  <2>3. CASE PickType
    <3>1. page = "dashboard" /\ DashboardShape(body)
      BY <2>0, <2>3 DEF PickType, Ready, BodyFits
    <3>2. PICK t \in Buttons.dist : body' = [body EXCEPT !.lit.dist = t, !.chart.dist.message = "loading"]
      BY <2>3 DEF PickType
    <3>3. DashboardShape(body')
      BY <3>1, <3>2 DEF DashboardShape, Panel, Buttons
    <3> QED
      BY <3>1, <3>3 DEF BodyFits
  <2>4. CASE ToggleTheme
    <3>1. CASE page = "dashboard"
      <4>1. DashboardShape(body)
        BY <2>0, <3>1 DEF BodyFits
      <4>2. PICK sizes \in [Panel -> ChartSize] : body' = refreshTheme(body, theme', sizes)
        BY <2>4, <3>1, Zenon DEF ToggleTheme
      <4>3. \A p \in Panel : Picture(sizes[p]) \in Nat \X Nat
        BY PictureSize
      <4>4. DashboardShape(body')
        <5> DEFINE charts == [p \in Panel |->
                     IF body.chart[p].data = "nothing" THEN body.chart[p]
                     ELSE [body.chart[p] EXCEPT !.message = "none", !.theme = theme', !.size = Picture(sizes[p])]]
        <5>1. body' = [body EXCEPT !.chart = charts]
          BY <4>2 DEF refreshTheme
        <5>2. ASSUME NEW p \in Panel
              PROVE  /\ charts[p] = [message |-> charts[p].message, data |-> charts[p].data,
                                     theme |-> charts[p].theme, size |-> charts[p].size]
                     /\ charts[p].size \in Nat \X Nat
          <6> DEFINE z == Picture(sizes[p])
                     c == body.chart[p]
          <6>1. /\ c = [message |-> c.message, data |-> c.data, theme |-> c.theme, size |-> c.size]
                /\ c.size \in Nat \X Nat /\ z \in Nat \X Nat
            BY <4>1, <4>3, Zenon DEF DashboardShape
          <6>2. charts[p] = IF c.data = "nothing" THEN c
                            ELSE [c EXCEPT !.message = "none", !.theme = theme', !.size = z]
            OBVIOUS
          <6> HIDE DEF charts, c, z
          <6> QED
            BY <6>1, <6>2
        <5>3. charts = [p \in Panel |-> charts[p]]
          OBVIOUS
        <5> HIDE DEF charts
        <5> QED
          BY <4>1, <5>1, <5>2, <5>3 DEF DashboardShape
      <4> QED
        BY <3>1, <4>4 DEF BodyFits
    <3>2. CASE page # "dashboard"
      BY <2>1, <2>4, <3>2 DEF ToggleTheme
    <3> QED
      BY <3>1, <3>2
  <2>5. CASE HoverGrowth \/ HoverDistribution
    <3>1. page = "dashboard" /\ DashboardShape(body)
      BY <2>0, <2>5 DEF HoverGrowth, HoverDistribution, Ready, BodyFits
    <3>2. PICK t : body' = [body EXCEPT !.tip = t]
      BY <2>5 DEF HoverGrowth, HoverDistribution
    <3>3. DashboardShape(body')
      BY <3>1, <3>2 DEF DashboardShape
    <3> QED
      BY <3>1, <3>3 DEF BodyFits
  <2>6. CASE FilterAudit \/ SortAudit \/ TypeAudit \/ TurnPage \/ AuditTimer
    <3>1. page = "audit-logs" /\ AuditShape(body)
      BY <2>0, <2>6 DEF FilterAudit, SortAudit, TypeAudit, TurnPage, AuditTimer, OnAudit, BodyFits
    <3> SUFFICES AuditShape(body')
      BY <3>1 DEF BodyFits
    <3>2. ASSUME NEW b, AuditShape(b), NEW p \in Int, loadAudit(b, p) PROVE AuditShape(body')
      BY <3>2 DEF loadAudit, AuditShape
    <3>3. CASE FilterAudit
      <4>1. PICK f \in DOMAIN PagesOf : loadAudit([body EXCEPT !.filter = f], 1)
        BY <3>3 DEF FilterAudit
      <4>2. AuditShape([body EXCEPT !.filter = f])
        BY <3>1 DEF AuditShape
      <4> QED
        BY <3>2, <4>1, <4>2, 1 \in Int
    <3>4. CASE SortAudit
      <4>1. AuditShape([body EXCEPT !.up = ~@])
        BY <3>1 DEF AuditShape
      <4> QED
        BY <3>2, <3>4, <4>1, 1 \in Int DEF SortAudit
    <3>5. CASE TypeAudit
      BY <3>1, <3>5 DEF TypeAudit, AuditShape
    <3>6. CASE TurnPage
      <4>1. body.current - 1 \in Int /\ body.current + 1 \in Int
        BY <3>1 DEF AuditShape
      <4> QED
        BY <3>1, <3>2, <3>6, <4>1 DEF TurnPage
    <3>7. CASE AuditTimer
      <4>1. AuditShape([body EXCEPT !.typed = FALSE])
        BY <3>1, Untyped
      <4> QED
        BY <3>2, <3>7, <4>1, 1 \in Int DEF AuditTimer
    <3> QED
      BY <2>6, <3>3, <3>4, <3>5, <3>6, <3>7
  <2>7. CASE ReadFilter
    <3>1. page = "notifications" /\ body \in InboxShape
      BY <2>0, <2>7 DEF ReadFilter, BodyFits
    <3>2. PICK f \in Filter : body' = [[body EXCEPT !.filter = f] EXCEPT !.list = "loading"]
      BY <2>7 DEF ReadFilter, loadInbox, Filter
    <3>3. body' \in InboxShape
      BY <3>1, <3>2 DEF InboxShape
    <3> QED
      BY <3>1, <3>3 DEF BodyFits
  <2>8. CASE UserChip \/ Bell \/ ClickOutside \/ RetryPanel \/ MarkAll \/ markRead \/ MarkAllHere \/ Arrive \/ ChangeRole
    BY <2>1, <2>8 DEF UserChip, Bell, ClickOutside, RetryPanel, MarkAll, markRead, MarkAllHere, Arrive, ChangeRole
  <2> QED
    BY <2>2, <2>3, <2>4, <2>5, <2>6, <2>7, <2>8 DEF UserStep
<1> QED
  BY <1>1, <1>2, <1>3, <1>4 DEF DeskShape

\* What is done with an answer keeps the shape.
LEMMA HandlerShape ==
  ASSUME DeskShape, NEW n \in 1 .. Len(calls), HandlerStep(n)
  PROVE  DeskShape'
<1>0. /\ calls \in Seq(AnyCall) /\ calls[n] \in AnyCall /\ notes \in Seq(BOOLEAN)
      /\ BodyFits(body, page) /\ Fits(calls[n], page)
  BY DEF DeskShape
<1>1. UNCHANGED <<page, notes>>
  BY DEF HandlerStep, frame, Rest, PanelAnswered, UnreadAnswered, MarkAllAnswered, GrowthAnswered,
         DistributionAnswered, OverviewAnswered, ActivityAnswered, AuditLoaded, InboxLoaded, Marked
<1>2. calls' \in Seq(AnyCall) /\ \A i \in 1 .. Len(calls') : Fits(calls'[i], page)
  <2>1. CASE Marked(n)
    <3> DEFINE a == Call("inbox", body.filter)
               b == Call("unread", "")
    <3>1. /\ page = "notifications" /\ calls' \in Seq(AnyCall)
          /\ Replaced(calls, n, <<>>, calls') \/ Replaced(calls, n, <<a, b>>, calls')
      BY <2>1, MarkedTurns
    <3>2. Fits(a, page) /\ Fits(b, page)
      BY <3>1 DEF Fits, KindsOf, Call
    <3> HIDE DEF a, b
    <3>3. /\ \A j \in 1 .. Len(<<>>) : Fits(<<>>[j], page)
          /\ \A j \in 1 .. Len(<<a, b>>) : Fits(<<a, b>>[j], page)
      BY <3>2
    <3>4. \A j \in 1 .. Len(calls) : Fits(calls[j], page)
      BY DEF DeskShape
    <3>5. ASSUME NEW more, Replaced(calls, n, more, calls'), \A j \in 1 .. Len(more) : Fits(more[j], page)
          PROVE  \A i \in 1 .. Len(calls') : Fits(calls'[i], page)
      BY <3>4, <3>5, Zenon DEF Replaced
    <3> QED
      BY <3>1, <3>3, <3>5, Zenon
  <2>2. CASE ~Marked(n)
    <3>1. \E R, A : Turned(R, A) /\ A \subseteq Common /\ "markAll" \notin A
      <4>1. CASE PanelAnswered(n)
        BY <4>1, HandlerTurns DEF Common
      <4>2. CASE MarkAllAnswered(n)
        BY <4>2, HandlerTurns DEF Common
      <4>3. CASE \/ UnreadAnswered(n) \/ GrowthAnswered(n) \/ DistributionAnswered(n) \/ OverviewAnswered(n)
                 \/ ActivityAnswered(n) \/ AuditLoaded(n) \/ InboxLoaded(n)
        BY <4>3, HandlerTurns
      <4> QED
        BY <2>2, <4>1, <4>2, <4>3 DEF HandlerStep
    <3> QED
      BY <3>1, FitsKept
  <2> QED
    BY <2>1, <2>2
<1>3. BodyFits(body', page)
  <2>1. CASE PanelAnswered(n) \/ UnreadAnswered(n) \/ MarkAllAnswered(n)
    BY <1>0, <2>1 DEF PanelAnswered, UnreadAnswered, MarkAllAnswered
  <2>2. /\ \A w, d, t : \A z \in Nat \X Nat : DashboardShape(body) =>
             /\ DashboardShape([body EXCEPT !.chart.growth = [message |-> w, data |-> d, theme |-> t, size |-> z]])
             /\ DashboardShape([body EXCEPT !.chart.dist = [message |-> w, data |-> d, theme |-> t, size |-> z],
                                            !.breakdown = d])
        /\ \A w : \A p \in Panel : DashboardShape(body) => DashboardShape([body EXCEPT !.chart[p].message = w])
        /\ \A w : DashboardShape(body) => /\ DashboardShape([body EXCEPT !.cards = w])
                                          /\ DashboardShape([body EXCEPT !.feed = w])
    <3> SUFFICES ASSUME DashboardShape(body), NEW w, NEW d, NEW t, NEW z \in Nat \X Nat
                 PROVE  /\ DashboardShape([body EXCEPT !.chart.growth =
                                             [message |-> w, data |-> d, theme |-> t, size |-> z]])
                        /\ DashboardShape([body EXCEPT !.chart.dist =
                                             [message |-> w, data |-> d, theme |-> t, size |-> z],
                                                       !.breakdown = d])
                        /\ DashboardShape([body EXCEPT !.chart["growth"].message = w])
                        /\ DashboardShape([body EXCEPT !.chart["dist"].message = w])
                        /\ DashboardShape([body EXCEPT !.cards = w])
                        /\ DashboardShape([body EXCEPT !.feed = w])
      <4>1. <<0, 0>> \in Nat \X Nat
        OBVIOUS
      <4> QED
        BY <4>1 DEF Panel
    <3>1. DashboardShape([body EXCEPT !.chart.growth = [message |-> w, data |-> d, theme |-> t, size |-> z]])
      BY DEF DashboardShape, Panel
    <3>2. DashboardShape([body EXCEPT !.chart.dist = [message |-> w, data |-> d, theme |-> t, size |-> z],
                                      !.breakdown = d])
      <4> DEFINE b == [body EXCEPT !.chart.dist = [message |-> w, data |-> d, theme |-> t, size |-> z]]
      <4>1. DashboardShape(b)
        BY DEF DashboardShape, Panel
      <4>2. [body EXCEPT !.chart.dist = [message |-> w, data |-> d, theme |-> t, size |-> z], !.breakdown = d]
              = [b EXCEPT !.breakdown = d]
        OBVIOUS
      <4> HIDE DEF b
      <4>3. DashboardShape([b EXCEPT !.breakdown = d])
        BY <4>1 DEF DashboardShape
      <4> QED
        BY <4>2, <4>3
    <3>3. DashboardShape([body EXCEPT !.chart["growth"].message = w])
      BY DEF DashboardShape, Panel
    <3>4. DashboardShape([body EXCEPT !.chart["dist"].message = w])
      BY DEF DashboardShape, Panel
    <3>5. DashboardShape([body EXCEPT !.cards = w]) /\ DashboardShape([body EXCEPT !.feed = w])
      BY DEF DashboardShape
    <3> QED
      BY <3>1, <3>2, <3>3, <3>4, <3>5
  <2>3. CASE GrowthAnswered(n) \/ DistributionAnswered(n) \/ OverviewAnswered(n) \/ ActivityAnswered(n)
    <3>1. page = "dashboard" /\ DashboardShape(body)
      <4>1. calls[n].kind \in {"growth", "dist", "overview", "activity"}
        BY <2>3 DEF GrowthAnswered, DistributionAnswered, OverviewAnswered, ActivityAnswered, Answered, Is
      <4> QED
        BY <1>0, <4>1 DEF Fits, KindsOf, BodyFits
    <3>2. DashboardShape(body')
      <4>1. CASE GrowthAnswered(n)
        <5>1. \/ \E d : \E size \in ChartSize :
                    body' = [body EXCEPT !.chart.growth =
                               [message |-> "none", data |-> d, theme |-> theme, size |-> Picture(size)]]
              \/ body' = [body EXCEPT !.chart["growth"].message = "failed"]
          BY <4>1 DEF GrowthAnswered, renderGrowth, Failed
        <5>2. "growth" \in Panel
          BY DEF Panel
        <5>3. DashboardShape([body EXCEPT !.chart["growth"].message = "failed"])
          BY <2>2, <3>1, <5>2, Zenon
        <5>4. \A d : \A size \in ChartSize :
                DashboardShape([body EXCEPT !.chart.growth =
                                  [message |-> "none", data |-> d, theme |-> theme, size |-> Picture(size)]])
          <6> TAKE d
          <6> TAKE size \in ChartSize
          <6>1. Picture(size) \in Nat \X Nat
            BY PictureSize
          <6> QED
            BY <2>2, <3>1, <6>1, Zenon
        <5> QED
          <6>1. CASE body' = [body EXCEPT !.chart["growth"].message = "failed"]
            BY <5>3, <6>1
          <6>2. CASE \E d : \E size \in ChartSize :
                       body' = [body EXCEPT !.chart.growth =
                                  [message |-> "none", data |-> d, theme |-> theme, size |-> Picture(size)]]
            <7>1. PICK d : \E size \in ChartSize :
                    body' = [body EXCEPT !.chart.growth =
                               [message |-> "none", data |-> d, theme |-> theme, size |-> Picture(size)]]
              BY <6>2, Zenon
            <7>2. \A size \in ChartSize :
                    DashboardShape([body EXCEPT !.chart.growth =
                                              [message |-> "none", data |-> d, theme |-> theme,
                                               size |-> Picture(size)]])
              BY <5>4
            <7> QED
              BY <7>1, <7>2
          <6> QED
            BY <5>1, <6>1, <6>2
      <4>2. CASE DistributionAnswered(n)
        <5>1. \/ \E d : \E size \in ChartSize :
                    body' = [body EXCEPT !.chart.dist =
                               [message |-> "none", data |-> d, theme |-> theme, size |-> Picture(size)],
                                         !.breakdown = d]
              \/ body' = [body EXCEPT !.chart["dist"].message = "failed"]
          BY <4>2 DEF DistributionAnswered, renderDistribution, Failed
        <5>2. "dist" \in Panel
          BY DEF Panel
        <5>3. DashboardShape([body EXCEPT !.chart["dist"].message = "failed"])
          BY <2>2, <3>1, <5>2, Zenon
        <5>4. \A d : \A size \in ChartSize :
                DashboardShape([body EXCEPT !.chart.dist =
                                  [message |-> "none", data |-> d, theme |-> theme, size |-> Picture(size)],
                                            !.breakdown = d])
          BY <2>2, <3>1, PictureSize, Zenon
        <5> QED
          BY <5>1, <5>3, <5>4, Zenon
      <4>3. CASE OverviewAnswered(n)
        BY <2>2, <3>1, <4>3 DEF OverviewAnswered
      <4>4. CASE ActivityAnswered(n)
        BY <2>2, <3>1, <4>4 DEF ActivityAnswered
      <4> QED
        BY <2>3, <4>1, <4>2, <4>3, <4>4
    <3> QED
      BY <3>1, <3>2 DEF BodyFits
  <2>4. CASE AuditLoaded(n)
    <3>1. page = "audit-logs" /\ AuditShape(body)
      <4>1. calls[n].kind = "audit"
        BY <2>4 DEF AuditLoaded, Answered, Is
      <4> QED
        BY <1>0, <4>1 DEF Fits, KindsOf, BodyFits
    <3>2. calls[n].id \in Int /\ calls[n].what \in What /\ calls[n].up \in BOOLEAN
      BY <1>0 DEF AnyCall
    <3>3. Query(calls[n]) \in [page : Int, filter : What, up : BOOLEAN]
      BY <3>2 DEF Query
    <3>4. \/ \E e, l : body' = [body EXCEPT !.table = "rows", !.rows = Query(calls[n]), !.previous = e, !.next = l]
          \/ body' = [body EXCEPT !.table = "failed"]
      BY <2>4 DEF AuditLoaded
    <3>5. AuditShape(body')
      BY <3>1, <3>3, <3>4 DEF AuditShape
    <3> QED
      BY <3>1, <3>5 DEF BodyFits
  <2>5. CASE InboxLoaded(n)
    <3>1. page = "notifications" /\ body \in InboxShape
      <4>1. calls[n].kind = "inbox"
        BY <2>5 DEF InboxLoaded, Answered, Is
      <4> QED
        BY <1>0, <4>1 DEF Fits, KindsOf, BodyFits
    <3>2. DOMAIN calls[n].found \subseteq Nat
      BY <1>0 DEF AnyCall
    <3>3. PICK s \in SUBSET Nat, u \in SUBSET Nat :
            \/ body' = [body EXCEPT !.list = "rows", !.shown = s, !.unread = u]
            \/ body' = [body EXCEPT !.list = "failed"]
      <4> DEFINE s == Listed(calls[n].what, calls[n].found)
                 u == {i \in s : ~calls[n].found[i]}
      <4>1. s \in SUBSET Nat /\ u \in SUBSET Nat
        BY <3>2 DEF Selected, Listed
      <4>2. \/ body' = [body EXCEPT !.list = "rows", !.shown = s, !.unread = u]
            \/ body' = [body EXCEPT !.list = "failed"]
        BY <2>5 DEF InboxLoaded
      <4> QED
        BY <4>1, <4>2
    <3>4. body' \in InboxShape
      BY <3>1, <3>3 DEF InboxShape
    <3> QED
      BY <3>1, <3>4 DEF BodyFits
  <2>6. CASE Marked(n)
    <3>1. page = "notifications" /\ (UNCHANGED body \/ body' = [body EXCEPT !.list = "loading"])
      BY <2>6, MarkedTurns
    <3>2. body \in InboxShape
      BY <1>0, <3>1 DEF BodyFits
    <3>3. body' \in InboxShape
      BY <3>1, <3>2 DEF InboxShape
    <3> QED
      BY <3>1, <3>3 DEF BodyFits
  <2> QED
    BY <2>1, <2>3, <2>4, <2>5, <2>6 DEF HandlerStep
<1> QED
  BY <1>0, <1>1, <1>2, <1>3 DEF DeskShape

\* No page, and the first.
LEMMA PageNumbers == 0 \in Int /\ 1 \in Int
OBVIOUS

\* No picture is smaller than this.
LEMMA LeastPicture == <<320, 220>> \in Nat \X Nat
OBVIOUS

\* The first body of the dashboard has its shape.
LEMMA FirstDashboard == DashboardShape(DashboardBody)
<1> DEFINE z == <<320, 220>>
<1>1. z \in Nat \X Nat
  BY LeastPicture
<1> DEFINE b == DashboardBody
<1>2. /\ b.lit = [growth |-> "30d", dist |-> "projects"] /\ b.chart = [p \in Panel |-> Blank]
      /\ b = [lit |-> b.lit, chart |-> b.chart, breakdown |-> b.breakdown, tip |-> b.tip,
              cards |-> b.cards, feed |-> b.feed]
  BY DEF DashboardBody
<1>3. Blank = [message |-> "none", data |-> "nothing", theme |-> "none", size |-> z]
  BY DEF Blank
<1> HIDE DEF b, z
<1>4. \A p \in Panel : b.chart[p] = Blank
  BY <1>2
<1>5. /\ Blank = [message |-> Blank.message, data |-> Blank.data, theme |-> Blank.theme, size |-> Blank.size]
      /\ Blank.size \in Nat \X Nat
  BY <1>1, <1>3
<1>6. \A p \in Panel :
        /\ b.chart[p] = [message |-> b.chart[p].message, data |-> b.chart[p].data,
                         theme |-> b.chart[p].theme, size |-> b.chart[p].size]
        /\ b.chart[p].size \in Nat \X Nat
  BY <1>4, <1>5, Zenon
<1>7. b.chart = [p \in Panel |-> b.chart[p]] /\ b.lit \in [growth : Buttons.growth, dist : Buttons.dist]
  <2>1. b.chart = [p \in Panel |-> b.chart[p]]
    BY <1>2, <1>4, Zenon
  <2>2. b.lit \in [growth : Buttons.growth, dist : Buttons.dist]
    BY DEF b, DashboardBody, Buttons
  <2> QED
    BY <2>1, <2>2
<1>8. DashboardShape(b)
  BY <1>2, <1>6, <1>7, Zenon DEF DashboardShape
<1> QED
  BY <1>8 DEF b

\* A page begins with a body of its shape; the list of the Admin can be unfiltered.
LEMMA FirstBodyFits ==
  ASSUME NEW p, "" \in DOMAIN PagesOf
  PROVE  BodyFits(FirstBody(p), p)
<1>1. CASE p = "dashboard"
  <2>1. DashboardShape(DashboardBody)
    BY FirstDashboard
  <2> QED
    BY <1>1, <2>1 DEF BodyFits, FirstBody
<1>2. CASE p = "audit-logs"
  <2>1. AuditShape(AuditBody)
    <3>1. "" \in What
      BY DEF What, Filter
    <3>3. 0 \in Int /\ 1 \in Int
      BY PageNumbers
    <3>4. FALSE \in BOOLEAN
      OBVIOUS
    <3>2. ASSUME NEW no \in BOOLEAN, NEW w \in What, NEW i \in Int, NEW one \in Int, NEW f \in DOMAIN PagesOf
          PROVE  AuditShape([table |-> "empty", filter |-> f, up |-> no, typed |-> no, current |-> one,
                             rows |-> [page |-> i, filter |-> w, up |-> no], previous |-> no, next |-> no])
      BY DEF AuditShape
    <3> QED
      BY <3>1, <3>2, <3>3, <3>4, Zenon DEF AuditBody
  <2> QED
    BY <1>2, <2>1 DEF BodyFits, FirstBody
<1>3. CASE p = "notifications"
  <2>1. InboxBody \in InboxShape
    BY DEF InboxBody, InboxShape, Filter
  <2> QED
    BY <1>3, <2>1 DEF BodyFits, FirstBody
<1> QED
  BY <1>1, <1>2, <1>3 DEF BodyFits

\* A new document asks for the user, or is left at once.
LEMMA DocumentEffect ==
  ASSUME NEW p, NewDocument(p, FirstBody(p))
  PROVE  /\ page' = p /\ missed' = {} /\ dot' = FALSE /\ body' = FirstBody(p)
         /\ UNCHANGED <<cached, theme, notes>> /\ calls' \in Seq(AnyCall)
         /\ \/ gate' = "left" /\ Len(calls') = 0
            \/ /\ gate' = "asking" /\ ~isBlocked(p, cached)
               /\ Len(calls') = 1 /\ calls'[1].kind = "me"
<1> DEFINE c == Call("me", "")
<1>1. c \in AnyCall /\ c.kind = "me"
  <2>1. "me" \in Kind /\ "" \in What
    BY DEF Kind, What, Filter
  <2> QED
    BY <2>1, CallTyped
<1>2. \/ gate' = "left" /\ calls' = <<>>
      \/ gate' = "asking" /\ ~isBlocked(p, cached) /\ calls' = <<c>>
  BY Zenon DEF NewDocument
<1> HIDE DEF c
<1>3. /\ page' = p /\ missed' = {} /\ dot' = FALSE /\ body' = FirstBody(p)
      /\ UNCHANGED <<cached, theme, notes>>
  BY Zenon DEF NewDocument, renderTopbar, user
<1>4. ASSUME calls' = <<>> PROVE calls' \in Seq(AnyCall) /\ Len(calls') = 0
  BY <1>4
<1>5. ASSUME calls' = <<c>> PROVE calls' \in Seq(AnyCall) /\ Len(calls') = 1 /\ calls'[1].kind = "me"
  BY <1>1, <1>5
<1> QED
  BY <1>2, <1>3, <1>4, <1>5

\* A new document has the shape, whatever the page.
LEMMA DocumentShape ==
  ASSUME DeskShape, NEW p, NewDocument(p, FirstBody(p))
  PROVE  DeskShape'
<1>1. /\ page' = p /\ body' = FirstBody(p) /\ notes' = notes /\ calls' \in Seq(AnyCall)
      /\ \/ Len(calls') = 0
         \/ Len(calls') = 1 /\ calls'[1].kind = "me"
  BY DocumentEffect
<1>2. BodyFits(body', page')
  BY <1>1, AuditAssumption, FirstBodyFits DEF AuditAssumption
<1>3. notes' \in Seq(BOOLEAN)
  BY <1>1 DEF DeskShape
<1>4. \A i \in 1 .. Len(calls') : Fits(calls'[i], page')
  BY <1>1 DEF Fits
<1> QED
  BY <1>1, <1>2, <1>3, <1>4 DEF DeskShape

\* The kinds of the first requests.
LEMMA FirstKinds ==
  ASSUME DeskShape, NEW j \in 1 .. Len(FirstCalls)
  PROVE  \/ FirstCalls[j].kind = "unread"
         \/ page = "dashboard" /\ FirstCalls[j].kind \in {"overview", "growth", "dist", "activity"}
         \/ page = "audit-logs" /\ FirstCalls[j].kind = "audit"
         \/ page = "notifications" /\ FirstCalls[j].kind = "inbox"
<1> DEFINE c == FirstCalls[j]
<1>1. Ask(body, UserObject).kind = "audit"
  BY DEF Ask, Call
<1>2. /\ Call("unread", "").kind = "unread" /\ Call("overview", "").kind = "overview"
      /\ Call("activity", "").kind = "activity" /\ Call("inbox", body.filter).kind = "inbox"
      /\ Call("growth", body.lit.growth).kind = "growth" /\ Call("dist", body.lit.dist).kind = "dist"
  BY DEF Call
<1>3. \/ c = Call("unread", "")
      \/ /\ page = "dashboard"
         /\ \/ c = Call("overview", "") \/ c = Call("activity", "")
            \/ c = Call("growth", body.lit.growth) \/ c = Call("dist", body.lit.dist)
      \/ page = "audit-logs" /\ c = Ask(body, UserObject)
      \/ page = "notifications" /\ c = Call("inbox", body.filter)
  BY FirstCallsAre, Zenon
<1> HIDE DEF c
<1>4. \/ c.kind = "unread"
      \/ page = "dashboard" /\ c.kind \in {"overview", "growth", "dist", "activity"}
      \/ page = "audit-logs" /\ c.kind = "audit"
      \/ page = "notifications" /\ c.kind = "inbox"
  BY <1>1, <1>2, <1>3
<1> QED
  BY <1>4 DEF c

\* The answer about the user keeps the shape, and so do the page's first requests.
LEMMA MeShape ==
  ASSUME DeskShape, NEW n \in 1 .. Len(calls), MeAnswered(n, start(page), StartBody(page))
  PROVE  DeskShape'
<1>0. notes \in Seq(BOOLEAN) /\ BodyFits(body, page) /\ \A j \in 1 .. Len(calls) : Fits(calls[j], page)
  BY DEF DeskShape
<1>1. /\ calls' \in Seq(AnyCall)
      /\ \/ Replaced(calls, n, <<>>, calls') /\ UNCHANGED body
         \/ Replaced(calls, n, FirstCalls, calls') /\ body' = StartBody(page)
  BY MeTurns
<1>2. UNCHANGED <<page, notes>>
  BY Zenon DEF MeAnswered
<1>3. \A j \in 1 .. Len(FirstCalls) : Fits(FirstCalls[j], page)
  <2> TAKE j \in 1 .. Len(FirstCalls)
  <2> QED
    BY FirstKinds DEF Fits, KindsOf
<1>4. \A i \in 1 .. Len(calls') : Fits(calls'[i], page)
  <2>1. ASSUME NEW more, Replaced(calls, n, more, calls'), \A j \in 1 .. Len(more) : Fits(more[j], page)
        PROVE  \A i \in 1 .. Len(calls') : Fits(calls'[i], page)
    BY <1>0, <2>1, Zenon DEF Replaced
  <2>2. \A j \in 1 .. Len(<<>>) : Fits(<<>>[j], page)
    OBVIOUS
  <2> QED
    BY <1>1, <1>3, <2>1, <2>2, Zenon
<1>5. BodyFits(StartBody(page), page)
  <2>1. CASE page = "dashboard"
    <3>1. DashboardShape(DashboardStart(body))
      <4> DEFINE first == [p \in Panel |-> [Blank EXCEPT !.message = "loading"]]
      <4>1. /\ first = [p \in Panel |-> first[p]]
            /\ \A p \in Panel : first[p] = [message |-> first[p].message, data |-> first[p].data,
                                            theme |-> first[p].theme, size |-> first[p].size]
            /\ \A p \in Panel : first[p].size \in Nat \X Nat
        BY DEF Blank
      <4>2. DashboardStart(body) = [body EXCEPT !.cards = "loading", !.feed = "loading", !.chart = first]
        BY DEF DashboardStart
      <4> HIDE DEF first
      <4> QED
        BY <1>0, <2>1, <4>1, <4>2 DEF BodyFits, DashboardShape
    <3> QED
      BY <2>1, <3>1 DEF BodyFits, StartBody
  <2>2. CASE page = "audit-logs"
    <3>1. AuditShape(AuditStart(body))
      <4>1. UserObject \in Int
        BY DEF UserObject
      <4>3. AuditShape(body)
        BY <1>0, <2>2, Zenon DEF BodyFits
      <4> QED
        BY <4>1, <4>3, Asking DEF AuditStart
    <3> QED
      BY <2>2, <3>1 DEF BodyFits, StartBody
  <2>3. CASE page = "notifications"
    <3>1. [body EXCEPT !.list = "loading"] \in InboxShape
      BY <1>0, <2>3 DEF BodyFits, InboxShape
    <3> QED
      BY <2>3, <3>1 DEF BodyFits, StartBody
  <2> QED
    BY <2>1, <2>2, <2>3 DEF BodyFits
<1>6. BodyFits(body', page)
  BY <1>0, <1>1, <1>5
<1> QED
  BY <1>0, <1>1, <1>2, <1>4, <1>6 DEF DeskShape

\* The server, and a loss, keep the shape.
LEMMA ServedShape ==
  ASSUME DeskShape, NEW n \in 1 .. Len(calls), Serve(n) \/ Lose(n)
  PROVE  DeskShape'
<1>1. Rephased(n) /\ notes' \in Seq(BOOLEAN) /\ UNCHANGED <<page, body>>
  <2>1. CASE Serve(n)
    <3>1. UNCHANGED <<page, body>>
      BY <2>1 DEF Serve, frame
    <3> QED
      BY <2>1, <3>1, ServeEffect
  <2>2. CASE Lose(n)
    <3>1. UNCHANGED <<page, body, notes>>
      BY <2>2 DEF Lose, frame
    <3> QED
      BY <2>2, <3>1, LoseEffect DEF DeskShape
  <2> QED
    BY <2>1, <2>2
<1>2. \A i \in 1 .. Len(calls') : Fits(calls'[i], page)
  BY <1>1 DEF DeskShape, Rephased, Fits
<1> QED
  BY <1>1, <1>2 DEF DeskShape, Rephased

\* A new tab has the shape.
LEMMA ShapeInit == Init => DeskShape
<1> SUFFICES ASSUME Init PROVE DeskShape
  OBVIOUS
<1> DEFINE c == Call("me", "")
<1>1. c \in AnyCall /\ c.kind = "me"
  <2>1. "me" \in Kind /\ "" \in What
    BY DEF Kind, What, Filter
  <2> QED
    BY <2>1, CallTyped
<1>2. (calls = <<>> \/ calls = <<c>>) /\ notes = <<FALSE>> /\ body = FirstBody(page)
  BY DEF Init
<1> HIDE DEF c
<1>3. calls \in Seq(AnyCall) /\ \A i \in 1 .. Len(calls) : calls[i].kind = "me"
  <2>1. ASSUME calls = <<>> PROVE calls \in Seq(AnyCall) /\ \A i \in 1 .. Len(calls) : calls[i].kind = "me"
    BY <2>1
  <2>2. ASSUME calls = <<c>> PROVE calls \in Seq(AnyCall) /\ \A i \in 1 .. Len(calls) : calls[i].kind = "me"
    BY <1>1, <2>2
  <2> QED
    BY <1>2, <2>1, <2>2
<1>4. notes \in Seq(BOOLEAN)
  BY <1>2
<1>5. BodyFits(body, page)
  BY <1>2, AuditAssumption, FirstBodyFits DEF AuditAssumption
<1> QED
  BY <1>3, <1>4, <1>5 DEF DeskShape, Fits

\* Every step keeps the shape.
LEMMA ShapeStep == DeskShape /\ [Next]_vars => DeskShape'
<1> SUFFICES ASSUME DeskShape, [Next]_vars PROVE DeskShape'
  OBVIOUS
<1>1. CASE UNCHANGED vars
  BY <1>1 DEF vars, frame, DeskShape
<1>2. calls \in Seq(AnyCall)
  BY DEF DeskShape
<1> QED
  BY <1>1, <1>2, StepKinds, DocumentShape, UserShape, MeShape, HandlerShape, ServedShape, Zenon

\* Requests, notices and bodies have their types, and a page has only requests of
\* its own kinds under way: a document takes its requests with it (Layout.init of
\* layout.js and the scripts of the pages).
THEOREM DeskKeepsShape == Spec => []DeskShape
BY ShapeInit, ShapeStep, PTL DEF Spec

-----------------------------------------------------------------------------
(* What a step does to the requests of one kind.                           *)

\* If no request of a kind is sent or handled, its last one stays the last.
LEMMA KindKept ==
  ASSUME NEW R, NEW A, Turned(R, A), NEW k, k \notin R, k \notin A
  PROVE  /\ \A i : Latest(calls', k, i) => \E j \in 1 .. Len(calls) : Latest(calls, k, j) /\ calls'[i] = calls[j]
         /\ Has(calls', k) <=> Has(calls, k)
         /\ Twice(calls', k) => Twice(calls, k)
         /\ \A i \in 1 .. Len(calls') : calls'[i].kind = k => \E j \in 1 .. Len(calls) : calls'[i] = calls[j]
         /\ \A j \in 1 .. Len(calls) : calls[j].kind = k => \E i \in 1 .. Len(calls') : calls'[i] = calls[j]
<1>1. PICK n \in 0 .. Len(calls), more \in Seq(AnyCall) :
        /\ Replaced(calls, n, more, calls')
        /\ n # 0 => calls[n].kind \in R
        /\ \A j \in 1 .. Len(more) : more[j].kind \in A
  BY Zenon DEF Turned
<1>2. ~Has(more, k) /\ \A j : ~Latest(more, k, j)
  BY <1>1, Zenon DEF Has, Latest
<1>3. \A j \in 1 .. Len(calls) : calls[j].kind = k => j # n
  <2> TAKE j \in 1 .. Len(calls)
  <2> HAVE calls[j].kind = k
  <2>1. j # 0
    OBVIOUS
  <2> QED
    BY <1>1, <2>1, Zenon
<1>4. \A i : Latest(calls', k, i) => \E j \in 1 .. Len(calls) : Latest(calls, k, j) /\ calls'[i] = calls[j]
  <2> TAKE i
  <2> HAVE Latest(calls', k, i)
  <2>1. PICK j \in 1 .. Len(calls) :
          /\ calls'[i] = calls[j]
          /\ Latest(calls, k, j) \/ (n # 0 /\ j < n /\ calls[n].kind = k)
    BY <1>1, <1>2, Zenon DEF Replaced
  <2>2. ~(n # 0 /\ calls[n].kind = k)
    BY <1>1, Zenon
  <2> QED
    BY <2>1, <2>2, Zenon
<1>5. \A i \in 1 .. Len(calls') : calls'[i].kind = k => \E j \in 1 .. Len(calls) : calls'[i] = calls[j]
  <2> TAKE i \in 1 .. Len(calls')
  <2> HAVE calls'[i].kind = k
  <2>1. \/ \E j \in 1 .. Len(calls) : j # n /\ calls'[i] = calls[j]
        \/ \E j \in 1 .. Len(more) : calls'[i] = more[j]
    BY <1>1, Zenon DEF Replaced
  <2> QED
    BY <1>2, <2>1, Zenon DEF Has
<1>6. \A j \in 1 .. Len(calls) : calls[j].kind = k => \E i \in 1 .. Len(calls') : calls'[i] = calls[j]
  BY <1>1, <1>3, Zenon DEF Replaced
<1>7. Has(calls', k) <=> Has(calls, k)
  BY <1>5, <1>6, Zenon DEF Has
<1>8. Twice(calls', k) => Twice(calls, k)
  BY <1>1, <1>2, Zenon DEF Replaced
<1> QED
  BY <1>4, <1>5, <1>6, <1>7, <1>8

\* A request that is sent is the last of its kind.
LEMMA LastSent ==
  ASSUME NEW n, NEW more, NEW k, Has(more, k), Replaced(calls, n, more, calls')
  PROVE  /\ Has(calls', k)
         /\ \A i : Latest(calls', k, i) => \E j \in 1 .. Len(more) : more[j].kind = k /\ calls'[i] = more[j]
<1>1. PICK j \in 1 .. Len(more) : more[j].kind = k
  BY DEF Has
<1>2. PICK i \in 1 .. Len(calls') : calls'[i] = more[j]
  BY Zenon DEF Replaced
<1>3. Has(calls', k)
  BY <1>1, <1>2, Zenon DEF Has
<1>4. \A h : Latest(calls', k, h) => \E l : Latest(more, k, l) /\ calls'[h] = more[l]
  BY Zenon DEF Replaced
<1> QED
  BY <1>3, <1>4, Zenon DEF Latest

\* One request sent, in particular.
LEMMA LastSentOne ==
  ASSUME NEW n, NEW c, NEW k, c.kind = k, Replaced(calls, n, <<c>>, calls')
  PROVE  Has(calls', k) /\ \A i : Latest(calls', k, i) => calls'[i] = c
<1>1. Len(<<c>>) = 1 /\ <<c>>[1] = c
  OBVIOUS
<1>2. Has(<<c>>, k)
  BY <1>1 DEF Has
<1>3. \A j \in 1 .. Len(<<c>>) : <<c>>[j] = c
  BY <1>1
<1> DEFINE more == <<c>>
<1> HIDE DEF more
<1>4. Replaced(calls, n, more, calls') /\ Has(more, k) /\ \A j \in 1 .. Len(more) : more[j] = c
  BY <1>2, <1>3, Zenon DEF more
<1>5. /\ Has(calls', k)
      /\ \A i : Latest(calls', k, i) => \E j \in 1 .. Len(more) : more[j].kind = k /\ calls'[i] = more[j]
  BY <1>4, LastSent
<1> QED
  BY <1>4, <1>5, Zenon

\* An answer that overtakes none of its kind leaves the last one the last, unless
\* it is the last itself.
LEMMA LastHandled ==
  ASSUME DeskShape, NEW n \in 1 .. Len(calls), NEW k, calls[n].kind = k, Replaced(calls, n, <<>>, calls'),
         NEW part, part \notin Overtaking(n, part)
  PROVE  /\ \A i : Latest(calls', k, i) => \E j \in 1 .. Len(calls) : Latest(calls, k, j) /\ calls'[i] = calls[j]
         /\ ~Has(calls', k) => Latest(calls, k, n)
<1>0. Len(calls) \in Nat /\ n \in Nat /\ n # 0
  BY DEF DeskShape
<1>1. \A m \in 1 .. n - 1 : calls[m].kind # k
  BY DEF Overtaking
<1>2. \A j : ~Latest(<<>>, k, j)
  BY DEF Latest
<1>3. ASSUME NEW i, Latest(calls', k, i)
      PROVE  \E j \in 1 .. Len(calls) : Latest(calls, k, j) /\ calls'[i] = calls[j]
  <2>1. PICK j \in 1 .. Len(calls) :
          /\ calls'[i] = calls[j] /\ calls[j].kind = k
          /\ Latest(calls, k, j) \/ j < n
    BY <1>2, <1>3, Zenon DEF Replaced
  <2>2. ~(j < n)
    <3> SUFFICES ASSUME j < n PROVE FALSE
      OBVIOUS
    <3>1. j \in 1 .. n - 1
      BY <1>0
    <3> QED
      BY <1>1, <2>1, <3>1
  <2> QED
    BY <2>1, <2>2
<1>4. ASSUME ~Has(calls', k) PROVE Latest(calls, k, n)
  <2>1. ASSUME NEW j \in 1 .. Len(calls), j # n PROVE calls[j].kind # k
    <3>1. PICK i \in 1 .. Len(calls') : calls'[i] = calls[j]
      BY <2>1, Zenon DEF Replaced
    <3> QED
      BY <1>4, <3>1, Zenon DEF Has
  <2> QED
    BY <1>0, <2>1 DEF Latest
<1> QED
  BY <1>3, <1>4

\* Which steps send, or handle, which requests.
AsksAudit == FilterAudit \/ SortAudit \/ TurnPage \/ AuditTimer

\* A step of the user sends a request of a kind only in these handlers.
LEMMA UserSends ==
  ASSUME DeskShape, UserStep
  PROVE  \E A :
           /\ Turned({}, A) /\ "me" \notin A /\ "unread" \notin A
           /\ "inbox" \in A => ReadFilter
           /\ "audit" \in A => AsksAudit
           /\ "growth" \in A => PickRange
           /\ "dist" \in A => PickType
           /\ (\E k \in Writes : k \in A) => MarkAll \/ MarkAllHere \/ markRead
<1>1. CASE \/ UserChip \/ ClickOutside \/ ToggleTheme \/ ChangeRole \/ Arrive
           \/ HoverGrowth \/ HoverDistribution \/ TypeAudit
  <2>1. Turned({}, {})
    BY <1>1, UserTurns, Zenon
  <2> QED
    BY <2>1
<1>2. CASE Bell \/ RetryPanel
  <2>1. Turned({}, {"panel"})
    BY <1>2, UserTurns, Zenon
  <2> QED
    BY <2>1 DEF Writes
<1>3. CASE MarkAll \/ MarkAllHere
  <2>1. Turned({}, {"markAll"})
    BY <1>3, UserTurns, Zenon
  <2> QED
    BY <1>3, <2>1 DEF Writes
<1>4. CASE PickRange
  <2>1. Turned({}, {"growth"})
    BY <1>4, UserTurns, Zenon
  <2> QED
    BY <1>4, <2>1 DEF Writes
<1>5. CASE PickType
  <2>1. Turned({}, {"dist"})
    BY <1>5, UserTurns, Zenon
  <2> QED
    BY <1>5, <2>1 DEF Writes
<1>6. CASE AsksAudit
  <2>1. Turned({}, {"audit"})
    BY <1>6, UserTurns, Zenon DEF AsksAudit
  <2> QED
    BY <1>6, <2>1 DEF Writes
<1>7. CASE ReadFilter
  <2>1. Turned({}, {"inbox"})
    BY <1>7, UserTurns, Zenon
  <2> QED
    BY <1>7, <2>1 DEF Writes
<1>8. CASE markRead
  <2>1. Turned({}, {"mark"})
    BY <1>8, UserTurns, Zenon
  <2> QED
    BY <1>8, <2>1 DEF Writes
<1> QED
  BY <1>1, <1>2, <1>3, <1>4, <1>5, <1>6, <1>7, <1>8, Zenon DEF UserStep, AsksAudit

\* The same of the continuations, with what they handle.
LEMMA HandlerSends ==
  ASSUME DeskShape, NEW n \in 1 .. Len(calls), HandlerStep(n)
  PROVE  \E R, A :
           /\ Turned(R, A) /\ "me" \notin R /\ "me" \notin A
           /\ "unread" \in R => UnreadAnswered(n)
           /\ "unread" \in A => PanelAnswered(n) \/ Marked(n)
           /\ "panel" \in R => PanelAnswered(n)
           /\ "inbox" \in R => InboxLoaded(n)
           /\ "inbox" \in A => Marked(n)
           /\ "audit" \in R => AuditLoaded(n)
           /\ "growth" \in R => GrowthAnswered(n)
           /\ "dist" \in R => DistributionAnswered(n)
           /\ "audit" \notin A /\ "growth" \notin A /\ "dist" \notin A
           /\ (\E k \in Writes : k \in R) => MarkAllAnswered(n) \/ Marked(n)
           /\ \A k \in Writes : k \notin A
<1>1. CASE PanelAnswered(n)
  <2>1. Turned({"panel"}, {"unread"})
    BY <1>1, HandlerTurns, Zenon
  <2> QED
    BY <1>1, <2>1 DEF Writes
<1>2. CASE UnreadAnswered(n)
  <2>1. Turned({"unread"}, {})
    BY <1>2, HandlerTurns, Zenon
  <2> QED
    BY <1>2, <2>1 DEF Writes
<1>3. CASE MarkAllAnswered(n)
  <2>1. Turned({"markAll"}, {"panel"})
    BY <1>3, HandlerTurns, Zenon
  <2> QED
    BY <1>3, <2>1 DEF Writes
<1>4. CASE GrowthAnswered(n)
  <2>1. Turned({"growth"}, {})
    BY <1>4, HandlerTurns, Zenon
  <2> QED
    BY <1>4, <2>1 DEF Writes
<1>5. CASE DistributionAnswered(n)
  <2>1. Turned({"dist"}, {})
    BY <1>5, HandlerTurns, Zenon
  <2> QED
    BY <1>5, <2>1 DEF Writes
<1>6. CASE OverviewAnswered(n)
  <2>1. Turned({"overview"}, {})
    BY <1>6, HandlerTurns, Zenon
  <2> QED
    BY <2>1 DEF Writes
<1>7. CASE ActivityAnswered(n)
  <2>1. Turned({"activity"}, {})
    BY <1>7, HandlerTurns, Zenon
  <2> QED
    BY <2>1 DEF Writes
<1>8. CASE AuditLoaded(n)
  <2>1. Turned({"audit"}, {})
    BY <1>8, HandlerTurns, Zenon
  <2> QED
    BY <1>8, <2>1 DEF Writes
<1>9. CASE InboxLoaded(n)
  <2>1. Turned({"inbox"}, {})
    BY <1>9, HandlerTurns, Zenon
  <2> QED
    BY <1>9, <2>1 DEF Writes
<1>10. CASE Marked(n)
  <2>1. Turned(Writes, {"inbox", "unread"})
    <3> DEFINE a == Call("inbox", body.filter)
               b == Call("unread", "")
    <3>1. /\ calls' \in Seq(AnyCall) /\ calls[n].kind \in Writes /\ n \in 0 .. Len(calls)
          /\ Replaced(calls, n, <<>>, calls') \/ Replaced(calls, n, <<a, b>>, calls')
      <4>1. n \in 0 .. Len(calls)
        BY DEF DeskShape
      <4> QED
        BY <1>10, <4>1, MarkedTurns, Zenon
    <3>2. a \in AnyCall /\ b \in AnyCall /\ a.kind = "inbox" /\ b.kind = "unread"
      <4>1. page = "notifications"
        BY <1>10, MarkedTurns, Zenon
      <4>2. body.filter \in What /\ "" \in What /\ "inbox" \in Kind /\ "unread" \in Kind
        BY <4>1 DEF DeskShape, BodyFits, InboxShape, What, Filter, Kind
      <4> QED
        BY <4>2, CallTyped
    <3> HIDE DEF a, b
    <3>3. /\ <<>> \in Seq(AnyCall) /\ \A j \in 1 .. Len(<<>>) : <<>>[j].kind \in {"inbox", "unread"}
          /\ <<a, b>> \in Seq(AnyCall) /\ \A j \in 1 .. Len(<<a, b>>) : <<a, b>>[j].kind \in {"inbox", "unread"}
      BY <3>2
    <3> QED
      BY <3>1, <3>3, Zenon DEF Turned
  <2> QED
    BY <1>10, <2>1 DEF Writes
<1> QED
  BY <1>1, <1>2, <1>3, <1>4, <1>5, <1>6, <1>7, <1>8, <1>9, <1>10, Zenon DEF HandlerStep

\* What the steps of the user, and of others, leave alone.
LEMMA UserFrame ==
  ASSUME UserStep
  PROVE  /\ UNCHANGED <<page, gate, cached, dot>> /\ missed \subseteq missed'
         /\ notes' = notes \/ {"dot", "inbox"} \subseteq missed'
         /\ ToggleTheme \/ theme' = theme
         /\ page = "notifications" => body' = body \/ ReadFilter
         /\ page = "audit-logs" => body' = body \/ AsksAudit \/ TypeAudit
         /\ page = "dashboard" =>
              body' = body \/ PickRange \/ PickType \/ ToggleTheme \/ HoverGrowth \/ HoverDistribution
<1>1. CASE UserChip \/ Bell \/ ClickOutside \/ RetryPanel \/ MarkAll \/ ChangeRole
  BY <1>1 DEF UserChip, Bell, ClickOutside, RetryPanel, MarkAll, ChangeRole, user, frame, bell
<1>2. CASE Arrive
  BY <1>2 DEF Arrive, user, frame, bell
<1>3. CASE ToggleTheme
  BY <1>3, Zenon DEF ToggleTheme, Rest, user, frame, bell
<1>4. CASE PickRange \/ PickType
  BY <1>4, Zenon DEF PickRange, PickType, Rest, Ready, user, frame, bell
<1>5. CASE HoverGrowth \/ HoverDistribution
  BY <1>5, Zenon DEF HoverGrowth, HoverDistribution, Rest, Ready, user, frame, bell
<1>6. CASE AsksAudit
  <2>1. page = "audit-logs"
    BY <1>6, Zenon DEF AsksAudit, FilterAudit, SortAudit, TurnPage, AuditTimer, OnAudit
  <2>2. UNCHANGED <<page, gate, cached, dot, missed, notes, theme>>
    BY <1>6, Zenon DEF AsksAudit, FilterAudit, SortAudit, TurnPage, AuditTimer, user, frame, bell
  <2> QED
    BY <1>6, <2>1, <2>2
<1>7. CASE TypeAudit
  BY <1>7, Zenon DEF TypeAudit, OnAudit, user, frame, bell
<1>8. CASE ReadFilter
  BY <1>8, Zenon DEF ReadFilter, user, frame, bell
<1>9. CASE markRead \/ MarkAllHere
  BY <1>9, Zenon DEF markRead, MarkAllHere, user, frame, bell
<1> QED
  BY <1>1, <1>2, <1>3, <1>4, <1>5, <1>6, <1>7, <1>8, <1>9, Zenon DEF UserStep, AsksAudit

\* What the steps that handle an answer leave alone.
LEMMA HandlerFrame ==
  ASSUME DeskShape, NEW n \in 1 .. Len(calls), HandlerStep(n)
  PROVE  /\ UNCHANGED <<page, gate, cached, notes, theme>> /\ missed \subseteq missed'
         /\ dot' = dot \/ UnreadAnswered(n)
         /\ page = "notifications" => body' = body \/ InboxLoaded(n) \/ Marked(n)
         /\ page = "audit-logs" => body' = body \/ AuditLoaded(n)
         /\ page = "dashboard" => \/ body' = body \/ GrowthAnswered(n) \/ DistributionAnswered(n)
                                  \/ OverviewAnswered(n) \/ ActivityAnswered(n)
<1>0. Fits(calls[n], page)
  BY DEF DeskShape
<1>1. CASE PanelAnswered(n) \/ UnreadAnswered(n) \/ MarkAllAnswered(n)
  BY <1>1 DEF PanelAnswered, UnreadAnswered, MarkAllAnswered, user, frame
<1>2. CASE GrowthAnswered(n) \/ DistributionAnswered(n) \/ OverviewAnswered(n) \/ ActivityAnswered(n)
  <2>1. calls[n].kind \in {"growth", "dist", "overview", "activity"}
    BY <1>2 DEF GrowthAnswered, DistributionAnswered, OverviewAnswered, ActivityAnswered, Answered, Is
  <2>2. page = "dashboard"
    BY <1>0, <2>1 DEF Fits, KindsOf
  <2>3. UNCHANGED <<page, gate, cached, notes, theme, dot>> /\ missed \subseteq missed'
    BY <1>2 DEF GrowthAnswered, DistributionAnswered, OverviewAnswered, ActivityAnswered, Rest, user, frame, bell
  <2> QED
    BY <1>2, <2>2, <2>3
<1>3. CASE AuditLoaded(n)
  <2>1. calls[n].kind = "audit"
    BY <1>3 DEF AuditLoaded, Answered, Is
  <2>2. page = "audit-logs"
    BY <1>0, <2>1 DEF Fits, KindsOf
  <2>3. UNCHANGED <<page, gate, cached, notes, theme, dot>> /\ missed \subseteq missed'
    BY <1>3 DEF AuditLoaded, user, frame, bell
  <2> QED
    BY <1>3, <2>2, <2>3
<1>4. CASE InboxLoaded(n) \/ Marked(n)
  <2>1. page = "notifications"
    <3>1. InboxLoaded(n) => calls[n].kind = "inbox"
      BY DEF InboxLoaded, Answered, Is
    <3>2. InboxLoaded(n) => page = "notifications"
      BY <1>0, <3>1 DEF Fits, KindsOf
    <3> QED
      BY <1>4, <3>2, MarkedTurns
  <2>2. UNCHANGED <<page, gate, cached, notes, theme, dot>> /\ missed \subseteq missed'
    BY <1>4 DEF InboxLoaded, Marked, user, frame, bell
  <2> QED
    BY <1>4, <2>1, <2>2
<1> QED
  BY <1>1, <1>2, <1>3, <1>4 DEF HandlerStep

\* The server and the network change nothing in the browser.
LEMMA ServeFrame ==
  ASSUME NEW n, Serve(n) \/ Lose(n)
  PROVE  UNCHANGED <<page, gate, cached, theme, dot, body>> /\ missed \subseteq missed' /\ (Lose(n) => notes' = notes)
BY DEF Serve, Lose, user, frame, bell

\* The answer about the user.
LEMMA MeFrame ==
  ASSUME NEW n, MeAnswered(n, start(page), StartBody(page))
  PROVE  UNCHANGED <<page, theme, dot, notes, missed>>
BY Zenon DEF MeAnswered, bell

-----------------------------------------------------------------------------
(* The page that runs suits the role.                                      *)

RoleInv == AskedOnce /\ Suits

\* A new tab asks for the user once, on a page that suits the stored role.
LEMMA RoleInit == Init => RoleInv
<1> SUFFICES ASSUME Init PROVE RoleInv
  OBVIOUS
<1>1. /\ \/ gate = "left" /\ calls = <<>>
         \/ gate = "asking" /\ calls = <<Call("me", "")>>
      /\ gate # "left" => ~isBlocked(page, cached)
  BY Zenon DEF Init
<1>2. Len(<<>>) = 0 /\ Len(<<Call("me", "")>>) = 1
  OBVIOUS
<1>3. Len(calls) \in {0, 1} /\ (gate # "asking" => Len(calls) = 0)
  BY <1>1, <1>2
<1>4. ~Twice(calls, "me") /\ (gate # "asking" => ~Has(calls, "me"))
  BY <1>3 DEF Twice, Has
<1> QED
  BY <1>1, <1>4 DEF RoleInv, AskedOnce, Suits

\* Only the one answer about the user opens the page, and it looks at the role.
LEMMA RoleStep ==
  ASSUME DeskShape, RoleInv, [Next]_vars
  PROVE  RoleInv'
<1>0. calls \in Seq(AnyCall) /\ ~Twice(calls, "me") /\ (gate # "asking" => ~Has(calls, "me"))
  BY DEF DeskShape, RoleInv, AskedOnce
<1>1. ASSUME NEW p, NewDocument(p, FirstBody(p)) PROVE RoleInv'
  <2>1. /\ page' = p /\ UNCHANGED cached
        /\ \/ gate' = "left" /\ Len(calls') = 0
           \/ gate' = "asking" /\ ~isBlocked(p, cached) /\ Len(calls') = 1
    BY <1>1, DocumentEffect
  <2> QED
    BY <2>1 DEF RoleInv, AskedOnce, Suits, Twice, Has
<1>2. ASSUME UNCHANGED <<page, gate, cached>>, NEW R, NEW A, Turned(R, A), "me" \notin R, "me" \notin A
      PROVE  RoleInv'
  <2>1. (Has(calls', "me") <=> Has(calls, "me")) /\ (Twice(calls', "me") => Twice(calls, "me"))
    BY <1>2, KindKept, Zenon
  <2> QED
    BY <1>2, <2>1 DEF RoleInv, AskedOnce, Suits
<1>3. ASSUME UserStep PROVE RoleInv'
  BY <1>2, <1>3, UserSends, UserFrame, Zenon
<1>4. ASSUME NEW n \in 1 .. Len(calls), HandlerStep(n) PROVE RoleInv'
  BY <1>2, <1>4, HandlerSends, HandlerFrame, Zenon
<1>5. ASSUME NEW n \in 1 .. Len(calls), MeAnswered(n, start(page), StartBody(page)) PROVE RoleInv'
  <2>1. calls[n].kind = "me" /\ (Replaced(calls, n, <<>>, calls') \/ Replaced(calls, n, FirstCalls, calls'))
    BY <1>5, MeTurns, Zenon
  <2>2. gate = "asking"
    BY <1>0, <2>1, Zenon DEF Has
  <2>3. ~Has(<<>>, "me") /\ ~Has(FirstCalls, "me")
    <3>1. \A j \in 1 .. Len(FirstCalls) : FirstCalls[j].kind # "me"
      BY FirstKinds
    <3> QED
      BY <3>1 DEF Has
  <2>4. ~Has(calls', "me")
    <3>1. n # 0
      OBVIOUS
    <3> QED
      BY <1>0, <2>1, <2>3, <3>1, Zenon DEF Replaced
  <2>5. ~Twice(calls', "me")
    BY <2>4, Zenon DEF Has, Twice
  <2>6. Suits'
    <3>1. /\ page' = page
          /\ cached' = IF calls[n].phase = "lost" THEN cached ELSE role
          /\ gate' = "left" \/ ~(calls[n].phase # "lost" /\ isBlocked(page, role))
      BY <1>5, Zenon DEF MeAnswered
    <3>2. ~isBlocked(page, cached)
      BY <2>2 DEF RoleInv, Suits
    <3> QED
      BY <3>1, <3>2 DEF Suits
  <2> QED
    BY <2>4, <2>5, <2>6 DEF RoleInv, AskedOnce
<1>6. ASSUME NEW n \in 1 .. Len(calls), Serve(n) \/ Lose(n) PROVE RoleInv'
  <2>1. Rephased(n) /\ UNCHANGED <<page, gate, cached>>
    BY <1>6, ServeEffect, LoseEffect, ServeFrame
  <2>2. (Has(calls', "me") <=> Has(calls, "me")) /\ (Twice(calls', "me") <=> Twice(calls, "me"))
    BY <2>1, RephasedKinds, Zenon
  <2> QED
    BY <2>1, <2>2 DEF RoleInv, AskedOnce, Suits
<1>7. ASSUME UNCHANGED vars PROVE RoleInv'
  BY <1>7 DEF vars, user, frame, RoleInv, AskedOnce, Suits
<1> QED
  BY <1>0, <1>1, <1>3, <1>4, <1>5, <1>6, <1>7, StepKinds, Zenon

\* A page runs only for a role that may see it, as far as the browser knows the
\* role (isBlocked, asked of the stored and of the fresh role by Layout.init).
THEOREM PagesSuitRoles == Spec => []PageSuitsRole
<1>1. Init => RoleInv
  BY RoleInit
<1>2. DeskShape /\ RoleInv /\ [Next]_vars => RoleInv'
  BY RoleStep
<1>3. RoleInv => PageSuitsRole
  BY DEF RoleInv, Suits, PageSuitsRole
<1> QED
  BY <1>1, <1>2, <1>3, DeskKeepsShape, PTL DEF Spec

-----------------------------------------------------------------------------
(* A write whose answer is lost excuses what it leaves behind.             *)

\* Nothing is lost in a new tab.
LEMMA LostInit == Init => LostExcused
<1> SUFFICES ASSUME Init PROVE LostExcused
  OBVIOUS
<1>1. \A n \in 1 .. Len(calls) : calls[n].phase = "sent"
  <2> DEFINE c == Call("me", "")
  <2>1. c.phase = "sent"
    BY DEF Call
  <2>2. calls = <<>> \/ calls = <<c>>
    BY DEF Init
  <2> HIDE DEF c
  <2> QED
    BY <2>1, <2>2
<1> QED
  BY <1>1 DEF LostExcused

\* The three writes of the user are sent, not lost.
LEMMA WriteSent ==
  ASSUME DeskShape, MarkAll \/ MarkAllHere \/ markRead
  PROVE  \E c : c.kind \in Writes /\ c.phase = "sent" /\ Replaced(calls, 0, <<c>>, calls')
<1>0. calls \in Seq(AnyCall) /\ 0 \in 0 .. Len(calls)
  BY DEF DeskShape
<1>1. ASSUME NEW c \in AnyCall, c.kind \in Writes, c.phase = "sent", Turn(0, <<c>>)
      PROVE  \E d : d.kind \in Writes /\ d.phase = "sent" /\ Replaced(calls, 0, <<d>>, calls')
  <2>1. <<c>> \in Seq(AnyCall)
    OBVIOUS
  <2>2. Replaced(calls, 0, <<c>>, calls')
    BY <1>0, <1>1, <2>1, TurnEffect
  <2> QED
    BY <1>1, <2>2
<1>2. ASSUME NEW w \in {"bell", "page"}, Turn(0, <<Call("markAll", w)>>)
      PROVE  \E d : d.kind \in Writes /\ d.phase = "sent" /\ Replaced(calls, 0, <<d>>, calls')
  <2>1. "markAll" \in Kind /\ w \in What /\ "markAll" \in Writes
    BY DEF Kind, What, Writes
  <2>2. Call("markAll", w) \in AnyCall /\ Call("markAll", w).kind = "markAll" /\ Call("markAll", w).phase = "sent"
    BY <2>1, CallTyped, Zenon
  <2> QED
    BY <1>1, <1>2, <2>1, <2>2
<1>3. CASE markRead
  <2>1. body.unread \subseteq Int
    <3>1. body \in InboxShape
      BY <1>3, Zenon DEF markRead, DeskShape, BodyFits
    <3> QED
      BY <3>1 DEF InboxShape
  <2>2. PICK i \in Int : Turn(0, <<[Call("mark", "") EXCEPT !.id = i]>>)
    BY <1>3, <2>1, Zenon DEF markRead
  <2> DEFINE c == [Call("mark", "") EXCEPT !.id = i]
  <2>3. c \in AnyCall /\ c.kind = "mark" /\ c.phase = "sent"
    <3>1. "mark" \in Kind /\ "" \in What
      BY DEF Kind, What, Filter
    <3>2. /\ Call("mark", "") \in AnyCall /\ Call("mark", "").kind = "mark"
          /\ Call("mark", "").phase = "sent"
      BY <3>1, CallTyped, Zenon
    <3> QED
      BY <3>2 DEF AnyCall
  <2>4. Turn(0, <<c>>)
    BY <2>2
  <2> HIDE DEF c
  <2>5. c.kind \in Writes
    BY <2>3 DEF Writes
  <2> QED
    BY <1>1, <2>3, <2>4, <2>5
<1>4. CASE MarkAll \/ MarkAllHere
  <2>1. \E w \in {"bell", "page"} : Turn(0, <<Call("markAll", w)>>)
    BY <1>4 DEF MarkAll, MarkAllHere
  <2> QED
    BY <1>2, <2>1, Zenon
<1> QED
  BY <1>3, <1>4

\* A write that is lost is remembered as missed for as long as it is under way.
LEMMA LostStep ==
  ASSUME DeskShape, LostExcused, [Next]_vars
  PROVE  LostExcused'
<1>0. calls \in Seq(AnyCall)
  BY DEF DeskShape
<1>1. ASSUME NEW p, NewDocument(p, FirstBody(p)) PROVE LostExcused'
  <2>1. Len(calls') = 0 \/ (Len(calls') = 1 /\ calls'[1].kind = "me")
    BY <1>1, DocumentEffect
  <2> QED
    BY <2>1 DEF LostExcused, Writes
<1>2. ASSUME missed \subseteq missed',
             \A i \in 1 .. Len(calls') : calls'[i].kind \in Writes /\ calls'[i].phase = "lost"
                                           => \E j \in 1 .. Len(calls) : calls'[i] = calls[j]
      PROVE  LostExcused'
  BY <1>2 DEF LostExcused
<1>3. ASSUME missed \subseteq missed', NEW R, NEW A, Turned(R, A), \A k \in Writes : k \notin R /\ k \notin A
      PROVE  LostExcused'
  <2>1. \A k \in Writes : \A i \in 1 .. Len(calls') :
          calls'[i].kind = k => \E j \in 1 .. Len(calls) : calls'[i] = calls[j]
    BY <1>3, KindKept
  <2> QED
    BY <1>2, <1>3, <2>1, Zenon
<1>4. ASSUME missed \subseteq missed', NEW n, NEW more, Replaced(calls, n, more, calls'),
             \A j \in 1 .. Len(more) : more[j].kind \notin Writes \/ more[j].phase # "lost"
      PROVE  LostExcused'
  <2>1. \A i \in 1 .. Len(calls') :
          \/ \E j \in 1 .. Len(calls) : j # n /\ calls'[i] = calls[j]
          \/ \E j \in 1 .. Len(more) : calls'[i] = more[j]
    BY <1>4, Zenon DEF Replaced
  <2> QED
    BY <1>2, <1>4, <2>1, Zenon
<1>5. ASSUME UserStep PROVE LostExcused'
  <2>1. missed \subseteq missed'
    BY <1>5, UserFrame
  <2>2. CASE MarkAll \/ MarkAllHere \/ markRead
    <3>1. PICK c : c.kind \in Writes /\ c.phase = "sent" /\ Replaced(calls, 0, <<c>>, calls')
      BY <2>2, WriteSent, Zenon
    <3>2. \A j \in 1 .. Len(<<c>>) : <<c>>[j].phase # "lost"
      BY <3>1
    <3> QED
      BY <1>4, <2>1, <3>1, <3>2, Zenon
  <2>3. CASE ~(MarkAll \/ MarkAllHere \/ markRead)
    <3>1. PICK A : Turned({}, A) /\ \A k \in Writes : k \notin A
      BY <1>5, <2>3, UserSends, Zenon
    <3> QED
      BY <1>3, <2>1, <3>1
  <2> QED
    BY <2>2, <2>3
<1>6. ASSUME NEW n \in 1 .. Len(calls), HandlerStep(n) PROVE LostExcused'
  <2>1. missed \subseteq missed'
    BY <1>6, HandlerFrame, Zenon
  <2>2. PICK R, A : Turned(R, A) /\ \A k \in Writes : k \notin A
    BY <1>6, HandlerSends, Zenon
  <2>3. \A i \in 1 .. Len(calls') : calls'[i].kind \in Writes => \E j \in 1 .. Len(calls) : calls'[i] = calls[j]
    <3>1. PICK m \in 0 .. Len(calls), more \in Seq(AnyCall) :
            Replaced(calls, m, more, calls') /\ \A j \in 1 .. Len(more) : more[j].kind \in A
      BY <2>2, Zenon DEF Turned
    <3>2. \A i \in 1 .. Len(calls') :
            \/ \E j \in 1 .. Len(calls) : j # m /\ calls'[i] = calls[j]
            \/ \E j \in 1 .. Len(more) : calls'[i] = more[j]
      BY <3>1, Zenon DEF Replaced
    <3> QED
      BY <2>2, <3>1, <3>2, Zenon
  <2> QED
    BY <1>2, <2>1, <2>3, Zenon
<1>7. ASSUME NEW n \in 1 .. Len(calls), MeAnswered(n, start(page), StartBody(page)) PROVE LostExcused'
  <2>1. /\ Replaced(calls, n, <<>>, calls') \/ Replaced(calls, n, FirstCalls, calls')
        /\ missed' = missed
    BY <1>7, MeTurns, MeFrame, Zenon
  <2>2. \A j \in 1 .. Len(FirstCalls) : FirstCalls[j].kind \notin Writes
    BY FirstKinds DEF Writes
  <2>3. \A j \in 1 .. Len(<<>>) : FALSE
    OBVIOUS
  <2>4. missed \subseteq missed'
    BY <2>1
  <2> QED
    BY <1>4, <2>1, <2>2, <2>3, <2>4, Zenon
<1>8. ASSUME NEW n \in 1 .. Len(calls), Serve(n) \/ Lose(n) PROVE LostExcused'
  <2>1. Rephased(n) /\ missed \subseteq missed'
    BY <1>8, ServeEffect, LoseEffect, ServeFrame
  <2>2. (calls'[n].kind \in Writes /\ calls'[n].phase = "lost") => {"dot", "inbox"} \subseteq missed'
    <3>1. CASE Serve(n)
      BY <3>1, ServeEffect
    <3>2. CASE Lose(n)
      BY <2>1, <3>2 DEF Lose, Rephased, Writes
    <3> QED
      BY <1>8, <3>1, <3>2
  <2> QED
    BY <2>1, <2>2 DEF LostExcused, Rephased
<1>9. ASSUME UNCHANGED vars PROVE LostExcused'
  BY <1>9 DEF vars, LostExcused
<1> QED
  BY <1>0, <1>1, <1>5, <1>6, <1>7, <1>8, <1>9, StepKinds, Zenon

-----------------------------------------------------------------------------
(* The dot on the bell.                                                    *)

\* The dot of a new tab is not to be trusted before the page is open.
LEMMA BadgeInit == Init => BadgeInv
BY DEF Init, BadgeInv

\* While no write and no recount is under way, a step that neither handles nor
\* sends a count leaves the dot right.
LEMMA BadgeKept ==
  ASSUME BadgeInv, NEW R, NEW A, Turned(R, A), "unread" \notin R, "unread" \notin A,
         UNCHANGED <<gate, dot>>, missed \subseteq missed', notes' = notes \/ "dot" \in missed',
         \A j \in 1 .. Len(calls) : Recounts(calls[j]) => \/ \E i \in 1 .. Len(calls') : Recounts(calls'[i])
                                                        \/ "dot" \in missed'
  PROVE  BadgeInv'
<1> SUFFICES ASSUME gate' = "open", "dot" \notin missed', \A i \in 1 .. Len(calls') : ~Recounts(calls'[i])
             PROVE  /\ \A i \in 1 .. Len(calls') :
                         Latest(calls', "unread", i) /\ calls'[i].phase = "ok" => calls'[i].found = notes'
                    /\ ~Has(calls', "unread") => dot' = Unread(notes')
  BY Zenon DEF BadgeInv, Recounts
<1>1. /\ \A j \in 1 .. Len(calls) :
           Latest(calls, "unread", j) /\ calls[j].phase = "ok" => calls[j].found = notes
      /\ ~Has(calls, "unread") => dot = Unread(notes)
  <2>1. gate = "open" /\ "dot" \notin missed /\ \A j \in 1 .. Len(calls) : ~Recounts(calls[j])
    BY Zenon
  <2> QED
    BY <2>1, Zenon DEF BadgeInv
<1>2. /\ \A i : Latest(calls', "unread", i) =>
                  \E j \in 1 .. Len(calls) : Latest(calls, "unread", j) /\ calls'[i] = calls[j]
      /\ Has(calls', "unread") <=> Has(calls, "unread")
  BY KindKept
<1>3. notes' = notes /\ dot' = dot
  OBVIOUS
<1>4. \A i \in 1 .. Len(calls') :
        Latest(calls', "unread", i) /\ calls'[i].phase = "ok" => calls'[i].found = notes'
  <2> TAKE i \in 1 .. Len(calls')
  <2> HAVE Latest(calls', "unread", i) /\ calls'[i].phase = "ok"
  <2>1. PICK j \in 1 .. Len(calls) : Latest(calls, "unread", j) /\ calls'[i] = calls[j]
    BY <1>2, Zenon
  <2> QED
    BY <1>1, <1>3, <2>1
<1> QED
  BY <1>1, <1>2, <1>3, <1>4

\* A count that has just been sent cannot be wrong yet.
LEMMA BadgeAsked ==
  ASSUME NEW n, NEW more, Replaced(calls, n, more, calls'), Has(more, "unread"),
         \A j \in 1 .. Len(more) : more[j].phase = "sent"
  PROVE  BadgeInv'
<1>1. /\ Has(calls', "unread")
      /\ \A i : Latest(calls', "unread", i) => \E j \in 1 .. Len(more) : calls'[i] = more[j]
  BY LastSent
<1>2. \A i : Latest(calls', "unread", i) => calls'[i].phase # "ok"
  <2> TAKE i
  <2> HAVE Latest(calls', "unread", i)
  <2>1. calls'[i].phase = "sent"
    BY <1>1, Zenon
  <2> QED
    BY <2>1
<1> QED
  BY <1>1, <1>2, Zenon DEF BadgeInv

\* All first requests are sent.
LEMMA FirstSent ==
  ASSUME DeskShape, NEW j \in 1 .. Len(FirstCalls)
  PROVE  FirstCalls[j].phase = "sent"
<1> DEFINE c == FirstCalls[j]
<1>1. Ask(body, UserObject).phase = "sent"
  BY DEF Ask, Call
<1>2. /\ Call("unread", "").phase = "sent" /\ Call("overview", "").phase = "sent"
      /\ Call("activity", "").phase = "sent" /\ Call("inbox", body.filter).phase = "sent"
      /\ Call("growth", body.lit.growth).phase = "sent" /\ Call("dist", body.lit.dist).phase = "sent"
  BY DEF Call
<1>3. \/ c = Call("unread", "")
      \/ c = Call("overview", "") \/ c = Call("activity", "")
      \/ c = Call("growth", body.lit.growth) \/ c = Call("dist", body.lit.dist)
      \/ c = Ask(body, UserObject)
      \/ c = Call("inbox", body.filter)
  BY FirstCallsAre, Zenon
<1> HIDE DEF c
<1>4. c.phase = "sent"
  BY <1>1, <1>2, <1>3
<1> QED
  BY <1>4 DEF c

\* A request that is not handled stays.
LEMMA StillThere ==
  ASSUME NEW R, NEW A, Turned(R, A), NEW j \in 1 .. Len(calls), calls[j].kind \notin R
  PROVE  \E i \in 1 .. Len(calls') : calls'[i] = calls[j]
<1>1. PICK n \in 0 .. Len(calls), more \in Seq(AnyCall) :
        Replaced(calls, n, more, calls') /\ (n # 0 => calls[n].kind \in R)
  BY Zenon DEF Turned
<1>2. j # n
  <2>1. j # 0
    OBVIOUS
  <2> QED
    BY <1>1, <2>1, Zenon
<1> QED
  BY <1>1, <1>2, Zenon DEF Replaced

\* The last count under way is of the notices as they are, or one more will follow.
LEMMA BadgeStep ==
  ASSUME DeskShape, RoleInv, LostExcused, BadgeInv, [Next]_vars
  PROVE  BadgeInv'
<1>0. calls \in Seq(AnyCall)
  BY DEF DeskShape
<1>1. ASSUME NEW p, NewDocument(p, FirstBody(p)) PROVE BadgeInv'
  <2>1. gate' # "open"
    BY <1>1, DocumentEffect
  <2> QED
    BY <2>1 DEF BadgeInv
<1>2. ASSUME "dot" \in missed' \/ \E i \in 1 .. Len(calls') : Recounts(calls'[i]) PROVE BadgeInv'
  BY <1>2 DEF BadgeInv, Recounts
<1>3. ASSUME NEW R, NEW A, Turned(R, A), "unread" \notin R, "unread" \notin A, "panel" \notin R,
             \A k \in Writes : k \notin R,
             UNCHANGED <<gate, dot>>, missed \subseteq missed', notes' = notes \/ "dot" \in missed'
      PROVE  BadgeInv'
  <2>1. \A j \in 1 .. Len(calls) : Recounts(calls[j]) => \E i \in 1 .. Len(calls') : Recounts(calls'[i])
    <3> TAKE j \in 1 .. Len(calls)
    <3> HAVE Recounts(calls[j])
    <3>1. calls[j].kind \notin R
      BY <1>3 DEF Recounts
    <3>2. PICK i \in 1 .. Len(calls') : calls'[i] = calls[j]
      BY <1>3, <3>1, StillThere
    <3> QED
      BY <3>2, Zenon
  <2> QED
    BY <1>3, <2>1, BadgeKept
<1>4. ASSUME UserStep PROVE BadgeInv'
  <2>1. PICK A : Turned({}, A) /\ "unread" \notin A
    BY <1>4, UserSends, Zenon
  <2>2. UNCHANGED <<gate, dot>> /\ missed \subseteq missed' /\ (notes' = notes \/ "dot" \in missed')
    BY <1>4, UserFrame
  <2> QED
    BY <1>3, <2>1, <2>2
<1>5. ASSUME NEW n \in 1 .. Len(calls), HandlerStep(n) PROVE BadgeInv'
  <2>0. n \in 0 .. Len(calls) /\ n # 0 /\ missed \subseteq missed' /\ UNCHANGED <<gate, notes>>
    BY <1>0, <1>5, HandlerFrame
  <2>1. CASE calls[n].kind \in Writes /\ calls[n].phase = "lost"
    BY <1>2, <2>0, <2>1 DEF LostExcused
  <2>2. CASE PanelAnswered(n)
    <3>1. calls[n].kind = "panel" /\ UNCHANGED dot
      BY <2>2 DEF PanelAnswered, Answered, Is
    <3>2. CASE calls[n].what = "markAll"
      <4> DEFINE c == Call("unread", "markAll")
      <4>1. c \in AnyCall /\ c.kind = "unread" /\ c.phase = "sent"
        <5>1. "unread" \in Kind /\ "markAll" \in What
          BY DEF Kind, What
        <5> QED
          BY <5>1, CallTyped
      <4>2. Turn(n, <<c>>)
        BY <2>2, <3>2, Zenon DEF PanelAnswered
      <4> HIDE DEF c
      <4>3. Replaced(calls, n, <<c>>, calls')
        BY <2>0, <4>1, <4>2, SentOne
      <4>4. Has(<<c>>, "unread") /\ \A j \in 1 .. Len(<<c>>) : <<c>>[j].phase = "sent"
        BY <4>1 DEF Has
      <4> QED
        BY <4>3, <4>4, BadgeAsked
    <3>3. CASE calls[n].what # "markAll"
      <4>1. Turn(n, <<>>)
        BY <2>2, <3>3, Zenon DEF PanelAnswered
      <4>2. Turned({"panel"}, {}) /\ Replaced(calls, n, <<>>, calls')
        BY <2>0, <3>1, <4>1, SentNone
      <4>3. ~Recounts(calls[n])
        BY <3>1, <3>3 DEF Recounts, Writes
      <4>4. \A j \in 1 .. Len(calls) : Recounts(calls[j]) => \E i \in 1 .. Len(calls') : Recounts(calls'[i])
        BY <4>2, <4>3, Zenon DEF Replaced
      <4> QED
        BY <2>0, <3>1, <4>2, <4>4, BadgeKept
    <3> QED
      BY <3>2, <3>3
  <2>3. CASE UnreadAnswered(n)
    <3>1. /\ calls[n].kind = "unread" /\ Turn(n, <<>>)
          /\ calls[n].phase # "sent"
          /\ calls[n].phase = "lost" => "dot" \in missed'
          /\ calls[n].phase # "lost" => dot' = Unread(calls[n].found) /\ missed' = missed \cup Overtaking(n, "dot")
      BY <2>3 DEF UnreadAnswered, Answered, Is, Timed
    <3>2. CASE calls[n].phase = "lost"
      BY <1>2, <3>1, <3>2
    <3>3. CASE calls[n].phase # "lost"
      <4>1. calls[n].phase = "ok"
        <5>0. calls[n] \in AnyCall
          BY <1>0
        <5>1. calls[n].phase \in {"sent", "ok", "lost"}
          BY <5>0 DEF AnyCall
        <5> QED
          BY <3>1, <3>3, <5>1
      <4> SUFFICES ASSUME gate' = "open", "dot" \notin missed', \A i \in 1 .. Len(calls') : ~Recounts(calls'[i])
                   PROVE  /\ \A i \in 1 .. Len(calls') :
                               Latest(calls', "unread", i) /\ calls'[i].phase = "ok" => calls'[i].found = notes'
                          /\ ~Has(calls', "unread") => dot' = Unread(notes')
        BY Zenon DEF BadgeInv, Recounts
      <4>2. Replaced(calls, n, <<>>, calls')
        BY <2>0, <3>1, SentNone
      <4>3. \A j \in 1 .. Len(calls) : ~Recounts(calls[j])
        <5>1. ~Recounts(calls[n])
          BY <3>1 DEF Recounts, Writes
        <5> QED
          BY <4>2, <5>1, Zenon DEF Replaced
      <4>4. gate = "open" /\ "dot" \notin missed /\ "dot" \notin Overtaking(n, "dot")
        BY <2>0, <3>1, <3>3
      <4>5. /\ \A j \in 1 .. Len(calls) :
                 Latest(calls, "unread", j) /\ calls[j].phase = "ok" => calls[j].found = notes
        BY <4>3, <4>4, Zenon DEF BadgeInv
      <4>6. /\ \A i : Latest(calls', "unread", i) =>
                        \E j \in 1 .. Len(calls) : Latest(calls, "unread", j) /\ calls'[i] = calls[j]
            /\ ~Has(calls', "unread") => Latest(calls, "unread", n)
        BY <3>1, <4>2, <4>4, LastHandled
      <4>7. \A i \in 1 .. Len(calls') :
              Latest(calls', "unread", i) /\ calls'[i].phase = "ok" => calls'[i].found = notes'
        <5> TAKE i \in 1 .. Len(calls')
        <5> HAVE Latest(calls', "unread", i) /\ calls'[i].phase = "ok"
        <5>1. PICK j \in 1 .. Len(calls) : Latest(calls, "unread", j) /\ calls'[i] = calls[j]
          BY <4>6, Zenon
        <5> QED
          BY <2>0, <4>5, <5>1
      <4>8. ASSUME ~Has(calls', "unread") PROVE dot' = Unread(notes')
        <5>1. calls[n].found = notes
          BY <4>1, <4>5, <4>6, <4>8, Zenon
        <5>2. dot' = Unread(notes)
          BY <3>1, <3>3, <5>1, Zenon
        <5> QED
          BY <2>0, <5>2 DEF Unread
      <4> QED
        BY <4>7, <4>8
    <3> QED
      BY <3>2, <3>3
  <2>4. CASE MarkAllAnswered(n) /\ calls[n].phase # "lost"
    <3> DEFINE c == Call("panel", "markAll")
    <3>1. c \in AnyCall /\ c.kind = "panel" /\ c.what = "markAll"
      <4>1. "panel" \in Kind /\ "markAll" \in What
        BY DEF Kind, What
      <4> QED
        BY <4>1, CallTyped
    <3>2. Turn(n, <<c>>)
      BY <2>4, Zenon DEF MarkAllAnswered
    <3> HIDE DEF c
    <3>3. Replaced(calls, n, <<c>>, calls')
      BY <2>0, <3>1, <3>2, SentOne
    <3>4. \E i \in 1 .. Len(calls') : calls'[i] = c
      <4>1. 1 \in 1 .. Len(<<c>>) /\ <<c>>[1] = c
        OBVIOUS
      <4> QED
        BY <3>3, <4>1, Zenon DEF Replaced
    <3> QED
      BY <1>2, <3>1, <3>4 DEF Recounts
  <2>5. CASE Marked(n) /\ calls[n].phase # "lost"
    <3> DEFINE a == Call("inbox", body.filter)
               b == Call("unread", "")
    <3>1. Replaced(calls, n, <<a, b>>, calls')
      BY <2>5, MarkedTurns, Zenon
    <3>2. a.phase = "sent" /\ b.phase = "sent" /\ b.kind = "unread"
      BY DEF Call
    <3> HIDE DEF a, b
    <3>3. Has(<<a, b>>, "unread") /\ \A j \in 1 .. Len(<<a, b>>) : <<a, b>>[j].phase = "sent"
      <4>1. Len(<<a, b>>) = 2 /\ <<a, b>>[1] = a /\ <<a, b>>[2] = b
        OBVIOUS
      <4> QED
        BY <3>2, <4>1 DEF Has
    <3> QED
      BY <3>1, <3>3, BadgeAsked
  <2>6. CASE ~(PanelAnswered(n) \/ UnreadAnswered(n) \/ MarkAllAnswered(n) \/ Marked(n))
    <3>1. PICK R, A : /\ Turned(R, A) /\ "unread" \notin R /\ "unread" \notin A /\ "panel" \notin R
                      /\ \A k \in Writes : k \notin R
      BY <1>5, <2>6, HandlerSends, Zenon
    <3>2. UNCHANGED dot
      BY <1>5, <2>6, HandlerFrame
    <3> QED
      BY <1>3, <2>0, <3>1, <3>2
  <2>7. (MarkAllAnswered(n) \/ Marked(n)) => calls[n].kind \in Writes
    BY DEF MarkAllAnswered, Marked, Answered, Is, Writes
  <2> QED
    BY <2>1, <2>2, <2>3, <2>4, <2>5, <2>6, <2>7
<1>6. ASSUME NEW n \in 1 .. Len(calls), MeAnswered(n, start(page), StartBody(page)) PROVE BadgeInv'
  <2>1. CASE gate' = "open"
    <3>1. Replaced(calls, n, FirstCalls, calls')
      BY <1>6, <2>1, MeTurns
    <3>2. Has(FirstCalls, "unread") /\ \A j \in 1 .. Len(FirstCalls) : FirstCalls[j].phase = "sent"
      BY FirstCallsAre, FirstSent
    <3> QED
      BY <3>1, <3>2, BadgeAsked
  <2>2. CASE gate' # "open"
    BY <2>2 DEF BadgeInv
  <2> QED
    BY <2>1, <2>2
<1>7. ASSUME NEW n \in 1 .. Len(calls), Serve(n) \/ Lose(n) PROVE BadgeInv'
  <2>1. Rephased(n) /\ UNCHANGED <<gate, dot>> /\ missed \subseteq missed'
    BY <1>7, ServeEffect, LoseEffect, ServeFrame
  <2>2. CASE Recounts(calls[n])
    <3>1. Recounts(calls'[n]) /\ n \in 1 .. Len(calls')
      BY <2>1, <2>2 DEF Rephased, Recounts
    <3> QED
      BY <1>2, <3>1
  <2>3. CASE ~Recounts(calls[n])
    <3>1. /\ notes' = notes
          /\ calls[n].kind = "unread" /\ calls'[n].phase = "ok" => calls'[n].found = notes
      <4>1. calls[n].kind \notin Writes
        BY <2>3 DEF Recounts
      <4>2. CASE Serve(n)
        BY <4>1, <4>2, ServeEffect DEF Found
      <4>3. CASE Lose(n)
        BY <4>3, LoseEffect, ServeFrame
      <4> QED
        BY <1>7, <4>2, <4>3
    <3> SUFFICES ASSUME gate' = "open", "dot" \notin missed', \A i \in 1 .. Len(calls') : ~Recounts(calls'[i])
                 PROVE  /\ \A i \in 1 .. Len(calls') :
                             Latest(calls', "unread", i) /\ calls'[i].phase = "ok" => calls'[i].found = notes'
                        /\ ~Has(calls', "unread") => dot' = Unread(notes')
      BY Zenon DEF BadgeInv, Recounts
    <3>2. \A j \in 1 .. Len(calls) : ~Recounts(calls[j])
      BY <2>1, <2>3 DEF Rephased
    <3>3. /\ \A j \in 1 .. Len(calls) :
               Latest(calls, "unread", j) /\ calls[j].phase = "ok" => calls[j].found = notes
          /\ ~Has(calls, "unread") => dot = Unread(notes)
      <4>1. gate = "open" /\ "dot" \notin missed
        BY <2>1
      <4> QED
        BY <3>2, <4>1, Zenon DEF BadgeInv
    <3>4. /\ Has(calls', "unread") <=> Has(calls, "unread")
          /\ \A m : Latest(calls', "unread", m) <=> Latest(calls, "unread", m)
      BY <2>1, RephasedKinds
    <3>5. \A i \in 1 .. Len(calls') :
            Latest(calls', "unread", i) /\ calls'[i].phase = "ok" => calls'[i].found = notes'
      <4> TAKE i \in 1 .. Len(calls')
      <4> HAVE Latest(calls', "unread", i) /\ calls'[i].phase = "ok"
      <4>1. Latest(calls, "unread", i) /\ i \in 1 .. Len(calls) /\ calls[i].kind = "unread"
        BY <3>4 DEF Latest
      <4>2. CASE i = n
        BY <3>1, <4>1, <4>2
      <4>3. CASE i # n
        BY <2>1, <3>1, <3>3, <4>1, <4>3 DEF Rephased
      <4> QED
        BY <4>2, <4>3
    <3>6. ~Has(calls', "unread") => dot' = Unread(notes')
      BY <2>1, <3>1, <3>3, <3>4
    <3> QED
      BY <3>5, <3>6
  <2> QED
    BY <2>2, <2>3
<1>8. ASSUME UNCHANGED vars PROVE BadgeInv'
  BY <1>8 DEF vars, frame, bell, BadgeInv, Latest, Has, Unread, Recounts
<1> QED
  BY <1>0, <1>1, <1>4, <1>5, <1>6, <1>7, <1>8, StepKinds, Zenon

\* Once nothing is asked or written, the dot says whether something is unread,
\* unless a notice came or an answer was lost or late (every write of a page or of
\* the panel ends in refreshUnreadBadge).
THEOREM DotsTellUnread == Spec => []BadgeTellsUnread
<1> DEFINE Inv == RoleInv /\ LostExcused /\ BadgeInv
<1>1. Init => Inv
  BY RoleInit, LostInit, BadgeInit
<1>2. DeskShape /\ Inv /\ [Next]_vars => Inv'
  BY RoleStep, LostStep, BadgeStep
<1>3. DeskShape /\ Inv => BadgeTellsUnread
  <2> SUFFICES ASSUME DeskShape, BadgeInv, gate = "open", "dot" \notin missed,
                      ~Waiting({"unread", "panel", "mark", "markAll"})
               PROVE  dot = Unread(notes)
    BY DEF BadgeTellsUnread
  <2>1. \A n \in 1 .. Len(calls) : calls[n].kind \notin {"unread", "panel", "mark", "markAll"}
    BY DEF Waiting, DeskShape
  <2>2. ~Has(calls, "unread") /\ \A n \in 1 .. Len(calls) : ~Recounts(calls[n])
    BY <2>1 DEF Has, Recounts, Writes
  <2> QED
    BY <2>2, Zenon DEF BadgeInv
<1> QED
  BY <1>1, <1>2, <1>3, DeskKeepsShape, PTL DEF Spec

-----------------------------------------------------------------------------
(* The list of the inbox.                                                  *)

\* The list of a new inbox is empty.
LEMMA InboxInit == Init => InboxInv
<1> SUFFICES ASSUME Init, page = "notifications" PROVE InboxInv
  BY DEF InboxInv
<1> DEFINE c == Call("me", "")
<1>1. c.kind = "me"
  BY DEF Call
<1>2. (calls = <<>> \/ calls = <<c>>) /\ body = InboxBody
  BY DEF Init, FirstBody
<1> HIDE DEF c
<1>3. \A n \in 1 .. Len(calls) : calls[n].kind = "me"
  BY <1>1, <1>2
<1>4. body.list # "rows"
  BY <1>2 DEF InboxBody
<1> QED
  BY <1>3, <1>4 DEF InboxInv, Latest

\* A step that leaves the page, its list and its requests for it alone.
LEMMA InboxKept ==
  ASSUME InboxInv, NEW R, NEW A, Turned(R, A), "inbox" \notin R, "inbox" \notin A,
         UNCHANGED <<page, body>>, missed \subseteq missed', notes' = notes \/ "inbox" \in missed',
         \A k \in Writes : k \notin R
  PROVE  InboxInv'
<1> SUFFICES ASSUME page' = "notifications", "inbox" \notin missed',
                    \A i \in 1 .. Len(calls') : calls'[i].kind \notin Writes
             PROVE  /\ \A i \in 1 .. Len(calls') : Latest(calls', "inbox", i) =>
                         /\ calls'[i].what = body'.filter
                         /\ calls'[i].phase = "ok" => calls'[i].found = notes'
                    /\ (~Has(calls', "inbox") /\ body'.list = "rows") =>
                         /\ body'.shown = Listed(body'.filter, notes')
                         /\ body'.unread = {i \in body'.shown : ~notes'[i]}
  BY Zenon DEF InboxInv
<1>1. \A j \in 1 .. Len(calls) : calls[j].kind \notin Writes
  <2> SUFFICES ASSUME NEW j \in 1 .. Len(calls), calls[j].kind \in Writes PROVE FALSE
    OBVIOUS
  <2>1. PICK i \in 1 .. Len(calls') : calls'[i] = calls[j]
    BY StillThere
  <2> QED
    BY <2>1
<1>2. /\ \A j \in 1 .. Len(calls) : Latest(calls, "inbox", j) =>
           calls[j].what = body.filter /\ (calls[j].phase = "ok" => calls[j].found = notes)
      /\ (~Has(calls, "inbox") /\ body.list = "rows") =>
           /\ body.shown = Listed(body.filter, notes)
           /\ body.unread = {i \in body.shown : ~notes[i]}
  <2>1. page = "notifications" /\ "inbox" \notin missed
    OBVIOUS
  <2> QED
    BY <1>1, <2>1, Zenon DEF InboxInv
<1>3. /\ \A i : Latest(calls', "inbox", i) =>
                  \E j \in 1 .. Len(calls) : Latest(calls, "inbox", j) /\ calls'[i] = calls[j]
      /\ Has(calls', "inbox") <=> Has(calls, "inbox")
  BY KindKept
<1>4. notes' = notes /\ body' = body
  OBVIOUS
<1>5. \A i \in 1 .. Len(calls') : Latest(calls', "inbox", i) =>
        /\ calls'[i].what = body'.filter
        /\ calls'[i].phase = "ok" => calls'[i].found = notes'
  <2> TAKE i \in 1 .. Len(calls')
  <2> HAVE Latest(calls', "inbox", i)
  <2>1. PICK j \in 1 .. Len(calls) : Latest(calls, "inbox", j) /\ calls'[i] = calls[j]
    BY <1>3, Zenon
  <2> QED
    BY <1>2, <1>4, <2>1
<1> QED
  BY <1>2, <1>3, <1>4, <1>5, Zenon

\* A list that has just been asked for cannot be wrong yet.
LEMMA InboxAsked ==
  ASSUME NEW n, NEW more, Replaced(calls, n, more, calls'), Has(more, "inbox"),
         \A j \in 1 .. Len(more) : more[j].phase = "sent",
         \A j \in 1 .. Len(more) : more[j].kind = "inbox" => more[j].what = body'.filter
  PROVE  InboxInv'
<1>1. /\ Has(calls', "inbox")
      /\ \A i : Latest(calls', "inbox", i) =>
                  \E j \in 1 .. Len(more) : more[j].kind = "inbox" /\ calls'[i] = more[j]
  BY LastSent
<1>2. \A i : Latest(calls', "inbox", i) => calls'[i].phase # "ok" /\ calls'[i].what = body'.filter
  <2> TAKE i
  <2> HAVE Latest(calls', "inbox", i)
  <2>1. PICK j \in 1 .. Len(more) : more[j].kind = "inbox" /\ calls'[i] = more[j]
    BY <1>1, Zenon
  <2> QED
    BY <2>1
<1> QED
  BY <1>1, <1>2, Zenon DEF InboxInv

\* The last list under way is of the chosen filter and of the notices as they are.
LEMMA InboxStep ==
  ASSUME DeskShape, LostExcused, InboxInv, [Next]_vars
  PROVE  InboxInv'
<1>0. calls \in Seq(AnyCall) /\ (page = "notifications" => body \in InboxShape)
  BY DEF DeskShape, BodyFits
<1>1. ASSUME NEW p, NewDocument(p, FirstBody(p)) PROVE InboxInv'
  <2>1. /\ page' = p /\ body' = FirstBody(p)
        /\ Len(calls') = 0 \/ (Len(calls') = 1 /\ calls'[1].kind = "me")
    BY <1>1, DocumentEffect
  <2>2. page' = "notifications" => body'.list # "rows"
    BY <2>1 DEF FirstBody, InboxBody
  <2>3. \A i \in 1 .. Len(calls') : ~Latest(calls', "inbox", i)
    BY <2>1 DEF Latest
  <2> QED
    BY <2>2, <2>3 DEF InboxInv
<1>2. ASSUME \/ page' # "notifications" \/ "inbox" \in missed'
             \/ \E i \in 1 .. Len(calls') : calls'[i].kind \in Writes
      PROVE  InboxInv'
  BY <1>2 DEF InboxInv
<1>3. ASSUME UserStep PROVE InboxInv'
  <2>0. UNCHANGED page /\ missed \subseteq missed' /\ (notes' = notes \/ "inbox" \in missed')
    BY <1>3, UserFrame
  <2>1. CASE ReadFilter
    <3>1. page = "notifications" /\ body \in InboxShape
      BY <1>0, <2>1, Zenon DEF ReadFilter
    <3>2. PICK f \in Filter : loadInbox(0, [body EXCEPT !.filter = f])
      BY <2>1 DEF ReadFilter, Filter
    <3> DEFINE c == Call("inbox", f)
    <3>3. [body EXCEPT !.filter = f].filter = f /\ [[body EXCEPT !.filter = f] EXCEPT !.list = "loading"].filter = f
      BY <3>1 DEF InboxShape
    <3>4. Turn(0, <<c>>) /\ body'.filter = f
      BY <3>2, <3>3 DEF loadInbox
    <3>5. c \in AnyCall /\ c.kind = "inbox" /\ c.what = f /\ c.phase = "sent"
      <4>1. "inbox" \in Kind /\ f \in What
        BY DEF Kind, What
      <4> QED
        BY <4>1, CallTyped
    <3> HIDE DEF c
    <3>6. Replaced(calls, 0, <<c>>, calls')
      <4>1. 0 \in 0 .. Len(calls)
        BY <1>0
      <4> QED
        BY <3>4, <3>5, <4>1, SentOne
    <3>7. /\ Has(<<c>>, "inbox")
          /\ \A j \in 1 .. Len(<<c>>) : <<c>>[j].phase = "sent" /\ <<c>>[j].what = body'.filter
      BY <3>4, <3>5 DEF Has
    <3> QED
      BY <3>6, <3>7, InboxAsked
  <2>2. CASE ~ReadFilter
    <3>1. PICK A : Turned({}, A) /\ "inbox" \notin A
      BY <1>3, <2>2, UserSends, Zenon
    <3>2. page = "notifications" => body' = body
      BY <1>3, <2>2, UserFrame
    <3>3. CASE page = "notifications"
      BY <2>0, <3>1, <3>2, <3>3, InboxKept
    <3>4. CASE page # "notifications"
      BY <1>2, <2>0, <3>4
    <3> QED
      BY <3>3, <3>4
  <2> QED
    BY <2>1, <2>2
<1>4. ASSUME NEW n \in 1 .. Len(calls), HandlerStep(n), page = "notifications" PROVE InboxInv'
  <2>0. n \in 0 .. Len(calls) /\ n # 0 /\ missed \subseteq missed' /\ UNCHANGED <<page, notes>>
    BY <1>0, <1>4, HandlerFrame
  <2>1. CASE MarkAllAnswered(n)
    <3>1. "inbox" \in missed'
      BY <2>1 DEF MarkAllAnswered
    <3> QED
      BY <1>2, <3>1
  <2>2. CASE Marked(n)
    <3> DEFINE a == Call("inbox", body.filter)
               b == Call("unread", "")
    <3>1. CASE calls[n].phase = "lost"
      <4>1. calls[n].kind \in Writes
        BY <2>2, MarkedTurns, Zenon
      <4> QED
        BY <1>2, <2>0, <3>1, <4>1 DEF LostExcused
    <3>2. CASE calls[n].phase # "lost"
      <4>1. Replaced(calls, n, <<a, b>>, calls') /\ body' = [body EXCEPT !.list = "loading"]
        BY <2>2, <3>2, MarkedTurns, Zenon
      <4>2. body'.filter = body.filter
        BY <1>0, <1>4, <4>1 DEF InboxShape
      <4>3. /\ a.phase = "sent" /\ a.kind = "inbox" /\ a.what = body'.filter
            /\ b.phase = "sent" /\ b.kind = "unread"
        BY <4>2 DEF Call
      <4> HIDE DEF a, b
      <4>4. Len(<<a, b>>) = 2 /\ <<a, b>>[1] = a /\ <<a, b>>[2] = b
        OBVIOUS
      <4>5. Has(<<a, b>>, "inbox")
        BY <4>3, <4>4 DEF Has
      <4>6. /\ \A j \in 1 .. Len(<<a, b>>) : <<a, b>>[j].phase = "sent"
            /\ \A j \in 1 .. Len(<<a, b>>) : <<a, b>>[j].kind = "inbox" => <<a, b>>[j].what = body'.filter
        BY <4>3, <4>4
      <4> QED
        BY <4>1, <4>5, <4>6, InboxAsked
    <3> QED
      BY <3>1, <3>2
  <2>3. CASE InboxLoaded(n)
    <3>1. /\ calls[n].kind = "inbox" /\ Turn(n, <<>>)
          /\ calls[n].phase # "sent" /\ missed' = missed \cup Overtaking(n, "inbox")
      BY <2>3 DEF InboxLoaded, Answered, Is, Timed
    <3>2. calls[n].phase \in {"ok", "lost"}
      <4>1. calls[n] \in AnyCall
        BY <1>0
      <4>2. calls[n].phase \in {"sent", "ok", "lost"}
        BY <4>1 DEF AnyCall
      <4> QED
        BY <3>1, <4>2
    <3>3. /\ body'.filter = body.filter
          /\ calls[n].phase = "lost" => body'.list = "failed"
          /\ calls[n].phase # "lost" =>
               /\ body'.shown = Listed(calls[n].what, calls[n].found)
               /\ body'.unread = {i \in Listed(calls[n].what, calls[n].found) : ~calls[n].found[i]}
      BY <1>0, <1>4, <2>3 DEF InboxLoaded, InboxShape
    <3> SUFFICES ASSUME "inbox" \notin missed', \A i \in 1 .. Len(calls') : calls'[i].kind \notin Writes
                 PROVE  /\ \A i \in 1 .. Len(calls') : Latest(calls', "inbox", i) =>
                             /\ calls'[i].what = body'.filter
                             /\ calls'[i].phase = "ok" => calls'[i].found = notes'
                        /\ (~Has(calls', "inbox") /\ body'.list = "rows") =>
                             /\ body'.shown = Listed(body'.filter, notes')
                             /\ body'.unread = {i \in body'.shown : ~notes'[i]}
      BY Zenon DEF InboxInv
    <3>4. Replaced(calls, n, <<>>, calls')
      BY <2>0, <3>1, SentNone
    <3>5. \A j \in 1 .. Len(calls) : calls[j].kind \notin Writes
      <4>1. calls[n].kind \notin Writes
        BY <3>1 DEF Writes
      <4> QED
        BY <3>4, <4>1, Zenon DEF Replaced
    <3>6. "inbox" \notin missed /\ "inbox" \notin Overtaking(n, "inbox")
      BY <3>1
    <3>7. \A j \in 1 .. Len(calls) : Latest(calls, "inbox", j) =>
            calls[j].what = body.filter /\ (calls[j].phase = "ok" => calls[j].found = notes)
      BY <1>4, <3>5, <3>6, Zenon DEF InboxInv
    <3>8. /\ \A i : Latest(calls', "inbox", i) =>
                      \E j \in 1 .. Len(calls) : Latest(calls, "inbox", j) /\ calls'[i] = calls[j]
          /\ ~Has(calls', "inbox") => Latest(calls, "inbox", n)
      BY <3>1, <3>4, <3>6, LastHandled
    <3>9. \A i \in 1 .. Len(calls') : Latest(calls', "inbox", i) =>
            /\ calls'[i].what = body'.filter
            /\ calls'[i].phase = "ok" => calls'[i].found = notes'
      <4> TAKE i \in 1 .. Len(calls')
      <4> HAVE Latest(calls', "inbox", i)
      <4>1. PICK j \in 1 .. Len(calls) : Latest(calls, "inbox", j) /\ calls'[i] = calls[j]
        BY <3>8, Zenon
      <4> QED
        BY <2>0, <3>3, <3>7, <4>1
    <3>10. ASSUME ~Has(calls', "inbox"), body'.list = "rows"
           PROVE  /\ body'.shown = Listed(body'.filter, notes')
                  /\ body'.unread = {i \in body'.shown : ~notes'[i]}
      <4>1. calls[n].phase = "ok" /\ calls[n].phase # "lost"
        BY <3>2, <3>3, <3>10
      <4>2. calls[n].what = body'.filter /\ calls[n].found = notes'
        BY <2>0, <3>3, <3>7, <3>8, <3>10, <4>1, Zenon
      <4>3. body'.shown = Listed(body'.filter, notes')
        BY <3>3, <4>1, <4>2, Zenon
      <4>4. body'.unread = {i \in Listed(body'.filter, notes') : ~notes'[i]}
        BY <3>3, <4>1, <4>2, Zenon
      <4> QED
        BY <4>3, <4>4, Zenon
    <3> QED
      BY <3>9, <3>10
  <2>4. CASE ~(MarkAllAnswered(n) \/ Marked(n) \/ InboxLoaded(n))
    <3>1. PICK R, A : Turned(R, A) /\ "inbox" \notin R /\ "inbox" \notin A /\ \A k \in Writes : k \notin R
      BY <1>4, <2>4, HandlerSends, Zenon
    <3>2. body' = body
      BY <1>4, <2>4, HandlerFrame
    <3> QED
      BY <2>0, <3>1, <3>2, InboxKept
  <2> QED
    BY <2>1, <2>2, <2>3, <2>4
<1>5. ASSUME NEW n \in 1 .. Len(calls), HandlerStep(n), page # "notifications" PROVE InboxInv'
  BY <1>2, <1>5, HandlerFrame
<1>6. ASSUME NEW n \in 1 .. Len(calls), MeAnswered(n, start(page), StartBody(page)) PROVE InboxInv'
  <2>0. n \in 0 .. Len(calls) /\ n # 0 /\ UNCHANGED <<page, notes, missed>> /\ calls[n].kind = "me"
    BY <1>0, <1>6, MeFrame, MeTurns
  <2>1. CASE page # "notifications"
    BY <1>2, <2>0, <2>1
  <2>2. CASE page = "notifications" /\ Replaced(calls, n, <<>>, calls') /\ UNCHANGED body
    <3>1. Turned({"me"}, {})
      <4>1. <<>> \in Seq(AnyCall) /\ (\A j \in 1 .. Len(<<>>) : FALSE) /\ calls' \in Seq(AnyCall)
        <5>1. calls' \in Seq(AnyCall)
          BY <1>6, MeTurns
        <5> QED
          BY <5>1
      <4> QED
        BY <2>0, <2>2, <4>1 DEF Turned
    <3>2. missed \subseteq missed' /\ \A k \in Writes : k \notin {"me"}
      BY <2>0 DEF Writes
    <3> QED
      BY <2>0, <2>2, <3>1, <3>2, InboxKept
  <2>3. CASE page = "notifications" /\ Replaced(calls, n, FirstCalls, calls') /\ body' = StartBody(page)
    <3>1. body' = [body EXCEPT !.list = "loading"]
      BY <2>3, Zenon DEF StartBody
    <3>2. body'.filter = body.filter
      BY <1>0, <2>3, <3>1 DEF InboxShape
    <3>3. \A j \in 1 .. Len(FirstCalls) : FirstCalls[j].kind = "inbox" => FirstCalls[j].what = body.filter
      <4> TAKE j \in 1 .. Len(FirstCalls)
      <4>1. FirstCalls[j] = Call("unread", "") \/ FirstCalls[j] = Call("inbox", body.filter)
        BY <2>3, FirstCallsAre
      <4>2. Call("unread", "").kind = "unread" /\ Call("inbox", body.filter).what = body.filter
        BY DEF Call
      <4> QED
        BY <4>1, <4>2
    <3>4. Has(FirstCalls, "inbox")
      BY <2>3, FirstCallsAre, Zenon
    <3> QED
      BY <2>3, <3>2, <3>3, <3>4, FirstSent, InboxAsked
  <2> QED
    BY <1>6, <2>1, <2>2, <2>3, MeTurns
<1>7. ASSUME NEW n \in 1 .. Len(calls), Serve(n) \/ Lose(n) PROVE InboxInv'
  <2>1. Rephased(n) /\ UNCHANGED <<page, body>> /\ missed \subseteq missed'
    BY <1>7, ServeEffect, LoseEffect, ServeFrame
  <2>2. CASE calls[n].kind \in Writes
    <3>1. calls'[n].kind \in Writes /\ n \in 1 .. Len(calls')
      BY <2>1, <2>2 DEF Rephased
    <3> QED
      BY <1>2, <3>1
  <2>3. CASE calls[n].kind \notin Writes
    <3>1. /\ notes' = notes
          /\ calls[n].kind = "inbox" /\ calls'[n].phase = "ok" => calls'[n].found = notes
      <4>1. CASE Serve(n)
        BY <2>3, <4>1, ServeEffect DEF Found
      <4>2. CASE Lose(n)
        BY <4>2, LoseEffect, ServeFrame
      <4> QED
        BY <1>7, <4>1, <4>2
    <3> SUFFICES ASSUME page' = "notifications", "inbox" \notin missed',
                        \A i \in 1 .. Len(calls') : calls'[i].kind \notin Writes
                 PROVE  /\ \A i \in 1 .. Len(calls') : Latest(calls', "inbox", i) =>
                             /\ calls'[i].what = body'.filter
                             /\ calls'[i].phase = "ok" => calls'[i].found = notes'
                        /\ (~Has(calls', "inbox") /\ body'.list = "rows") =>
                             /\ body'.shown = Listed(body'.filter, notes')
                             /\ body'.unread = {i \in body'.shown : ~notes'[i]}
      BY Zenon DEF InboxInv
    <3>2. \A j \in 1 .. Len(calls) : calls[j].kind \notin Writes
      BY <2>1, <2>3 DEF Rephased
    <3>3. /\ \A j \in 1 .. Len(calls) : Latest(calls, "inbox", j) =>
               calls[j].what = body.filter /\ (calls[j].phase = "ok" => calls[j].found = notes)
          /\ (~Has(calls, "inbox") /\ body.list = "rows") =>
               /\ body.shown = Listed(body.filter, notes)
               /\ body.unread = {i \in body.shown : ~notes[i]}
      <4>1. page = "notifications" /\ "inbox" \notin missed
        BY <2>1
      <4> QED
        BY <3>2, <4>1, Zenon DEF InboxInv
    <3>4. /\ Has(calls', "inbox") <=> Has(calls, "inbox")
          /\ \A m : Latest(calls', "inbox", m) <=> Latest(calls, "inbox", m)
      BY <2>1, RephasedKinds
    <3>5. \A i \in 1 .. Len(calls') : Latest(calls', "inbox", i) =>
            /\ calls'[i].what = body'.filter
            /\ calls'[i].phase = "ok" => calls'[i].found = notes'
      <4> TAKE i \in 1 .. Len(calls')
      <4> HAVE Latest(calls', "inbox", i)
      <4>1. Latest(calls, "inbox", i) /\ i \in 1 .. Len(calls) /\ calls[i].kind = "inbox"
        BY <3>4 DEF Latest
      <4>2. CASE i = n
        BY <2>1, <3>1, <3>3, <4>1, <4>2 DEF Rephased
      <4>3. CASE i # n
        BY <2>1, <3>1, <3>3, <4>1, <4>3 DEF Rephased
      <4> QED
        BY <4>2, <4>3
    <3> QED
      BY <2>1, <3>1, <3>3, <3>4, <3>5
  <2> QED
    BY <2>2, <2>3
<1>8. ASSUME UNCHANGED vars PROVE InboxInv'
  BY <1>8 DEF vars, frame, InboxInv, Latest, Has, Listed, Selected, Writes
<1> QED
  BY <1>0, <1>1, <1>3, <1>4, <1>5, <1>6, <1>7, <1>8, StepKinds, Zenon

\* Once nothing is asked or written, the list is the newest page of what its filter
\* selects, however many notices there are and however long a page is, unless the
\* panel has marked notices, a notice came, or an answer was lost or late (load()
\* of notifications.js, after every change of the filter and every write).
THEOREM InboxesAreCurrent == Spec => []InboxIsCurrent
<1> DEFINE Inv == LostExcused /\ InboxInv
<1>1. Init => Inv
  BY LostInit, InboxInit
<1>2. DeskShape /\ Inv /\ [Next]_vars => Inv'
  BY LostStep, InboxStep
<1>3. DeskShape /\ Inv => InboxIsCurrent
  <2> SUFFICES ASSUME DeskShape, InboxInv, page = "notifications", body.list = "rows", "inbox" \notin missed,
                      ~Waiting({"inbox", "mark", "markAll"})
               PROVE  /\ body.shown = Listed(body.filter, notes)
                      /\ body.unread = {i \in body.shown : ~notes[i]}
    BY Zenon DEF InboxIsCurrent
  <2>1. \A n \in 1 .. Len(calls) : calls[n].kind \notin {"inbox", "mark", "markAll"}
    BY DEF Waiting, DeskShape
  <2>2. ~Has(calls, "inbox") /\ \A n \in 1 .. Len(calls) : calls[n].kind \notin Writes
    BY <2>1 DEF Has, Writes
  <2> QED
    BY <2>2, Zenon DEF InboxInv
<1> QED
  BY <1>1, <1>2, <1>3, DeskKeepsShape, PTL DEF Spec

-----------------------------------------------------------------------------
(* The list of the Admin.                                                  *)

\* The table of a new audit page is empty.
LEMMA AuditInit == Init => AuditInv
<1> SUFFICES ASSUME Init, page = "audit-logs" PROVE AuditInv
  BY DEF AuditInv
<1> DEFINE c == Call("me", "")
<1>1. c.kind = "me"
  BY DEF Call
<1>2. (calls = <<>> \/ calls = <<c>>) /\ body = AuditBody
  BY DEF Init, FirstBody
<1> HIDE DEF c
<1>3. \A n \in 1 .. Len(calls) : calls[n].kind = "me"
  BY <1>1, <1>2
<1>4. body.table # "rows"
  BY <1>2 DEF AuditBody
<1> QED
  BY <1>3, <1>4 DEF AuditInv, Latest

\* A step that leaves alone what is asked for, and what is shown of it.
LEMMA AuditKept ==
  ASSUME AuditInv, NEW R, NEW A, Turned(R, A), "audit" \notin R, "audit" \notin A,
         UNCHANGED page, missed \subseteq missed',
         page = "audit-logs" => /\ body'.current = body.current /\ body'.filter = body.filter /\ body'.up = body.up
                                /\ body'.table = body.table /\ body'.rows = body.rows
                                /\ body'.previous = body.previous /\ body'.next = body.next
  PROVE  AuditInv'
<1> SUFFICES ASSUME page' = "audit-logs", "audit" \notin missed'
             PROVE  /\ \A i \in 1 .. Len(calls') : Latest(calls', "audit", i) =>
                         Query(calls'[i]) = [page |-> body'.current, filter |-> body'.filter, up |-> body'.up]
                    /\ (~Has(calls', "audit") /\ body'.table = "rows") => AuditShown(body')
  BY Zenon DEF AuditInv, Query, AuditShown, Exists
<1>1. page = "audit-logs" /\ "audit" \notin missed
  OBVIOUS
<1>2. /\ \A j \in 1 .. Len(calls) : Latest(calls, "audit", j) =>
           Query(calls[j]) = [page |-> body.current, filter |-> body.filter, up |-> body.up]
      /\ (~Has(calls, "audit") /\ body.table = "rows") => AuditShown(body)
  BY <1>1, Zenon DEF AuditInv
<1>3. /\ \A i : Latest(calls', "audit", i) =>
                  \E j \in 1 .. Len(calls) : Latest(calls, "audit", j) /\ calls'[i] = calls[j]
      /\ Has(calls', "audit") <=> Has(calls, "audit")
  BY KindKept
<1>4. \A i \in 1 .. Len(calls') : Latest(calls', "audit", i) =>
        Query(calls'[i]) = [page |-> body'.current, filter |-> body'.filter, up |-> body'.up]
  <2> TAKE i \in 1 .. Len(calls')
  <2> HAVE Latest(calls', "audit", i)
  <2>1. PICK j \in 1 .. Len(calls) : Latest(calls, "audit", j) /\ calls'[i] = calls[j]
    BY <1>3, Zenon
  <2>2. Query(calls'[i]) = Query(calls[j])
    BY <2>1, Zenon
  <2> QED
    BY <1>1, <1>2, <2>1, <2>2, Zenon
<1>5. ASSUME ~Has(calls', "audit"), body'.table = "rows" PROVE AuditShown(body')
  <2>1. AuditShown(body)
    BY <1>1, <1>2, <1>3, <1>5, Zenon
  <2> QED
    BY <1>1, <2>1, Zenon DEF AuditShown, Exists
<1> QED
  BY <1>4, <1>5

\* A page that has just been asked for is the current one.
LEMMA AuditAsked ==
  ASSUME NEW n, NEW more, Replaced(calls, n, more, calls'), Has(more, "audit"),
         \A j \in 1 .. Len(more) : more[j].kind = "audit" =>
           Query(more[j]) = [page |-> body'.current, filter |-> body'.filter, up |-> body'.up]
  PROVE  AuditInv'
<1>1. /\ Has(calls', "audit")
      /\ \A i : Latest(calls', "audit", i) =>
                  \E j \in 1 .. Len(more) : more[j].kind = "audit" /\ calls'[i] = more[j]
  BY LastSent
<1>2. \A i : Latest(calls', "audit", i) =>
               Query(calls'[i]) = [page |-> body'.current, filter |-> body'.filter, up |-> body'.up]
  <2> TAKE i
  <2> HAVE Latest(calls', "audit", i)
  <2>1. PICK j \in 1 .. Len(more) : more[j].kind = "audit" /\ calls'[i] = more[j]
    BY <1>1, Zenon
  <2>2. Query(calls'[i]) = Query(more[j])
    BY <2>1, Zenon
  <2> QED
    BY <2>1, <2>2, Zenon
<1> QED
  BY <1>1, <1>2, Zenon DEF AuditInv, Query

\* What a request for a page asks for.
LEMMA AskQuery ==
  ASSUME NEW b, NEW p
  PROVE  Ask(b, p).kind = "audit" /\ Query(Ask(b, p)) = [page |-> p, filter |-> b.filter, up |-> b.up]
BY DEF Ask, Call, Query

\* The last page under way is the current one, in the chosen order and filter.
LEMMA AuditStep ==
  ASSUME DeskShape, AuditInv, [Next]_vars
  PROVE  AuditInv'
<1>0. calls \in Seq(AnyCall) /\ (page = "audit-logs" => AuditShape(body))
  BY Zenon DEF DeskShape, BodyFits
<1>1. ASSUME NEW p, NewDocument(p, FirstBody(p)) PROVE AuditInv'
  <2>1. /\ page' = p /\ body' = FirstBody(p)
        /\ Len(calls') = 0 \/ (Len(calls') = 1 /\ calls'[1].kind = "me")
    BY <1>1, DocumentEffect
  <2>2. page' = "audit-logs" => body'.table # "rows"
    BY <2>1 DEF FirstBody, AuditBody
  <2>3. \A i \in 1 .. Len(calls') : ~Latest(calls', "audit", i)
    BY <2>1 DEF Latest
  <2> QED
    BY <2>2, <2>3 DEF AuditInv
<1>2. ASSUME page' # "audit-logs" \/ "audit" \in missed' PROVE AuditInv'
  BY <1>2 DEF AuditInv
<1>3. ASSUME NEW b, AuditShape(b), NEW p \in Int, loadAudit(b, p) PROVE AuditInv'
  <2> DEFINE c == Ask(b, p)
  <2>1. c \in AnyCall /\ c.kind = "audit" /\ Query(c) = [page |-> p, filter |-> b.filter, up |-> b.up]
    <3>1. b.filter \in What /\ b.up \in BOOLEAN
      BY <1>3 DEF AuditShape, What
    <3>2. Call("audit", b.filter) \in AnyCall
      <4>1. "audit" \in Kind
        BY DEF Kind
      <4> QED
        BY <3>1, <4>1, CallTyped, Zenon
    <3>3. Ask(b, p) \in AnyCall
      BY <3>1, <3>2 DEF Ask, AnyCall
    <3> QED
      BY <3>3, AskQuery
  <2>2. Turn(0, <<c>>)
    BY <1>3 DEF loadAudit
  <2>3. body'.current = p /\ body'.filter = b.filter /\ body'.up = b.up
    BY <1>3 DEF loadAudit, AuditShape
  <2> HIDE DEF c
  <2>4. Replaced(calls, 0, <<c>>, calls')
    <3>1. 0 \in 0 .. Len(calls)
      BY <1>0
    <3> QED
      BY <2>1, <2>2, <3>1, SentOne
  <2>5. /\ Has(<<c>>, "audit")
        /\ \A j \in 1 .. Len(<<c>>) : <<c>>[j].kind = "audit" =>
             Query(<<c>>[j]) = [page |-> body'.current, filter |-> body'.filter, up |-> body'.up]
    <3>1. Len(<<c>>) = 1 /\ <<c>>[1] = c
      OBVIOUS
    <3>2. Query(c) = [page |-> body'.current, filter |-> body'.filter, up |-> body'.up]
      BY <2>1, <2>3, Zenon
    <3>3. \A j \in 1 .. Len(<<c>>) : <<c>>[j] = c
      BY <3>1
    <3>4. Has(<<c>>, "audit")
      BY <2>1, <3>1 DEF Has
    <3> QED
      BY <3>2, <3>3, <3>4, Zenon
  <2> QED
    BY <2>4, <2>5, AuditAsked
<1>4. ASSUME UserStep PROVE AuditInv'
  <2>0. UNCHANGED page /\ missed \subseteq missed'
    BY <1>4, UserFrame
  <2>1. CASE AsksAudit
    <3>1. page = "audit-logs" /\ AuditShape(body) /\ body.current \in Int
      BY <1>0, <2>1 DEF AsksAudit, FilterAudit, SortAudit, TurnPage, AuditTimer, OnAudit, AuditShape
    <3>2. CASE FilterAudit
      <4>1. PICK f \in DOMAIN PagesOf : loadAudit([body EXCEPT !.filter = f], 1)
        BY <3>2 DEF FilterAudit
      <4>2. AuditShape([body EXCEPT !.filter = f])
        BY <3>1 DEF AuditShape
      <4> QED
        BY <1>3, <4>1, <4>2, PageNumbers
    <3>3. CASE SortAudit
      <4>1. AuditShape([body EXCEPT !.up = ~@])
        BY <3>1 DEF AuditShape
      <4>2. loadAudit([body EXCEPT !.up = ~@], 1)
        BY <3>3 DEF SortAudit
      <4> QED
        BY <1>3, <4>1, <4>2, PageNumbers
    <3>4. CASE TurnPage
      <4>1. loadAudit(body, body.current - 1) \/ loadAudit(body, body.current + 1)
        BY <3>4 DEF TurnPage
      <4>2. body.current - 1 \in Int /\ body.current + 1 \in Int
        BY <3>1
      <4> QED
        BY <1>3, <3>1, <4>1, <4>2
    <3>5. CASE AuditTimer
      <4>1. AuditShape([body EXCEPT !.typed = FALSE])
        BY <3>1, Untyped
      <4>2. loadAudit([body EXCEPT !.typed = FALSE], 1)
        BY <3>5 DEF AuditTimer
      <4> QED
        BY <1>3, <4>1, <4>2, PageNumbers
    <3> QED
      BY <2>1, <3>2, <3>3, <3>4, <3>5, Zenon DEF AsksAudit
  <2>2. CASE ~AsksAudit
    <3>1. PICK A : Turned({}, A) /\ "audit" \notin A
      BY <1>4, <2>2, UserSends, Zenon
    <3>2. page = "audit-logs" => /\ body'.current = body.current /\ body'.filter = body.filter /\ body'.up = body.up
                                 /\ body'.table = body.table /\ body'.rows = body.rows
                                 /\ body'.previous = body.previous /\ body'.next = body.next
      <4> HAVE page = "audit-logs"
      <4>1. body' = body \/ TypeAudit
        BY <1>4, <2>2, UserFrame
      <4>2. TypeAudit => body' = [body EXCEPT !.typed = TRUE]
        BY DEF TypeAudit
      <4> QED
        BY <1>0, <4>1, <4>2 DEF AuditShape
    <3> QED
      BY <2>0, <3>1, <3>2, AuditKept
  <2> QED
    BY <2>1, <2>2
<1>5. ASSUME NEW n \in 1 .. Len(calls), HandlerStep(n), page = "audit-logs" PROVE AuditInv'
  <2>0. n \in 0 .. Len(calls) /\ n # 0 /\ missed \subseteq missed' /\ UNCHANGED page
    BY <1>0, <1>5, HandlerFrame
  <2>1. CASE AuditLoaded(n)
    <3> DEFINE found == calls[n].phase # "lost" /\ Exists(Query(calls[n]))
    <3>1. /\ calls[n].kind = "audit" /\ Turn(n, <<>>) /\ missed' = missed \cup Overtaking(n, "audit")
          /\ found => body' = [body EXCEPT !.table = "rows", !.rows = Query(calls[n]),
                                           !.previous = (calls[n].id > 1),
                                           !.next = (calls[n].id < PagesOf[calls[n].what])]
          /\ ~found => body' = [body EXCEPT !.table = "failed"]
      BY <2>1, Zenon DEF AuditLoaded, Answered, Is
    <3>2. /\ body'.current = body.current /\ body'.filter = body.filter /\ body'.up = body.up
          /\ ~found => body'.table = "failed"
      BY <1>0, <1>5, <3>1 DEF AuditShape
    <3>3. found => /\ body'.rows = Query(calls[n])
                   /\ body'.previous = (calls[n].id > 1)
                   /\ body'.next = (calls[n].id < PagesOf[calls[n].what])
      <4> DEFINE e == calls[n].id > 1
                 l == calls[n].id < PagesOf[calls[n].what]
                 q == Query(calls[n])
      <4>1. found => body' = [body EXCEPT !.table = "rows", !.rows = q, !.previous = e, !.next = l]
        BY <3>1
      <4>2. AuditShape(body)
        BY <1>0, <1>5
      <4> HIDE DEF e, l, q, found
      <4>3. ASSUME NEW x, NEW y, body' = [body EXCEPT !.table = "rows", !.rows = q, !.previous = x, !.next = y]
            PROVE  body'.rows = q /\ body'.previous = x /\ body'.next = y
        BY <4>2, <4>3 DEF AuditShape
      <4>4. found => body'.rows = q /\ body'.previous = e /\ body'.next = l
        BY <4>1, <4>3, Zenon
      <4> QED
        BY <4>4, Zenon DEF e, l, q
    <3> SUFFICES ASSUME "audit" \notin missed'
                 PROVE  /\ \A i \in 1 .. Len(calls') : Latest(calls', "audit", i) =>
                             Query(calls'[i]) = [page |-> body'.current, filter |-> body'.filter, up |-> body'.up]
                        /\ (~Has(calls', "audit") /\ body'.table = "rows") => AuditShown(body')
      BY Zenon DEF AuditInv, Query, AuditShown, Exists
    <3>4. Replaced(calls, n, <<>>, calls')
      BY <2>0, <3>1, SentNone
    <3>5. "audit" \notin missed /\ "audit" \notin Overtaking(n, "audit")
      BY <3>1
    <3>6. \A j \in 1 .. Len(calls) : Latest(calls, "audit", j) =>
            Query(calls[j]) = [page |-> body.current, filter |-> body.filter, up |-> body.up]
      BY <1>5, <3>5, Zenon DEF AuditInv
    <3>7. /\ \A i : Latest(calls', "audit", i) =>
                      \E j \in 1 .. Len(calls) : Latest(calls, "audit", j) /\ calls'[i] = calls[j]
          /\ ~Has(calls', "audit") => Latest(calls, "audit", n)
      BY <3>1, <3>4, <3>5, LastHandled
    <3>8. \A i \in 1 .. Len(calls') : Latest(calls', "audit", i) =>
            Query(calls'[i]) = [page |-> body'.current, filter |-> body'.filter, up |-> body'.up]
      <4> TAKE i \in 1 .. Len(calls')
      <4> HAVE Latest(calls', "audit", i)
      <4>1. PICK j \in 1 .. Len(calls) : Latest(calls, "audit", j) /\ calls'[i] = calls[j]
        BY <3>7, Zenon
      <4>2. Query(calls'[i]) = Query(calls[j])
        BY <4>1, Zenon
      <4> QED
        BY <3>2, <3>6, <4>1, <4>2, Zenon
    <3>9. ASSUME ~Has(calls', "audit"), body'.table = "rows" PROVE AuditShown(body')
      <4>1. found
        BY <3>2, <3>9
      <4>2. Query(calls[n]) = [page |-> body.current, filter |-> body.filter, up |-> body.up]
        BY <3>6, <3>7, <3>9, Zenon
      <4>3. calls[n].id = body.current /\ calls[n].what = body.filter
        BY <4>2 DEF Query
      <4>4. body'.rows = [page |-> body'.current, filter |-> body'.filter, up |-> body'.up]
        BY <3>2, <3>3, <4>1, <4>2, Zenon
      <4>5. Exists(body'.rows)
        BY <3>3, <4>1, Zenon DEF Exists
      <4>6. body'.previous = (body'.current > 1) /\ body'.next = (body'.current < PagesOf[body'.filter])
        BY <3>2, <3>3, <4>1, <4>3, Zenon
      <4> QED
        BY <4>4, <4>5, <4>6, Zenon DEF AuditShown, Exists
    <3> QED
      BY <3>8, <3>9
  <2>2. CASE ~AuditLoaded(n)
    <3>1. PICK R, A : Turned(R, A) /\ "audit" \notin R /\ "audit" \notin A
      BY <1>5, <2>2, HandlerSends, Zenon
    <3>2. body' = body
      BY <1>5, <2>2, HandlerFrame
    <3> QED
      BY <2>0, <3>1, <3>2, AuditKept
  <2> QED
    BY <2>1, <2>2
<1>6. ASSUME NEW n \in 1 .. Len(calls), HandlerStep(n), page # "audit-logs" PROVE AuditInv'
  BY <1>2, <1>6, HandlerFrame
<1>7. ASSUME NEW n \in 1 .. Len(calls), MeAnswered(n, start(page), StartBody(page)) PROVE AuditInv'
  <2>0. /\ n \in 0 .. Len(calls) /\ n # 0 /\ UNCHANGED <<page, missed>> /\ calls[n].kind = "me"
        /\ missed \subseteq missed'
    BY <1>0, <1>7, MeFrame, MeTurns
  <2>1. CASE page # "audit-logs"
    BY <1>2, <2>0, <2>1
  <2>2. CASE page = "audit-logs" /\ Replaced(calls, n, <<>>, calls') /\ UNCHANGED body
    <3>1. Turned({"me"}, {})
      <4>1. <<>> \in Seq(AnyCall) /\ (\A j \in 1 .. Len(<<>>) : FALSE) /\ calls' \in Seq(AnyCall)
        <5>1. calls' \in Seq(AnyCall)
          BY <1>7, MeTurns
        <5> QED
          BY <5>1
      <4> QED
        BY <2>0, <2>2, <4>1 DEF Turned
    <3> QED
      BY <2>0, <2>2, <3>1, AuditKept
  <2>3. CASE page = "audit-logs" /\ Replaced(calls, n, FirstCalls, calls') /\ body' = StartBody(page)
    <3>1. body' = [body EXCEPT !.table = "loading", !.current = UserObject]
      BY <2>3, Zenon DEF StartBody, AuditStart
    <3>2. body'.current = UserObject /\ body'.filter = body.filter /\ body'.up = body.up
      BY <1>0, <2>3, <3>1 DEF AuditShape
    <3>3. \A j \in 1 .. Len(FirstCalls) : FirstCalls[j].kind = "audit" =>
            Query(FirstCalls[j]) = [page |-> body'.current, filter |-> body'.filter, up |-> body'.up]
      <4> TAKE j \in 1 .. Len(FirstCalls)
      <4>1. FirstCalls[j] = Call("unread", "") \/ FirstCalls[j] = Ask(body, UserObject)
        BY <2>3, FirstCallsAre
      <4>2. Call("unread", "").kind = "unread"
        BY DEF Call
      <4>3. Query(Ask(body, UserObject)) = [page |-> body'.current, filter |-> body'.filter, up |-> body'.up]
        BY <3>2, AskQuery, Zenon
      <4>4. CASE FirstCalls[j] = Call("unread", "")
        BY <4>2, <4>4
      <4>5. CASE FirstCalls[j] = Ask(body, UserObject)
        BY <4>3, <4>5, Zenon
      <4> QED
        BY <4>1, <4>4, <4>5
    <3>4. Has(FirstCalls, "audit")
      BY <2>3, FirstCallsAre, Zenon
    <3> QED
      BY <2>3, <3>3, <3>4, AuditAsked
  <2> QED
    BY <1>7, <2>1, <2>2, <2>3, MeTurns
<1>8. ASSUME NEW n \in 1 .. Len(calls), Serve(n) \/ Lose(n) PROVE AuditInv'
  <2>1. Rephased(n) /\ UNCHANGED <<page, body>> /\ missed \subseteq missed'
    BY <1>8, ServeEffect, LoseEffect, ServeFrame
  <2> SUFFICES ASSUME page' = "audit-logs", "audit" \notin missed'
               PROVE  /\ \A i \in 1 .. Len(calls') : Latest(calls', "audit", i) =>
                           Query(calls'[i]) = [page |-> body'.current, filter |-> body'.filter, up |-> body'.up]
                      /\ (~Has(calls', "audit") /\ body'.table = "rows") => AuditShown(body')
    BY Zenon DEF AuditInv, Query, AuditShown, Exists
  <2>2. page = "audit-logs" /\ "audit" \notin missed /\ body' = body
    BY <2>1
  <2>3. /\ \A j \in 1 .. Len(calls) : Latest(calls, "audit", j) =>
             Query(calls[j]) = [page |-> body.current, filter |-> body.filter, up |-> body.up]
        /\ (~Has(calls, "audit") /\ body.table = "rows") => AuditShown(body)
    BY <2>2, Zenon DEF AuditInv
  <2>4. /\ Has(calls', "audit") <=> Has(calls, "audit")
        /\ \A m : Latest(calls', "audit", m) <=> Latest(calls, "audit", m)
    BY <2>1, RephasedKinds
  <2>5. \A i \in 1 .. Len(calls') : Latest(calls', "audit", i) =>
          Query(calls'[i]) = [page |-> body'.current, filter |-> body'.filter, up |-> body'.up]
    <3> TAKE i \in 1 .. Len(calls')
    <3> HAVE Latest(calls', "audit", i)
    <3>1. Latest(calls, "audit", i) /\ i \in 1 .. Len(calls)
      BY <2>4 DEF Latest
    <3>2. Query(calls'[i]) = Query(calls[i])
      BY <2>1, <3>1 DEF Rephased, Query
    <3> QED
      BY <2>2, <2>3, <3>1, <3>2, Zenon
  <2>6. ASSUME ~Has(calls', "audit"), body'.table = "rows" PROVE AuditShown(body')
    <3>1. AuditShown(body)
      BY <2>2, <2>3, <2>4, <2>6, Zenon
    <3> QED
      BY <2>2, <3>1, Zenon DEF AuditShown, Exists
  <2> QED
    BY <2>5, <2>6
<1>9. ASSUME UNCHANGED vars PROVE AuditInv'
  BY <1>9 DEF vars, frame, AuditInv, Latest, Has, Query, AuditShown, Exists
<1> QED
  BY <1>0, <1>1, <1>4, <1>5, <1>6, <1>7, <1>8, <1>9, StepKinds, Zenon

\* Once nothing is asked, the Admin's rows are the current page of what the controls
\* select, and the buttons lead to pages that exist, unless answers came in another
\* order (load of audit.js notes the page before the answer).
THEOREM AuditsAreCurrent == Spec => []AuditIsCurrent
<1>1. Init => AuditInv
  BY AuditInit
<1>2. DeskShape /\ AuditInv /\ [Next]_vars => AuditInv'
  BY AuditStep
<1>3. DeskShape /\ AuditInv => AuditIsCurrent
  <2> SUFFICES ASSUME DeskShape, AuditInv, page = "audit-logs", body.table = "rows", "audit" \notin missed,
                      ~Waiting({"audit"})
               PROVE  /\ body.rows = [page |-> body.current, filter |-> body.filter, up |-> body.up]
                      /\ body.previous => Exists([body.rows EXCEPT !.page = @ - 1])
                      /\ body.next => Exists([body.rows EXCEPT !.page = @ + 1])
    BY Zenon DEF AuditIsCurrent
  <2>1. ~Has(calls, "audit")
    BY DEF Waiting, Has, DeskShape
  <2>2. AuditShown(body)
    BY <2>1, Zenon DEF AuditInv
  <2>3. body.rows = [page |-> body.current, filter |-> body.filter, up |-> body.up]
    BY <2>2, Zenon DEF AuditShown
  <2>4. body.filter \in DOMAIN PagesOf /\ body.current \in Int
    <3>1. AuditShape(body)
      BY Zenon DEF DeskShape, BodyFits
    <3> QED
      BY <3>1, Zenon DEF AuditShape
  <2>5. PagesOf[body.filter] \in Nat
    BY <2>4, AuditAssumption DEF AuditAssumption
  <2>6. body.current \in 1 .. PagesOf[body.filter]
    BY <2>2, <2>3 DEF AuditShown, Exists
  <2>7. body.previous => Exists([body.rows EXCEPT !.page = @ - 1])
    <3>1. body.previous => body.current > 1
      BY <2>2, Zenon DEF AuditShown
    <3>2. [body.rows EXCEPT !.page = @ - 1] = [page |-> body.current - 1, filter |-> body.filter, up |-> body.up]
      BY <2>3
    <3> QED
      BY <2>4, <2>5, <2>6, <3>1, <3>2 DEF Exists
  <2>8. body.next => Exists([body.rows EXCEPT !.page = @ + 1])
    <3>1. body.next => body.current < PagesOf[body.filter]
      BY <2>2, Zenon DEF AuditShown
    <3>2. [body.rows EXCEPT !.page = @ + 1] = [page |-> body.current + 1, filter |-> body.filter, up |-> body.up]
      BY <2>3
    <3> QED
      BY <2>4, <2>5, <2>6, <3>1, <3>2 DEF Exists
  <2> QED
    BY <2>3, <2>7, <2>8
<1> QED
  BY <1>1, <1>2, <1>3, DeskKeepsShape, PTL DEF Spec

-----------------------------------------------------------------------------
(* The charts.                                                             *)

\* What the steps do to the charts, to what is lit and to the list beside them.
LEMMA PicksEffect ==
  ASSUME DashboardShape(body)
  PROVE  /\ PickRange => \E r \in Buttons.growth :
              /\ Turn(0, <<Call("growth", r)>>) /\ gate = "open"
              /\ body'.lit["growth"] = r /\ body'.lit["dist"] = body.lit["dist"]
              /\ body'.chart["dist"].message = body.chart["dist"].message
              /\ \A p \in Panel : /\ body'.chart[p].data = body.chart[p].data
                                  /\ body'.chart[p].theme = body.chart[p].theme
              /\ body'.breakdown = body.breakdown
         /\ PickType => \E t \in Buttons.dist :
              /\ Turn(0, <<Call("dist", t)>>) /\ gate = "open"
              /\ body'.lit["dist"] = t /\ body'.lit["growth"] = body.lit["growth"]
              /\ body'.chart["growth"].message = body.chart["growth"].message
              /\ \A p \in Panel : /\ body'.chart[p].data = body.chart[p].data
                                  /\ body'.chart[p].theme = body.chart[p].theme
              /\ body'.breakdown = body.breakdown
<1>1. ASSUME PickRange
      PROVE  \E r \in Buttons.growth :
               /\ Turn(0, <<Call("growth", r)>>) /\ gate = "open"
               /\ body'.lit["growth"] = r /\ body'.lit["dist"] = body.lit["dist"]
               /\ body'.chart["dist"].message = body.chart["dist"].message
               /\ \A p \in Panel : /\ body'.chart[p].data = body.chart[p].data
                                   /\ body'.chart[p].theme = body.chart[p].theme
               /\ body'.breakdown = body.breakdown
  <2>1. PICK r \in Buttons.growth :
          /\ body' = [body EXCEPT !.lit.growth = r, !.chart.growth.message = "loading"]
          /\ Turn(0, <<Call("growth", r)>>)
    BY <1>1, Zenon DEF PickRange
  <2>2. /\ body'.lit["growth"] = r /\ body'.lit["dist"] = body.lit["dist"]
        /\ body'.breakdown = body.breakdown
    BY <2>1 DEF DashboardShape
  <2>3. /\ body'.chart["dist"] = body.chart["dist"]
        /\ body'.chart["growth"].data = body.chart["growth"].data
        /\ body'.chart["growth"].theme = body.chart["growth"].theme
    BY <2>1 DEF DashboardShape, Panel
  <2>4. \A p \in Panel : /\ body'.chart[p].data = body.chart[p].data
                         /\ body'.chart[p].theme = body.chart[p].theme
    BY <2>3 DEF Panel
  <2>5. gate = "open"
    BY <1>1, Zenon DEF PickRange, Ready
  <2> QED
    BY <2>1, <2>2, <2>3, <2>4, <2>5, Zenon
<1>2. ASSUME PickType
      PROVE  \E t \in Buttons.dist :
               /\ Turn(0, <<Call("dist", t)>>) /\ gate = "open"
               /\ body'.lit["dist"] = t /\ body'.lit["growth"] = body.lit["growth"]
               /\ body'.chart["growth"].message = body.chart["growth"].message
               /\ \A p \in Panel : /\ body'.chart[p].data = body.chart[p].data
                                   /\ body'.chart[p].theme = body.chart[p].theme
               /\ body'.breakdown = body.breakdown
  <2>1. PICK t \in Buttons.dist :
          /\ body' = [body EXCEPT !.lit.dist = t, !.chart.dist.message = "loading"]
          /\ Turn(0, <<Call("dist", t)>>)
    BY <1>2, Zenon DEF PickType
  <2>2. /\ body'.lit["dist"] = t /\ body'.lit["growth"] = body.lit["growth"]
        /\ body'.breakdown = body.breakdown
    BY <2>1 DEF DashboardShape
  <2>3. /\ body'.chart["growth"] = body.chart["growth"]
        /\ body'.chart["dist"].data = body.chart["dist"].data
        /\ body'.chart["dist"].theme = body.chart["dist"].theme
    BY <2>1 DEF DashboardShape, Panel
  <2>4. \A p \in Panel : /\ body'.chart[p].data = body.chart[p].data
                         /\ body'.chart[p].theme = body.chart[p].theme
    BY <2>3 DEF Panel
  <2>5. gate = "open"
    BY <1>2, Zenon DEF PickType, Ready
  <2> QED
    BY <2>1, <2>2, <2>3, <2>4, <2>5, Zenon
<1> QED
  BY <1>1, <1>2, Zenon

\* The theme button redraws every chart that was drawn once.
LEMMA ToggleEffect ==
  ASSUME DashboardShape(body), page = "dashboard", ToggleTheme
  PROVE  /\ body'.lit = body.lit /\ body'.breakdown = body.breakdown
         /\ \A p \in Panel :
              /\ body'.chart[p].data = body.chart[p].data
              /\ body.chart[p].data # "nothing" => body'.chart[p].theme = theme'
              /\ p \notin missed' /\ body.chart[p].data # "nothing" => body.chart[p].message = "none"
<1>1. PICK sizes : body' = refreshTheme(body, theme', sizes) /\ missed' = missed \cup Uncovers(body)
  BY Zenon DEF ToggleTheme
<1> DEFINE charts == [p \in Panel |->
                        IF body.chart[p].data = "nothing" THEN body.chart[p]
                        ELSE [body.chart[p] EXCEPT !.message = "none", !.theme = theme',
                                                   !.size = Picture(sizes[p])]]
<1>2. body' = [body EXCEPT !.chart = charts]
  BY <1>1 DEF refreshTheme
<1>3. \A p \in Panel : /\ charts[p].data = body.chart[p].data
                       /\ body.chart[p].data # "nothing" => charts[p].theme = theme'
  <2> TAKE p \in Panel
  <2>1. body.chart[p] = [message |-> body.chart[p].message, data |-> body.chart[p].data,
                         theme |-> body.chart[p].theme, size |-> body.chart[p].size]
    BY Zenon DEF DashboardShape
  <2>2. CASE body.chart[p].data = "nothing"
    BY <2>2
  <2>3. CASE body.chart[p].data # "nothing"
    <3>1. charts[p] = [body.chart[p] EXCEPT !.message = "none", !.theme = theme', !.size = Picture(sizes[p])]
      BY <2>3
    <3> HIDE DEF charts
    <3> QED
      BY <2>1, <3>1
  <2> QED
    BY <2>2, <2>3
<1> HIDE DEF charts
<1>4. body'.lit = body.lit /\ body'.breakdown = body.breakdown /\ body'.chart = charts
  BY <1>2 DEF DashboardShape
<1>5. \A p \in Panel : p \notin missed' /\ body.chart[p].data # "nothing" => body.chart[p].message = "none"
  BY <1>1 DEF Uncovers
<1> QED
  BY <1>3, <1>4, <1>5, Zenon

\* No other step touches the charts.
LEMMA ChartsKept ==
  ASSUME DashboardShape(body), page = "dashboard",
         \/ UserStep /\ ~(PickRange \/ PickType \/ ToggleTheme)
         \/ \E n \in 1 .. Len(calls) : DeskShape /\ HandlerStep(n) /\ ~(GrowthAnswered(n) \/ DistributionAnswered(n))
  PROVE  body'.lit = body.lit /\ body'.breakdown = body.breakdown /\ body'.chart = body.chart
<1>1. \/ body' = body
      \/ \E x : body' = [body EXCEPT !.tip = x] \/ body' = [body EXCEPT !.cards = x] \/ body' = [body EXCEPT !.feed = x]
  <2>1. CASE UserStep /\ ~(PickRange \/ PickType \/ ToggleTheme)
    <3>1. body' = body \/ HoverGrowth \/ HoverDistribution
      BY <2>1, UserFrame
    <3>2. HoverGrowth => \E x : body' = [body EXCEPT !.tip = x]
      BY Zenon DEF HoverGrowth
    <3>3. HoverDistribution => \E x : body' = [body EXCEPT !.tip = x]
      BY Zenon DEF HoverDistribution
    <3> QED
      BY <3>1, <3>2, <3>3, Zenon
  <2>2. ASSUME NEW n \in 1 .. Len(calls), DeskShape, HandlerStep(n), ~(GrowthAnswered(n) \/ DistributionAnswered(n))
        PROVE  \/ body' = body
               \/ \E x : body' = [body EXCEPT !.cards = x] \/ body' = [body EXCEPT !.feed = x]
    <3>1. body' = body \/ OverviewAnswered(n) \/ ActivityAnswered(n)
      BY <2>2, HandlerFrame
    <3>2. OverviewAnswered(n) => \E x : body' = [body EXCEPT !.cards = x]
      BY Zenon DEF OverviewAnswered
    <3>3. ActivityAnswered(n) => \E x : body' = [body EXCEPT !.feed = x]
      BY Zenon DEF ActivityAnswered
    <3> QED
      BY <3>1, <3>2, <3>3, Zenon
  <2> QED
    BY <2>1, <2>2, Zenon
<1> QED
  BY <1>1 DEF DashboardShape

\* An answer draws its own chart in the theme of the document, or hides it.
LEMMA AnswersEffect ==
  ASSUME DashboardShape(body), NEW n
  PROVE  /\ GrowthAnswered(n) =>
              /\ calls[n].kind = "growth" /\ Turn(n, <<>>) /\ missed' = missed \cup Overtaking(n, "growth")
              /\ body'.lit = body.lit /\ body'.breakdown = body.breakdown
              /\ body'.chart["dist"] = body.chart["dist"]
              /\ \/ /\ body'.chart["growth"].data = Effective(calls[n].what)
                    /\ body'.chart["growth"].theme = theme
                 \/ /\ body'.chart["growth"].message = "failed"
                    /\ body'.chart["growth"].data = body.chart["growth"].data
                    /\ body'.chart["growth"].theme = body.chart["growth"].theme
         /\ DistributionAnswered(n) =>
              /\ calls[n].kind = "dist" /\ Turn(n, <<>>) /\ missed' = missed \cup Overtaking(n, "dist")
              /\ body'.lit = body.lit
              /\ body'.chart["growth"] = body.chart["growth"]
              /\ \/ /\ body'.chart["dist"].data = calls[n].what /\ body'.breakdown = calls[n].what
                    /\ body'.chart["dist"].theme = theme
                 \/ /\ body'.chart["dist"].message = "failed" /\ body'.breakdown = body.breakdown
                    /\ body'.chart["dist"].data = body.chart["dist"].data
                    /\ body'.chart["dist"].theme = body.chart["dist"].theme
<1> DEFINE g == Effective(calls[n].what)
           w == calls[n].what
<1>1. ASSUME GrowthAnswered(n)
      PROVE  /\ calls[n].kind = "growth" /\ Turn(n, <<>>) /\ missed' = missed \cup Overtaking(n, "growth")
             /\ \/ \E z : body' = [body EXCEPT !.chart.growth =
                                     [message |-> "none", data |-> g, theme |-> theme, size |-> z]]
                \/ body' = [body EXCEPT !.chart["growth"].message = "failed"]
  BY <1>1, Zenon DEF GrowthAnswered, renderGrowth, Failed, Answered, Is
<1>2. ASSUME DistributionAnswered(n)
      PROVE  /\ calls[n].kind = "dist" /\ Turn(n, <<>>) /\ missed' = missed \cup Overtaking(n, "dist")
             /\ \/ \E z : body' = [body EXCEPT !.chart.dist =
                                     [message |-> "none", data |-> w, theme |-> theme, size |-> z],
                                              !.breakdown = w]
                \/ body' = [body EXCEPT !.chart["dist"].message = "failed"]
  BY <1>2, Zenon DEF DistributionAnswered, renderDistribution, Failed, Answered, Is
<1> HIDE DEF g, w
<1>3. ASSUME NEW p \in Panel, body' = [body EXCEPT !.chart[p].message = "failed"]
      PROVE  /\ body'.lit = body.lit /\ body'.breakdown = body.breakdown
             /\ body'.chart[p].message = "failed"
             /\ body'.chart[p].data = body.chart[p].data
             /\ body'.chart[p].theme = body.chart[p].theme
             /\ \A q \in Panel : q # p => body'.chart[q] = body.chart[q]
  <2>1. body'.lit = body.lit /\ body'.breakdown = body.breakdown
    BY <1>3 DEF DashboardShape
  <2>2. body'.chart = [body.chart EXCEPT ![p].message = "failed"]
    BY <1>3 DEF DashboardShape
  <2>3. body'.chart[p] = [body.chart[p] EXCEPT !.message = "failed"]
    BY <2>2 DEF DashboardShape
  <2>4. \A q \in Panel : q # p => body'.chart[q] = body.chart[q]
    BY <2>2 DEF DashboardShape
  <2>5. /\ body'.chart[p].message = "failed"
        /\ body'.chart[p].data = body.chart[p].data
        /\ body'.chart[p].theme = body.chart[p].theme
    BY <2>3 DEF DashboardShape
  <2> QED
    BY <2>1, <2>4, <2>5
<1>4. "growth" \in Panel /\ "dist" \in Panel
  BY DEF Panel
<1>5. ASSUME NEW z,
             body' = [body EXCEPT !.chart.growth =
                        [message |-> "none", data |-> g, theme |-> theme, size |-> z]]
      PROVE  /\ body'.lit = body.lit /\ body'.breakdown = body.breakdown
             /\ body'.chart["dist"] = body.chart["dist"]
             /\ body'.chart["growth"].data = g /\ body'.chart["growth"].theme = theme
  <2>1. body'.lit = body.lit /\ body'.breakdown = body.breakdown
    BY <1>5 DEF DashboardShape
  <2>2. body'.chart["dist"] = body.chart["dist"]
    BY <1>4, <1>5 DEF DashboardShape
  <2>3. body'.chart["growth"] = [message |-> "none", data |-> g, theme |-> theme, size |-> z]
    BY <1>4, <1>5 DEF DashboardShape
  <2> QED
    BY <2>1, <2>2, <2>3
<1>6. ASSUME NEW z,
             body' = [body EXCEPT !.chart.dist =
                        [message |-> "none", data |-> w, theme |-> theme, size |-> z],
                                  !.breakdown = w]
      PROVE  /\ body'.lit = body.lit /\ body'.breakdown = w
             /\ body'.chart["growth"] = body.chart["growth"]
             /\ body'.chart["dist"].data = w /\ body'.chart["dist"].theme = theme
  <2>1. body'.lit = body.lit /\ body'.breakdown = w
    BY <1>6 DEF DashboardShape
  <2>2. body'.chart["growth"] = body.chart["growth"]
    BY <1>4, <1>6 DEF DashboardShape
  <2>3. body'.chart["dist"] = [message |-> "none", data |-> w, theme |-> theme, size |-> z]
    BY <1>4, <1>6 DEF DashboardShape
  <2> QED
    BY <2>1, <2>2, <2>3
<1>7. /\ (body' = [body EXCEPT !.chart["growth"].message = "failed"]) =>
           /\ body'.lit = body.lit /\ body'.breakdown = body.breakdown
           /\ body'.chart["dist"] = body.chart["dist"]
           /\ body'.chart["growth"].message = "failed"
           /\ body'.chart["growth"].data = body.chart["growth"].data
           /\ body'.chart["growth"].theme = body.chart["growth"].theme
      /\ (body' = [body EXCEPT !.chart["dist"].message = "failed"]) =>
           /\ body'.lit = body.lit /\ body'.breakdown = body.breakdown
           /\ body'.chart["growth"] = body.chart["growth"]
           /\ body'.chart["dist"].message = "failed"
           /\ body'.chart["dist"].data = body.chart["dist"].data
           /\ body'.chart["dist"].theme = body.chart["dist"].theme
  BY <1>3, <1>4
<1> QED
  BY <1>1, <1>2, <1>5, <1>6, <1>7, Zenon DEF g, w

\* The first body of the dashboard draws nothing, and neither does its start.
LEMMA NothingDrawn ==
  /\ DashboardBody.breakdown = "nothing"
  /\ \A p \in Panel : DashboardBody.chart[p].data = "nothing"
  /\ DashboardShape(body) => /\ DashboardStart(body).lit = body.lit
                             /\ DashboardStart(body).breakdown = body.breakdown
                             /\ \A p \in Panel : DashboardStart(body).chart[p].data = "nothing"
<1>1. DashboardBody.breakdown = "nothing" /\ \A p \in Panel : DashboardBody.chart[p].data = "nothing"
  BY DEF DashboardBody, Blank
<1>2. ASSUME DashboardShape(body)
      PROVE  /\ DashboardStart(body).lit = body.lit
             /\ DashboardStart(body).breakdown = body.breakdown
             /\ \A p \in Panel : DashboardStart(body).chart[p].data = "nothing"
  <2> DEFINE first == [p \in Panel |-> [Blank EXCEPT !.message = "loading"]]
  <2>1. \A p \in Panel : first[p].data = "nothing"
    BY DEF Blank
  <2>2. DashboardStart(body) = [body EXCEPT !.cards = "loading", !.feed = "loading", !.chart = first]
    BY DEF DashboardStart
  <2> HIDE DEF first
  <2>3. /\ DashboardStart(body).lit = body.lit
        /\ DashboardStart(body).breakdown = body.breakdown
        /\ DashboardStart(body).chart = first
    BY <1>2, <2>2 DEF DashboardShape
  <2> QED
    BY <2>1, <2>3
<1> QED
  BY <1>1, <1>2

\* A chart whose requests a step leaves alone, and that it does not uncover.
LEMMA LitKept ==
  ASSUME NEW p, LitOf(p), NEW R, NEW A, Turned(R, A), p \notin R, p \notin A, missed \subseteq missed',
         body'.lit[p] = body.lit[p], body'.chart[p].data = body.chart[p].data,
         p \notin missed' /\ Visible(p)' => Visible(p)
  PROVE  LitOf(p)'
<1> SUFFICES ASSUME p \notin missed'
             PROVE  /\ \A i \in 1 .. Len(calls') : Latest(calls', p, i) => calls'[i].what = body'.lit[p]
                    /\ (~Has(calls', p) /\ Visible(p)') => body'.chart[p].data = Stands(p, body'.lit[p])
  BY Zenon DEF LitOf, Stands
<1>1. p \notin missed
  OBVIOUS
<1>2. /\ \A j \in 1 .. Len(calls) : Latest(calls, p, j) => calls[j].what = body.lit[p]
      /\ (~Has(calls, p) /\ Visible(p)) => body.chart[p].data = Stands(p, body.lit[p])
  BY <1>1, Zenon DEF LitOf
<1>3. /\ \A i : Latest(calls', p, i) => \E j \in 1 .. Len(calls) : Latest(calls, p, j) /\ calls'[i] = calls[j]
      /\ Has(calls', p) <=> Has(calls, p)
  BY KindKept
<1>4. \A i \in 1 .. Len(calls') : Latest(calls', p, i) => calls'[i].what = body'.lit[p]
  <2> TAKE i \in 1 .. Len(calls')
  <2> HAVE Latest(calls', p, i)
  <2>1. PICK j \in 1 .. Len(calls) : Latest(calls, p, j) /\ calls'[i] = calls[j]
    BY <1>3, Zenon
  <2> QED
    BY <1>2, <2>1
<1>5. ASSUME ~Has(calls', p), Visible(p)' PROVE body'.chart[p].data = Stands(p, body'.lit[p])
  <2>1. ~Has(calls, p) /\ Visible(p)
    BY <1>3, <1>5, Zenon
  <2> QED
    BY <1>2, <2>1
<1> QED
  BY <1>4, <1>5

\* A chart that has just been asked for.
LEMMA LitAsked ==
  ASSUME NEW p, NEW n, NEW more, Replaced(calls, n, more, calls'), Has(more, p),
         \A j \in 1 .. Len(more) : more[j].kind = p => more[j].what = body'.lit[p]
  PROVE  LitOf(p)'
<1>1. /\ Has(calls', p)
      /\ \A i : Latest(calls', p, i) => \E j \in 1 .. Len(more) : more[j].kind = p /\ calls'[i] = more[j]
  BY LastSent
<1>2. \A i : Latest(calls', p, i) => calls'[i].what = body'.lit[p]
  <2> TAKE i
  <2> HAVE Latest(calls', p, i)
  <2>1. PICK j \in 1 .. Len(more) : more[j].kind = p /\ calls'[i] = more[j]
    BY <1>1, Zenon
  <2> QED
    BY <2>1
<1> QED
  BY <1>1, <1>2, Zenon DEF LitOf

\* The answer with the data of a chart that is drawn with them, or hidden.
LEMMA LitAnswered ==
  ASSUME DeskShape, NEW p, LitOf(p), NEW n \in 1 .. Len(calls), calls[n].kind = p, Turn(n, <<>>),
         missed' = missed \cup Overtaking(n, p), body'.lit[p] = body.lit[p],
         body'.chart[p].data = Stands(p, calls[n].what) \/ body'.chart[p].message = "failed"
  PROVE  LitOf(p)'
<1> SUFFICES ASSUME p \notin missed'
             PROVE  /\ \A i \in 1 .. Len(calls') : Latest(calls', p, i) => calls'[i].what = body'.lit[p]
                    /\ (~Has(calls', p) /\ Visible(p)') => body'.chart[p].data = Stands(p, body'.lit[p])
  BY Zenon DEF LitOf, Stands
<1>1. p \notin missed /\ p \notin Overtaking(n, p)
  OBVIOUS
<1>2. \A j \in 1 .. Len(calls) : Latest(calls, p, j) => calls[j].what = body.lit[p]
  BY <1>1, Zenon DEF LitOf
<1>3. Replaced(calls, n, <<>>, calls')
  <2>1. n \in 0 .. Len(calls)
    BY DEF DeskShape
  <2> QED
    BY <2>1, SentNone
<1>4. /\ \A i : Latest(calls', p, i) => \E j \in 1 .. Len(calls) : Latest(calls, p, j) /\ calls'[i] = calls[j]
      /\ ~Has(calls', p) => Latest(calls, p, n)
  BY <1>1, <1>3, LastHandled
<1>5. \A i \in 1 .. Len(calls') : Latest(calls', p, i) => calls'[i].what = body'.lit[p]
  <2> TAKE i \in 1 .. Len(calls')
  <2> HAVE Latest(calls', p, i)
  <2>1. PICK j \in 1 .. Len(calls) : Latest(calls, p, j) /\ calls'[i] = calls[j]
    BY <1>4, Zenon
  <2> QED
    BY <1>2, <2>1
<1>6. ASSUME ~Has(calls', p), Visible(p)' PROVE body'.chart[p].data = Stands(p, body'.lit[p])
  <2>1. calls[n].what = body'.lit[p]
    BY <1>2, <1>4, <1>6, Zenon
  <2>2. body'.chart[p].message # "failed"
    BY <1>6 DEF Visible
  <2> QED
    BY <2>1, <2>2, Zenon
<1> QED
  BY <1>5, <1>6

\* No chart of a new dashboard is visible.
LEMMA LitInit == Init => LitInv
<1> SUFFICES ASSUME Init, page = "dashboard" PROVE LitInv
  BY DEF LitInv
<1> DEFINE c == Call("me", "")
<1>1. c.kind = "me"
  BY DEF Call
<1>2. (calls = <<>> \/ calls = <<c>>) /\ body = DashboardBody
  BY DEF Init, FirstBody
<1> HIDE DEF c
<1>3. \A n \in 1 .. Len(calls) : calls[n].kind = "me"
  BY <1>1, <1>2
<1>4. \A p \in Panel : ~Visible(p) /\ p # "me"
  BY <1>2, NothingDrawn DEF Visible, Panel
<1> QED
  BY <1>3, <1>4 DEF LitInv, LitOf, Latest

\* The last request under way for a chart is for the lit button.
LEMMA LitStep ==
  ASSUME DeskShape, LitInv, [Next]_vars
  PROVE  LitInv'
<1>0. calls \in Seq(AnyCall) /\ (page = "dashboard" => DashboardShape(body))
  BY Zenon DEF DeskShape, BodyFits
<1>1. ASSUME NEW p, NewDocument(p, FirstBody(p)) PROVE LitInv'
  <2>1. /\ page' = p /\ body' = FirstBody(p)
        /\ Len(calls') = 0 \/ (Len(calls') = 1 /\ calls'[1].kind = "me")
    BY <1>1, DocumentEffect
  <2> SUFFICES ASSUME page' = "dashboard", NEW q \in Panel PROVE LitOf(q)'
    BY Zenon DEF LitInv
  <2>2. body'.chart[q].data = "nothing" /\ q # "me"
    BY <2>1, NothingDrawn DEF FirstBody, Panel
  <2>3. \A i \in 1 .. Len(calls') : ~Latest(calls', q, i)
    BY <2>1, <2>2 DEF Latest
  <2> QED
    BY <2>2, <2>3 DEF LitOf, Visible
<1>2. ASSUME page' # "dashboard" PROVE LitInv'
  BY <1>2 DEF LitInv
<1>3. ASSUME page = "dashboard", page' = page PROVE DashboardShape(body) /\ \A p \in Panel : LitOf(p)
  BY <1>0, <1>3, Zenon DEF LitInv
<1>4. ASSUME NEW p \in Panel, \A q \in Panel : LitOf(q), missed \subseteq missed', NEW R, NEW A, Turned(R, A),
             p \notin R, p \notin A,
             body'.lit[p] = body.lit[p], body'.chart[p].data = body.chart[p].data,
             body'.chart[p].message = body.chart[p].message
      PROVE  LitOf(p)'
  <2>1. Visible(p)' => Visible(p)
    BY <1>4, Zenon DEF Visible
  <2> QED
    BY <1>4, <2>1, LitKept
<1>5. ASSUME UserStep, page = "dashboard" PROVE LitInv'
  <2>0. UNCHANGED page /\ missed \subseteq missed'
    BY <1>5, UserFrame
  <2>1. DashboardShape(body) /\ \A p \in Panel : LitOf(p)
    BY <1>3, <1>5, <2>0
  <2>2. PICK A : /\ Turned({}, A) /\ ("growth" \in A => PickRange) /\ ("dist" \in A => PickType)
    BY <1>5, UserSends, Zenon
  <2> SUFFICES LitOf("growth")' /\ LitOf("dist")'
    BY Zenon DEF LitInv, Panel
  <2>3. "growth" \in Panel /\ "dist" \in Panel /\ "growth" # "dist"
    BY DEF Panel
  <2>4. ASSUME NEW k \in What, NEW p \in Panel, Turn(0, <<Call(p, k)>>), body'.lit[p] = k
        PROVE  LitOf(p)' /\ Turned({}, {p})
    <3> DEFINE c == Call(p, k)
    <3>1. c \in AnyCall /\ c.kind = p /\ c.what = k
      <4>1. p \in Kind
        BY DEF Panel, Kind
      <4> QED
        BY <4>1, CallTyped
    <3>2. Turn(0, <<c>>)
      BY <2>4
    <3> HIDE DEF c
    <3>3. 0 \in 0 .. Len(calls)
      BY <1>0
    <3>4. Replaced(calls, 0, <<c>>, calls') /\ Turned({}, {p})
      BY <3>1, <3>2, <3>3, SentOne
    <3>5. Has(<<c>>, p) /\ \A j \in 1 .. Len(<<c>>) : <<c>>[j].kind = p => <<c>>[j].what = body'.lit[p]
      BY <2>4, <3>1 DEF Has
    <3> QED
      BY <3>4, <3>5, LitAsked
  <2>5. CASE PickRange
    <3>1. PICK r \in Buttons.growth :
            /\ Turn(0, <<Call("growth", r)>>)
            /\ body'.lit["growth"] = r /\ body'.lit["dist"] = body.lit["dist"]
            /\ body'.chart["dist"].message = body.chart["dist"].message
            /\ \A p \in Panel : body'.chart[p].data = body.chart[p].data
      BY <2>1, <2>5, PicksEffect, Zenon
    <3>2. LitOf("growth")' /\ Turned({}, {"growth"})
      BY <2>3, <2>4, <3>1 DEF What
    <3>3. LitOf("dist")'
      BY <1>4, <2>0, <2>1, <2>3, <3>1, <3>2
    <3> QED
      BY <3>2, <3>3
  <2>6. CASE PickType
    <3>1. PICK t \in Buttons.dist :
            /\ Turn(0, <<Call("dist", t)>>)
            /\ body'.lit["dist"] = t /\ body'.lit["growth"] = body.lit["growth"]
            /\ body'.chart["growth"].message = body.chart["growth"].message
            /\ \A p \in Panel : body'.chart[p].data = body.chart[p].data
      BY <2>1, <2>6, PicksEffect, Zenon
    <3>2. LitOf("dist")' /\ Turned({}, {"dist"})
      BY <2>3, <2>4, <3>1 DEF What
    <3>3. LitOf("growth")'
      BY <1>4, <2>0, <2>1, <2>3, <3>1, <3>2
    <3> QED
      BY <3>2, <3>3
  <2>7. CASE ToggleTheme
    <3>1. /\ body'.lit = body.lit
          /\ \A p \in Panel :
               /\ body'.chart[p].data = body.chart[p].data
               /\ p \notin missed' /\ body.chart[p].data # "nothing" => body.chart[p].message = "none"
      BY <1>5, <2>1, <2>7, ToggleEffect
    <3>2. ASSUME NEW p \in Panel PROVE LitOf(p)'
      <4>1. p \notin missed' /\ Visible(p)' => Visible(p)
        BY <3>1 DEF Visible
      <4>2. Turned({}, {})
        BY <2>7, UserTurns, Zenon
      <4> QED
        BY <2>0, <2>1, <3>1, <4>1, <4>2, LitKept
    <3> QED
      BY <2>3, <3>2
  <2>8. CASE ~(PickRange \/ PickType \/ ToggleTheme)
    <3>1. body'.lit = body.lit /\ body'.chart = body.chart
      BY <1>5, <2>1, <2>8, ChartsKept
    <3> QED
      BY <1>4, <2>0, <2>1, <2>2, <2>3, <2>8, <3>1
  <2> QED
    BY <2>5, <2>6, <2>7, <2>8
<1>6. ASSUME NEW n \in 1 .. Len(calls), HandlerStep(n), page = "dashboard" PROVE LitInv'
  <2>0. UNCHANGED page /\ missed \subseteq missed'
    BY <1>6, HandlerFrame
  <2>1. DashboardShape(body) /\ \A p \in Panel : LitOf(p)
    BY <1>3, <1>6, <2>0
  <2>2. PICK R, A : /\ Turned(R, A) /\ ("growth" \in R => GrowthAnswered(n)) /\ ("dist" \in R => DistributionAnswered(n))
                    /\ "growth" \notin A /\ "dist" \notin A
    BY <1>6, HandlerSends, Zenon
  <2> SUFFICES LitOf("growth")' /\ LitOf("dist")'
    BY Zenon DEF LitInv, Panel
  <2>3. "growth" \in Panel /\ "dist" \in Panel /\ "growth" # "dist"
    BY DEF Panel
  <2>4. CASE GrowthAnswered(n)
    <3>1. /\ calls[n].kind = "growth" /\ Turn(n, <<>>) /\ missed' = missed \cup Overtaking(n, "growth")
          /\ body'.lit = body.lit
          /\ body'.chart["dist"] = body.chart["dist"]
          /\ body'.chart["growth"].data = Effective(calls[n].what) \/ body'.chart["growth"].message = "failed"
      BY <2>1, <2>4, AnswersEffect, Zenon
    <3>2. LitOf("growth")'
      <4>1. Stands("growth", calls[n].what) = Effective(calls[n].what)
        BY DEF Stands
      <4> QED
        BY <2>1, <2>3, <3>1, <4>1, LitAnswered
    <3>3. LitOf("dist")'
      <4>1. Turned({"growth"}, {})
        BY <2>4, HandlerTurns, Zenon
      <4> QED
        BY <1>4, <2>0, <2>1, <2>3, <3>1, <4>1
    <3> QED
      BY <3>2, <3>3
  <2>5. CASE DistributionAnswered(n)
    <3>1. /\ calls[n].kind = "dist" /\ Turn(n, <<>>) /\ missed' = missed \cup Overtaking(n, "dist")
          /\ body'.lit = body.lit
          /\ body'.chart["growth"] = body.chart["growth"]
          /\ body'.chart["dist"].data = calls[n].what \/ body'.chart["dist"].message = "failed"
      BY <2>1, <2>5, AnswersEffect, Zenon
    <3>2. LitOf("dist")'
      <4>1. Stands("dist", calls[n].what) = calls[n].what
        BY DEF Stands
      <4> QED
        BY <2>1, <2>3, <3>1, <4>1, LitAnswered
    <3>3. LitOf("growth")'
      <4>1. Turned({"dist"}, {})
        BY <2>5, HandlerTurns, Zenon
      <4> QED
        BY <1>4, <2>0, <2>1, <2>3, <3>1, <4>1
    <3> QED
      BY <3>2, <3>3
  <2>6. CASE ~(GrowthAnswered(n) \/ DistributionAnswered(n))
    <3>1. body'.lit = body.lit /\ body'.chart = body.chart
      BY <1>6, <2>1, <2>6, ChartsKept
    <3> QED
      BY <1>4, <2>0, <2>1, <2>2, <2>3, <2>6, <3>1
  <2> QED
    BY <2>4, <2>5, <2>6
<1>7. ASSUME NEW n \in 1 .. Len(calls), MeAnswered(n, start(page), StartBody(page)), page = "dashboard" PROVE LitInv'
  <2>0. /\ n \in 0 .. Len(calls) /\ n # 0 /\ UNCHANGED <<page, missed>> /\ calls[n].kind = "me"
        /\ missed \subseteq missed'
    BY <1>0, <1>7, MeFrame, MeTurns
  <2>1. DashboardShape(body) /\ \A p \in Panel : LitOf(p)
    BY <1>3, <1>7, <2>0
  <2> SUFFICES ASSUME NEW p \in Panel PROVE LitOf(p)'
    BY Zenon DEF LitInv
  <2>2. CASE Replaced(calls, n, <<>>, calls') /\ UNCHANGED body
    <3>1. Turned({"me"}, {})
      <4>1. <<>> \in Seq(AnyCall) /\ (\A j \in 1 .. Len(<<>>) : FALSE) /\ calls' \in Seq(AnyCall)
        <5>1. calls' \in Seq(AnyCall)
          BY <1>7, MeTurns
        <5> QED
          BY <5>1
      <4> QED
        BY <2>0, <2>2, <4>1 DEF Turned
    <3>2. p # "me"
      BY DEF Panel
    <3> QED
      BY <1>4, <2>0, <2>1, <2>2, <3>1, <3>2
  <2>3. CASE Replaced(calls, n, FirstCalls, calls') /\ body' = StartBody(page)
    <3>1. body'.lit = body.lit
      BY <1>7, <2>1, <2>3, NothingDrawn DEF StartBody
    <3>2. Has(FirstCalls, p)
      BY <1>7, FirstCallsAre, Zenon
    <3>3. \A j \in 1 .. Len(FirstCalls) : FirstCalls[j].kind = p => FirstCalls[j].what = body'.lit[p]
      <4> TAKE j \in 1 .. Len(FirstCalls)
      <4> DEFINE c == FirstCalls[j]
      <4>1. \/ c = Call("unread", "") \/ c = Call("overview", "")
            \/ c = Call("growth", body.lit.growth) \/ c = Call("dist", body.lit.dist)
            \/ c = Call("activity", "")
        BY <1>7, FirstCallsAre, Zenon
      <4> HIDE DEF c
      <4>2. \/ c.kind \in {"unread", "overview", "activity"}
            \/ c.kind = "growth" /\ c.what = body.lit["growth"]
            \/ c.kind = "dist" /\ c.what = body.lit["dist"]
        <5>1. /\ Call("unread", "").kind = "unread" /\ Call("overview", "").kind = "overview"
              /\ Call("activity", "").kind = "activity"
              /\ Call("growth", body.lit.growth).kind = "growth" /\ Call("growth", body.lit.growth).what = body.lit.growth
              /\ Call("dist", body.lit.dist).kind = "dist" /\ Call("dist", body.lit.dist).what = body.lit.dist
          BY DEF Call
        <5> QED
          BY <4>1, <5>1
      <4>3. p = "growth" \/ p = "dist"
        BY DEF Panel
      <4>4. c.kind = p => c.what = body.lit[p]
        BY <4>2, <4>3
      <4>5. c.kind = p => c.what = body'.lit[p]
        BY <3>1, <4>4, Zenon
      <4> QED
        BY <4>5, Zenon DEF c
    <3> QED
      BY <2>3, <3>2, <3>3, LitAsked
  <2> QED
    BY <1>7, <2>2, <2>3, MeTurns
<1>8. ASSUME NEW n \in 1 .. Len(calls), Serve(n) \/ Lose(n), page = "dashboard" PROVE LitInv'
  <2>1. Rephased(n) /\ UNCHANGED <<page, body>> /\ missed \subseteq missed'
    BY <1>8, ServeEffect, LoseEffect, ServeFrame
  <2>2. \A p \in Panel : LitOf(p)
    BY <1>3, <1>8, <2>1
  <2> SUFFICES ASSUME NEW p \in Panel PROVE LitOf(p)'
    BY Zenon DEF LitInv
  <2>3. /\ Has(calls', p) <=> Has(calls, p)
        /\ \A m : Latest(calls', p, m) <=> Latest(calls, p, m)
    BY <2>1, RephasedKinds
  <2>4. \A i \in 1 .. Len(calls) : calls'[i].what = calls[i].what
    BY <2>1 DEF Rephased
  <2>5. \A i : Latest(calls, p, i) => i \in 1 .. Len(calls)
    BY Zenon DEF Latest
  <2>6. LitOf(p) /\ (Visible(p)' => Visible(p))
    BY <2>1, <2>2, Zenon DEF Visible
  <2> QED
    BY <2>1, <2>3, <2>4, <2>5, <2>6 DEF LitOf
<1>9. ASSUME UNCHANGED vars PROVE LitInv'
  BY <1>9 DEF vars, frame, LitInv, LitOf, Latest, Has, Visible, Stands
<1>10. ASSUME page # "dashboard", UNCHANGED page PROVE LitInv'
  BY <1>2, <1>10
<1>11. ASSUME UserStep PROVE LitInv'
  BY <1>5, <1>10, <1>11, UserFrame
<1>12. ASSUME NEW n \in 1 .. Len(calls), HandlerStep(n) PROVE LitInv'
  BY <1>6, <1>10, <1>12, HandlerFrame
<1>13. ASSUME NEW n \in 1 .. Len(calls), MeAnswered(n, start(page), StartBody(page)) PROVE LitInv'
  BY <1>7, <1>10, <1>13, MeFrame
<1>14. ASSUME NEW n \in 1 .. Len(calls), Serve(n) \/ Lose(n) PROVE LitInv'
  BY <1>8, <1>10, <1>14, ServeFrame
<1> QED
  BY <1>0, <1>1, <1>9, <1>11, <1>12, <1>13, <1>14, StepKinds, Zenon

\* A chart that is visible when nothing is asked for shows what its lit button
\* stands for, unless answers came in another order or the theme was changed under
\* a message (loadGrowth and loadDistribution of dashboard.js).
THEOREM ChartsAreLit == Spec => []ChartIsLit
<1>1. Init => LitInv
  BY LitInit
<1>2. DeskShape /\ LitInv /\ [Next]_vars => LitInv'
  BY LitStep
<1>3. DeskShape /\ LitInv => ChartIsLit
  <2> SUFFICES ASSUME DeskShape, LitInv, page = "dashboard", NEW p \in Panel,
                      Visible(p), ~Waiting({p}), p \notin missed
               PROVE  body.chart[p].data = (IF p = "growth" THEN Effective(body.lit[p]) ELSE body.lit[p])
    BY Zenon DEF ChartIsLit
  <2>1. ~Has(calls, p)
    BY DEF Waiting, Has, DeskShape
  <2>2. body.chart[p].data = Stands(p, body.lit[p])
    BY <2>1, Zenon DEF LitInv, LitOf
  <2> QED
    BY <2>2, Zenon DEF Stands
<1> QED
  BY <1>1, <1>2, <1>3, DeskKeepsShape, PTL DEF Spec

\* The list beside the distribution chart, and the theme of what is drawn.

\* A chart whose requests a step leaves alone and that it does not redraw.
LEMMA WholeKept ==
  ASSUME NEW p, WholeOf(p), NEW R, NEW A, Turned(R, A), p \notin R, p \notin A, UNCHANGED gate,
         body'.chart[p].data = body.chart[p].data,
         body'.chart[p].data # "nothing" => body'.chart[p].theme = theme'
  PROVE  WholeOf(p)'
<1>1. Has(calls', p) <=> Has(calls, p)
  BY KindKept
<1> QED
  BY <1>1, Zenon DEF WholeOf

\* While the page is open, only the theme of what is drawn is at stake.
LEMMA WholeOpen ==
  ASSUME NEW p, gate' = "open", body'.chart[p].data # "nothing" => body'.chart[p].theme = theme'
  PROVE  WholeOf(p)'
BY DEF WholeOf

\* A document begins with nothing drawn.
LEMMA WholeInit == Init => WholeInv
<1> SUFFICES ASSUME Init, page = "dashboard" PROVE WholeInv
  BY DEF WholeInv
<1> DEFINE c == Call("me", "")
<1>1. c.kind = "me"
  BY DEF Call
<1>2. (calls = <<>> \/ calls = <<c>>) /\ body = DashboardBody
  BY DEF Init, FirstBody
<1> HIDE DEF c
<1>3. \A n \in 1 .. Len(calls) : calls[n].kind = "me"
  BY <1>1, <1>2
<1>4. /\ body.breakdown = "nothing" /\ body.chart["dist"].data = "nothing"
      /\ \A p \in Panel : body.chart[p].data = "nothing" /\ p # "me"
  BY <1>2, NothingDrawn DEF Panel
<1>5. \A p \in Panel : ~Has(calls, p)
  BY <1>3, <1>4 DEF Has
<1> QED
  BY <1>4, <1>5, Zenon DEF WholeInv, WholeOf

\* Clicks, answers and the theme button keep list, chart and theme together.
LEMMA WholeStep ==
  ASSUME DeskShape, RoleInv, WholeInv, [Next]_vars
  PROVE  WholeInv'
<1>0. /\ calls \in Seq(AnyCall) /\ (page = "dashboard" => DashboardShape(body))
      /\ "growth" \in Panel /\ "dist" \in Panel /\ "growth" # "dist"
      /\ \A p \in Panel : p = "growth" \/ p = "dist"
  BY Zenon DEF DeskShape, BodyFits, Panel
<1>1. ASSUME NEW p, NewDocument(p, FirstBody(p)) PROVE WholeInv'
  <2>1. /\ page' = p /\ body' = FirstBody(p)
        /\ Len(calls') = 0 \/ (Len(calls') = 1 /\ calls'[1].kind = "me")
    BY <1>1, DocumentEffect
  <2> SUFFICES ASSUME page' = "dashboard" PROVE WholeInv'
    BY DEF WholeInv
  <2>2. /\ body'.breakdown = "nothing" /\ body'.chart["dist"].data = "nothing"
        /\ \A q \in Panel : body'.chart[q].data = "nothing" /\ q # "me"
    BY <2>1, NothingDrawn DEF FirstBody, Panel
  <2>3. \A q \in Panel : ~Has(calls', q)
    BY <2>1, <2>2 DEF Has
  <2> QED
    BY <2>2, <2>3, Zenon DEF WholeInv, WholeOf
<1>2. ASSUME page' # "dashboard" PROVE WholeInv'
  BY <1>2 DEF WholeInv
<1>3. ASSUME page = "dashboard"
      PROVE  /\ DashboardShape(body) /\ body.breakdown = body.chart["dist"].data
             /\ \A p \in Panel : WholeOf(p)
  BY <1>0, <1>3, Zenon DEF WholeInv
<1>5. ASSUME UserStep, page = "dashboard" PROVE WholeInv'
  <2>0. UNCHANGED <<page, gate>> /\ (ToggleTheme \/ theme' = theme)
    BY <1>5, UserFrame
  <2>1. /\ DashboardShape(body) /\ body.breakdown = body.chart["dist"].data
        /\ \A p \in Panel : WholeOf(p)
    BY <1>3, <1>5
  <2>2. PICK A : /\ Turned({}, A) /\ ("growth" \in A => PickRange) /\ ("dist" \in A => PickType)
    BY <1>5, UserSends, Zenon
  <2>3. \A p \in Panel : body.chart[p].data # "nothing" => body.chart[p].theme = theme
    BY <2>1, Zenon DEF WholeOf
  <2>4. CASE PickRange \/ PickType
    <3>1. /\ gate = "open" /\ body'.breakdown = body.breakdown
          /\ \A p \in Panel : /\ body'.chart[p].data = body.chart[p].data
                              /\ body'.chart[p].theme = body.chart[p].theme
      BY <2>1, <2>4, PicksEffect, Zenon
    <3>2. theme' = theme
      BY <2>4 DEF PickRange, PickType
    <3>3. \A p \in Panel : WholeOf(p)'
      <4> TAKE p \in Panel
      <4> QED
        BY <2>0, <2>3, <3>1, <3>2, WholeOpen
    <3> QED
      BY <1>0, <2>1, <3>1, <3>3, Zenon DEF WholeInv
  <2>5. CASE ToggleTheme
    <3>1. /\ body'.breakdown = body.breakdown
          /\ \A p \in Panel :
               /\ body'.chart[p].data = body.chart[p].data
               /\ body.chart[p].data # "nothing" => body'.chart[p].theme = theme'
      BY <1>5, <2>1, <2>5, ToggleEffect
    <3>2. Turned({}, {})
      BY <2>5, UserTurns, Zenon
    <3>3. \A p \in Panel : WholeOf(p)'
      <4> TAKE p \in Panel
      <4>1. /\ WholeOf(p) /\ UNCHANGED gate /\ body'.chart[p].data = body.chart[p].data
            /\ body'.chart[p].data # "nothing" => body'.chart[p].theme = theme'
        BY <2>0, <2>1, <3>1
      <4> QED
        BY <3>2, <4>1, WholeKept
    <3> QED
      BY <1>0, <2>1, <3>1, <3>3, Zenon DEF WholeInv
  <2>6. CASE ~(PickRange \/ PickType \/ ToggleTheme)
    <3>1. body'.breakdown = body.breakdown /\ body'.chart = body.chart
      BY <1>5, <2>1, <2>6, ChartsKept
    <3>2. \A p \in Panel : WholeOf(p)'
      <4> TAKE p \in Panel
      <4>1. /\ WholeOf(p) /\ UNCHANGED gate /\ body'.chart[p].data = body.chart[p].data
            /\ body'.chart[p].data # "nothing" => body'.chart[p].theme = theme'
        BY <2>0, <2>1, <2>3, <2>6, <3>1
      <4>2. p \notin A /\ p \notin {}
        BY <1>0, <2>2, <2>6
      <4> QED
        BY <2>2, <4>1, <4>2, WholeKept
    <3> QED
      BY <2>1, <3>1, <3>2, Zenon DEF WholeInv
  <2> QED
    BY <2>4, <2>5, <2>6
<1>6. ASSUME NEW n \in 1 .. Len(calls), HandlerStep(n), page = "dashboard" PROVE WholeInv'
  <2>0. UNCHANGED <<page, gate, theme>>
    BY <1>6, HandlerFrame
  <2>1. /\ DashboardShape(body) /\ body.breakdown = body.chart["dist"].data
        /\ \A p \in Panel : WholeOf(p)
    BY <1>3, <1>6
  <2>2. PICK R, A : /\ Turned(R, A) /\ ("growth" \in R => GrowthAnswered(n)) /\ ("dist" \in R => DistributionAnswered(n))
                    /\ "growth" \notin A /\ "dist" \notin A
    BY <1>6, HandlerSends, Zenon
  <2>3. \A p \in Panel : body.chart[p].data # "nothing" => body.chart[p].theme = theme
    BY <2>1, Zenon DEF WholeOf
  <2>4. CASE GrowthAnswered(n) \/ DistributionAnswered(n)
    <3>1. calls[n].kind \in Panel
      BY <1>0, <2>1, <2>4, AnswersEffect, Zenon
    <3>2. gate = "open"
      BY <2>1, <3>1, Zenon DEF WholeOf, Has
    <3>3. /\ body'.breakdown = body'.chart["dist"].data
          /\ \A p \in {"growth", "dist"} :
               \/ body'.chart[p].theme = theme
               \/ body'.chart[p].data = body.chart[p].data /\ body'.chart[p].theme = body.chart[p].theme
      <4>1. CASE GrowthAnswered(n)
        <5>1. /\ body'.breakdown = body.breakdown /\ body'.chart["dist"] = body.chart["dist"]
              /\ \/ body'.chart["growth"].theme = theme
                 \/ /\ body'.chart["growth"].data = body.chart["growth"].data
                    /\ body'.chart["growth"].theme = body.chart["growth"].theme
          BY <2>1, <4>1, AnswersEffect, Zenon
        <5> QED
          BY <2>1, <5>1
      <4>2. CASE DistributionAnswered(n)
        <5>1. /\ body'.chart["growth"] = body.chart["growth"]
              /\ \/ /\ body'.chart["dist"].data = calls[n].what /\ body'.breakdown = calls[n].what
                    /\ body'.chart["dist"].theme = theme
                 \/ /\ body'.breakdown = body.breakdown
                    /\ body'.chart["dist"].data = body.chart["dist"].data
                    /\ body'.chart["dist"].theme = body.chart["dist"].theme
          BY <2>1, <4>2, AnswersEffect, Zenon
        <5> QED
          BY <2>1, <5>1
      <4> QED
        BY <2>4, <4>1, <4>2
    <3>4. \A p \in Panel : WholeOf(p)'
      <4> TAKE p \in Panel
      <4>1. gate' = "open" /\ (body'.chart[p].data # "nothing" => body'.chart[p].theme = theme')
        BY <1>0, <2>0, <2>3, <3>2, <3>3
      <4> QED
        BY <4>1, WholeOpen
    <3> QED
      BY <3>3, <3>4, Zenon DEF WholeInv
  <2>5. CASE ~(GrowthAnswered(n) \/ DistributionAnswered(n))
    <3>1. body'.breakdown = body.breakdown /\ body'.chart = body.chart
      BY <1>6, <2>1, <2>5, ChartsKept
    <3>2. \A p \in Panel : WholeOf(p)'
      <4> TAKE p \in Panel
      <4>1. /\ WholeOf(p) /\ UNCHANGED gate /\ body'.chart[p].data = body.chart[p].data
            /\ body'.chart[p].data # "nothing" => body'.chart[p].theme = theme'
        BY <2>0, <2>1, <2>3, <3>1
      <4>2. p \notin R /\ p \notin A
        BY <1>0, <2>2, <2>5
      <4> QED
        BY <2>2, <4>1, <4>2, WholeKept
    <3> QED
      BY <2>1, <3>1, <3>2, Zenon DEF WholeInv
  <2> QED
    BY <2>4, <2>5
<1>7. ASSUME NEW n \in 1 .. Len(calls), MeAnswered(n, start(page), StartBody(page)), page = "dashboard" PROVE WholeInv'
  <2>0. /\ n \in 0 .. Len(calls) /\ n # 0 /\ UNCHANGED <<page, theme>> /\ calls[n].kind = "me"
    BY <1>0, <1>7, MeFrame, MeTurns
  <2>1. /\ DashboardShape(body) /\ body.breakdown = body.chart["dist"].data
        /\ \A p \in Panel : WholeOf(p)
    BY <1>3, <1>7
  <2>2. gate # "open"
    BY <2>0, Zenon DEF RoleInv, AskedOnce, Has
  <2>3. \A p \in Panel : body.chart[p].data = "nothing" /\ ~Has(calls, p)
    BY <2>1, <2>2, Zenon DEF WholeOf
  <2>4. CASE gate' = "left" /\ Replaced(calls, n, <<>>, calls') /\ UNCHANGED body
    <3>1. \A p \in Panel : ~Has(calls', p)
      <4> TAKE p \in Panel
      <4>1. ~Has(<<>>, p)
        BY DEF Has
      <4> QED
        BY <2>3, <2>4, <4>1 DEF Replaced, Has
    <3> QED
      BY <2>1, <2>3, <2>4, <3>1, Zenon DEF WholeInv, WholeOf
  <2>5. CASE gate' = "open" /\ body' = StartBody(page)
    <3>1. StartBody(page) = DashboardStart(body)
      BY <1>7 DEF StartBody
    <3>2. /\ body'.breakdown = body.breakdown
          /\ \A p \in Panel : body'.chart[p].data = "nothing"
      BY <2>1, <2>5, <3>1, NothingDrawn, Zenon
    <3> QED
      BY <1>0, <2>1, <2>3, <2>5, <3>2, Zenon DEF WholeInv, WholeOf
  <2> QED
    BY <1>7, <2>4, <2>5, MeTurns
<1>8. ASSUME NEW n \in 1 .. Len(calls), Serve(n) \/ Lose(n), page = "dashboard" PROVE WholeInv'
  <2>1. Rephased(n) /\ UNCHANGED <<page, gate, theme, body>>
    BY <1>8, ServeEffect, LoseEffect, ServeFrame
  <2>2. body.breakdown = body.chart["dist"].data /\ \A p \in Panel : WholeOf(p)
    BY <1>3, <1>8
  <2>3. \A p : Has(calls', p) <=> Has(calls, p)
    BY <2>1, RephasedKinds
  <2>4. \A p \in Panel : WholeOf(p)'
    BY <2>1, <2>2, <2>3, Zenon DEF WholeOf
  <2> QED
    BY <2>1, <2>2, <2>4, Zenon DEF WholeInv
<1>9. ASSUME UNCHANGED vars PROVE WholeInv'
  BY <1>9 DEF vars, frame, WholeInv, WholeOf, Has
<1>10. ASSUME page # "dashboard", UNCHANGED page PROVE WholeInv'
  BY <1>2, <1>10
<1>11. ASSUME UserStep PROVE WholeInv'
  BY <1>5, <1>10, <1>11, UserFrame
<1>12. ASSUME NEW n \in 1 .. Len(calls), HandlerStep(n) PROVE WholeInv'
  BY <1>6, <1>10, <1>12, HandlerFrame
<1>13. ASSUME NEW n \in 1 .. Len(calls), MeAnswered(n, start(page), StartBody(page)) PROVE WholeInv'
  BY <1>7, <1>10, <1>13, MeFrame
<1>14. ASSUME NEW n \in 1 .. Len(calls), Serve(n) \/ Lose(n) PROVE WholeInv'
  BY <1>8, <1>10, <1>14, ServeFrame
<1> QED
  BY <1>0, <1>1, <1>9, <1>11, <1>12, <1>13, <1>14, StepKinds, Zenon

\* In whatever order answers, clicks and the theme button come: the list beside
\* the distribution chart is about the data of that chart, and what is visible
\* wears the theme of the document (drawDistribution, applyTheme).
THEOREM ChartsAreWhole == Spec => []ChartIsWhole
<1>1. Init => RoleInv /\ WholeInv
  BY RoleInit, WholeInit
<1>2. DeskShape /\ RoleInv /\ WholeInv /\ [Next]_vars => RoleInv' /\ WholeInv'
  BY RoleStep, WholeStep
<1>3. WholeInv => ChartIsWhole
  <2> SUFFICES ASSUME WholeInv, page = "dashboard"
               PROVE  /\ body.breakdown = body.chart.dist.data
                      /\ \A p \in Panel : Visible(p) => body.chart[p].theme = theme
    BY Zenon DEF ChartIsWhole
  <2>1. body.breakdown = body.chart["dist"].data /\ \A p \in Panel : WholeOf(p)
    BY Zenon DEF WholeInv
  <2>2. body.breakdown = body.chart.dist.data
    BY <2>1
  <2> QED
    BY <2>1, <2>2, Zenon DEF WholeOf, Visible
<1> QED
  BY <1>1, <1>2, <1>3, DeskKeepsShape, PTL DEF Spec

-----------------------------------------------------------------------------
(* The arithmetic of the charts.                                           *)

\* A set of natural numbers has a least element.
LEMMA LeastNumber ==
  ASSUME NEW T \in SUBSET Nat, T # {}
  PROVE  \E m \in T : \A k \in T : m <= k
<1> DEFINE I == {1 .. n : n \in T}
<1>1. I \subseteq FiniteSubsetsOf(Nat) /\ I # {}
  <2>1. ASSUME NEW n \in T PROVE 1 .. n \in FiniteSubsetsOf(Nat)
    <3>1. n \in Int /\ 1 \in Int /\ 1 .. n \in SUBSET Nat
      OBVIOUS
    <3> QED
      BY <3>1, FS_Interval DEF FiniteSubsetsOf
  <2> QED
    BY <2>1
<1>2. \E i \in I : \A j \in I : ~ (<<j, i>> \in StrictSubsetOrdering(Nat))
  <2>1. IsWellFoundedOn(StrictSubsetOrdering(Nat), FiniteSubsetsOf(Nat))
    BY FS_StrictSubsetOrderingWellFounded, Zenon
  <2> HIDE DEF I
  <2> QED
    BY <1>1, <2>1, WFMin, Zenon
<1>3. PICK m \in T : \A k \in T : ~ (<<1 .. k, 1 .. m>> \in StrictSubsetOrdering(Nat))
  BY <1>2, Zenon
<1>4. ASSUME NEW k \in T PROVE m <= k
  <2> SUFFICES ASSUME k < m PROVE FALSE
    OBVIOUS
  <2>1. 1 .. k \in SUBSET Nat /\ 1 .. m \in SUBSET Nat /\ 1 .. k \subseteq 1 .. m
    OBVIOUS
  <2>2. m \in 1 .. m /\ m \notin 1 .. k
    OBVIOUS
  <2>3. <<1 .. k, 1 .. m>> \in StrictSubsetOrdering(Nat)
    BY <2>1, <2>2 DEF StrictSubsetOrdering
  <2> QED
    BY <1>3, <2>3
<1> QED
  BY <1>4

\* The scale of a chart is at least 1 and no less than any count it shows.
LEMMA MaxValue ==
  ASSUME NEW S \in SUBSET Nat, NEW b \in Nat, \A v \in S : v <= b
  PROVE  /\ Chart!maxValue(S) \in Nat /\ 1 <= Chart!maxValue(S)
         /\ \A v \in S : v <= Chart!maxValue(S)
<1> DEFINE all == {1} \cup S
           T == {u \in Nat : \A v \in all : v <= u}
<1>1. all \in SUBSET Nat /\ 1 \in all
  OBVIOUS
<1>2. b + 1 \in T
  OBVIOUS
<1>3. PICK m \in T : \A k \in T : m <= k
  BY <1>2, LeastNumber
<1>4. m \in Nat /\ 1 <= m /\ \A v \in all : v <= m
  BY <1>3
<1>5. m \in all
  <2> SUFFICES ASSUME m \notin all PROVE FALSE
    OBVIOUS
  <2>1. m - 1 \in Nat /\ ~(m <= m - 1)
    BY <1>4
  <2>2. \A v \in all : v <= m - 1
    BY <1>1, <1>4, <2>1
  <2> QED
    BY <1>3, <2>1, <2>2
<1>6. Chart!maxValue(S) = CHOOSE x \in all : \A v \in all : v <= x
  BY DEF Chart!maxValue
<1> HIDE DEF all, T
<1>7. Chart!maxValue(S) \in all /\ \A v \in all : v <= Chart!maxValue(S)
  BY <1>4, <1>5, <1>6, Zenon
<1> QED
  BY <1>1, <1>7 DEF all

\* Numbers that belong to the members of a finite set have a bound.
LEMMA FiniteBound ==
  ASSUME NEW S, IsFiniteSet(S), NEW f, \A x \in S : f[x] \in Nat
  PROVE  \E b \in Nat : \A x \in S : f[x] <= b
<1> DEFINE Bounded(R) == \E b \in Nat : \A x \in R : f[x] <= b
           T == {n \in Nat : \E R \in SUBSET S : Cardinality(R) = n /\ ~Bounded(R)}
<1> SUFFICES ASSUME ~Bounded(S) PROVE FALSE
  OBVIOUS
<1>1. Cardinality(S) \in T
  BY FS_CardinalityType
<1>2. PICK n \in T : \A k \in T : n <= k
  <2> T \in SUBSET Nat /\ T # {}
    BY <1>1
  <2> HIDE DEF T
  <2> QED
    BY LeastNumber
<1>3. PICK R \in SUBSET S : Cardinality(R) = n /\ ~Bounded(R)
  BY <1>2
<1>4. R # {}
  <2>1. Bounded({})
    <3>1. 0 \in Nat
      OBVIOUS
    <3> QED
      BY <3>1
  <2> QED
    BY <1>3, <2>1
<1>5. PICK x \in R : TRUE
  BY <1>4
<1>6. IsFiniteSet(R) /\ n \in Nat
  BY <1>2, FS_Subset
<1>7. Cardinality(R \ {x}) = n - 1 /\ n - 1 \in Nat
  <2>1. Cardinality(R \ {x}) = n - 1 /\ IsFiniteSet(R \ {x})
    BY <1>3, <1>5, <1>6, FS_RemoveElement
  <2>2. Cardinality(R \ {x}) \in Nat
    BY <2>1, FS_CardinalityType
  <2> QED
    BY <2>1, <2>2
<1>8. Bounded(R \ {x})
  <2>1. n - 1 \notin T
    BY <1>2, <1>6, <1>7
  <2>2. R \ {x} \in SUBSET S
    BY <1>3
  <2> HIDE DEF Bounded
  <2> QED
    BY <1>7, <2>1, <2>2
<1>9. PICK b \in Nat : \A y \in R \ {x} : f[y] <= b
  BY <1>8
<1>10. f[x] \in Nat /\ \A y \in R : f[y] \in Nat
  BY <1>3, <1>5
<1>11. b + f[x] \in Nat /\ \A y \in R : f[y] <= b + f[x]
  BY <1>9, <1>10
<1>12. Bounded(R)
  BY <1>11
<1> QED
  BY <1>3, <1>12

\* The numbers beside the grid lines are the nearest to their exact values.
LEMMA GridIsNumbered ==
  ASSUME NEW m \in Nat, 1 <= m
  PROVE  Chart!TicksAreRight(m)
<1>1. ASSUME NEW t \in 0 .. 4
      PROVE  /\ Chart!tickLabel(t, m) \in Int
             /\ 8 * Chart!tickLabel(t, m) <= 2 * (t * m) + 4
             /\ 2 * (t * m) + 4 < 8 * Chart!tickLabel(t, m) + 8
  <2>1. t * m \in Int
    OBVIOUS
  <2>2. Chart!tickLabel(t, m) = (2 * (t * m) + 4) \div 8
    BY DEF Chart!tickLabel, Chart!Round
  <2> QED
    BY <2>1, <2>2
<1>2. 0 * m = 0 /\ 1 * m = m /\ 2 * m = m + m /\ 3 * m = m + m + m /\ 4 * m = m + m + m + m
  OBVIOUS
<1>3. Chart!tickLabel(0, m) = 0 /\ Chart!tickLabel(4, m) = m
  BY <1>1, <1>2
<1>4. ASSUME NEW t \in 0 .. 3 PROVE Chart!tickLabel(t, m) <= Chart!tickLabel(t + 1, m)
  <2>1. t \in 0 .. 4 /\ t + 1 \in 0 .. 4 /\ (t + 1) * m = t * m + m /\ t * m \in Int
    OBVIOUS
  <2>2. /\ Chart!tickLabel(t, m) = (2 * (t * m) + 4) \div 8
        /\ Chart!tickLabel(t + 1, m) = (2 * (t * m + m) + 4) \div 8
    BY <2>1 DEF Chart!tickLabel, Chart!Round
  <2> QED
    BY <2>1, <2>2
<1>5. ASSUME NEW t \in 0 .. 4 PROVE Chart!Distance(4 * Chart!tickLabel(t, m), t * m) <= 2
  <2> DEFINE l == Chart!tickLabel(t, m)
             e == t * m
  <2>1. l \in Int /\ e \in Int /\ 8 * l <= 2 * e + 4 /\ 2 * e + 4 < 8 * l + 8
    BY <1>1
  <2> HIDE DEF l, e
  <2>2. Chart!Distance(4 * l, e) <= 2
    BY <2>1 DEF Chart!Distance
  <2> QED
    BY <2>2 DEF l, e
<1> QED
  BY <1>3, <1>4, <1>5 DEF Chart!TicksAreRight

\* A product grows with each of its factors.
LEMMA Products ==
  ASSUME NEW a \in Int, NEW b \in Int, NEW c \in Int, 0 <= c
  PROVE  /\ a * c \in Int /\ b * c \in Int /\ a * c = c * a
         /\ (a - b) * c = a * c - b * c /\ (a + b) * c = a * c + b * c
         /\ a <= b => a * c <= b * c
         /\ (a < b /\ 0 < c) => a * c < b * c
OBVIOUS

\* Both ends of the time axis are labelled, and of many rows at most eight.
LEMMA AxisIsLabelled ==
  ASSUME NEW n \in Nat, 1 <= n
  PROVE  LabelsAreFew(n)
<1> DEFINE s == Chart!labelStep(n)
<1>1. s \in Nat /\ 1 <= s /\ (n > 14 => n <= 7 * s)
  BY DEF Chart!labelStep
<1>2. s = Chart!labelStep(n)
  OBVIOUS
<1> HIDE DEF s
<1>3. 0 % s = 0
  BY <1>1
<1>4. Chart!labelled(0, n) /\ Chart!labelled(n - 1, n)
  BY <1>2, <1>3 DEF Chart!labelled
<1>5. ASSUME n > 14 PROVE Cardinality({i \in 0 .. n - 1 : Chart!labelled(i, n)}) <= 8
  <2> DEFINE f == [j \in 1 .. 8 |-> IF j = 8 THEN n - 1 ELSE (j - 1) * s]
             H == {f[j] : j \in 1 .. 8}
             L == {i \in 0 .. n - 1 : Chart!labelled(i, n)}
  <2>1. IsFiniteSet(H) /\ Cardinality(H) <= 8 /\ Cardinality(H) \in Nat
    <3>1. f \in Surjection(1 .. 8, H)
      BY DEF Surjection
    <3>2. ExistsSurjection(1 .. 8, H) /\ 8 \in Nat
      BY <3>1 DEF ExistsSurjection
    <3> HIDE DEF H, f
    <3>3. IsFiniteSet(H)
      BY <3>2, FS_NatSurjection
    <3> QED
      BY <3>2, <3>3, FS_SurjCardinalityBound, FS_CardinalityType
  <2>2. ASSUME NEW i \in L PROVE i \in H
    <3>1. i \in Int /\ 0 <= i /\ i <= n - 1 /\ (i % s = 0 \/ i = n - 1)
      BY <1>2, <2>2 DEF Chart!labelled
    <3> DEFINE q == i \div s
    <3>2. q \in Int /\ (i % s = 0 => i = s * q)
      BY <1>1, <3>1
    <3> HIDE DEF q
    <3>3. CASE i = n - 1
      <4>1. 8 \in 1 .. 8 /\ f[8] = i
        BY <3>3
      <4> QED
        BY <4>1
    <3>4. CASE i % s = 0
      <4>1. i = q * s
        BY <1>1, <3>2, <3>4
      <4>2. 0 <= q
        BY <1>1, <3>1, <3>2, <4>1, Products
      <4>3. q < 7
        <5> SUFFICES ASSUME 7 <= q PROVE FALSE
          BY <3>2
        <5>1. 7 * s <= q * s
          BY <1>1, <3>2, Products
        <5> QED
          BY <1>1, <1>5, <3>1, <4>1, <5>1
      <4>4. q + 1 \in 1 .. 8 /\ q + 1 # 8 /\ (q + 1) - 1 = q
        BY <3>2, <4>2, <4>3
      <4>5. f[q + 1] = q * s
        BY <4>4
      <4> QED
        BY <4>1, <4>4, <4>5
    <3> QED
      BY <3>1, <3>3, <3>4
  <2>3. L \in SUBSET H
    BY <2>2
  <2> HIDE DEF H, f, L
  <2>4. IsFiniteSet(L) /\ Cardinality(L) <= Cardinality(H)
    BY <2>1, <2>3, FS_Subset
  <2>5. Cardinality(L) \in Nat
    BY <2>4, FS_CardinalityType
  <2>6. Cardinality(L) <= 8
    BY <2>1, <2>4, <2>5
  <2> QED
    BY <2>6 DEF L
<1>6. n > 14 => Cardinality({i \in 0 .. n - 1 : Chart!labelled(i, n)}) <= 8
  BY <1>5, Zenon
<1> QED
  BY <1>4, <1>6 DEF LabelsAreFew

\* A canvas is wide and high enough for a plot.
LEMMA PlotSizes ==
  ASSUME NEW w \in Nat, NEW h \in Nat
  PROVE  /\ Chart!growthWidth(w) \in Nat /\ 254 <= Chart!growthWidth(w)
         /\ Chart!growthHeight(h) \in Nat /\ 150 <= Chart!growthHeight(h)
         /\ Chart!barPlot(w) \in Nat /\ 260 <= Chart!barPlot(w)
BY DEF Chart!growthWidth, Chart!growthHeight, Chart!barPlot, Chart!canvasWidth, Chart!canvasHeight,
       Chart!AtLeast

\* Bars have a width and a gap between them, and the last one ends inside the plot.
LEMMA BarSizes ==
  ASSUME NEW n \in 1 .. 12, NEW w \in Nat
  PROVE  /\ Chart!barScale(n) \in Nat /\ 1 <= Chart!barScale(n)
         /\ Chart!barGap(n, w) \in Int /\ 0 < Chart!barGap(n, w)
         /\ Chart!barWidth(n, w) \in Int /\ 0 < Chart!barWidth(n, w)
         /\ (n - 1) * (Chart!barWidth(n, w) + Chart!barGap(n, w)) + Chart!barWidth(n, w)
              <= Chart!barPlot(w) * Chart!barScale(n)
         /\ \A i : Chart!barX(i, n, w) =
                    42 * Chart!barScale(n) + i * (Chart!barWidth(n, w) + Chart!barGap(n, w))
<1> DEFINE P == Chart!barPlot(w)
           S == Chart!barScale(n)
           g == Chart!barGap(n, w)
           b == Chart!barWidth(n, w)
<1>1. P \in Nat /\ 260 <= P
  BY PlotSizes
<1>2. S = 4 * n * n
  BY DEF Chart!barScale
<1>3. g = Chart!AtMost(18 * S, n * P) /\ b = Chart!AtLeast(16 * S, 4 * n * P - (g \div n) * (n - 1))
  BY DEF Chart!barGap, Chart!barWidth
<1>4. \A i : Chart!barX(i, n, w) = 42 * S + i * (b + g)
  BY DEF Chart!barX, Chart!barLeft
<1> HIDE DEF P, S, g, b
<1>5. n = 1 \/ n = 2 \/ n = 3 \/ n = 4 \/ n = 5 \/ n = 6 \/ n = 7 \/ n = 8 \/ n = 9 \/ n = 10 \/ n = 11 \/ n = 12
  OBVIOUS
<1>6. S \in Nat /\ 1 <= S /\ g \in Int /\ 0 < g /\ b \in Int
  BY <1>1, <1>2, <1>3, <1>5 DEF Chart!AtMost, Chart!AtLeast
<1>7. 0 < b
  BY <1>3, <1>6 DEF Chart!AtLeast
<1>8. (n - 1) * (b + g) + b <= P * S
  BY <1>1, <1>2, <1>3, <1>5 DEF Chart!AtMost, Chart!AtLeast
<1> QED
  BY <1>4, <1>6, <1>7, <1>8 DEF P, S, g, b

\* Bars keep apart and inside the plot.
LEMMA BarsKeepApart ==
  ASSUME NEW n \in 1 .. 12, NEW w \in Nat
  PROVE  Chart!BarsFit(n, w)
<1> DEFINE P == Chart!barPlot(w)
           S == Chart!barScale(n)
           g == Chart!barGap(n, w)
           b == Chart!barWidth(n, w)
<1>1. P \in Nat
  BY PlotSizes
<1>2. /\ S \in Nat /\ g \in Int /\ 0 < g /\ b \in Int
      /\ (n - 1) * (b + g) + b <= P * S
      /\ \A i : Chart!barX(i, n, w) = 42 * S + i * (b + g)
  BY BarSizes
<1> HIDE DEF P, S, g, b
<1>3. ASSUME NEW i \in 0 .. n - 2
      PROVE  Chart!barX(i, n, w) + Chart!barWidth(n, w) < Chart!barX(i + 1, n, w)
  <2>1. (i + 1) * (b + g) = i * (b + g) + (b + g) /\ i * (b + g) \in Int
    BY <1>2
  <2>2. 42 * S + i * (b + g) + b < 42 * S + (i + 1) * (b + g)
    BY <1>2, <2>1
  <2> QED
    BY <1>2, <2>2 DEF b
<1>4. Chart!barX(n - 1, n, w) + Chart!barWidth(n, w) <= (Chart!barLeft + Chart!barPlot(w)) * Chart!barScale(n)
  <2>1. (42 + P) * S = 42 * S + P * S /\ P * S \in Int /\ (n - 1) * (b + g) \in Int
    BY <1>1, <1>2
  <2>2. 42 * S + (n - 1) * (b + g) + b <= (42 + P) * S
    BY <1>2, <2>1
  <2> QED
    BY <1>2, <2>2 DEF b, P, S, Chart!barLeft
<1> QED
  BY <1>3, <1>4 DEF Chart!BarsFit

\* The middle of the bar under the mouse is the nearest one, since bars are as
\* wide as each other and do not meet.
LEMMA NearestBar ==
  ASSUME NEW n \in 1 .. 12, NEW w \in Nat, NEW x \in Nat, NEW i \in Chart!barsAt(x, n, w)
  PROVE  Chart!IsNearestBar(i, x, n, w)
<1> DEFINE S == Chart!barScale(n)
           b == Chart!barWidth(n, w)
           s == Chart!barWidth(n, w) + Chart!barGap(n, w)
           m == x * S
           M(j) == 2 * Chart!barX(j, n, w) + Chart!barWidth(n, w)
<1>1. /\ S \in Nat /\ b \in Int /\ s \in Int /\ 0 < b /\ b < s
      /\ \A j : Chart!barX(j, n, w) = 42 * S + j * s
  <2> DEFINE g == Chart!barGap(n, w)
  <2>1. /\ S \in Nat /\ b \in Int /\ 0 < b /\ g \in Int /\ 0 < g /\ s = b + g
        /\ \A j : Chart!barX(j, n, w) = 42 * S + j * s
    BY BarSizes, Zenon
  <2> HIDE DEF S, b, g, s
  <2> QED
    BY <2>1
<1>2. /\ i \in 0 .. n - 1
      /\ Chart!barX(i, n, w) <= m /\ m <= Chart!barX(i, n, w) + b
  <2>1. m \in Int /\ \A j \in 0 .. n - 1 : Chart!barX(j, n, w) \in Int
    BY <1>1
  <2>2. i \in 0 .. n - 1 /\ m >= Chart!barX(i, n, w) /\ m <= Chart!barX(i, n, w) + b
    BY DEF Chart!barsAt
  <2> HIDE DEF m, b
  <2> QED
    BY <2>1, <2>2
<1>3. m \in Int /\ 2 * x * S = 2 * m
  <2> HIDE DEF S
  <2> QED
    BY <1>1
<1>4. \A j : M(j) = 2 * (42 * S + j * s) + b
  BY <1>1
<1> HIDE DEF m, M, S, b, s
<1>5. ASSUME NEW j \in 0 .. n - 1
      PROVE  Chart!Distance(2 * m, M(i)) <= Chart!Distance(2 * m, M(j))
  <2> DEFINE p == i * s
             q == j * s
  <2>1. /\ i \in Int /\ j \in Int /\ p \in Int /\ q \in Int
        /\ (i + 1) * s = p + s /\ (j + 1) * s = q + s
    BY <1>1, <1>2
  <2>2. /\ i + 1 <= j => p + s <= q
        /\ j + 1 <= i => q + s <= p
    <3>1. i + 1 \in Int /\ j + 1 \in Int /\ 0 <= s
      BY <1>1, <2>1
    <3>2. /\ i + 1 <= j => (i + 1) * s <= q
          /\ j + 1 <= i => (j + 1) * s <= p
      BY <1>1, <2>1, <3>1, Products
    <3> QED
      BY <2>1, <3>2
  <2>3. M(i) = 2 * (42 * S + p) + b /\ M(j) = 2 * (42 * S + q) + b
    BY <1>4
  <2>4. 42 * S + p <= m /\ m <= 42 * S + p + b
    BY <1>1, <1>2
  <2>5. i = j \/ i + 1 <= j \/ j + 1 <= i
    BY <2>1
  <2> HIDE DEF p, q
  <2>6. CASE i = j
    BY <1>1, <1>3, <2>1, <2>3, <2>6 DEF Chart!Distance
  <2>7. CASE i + 1 <= j
    BY <1>1, <1>3, <2>1, <2>2, <2>3, <2>4, <2>7 DEF Chart!Distance
  <2>8. CASE j + 1 <= i
    BY <1>1, <1>3, <2>1, <2>2, <2>3, <2>4, <2>8 DEF Chart!Distance
  <2> QED
    BY <2>5, <2>6, <2>7, <2>8
<1>6. \A j \in 0 .. n - 1 : Chart!Distance(2 * x * S, M(i)) <= Chart!Distance(2 * x * S, M(j))
  BY <1>3, <1>5
<1> QED
  BY <1>2, <1>6, Zenon DEF Chart!IsNearestBar, M, S

\* Lines run from left to right inside the plot, and a larger count is higher.
LEMMA LinesFitPlot ==
  ASSUME NEW n \in Nat, 1 <= n, NEW rows, Len(rows) = n, NEW series, NEW max \in Nat, 1 <= max,
         \A i \in 1 .. n, k \in series : rows[i][k] \in Nat /\ rows[i][k] <= max,
         NEW w \in Nat, NEW h \in Nat
  PROVE  Chart!LinesFit(rows, series, max, w, h)
<1> DEFINE gw == Chart!growthWidth(w)
           gh == Chart!growthHeight(h)
<1>1. \A i \in 1 .. n, k \in series : rows[i][k] <= max
  OBVIOUS
<1>2. gw \in Nat /\ 254 <= gw /\ gh \in Nat /\ 150 <= gh
  BY PlotSizes
<1>3. \A i : Chart!xForIndex(i, n, w) = IF n = 1 THEN 96 + gw ELSE 48 * (n - 1) + i * gw
  BY DEF Chart!xForIndex, Chart!growthLeft
<1>4. \A v : Chart!yForValue(v, max, h) = (34 + gh) * max - v * gh
  BY DEF Chart!yForValue, Chart!growthTop
<1>5. Chart!Steps(n) = IF n = 1 THEN 2 ELSE n - 1
  BY DEF Chart!Steps
<1>7. /\ Chart!growthLeft = 48 /\ Chart!growthTop = 34
      /\ Chart!growthWidth(w) = gw /\ Chart!growthHeight(h) = gh
  BY DEF Chart!growthLeft, Chart!growthTop
<1> HIDE DEF gw, gh
<1>8. ASSUME NEW i \in 0 .. n - 1
      PROVE  Chart!xForIndex(i, n, w) \in 48 * Chart!Steps(n) .. (48 + gw) * Chart!Steps(n)
  <2>1. CASE n = 1
    BY <1>2, <1>3, <1>5, <2>1
  <2>2. CASE n # 1
    <3>1. 0 * gw <= i * gw /\ i * gw <= (n - 1) * gw /\ i * gw \in Int /\ (n - 1) * gw = gw * (n - 1)
      BY <1>2, Products
    <3>2. (48 + gw) * (n - 1) = 48 * (n - 1) + gw * (n - 1) /\ gw * (n - 1) \in Int
      BY <1>2, Products
    <3>3. Chart!xForIndex(i, n, w) = 48 * (n - 1) + i * gw /\ Chart!Steps(n) = n - 1
      BY <1>3, <1>5, <2>2
    <3>4. (48 + gw) * (n - 1) \in Int
      BY <3>2
    <3> DEFINE t == i * gw
               u == gw * (n - 1)
               z == (48 + gw) * (n - 1)
    <3>5. t \in Int /\ 0 <= t /\ t <= u /\ u \in Int /\ z \in Int /\ z = 48 * (n - 1) + u
      <4>1. 0 * gw = 0
        BY <1>2
      <4> QED
        BY <3>1, <3>2, <3>4, <4>1, Zenon
    <3>6. Chart!xForIndex(i, n, w) = 48 * (n - 1) + t
      BY <3>3
    <3> HIDE DEF t, u, z
    <3>7. 48 * (n - 1) + t \in 48 * (n - 1) .. z
      BY <3>5
    <3> QED
      BY <3>3, <3>6, <3>7 DEF z
  <2> QED
    BY <2>1, <2>2
<1>9. ASSUME NEW i \in 0 .. n - 2
      PROVE  Chart!xForIndex(i, n, w) < Chart!xForIndex(i + 1, n, w)
  <2>1. i * gw < (i + 1) * gw /\ i * gw \in Int /\ (i + 1) * gw \in Int
    BY <1>2, Products
  <2>2. n # 1
    OBVIOUS
  <2> QED
    BY <1>3, <2>1, <2>2
<1>10. ASSUME NEW v \in Nat, v <= max
       PROVE  Chart!yForValue(v, max, h) \in 34 * max .. (34 + gh) * max
  <2>0. gh \in Int /\ 0 <= gh /\ v \in Int /\ max \in Int /\ 0 \in Int /\ 0 <= v
    BY <1>2
  <2>1. 0 * gh <= v * gh /\ v * gh <= max * gh /\ v * gh \in Int /\ max * gh = gh * max
    <3>1. 0 * gh <= v * gh
      BY <2>0, Products
    <3>2. v * gh <= max * gh /\ v * gh \in Int /\ max * gh = gh * max
      BY <1>10, <2>0, Products
    <3> QED
      BY <3>1, <3>2
  <2>2. (34 + gh) * max = 34 * max + gh * max /\ gh * max \in Int /\ (34 + gh) * max \in Int
    BY <1>2, Products
  <2>3. /\ 34 * max <= (34 + gh) * max - v * gh
        /\ (34 + gh) * max - v * gh <= (34 + gh) * max
        /\ (34 + gh) * max - v * gh \in Int
    BY <1>2, <2>1, <2>2
  <2> QED
    BY <1>4, <2>2, <2>3
<1>11. ASSUME NEW u \in Nat, NEW v \in Nat
       PROVE  (u < v) = (Chart!yForValue(u, max, h) > Chart!yForValue(v, max, h))
  <2>1. /\ u * gh \in Int /\ v * gh \in Int /\ (34 + gh) * max \in Int
        /\ u < v => u * gh < v * gh
        /\ v <= u => v * gh <= u * gh
    BY <1>1, <1>2, Products
  <2> QED
    BY <1>4, <2>1
<1>12. ASSUME NEW k \in series, NEW i \in 0 .. n - 1
       PROVE  /\ Chart!points(rows, k, max, w, h)[i][1] = Chart!xForIndex(i, n, w)
              /\ Chart!points(rows, k, max, w, h)[i][2] = Chart!yForValue(rows[i + 1][k], max, h)
  BY DEF Chart!points
<1>13. ASSUME NEW k \in series
       PROVE  /\ \A i \in 0 .. n - 1 :
                   /\ Chart!points(rows, k, max, w, h)[i][1] \in 48 * Chart!Steps(n) .. (48 + gw) * Chart!Steps(n)
                   /\ Chart!points(rows, k, max, w, h)[i][2] \in 34 * max .. (34 + gh) * max
              /\ \A i \in 0 .. n - 2 :
                   /\ Chart!points(rows, k, max, w, h)[i][1] < Chart!points(rows, k, max, w, h)[i + 1][1]
                   /\ (rows[i + 1][k] < rows[i + 2][k]) =
                        (Chart!points(rows, k, max, w, h)[i][2] > Chart!points(rows, k, max, w, h)[i + 1][2])
  <2>1. ASSUME NEW i \in 0 .. n - 1
        PROVE  /\ Chart!points(rows, k, max, w, h)[i][1] \in 48 * Chart!Steps(n) .. (48 + gw) * Chart!Steps(n)
               /\ Chart!points(rows, k, max, w, h)[i][2] \in 34 * max .. (34 + gh) * max
    <3>1. i + 1 \in 1 .. n
      OBVIOUS
    <3>2. rows[i + 1][k] \in Nat /\ rows[i + 1][k] <= max
      BY <1>1, <3>1
    <3> QED
      BY <1>8, <1>10, <1>12, <3>2
  <2>2. ASSUME NEW i \in 0 .. n - 2
        PROVE  /\ Chart!points(rows, k, max, w, h)[i][1] < Chart!points(rows, k, max, w, h)[i + 1][1]
               /\ (rows[i + 1][k] < rows[i + 2][k]) =
                    (Chart!points(rows, k, max, w, h)[i][2] > Chart!points(rows, k, max, w, h)[i + 1][2])
    <3>1. i + 1 \in 1 .. n /\ i + 2 \in 1 .. n /\ i \in 0 .. n - 1 /\ i + 1 \in 0 .. n - 1 /\ (i + 1) + 1 = i + 2
      OBVIOUS
    <3>2. rows[i + 1][k] \in Nat /\ rows[i + 2][k] \in Nat
      BY <3>1
    <3>3. /\ Chart!points(rows, k, max, w, h)[i][1] = Chart!xForIndex(i, n, w)
          /\ Chart!points(rows, k, max, w, h)[i][2] = Chart!yForValue(rows[i + 1][k], max, h)
          /\ Chart!points(rows, k, max, w, h)[i + 1][1] = Chart!xForIndex(i + 1, n, w)
          /\ Chart!points(rows, k, max, w, h)[i + 1][2] = Chart!yForValue(rows[i + 2][k], max, h)
      BY <1>12, <3>1
    <3> QED
      BY <1>9, <1>11, <3>2, <3>3
  <2> QED
    BY <2>1, <2>2
<1> QED
  BY <1>7, <1>13 DEF Chart!LinesFit

\* Math.round gives the nearest number.
LEMMA Rounded ==
  ASSUME NEW a \in Int, NEW b \in Nat, 0 < b
  PROVE  /\ Chart!Round(a, b) \in Int
         /\ 2 * (Chart!Round(a, b) * b) <= 2 * a + b
         /\ 2 * a + b < 2 * (Chart!Round(a, b) * b) + 2 * b
<1> DEFINE q == (2 * a + b) \div (2 * b)
           c == 2 * b
           d == 2 * a + b
<1>1. c \in Nat /\ 0 < c /\ d \in Int /\ q = d \div c
  OBVIOUS
<1> HIDE DEF c, d
<1>2. (d \div c) \in Int /\ c * (d \div c) <= d /\ d < c * (d \div c) + c
  BY <1>1
<1>3. q \in Int /\ c * q <= d /\ d < c * q + c
  BY <1>1, <1>2
<1>4. Chart!Round(a, b) = q
  BY DEF Chart!Round
<1> HIDE DEF q
<1>5. c * q = 2 * (q * b) /\ q * b \in Int
  BY <1>3 DEF c
<1> QED
  BY <1>3, <1>4, <1>5 DEF c, d

\* Of the rows, which are evenly spread, the one the mouse points to is nearest.
LEMMA NearestRow ==
  ASSUME NEW n \in Nat, 1 <= n, NEW x \in Nat, NEW w \in Nat
  PROVE  Chart!IsNearest(Chart!nearestIndex(x, n, w), x, n, w)
<1> DEFINE row == Chart!nearestIndex(x, n, w)
           gw == Chart!growthWidth(w)
           a == (x - 48) * (n - 1)
           q == Chart!Round(a, gw)
           D(i) == Chart!Distance(x * Chart!Steps(n), Chart!xForIndex(i, n, w))
<1>1. gw \in Nat /\ 254 <= gw
  BY PlotSizes
<1>2. CASE n = 1
  <2>1. row = 0 /\ row \in 0 .. n - 1
    BY <1>2 DEF Chart!nearestIndex
  <2>2. D(0) \in Int /\ \A j \in 0 .. n - 1 : j = 0
    BY <1>1, <1>2 DEF Chart!Steps, Chart!xForIndex, Chart!growthLeft, Chart!Distance
  <2>3. \A j \in 0 .. n - 1 : D(row) <= D(j)
    <3> HIDE DEF D, row
    <3> QED
      BY <2>1, <2>2
  <2> QED
    BY <2>1, <2>3, Zenon DEF Chart!IsNearest
<1>3. CASE n # 1
  <2>1. a \in Int /\ a = x * (n - 1) - 48 * (n - 1) /\ x * (n - 1) \in Int
    BY Products
  <2>2. row = Chart!AtLeast(0, Chart!AtMost(n - 1, q))
    BY <1>3 DEF Chart!nearestIndex, Chart!growthLeft
  <2>3. \A i : D(i) = Chart!Distance(x * (n - 1), 48 * (n - 1) + i * gw)
    BY <1>3 DEF Chart!Steps, Chart!xForIndex, Chart!growthLeft
  <2> HIDE DEF a
  <2>4. q \in Int /\ 2 * (q * gw) <= 2 * a + gw /\ 2 * a + gw < 2 * (q * gw) + 2 * gw
    <3> HIDE DEF gw
    <3>1. 0 < gw
      BY <1>1
    <3> QED
      BY <1>1, <2>1, <3>1, Rounded
  <2> HIDE DEF row, q, gw, D
  <2>5. row \in 0 .. n - 1 /\ (row = q \/ (q < 0 /\ row = 0) \/ (n - 1 < q /\ row = n - 1))
    BY <2>2, <2>4 DEF Chart!AtLeast, Chart!AtMost
  <2>6. ASSUME NEW j \in 0 .. n - 1 PROVE D(row) <= D(j)
    <3> DEFINE r == row * gw
               t == j * gw
    <3>1. /\ r \in Int /\ t \in Int /\ q * gw \in Int
          /\ j < row => t + gw <= r
          /\ row < j => r + gw <= t
          /\ j = row => r = t
      <4>1. j \in Int /\ row \in Int /\ j + 1 \in Int /\ row + 1 \in Int
        BY <2>5
      <4>2. (j + 1) * gw = t + gw /\ (row + 1) * gw = r + gw
        BY <1>1, <4>1
      <4>3. /\ j + 1 <= row => (j + 1) * gw <= r
            /\ row + 1 <= j => (row + 1) * gw <= t
        BY <1>1, <4>1, Products
      <4> QED
        BY <1>1, <2>4, <2>5, <4>1, <4>2, <4>3
    <3>2. /\ D(row) = Chart!Distance(x * (n - 1), 48 * (n - 1) + r)
          /\ D(j) = Chart!Distance(x * (n - 1), 48 * (n - 1) + t)
      BY <2>3
    <3>3. /\ row = q => r = q * gw
          /\ (q < 0 /\ row = 0) => r = 0 /\ q * gw + gw <= 0
          /\ (n - 1 < q /\ row = n - 1) => r + gw <= q * gw
      <4>1. q + 1 \in Int /\ (q + 1) * gw = q * gw + gw /\ 0 * gw = 0
        BY <1>1, <2>4
      <4>2. q + 1 <= 0 => (q + 1) * gw <= 0 * gw
        BY <1>1, <4>1, Products
      <4>3. (row + 1) * gw = r + gw /\ row + 1 \in Int
        BY <1>1, <2>5
      <4>4. row + 1 <= q => (row + 1) * gw <= q * gw
        BY <1>1, <2>4, <4>3, Products
      <4> QED
        BY <1>1, <2>4, <2>5, <4>1, <4>2, <4>3, <4>4
    <3>4. Chart!Distance(x * (n - 1), 48 * (n - 1) + r) <= Chart!Distance(x * (n - 1), 48 * (n - 1) + t)
      <4>1. j = row \/ j < row \/ row < j
        BY <2>5
      <4> HIDE DEF r, t
      <4>2. CASE j = row
        BY <2>1, <3>1, <4>2 DEF Chart!Distance
      <4>3. CASE j < row
        BY <1>1, <2>1, <2>4, <2>5, <3>1, <3>3, <4>3 DEF Chart!Distance
      <4>4. CASE row < j
        BY <1>1, <2>1, <2>4, <2>5, <3>1, <3>3, <4>4 DEF Chart!Distance
      <4> QED
        BY <4>1, <4>2, <4>3, <4>4
    <3> QED
      BY <3>2, <3>4
  <2> QED
    BY <2>5, <2>6, Zenon DEF Chart!IsNearest, row, D
<1> QED
  BY <1>2, <1>3

\* A tooltip stays inside the wrapper, wherever it is put.
LEMMA TooltipFits ==
  ASSUME NEW x \in Int, NEW y \in Int, NEW tw \in Nat, NEW th \in Nat, NEW ww \in Nat, NEW wh \in Nat
  PROVE  /\ Chart!TipFits(Chart!tipLeft(x, tw, ww), Chart!tipTop(y, th, wh), tw, th, ww, wh)
         /\ (x \in Nat /\ y < wh) =>
              Chart!TipFits(Chart!barTipLeft(x, tw, ww), Chart!barTipTop(y, th), tw, th, ww, wh)
BY DEF Chart!TipFits, Chart!tipLeft, Chart!tipTop, Chart!barTipLeft, Chart!barTipTop, Chart!AtLeast,
       Chart!AtMost

\* The rows of a range, and the lines, are those of growth.py; no total is more
\* than the number of all records of its kind.
LEMMA GrowthData ==
  ASSUME NEW r \in Buttons.growth
  PROVE  /\ Growth[r].rows = GrowthRows(r) /\ Growth[r].series \subseteq Chart!Key
         /\ RowCount[r] \in Nat /\ 1 <= RowCount[r] /\ Len(GrowthRows(r)) = RowCount[r]
         /\ DOMAIN GrowthRows(r) = 1 .. RowCount[r]
         /\ \E b \in Nat : \A i \in 1 .. RowCount[r], k \in Chart!Key :
              GrowthRows(r)[i][k] \in Nat /\ GrowthRows(r)[i][k] <= b
<1> DEFINE N == RowCount[r]
           days == IF r \in {"7d", "30d"} THEN 1 ELSE 30
           Old(i, k) == {c \in DOMAIN History[k] : History[k][c] >= (N - i) * days}
           rows == [i \in 1 .. N |-> [k \in Chart!Key |-> Cardinality(Old(i, k))]]
<1>1. N \in Nat /\ 1 <= N /\ DOMAIN RowCount = Buttons.growth
  BY DashboardAssumption DEF DashboardAssumption
<1>2. GrowthRows(r) = rows
  BY DEF GrowthRows
<1>3. ASSUME NEW k \in Chart!Key, NEW i \in 1 .. N
      PROVE  /\ Cardinality(Old(i, k)) \in Nat /\ Len(History[k]) \in Nat
             /\ Cardinality(Old(i, k)) <= Len(History[k])
  <2>1. Len(History[k]) \in Nat /\ DOMAIN History[k] = 1 .. Len(History[k])
    <3>1. History[k] \in Seq(Nat)
      BY DashboardAssumption, Zenon DEF DashboardAssumption
    <3> QED
      BY <3>1
  <2>2. /\ IsFiniteSet(1 .. Len(History[k]))
        /\ Cardinality(1 .. Len(History[k])) = Len(History[k])
    <3>1. 1 \in Int /\ Len(History[k]) \in Int /\ (Len(History[k]) - 1) + 1 = Len(History[k])
      BY <2>1
    <3>2. /\ IsFiniteSet(1 .. Len(History[k]))
          /\ Cardinality(1 .. Len(History[k])) =
               IF 1 > Len(History[k]) THEN 0 ELSE Len(History[k]) - 1 + 1
      BY <3>1, FS_Interval
    <3> QED
      BY <2>1, <3>1, <3>2
  <2>3. Old(i, k) \in SUBSET (1 .. Len(History[k]))
    BY <2>1
  <2> HIDE DEF Old
  <2>4. IsFiniteSet(Old(i, k)) /\ Cardinality(Old(i, k)) <= Cardinality(1 .. Len(History[k]))
    BY <2>2, <2>3, FS_Subset
  <2>5. Cardinality(Old(i, k)) \in Nat
    BY <2>4, FS_CardinalityType
  <2> QED
    BY <2>1, <2>2, <2>4, <2>5
<1> HIDE DEF Old
<1>4. PICK b \in Nat : \A k \in Chart!Key : Len(History[k]) <= b
  <2> DEFINE l(k) == Len(History[k])
             all == l("users") + l("organizations") + l("projects") + l("tasks")
  <2>1. \A k \in Chart!Key : l(k) \in Nat
    BY <1>1, <1>3
  <2>2. /\ l("users") \in Nat /\ l("organizations") \in Nat /\ l("projects") \in Nat /\ l("tasks") \in Nat
        /\ \A k \in Chart!Key : k = "users" \/ k = "organizations" \/ k = "projects" \/ k = "tasks"
    BY <2>1 DEF Chart!Key
  <2> HIDE DEF l
  <2>3. all \in Nat /\ \A k \in Chart!Key : l(k) <= all
    BY <2>2
  <2> QED
    BY <2>3, Zenon DEF l
<1>5. \A i \in 1 .. N, k \in Chart!Key : rows[i][k] \in Nat /\ rows[i][k] <= b
  <2> TAKE i \in 1 .. N, k \in Chart!Key
  <2>1. rows[i][k] = Cardinality(Old(i, k))
    OBVIOUS
  <2> QED
    BY <1>3, <1>4, <2>1
<1>6. Len(rows) = N /\ DOMAIN rows = 1 .. N
  BY <1>1
<1>7. Growth[r] = Chart!normalizeGrowth([rows |-> GrowthRows(r), series |-> Chart!Key])
  BY <1>1 DEF Growth
<1>8. Growth[r].rows = GrowthRows(r) /\ Growth[r].series \subseteq Chart!Key
  <2> HIDE DEF rows
  <2> QED
    BY <1>7 DEF Chart!normalizeGrowth
<1> HIDE DEF rows
<1> QED
  BY <1>1, <1>2, <1>5, <1>6, <1>8

\* The scale of the growth chart.
LEMMA GrowthScale ==
  ASSUME NEW r \in Buttons.growth
  PROVE  LET rows   == Growth[r].rows
             series == Growth[r].series
             max    == Chart!maxValue(Chart!values(rows, series))
         IN  /\ max \in Nat /\ 1 <= max
             /\ \A i \in 1 .. RowCount[r], k \in series : rows[i][k] \in Nat /\ rows[i][k] <= max
<1> DEFINE rows == Growth[r].rows
           series == Growth[r].series
           all == Chart!values(rows, series)
           max == Chart!maxValue(all)
<1>1. /\ rows = GrowthRows(r) /\ series \subseteq Chart!Key /\ DOMAIN rows = 1 .. RowCount[r]
      /\ \E b \in Nat : \A i \in 1 .. RowCount[r], k \in Chart!Key : rows[i][k] \in Nat /\ rows[i][k] <= b
  BY GrowthData
<1> HIDE DEF rows, series
<1>2. PICK b \in Nat : \A i \in 1 .. RowCount[r], k \in Chart!Key : rows[i][k] \in Nat /\ rows[i][k] <= b
  BY <1>1
<1>3. \A v \in all : \E i \in 1 .. RowCount[r], k \in series : v = rows[i][k]
  BY <1>1 DEF Chart!values
<1>4. \A i \in 1 .. RowCount[r], k \in series : rows[i][k] \in all
  BY <1>1 DEF Chart!values
<1> HIDE DEF all
<1>5. all \in SUBSET Nat /\ \A v \in all : v <= b
  BY <1>1, <1>2, <1>3
<1>6. max \in Nat /\ 1 <= max /\ \A v \in all : v <= max
  BY <1>5, MaxValue
<1>7. \A i \in 1 .. RowCount[r], k \in series : rows[i][k] \in Nat /\ rows[i][k] <= max
  BY <1>4, <1>5, <1>6
<1> QED
  BY <1>6, <1>7, Zenon DEF max, all, rows, series

\* The growth chart can be read, whatever was recorded.
LEMMA LinesRead ==
  ASSUME NEW r \in Buttons.growth
  PROVE  LinesAreReadable[r]
<1> DEFINE rows == Growth[r].rows
           series == Growth[r].series
           max == Chart!maxValue(Chart!values(rows, series))
<1>1. /\ Len(rows) = RowCount[r] /\ RowCount[r] \in Nat /\ 1 <= RowCount[r]
      /\ r \in DOMAIN RowCount
  BY GrowthData, DashboardAssumption DEF DashboardAssumption
<1>2. /\ max \in Nat /\ 1 <= max
      /\ \A i \in 1 .. RowCount[r], k \in series : rows[i][k] \in Nat /\ rows[i][k] <= max
  BY GrowthScale, Zenon
<1>3. LinesAreReadable[r] = (/\ LabelsAreFew(Len(rows))
                             /\ \A size \in ChartSize : Chart!LinesFit(rows, series, max, size[1], size[2])
                             /\ Chart!TicksAreRight(max))
  BY <1>1, Zenon DEF LinesAreReadable
<1> HIDE DEF rows, series, max
<1>4. LabelsAreFew(Len(rows))
  BY <1>1, AxisIsLabelled
<1>5. Chart!TicksAreRight(max)
  BY <1>2, GridIsNumbered
<1>6. ASSUME NEW size \in ChartSize PROVE Chart!LinesFit(rows, series, max, size[1], size[2])
  <2>1. size[1] \in Nat /\ size[2] \in Nat
    BY DashboardAssumption DEF DashboardAssumption
  <2> QED
    BY <1>1, <1>2, <2>1, LinesFitPlot
<1> QED
  BY <1>3, <1>4, <1>5, <1>6, Zenon

\* The distribution chart can be read, whatever was counted.
LEMMA BarsRead ==
  ASSUME NEW t \in Buttons.dist
  PROVE  BarsAreReadable[t]
<1> DEFINE labels == DOMAIN Breakdown[t]
           counts == Breakdown[t]
           all == {counts[l] : l \in labels}
           n == Cardinality(labels)
<1>1. /\ t \in DOMAIN Breakdown /\ IsFiniteSet(labels) /\ n \in 1 .. 12
      /\ \A l \in labels : counts[l] \in Nat
  BY DashboardAssumption DEF DashboardAssumption
<1>2. BarsAreReadable[t] = (/\ Chart!TicksAreRight(Chart!maxValue(all))
                            /\ \A size \in ChartSize : Chart!BarsFit(n, size[1]))
  BY <1>1, Zenon DEF BarsAreReadable
<1> HIDE DEF n
<1>3. PICK b \in Nat : \A l \in labels : counts[l] <= b
  <2> HIDE DEF labels, counts
  <2> QED
    BY <1>1, FiniteBound
<1>4. all \in SUBSET Nat /\ \A v \in all : v <= b
  BY <1>1, <1>3
<1> HIDE DEF all
<1>5. Chart!maxValue(all) \in Nat /\ 1 <= Chart!maxValue(all)
  BY <1>4, MaxValue
<1>6. Chart!TicksAreRight(Chart!maxValue(all))
  BY <1>5, GridIsNumbered
<1>7. ASSUME NEW size \in ChartSize PROVE Chart!BarsFit(n, size[1])
  <2>1. size[1] \in Nat
    BY DashboardAssumption DEF DashboardAssumption
  <2> QED
    BY <1>1, <2>1, BarsKeepApart
<1> QED
  BY <1>2, <1>6, <1>7, Zenon

\* What a tooltip is made of, and what is promised of it.
TipShape(tip) ==
  /\ tip.on \in BOOLEAN
  /\ tip = [on |-> tip.on, panel |-> tip.panel, at |-> tip.at, drawn |-> tip.drawn, size |-> tip.size,
            row |-> tip.row, of |-> tip.of, left |-> tip.left, top |-> tip.top]

\* Rows and bars are nearest where they were drawn, whatever the size is now.
TipRight(tip) ==
  /\ Chart!TipFits(tip.left, tip.top, TipSize[1], TipSize[2], tip.size[1], tip.size[2])
  /\ IF tip.panel = "growth" THEN Chart!IsNearest(tip.row, tip.at[1], RowCount[tip.of], tip.drawn[1])
     ELSE Chart!IsNearestBar(tip.row, tip.at[1], Cardinality(DOMAIN Breakdown[tip.of]), tip.drawn[1])

\* The tooltip over the growth chart is about the nearest row and stays inside.
LEMMA GrowthTip ==
  ASSUME NEW r \in Buttons.growth, NEW drawn \in Nat \X Nat, NEW size \in ChartSize, NEW at \in Mouse,
         ~Chart!drawEmpty(Growth[r])
  PROVE  TipShape(growthTip(r, drawn, size, at)) /\ TipRight(growthTip(r, drawn, size, at))
<1> DEFINE w == drawn[1]
           h == drawn[2]
           rows == Growth[r].rows
           series == Growth[r].series
           n == Len(rows)
           max == Chart!maxValue(Chart!values(rows, series))
           row == Chart!nearestIndex(at[1], n, w)
           ys == {Chart!yForValue(rows[row + 1][k], max, h) : k \in series}
           D(a) == Chart!Distance(a, at[2] * max)
           lineY == CHOOSE a \in ys : \A b \in ys : D(a) <= D(b)
           x == Chart!xForIndex(row, n, w) \div Chart!Steps(n)
           left == Chart!tipLeft(x, TipSize[1], size[1])
           top == Chart!tipTop(lineY \div max, TipSize[2], size[2])
<1>1. growthTip(r, drawn, size, at) =
        [on |-> TRUE, panel |-> "growth", at |-> at, drawn |-> drawn, size |-> size, row |-> row, of |-> r,
         left |-> left, top |-> top]
  BY DEF growthTip
<1>2. /\ w \in Nat /\ h \in Nat /\ at[1] \in Nat /\ at[2] \in Nat /\ TipSize[1] \in Nat /\ TipSize[2] \in Nat
      /\ size[1] \in Nat /\ size[2] \in Nat
  BY DashboardAssumption DEF DashboardAssumption
<1>3. n = RowCount[r] /\ n \in Nat /\ 1 <= n
  BY GrowthData
<1>4. /\ max \in Nat /\ 1 <= max
      /\ \A i \in 1 .. n, k \in series : rows[i][k] \in Nat /\ rows[i][k] <= max
  <2> HIDE DEF n
  <2> QED
    BY <1>3, GrowthScale, Zenon
<1>5. series # {}
  BY DEF Chart!drawEmpty
<1> HIDE DEF n, w, h, max, rows, series, row
<1>6. Chart!IsNearest(row, at[1], n, w) /\ row \in 0 .. n - 1
  <2>1. Chart!IsNearest(row, at[1], n, w)
    BY <1>2, <1>3, NearestRow DEF row
  <2> QED
    BY <2>1, Zenon DEF Chart!IsNearest
<1>7. x \in Int
  <2>1. Chart!growthWidth(w) \in Int
    BY <1>2, PlotSizes
  <2>2. Chart!xForIndex(row, n, w) \in Int /\ Chart!Steps(n) \in Nat /\ 1 <= Chart!Steps(n)
    BY <1>3, <1>6, <2>1 DEF Chart!xForIndex, Chart!Steps, Chart!growthLeft
  <2> QED
    BY <2>2
<1>8. ys \in SUBSET Int /\ ys # {}
  <2>1. ASSUME NEW k \in series PROVE Chart!yForValue(rows[row + 1][k], max, h) \in Int
    <3>1. row + 1 \in 1 .. n
      BY <1>3, <1>6
    <3>2. rows[row + 1][k] \in Nat /\ Chart!growthHeight(h) \in Int
      BY <1>2, <1>4, <3>1, PlotSizes
    <3> QED
      BY <1>4, <3>2 DEF Chart!yForValue, Chart!growthTop
  <2> QED
    BY <1>5, <2>1
<1>9. at[2] * max \in Int
  BY <1>2, <1>4
<1> HIDE DEF ys
<1>10. \A a \in ys : D(a) \in Nat
  <2> DEFINE v == at[2] * max
  <2>1. v \in Int
    BY <1>9
  <2> HIDE DEF v
  <2>2. \A a \in Int : Chart!Distance(a, v) \in Nat
    BY <2>1 DEF Chart!Distance
  <2> QED
    BY <1>8, <2>2 DEF v
<1>11. \E a \in ys : \A b \in ys : D(a) <= D(b)
  <2> DEFINE T == {D(a) : a \in ys}
  <2> HIDE DEF D
  <2>1. T \in SUBSET Nat /\ T # {}
    BY <1>8, <1>10
  <2>2. PICK m \in T : \A k \in T : m <= k
    <3> HIDE DEF T
    <3> QED
      BY <2>1, LeastNumber
  <2>3. PICK a \in ys : m = D(a)
    BY <2>2
  <2>4. \A b \in ys : D(a) <= D(b)
    BY <2>2, <2>3
  <2> QED
    BY <2>4
<1>12. lineY \in ys
  BY <1>11, Zenon
<1> HIDE DEF lineY, x
<1>13. lineY \div max \in Int
  BY <1>4, <1>8, <1>12
<1>14. Chart!TipFits(left, top, TipSize[1], TipSize[2], size[1], size[2])
  BY <1>2, <1>7, <1>13, TooltipFits
<1> HIDE DEF left, top
<1> QED
  BY <1>1, <1>3, <1>6, <1>14 DEF w, h, TipShape, TipRight

\* The tooltip over the bars is about the one whose middle is nearest, and stays
\* inside; between the bars there is none.
LEMMA BarTip ==
  ASSUME NEW tip, TipShape(tip), tip.on => TipRight(tip),
         NEW t \in Buttons.dist, NEW drawn \in Nat \X Nat, NEW size \in ChartSize, NEW at \in Mouse,
         at[1] < size[1] /\ at[2] < size[2]
  PROVE  /\ TipShape(barTip(tip, t, drawn, size, at))
         /\ barTip(tip, t, drawn, size, at).on => TipRight(barTip(tip, t, drawn, size, at))
<1> DEFINE n == Cardinality(DOMAIN Breakdown[t])
           hits == Chart!barsAt(at[1], n, drawn[1])
           row == CHOOSE i \in hits : \A j \in hits : i <= j
           left == Chart!barTipLeft(at[1], TipSize[1], size[1])
           top == Chart!barTipTop(at[2], TipSize[2])
<1>1. barTip(tip, t, drawn, size, at) =
        IF hits = {} THEN [tip EXCEPT !.on = (@ /\ tip.panel # "dist")]
        ELSE [on |-> TRUE, panel |-> "dist", at |-> at, drawn |-> drawn, size |-> size, row |-> row, of |-> t,
              left |-> left, top |-> top]
  BY DEF barTip
<1>2. /\ size[1] \in Nat /\ size[2] \in Nat /\ at[1] \in Nat /\ at[2] \in Nat
      /\ TipSize[1] \in Nat /\ TipSize[2] \in Nat /\ drawn[1] \in Nat /\ n \in 1 .. 12
  BY DashboardAssumption DEF DashboardAssumption
<1>3. Chart!TipFits(left, top, TipSize[1], TipSize[2], size[1], size[2])
  <2>1. at[1] \in Int /\ at[2] \in Int /\ at[2] < size[2]
    BY <1>2
  <2> QED
    BY <1>2, <2>1, TooltipFits, Zenon DEF left, top
<1>4. hits # {} => Chart!IsNearestBar(row, at[1], n, drawn[1])
  <2> HIDE DEF n
  <2>1. hits \in SUBSET Nat
    BY <1>2 DEF Chart!barsAt
  <2>2. hits # {} => row \in hits
    <3> HIDE DEF hits
    <3>1. hits # {} => \E i \in hits : \A j \in hits : i <= j
      BY <2>1, LeastNumber
    <3> QED
      BY <3>1, Zenon
  <2> HIDE DEF row
  <2> QED
    BY <1>2, <2>2, NearestBar
<1> HIDE DEF n, hits, row, left, top
<1>5. CASE hits = {}
  <2>1. ASSUME NEW new, new = [tip EXCEPT !.on = (@ /\ tip.panel # "dist")]
        PROVE  TipShape(new) /\ (new.on => TipRight(new))
    <3>1. /\ new.on = (tip.on /\ tip.panel # "dist") /\ new.panel = tip.panel /\ new.at = tip.at
          /\ new.drawn = tip.drawn /\ new.size = tip.size /\ new.row = tip.row /\ new.of = tip.of
          /\ new.left = tip.left /\ new.top = tip.top
      BY <2>1 DEF TipShape
    <3>2. TipShape(new)
      BY <2>1, <3>1 DEF TipShape
    <3>3. new.on => TipRight(new)
      BY <3>1, Zenon DEF TipRight
    <3> QED
      BY <3>2, <3>3
  <2> QED
    BY <1>1, <1>5, <2>1, Zenon
<1>6. CASE hits # {}
  <2>1. ASSUME NEW new,
               new = [on |-> TRUE, panel |-> "dist", at |-> at, drawn |-> drawn, size |-> size,
                      row |-> row, of |-> t, left |-> left, top |-> top]
        PROVE  TipShape(new) /\ TipRight(new)
    <3>1. /\ new.on = TRUE /\ new.panel = "dist" /\ new.at = at /\ new.drawn = drawn /\ new.size = size
          /\ new.row = row /\ new.of = t /\ new.left = left /\ new.top = top
      BY <2>1
    <3>2. TipShape(new)
      BY <2>1, <3>1, Zenon DEF TipShape
    <3>3. TipRight(new)
      BY <1>3, <1>6, <1>4, <3>1 DEF TipRight, n
    <3> QED
      BY <3>2, <3>3
  <2> QED
    BY <1>1, <1>6, <2>1, Zenon
<1> QED
  BY <1>5, <1>6

-----------------------------------------------------------------------------
(* What is drawn on the dashboard, and said of it by the tooltip.          *)

\* A request for a chart is for one of its buttons.
AskedFor(c) == c.kind \in Panel => c.what \in Buttons[c.kind]

\* A chart shows nothing yet, or what one of its buttons stands for.
DrawnInv ==
  page = "dashboard" =>
    /\ \A p \in Panel : body.chart[p].data \in {"nothing"} \cup Buttons[p]
    /\ \A n \in 1 .. Len(calls) : AskedFor(calls[n])

TipInv ==
  page = "dashboard" => TipShape(body.tip) /\ (body.tip.on => TipRight(body.tip))

\* Requests that are handled or sent leave the others what they are.
LEMMA AskedKept ==
  ASSUME NEW n, NEW more, Replaced(calls, n, more, calls'),
         \A i \in 1 .. Len(calls) : AskedFor(calls[i]), \A j \in 1 .. Len(more) : AskedFor(more[j])
  PROVE  \A i \in 1 .. Len(calls') : AskedFor(calls'[i])
BY Zenon DEF Replaced

\* Nothing is asked for a chart.
LEMMA NotAsked ==
  ASSUME NEW R, NEW A, Turned(R, A), "growth" \notin A, "dist" \notin A,
         \A i \in 1 .. Len(calls) : AskedFor(calls[i])
  PROVE  \A i \in 1 .. Len(calls') : AskedFor(calls'[i])
<1>1. PICK n \in 0 .. Len(calls), more \in Seq(AnyCall) :
        Replaced(calls, n, more, calls') /\ \A j \in 1 .. Len(more) : more[j].kind \in A
  BY Zenon DEF Turned
<1>2. \A j \in 1 .. Len(more) : AskedFor(more[j])
  BY <1>1, Zenon DEF AskedFor, Panel
<1> QED
  BY <1>1, <1>2, AskedKept

\* The first requests are for the buttons that are lit at first.
LEMMA FirstAskedFor ==
  ASSUME DeskShape, NEW j \in 1 .. Len(FirstCalls)
  PROVE  AskedFor(FirstCalls[j])
<1> DEFINE c == FirstCalls[j]
<1>1. Ask(body, UserObject).kind = "audit"
  BY DEF Ask, Call
<1>2. /\ Call("unread", "").kind = "unread" /\ Call("overview", "").kind = "overview"
      /\ Call("activity", "").kind = "activity" /\ Call("inbox", body.filter).kind = "inbox"
      /\ Call("growth", body.lit.growth).kind = "growth" /\ Call("growth", body.lit.growth).what = body.lit.growth
      /\ Call("dist", body.lit.dist).kind = "dist" /\ Call("dist", body.lit.dist).what = body.lit.dist
  BY DEF Call
<1>3. \/ c = Call("unread", "")
      \/ /\ page = "dashboard"
         /\ \/ c = Call("overview", "") \/ c = Call("activity", "")
            \/ c = Call("growth", body.lit.growth) \/ c = Call("dist", body.lit.dist)
      \/ page = "audit-logs" /\ c = Ask(body, UserObject)
      \/ page = "notifications" /\ c = Call("inbox", body.filter)
  BY FirstCallsAre, Zenon
<1>4. page = "dashboard" => body.lit.growth \in Buttons.growth /\ body.lit.dist \in Buttons.dist
  BY DEF DeskShape, BodyFits, DashboardShape
<1>5. Buttons["growth"] = Buttons.growth /\ Buttons["dist"] = Buttons.dist
  BY DEF Buttons
<1> HIDE DEF c
<1>6. AskedFor(c)
  BY <1>1, <1>2, <1>3, <1>4, <1>5 DEF AskedFor, Panel
<1> QED
  BY <1>6 DEF c

\* A document begins with nothing drawn, and asks for no chart.
LEMMA DrawnInit == Init => DrawnInv /\ TipInv
<1> SUFFICES ASSUME Init, page = "dashboard" PROVE DrawnInv /\ TipInv
  BY DEF DrawnInv, TipInv
<1> DEFINE c == Call("me", "")
<1>1. c.kind = "me"
  BY DEF Call
<1>2. (calls = <<>> \/ calls = <<c>>) /\ body = DashboardBody
  BY DEF Init, FirstBody
<1> HIDE DEF c
<1>3. \A n \in 1 .. Len(calls) : calls[n].kind = "me"
  BY <1>1, <1>2
<1>4. \A n \in 1 .. Len(calls) : AskedFor(calls[n])
  BY <1>3 DEF AskedFor, Panel
<1>5. \A p \in Panel : body.chart[p].data = "nothing"
  BY <1>2, NothingDrawn
<1>6. TipShape(body.tip) /\ ~body.tip.on
  BY <1>2 DEF DashboardBody, TipShape
<1> QED
  BY <1>4, <1>5, <1>6 DEF DrawnInv, TipInv

\* Only the mouse moves the tooltip.
LEMMA TipKept ==
  ASSUME DashboardShape(body), page = "dashboard",
         \/ UserStep /\ ~(HoverGrowth \/ HoverDistribution)
         \/ \E n \in 1 .. Len(calls) : DeskShape /\ HandlerStep(n)
         \/ body' = DashboardStart(body)
  PROVE  body'.tip = body.tip
<1>1. ASSUME NEW x, NEW y, NEW z,
             \/ body' = body
             \/ body' = [body EXCEPT !.chart = x]
             \/ body' = [body EXCEPT !.lit = x, !.chart = y]
             \/ body' = [body EXCEPT !.chart = x, !.breakdown = y]
             \/ body' = [body EXCEPT !.cards = x]
             \/ body' = [body EXCEPT !.feed = x]
             \/ body' = [body EXCEPT !.cards = x, !.feed = y, !.chart = z]
      PROVE  body'.tip = body.tip
  BY <1>1 DEF DashboardShape
<1>2. CASE UserStep /\ ~(HoverGrowth \/ HoverDistribution)
  <2>1. body' = body \/ PickRange \/ PickType \/ ToggleTheme
    BY <1>2, UserFrame
  <2>2. ASSUME PickRange PROVE body'.tip = body.tip
    <3>1. PICK r : body' = [body EXCEPT !.lit.growth = r, !.chart.growth.message = "loading"]
      BY <2>2, Zenon DEF PickRange
    <3> QED
      BY <3>1 DEF DashboardShape
  <2>3. ASSUME PickType PROVE body'.tip = body.tip
    <3>1. PICK t : body' = [body EXCEPT !.lit.dist = t, !.chart.dist.message = "loading"]
      BY <2>3, Zenon DEF PickType
    <3> QED
      BY <3>1 DEF DashboardShape
  <2>4. ASSUME ToggleTheme PROVE body'.tip = body.tip
    <3>1. \E x : body' = [body EXCEPT !.chart = x]
      BY <2>4, Zenon DEF ToggleTheme, refreshTheme
    <3> QED
      BY <1>1, <3>1
  <2> QED
    BY <2>1, <2>2, <2>3, <2>4
<1>3. ASSUME NEW n \in 1 .. Len(calls), DeskShape, HandlerStep(n) PROVE body'.tip = body.tip
  <2>1. \/ body' = body \/ GrowthAnswered(n) \/ DistributionAnswered(n)
        \/ OverviewAnswered(n) \/ ActivityAnswered(n)
    BY <1>3, HandlerFrame
  <2>2. ASSUME GrowthAnswered(n) PROVE body'.tip = body.tip
    <3>1. \E x : \/ body' = [body EXCEPT !.chart.growth = x] \/ body' = [body EXCEPT !.chart["growth"].message = x]
      BY <2>2, Zenon DEF GrowthAnswered, renderGrowth, Failed
    <3> QED
      BY <3>1 DEF DashboardShape
  <2>3. ASSUME DistributionAnswered(n) PROVE body'.tip = body.tip
    <3>1. \E x, y : \/ body' = [body EXCEPT !.chart.dist = x, !.breakdown = y]
                    \/ body' = [body EXCEPT !.chart["dist"].message = x]
      BY <2>3, Zenon DEF DistributionAnswered, renderDistribution, Failed
    <3> QED
      BY <3>1 DEF DashboardShape
  <2>4. OverviewAnswered(n) => \E x : body' = [body EXCEPT !.cards = x]
    BY Zenon DEF OverviewAnswered
  <2>5. ActivityAnswered(n) => \E x : body' = [body EXCEPT !.feed = x]
    BY Zenon DEF ActivityAnswered
  <2> QED
    BY <1>1, <2>1, <2>2, <2>3, <2>4, <2>5
<1>4. CASE body' = DashboardStart(body)
  <2>1. \E x, y, z : body' = [body EXCEPT !.cards = x, !.feed = y, !.chart = z]
    BY <1>4, Zenon DEF DashboardStart
  <2> QED
    BY <1>1, <2>1
<1> QED
  BY <1>2, <1>3, <1>4, Zenon

\* Charts are drawn from answers to requests for their buttons.
LEMMA DrawnStep ==
  ASSUME DeskShape, DrawnInv, [Next]_vars
  PROVE  DrawnInv'
<1>0. calls \in Seq(AnyCall) /\ (page = "dashboard" => DashboardShape(body))
  BY Zenon DEF DeskShape, BodyFits
<1>1. ASSUME NEW p, NewDocument(p, FirstBody(p)) PROVE DrawnInv'
  <2>1. /\ page' = p /\ body' = FirstBody(p)
        /\ Len(calls') = 0 \/ (Len(calls') = 1 /\ calls'[1].kind = "me")
    BY <1>1, DocumentEffect
  <2> SUFFICES ASSUME page' = "dashboard" PROVE DrawnInv'
    BY DEF DrawnInv
  <2>2. \A q \in Panel : body'.chart[q].data = "nothing" /\ q # "me"
    BY <2>1, NothingDrawn DEF FirstBody, Panel
  <2>3. \A i \in 1 .. Len(calls') : AskedFor(calls'[i])
    BY <2>1, <2>2 DEF AskedFor
  <2> QED
    BY <2>2, <2>3 DEF DrawnInv
<1>2. ASSUME page = "dashboard"
      PROVE  /\ DashboardShape(body) /\ \A p \in Panel : body.chart[p].data \in {"nothing"} \cup Buttons[p]
             /\ \A i \in 1 .. Len(calls) : AskedFor(calls[i])
  BY <1>0, <1>2, Zenon DEF DrawnInv
<1>3. ASSUME page = "dashboard",
             \A p \in Panel : body'.chart[p].data = body.chart[p].data,
             \A i \in 1 .. Len(calls') : AskedFor(calls'[i])
      PROVE  DrawnInv'
  BY <1>2, <1>3 DEF DrawnInv
<1>4. ASSUME NEW p \in Panel, NEW w \in Buttons[p], Turn(0, <<Call(p, w)>>), page = "dashboard"
      PROVE  \A i \in 1 .. Len(calls') : AskedFor(calls'[i])
  <2> DEFINE c == Call(p, w)
  <2>1. c \in AnyCall /\ c.kind = p /\ c.what = w
    <3>1. p \in Kind /\ w \in What
      BY DEF Panel, Kind, What, Buttons
    <3> QED
      BY <3>1, CallTyped
  <2>2. 0 \in 0 .. Len(calls)
    BY <1>0
  <2>3. Turn(0, <<c>>)
    BY <1>4
  <2> HIDE DEF c
  <2>4. Replaced(calls, 0, <<c>>, calls')
    <3>1. 0 # 0 => calls[0].kind \in {}
      OBVIOUS
    <3> QED
      BY <2>1, <2>2, <2>3, <3>1, SentOne
  <2>5. \A j \in 1 .. Len(<<c>>) : AskedFor(<<c>>[j])
    BY <2>1 DEF AskedFor
  <2> QED
    BY <1>2, <1>4, <2>4, <2>5, AskedKept
<1>5. ASSUME UserStep, page = "dashboard" PROVE DrawnInv'
  <2>1. DashboardShape(body) /\ \A i \in 1 .. Len(calls) : AskedFor(calls[i])
    BY <1>2, <1>5
  <2>2. PICK A : /\ Turned({}, A) /\ ("growth" \in A => PickRange) /\ ("dist" \in A => PickType)
    BY <1>5, UserSends, Zenon
  <2>3. "growth" \in Panel /\ "dist" \in Panel /\ Buttons["growth"] = Buttons.growth /\ Buttons["dist"] = Buttons.dist
    BY DEF Panel, Buttons
  <2>4. CASE PickRange \/ PickType
    <3>1. \A p \in Panel : body'.chart[p].data = body.chart[p].data
      BY <2>1, <2>4, PicksEffect, Zenon
    <3>2. \E p \in Panel : \E w \in Buttons[p] : Turn(0, <<Call(p, w)>>)
      BY <2>1, <2>3, <2>4, PicksEffect, Zenon
    <3>3. \A i \in 1 .. Len(calls') : AskedFor(calls'[i])
      BY <1>4, <1>5, <3>2, Zenon
    <3> QED
      BY <1>3, <1>5, <3>1, <3>3
  <2>5. CASE ~(PickRange \/ PickType)
    <3>1. \A i \in 1 .. Len(calls') : AskedFor(calls'[i])
      BY <2>1, <2>2, <2>5, NotAsked
    <3>2. \A p \in Panel : body'.chart[p].data = body.chart[p].data
      <4>1. CASE ToggleTheme
        BY <1>5, <2>1, <4>1, ToggleEffect, Zenon
      <4>2. CASE ~ToggleTheme
        <5>1. body'.chart = body.chart
          BY <1>5, <2>1, <2>5, <4>2, ChartsKept
        <5> QED
          BY <5>1
      <4> QED
        BY <4>1, <4>2
    <3> QED
      BY <1>3, <1>5, <3>1, <3>2
  <2> QED
    BY <2>4, <2>5
<1>6. ASSUME NEW n \in 1 .. Len(calls), HandlerStep(n), page = "dashboard" PROVE DrawnInv'
  <2>1. /\ DashboardShape(body) /\ \A p \in Panel : body.chart[p].data \in {"nothing"} \cup Buttons[p]
        /\ \A i \in 1 .. Len(calls) : AskedFor(calls[i])
    BY <1>2, <1>6
  <2>2. PICK R, A : Turned(R, A) /\ "growth" \notin A /\ "dist" \notin A
    BY <1>6, HandlerSends, Zenon
  <2>3. \A i \in 1 .. Len(calls') : AskedFor(calls'[i])
    BY <2>1, <2>2, NotAsked
  <2>4. "growth" \in Panel /\ "dist" \in Panel /\ \A p \in Panel : p = "growth" \/ p = "dist"
    BY DEF Panel
  <2>5. CASE GrowthAnswered(n)
    <3>1. calls[n].what \in Buttons["growth"]
      BY <2>1, <2>4, <2>5, AnswersEffect DEF AskedFor
    <3>2. Effective(calls[n].what) \in Buttons["growth"]
      BY <3>1 DEF Effective, Buttons
    <3>3. /\ body'.chart["dist"].data = body.chart["dist"].data
          /\ \/ body'.chart["growth"].data = Effective(calls[n].what)
             \/ body'.chart["growth"].data = body.chart["growth"].data
      BY <2>1, <2>5, AnswersEffect, Zenon
    <3>4. \A p \in Panel : body'.chart[p].data \in {"nothing"} \cup Buttons[p]
      BY <2>1, <2>4, <3>2, <3>3
    <3> QED
      BY <2>3, <3>4 DEF DrawnInv
  <2>6. CASE DistributionAnswered(n)
    <3>1. calls[n].what \in Buttons["dist"]
      BY <2>1, <2>4, <2>6, AnswersEffect DEF AskedFor
    <3>2. /\ body'.chart["growth"].data = body.chart["growth"].data
          /\ \/ body'.chart["dist"].data = calls[n].what
             \/ body'.chart["dist"].data = body.chart["dist"].data
      BY <2>1, <2>6, AnswersEffect, Zenon
    <3>3. \A p \in Panel : body'.chart[p].data \in {"nothing"} \cup Buttons[p]
      BY <2>1, <2>4, <3>1, <3>2
    <3> QED
      BY <2>3, <3>3 DEF DrawnInv
  <2>7. CASE ~(GrowthAnswered(n) \/ DistributionAnswered(n))
    <3>1. body'.chart = body.chart
      BY <1>6, <2>1, <2>7, ChartsKept
    <3> QED
      BY <1>3, <1>6, <2>3, <3>1
  <2> QED
    BY <2>5, <2>6, <2>7
<1>7. ASSUME NEW n \in 1 .. Len(calls), MeAnswered(n, start(page), StartBody(page)), page = "dashboard" PROVE DrawnInv'
  <2>1. /\ DashboardShape(body) /\ \A p \in Panel : body.chart[p].data \in {"nothing"} \cup Buttons[p]
        /\ \A i \in 1 .. Len(calls) : AskedFor(calls[i])
    BY <1>2, <1>7
  <2>2. CASE Replaced(calls, n, <<>>, calls') /\ UNCHANGED body
    <3>1. \A j \in 1 .. Len(<<>>) : AskedFor(<<>>[j])
      OBVIOUS
    <3>2. \A i \in 1 .. Len(calls') : AskedFor(calls'[i])
      BY <2>1, <2>2, <3>1, AskedKept
    <3> QED
      BY <1>3, <1>7, <2>2, <3>2
  <2>3. CASE Replaced(calls, n, FirstCalls, calls') /\ body' = StartBody(page)
    <3>1. \A j \in 1 .. Len(FirstCalls) : AskedFor(FirstCalls[j])
      BY FirstAskedFor
    <3>2. \A i \in 1 .. Len(calls') : AskedFor(calls'[i])
      BY <2>1, <2>3, <3>1, AskedKept
    <3>3. StartBody(page) = DashboardStart(body)
      BY <1>7 DEF StartBody
    <3>4. \A p \in Panel : body'.chart[p].data = "nothing"
      BY <2>1, <2>3, <3>3, NothingDrawn, Zenon
    <3> QED
      BY <3>2, <3>4 DEF DrawnInv
  <2> QED
    BY <1>7, <2>2, <2>3, MeTurns
<1>8. ASSUME NEW n \in 1 .. Len(calls), Serve(n) \/ Lose(n), page = "dashboard" PROVE DrawnInv'
  <2>1. Rephased(n) /\ UNCHANGED body
    BY <1>8, ServeEffect, LoseEffect, ServeFrame
  <2>2. \A i \in 1 .. Len(calls) : AskedFor(calls[i])
    BY <1>2, <1>8
  <2>3. \A i \in 1 .. Len(calls') : calls'[i].kind = calls[i].kind /\ calls'[i].what = calls[i].what
    BY <1>8, <2>1 DEF Rephased
  <2>4. \A i \in 1 .. Len(calls') : AskedFor(calls'[i])
    BY <2>1, <2>2, <2>3 DEF AskedFor, Rephased
  <2> QED
    BY <1>3, <1>8, <2>1, <2>4
<1>9. ASSUME UNCHANGED vars PROVE DrawnInv'
  BY <1>9 DEF vars, frame, DrawnInv, AskedFor
<1>10. ASSUME page # "dashboard", UNCHANGED page PROVE DrawnInv'
  BY <1>10 DEF DrawnInv
<1>11. ASSUME UserStep PROVE DrawnInv'
  BY <1>5, <1>10, <1>11, UserFrame
<1>12. ASSUME NEW n \in 1 .. Len(calls), HandlerStep(n) PROVE DrawnInv'
  BY <1>6, <1>10, <1>12, HandlerFrame
<1>13. ASSUME NEW n \in 1 .. Len(calls), MeAnswered(n, start(page), StartBody(page)) PROVE DrawnInv'
  BY <1>7, <1>10, <1>13, MeFrame
<1>14. ASSUME NEW n \in 1 .. Len(calls), Serve(n) \/ Lose(n) PROVE DrawnInv'
  BY <1>8, <1>10, <1>14, ServeFrame
<1> QED
  BY <1>0, <1>1, <1>9, <1>11, <1>12, <1>13, <1>14, StepKinds, Zenon

\* The tooltip is put where the mouse is when it moves, and nowhere else.
LEMMA TipStep ==
  ASSUME DeskShape, DrawnInv, TipInv, [Next]_vars
  PROVE  TipInv'
<1>0. calls \in Seq(AnyCall) /\ (page = "dashboard" => DashboardShape(body))
  BY Zenon DEF DeskShape, BodyFits
<1>1. ASSUME NEW p, NewDocument(p, FirstBody(p)) PROVE TipInv'
  <2>1. page' = p /\ body' = FirstBody(p)
    BY <1>1, DocumentEffect
  <2> SUFFICES ASSUME page' = "dashboard" PROVE TipInv'
    BY DEF TipInv
  <2>2. body' = DashboardBody
    BY <2>1 DEF FirstBody
  <2>3. TipShape(body'.tip) /\ ~body'.tip.on
    BY <2>2 DEF DashboardBody, TipShape
  <2> QED
    BY <2>3 DEF TipInv, TipRight
<1>2. ASSUME page = "dashboard"
      PROVE  DashboardShape(body) /\ TipShape(body.tip) /\ (body.tip.on => TipRight(body.tip))
  BY <1>0, <1>2, Zenon DEF TipInv
<1>3. ASSUME page = "dashboard", body'.tip = body.tip PROVE TipInv'
  BY <1>2, <1>3, Zenon DEF TipInv, TipShape, TipRight
<1>4. ASSUME NEW x, TipShape(x), x.on => TipRight(x), page = "dashboard", body' = [body EXCEPT !.tip = x]
      PROVE  TipInv'
  <2>1. body'.tip = x
    BY <1>2, <1>4 DEF DashboardShape
  <2> QED
    BY <1>4, <2>1, Zenon DEF TipInv, TipShape, TipRight
<1>5. ASSUME HoverGrowth PROVE TipInv'
  <2>1. page = "dashboard" /\ Visible("growth") /\ ~Chart!drawEmpty(Growth[body.chart.growth.data])
    BY <1>5, Zenon DEF HoverGrowth, Ready
  <2>2. PICK size \in ChartSize, at \in Mouse :
          body' = [body EXCEPT !.tip = growthTip(body.chart.growth.data, body.chart.growth.size, size, at)]
    BY <1>5, Zenon DEF HoverGrowth
  <2> DEFINE r == body.chart.growth.data
             z == body.chart.growth.size
  <2>3. r \in Buttons.growth
    <3>1. "growth" \in Panel /\ Buttons["growth"] = Buttons.growth
      BY DEF Panel, Buttons
    <3>2. body.chart["growth"].data \in {"nothing"} \cup Buttons.growth
      BY <2>1, <3>1 DEF DrawnInv
    <3> QED
      BY <2>1, <3>2 DEF Visible
  <2>4. ~Chart!drawEmpty(Growth[r])
    BY <2>1
  <2>5. z \in Nat \X Nat
    BY <1>2, <2>1 DEF DashboardShape, Panel
  <2> HIDE DEF r, z
  <2>6. TipShape(growthTip(r, z, size, at)) /\ TipRight(growthTip(r, z, size, at))
    BY <2>3, <2>4, <2>5, GrowthTip
  <2> QED
    BY <1>4, <2>1, <2>2, <2>6, Zenon DEF r, z
<1>6. ASSUME HoverDistribution PROVE TipInv'
  <2>1. page = "dashboard" /\ Visible("dist")
    BY <1>6, Zenon DEF HoverDistribution, Ready
  <2>2. PICK size \in ChartSize, at \in Mouse :
          /\ at[1] < size[1] /\ at[2] < size[2]
          /\ body' = [body EXCEPT !.tip = barTip(body.tip, body.chart.dist.data, body.chart.dist.size, size, at)]
    BY <1>6, Zenon DEF HoverDistribution
  <2> DEFINE t == body.chart.dist.data
             z == body.chart.dist.size
             new == barTip(body.tip, t, z, size, at)
  <2>3. t \in Buttons.dist
    <3>1. "dist" \in Panel /\ Buttons["dist"] = Buttons.dist
      BY DEF Panel, Buttons
    <3>2. body.chart["dist"].data \in {"nothing"} \cup Buttons.dist
      BY <2>1, <3>1 DEF DrawnInv
    <3> QED
      BY <2>1, <3>2 DEF Visible
  <2>4. z \in Nat \X Nat
    BY <1>2, <2>1 DEF DashboardShape, Panel
  <2>5. body' = [body EXCEPT !.tip = new]
    BY <2>2
  <2> HIDE DEF t, z
  <2>6. TipShape(new) /\ (new.on => TipRight(new))
    BY <1>2, <2>1, <2>2, <2>3, <2>4, BarTip
  <2> HIDE DEF new
  <2> QED
    BY <1>4, <2>1, <2>5, <2>6
<1>7. ASSUME page # "dashboard", UNCHANGED page PROVE TipInv'
  BY <1>7 DEF TipInv
<1>8. ASSUME UserStep PROVE TipInv'
  <2>1. CASE page = "dashboard" /\ ~(HoverGrowth \/ HoverDistribution)
    <3>1. body'.tip = body.tip
      BY <1>2, <1>8, <2>1, TipKept
    <3> QED
      BY <1>3, <2>1, <3>1
  <2> QED
    BY <1>5, <1>6, <1>7, <1>8, <2>1, UserFrame
<1>9. ASSUME NEW n \in 1 .. Len(calls), HandlerStep(n) PROVE TipInv'
  <2>1. CASE page = "dashboard"
    <3>1. body'.tip = body.tip
      BY <1>2, <1>9, <2>1, TipKept
    <3> QED
      BY <1>3, <2>1, <3>1
  <2> QED
    BY <1>7, <1>9, <2>1, HandlerFrame
<1>10. ASSUME NEW n \in 1 .. Len(calls), MeAnswered(n, start(page), StartBody(page)) PROVE TipInv'
  <2>1. CASE page = "dashboard"
    <3>1. StartBody(page) = DashboardStart(body)
      BY <2>1 DEF StartBody
    <3>2. body' = body \/ body' = DashboardStart(body)
      BY <1>10, <3>1, MeTurns, Zenon
    <3>3. body'.tip = body.tip
      BY <1>2, <2>1, <3>2, TipKept
    <3> QED
      BY <1>3, <2>1, <3>3
  <2> QED
    BY <1>7, <1>10, <2>1, MeFrame
<1>11. ASSUME NEW n \in 1 .. Len(calls), Serve(n) \/ Lose(n) PROVE TipInv'
  <2>1. UNCHANGED <<page, body>>
    BY <1>11, ServeFrame
  <2> QED
    BY <1>3, <1>7, <2>1
<1>12. ASSUME UNCHANGED vars PROVE TipInv'
  <2>1. UNCHANGED <<page, body>>
    BY <1>12 DEF vars, frame
  <2> QED
    BY <1>3, <1>7, <2>1
<1> QED
  BY <1>0, <1>1, <1>8, <1>9, <1>10, <1>11, <1>12, StepKinds, Zenon

\* Wherever the mouse is, and whatever size canvas and tooltip have: the tooltip
\* stays inside the wrapper of that moment if it fits there, and on a picture that
\* was not stretched since it was drawn it is about the row, or the bar, nearest to
\* the mouse (the mousemove handlers of charts.js, Math.round and their clamps).
THEOREM TipsAreNearest == Spec => []TipIsNearest
<1>1. Init => DrawnInv /\ TipInv
  BY DrawnInit
<1>2. DeskShape /\ DrawnInv /\ TipInv /\ [Next]_vars => DrawnInv' /\ TipInv'
  BY DrawnStep, TipStep
<1>3. TipInv => TipIsNearest
  BY DEF TipInv, TipRight, TipIsNearest
<1> QED
  BY <1>1, <1>2, <1>3, DeskKeepsShape, PTL DEF Spec

\* Whatever was recorded: the grid of a chart that is drawn is numbered truly, both
\* ends of the time axis are labelled and of many rows at most eight, lines rise
\* and fall with their counts, and lines and bars keep inside the plot, the bars
\* apart (drawGrowth, drawDistribution).
THEOREM ChartsAreReadable == Spec => []ChartIsReadable
<1>1. Init => DrawnInv
  BY DrawnInit
<1>2. DeskShape /\ DrawnInv /\ [Next]_vars => DrawnInv'
  BY DrawnStep
<1>3. DrawnInv => ChartIsReadable
  <2> SUFFICES ASSUME DrawnInv, page = "dashboard"
               PROVE  /\ Visible("growth") => LinesAreReadable[body.chart.growth.data]
                      /\ Visible("dist") => BarsAreReadable[body.chart.dist.data]
    BY Zenon DEF ChartIsReadable
  <2>1. /\ "growth" \in Panel /\ "dist" \in Panel
        /\ Buttons["growth"] = Buttons.growth /\ Buttons["dist"] = Buttons.dist
    BY DEF Panel, Buttons
  <2>2. /\ body.chart["growth"].data \in {"nothing"} \cup Buttons.growth
        /\ body.chart["dist"].data \in {"nothing"} \cup Buttons.dist
    BY <2>1 DEF DrawnInv
  <2>3. /\ Visible("growth") => body.chart["growth"].data \in Buttons.growth
        /\ Visible("dist") => body.chart["dist"].data \in Buttons.dist
    BY <2>2 DEF Visible
  <2>4. /\ Visible("growth") => LinesAreReadable[body.chart["growth"].data]
        /\ Visible("dist") => BarsAreReadable[body.chart["dist"].data]
    BY <2>3, LinesRead, BarsRead, Zenon
  <2>5. body.chart.growth = body.chart["growth"] /\ body.chart.dist = body.chart["dist"]
    OBVIOUS
  <2> QED
    BY <2>4, <2>5
<1> QED
  BY <1>1, <1>2, <1>3, DeskKeepsShape, PTL DEF Spec

=============================================================================

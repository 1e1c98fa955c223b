--------------------------- MODULE DirectoryProofs ---------------------------
(***************************************************************************)
(* For every set of records, accounts and requests, whatever moves on the  *)
(* admin site and whatever dies on the way: rows and links stay in their   *)
(* organizations, and an organization's deletion takes nothing that was    *)
(* there all the time.  The last needs the four counts; the first needs    *)
(* what the copies of two handlers have in common.  With two requests at a *)
(* time, whatever a deletion removes has been recorded.                    *)
(***************************************************************************)
EXTENDS Directory, FiniteSetTheorems, TLAPS

\* A handler reaches a statement with what it uses there.
Fits(q) ==
  /\ q.pc = "save" => /\ q.target \in Record /\ q.new \in Row
                      /\ q.new.link \in LinkKind(q.target) \cup {NoLink}
  /\ q.pc \in {"join", "leave"} => q.target \in Project /\ q.user \in User
  /\ q.pc \in {"saveOrg", "count"} => q.target \in Org
  /\ q.pc \in {"audit", "collect", "purge"} =>
       q.target \in Target /\ (q.target \in Record => q.new \in Row)
  /\ q.pc = "purge" /\ q.target \in Record => q.target \in q.taken
  /\ q.pc \in {"save", "saveOrg", "count", "audit"} => q.action \in {"CREATE", "UPDATE", "DELETE"}

\* A record stays in the organization it was made in: a copy about to be saved
\* says what the row says, if there is one, and what the row it links to says.
Agrees(q) ==
  q.pc = "save" =>
    /\ Live(q.target) => row[q.target].org = q.new.org
    /\ q.new.link \in Record => /\ status[q.new.link] # "unborn"
                                /\ Live(q.new.link) => row[q.new.link].org = q.new.org

\* Copies say the same of a record that is gone, which either may bring back.
Alike(p, q) ==
  p.pc = "save" /\ q.pc = "save" /\ q.target \in {p.target, p.new.link}
    => q.new.org = p.new.org

\* What was there all the time is still there, and is none of what was counted.
Kept(q) ==
  q.target \in Org =>
    /\ q.before \subseteq RecordsOf(q.target)
    /\ q.pc = "count" /\ q.next > 2 => q.before \cap Client = {}
    /\ q.pc = "count" /\ q.next > 3 => q.before \cap Project = {}
    /\ q.pc \in {"saveOrg", "audit", "collect", "purge"} => q.before \subseteq Department

IInv ==
  /\ TypeOK
  /\ LinksHold
  /\ \A r \in Request : Fits(req[r]) /\ Agrees(req[r]) /\ Kept(req[r])
  /\ \A r, s \in Request : Alike(req[r], req[s])

-----------------------------------------------------------------------------
(* Kinds, and the locals of a handler. *)

LEMMA Kinds ==
  /\ \A x \in Record : LinkKind(x) \subseteq Client \cup Project \cup Department
  /\ \A t \in Task : LinkKind(t) = Project
  /\ \A l \in Client \cup Project \cup Department : l \in Record /\ l \notin Task
  /\ NoLink \notin Record /\ Unset \notin Record /\ Unset # NoLink
  /\ NoTarget \notin Target /\ NoRow \notin Row
  /\ \A x \in Record : x \notin Org
BY DirectoryAssumption DEF LinkKind, Record, Target

LEMMA LocalsOf ==
  ASSUME NEW pc \in Active \cup {"idle", "done"},
         NEW a \in {"none", "CREATE", "UPDATE", "DELETE"},
         NEW k \in Target \cup {NoTarget}, NEW w \in Row \cup {NoRow}, NEW c \in BOOLEAN,
         NEW v \in User \cup {NoUser}, NEW S \in SUBSET Record
  PROVE  Local(pc, a, k, w, c, v, S) \in Locals
BY DEF Local, Locals, Count

LEMMA DoneFits ==
  /\ Done \in Locals /\ Fits(Done) /\ Agrees(Done) /\ Kept(Done)
  /\ \A q : Alike(Done, q) /\ Alike(q, Done)
  /\ Idle \in Locals /\ Fits(Idle) /\ Agrees(Idle) /\ Kept(Idle)
  /\ \A q : Alike(Idle, q) /\ Alike(q, Idle)
  /\ Done.pc = "done" /\ Done.target \notin Org /\ Idle.pc = "idle" /\ Idle.target = NoTarget
<1>1. /\ Done.pc = "done" /\ Done.target = NoTarget
      /\ Idle.pc = "idle" /\ Idle.target = NoTarget
  BY DEF Done, Idle, Begin, Local
<1>2. Done \in Locals /\ Idle \in Locals
  BY DEF Done, Idle, Begin, Local, Locals, Count
<1>3. NoTarget \notin Org
  BY Kinds DEF Target
<1> QED
  BY <1>1, <1>2, <1>3 DEF Fits, Agrees, Kept, Alike

-----------------------------------------------------------------------------
(* A step that only reads the tables. *)

LEMMA ReadingStep ==
  ASSUME IInv, NEW r \in Request, NEW q \in Locals, Goto(r, q), UNCHANGED <<db, moves>>,
         Fits(q), Agrees(q), Kept(q),
         \A s \in Request \ {r} : Alike(q, req[s]) /\ Alike(req[s], q),
         Alike(q, q)
  PROVE  IInv'
<1>1. /\ status' = status /\ row' = row /\ member' = member /\ home' = home
      /\ audit' = audit /\ moves' = moves
  BY DEF db
<1>2. req' = [req EXCEPT ![r] = q] /\ req \in [Request -> Locals]
  BY DEF Goto, IInv, TypeOK
<1>3. \A s \in Request : req'[s] = IF s = r THEN q ELSE req[s]
  BY <1>2
<1>4. TypeOK'
  BY <1>1, <1>2 DEF IInv, TypeOK
<1>5. LinksHold'
  BY <1>1 DEF IInv, LinksHold, Live
<1>6. \A p : Agrees(p)' = Agrees(p) /\ Kept(p)' = Kept(p)
  BY <1>1 DEF Agrees, Kept, RecordsOf, Live
<1>7. \A s \in Request : Fits(req'[s]) /\ Agrees(req'[s]) /\ Kept(req'[s])
  BY <1>3 DEF IInv
<1>8. \A s, t \in Request : Alike(req'[s], req'[t])
  BY <1>3 DEF IInv
<1>9. \A s \in Request : Fits(req[s])' /\ Agrees(req[s])' /\ Kept(req[s])'
  <2>1. \A s \in Request : Fits(req[s])' = Fits(req'[s])
    BY DEF Fits
  <2>2. \A s \in Request : Agrees(req[s])' = Agrees(req'[s])
    BY <1>1 DEF Agrees, Live
  <2>3. \A s \in Request : Kept(req[s])' = Kept(req'[s])
    BY <1>1 DEF Kept, RecordsOf, Live
  <2> QED BY <1>7, <2>1, <2>2, <2>3
<1>10. \A s, t \in Request : Alike(req[s], req[t])'
  BY <1>8 DEF Alike
<1> QED
  BY <1>4, <1>5, <1>9, <1>10 DEF IInv

-----------------------------------------------------------------------------
(* Clients, projects, tasks and departments. *)

LEMMA LinkedRow ==
  ASSUME IInv, NEW x \in Record, Live(x)
  PROVE  /\ row[x] \in Row /\ row[x].org \in Org /\ Live(row[x].org)
         /\ row[x].link \in LinkKind(x) \cup {NoLink}
         /\ row[x].link \in Record => /\ Live(row[x].link)
                                      /\ row[row[x].link].org = row[x].org
<1>1. row[x] \in Row /\ Live(row[x].org)
  BY DEF IInv, LinksHold
<1>2. row[x].link # NoLink => /\ row[x].link \in LinkKind(x)
                              /\ Live(row[x].link)
                              /\ row[row[x].link].org = row[x].org
  BY DEF IInv, LinksHold
<1> QED
  BY <1>1, <1>2, Kinds DEF Row

LEMMA CreateKeeps ==
  ASSUME IInv, NEW r \in Request, Create(r)
  PROVE  IInv'
<1>0. PICK u \in Writer, x \in Record : \E l \in LinkKind(x) \cup {NoLink} :
        /\ Fresh(x) /\ ValidLink(u, l)
        /\ Goto(r, Begin("save", "CREATE", x, [org |-> home[u], link |-> l], TRUE))
        /\ UNCHANGED <<db, moves>>
  BY DEF Create
<1>1. PICK l \in LinkKind(x) \cup {NoLink} :
        /\ Fresh(x) /\ ValidLink(u, l)
        /\ Goto(r, Begin("save", "CREATE", x, [org |-> home[u], link |-> l], TRUE))
        /\ UNCHANGED <<db, moves>>
  BY <1>0
<1> DEFINE w == [org |-> home[u], link |-> l]
           q == Begin("save", "CREATE", x, w, TRUE)
<1>2. u \in User /\ home[u] \in Org
  BY DirectoryAssumption DEF IInv, TypeOK
<1>3. w \in Row /\ w.org = home[u] /\ w.link = l
  BY <1>2, Kinds DEF Row
<1>4. /\ q.pc = "save" /\ q.action = "CREATE" /\ q.target = x /\ q.new = w
      /\ q \in Locals
  <2>1. q \in Locals
    BY <1>3, LocalsOf DEF Begin, Active, Target
  <2> QED BY <2>1 DEF Begin, Local
<1>5. l \in Record => Live(l) /\ row[l].org = w.org
  BY <1>1, <1>3 DEF ValidLink, Visible
<1> HIDE DEF w, q
<1>6. Fits(q)
  BY <1>3, <1>4 DEF Fits
<1>7. Agrees(q)
  BY <1>1, <1>3, <1>4, <1>5 DEF Agrees, Fresh, Live
<1>8. Kept(q)
  BY <1>4, Kinds DEF Kept
<1>9. \A s \in Request : Alike(q, req[s]) /\ Alike(req[s], q)
  <2> SUFFICES ASSUME NEW s \in Request, req[s].pc = "save"
               PROVE  Alike(q, req[s]) /\ Alike(req[s], q)
    BY <1>4 DEF Alike
  <2>1. Agrees(req[s]) /\ Fits(req[s])
    BY DEF IInv
  <2>2. req[s].target # x
    BY <1>1 DEF Fresh
  <2>3. req[s].new.link # x
    BY <1>1, <2>1 DEF Fresh, Agrees
  <2>4. req[s].target = l => req[s].new.org = w.org
    BY <1>5, <2>1 DEF Agrees, Fits
  <2> QED
    BY <1>3, <1>4, <2>2, <2>3, <2>4 DEF Alike
<1>10. Alike(q, q)
  BY <1>4 DEF Alike
<1> QED
  BY <1>1, <1>4, <1>6, <1>7, <1>8, <1>9, <1>10, ReadingStep DEF q, w

LEMMA UpdateKeeps ==
  ASSUME IInv, NEW r \in Request, Update(r)
  PROVE  IInv'
<1>0. PICK u \in Writer, x \in Record, c \in BOOLEAN :
        \E l \in LinkKind(x) \cup {NoLink, Unset} :
          /\ Visible(u, x) /\ ValidLink(u, l)
          /\ Goto(r, Begin("save", "UPDATE", x, Patched(row[x], l), c))
          /\ UNCHANGED <<db, moves>>
  BY DEF Update
<1>1. PICK l \in LinkKind(x) \cup {NoLink, Unset} :
        /\ Visible(u, x) /\ ValidLink(u, l)
        /\ Goto(r, Begin("save", "UPDATE", x, Patched(row[x], l), c))
        /\ UNCHANGED <<db, moves>>
  BY <1>0
<1> DEFINE w == Patched(row[x], l)
           q == Begin("save", "UPDATE", x, w, c)
<1>2. /\ Live(x) /\ row[x] \in Row /\ row[x].org \in Org /\ row[x].org = home[u]
      /\ row[x].link \in LinkKind(x) \cup {NoLink}
      /\ row[x].link \in Record => Live(row[x].link) /\ row[row[x].link].org = row[x].org
  BY <1>1, LinkedRow DEF Visible
<1>3. /\ w \in Row /\ w.org = row[x].org
      /\ w.link = IF l = Unset THEN row[x].link ELSE l
  BY <1>1, <1>2, Kinds DEF Row, Patched
<1>4. /\ q.pc = "save" /\ q.action = "UPDATE" /\ q.target = x /\ q.new = w
      /\ q \in Locals
  <2>1. w \in Row /\ x \in Target
    BY <1>3 DEF Target
  <2> HIDE DEF w
  <2>2. q \in Locals
    BY <2>1, LocalsOf DEF Begin, Active
  <2> QED BY <2>2 DEF Begin, Local
<1>5. w.link \in Record => Live(w.link) /\ row[w.link].org = w.org
  BY <1>1, <1>2, <1>3, Kinds DEF ValidLink, Visible
<1>6. w.link \in LinkKind(x) \cup {NoLink}
  BY <1>1, <1>2, <1>3
<1> HIDE DEF w, q
<1>7. Fits(q)
  BY <1>3, <1>4, <1>6 DEF Fits
<1>8. Agrees(q)
  BY <1>3, <1>4, <1>5 DEF Agrees, Live
<1>9. Kept(q)
  BY <1>4, Kinds DEF Kept
<1>10. \A s \in Request : Alike(q, req[s]) /\ Alike(req[s], q)
  <2> SUFFICES ASSUME NEW s \in Request, req[s].pc = "save"
               PROVE  Alike(q, req[s]) /\ Alike(req[s], q)
    BY <1>4 DEF Alike
  <2>1. Agrees(req[s]) /\ Fits(req[s])
    BY DEF IInv
  <2>2. req[s].target = x => req[s].new.org = w.org
    BY <1>2, <1>3, <2>1 DEF Agrees
  <2>3. req[s].target = w.link => req[s].new.org = w.org
    BY <1>5, <2>1 DEF Agrees, Fits
  <2>4. req[s].new.link = x => req[s].new.org = w.org
    BY <1>2, <1>3, <2>1 DEF Agrees
  <2> QED
    BY <1>4, <2>2, <2>3, <2>4 DEF Alike
<1>11. Alike(q, q)
  BY <1>4 DEF Alike
<1> QED
  BY <1>1, <1>4, <1>7, <1>8, <1>9, <1>10, <1>11, ReadingStep DEF q, w

\* A step after which the handler is not about to save.
LEMMA PlainStep ==
  ASSUME IInv, NEW r \in Request, NEW q \in Locals, Goto(r, q), UNCHANGED <<db, moves>>,
         q.pc # "save", Fits(q), Kept(q)
  PROVE  IInv'
<1>1. Agrees(q) /\ \A s : Alike(q, req[s]) /\ Alike(req[s], q)
  BY DEF Agrees, Alike
<1>2. Alike(q, q)
  BY DEF Alike
<1> QED
  BY <1>1, <1>2, ReadingStep

LEMMA FinishKeeps ==
  ASSUME IInv, NEW r \in Request, Goto(r, Done), UNCHANGED <<db, moves>>
  PROVE  IInv'
BY DoneFits, PlainStep

LEMMA DestroyKeeps ==
  ASSUME IInv, NEW r \in Request, Destroy(r)
  PROVE  IInv'
<1>1. PICK u \in Writer, x \in Record :
        /\ Visible(u, x)
        /\ Goto(r, Begin(IF x \in Audited THEN "audit" ELSE "collect", "DELETE", x, row[x], TRUE))
        /\ UNCHANGED <<db, moves>>
  BY DEF Destroy
<1> DEFINE stage == IF x \in Audited THEN "audit" ELSE "collect"
           q == Begin(stage, "DELETE", x, row[x], TRUE)
<1>2. row[x] \in Row
  BY <1>1, LinkedRow DEF Visible
<1>3. stage \in {"audit", "collect"}
  OBVIOUS
<1> HIDE DEF stage
<1>4. q.pc = stage /\ q.action = "DELETE" /\ q.target = x /\ q.new = row[x] /\ q \in Locals
  <2>1. q \in Locals
    BY <1>2, <1>3, LocalsOf DEF Begin, Active, Target
  <2> QED BY <2>1 DEF Begin, Local
<1> HIDE DEF q
<1>5. Fits(q)
  BY <1>2, <1>3, <1>4 DEF Fits, Target
<1>6. Kept(q)
  BY <1>4, Kinds DEF Kept
<1>7. q.pc # "save"
  BY <1>3, <1>4
<1> QED
  BY <1>1, <1>4, <1>5, <1>6, <1>7, PlainStep DEF q, stage

LEMMA MemberStepsKeep ==
  ASSUME IInv, NEW r \in Request, AddMember(r) \/ RemoveMember(r)
  PROVE  IInv'
<1>1. PICK p \in Project, v \in User, stage \in {"join", "leave"} :
        /\ Goto(r, Local(stage, "none", p, NoRow, FALSE, v, {}))
        /\ UNCHANGED <<db, moves>>
  BY DEF AddMember, RemoveMember
<1> DEFINE q == Local(stage, "none", p, NoRow, FALSE, v, {})
<1>2. p \in Record
  BY DEF Record
<1>3. q.pc = stage /\ q.target = p /\ q.user = v /\ q \in Locals
  <2>1. q \in Locals
    BY <1>2, LocalsOf DEF Active, Target
  <2> QED BY <2>1 DEF Local
<1> HIDE DEF q
<1>4. Fits(q) /\ Kept(q) /\ q.pc # "save"
  BY <1>2, <1>3, Kinds DEF Fits, Kept
<1> QED
  BY <1>1, <1>3, <1>4, PlainStep DEF q


-----------------------------------------------------------------------------
(* Organizations. *)

LEMMA OrgSaveStarts ==
  ASSUME IInv, NEW r \in Request, CreateOrg(r) \/ UpdateOrg(r)
  PROVE  IInv'
<1>1. PICK o \in Org, a \in {"CREATE", "UPDATE"}, c \in BOOLEAN :
        /\ Goto(r, Begin("saveOrg", a, o, NoRow, c))
        /\ UNCHANGED <<db, moves>>
  BY DEF CreateOrg, UpdateOrg
<1> DEFINE q == Begin("saveOrg", a, o, NoRow, c)
<1>2. /\ q.pc = "saveOrg" /\ q.action = a /\ q.target = o /\ q.before = {}
      /\ q \in Locals
  <2>1. q \in Locals
    BY LocalsOf DEF Begin, Active, Target
  <2> QED BY <2>1 DEF Begin, Local
<1> HIDE DEF q
<1>3. Fits(q) /\ Kept(q) /\ q.pc # "save"
  BY <1>2 DEF Fits, Kept
<1> QED
  BY <1>1, <1>2, <1>3, PlainStep DEF q

LEMMA DestroyOrgKeeps ==
  ASSUME IInv, NEW r \in Request, DestroyOrg(r)
  PROVE  IInv'
<1>1. PICK o \in Org :
        /\ Goto(r, Local("count", "DELETE", o, NoRow, TRUE, NoUser, RecordsOf(o)))
        /\ UNCHANGED <<db, moves>>
  BY DEF DestroyOrg
<1> DEFINE q == Local("count", "DELETE", o, NoRow, TRUE, NoUser, RecordsOf(o))
<1>2. /\ q.pc = "count" /\ q.action = "DELETE" /\ q.target = o
      /\ q.before = RecordsOf(o) /\ q.next = 1
      /\ q \in Locals
  <2>1. RecordsOf(o) \in SUBSET Record
    BY DEF RecordsOf
  <2>2. q \in Locals
    BY <2>1, LocalsOf DEF Active, Target
  <2> QED BY <2>2 DEF Local
<1> HIDE DEF q
<1>3. Fits(q) /\ Kept(q) /\ q.pc # "save"
  BY <1>2 DEF Fits, Kept
<1> QED
  BY <1>1, <1>2, <1>3, PlainStep DEF q

LEMMA CountKeeps ==
  ASSUME IInv, NEW r \in Request, CountRelated(r)
  PROVE  IInv'
<1> DEFINE p == req[r]
           o == p.target
<1>1. /\ p \in Locals /\ p.pc = "count" /\ Fits(p) /\ Kept(p)
      /\ p.next \in 1 .. 4 /\ o \in Org /\ UNCHANGED <<db, moves>>
  BY DEF CountRelated, IInv, TypeOK, Locals, Count, Fits
<1>2. CASE related_counts(o)[Count[p.next]] # {}
  BY <1>1, <1>2, FinishKeeps DEF CountRelated
<1>3. CASE related_counts(o)[Count[p.next]] = {} /\ p.next < 4
  <2> DEFINE q == [p EXCEPT !.next = @ + 1]
  <2>1. Goto(r, q)
    BY <1>3 DEF CountRelated, Count
  <2>2. /\ q \in Locals /\ q.pc = "count" /\ q.target = o /\ q.action = p.action
        /\ q.next = p.next + 1 /\ q.before = p.before
    BY <1>1, <1>3 DEF Locals, Count
  <2> HIDE DEF q
  <2>3. Fits(q)
    BY <1>1, <2>2 DEF Fits
  <2>4. p.next = 2 => RecordsOf(o) \cap Client = {}
    BY <1>3 DEF related_counts, Count
  <2>5. p.next = 3 => RecordsOf(o) \cap Project = {}
    BY <1>3 DEF related_counts, Count
  <2>6. p.before \subseteq RecordsOf(o)
    BY <1>1 DEF Kept
  <2>7. q.next > 2 => q.before \cap Client = {}
    BY <1>1, <2>2, <2>4, <2>6 DEF Kept
  <2>8. q.next > 3 => q.before \cap Project = {}
    BY <1>1, <2>2, <2>5, <2>6 DEF Kept
  <2>9. Kept(q)
    BY <2>2, <2>6, <2>7, <2>8 DEF Kept
  <2> QED
    BY <1>1, <2>1, <2>2, <2>3, <2>9, PlainStep
<1>4. CASE related_counts(o)[Count[p.next]] = {} /\ ~(p.next < 4)
  <2> DEFINE q == [p EXCEPT !.pc = "audit"]
  <2>1. Goto(r, q)
    BY <1>4 DEF CountRelated, Count
  <2>2. /\ q \in Locals /\ q.pc = "audit" /\ q.target = o /\ q.action = p.action
        /\ q.before = p.before
    BY <1>1 DEF Locals, Active
  <2> HIDE DEF q
  <2>3. Fits(q)
    BY <1>1, <2>2, Kinds DEF Fits, Target
  <2>4. p.next = 4
    BY <1>1, <1>4
  <2>5. RecordsOf(o) \cap Task = {}
    BY <1>4, <2>4 DEF related_counts, Count
  <2>6. /\ p.before \subseteq RecordsOf(o)
        /\ p.before \cap Client = {} /\ p.before \cap Project = {}
    BY <1>1, <2>4 DEF Kept
  <2>7. p.before \subseteq Department
    BY <2>5, <2>6 DEF RecordsOf, Record
  <2>8. Kept(q)
    BY <2>2, <2>6, <2>7 DEF Kept
  <2> QED
    BY <1>1, <2>1, <2>2, <2>3, <2>8, PlainStep
<1> QED
  BY <1>1, <1>2, <1>3, <1>4

LEMMA CollectKeeps ==
  ASSUME IInv, NEW r \in Request, Collect(r)
  PROVE  IInv'
<1> DEFINE p == req[r]
           all == IF p.target \in Org THEN RecordsOf(p.target) ELSE Cascade(p.target)
<1>1. /\ p \in Locals /\ p.pc = "collect" /\ Fits(p) /\ Kept(p) /\ UNCHANGED <<db, moves>>
  BY DEF Collect, IInv, TypeOK
<1>2. CASE p.target \in Org /\ UsersOf(p.target) # {}
  BY <1>1, <1>2, FinishKeeps DEF Collect
<1>3. CASE ~(p.target \in Org /\ UsersOf(p.target) # {})
  <2> DEFINE q == [p EXCEPT !.pc = "purge", !.taken = all]
  <2>1. Goto(r, q)
    BY <1>3 DEF Collect
  <2>2. all \subseteq Record /\ (p.target \in Record => p.target \in all)
    BY <1>1, Kinds DEF Fits, RecordsOf, Cascade, Record, Target
  <2> HIDE DEF all
  <2>3. /\ q \in Locals /\ q.pc = "purge" /\ q.target = p.target /\ q.new = p.new
        /\ q.before = p.before /\ q.taken = all
    BY <1>1, <2>2 DEF Locals, Active
  <2> HIDE DEF q
  <2>4. Fits(q)
    BY <1>1, <2>2, <2>3 DEF Fits
  <2>5. Kept(q)
    BY <1>1, <2>3 DEF Kept
  <2> QED
    BY <1>1, <2>1, <2>3, <2>4, <2>5, PlainStep
<1> QED
  BY <1>2, <1>3

-----------------------------------------------------------------------------
(* Steps that write members or the audit log. *)

LEMMA SideStep ==
  ASSUME IInv, NEW r \in Request, NEW q \in Locals, Goto(r, q),
         status' = status, row' = row, home' = home, moves' = moves,
         member' \subseteq Project \X User, \A m \in member' : Live(m[1]),
         audit' \subseteq [req : Request, action : {"CREATE", "UPDATE", "DELETE"},
                           org : Org, target : Target],
         \A e \in audit' : Live(e.org),
         q.pc # "save", Fits(q), Kept(q)
  PROVE  IInv'
<1>1. req' = [req EXCEPT ![r] = q] /\ req \in [Request -> Locals]
  BY DEF Goto, IInv, TypeOK
<1>2. \A s \in Request : req'[s] = IF s = r THEN q ELSE req[s]
  BY <1>1
<1>3. TypeOK'
  BY <1>1 DEF IInv, TypeOK
<1>4. LinksHold'
  BY DEF IInv, LinksHold, Live
<1>5. \A s \in Request : Fits(req[s])'
  BY <1>2 DEF IInv, Fits
<1>6. \A s \in Request : Agrees(req[s])'
  <2> SUFFICES ASSUME NEW s \in Request, req'[s].pc = "save" PROVE Agrees(req[s])'
    BY DEF Agrees
  <2>1. req'[s] = req[s] /\ Agrees(req[s])
    BY <1>2 DEF IInv
  <2> QED BY <2>1 DEF Agrees, Live
<1>7. \A s \in Request : Kept(req[s])'
  <2> TAKE s \in Request
  <2>1. Kept(req'[s])
    BY <1>2 DEF IInv
  <2> QED BY <2>1 DEF Kept, RecordsOf, Live
<1>8. \A s, t \in Request : Alike(req[s], req[t])'
  BY <1>2 DEF IInv, Alike
<1> QED
  BY <1>3, <1>4, <1>5, <1>6, <1>7, <1>8 DEF IInv

LEMMA AuditKeeps ==
  ASSUME IInv, NEW r \in Request, Audit(r)
  PROVE  IInv'
<1> DEFINE p == req[r]
<1>1. /\ p \in Locals /\ p.pc = "audit" /\ Fits(p) /\ Kept(p)
      /\ UNCHANGED <<status, row, member, home, moves>>
  BY DEF Audit, IInv, TypeOK
<1>2. /\ \A m \in member : Live(m[1]) /\ member \subseteq Project \X User
      /\ \A e \in audit : Live(e.org)
      /\ audit \subseteq [req : Request, action : {"CREATE", "UPDATE", "DELETE"},
                          org : Org, target : Target]
  BY DEF IInv, TypeOK, LinksHold
<1>3. CASE ~Live(OrgOf(p))
  <2>1. Goto(r, Done) /\ audit' = audit
    BY <1>3 DEF Audit
  <2> QED
    BY <1>1, <1>2, <2>1, DoneFits, SideStep
<1>4. CASE Live(OrgOf(p))
  <2> DEFINE e == AuditEntry(r)
             q == IF p.action = "DELETE" THEN [p EXCEPT !.pc = "collect"] ELSE Done
  <2>1. audit' = audit \cup {e} /\ Goto(r, q)
    BY <1>4 DEF Audit
  <2>2. OrgOf(p) \in Org
    BY <1>1 DEF OrgOf, Fits, Target, Row
  <2>3. /\ e \in [req : Request, action : {"CREATE", "UPDATE", "DELETE"},
                  org : Org, target : Target]
        /\ e.org = OrgOf(p)
    BY <1>1, <2>2 DEF AuditEntry, Fits
  <2> DEFINE n == [p EXCEPT !.pc = "collect"]
  <2>4. /\ n \in Locals /\ n.pc = "collect" /\ n.target = p.target /\ n.new = p.new
        /\ n.before = p.before
    BY <1>1 DEF Locals, Active
  <2>5. q = n \/ q = Done
    OBVIOUS
  <2> HIDE DEF e, q, n
  <2>6. Fits(n) /\ Kept(n) /\ n.pc # "save"
    BY <1>1, <2>4 DEF Fits, Kept
  <2>7. q \in Locals /\ Fits(q) /\ Kept(q) /\ q.pc # "save"
    BY <2>4, <2>5, <2>6, DoneFits
  <2>8. \A m \in member' : Live(m[1]) /\ member' \subseteq Project \X User
    BY <1>1, <1>2
  <2>9. /\ \A f \in audit' : Live(f.org)
        /\ audit' \subseteq [req : Request, action : {"CREATE", "UPDATE", "DELETE"},
                             org : Org, target : Target]
    BY <1>2, <1>4, <2>1, <2>3
  <2> QED
    BY <1>1, <1>2, <2>1, <2>7, <2>8, <2>9, SideStep
<1> QED
  BY <1>3, <1>4

LEMMA MembersKeep ==
  ASSUME IInv, NEW r \in Request, Join(r) \/ Leave(r)
  PROVE  IInv'
<1> DEFINE p == req[r]
<1>1. /\ p.pc \in {"join", "leave"} /\ Fits(p) /\ Goto(r, Done)
      /\ UNCHANGED <<status, row, home, audit, moves>>
  BY DEF Join, Leave, IInv
<1>2. /\ \A m \in member : Live(m[1]) /\ member \subseteq Project \X User
      /\ \A e \in audit' : Live(e.org)
      /\ audit' \subseteq [req : Request, action : {"CREATE", "UPDATE", "DELETE"},
                           org : Org, target : Target]
  BY <1>1 DEF IInv, TypeOK, LinksHold
<1>3. member' \subseteq member \/ (Live(p.target) /\ member' = member \cup {<<p.target, p.user>>})
  BY DEF Join, Leave
<1>4. <<p.target, p.user>> \in Project \X User /\ <<p.target, p.user>>[1] = p.target
  BY <1>1 DEF Fits
<1>5. member' \subseteq Project \X User
  BY <1>2, <1>3, <1>4 DEF IInv, TypeOK
<1>6. \A m \in member' : Live(m[1])
  BY <1>2, <1>3, <1>4
<1> QED
  BY <1>1, <1>2, <1>5, <1>6, DoneFits, SideStep

LEMMA MoveKeeps ==
  ASSUME IInv, MoveUser
  PROVE  IInv'
<1>1. PICK u \in User, o \in Org :
        /\ moves < MaxMoves /\ Live(o)
        /\ home' = [home EXCEPT ![u] = o] /\ moves' = moves + 1
        /\ UNCHANGED <<status, row, member, audit, req>>
  BY DEF MoveUser
<1>2. TypeOK'
  BY <1>1, DirectoryAssumption DEF IInv, TypeOK
<1>3. \A v \in User : Live(home[v])'
  BY <1>1 DEF IInv, TypeOK, LinksHold, Live
<1>4. LinksHold'
  BY <1>1, <1>3 DEF IInv, LinksHold, Live
<1>5. \A s \in Request : Fits(req[s])' /\ Agrees(req[s])' /\ Kept(req[s])'
  BY <1>1 DEF IInv, Fits, Agrees, Kept, RecordsOf, Live
<1>6. \A s, t \in Request : Alike(req[s], req[t])'
  BY <1>1 DEF IInv, Alike
<1> QED
  BY <1>2, <1>4, <1>5, <1>6 DEF IInv

-----------------------------------------------------------------------------
(* Steps that write rows. *)

LEMMA AfterSaveFits ==
  ASSUME NEW p \in Locals, Fits(p), p.pc \in {"save", "saveOrg"}
  PROVE  LET q == AfterSave(p)
         IN  /\ q \in Locals /\ Fits(q) /\ q.pc # "save"
             /\ q = Done \/ (q.target = p.target /\ q.before = p.before /\ q.pc = "audit")
<1> DEFINE n == [p EXCEPT !.pc = "audit"]
<1>1. /\ n \in Locals /\ n.pc = "audit" /\ n.target = p.target /\ n.new = p.new
      /\ n.action = p.action /\ n.before = p.before
  BY DEF Locals, Active
<1>2. AfterSave(p) \in {n, Done}
  BY DEF AfterSave
<1> HIDE DEF n
<1>3. Fits(n) /\ n.pc # "save"
  BY <1>1, Kinds DEF Fits, Target
<1> QED
  BY <1>1, <1>2, <1>3, DoneFits

LEMMA SaveKeeps ==
  ASSUME IInv, NEW r \in Request, Save(r)
  PROVE  IInv'
<1>0. PICK p \in Locals : p = req[r]
  BY DEF IInv, TypeOK
<1> DEFINE x == p.target
           w == p.new
           q == AfterSave(p)
<1>1. /\ p \in Locals /\ p.pc = "save" /\ Fits(p) /\ Agrees(p)
      /\ UNCHANGED <<member, home, audit, moves>>
  BY <1>0 DEF Save, IInv, TypeOK
<1>2. CASE ~ForeignKeys(x, w)
  <2>1. Goto(r, Done) /\ UNCHANGED <<status, row>>
    BY <1>0, <1>2 DEF Save
  <2> QED
    BY <1>1, <2>1, FinishKeeps DEF db
<1>3. CASE ForeignKeys(x, w)
  <2>1. /\ status' = [status EXCEPT ![x] = "live"]
        /\ row' = [row EXCEPT ![x] = w]
        /\ Goto(r, q)
    BY <1>0, <1>3 DEF Save
  <2>2. /\ x \in Record /\ x \in Target /\ w \in Row /\ w.org \in Org
        /\ w.link \in LinkKind(x) \cup {NoLink}
    BY <1>1 DEF Fits, Target, Row
  <2>3. /\ q \in Locals /\ Fits(q) /\ q.pc # "save"
        /\ q = Done \/ (q.target = x /\ q.before = p.before /\ q.pc = "audit")
    BY <1>1, AfterSaveFits
  <2>4. /\ status \in [Target -> {"unborn", "live", "gone"}]
        /\ row \in [Record -> Row \cup {NoRow}]
        /\ req \in [Request -> Locals]
    BY DEF IInv, TypeOK
  <2> HIDE DEF q
  <2>5. /\ \A k \in Target : status'[k] = IF k = x THEN "live" ELSE status[k]
        /\ \A y \in Record : row'[y] = IF y = x THEN w ELSE row[y]
        /\ \A s \in Request : req'[s] = IF s = r THEN q ELSE req[s]
    BY <2>1, <2>2, <2>4 DEF Goto
  <2> HIDE DEF x, w
  <2>6. TypeOK'
    BY <1>1, <2>1, <2>2, <2>3, <2>4 DEF IInv, TypeOK, Goto
  <2>7. LinksHold'
    <3>1. ASSUME NEW y \in Record, Live(y)', y # x
          PROVE  /\ row[y]' \in Row /\ Live(row[y].org)'
                 /\ row'[y].link # NoLink => /\ row'[y].link \in LinkKind(y)
                                             /\ Live(row[y].link)'
                                             /\ row'[row'[y].link].org = row'[y].org
      <4>1. Live(y) /\ row'[y] = row[y]
        BY <2>5, <3>1 DEF Live, Target
      <4>2. /\ row[y] \in Row /\ row[y].org \in Org /\ Live(row[y].org)
            /\ row[y].link \in LinkKind(y) \cup {NoLink}
            /\ row[y].link \in Record => Live(row[y].link) /\ row[row[y].link].org = row[y].org
        BY <4>1, LinkedRow
      <4>3. row[y].link # NoLink => row[y].link \in Record
        BY <4>2, Kinds
      <4>4. Live(x) => row[x].org = w.org
        BY <1>1 DEF Agrees, x, w
      <4> QED
        BY <2>5, <4>1, <4>2, <4>3, <4>4 DEF Live, Target
    <3>2. /\ row[x]' \in Row /\ Live(row[x].org)'
          /\ row'[x].link # NoLink => /\ row'[x].link \in LinkKind(x)
                                      /\ Live(row[x].link)'
                                      /\ row'[row'[x].link].org = row'[x].org
      <4>1. row'[x] = w
        BY <2>2, <2>5
      <4>2. Live(w.org) /\ (w.link \in Record \ {x} => Live(w.link) /\ row[w.link].org = w.org)
        BY <1>1, <1>3 DEF ForeignKeys, Agrees, x, w
      <4>3. w.link # NoLink => w.link \in Record
        BY <2>2, Kinds
      <4> QED
        BY <2>2, <2>5, <4>1, <4>2, <4>3 DEF Live, Target
    <3>3. /\ \A m \in member' : Live(m[1])'
          /\ \A u \in User : Live(home[u])'
          /\ \A e \in audit' : Live(e.org)'
      BY <1>1, <2>5, DirectoryAssumption DEF IInv, TypeOK, LinksHold, Live, Target, Record
    <3> QED
      BY <3>1, <3>2, <3>3 DEF LinksHold
  <2>8. \A s \in Request : Fits(req[s])'
    <3> TAKE s \in Request
    <3>1. Fits(req'[s])
      BY <2>3, <2>5 DEF IInv
    <3> QED BY <3>1 DEF Fits
  <2>9. \A s \in Request : Agrees(req[s])'
    <3> SUFFICES ASSUME NEW s \in Request, req'[s].pc = "save" PROVE Agrees(req[s])'
      BY DEF Agrees
    <3>1. req'[s] = req[s]
      BY <2>3, <2>5
    <3>2. Agrees(req[s]) /\ Fits(req[s]) /\ Alike(p, req[s]) /\ Alike(req[s], p)
      BY <1>0 DEF IInv
    <3>3. req[s].target = x => req[s].new.org = w.org
      BY <1>1, <3>1, <3>2 DEF Alike, x, w
    <3>4. req[s].new.link = x => req[s].new.org = w.org
      BY <1>1, <3>1, <3>2 DEF Alike, x, w
    <3>5. req[s].target \in Record
      BY <3>1, <3>2 DEF Fits
    <3> QED
      BY <2>5, <3>1, <3>2, <3>3, <3>4, <3>5 DEF Agrees, Live, Target
  <2>10. \A s \in Request : Kept(req[s])'
    <3>1. \A o \in Org : RecordsOf(o) \subseteq RecordsOf(o)'
      <4> SUFFICES ASSUME NEW o \in Org, NEW y \in RecordsOf(o) PROVE y \in RecordsOf(o)'
        OBVIOUS
      <4>1. y \in Record /\ Live(y) /\ row[y].org = o
        BY DEF RecordsOf
      <4>2. y = x => w.org = o
        BY <1>1, <4>1 DEF Agrees, x, w
      <4> QED
        BY <2>5, <4>1, <4>2 DEF RecordsOf, Live, Target
    <3>2. \A s \in Request : Kept(req[s])
      BY DEF IInv
    <3>3. Kept(q)'
      BY <2>2, <2>3, DoneFits, Kinds DEF Kept
    <3> TAKE s \in Request
    <3>4. CASE s = r
      BY <2>5, <3>3, <3>4 DEF Kept
    <3>5. CASE s # r
      BY <2>5, <3>1, <3>2, <3>5 DEF Kept
    <3> QED BY <3>4, <3>5
  <2>11. \A s, t \in Request : Alike(req[s], req[t])'
    BY <2>3, <2>5 DEF IInv, Alike
  <2> QED
    BY <2>6, <2>7, <2>8, <2>9, <2>10, <2>11 DEF IInv
<1> QED
  BY <1>2, <1>3

LEMMA SaveOrgKeeps ==
  ASSUME IInv, NEW r \in Request, SaveOrg(r)
  PROVE  IInv'
<1>0. PICK p \in Locals : p = req[r]
  BY DEF IInv, TypeOK
<1> DEFINE o == p.target
           q == AfterSave(p)
<1>1. /\ p.pc = "saveOrg" /\ Fits(p) /\ Kept(p) /\ o \in Org
      /\ status' = [status EXCEPT ![o] = "live"] /\ Goto(r, q)
      /\ UNCHANGED <<row, member, home, audit, moves>>
  BY <1>0 DEF SaveOrg, IInv, Fits
<1>2. /\ q \in Locals /\ Fits(q) /\ q.pc # "save"
      /\ q = Done \/ (q.target = o /\ q.before = p.before /\ q.pc = "audit")
  BY <1>1, AfterSaveFits
<1>3. /\ status \in [Target -> {"unborn", "live", "gone"}]
      /\ req \in [Request -> Locals] /\ o \in Target
  BY <1>1 DEF IInv, TypeOK, Target
<1> HIDE DEF o, q
<1>4. /\ \A k \in Target : status'[k] = IF k = o THEN "live" ELSE status[k]
      /\ \A s \in Request : req'[s] = IF s = r THEN q ELSE req[s]
  BY <1>1, <1>3 DEF Goto
<1>5. \A x \in Record : x \in Target /\ status'[x] = status[x]
  BY <1>1, <1>4, Kinds DEF Target
<1>6. TypeOK'
  BY <1>1, <1>2, <1>3 DEF IInv, TypeOK, Goto
<1>7. LinksHold'
  <2>1. \A x \in Record : Live(x) =>
          /\ row[x] \in Row /\ row[x].org \in Target /\ Live(row[x].org)
          /\ row[x].link # NoLink => /\ row[x].link \in LinkKind(x) /\ row[x].link \in Record
                                     /\ Live(row[x].link)
                                     /\ row[row[x].link].org = row[x].org
    BY LinkedRow, Kinds DEF Target
  <2>2. \A k \in Target : Live(k) => Live(k)'
    BY <1>4 DEF Live
  <2>3. \A x \in Record : Live(x)' = Live(x)
    BY <1>5 DEF Live
  <2>4. /\ \A m \in member : m[1] \in Target /\ Live(m[1])
        /\ \A u \in User : home[u] \in Target /\ Live(home[u])
        /\ \A e \in audit : e.org \in Target /\ Live(e.org)
    BY DEF IInv, TypeOK, LinksHold, Target, Record
  <2> QED
    BY <1>1, <2>1, <2>2, <2>3, <2>4 DEF LinksHold
<1>8. \A s \in Request : Fits(req[s])'
  <2> TAKE s \in Request
  <2>1. Fits(req'[s])
    BY <1>2, <1>4 DEF IInv
  <2> QED BY <2>1 DEF Fits
<1>9. \A s \in Request : Agrees(req[s])'
  <2> SUFFICES ASSUME NEW s \in Request, req'[s].pc = "save" PROVE Agrees(req[s])'
    BY DEF Agrees
  <2>1. req'[s] = req[s] /\ Agrees(req[s]) /\ Fits(req[s])
    BY <1>2, <1>4 DEF IInv
  <2>2. req[s].target \in Record
    BY <2>1 DEF Fits
  <2> QED
    BY <1>1, <1>5, <2>1, <2>2 DEF Agrees, Live
<1>10. \A s \in Request : Kept(req[s])'
  <2>1. \A k : RecordsOf(k)' = RecordsOf(k)
    BY <1>1, <1>5 DEF RecordsOf, Live
  <2>2. q.target \in Org => q.target = o /\ q.before = p.before /\ q.pc = "audit"
    BY <1>2, DoneFits
  <2>3. p.target \in Org => p.before \subseteq RecordsOf(p.target) /\ p.before \subseteq Department
    BY <1>1 DEF Kept
  <2>4. Kept(q)
    BY <2>2, <2>3 DEF Kept, o
  <2> TAKE s \in Request
  <2>5. Kept(req'[s])
    BY <1>4, <2>4 DEF IInv
  <2> QED BY <2>1, <2>5 DEF Kept
<1>11. \A s, t \in Request : Alike(req[s], req[t])'
  BY <1>2, <1>4 DEF IInv, Alike
<1> QED
  BY <1>6, <1>7, <1>8, <1>9, <1>10, <1>11 DEF IInv

LEMMA PurgeKeeps ==
  ASSUME IInv, NEW r \in Request, Purge(r)
  PROVE  IInv'
<1>0. PICK p \in Locals : p = req[r]
  BY DEF IInv, TypeOK
<1> DEFINE gone == p.taken \cup {p.target}
<1>1. /\ p.pc = "purge" /\ Fits(p) /\ UNCHANGED <<home, moves>>
  BY <1>0 DEF Purge, IInv
<1>2. CASE Blocking(p) # {}
  <2>1. Goto(r, Done) /\ UNCHANGED <<status, row, member, audit>>
    BY <1>0, <1>2 DEF Purge
  <2> QED BY <1>1, <2>1, FinishKeeps DEF db
<1>3. CASE Blocking(p) = {}
  <2>1. /\ status' = [k \in Record \cup Org |->
                        IF k \in gone /\ Live(k) THEN "gone" ELSE status[k]]
        /\ row' = [x \in Record |-> IF x \in gone THEN NoRow ELSE SetNull(x, p.taken)]
        /\ member' = {m \in member : m[1] \notin p.taken}
        /\ audit' = {e \in audit : e.org # p.target}
        /\ req' = [i \in Request |->
                     IF i = r THEN Done ELSE [req[i] EXCEPT !.before = @ \ gone]]
    BY <1>0, <1>3 DEF Purge
  <2>2. /\ status \in [Target -> {"unborn", "live", "gone"}]
        /\ row \in [Record -> Row \cup {NoRow}]
        /\ home \in [User -> Org] /\ req \in [Request -> Locals]
        /\ p.taken \subseteq Record /\ p.target \in Target
        /\ p.target \in Record => p.target \in p.taken
    BY <1>1 DEF IInv, TypeOK, Locals, Fits
  <2>3. p.target \in Org => /\ RecordsOf(p.target) \subseteq p.taken
                            /\ UsersOf(p.target) = {}
    BY <1>3 DEF Blocking
  <2>4. \A k \in Target : /\ Live(k)' <=> Live(k) /\ k \notin gone
                          /\ status[k] # "unborn" => status'[k] # "unborn"
    BY <2>1, <2>2 DEF Live, Target
  <2> HIDE DEF gone
  <2>5. \A x \in Record : x \notin gone /\ Live(x) =>
          /\ row'[x] \in Row /\ row'[x].org = row[x].org
          /\ row'[x].link = IF row[x].link \in p.taken THEN NoLink ELSE row[x].link
    <3> SUFFICES ASSUME NEW x \in Record, x \notin gone, Live(x)
                 PROVE  /\ row'[x] \in Row /\ row'[x].org = row[x].org
                        /\ row'[x].link = IF row[x].link \in p.taken THEN NoLink ELSE row[x].link
      OBVIOUS
    <3>1. row'[x] = SetNull(x, p.taken) /\ row[x] \in Row
      BY <2>1, LinkedRow
    <3> QED BY <3>1 DEF SetNull, LinkOf, Row
  <2>6. \A s \in Request : s # r =>
          /\ req'[s] \in Locals /\ req'[s].pc = req[s].pc /\ req'[s].target = req[s].target
          /\ req'[s].new = req[s].new /\ req'[s].user = req[s].user
          /\ req'[s].action = req[s].action /\ req'[s].next = req[s].next
          /\ req'[s].taken = req[s].taken /\ req'[s].before = req[s].before \ gone
    <3> SUFFICES ASSUME NEW s \in Request, s # r,
                        NEW a \in Locals, a = req[s], NEW b, b = [a EXCEPT !.before = @ \ gone]
                 PROVE  /\ b \in Locals /\ b.pc = a.pc /\ b.target = a.target /\ b.new = a.new
                        /\ b.user = a.user /\ b.action = a.action /\ b.next = a.next
                        /\ b.taken = a.taken /\ b.before = a.before \ gone
      BY <2>1, <2>2
    <3> QED BY DEF Locals
  <2>7. req'[r] = Done
    BY <2>1
  <2>8. TypeOK'
    <3>1. status' \in [Target -> {"unborn", "live", "gone"}]
      BY <2>1, <2>2 DEF Target
    <3>2. \A x \in Record : row'[x] \in Row \cup {NoRow}
      <4> SUFFICES ASSUME NEW x \in Record PROVE row'[x] \in Row \cup {NoRow}
        OBVIOUS
      <4>1. CASE x \in gone
        BY <2>1, <4>1
      <4>2. CASE x \notin gone /\ Live(x)
        BY <2>5, <4>2
      <4>3. CASE x \notin gone /\ ~Live(x)
        <5>1. row'[x] = SetNull(x, p.taken) /\ LinkOf(x) = NoLink
          BY <2>1, <4>3 DEF LinkOf
        <5>2. NoLink \notin p.taken
          BY <2>2, Kinds
        <5> QED BY <2>2, <5>1, <5>2 DEF SetNull
      <4> QED BY <4>1, <4>2, <4>3
    <3>3. row' \in [Record -> Row \cup {NoRow}]
      BY <2>1, <3>2
    <3>4. req' \in [Request -> Locals]
      <4>1. \A s \in Request : req'[s] \in Locals
        BY <2>6, <2>7, DoneFits
      <4> QED BY <2>1, <4>1
    <3> QED
      BY <1>1, <2>1, <3>1, <3>3, <3>4 DEF IInv, TypeOK
  <2>9. LinksHold'
    <3>1. ASSUME NEW x \in Record, Live(x)'
          PROVE  /\ row'[x] \in Row /\ status'[row'[x].org] = "live"
                 /\ row'[x].link # NoLink => /\ row'[x].link \in LinkKind(x)
                                             /\ status'[row'[x].link] = "live"
                                             /\ row'[row'[x].link].org = row'[x].org
      <4>1. Live(x) /\ x \notin gone
        BY <2>4, <3>1 DEF Target
      <4>2. /\ row[x] \in Row /\ row[x].org \in Org /\ Live(row[x].org)
            /\ row[x].link \in LinkKind(x) \cup {NoLink}
            /\ row[x].link \in Record => Live(row[x].link) /\ row[row[x].link].org = row[x].org
        BY <4>1, LinkedRow
      <4>3. row[x].org \notin gone
        <5>1. row[x].org # p.target
          BY <2>3, <4>1, <4>2 DEF RecordsOf, gone
        <5> QED BY <2>2, <4>2, <5>1, Kinds DEF gone
      <4>4. status'[row'[x].org] = "live" /\ row'[x] \in Row
        BY <2>4, <2>5, <4>1, <4>2, <4>3 DEF Target, Live
      <4>5. ASSUME row'[x].link # NoLink
            PROVE  /\ row'[x].link \in LinkKind(x) /\ status'[row'[x].link] = "live"
                   /\ row'[row'[x].link].org = row'[x].org
        <5>1. row'[x].link = row[x].link /\ row[x].link \notin p.taken
          BY <2>5, <4>1, <4>5
        <5>2. row[x].link \in Record /\ row[x].link \in LinkKind(x)
          BY <4>2, <4>5, <5>1, Kinds
        <5>3. row[x].link \notin gone
          BY <2>2, <5>1, <5>2, Kinds DEF gone, Target
        <5> QED
          BY <2>4, <2>5, <4>1, <4>2, <5>1, <5>2, <5>3 DEF Target, Live
      <4> QED BY <4>4, <4>5
    <3>2. \A m \in member' : Live(m[1])'
      <4> SUFFICES ASSUME NEW m \in member' PROVE Live(m[1])'
        OBVIOUS
      <4>1. m \in member /\ m[1] \notin p.taken /\ m[1] \in Record /\ Live(m[1])
        BY <2>1 DEF IInv, TypeOK, LinksHold, Record
      <4>2. m[1] \notin gone
        BY <2>2, <4>1, Kinds DEF gone, Target
      <4> QED BY <2>4, <4>1, <4>2 DEF Target
    <3>3. \A u \in User : Live(home[u])'
      <4> SUFFICES ASSUME NEW u \in User PROVE Live(home[u])'
        BY <1>1
      <4>1. home[u] \in Org /\ Live(home[u])
        BY <2>2 DEF IInv, LinksHold
      <4>2. home[u] # p.target
        BY <2>3, <4>1 DEF UsersOf
      <4>3. home[u] \notin gone
        BY <2>2, <4>1, <4>2, Kinds DEF gone
      <4> QED BY <1>1, <2>4, <4>1, <4>3 DEF Target, Live
    <3>4. \A e \in audit' : Live(e.org)'
      <4> SUFFICES ASSUME NEW e \in audit' PROVE Live(e.org)'
        OBVIOUS
      <4>1. e \in audit /\ e.org # p.target /\ e.org \in Org /\ Live(e.org)
        BY <2>1 DEF IInv, TypeOK, LinksHold
      <4>2. e.org \notin gone
        BY <2>2, <4>1, Kinds DEF gone
      <4> QED BY <2>4, <4>1, <4>2 DEF Target
    <3> QED
      BY <3>1, <3>2, <3>3, <3>4 DEF LinksHold, Live
  <2>10. \A s \in Request : Fits(req[s])'
    <3> TAKE s \in Request
    <3>1. CASE s = r
      BY <2>7, <3>1, DoneFits DEF Fits
    <3>2. CASE s # r
      <4>1. Fits(req[s])
        BY DEF IInv
      <4> QED BY <2>6, <3>2, <4>1 DEF Fits
    <3> QED BY <3>1, <3>2
  <2>11. \A s \in Request : Agrees(req[s])'
    <3> SUFFICES ASSUME NEW s \in Request, req'[s].pc = "save" PROVE Agrees(req[s])'
      BY DEF Agrees
    <3>1. s # r
      BY <2>7, DoneFits
    <3>2. /\ req'[s].target = req[s].target /\ req'[s].new = req[s].new /\ req[s].pc = "save"
          /\ Agrees(req[s]) /\ Fits(req[s])
      BY <2>6, <3>1 DEF IInv
    <3>3. req[s].target \in Record
      BY <3>2 DEF Fits
    <3> PICK x \in Record, l \in Row : x = req[s].target /\ l = req[s].new
      BY <3>2, <3>3 DEF Fits
    <3>4. Live(x)' => Live(x) /\ row'[x].org = row[x].org
      BY <2>4, <2>5 DEF Target
    <3>5. l.link \in Record => /\ status'[l.link] # "unborn"
                               /\ Live(l.link)' => Live(l.link) /\ row'[l.link].org = row[l.link].org
      BY <2>4, <2>5, <3>2 DEF Target, Agrees
    <3> QED
      BY <3>2, <3>3, <3>4, <3>5 DEF Agrees, Live
  <2>12. \A s \in Request : Kept(req[s])'
    <3> TAKE s \in Request
    <3>1. CASE s = r
      BY <2>7, <3>1, DoneFits DEF Kept
    <3>2. CASE s # r
      <4>1. Kept(req[s])
        BY DEF IInv
      <4>2. \A o \in Org : RecordsOf(o) \ gone \subseteq RecordsOf(o)'
        BY <2>4, <2>5 DEF RecordsOf, Target
      <4> QED BY <2>6, <3>2, <4>1, <4>2 DEF Kept
    <3> QED BY <3>1, <3>2
  <2>13. \A s, t \in Request : Alike(req[s], req[t])'
    <3> SUFFICES ASSUME NEW s \in Request, NEW t \in Request,
                        req'[s].pc = "save", req'[t].pc = "save"
                 PROVE  Alike(req[s], req[t])'
      BY DEF Alike
    <3>1. s # r /\ t # r
      BY <2>7, DoneFits
    <3>2. Alike(req[s], req[t])
      BY DEF IInv
    <3> QED BY <2>6, <3>1, <3>2 DEF Alike
  <2> QED
    BY <2>8, <2>9, <2>10, <2>11, <2>12, <2>13 DEF IInv
<1> QED
  BY <1>2, <1>3

-----------------------------------------------------------------------------
(* The specification. *)

LEMMA InitFits ==
  ASSUME Init
  PROVE  IInv
<1>1. PICK w \in InitialRow :
        /\ row = [x \in Record |-> IF x \in DOMAIN w THEN w[x] ELSE NoRow]
        /\ status = [k \in Record \cup Org |->
                       IF k \in DOMAIN w \cup InitialOrg THEN "live" ELSE "unborn"]
  BY DEF Init
<1>2. /\ home = InitialHome /\ member = {} /\ audit = {} /\ moves = 0
      /\ req = [r \in Request |-> Idle]
  BY DEF Init
<1>3. /\ InitialOrg \subseteq Org /\ InitialHome \in [User -> InitialOrg]
      /\ DOMAIN w \subseteq Record
      /\ \A x \in DOMAIN w :
           /\ w[x] \in Row
           /\ w[x].org \in InitialOrg
           /\ w[x].link # NoLink => /\ w[x].link \in LinkKind(x) \cap DOMAIN w
                                   /\ w[w[x].link].org = w[x].org
  BY InitialAssumption
<1>4. TypeOK
  <2>1. row \in [Record -> Row \cup {NoRow}] /\ status \in [Target -> {"unborn", "live", "gone"}]
    BY <1>1, <1>3 DEF Target
  <2>2. home \in [User -> Org] /\ req \in [Request -> Locals] /\ moves \in 0 .. MaxMoves
    BY <1>2, <1>3, DoneFits, DirectoryAssumption
  <2> QED BY <1>2, <2>1, <2>2 DEF TypeOK
<1>5. LinksHold
  <2>1. ASSUME NEW x \in Record, Live(x)
        PROVE  /\ row[x] \in Row
               /\ Live(row[x].org)
               /\ row[x].link # NoLink =>
                    /\ row[x].link \in LinkKind(x)
                    /\ Live(row[x].link)
                    /\ row[row[x].link].org = row[x].org
    <3>1. x \in DOMAIN w /\ row[x] = w[x]
      BY <1>1, <1>3, <2>1, Kinds DEF Live
    <3>2. Live(w[x].org)
      BY <1>1, <1>3, <3>1 DEF Live
    <3>3. ASSUME w[x].link # NoLink
          PROVE  Live(w[x].link) /\ row[w[x].link].org = w[x].org /\ w[x].link \in LinkKind(x)
      BY <1>1, <1>3, <3>1, <3>3 DEF Live
    <3> QED BY <1>3, <3>1, <3>2, <3>3
  <2>2. \A u \in User : Live(home[u])
    BY <1>1, <1>2, <1>3 DEF Live
  <2> QED BY <1>2, <2>1, <2>2 DEF LinksHold
<1>6. \A r \in Request : req[r] = Idle
  BY <1>2
<1> QED
  BY <1>4, <1>5, <1>6, DoneFits DEF IInv

LEMMA HandlerKeeps ==
  ASSUME IInv, NEW r \in Request, Handler(r)
  PROVE  IInv'
<1>1. CASE Create(r)     BY <1>1, CreateKeeps
<1>2. CASE Update(r)     BY <1>2, UpdateKeeps
<1>3. CASE Save(r)       BY <1>3, SaveKeeps
<1>4. CASE Destroy(r)    BY <1>4, DestroyKeeps
<1>5. CASE Audit(r)      BY <1>5, AuditKeeps
<1>6. CASE AddMember(r) \/ RemoveMember(r)  BY <1>6, MemberStepsKeep
<1>7. CASE Join(r) \/ Leave(r)              BY <1>7, MembersKeep
<1>8. CASE CreateOrg(r) \/ UpdateOrg(r)     BY <1>8, OrgSaveStarts
<1>9. CASE SaveOrg(r)     BY <1>9, SaveOrgKeeps
<1>10. CASE DestroyOrg(r)   BY <1>10, DestroyOrgKeeps
<1>11. CASE CountRelated(r) BY <1>11, CountKeeps
<1>12. CASE Collect(r)      BY <1>12, CollectKeeps
<1>13. CASE Purge(r)        BY <1>13, PurgeKeeps
<1>14. CASE Abort(r)        BY <1>14, FinishKeeps DEF Abort
<1> QED
  BY <1>1, <1>2, <1>3, <1>4, <1>5, <1>6, <1>7, <1>8, <1>9, <1>10, <1>11, <1>12, <1>13, <1>14
  DEF Handler

LEMMA NextKeeps ==
  ASSUME IInv, [Next]_vars
  PROVE  IInv'
<1>1. CASE MoveUser
  BY <1>1, MoveKeeps
<1>2. CASE \E r \in Request : Handler(r)
  BY <1>2, HandlerKeeps
<1>3. CASE UNCHANGED vars
  BY <1>3 DEF vars, db, IInv, TypeOK, LinksHold, Live, Fits, Agrees, Kept, RecordsOf, Alike
<1> QED
  BY <1>1, <1>2, <1>3 DEF Next

\* What the copies of the handlers agree on holds in every state.
THEOREM CopiesAgree == Spec => []IInv
BY InitFits, NextKeeps, PTL DEF Spec

\* Every table, and whatever a handler holds, stays within its type.
THEOREM TypeCorrect == Spec => []TypeOK
<1>1. IInv => TypeOK
  BY DEF IInv
<1> QED
  BY <1>1, CopiesAgree, PTL

\* The serializers' checks, made on rows read before the insert, keep every link
\* inside its organization and on a row that is there, whatever the other
\* handlers, a dying worker and the admin site do in between.
THEOREM LinksAlwaysHold == Spec => []LinksHold
<1>1. IInv => LinksHold
  BY DEF IInv
<1> QED
  BY <1>1, CopiesAgree, PTL

\* Whatever comes between the four counts, the audit entry and the collector,
\* the deletion of an organization takes no client, project or task that it
\* held all the while.
THEOREM CascadeTakesOnlyNewAlways == Spec => CascadeTakesOnlyNew
<1>1. IInv => \A r \in Request : req[r].pc = "purge" /\ req[r].target \in Org =>
                                   req[r].before \ Department = {}
  BY DEF IInv, Kept
<1>2. IInv /\ [Next]_vars =>
        [\A r \in Request :
           req[r].pc = "purge" /\ req[r].target \in Org =>
             \A x \in req[r].before \ Department : Live(x) => Live(x)']_vars
  BY <1>1
<1> QED
  BY <1>2, CopiesAgree, PTL DEF Spec, CascadeTakesOnlyNew

-----------------------------------------------------------------------------
(* Deletions are recorded, as long as two requests run at a time. *)

\* The records a handler has taken in hand to remove.
Hands(q) ==
  {x \in Record : /\ q.action = "DELETE" /\ q.pc \in {"audit", "collect", "purge"}
                  /\ x = q.target \/ (q.pc = "purge" /\ x \in q.taken)}

EntryOf(r, q) ==
  [req |-> r, action |-> q.action, org |-> OrgOf(q), target |-> q.target]

\* An organization that is gone and will not be brought back.
Over(o) ==
  /\ status[o] = "gone"
  /\ \A s \in Request : ~(req[s].pc = "saveOrg" /\ req[s].target = o)

\* Past its entry, a deletion is recorded, or its organization took the entry along.
Recorded(r) ==
  req[r].pc \in {"collect", "purge"} =>
    /\ req[r].action = "DELETE"
    /\ req[r].target \in Audited => EntryOf(r, req[r]) \in audit \/ Over(OrgOf(req[r]))
    /\ req[r].pc = "purge" /\ req[r].target \in Department => req[r].taken \subseteq {req[r].target}

\* What is in hand is of the organization the entry names, also when another
\* handler has removed it, and also when one is about to bring it back.
HandFits(r) ==
  \A x \in Hands(req[r]) : /\ status[x] # "unborn"
                           /\ status[x] = "live" => row[x].org = OrgOf(req[r])

SaveFits(r, s) ==
  req[s].pc = "save" /\ req[s].target \in Hands(req[r]) => req[s].new.org = OrgOf(req[r])

AtMostTwo ==
  \A r, s, t \in Request :
    req[r].pc \in Active /\ req[s].pc \in Active /\ req[t].pc \in Active
      => r = s \/ s = t \/ r = t

RecInv ==
  /\ AtMostTwo
  /\ \A r \in Request : Recorded(r)
  /\ \A r \in Request : HandFits(r)
  /\ \A r, s \in Request : SaveFits(r, s)
  /\ \A r \in Request : req[r].pc \in {"save", "saveOrg"} => req[r].action # "DELETE"

LEMMA AtMostOneBefore ==
  ASSUME Workers <= 2, NEW r \in Request, CanStart(r),
         NEW s \in Request, req[s].pc \in Active, NEW t \in Request, req[t].pc \in Active
  PROVE  s = t
<1>1. IsFiniteSet(InFlight)
  BY DirectoryAssumption, FS_Subset DEF InFlight
<1>2. Cardinality(InFlight) \in Nat /\ Cardinality(InFlight) < 2
  BY <1>1, FS_CardinalityType, DirectoryAssumption DEF CanStart
<1>3. {s, t} \subseteq InFlight
  BY DEF InFlight
<1>4. Cardinality({s, t}) <= Cardinality(InFlight) /\ IsFiniteSet({s, t})
  BY <1>1, <1>3, FS_Subset
<1>5. ASSUME s # t PROVE Cardinality({s, t}) = 2
  <2>1. IsFiniteSet({s}) /\ Cardinality({s}) = 1
    BY FS_Singleton
  <2>2. {s} \cup {t} = {s, t} /\ t \notin {s}
    BY <1>5
  <2>3. Cardinality({s} \cup {t}) = Cardinality({s}) + 1
    BY <2>1, <2>2, FS_AddElement
  <2> QED BY <2>1, <2>2, <2>3
<1> QED
  BY <1>2, <1>4, <1>5

\* What a step of r does to the tables and to the other handlers.
Others(r) ==
  /\ \A s \in Request : s # r =>
       /\ req'[s].pc = req[s].pc /\ req'[s].action = req[s].action
       /\ req'[s].target = req[s].target /\ req'[s].new = req[s].new
       /\ req'[s].taken = req[s].taken
  /\ \A k \in Target : status[k] # "unborn" => status'[k] # "unborn"
  /\ \A x \in Record : status'[x] = "live" =>
       \/ status[x] = "live" /\ row'[x].org = row[x].org
       \/ req[r].pc = "save" /\ req[r].target = x /\ row'[x].org = req[r].new.org
  /\ \A o \in Org : status'[o] = "live" =>
       status[o] = "live" \/ (req[r].pc = "saveOrg" /\ req[r].target = o)
  /\ \A e \in audit : e \in audit' \/ (/\ req[r].pc = "purge" /\ e.org = req[r].target
                                       /\ status'[e.org] = "gone")

\* And what becomes of r itself, q afterwards.
Leads(r, q) ==
  /\ q.pc \in Active => req[r].pc \in Active \/ CanStart(r)
  /\ q.pc \in {"save", "saveOrg"} => req[r].pc = "idle" /\ q.action # "DELETE"
  /\ q.pc = "save" => \/ status[q.target] = "unborn"
                      \/ status[q.target] = "live" /\ q.new.org = row[q.target].org
  /\ q.pc = "saveOrg" => status[q.target] # "gone"
  /\ \A x \in Hands(q) : \/ x \in Hands(req[r]) /\ OrgOf(q) = OrgOf(req[r])
                         \/ /\ status[x] = "live" /\ row[x].org = OrgOf(q)
                            /\ status' = status /\ row' = row
  /\ q.pc \in {"collect", "purge"} =>
       /\ q.action = "DELETE"
       /\ q.target \in Audited =>
            \/ EntryOf(r, q) \in audit'
            \/ req[r].pc = "collect" /\ req[r].target = q.target /\ EntryOf(r, q) = EntryOf(r, req[r])
       /\ q.pc = "purge" /\ q.target \in Department => q.taken \subseteq {q.target}

LEMMA OverStays ==
  ASSUME IInv', NEW r \in Request, Others(r), Leads(r, req'[r]), NEW o \in Org, Over(o)
  PROVE  Over(o)'
<1>1. status'[o] = "gone"
  <2>1. status'[o] \in {"unborn", "live", "gone"}
    BY DEF IInv, TypeOK, Target
  <2>2. status'[o] # "live" /\ status'[o] # "unborn"
    BY DEF Others, Over, Target
  <2> QED BY <2>1, <2>2
<1>2. \A s \in Request : ~(req'[s].pc = "saveOrg" /\ req'[s].target = o)
  BY DEF Others, Over, Leads
<1> QED
  BY <1>1, <1>2 DEF Over

LEMMA RecKept ==
  ASSUME IInv, IInv', RecInv, Workers <= 2,
         NEW r \in Request, Others(r), Leads(r, req'[r])
  PROVE  RecInv'
<1> DEFINE p == req[r]
           q == req'[r]
<1>1. \A s \in Request : s # r =>
        /\ req'[s].pc = req[s].pc /\ req'[s].action = req[s].action
        /\ req'[s].target = req[s].target /\ req'[s].new = req[s].new
        /\ req'[s].taken = req[s].taken
        /\ Hands(req'[s]) = Hands(req[s]) /\ OrgOf(req'[s]) = OrgOf(req[s])
  BY DEF Others, Hands, OrgOf
<1>2. AtMostTwo'
  <2> SUFFICES ASSUME NEW a \in Request, NEW b \in Request, NEW c \in Request,
                      req'[a].pc \in Active, req'[b].pc \in Active, req'[c].pc \in Active,
                      a # b, b # c, a # c
               PROVE  FALSE
    BY DEF AtMostTwo
  <2>1. \A s \in {a, b, c} : s # r => req[s].pc \in Active
    BY <1>1
  <2>2. CASE req[r].pc \in Active
    BY <2>1, <2>2 DEF RecInv, AtMostTwo
  <2>3. CASE req[r].pc \notin Active
    <3>1. r \in {a, b, c}
      BY <2>1 DEF RecInv, AtMostTwo
    <3>2. CanStart(r)
      BY <2>3, <3>1 DEF Leads
    <3> QED BY <2>1, <3>1, <3>2, AtMostOneBefore
  <2> QED BY <2>2, <2>3
<1>3. \A s \in Request : Recorded(s)'
  <2> SUFFICES ASSUME NEW s \in Request, req'[s].pc \in {"collect", "purge"}
               PROVE  Recorded(s)'
    BY DEF Recorded
  <2>1. OrgOf(req'[s]) \in Org
    BY DEF IInv, Fits, OrgOf, Target, Row
  <2>2. CASE s = r
    <3>1. /\ q.action = "DELETE"
          /\ q.pc = "purge" /\ q.target \in Department => q.taken \subseteq {q.target}
      BY <2>2 DEF Leads
    <3>2. ASSUME q.target \in Audited
          PROVE  EntryOf(r, q) \in audit' \/ Over(OrgOf(req[r]))'
      <4>1. CASE EntryOf(r, q) \in audit'
        BY <4>1
      <4>2. CASE p.pc = "collect" /\ p.target = q.target /\ EntryOf(r, q) = EntryOf(r, p)
        <5>1. OrgOf(q) = OrgOf(p)
          BY <4>2 DEF EntryOf
        <5>2. EntryOf(r, p) \in audit \/ Over(OrgOf(p))
          BY <3>2, <4>2 DEF RecInv, Recorded
        <5>3. Over(OrgOf(p)) => Over(OrgOf(req[r]))'
          <6>1. PICK o \in Org : o = OrgOf(req'[r])
            BY <2>1, <2>2
          <6>2. Over(o) => Over(o)'
            BY OverStays
          <6> QED BY <5>1, <6>1, <6>2 DEF Over, OrgOf
        <5>4. EntryOf(r, p) \in audit => EntryOf(r, p) \in audit'
          BY <4>2 DEF Others
        <5> QED BY <4>2, <5>2, <5>3, <5>4
      <4> QED BY <2>2, <3>2, <4>1, <4>2 DEF Leads
    <3> QED BY <2>2, <3>1, <3>2 DEF Recorded, EntryOf, OrgOf, Over
  <2>3. CASE s # r
    <3>1. /\ req[s].pc = req'[s].pc /\ Recorded(s)
          /\ OrgOf(req'[s]) = OrgOf(req[s]) /\ EntryOf(s, req'[s]) = EntryOf(s, req[s])
      BY <1>1, <2>3 DEF RecInv, EntryOf
    <3> DEFINE o == OrgOf(req[s])
               e == EntryOf(s, req[s])
    <3>2. Over(o) => Over(o)'
      BY <2>1, <3>1, OverStays DEF Over
    <3>3. ASSUME e \in audit, e \notin audit'
          PROVE  Over(o)'
      <4>1. p.pc = "purge" /\ status'[o] = "gone"
        <5>1. e.org = o
          BY DEF EntryOf
        <5> QED BY <3>3, <5>1 DEF Others
      <4>2. ASSUME NEW t \in Request, req'[t].pc = "saveOrg" PROVE FALSE
        <5>1. t # r
          BY <4>1, <4>2 DEF Leads
        <5>2. t # s /\ req[t].pc = "saveOrg"
          BY <1>1, <2>3, <4>2, <5>1
        <5> QED
          BY <2>3, <3>1, <4>1, <5>1, <5>2 DEF RecInv, AtMostTwo, Active
      <4> QED BY <3>1, <4>1, <4>2 DEF Over, OrgOf
    <3> HIDE DEF o, e
    <3>4. req[s].target \in Audited => e \in audit \/ Over(o)
      BY <3>1 DEF Recorded, e, o
    <3>5. req[s].target \in Audited => e \in audit' \/ Over(o)'
      BY <3>2, <3>3, <3>4
    <3> QED
      BY <1>1, <2>3, <3>1, <3>5 DEF Recorded, e, o, Over, EntryOf, OrgOf
  <2> QED BY <2>2, <2>3
<1>4. \A s \in Request : HandFits(s)'
  <2> SUFFICES ASSUME NEW s \in Request, NEW x \in Hands(req'[s])
               PROVE  /\ status'[x] # "unborn"
                      /\ status'[x] = "live" => row'[x].org = OrgOf(req'[s])
    BY DEF HandFits, Hands, OrgOf
  <2>1. x \in Record /\ x \in Target
    BY DEF Hands, Target
  <2>2. ASSUME x \in Hands(req[s]), OrgOf(req'[s]) = OrgOf(req[s])
        PROVE  /\ status'[x] # "unborn"
               /\ status'[x] = "live" => row'[x].org = OrgOf(req'[s])
    <3>1. HandFits(s) /\ SaveFits(s, r)
      BY DEF RecInv
    <3> QED BY <2>1, <2>2, <3>1 DEF Others, HandFits, SaveFits
  <2>3. CASE s # r
    BY <1>1, <2>2, <2>3
  <2>4. CASE s = r
    <3>1. CASE x \in Hands(p) /\ OrgOf(q) = OrgOf(p)
      BY <2>2, <2>4, <3>1
    <3>2. CASE status[x] = "live" /\ row[x].org = OrgOf(q) /\ status' = status /\ row' = row
      BY <2>4, <3>2
    <3> QED BY <2>4, <3>1, <3>2 DEF Leads
  <2> QED BY <2>3, <2>4
<1>5. \A s, t \in Request : SaveFits(s, t)'
  <2> SUFFICES ASSUME NEW s \in Request, NEW t \in Request, req'[t].pc = "save",
                      req'[t].target \in Hands(req'[s])
               PROVE  req'[t].new.org = OrgOf(req'[s])
    BY DEF SaveFits, Hands, OrgOf
  <2>1. CASE t = r
    <3>1. s # r
      BY <2>1 DEF Hands
    <3>2. HandFits(s) /\ q.target \in Hands(req[s]) /\ OrgOf(req'[s]) = OrgOf(req[s])
      BY <1>1, <2>1, <3>1 DEF RecInv
    <3> QED BY <2>1, <3>2 DEF Leads, HandFits
  <2>2. CASE t # r
    <3>1. /\ req[t].pc = "save" /\ req'[t].new = req[t].new /\ req'[t].target = req[t].target
          /\ SaveFits(s, t) /\ Agrees(req[t])
      BY <1>1, <2>2 DEF RecInv, IInv
    <3>2. CASE req[t].target \in Hands(req[s]) /\ OrgOf(req'[s]) = OrgOf(req[s])
      BY <3>1, <3>2 DEF SaveFits
    <3>3. CASE s # r
      BY <1>1, <3>1, <3>2, <3>3
    <3>4. CASE s = r
      <4>1. \/ req[t].target \in Hands(p) /\ OrgOf(q) = OrgOf(p)
            \/ status[req[t].target] = "live" /\ row[req[t].target].org = OrgOf(q)
        BY <3>1, <3>4 DEF Leads
      <4> QED BY <3>1, <3>2, <3>4, <4>1 DEF Agrees, Live
    <3> QED BY <3>3, <3>4
  <2> QED BY <2>1, <2>2
<1>6. \A s \in Request : req'[s].pc \in {"save", "saveOrg"} => req'[s].action # "DELETE"
  BY <1>1 DEF RecInv, Leads
<1> QED
  BY <1>2, <1>3, <1>4, <1>5, <1>6 DEF RecInv

-----------------------------------------------------------------------------
(* Each step does no more than that. *)

\* The locals of a request that has nothing in hand and nothing to save.
LEMMA PlainLeads ==
  ASSUME NEW r \in Request, NEW q, q.pc \notin {"save", "saveOrg", "collect", "purge"},
         Hands(q) = {}, q.pc \in Active => req[r].pc \in Active \/ CanStart(r)
  PROVE  Leads(r, q)
BY DEF Leads

\* A step that leaves the rows and the entries alone.
LEMMA ReadOthers ==
  ASSUME IInv, NEW r \in Request, NEW q \in Locals, Goto(r, q), status' = status, row' = row,
         audit \subseteq audit'
  PROVE  Others(r) /\ req'[r] = q
<1>1. req' = [req EXCEPT ![r] = q] /\ req \in [Request -> Locals]
  BY DEF Goto, IInv, TypeOK
<1>2. \A s \in Request : req'[s] = IF s = r THEN q ELSE req[s]
  BY <1>1
<1> QED
  BY <1>2 DEF Others

LEMMA ReadKept ==
  ASSUME IInv, IInv', RecInv, Workers <= 2, NEW r \in Request, NEW q \in Locals, Goto(r, q),
         status' = status, row' = row, audit \subseteq audit', Leads(r, q)
  PROVE  RecInv'
<1>1. Others(r) /\ req'[r] = q
  BY ReadOthers
<1> QED
  BY <1>1, RecKept

LEMMA DoneLeads ==
  ASSUME NEW r \in Request
  PROVE  Done \in Locals /\ Done.pc = "done" /\ Hands(Done) = {} /\ Leads(r, Done)
<1>1. Done \in Locals /\ Done.pc = "done" /\ Done.pc \notin Active
  BY DoneFits DEF Active
<1>2. Hands(Done) = {}
  BY <1>1 DEF Hands
<1> QED
  BY <1>1, <1>2, PlainLeads

LEMMA FinishRecords ==
  ASSUME IInv, IInv', RecInv, Workers <= 2, NEW r \in Request, Goto(r, Done),
         status' = status, row' = row, audit \subseteq audit'
  PROVE  RecInv'
BY DoneLeads, ReadKept

LEMMA CreateRecords ==
  ASSUME IInv, IInv', RecInv, Workers <= 2, NEW r \in Request, Create(r)
  PROVE  RecInv'
<1>0. PICK u \in Writer, x \in Record : \E l \in LinkKind(x) \cup {NoLink} :
        /\ CanStart(r) /\ Fresh(x)
        /\ Goto(r, Begin("save", "CREATE", x, [org |-> home[u], link |-> l], TRUE))
        /\ UNCHANGED <<db, moves>>
  BY DEF Create
<1>1. PICK l \in LinkKind(x) \cup {NoLink} :
        /\ CanStart(r) /\ Fresh(x)
        /\ Goto(r, Begin("save", "CREATE", x, [org |-> home[u], link |-> l], TRUE))
        /\ UNCHANGED <<db, moves>>
  BY <1>0
<1> DEFINE w == [org |-> home[u], link |-> l]
           q == Begin("save", "CREATE", x, w, TRUE)
<1>2. u \in User /\ home[u] \in Org
  BY DirectoryAssumption DEF IInv, TypeOK
<1>3. w \in Row
  BY <1>2, Kinds DEF Row
<1>4. q.pc = "save" /\ q.action = "CREATE" /\ q.target = x /\ q \in Locals
  <2>1. q \in Locals
    BY <1>3, LocalsOf DEF Begin, Active, Target
  <2> QED BY <2>1 DEF Begin, Local
<1> HIDE DEF w, q
<1>5. Leads(r, q)
  BY <1>1, <1>4 DEF Leads, Hands, Fresh, CanStart
<1> QED
  BY <1>1, <1>4, <1>5, ReadKept DEF db, q, w

LEMMA UpdateRecords ==
  ASSUME IInv, IInv', RecInv, Workers <= 2, NEW r \in Request, Update(r)
  PROVE  RecInv'
<1>0. PICK u \in Writer, x \in Record, c \in BOOLEAN :
        \E l \in LinkKind(x) \cup {NoLink, Unset} :
          /\ CanStart(r) /\ Visible(u, x) /\ ValidLink(u, l)
          /\ Goto(r, Begin("save", "UPDATE", x, Patched(row[x], l), c))
          /\ UNCHANGED <<db, moves>>
  BY DEF Update
<1>1. PICK l \in LinkKind(x) \cup {NoLink, Unset} :
        /\ CanStart(r) /\ Visible(u, x) /\ ValidLink(u, l)
        /\ Goto(r, Begin("save", "UPDATE", x, Patched(row[x], l), c))
        /\ UNCHANGED <<db, moves>>
  BY <1>0
<1> DEFINE w == Patched(row[x], l)
           q == Begin("save", "UPDATE", x, w, c)
<1>2. /\ Live(x) /\ row[x] \in Row /\ row[x].org \in Org
      /\ row[x].link \in LinkKind(x) \cup {NoLink}
  BY <1>1, LinkedRow DEF Visible
<1>3. w \in Row /\ w.org = row[x].org
  BY <1>1, <1>2, Kinds DEF Row, Patched
<1>4. q.pc = "save" /\ q.action = "UPDATE" /\ q.target = x /\ q.new = w /\ q \in Locals
  <2>1. w \in Row /\ x \in Target
    BY <1>3 DEF Target
  <2> HIDE DEF w
  <2>2. q \in Locals
    BY <2>1, LocalsOf DEF Begin, Active
  <2> QED BY <2>2 DEF Begin, Local
<1> HIDE DEF w, q
<1>5. Leads(r, q)
  BY <1>1, <1>2, <1>3, <1>4 DEF Leads, Hands, CanStart, Live
<1> QED
  BY <1>1, <1>4, <1>5, ReadKept DEF db, q, w

LEMMA DestroyRecords ==
  ASSUME IInv, IInv', RecInv, Workers <= 2, NEW r \in Request, Destroy(r)
  PROVE  RecInv'
<1>1. PICK u \in Writer, x \in Record :
        /\ CanStart(r) /\ Visible(u, x)
        /\ Goto(r, Begin(IF x \in Audited THEN "audit" ELSE "collect", "DELETE", x, row[x], TRUE))
        /\ UNCHANGED <<db, moves>>
  BY DEF Destroy
<1> DEFINE stage == IF x \in Audited THEN "audit" ELSE "collect"
           q == Begin(stage, "DELETE", x, row[x], TRUE)
<1>2. row[x] \in Row /\ status[x] = "live"
  BY <1>1, LinkedRow DEF Visible, Live
<1>3. stage \in {"audit", "collect"} /\ (stage = "collect" => x \notin Audited)
  OBVIOUS
<1> HIDE DEF stage
<1>4. q.pc = stage /\ q.action = "DELETE" /\ q.target = x /\ q.new = row[x] /\ q \in Locals
  <2>1. q \in Locals
    BY <1>2, <1>3, LocalsOf DEF Begin, Active, Target
  <2> QED BY <2>1 DEF Begin, Local
<1> HIDE DEF q
<1>5. status' = status /\ row' = row /\ audit' = audit
  BY <1>1 DEF db
<1>6. Hands(q) = {x} /\ OrgOf(q) = row[x].org
  BY <1>3, <1>4, Kinds DEF Hands, OrgOf
<1>7. Leads(r, q)
  BY <1>1, <1>2, <1>3, <1>4, <1>5, <1>6 DEF Leads
<1>8. Goto(r, q)
  BY <1>1 DEF q, stage
<1> QED
  BY <1>4, <1>5, <1>7, <1>8, ReadKept

LEMMA StartsRecord ==
  ASSUME IInv, IInv', RecInv, Workers <= 2, NEW r \in Request,
         AddMember(r) \/ RemoveMember(r) \/ CreateOrg(r) \/ UpdateOrg(r) \/ DestroyOrg(r)
  PROVE  RecInv'
<1>1. CASE AddMember(r) \/ RemoveMember(r)
  <2>1. PICK p \in Project, v \in User, stage \in {"join", "leave"} :
          /\ CanStart(r) /\ Goto(r, Local(stage, "none", p, NoRow, FALSE, v, {}))
          /\ UNCHANGED <<db, moves>>
    BY <1>1 DEF AddMember, RemoveMember
  <2> DEFINE q == Local(stage, "none", p, NoRow, FALSE, v, {})
  <2>2. q.pc = stage /\ q.action = "none" /\ q \in Locals
    <3>1. p \in Target
      BY DEF Record, Target
    <3>2. q \in Locals
      BY <3>1, LocalsOf DEF Active
    <3> QED BY <3>2 DEF Local
  <2> HIDE DEF q
  <2>3. Leads(r, q)
    BY <2>1, <2>2, PlainLeads DEF Hands
  <2> QED BY <2>1, <2>2, <2>3, ReadKept DEF q, db
<1>2. CASE CreateOrg(r) \/ UpdateOrg(r)
  <2>1. PICK o \in Org, a \in {"CREATE", "UPDATE"}, c \in BOOLEAN :
          /\ CanStart(r) /\ (Fresh(o) \/ Live(o)) /\ Goto(r, Begin("saveOrg", a, o, NoRow, c))
          /\ UNCHANGED <<db, moves>>
    BY <1>2 DEF CreateOrg, UpdateOrg
  <2> DEFINE q == Begin("saveOrg", a, o, NoRow, c)
  <2>2. q.pc = "saveOrg" /\ q.action = a /\ q.target = o /\ q \in Locals
    <3>1. q \in Locals
      BY LocalsOf DEF Begin, Active, Target
    <3> QED BY <3>1 DEF Begin, Local
  <2> HIDE DEF q
  <2>3. Leads(r, q)
    BY <2>1, <2>2 DEF Leads, Hands, Fresh, Live, CanStart
  <2> QED BY <2>1, <2>2, <2>3, ReadKept DEF q, db
<1>3. CASE DestroyOrg(r)
  <2>1. PICK o \in Org :
          /\ CanStart(r)
          /\ Goto(r, Local("count", "DELETE", o, NoRow, TRUE, NoUser, RecordsOf(o)))
          /\ UNCHANGED <<db, moves>>
    BY <1>3 DEF DestroyOrg
  <2> DEFINE q == Local("count", "DELETE", o, NoRow, TRUE, NoUser, RecordsOf(o))
  <2>2. q.pc = "count" /\ q \in Locals
    <3>1. RecordsOf(o) \in SUBSET Record
      BY DEF RecordsOf
    <3>2. q \in Locals
      BY <3>1, LocalsOf DEF Active, Target
    <3> QED BY <3>2 DEF Local
  <2> HIDE DEF q
  <2>3. Leads(r, q)
    BY <2>1, <2>2, PlainLeads DEF Hands
  <2> QED BY <2>1, <2>2, <2>3, ReadKept DEF q, db
<1> QED
  BY <1>1, <1>2, <1>3

LEMMA CountRecords ==
  ASSUME IInv, IInv', RecInv, Workers <= 2, NEW r \in Request, CountRelated(r)
  PROVE  RecInv'
<1>0. PICK p \in Locals : p = req[r]
  BY DEF IInv, TypeOK
<1> DEFINE o == p.target
           n == [p EXCEPT !.next = @ + 1]
           m == [p EXCEPT !.pc = "audit"]
<1>1. /\ p.pc = "count" /\ o \in Org /\ p.next \in 1 .. 4 /\ UNCHANGED <<db, moves>>
  BY <1>0 DEF CountRelated, IInv, Fits, Locals, Count
<1>2. \/ Goto(r, Done)
      \/ Goto(r, n) /\ p.next < 4
      \/ Goto(r, m)
  BY <1>0 DEF CountRelated, Count
<1>3. CASE Goto(r, Done)
  BY <1>1, <1>3, FinishRecords DEF db
<1>4. CASE Goto(r, n) /\ p.next < 4
  <2>1. n \in Locals /\ n.pc = "count"
    BY <1>1, <1>4 DEF Locals, Count
  <2> HIDE DEF n
  <2>2. Leads(r, n)
    BY <1>0, <1>1, <2>1, PlainLeads DEF Hands, Active
  <2> QED BY <1>1, <1>4, <2>1, <2>2, ReadKept DEF db
<1>5. CASE Goto(r, m)
  <2>1. m \in Locals /\ m.pc = "audit" /\ m.target = o
    BY <1>1 DEF Locals, Active
  <2> HIDE DEF m
  <2>2. Hands(m) = {}
    BY <1>1, <2>1, Kinds DEF Hands
  <2>3. Leads(r, m)
    BY <1>0, <1>1, <2>1, <2>2, PlainLeads DEF Active
  <2> QED BY <1>1, <1>5, <2>1, <2>3, ReadKept DEF db
<1> QED
  BY <1>2, <1>3, <1>4, <1>5

\* The collector of a record finds the record and tasks of its organization; that
\* of a department the department alone.
LEMMA Cascades ==
  ASSUME IInv, NEW x \in Record, NEW t \in Cascade(x), t # x
  PROVE  /\ t \in Task /\ status[t] = "live" /\ x \notin Department
         /\ status[x] = "live" /\ row[t].org = row[x].org
<1>1. t \in Task /\ LinkOf(t) = x
  BY DEF Cascade
<1>2. status[t] = "live" /\ row[t].link = x
  BY <1>1, Kinds DEF LinkOf, Live
<1>3. /\ x \in LinkKind(t) /\ Live(x) /\ row[x].org = row[t].org
  BY <1>1, <1>2, LinkedRow, Kinds DEF Live, Record
<1> QED
  BY <1>1, <1>2, <1>3, Kinds, DirectoryAssumption DEF Live

LEMMA CollectRecords ==
  ASSUME IInv, IInv', RecInv, Workers <= 2, NEW r \in Request, Collect(r)
  PROVE  RecInv'
<1>0. PICK p \in Locals : p = req[r]
  BY DEF IInv, TypeOK
<1> DEFINE all == IF p.target \in Org THEN RecordsOf(p.target) ELSE Cascade(p.target)
           q == [p EXCEPT !.pc = "purge", !.taken = all]
<1>1. /\ p.pc = "collect" /\ p.target \in Target /\ p.action = "DELETE"
      /\ HandFits(r) /\ UNCHANGED <<db, moves>>
  BY <1>0 DEF Collect, IInv, Fits, RecInv, Recorded
<1>2. Goto(r, Done) \/ Goto(r, q)
  BY <1>0 DEF Collect
<1>3. CASE Goto(r, Done)
  BY <1>1, <1>3, FinishRecords DEF db
<1>4. CASE Goto(r, q)
  <2>1. all \subseteq Record
    BY <1>1 DEF RecordsOf, Cascade, Record, Target
  <2> HIDE DEF all
  <2>2. /\ q \in Locals /\ q.pc = "purge" /\ q.target = p.target /\ q.new = p.new
        /\ q.taken = all /\ q.action = "DELETE"
    BY <1>1, <2>1 DEF Locals, Active
  <2> HIDE DEF q
  <2>3. OrgOf(q) = OrgOf(p) /\ EntryOf(r, q) = EntryOf(r, p)
    BY <1>1, <2>2 DEF OrgOf, EntryOf
  <2>4. p.target \in Record => p.target \in Hands(p)
    BY <1>1 DEF Hands
  <2>5. ASSUME NEW x \in Hands(q)
        PROVE  x \in Hands(p) \/ (status[x] = "live" /\ row[x].org = OrgOf(q))
    <3>1. CASE x = p.target
      BY <2>4, <3>1 DEF Hands
    <3>2. CASE x # p.target /\ p.target \in Org
      <4>1. x \in RecordsOf(p.target)
        BY <2>2, <3>2 DEF Hands, all
      <4> QED BY <2>2, <3>2, <4>1 DEF RecordsOf, OrgOf, Live
    <3>3. CASE x # p.target /\ p.target \notin Org
      <4>1. x \in Cascade(p.target) /\ p.target \in Record
        BY <1>1, <2>2, <3>3 DEF Hands, all, Target
      <4>2. status[x] = "live" /\ status[p.target] = "live" /\ row[x].org = row[p.target].org
        BY <3>3, <4>1, Cascades
      <4> QED BY <1>0, <1>1, <2>3, <2>4, <4>1, <4>2 DEF HandFits
    <3> QED BY <3>1, <3>2, <3>3
  <2>6. p.target \in Department => all \subseteq {p.target}
    <3> SUFFICES ASSUME p.target \in Department, NEW x \in all, x # p.target PROVE FALSE
      OBVIOUS
    <3>1. p.target \in Record /\ p.target \notin Org
      BY Kinds DEF Record
    <3> QED BY <3>1, Cascades DEF all
  <2>7. q.pc \notin {"save", "saveOrg"} /\ req[r].pc \in Active
    BY <1>0, <1>1, <2>2 DEF Active
  <2>8. status' = status /\ row' = row /\ audit' = audit
    BY <1>1 DEF db
  <2>9. Leads(r, q)
    BY <1>0, <1>1, <2>2, <2>3, <2>5, <2>6, <2>7, <2>8 DEF Leads
  <2> QED BY <1>4, <2>2, <2>8, <2>9, ReadKept
<1> QED
  BY <1>2, <1>3, <1>4

LEMMA AuditRecords ==
  ASSUME IInv, IInv', RecInv, Workers <= 2, NEW r \in Request, Audit(r)
  PROVE  RecInv'
<1>0. PICK p \in Locals : p = req[r]
  BY DEF IInv, TypeOK
<1> DEFINE q == [p EXCEPT !.pc = "collect"]
<1>1. /\ p.pc = "audit" /\ Fits(p) /\ status' = status /\ row' = row
  BY <1>0 DEF Audit, IInv
<1>2. \/ Goto(r, Done) /\ audit \subseteq audit'
      \/ Goto(r, q) /\ p.action = "DELETE" /\ audit' = audit \cup {EntryOf(r, p)}
  BY <1>0 DEF Audit, AuditEntry, EntryOf
<1>3. CASE Goto(r, Done) /\ audit \subseteq audit'
  BY <1>1, <1>3, FinishRecords
<1>4. CASE Goto(r, q) /\ p.action = "DELETE" /\ audit' = audit \cup {EntryOf(r, p)}
  <2>1. /\ q \in Locals /\ q.pc = "collect" /\ q.target = p.target /\ q.new = p.new
        /\ q.action = "DELETE"
    BY <1>4 DEF Locals, Active
  <2> HIDE DEF q
  <2>2. OrgOf(q) = OrgOf(p) /\ EntryOf(r, q) = EntryOf(r, p)
    BY <1>4, <2>1 DEF OrgOf, EntryOf
  <2>3. Hands(q) \subseteq Hands(p)
    BY <1>1, <1>4, <2>1 DEF Hands
  <2>4. Leads(r, q)
    BY <1>0, <1>1, <1>4, <2>1, <2>2, <2>3 DEF Leads, Active
  <2> QED BY <1>1, <1>4, <2>1, <2>4, ReadKept
<1> QED
  BY <1>2, <1>3, <1>4

LEMMA MoveRecords ==
  ASSUME IInv, IInv', RecInv, Workers <= 2, MoveUser
  PROVE  RecInv'
BY DEF MoveUser, RecInv, AtMostTwo, Recorded, HandFits, SaveFits, Over, EntryOf, OrgOf, Hands

\* Once saved, a handler that was not deleting has nothing in hand.
LEMMA AfterSaveLeads ==
  ASSUME NEW r \in Request, NEW p \in Locals, p = req[r], p.pc \in {"save", "saveOrg"},
         p.action # "DELETE"
  PROVE  Leads(r, AfterSave(p))
<1> DEFINE n == [p EXCEPT !.pc = "audit"]
<1>1. n.pc = "audit" /\ n.action # "DELETE"
  BY DEF Locals
<1>2. AfterSave(p) \in {n, Done}
  BY DEF AfterSave
<1> HIDE DEF n
<1>3. Leads(r, n)
  BY <1>1, PlainLeads DEF Hands, Active
<1> QED
  BY <1>2, <1>3, DoneLeads

LEMMA SaveRecords ==
  ASSUME IInv, IInv', RecInv, Workers <= 2, NEW r \in Request, Save(r) \/ SaveOrg(r)
  PROVE  RecInv'
<1>0. PICK p \in Locals : p = req[r]
  BY DEF IInv, TypeOK
<1> DEFINE x == p.target
           q == AfterSave(p)
<1>1. /\ p.pc \in {"save", "saveOrg"} /\ Fits(p) /\ audit' = audit /\ p.action # "DELETE"
      /\ q \in Locals
  BY <1>0, AfterSaveFits DEF Save, SaveOrg, IInv, RecInv
<1>2. /\ status \in [Target -> {"unborn", "live", "gone"}]
      /\ row \in [Record -> Row \cup {NoRow}] /\ req \in [Request -> Locals]
  BY DEF IInv, TypeOK
<1>3. CASE Goto(r, Done) /\ status' = status /\ row' = row
  BY <1>1, <1>3, FinishRecords
<1>4. CASE ~(Goto(r, Done) /\ status' = status /\ row' = row)
  <2>1. /\ status' = [status EXCEPT ![x] = "live"] /\ Goto(r, q)
        /\ \/ p.pc = "save" /\ x \in Record /\ row' = [row EXCEPT ![x] = p.new]
           \/ p.pc = "saveOrg" /\ x \in Org /\ row' = row
    BY <1>0, <1>1, <1>4 DEF Save, SaveOrg, Fits
  <2>2. Leads(r, q)
    BY <1>0, <1>1, AfterSaveLeads
  <2> HIDE DEF q
  <2>3. \A s \in Request : req'[s] = IF s = r THEN q ELSE req[s]
    BY <1>2, <2>1 DEF Goto
  <2>4. \A k \in Target : status'[k] = IF k = x THEN "live" ELSE status[k]
    BY <1>2, <2>1
  <2>5. \A y \in Record : status'[y] = "live" =>
          \/ status[y] = "live" /\ row'[y].org = row[y].org
          \/ p.pc = "save" /\ x = y /\ row'[y].org = p.new.org
    <3> SUFFICES ASSUME NEW y \in Record, status'[y] = "live"
                 PROVE  \/ status[y] = "live" /\ row'[y].org = row[y].org
                        \/ p.pc = "save" /\ x = y /\ row'[y].org = p.new.org
      OBVIOUS
    <3>1. y \in Target /\ y \notin Org
      BY Kinds DEF Target
    <3>2. CASE y = x
      BY <1>2, <2>1, <3>1, <3>2
    <3>3. CASE y # x
      BY <1>2, <2>1, <2>4, <3>1, <3>3
    <3> QED BY <3>2, <3>3
  <2>6. \A o \in Org : status'[o] = "live" =>
          status[o] = "live" \/ (p.pc = "saveOrg" /\ x = o)
    <3>1. \A o \in Org : o \in Target /\ o \notin Record
      BY Kinds DEF Target
    <3> QED BY <2>1, <2>4, <3>1
  <2>7. Others(r)
    BY <1>0, <1>1, <2>3, <2>4, <2>5, <2>6 DEF Others
  <2> QED
    BY <2>2, <2>3, <2>7, RecKept
<1> QED
  BY <1>3, <1>4

\* What the deletion does when nothing blocks it.
LEMMA PurgeOthers ==
  ASSUME IInv, NEW r \in Request, Purge(r), Blocking(req[r]) = {}
  PROVE  /\ Others(r) /\ req'[r] = Done
         /\ \A k \in Target : Live(k) /\ status'[k] # "live"
                                => k \in req[r].taken \cup {req[r].target}
<1>0. PICK p \in Locals : p = req[r]
  BY DEF IInv, TypeOK
<1> DEFINE gone == p.taken \cup {p.target}
<1>1. /\ p.pc = "purge" /\ Fits(p)
      /\ status' = [k \in Record \cup Org |->
                      IF k \in gone /\ Live(k) THEN "gone" ELSE status[k]]
      /\ row' = [x \in Record |-> IF x \in gone THEN NoRow ELSE SetNull(x, p.taken)]
      /\ audit' = {e \in audit : e.org # p.target}
      /\ req' = [i \in Request |->
                   IF i = r THEN Done ELSE [req[i] EXCEPT !.before = @ \ gone]]
  BY <1>0 DEF Purge, IInv
<1>2. /\ status \in [Target -> {"unborn", "live", "gone"}] /\ req \in [Request -> Locals]
      /\ \A e \in audit : e.org \in Org /\ Live(e.org)
  BY DEF IInv, TypeOK, LinksHold
<1> HIDE DEF gone
<1>3. \A k \in Target : status'[k] = IF k \in gone /\ Live(k) THEN "gone" ELSE status[k]
  BY <1>1 DEF Target
<1>4. req'[r] = Done
  BY <1>1
<1>5. \A s \in Request : s # r =>
        /\ req'[s].pc = req[s].pc /\ req'[s].action = req[s].action
        /\ req'[s].target = req[s].target /\ req'[s].new = req[s].new
        /\ req'[s].taken = req[s].taken
  <2> SUFFICES ASSUME NEW s \in Request, s # r,
                      NEW a \in Locals, a = req[s], NEW b, b = [a EXCEPT !.before = @ \ gone]
               PROVE  /\ b.pc = a.pc /\ b.action = a.action /\ b.target = a.target
                      /\ b.new = a.new /\ b.taken = a.taken
    BY <1>1, <1>2
  <2> QED BY DEF Locals
<1>6. \A x \in Record : status'[x] = "live" => status[x] = "live" /\ row'[x].org = row[x].org
  <2> SUFFICES ASSUME NEW x \in Record, status'[x] = "live"
               PROVE  status[x] = "live" /\ row'[x].org = row[x].org
    OBVIOUS
  <2>1. status[x] = "live" /\ x \notin gone
    BY <1>3 DEF Live, Target
  <2>2. row'[x] = SetNull(x, p.taken) /\ row[x] \in Row
    BY <1>1, <2>1, LinkedRow DEF Live
  <2> QED BY <2>1, <2>2 DEF SetNull, Row
<1>7. \A e \in audit : e \in audit' \/ (e.org = p.target /\ status'[e.org] = "gone")
  <2> SUFFICES ASSUME NEW e \in audit, e.org = p.target
               PROVE  status'[e.org] = "gone"
    BY <1>1
  <2>1. e.org \in Target /\ Live(e.org) /\ e.org \in gone
    BY <1>2 DEF Target, gone
  <2> QED BY <1>3, <2>1
<1>8. Others(r)
  BY <1>0, <1>1, <1>3, <1>5, <1>6, <1>7 DEF Others, Target, Live
<1> QED
  BY <1>0, <1>3, <1>4, <1>8 DEF gone, Live

LEMMA PurgeRecords ==
  ASSUME IInv, IInv', RecInv, Workers <= 2, NEW r \in Request, Purge(r)
  PROVE  RecInv'
<1>1. CASE Blocking(req[r]) = {}
  BY <1>1, PurgeOthers, DoneLeads, RecKept
<1>2. CASE Blocking(req[r]) # {}
  BY <1>2, FinishRecords DEF Purge
<1> QED
  BY <1>1, <1>2

LEMMA HandlerRecords ==
  ASSUME IInv, IInv', RecInv, Workers <= 2, NEW r \in Request, Handler(r)
  PROVE  RecInv'
<1>1. CASE Create(r)  BY <1>1, CreateRecords
<1>2. CASE Update(r)  BY <1>2, UpdateRecords
<1>3. CASE Save(r) \/ SaveOrg(r)  BY <1>3, SaveRecords
<1>4. CASE Destroy(r)  BY <1>4, DestroyRecords
<1>5. CASE Audit(r)    BY <1>5, AuditRecords
<1>6. CASE AddMember(r) \/ RemoveMember(r) \/ CreateOrg(r) \/ UpdateOrg(r) \/ DestroyOrg(r)
  BY <1>6, StartsRecord
<1>7. CASE Join(r) \/ Leave(r) \/ Abort(r)
  BY <1>7, FinishRecords DEF Join, Leave, Abort, db
<1>8. CASE CountRelated(r)  BY <1>8, CountRecords
<1>9. CASE Collect(r)       BY <1>9, CollectRecords
<1>10. CASE Purge(r)        BY <1>10, PurgeRecords
<1> QED
  BY <1>1, <1>2, <1>3, <1>4, <1>5, <1>6, <1>7, <1>8, <1>9, <1>10 DEF Handler

LEMMA NextRecords ==
  ASSUME IInv, IInv', RecInv, Workers <= 2, [Next]_vars
  PROVE  RecInv'
<1>1. CASE MoveUser
  BY <1>1, MoveRecords
<1>2. CASE \E r \in Request : Handler(r)
  BY <1>2, HandlerRecords
<1>3. CASE UNCHANGED vars
  BY <1>3 DEF vars, db, RecInv, AtMostTwo, Recorded, HandFits, SaveFits, Over, EntryOf, OrgOf, Hands
<1> QED
  BY <1>1, <1>2, <1>3 DEF Next

LEMMA InitRecords ==
  ASSUME Init
  PROVE  RecInv
<1>1. \A r \in Request : req[r] = Idle
  BY DEF Init
<1>2. Idle.pc = "idle" /\ Idle.pc \notin Active
  BY DoneFits DEF Active
<1> QED
  BY <1>1, <1>2 DEF RecInv, AtMostTwo, Recorded, HandFits, SaveFits, Hands

-----------------------------------------------------------------------------
\* Only a deletion takes rows and entries away.
LEMMA OthersRemoveNothing ==
  ASSUME IInv, [Next]_vars,
         ~\E r \in Request : Purge(r) /\ Blocking(req[r]) = {}
  PROVE  /\ \A k \in Target : Live(k) => status'[k] = "live"
         /\ audit \subseteq audit'
<1>1. status \in [Target -> {"unborn", "live", "gone"}]
  BY DEF IInv, TypeOK
<1>2. CASE UNCHANGED vars \/ MoveUser
  BY <1>2 DEF vars, db, MoveUser, Live
<1>3. ASSUME NEW r \in Request, Handler(r)
      PROVE  /\ \A k \in Target : Live(k) => status'[k] = "live"
             /\ audit \subseteq audit'
  <2>1. CASE Save(r) \/ SaveOrg(r)
    <3>1. status' = status \/ status' = [status EXCEPT ![req[r].target] = "live"]
      BY <2>1 DEF Save, SaveOrg
    <3>2. audit' = audit
      BY <2>1 DEF Save, SaveOrg
    <3> QED BY <1>1, <3>1, <3>2 DEF Live
  <2>2. CASE Create(r) \/ Update(r) \/ Destroy(r) \/ AddMember(r) \/ RemoveMember(r)
    BY <2>2 DEF Create, Update, Destroy, AddMember, RemoveMember, db, Live
  <2>3. CASE CreateOrg(r) \/ UpdateOrg(r) \/ DestroyOrg(r) \/ CountRelated(r) \/ Collect(r) \/ Abort(r)
    BY <2>3 DEF CreateOrg, UpdateOrg, DestroyOrg, CountRelated, Collect, Abort, db, Live
  <2>4. CASE Audit(r) \/ Join(r) \/ Leave(r)
    BY <2>4 DEF Audit, Join, Leave, Live
  <2>5. CASE Purge(r)
    BY <1>3, <2>5 DEF Purge, Live
  <2> QED BY <1>3, <2>1, <2>2, <2>3, <2>4, <2>5 DEF Handler
<1> QED
  BY <1>2, <1>3 DEF Next

\* What a deletion removes is recorded, since what is there has its organization.
LEMMA RemovedIsRecorded ==
  ASSUME IInv, RecInv, NEW r \in Request, Purge(r), Blocking(req[r]) = {},
         NEW x \in Client \cup Project \cup Task, Live(x), status'[x] # "live"
  PROVE  \E e \in audit :
           /\ e.action = "DELETE"
           /\ req[e.req].pc = "purge" /\ req[e.req].target = e.target
           /\ x \in req[e.req].taken
<1>0. PICK p \in Locals : p = req[r]
  BY DEF IInv, TypeOK
<1>1. p.pc = "purge" /\ Fits(p) /\ Recorded(r) /\ HandFits(r) /\ p.action = "DELETE"
  BY <1>0 DEF Purge, IInv, RecInv, Recorded
<1>2. x \in Record /\ x \in Target
  BY DEF Record, Target
<1>3. x \in p.taken
  <2>1. x \in p.taken \cup {p.target}
    BY <1>0, <1>2, PurgeOthers
  <2> QED BY <1>1, <1>2, <2>1 DEF Fits
<1>4. p.target \in Audited
  <2>1. p.target \notin Department
    BY <1>0, <1>1, <1>3, DirectoryAssumption DEF Recorded
  <2> QED BY <1>1, <2>1 DEF Fits, Target, Record, Audited
<1>5. ~Over(OrgOf(p))
  <2>1. x \in Hands(p)
    BY <1>1, <1>2, <1>3 DEF Hands
  <2>2. row[x].org = OrgOf(p)
    BY <1>0, <1>1, <2>1 DEF HandFits, Live
  <2>3. Live(row[x].org)
    BY <1>2, LinkedRow
  <2> QED BY <2>2, <2>3 DEF Over, Live
<1>6. EntryOf(r, p) \in audit
  BY <1>0, <1>1, <1>4, <1>5 DEF Recorded
<1> QED
  BY <1>0, <1>1, <1>3, <1>6 DEF EntryOf

\* With two requests at a time, a client, project or task leaves only after a
\* DELETE entry about the target of the request that takes it, and an entry
\* leaves only with its organization: perform_destroy writes the entry first, and
\* nobody can delete the organization, bring it back and refill it meanwhile.
THEOREM GoneIsAlwaysRecorded == Workers <= 2 /\ Spec => GoneIsRecorded
<1> DEFINE SmallInv == Workers <= 2 /\ IInv /\ RecInv
<1>1. SmallInv /\ [Next]_vars => SmallInv'
  BY NextKeeps, NextRecords
<1>2. Workers <= 2 /\ Init => SmallInv
  BY InitFits, InitRecords
<1>3. ASSUME IInv, RecInv, [Next]_vars
      PROVE  /\ \A x \in Client \cup Project \cup Task :
                  Live(x) /\ ~Live(x)' =>
                    \E e \in audit :
                      /\ e.action = "DELETE"
                      /\ req[e.req].pc = "purge" /\ req[e.req].target = e.target
                      /\ x \in req[e.req].taken
             /\ \A e \in audit : e \in audit' \/ ~Live(e.org)'
  <2>1. CASE \E r \in Request : Purge(r) /\ Blocking(req[r]) = {}
    <3> PICK r \in Request : Purge(r) /\ Blocking(req[r]) = {}
      BY <2>1
    <3>1. Others(r)
      BY <1>3, PurgeOthers
    <3>2. \A e \in audit : e \in audit' \/ ~Live(e.org)'
      BY <3>1 DEF Others, Live
    <3> QED BY <1>3, <3>2, RemovedIsRecorded DEF Live
  <2>2. CASE ~\E r \in Request : Purge(r) /\ Blocking(req[r]) = {}
    <3>1. /\ \A k \in Target : Live(k) => status'[k] = "live"
          /\ audit \subseteq audit'
      BY <1>3, <2>2, OthersRemoveNothing
    <3> QED BY <3>1 DEF Live, Target, Record
  <2> QED BY <2>1, <2>2
<1>4. SmallInv /\ [Next]_vars =>
        [/\ \A x \in Client \cup Project \cup Task :
              Live(x) /\ ~Live(x)' =>
                \E e \in audit :
                  /\ e.action = "DELETE"
                  /\ req[e.req].pc = "purge" /\ req[e.req].target = e.target
                  /\ x \in req[e.req].taken
         /\ \A e \in audit : e \in audit' \/ ~Live(e.org)']_vars
  BY <1>3
<1> HIDE DEF SmallInv
<1> QED
  BY <1>1, <1>2, <1>4, PTL DEF Spec, GoneIsRecorded
=============================================================================

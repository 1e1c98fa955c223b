--------------------------- MODULE SessionsProofs ---------------------------
(***************************************************************************)
(* What holds of Sessions for every number of tabs, calls, accounts and    *)
(* expiries, however messages are lost and pages left.                     *)
(***************************************************************************)
EXTENDS Sessions, SequenceTheorems, TLAPS

-----------------------------------------------------------------------------
(* Invariants. *)

\* Wherever the server or a page uses a token, there is one.
Pointers ==
  /\ \A c \in Call :
       /\ call[c].phase # "idle" /\ call[c].kind = "logout" => call[c].body # 0
       /\ call[c].phase = "answered" /\ call[c].kind = "login" /\ call[c].status = 200
            => call[c].pair # 0
       /\ UnderWay(c) => call[c].tab \in Tab
  /\ \A t \in Tab : /\ renewal[t].phase # "none" => renewal[t].token # 0
                    /\ renewal[t].phase = "yes" => renewal[t].pair # 0
  /\ \A o \in orphans : o.token # 0

TypeInv == TypeOK /\ Pointers

\* A call that took effect is over, or about to be: no retry follows.
OnceInv ==
  \A c \in Call :
    /\ call[c].times \in {0, 1}
    /\ call[c].times = 1 => /\ call[c].phase \in {"answered", "settled"}
                            /\ call[c].status # 401

SameToken == stored.access = stored.refresh

-----------------------------------------------------------------------------
(* Types: every table by what each of its entries must be. *)

GoodCall(q, len) ==
  /\ q \in CallType
  /\ q.access \in 0..len /\ q.body \in 0..len /\ q.pair \in 0..len
  /\ q.phase # "idle" /\ q.kind = "logout" => q.body # 0
  /\ q.phase = "answered" /\ q.kind = "login" /\ q.status = 200 => q.pair # 0
  /\ q.phase \in {"sent", "answered", "renewing"} => q.tab \in Tab

GoodCalls(f, len) == f \in [Call -> CallType] /\ \A c \in Call : GoodCall(f[c], len)

GoodRenewal(q, len) ==
  /\ q \in RenewalType
  /\ q.token \in 0..len /\ q.pair \in 0..len
  /\ q.phase # "none" => q.token # 0
  /\ q.phase = "yes" => q.pair # 0

GoodRenewals(f, len) == f \in [Tab -> RenewalType] /\ \A t \in Tab : GoodRenewal(f[t], len)

GoodOrphans(S, len) ==
  S \in SUBSET OrphanType /\ \A o \in S : o.token \in 0..len /\ o.token # 0

StoredType(len) == [access : 0..len, refresh : 0..len, user : Account \cup {NoAccount}]

LEMMA TypeParts ==
  TypeInv <=> /\ issued \in Seq(PairType)
              /\ stored \in StoredType(Len(issued))
              /\ page \in [Tab -> PageType]
              /\ GoodCalls(call, Len(issued))
              /\ GoodRenewals(renewal, Len(issued))
              /\ GoodOrphans(orphans, Len(issued))
              /\ active \subseteq Account
BY DEF TypeInv, TypeOK, Pointers, StoredType, Token, GoodCalls, GoodCall, GoodRenewals,
       GoodRenewal, GoodOrphans, UnderWay

LEMMA TypePartsNext ==
  TypeInv' <=> /\ issued' \in Seq(PairType)
               /\ stored' \in StoredType(Len(issued'))
               /\ page' \in [Tab -> PageType]
               /\ GoodCalls(call', Len(issued'))
               /\ GoodRenewals(renewal', Len(issued'))
               /\ GoodOrphans(orphans', Len(issued'))
               /\ active' \subseteq Account
BY DEF TypeInv, TypeOK, Pointers, StoredType, Token, GoodCalls, GoodCall, GoodRenewals,
       GoodRenewal, GoodOrphans, UnderWay

LEMMA CallExcept ==
  ASSUME NEW f, NEW len \in Nat, GoodCalls(f, len), NEW c \in Call, NEW q, GoodCall(q, len)
  PROVE  GoodCalls([f EXCEPT ![c] = q], len)
BY DEF GoodCalls, GoodCall

LEMMA RenewalExcept ==
  ASSUME NEW f, NEW len \in Nat, GoodRenewals(f, len), NEW t \in Tab, NEW q, GoodRenewal(q, len)
  PROVE  GoodRenewals([f EXCEPT ![t] = q], len)
BY DEF GoodRenewals, GoodRenewal

LEMMA MoreTokens ==
  ASSUME NEW m \in Nat, NEW n \in Nat, m <= n
  PROVE  /\ \A f : GoodCalls(f, m) => GoodCalls(f, n)
         /\ \A f : GoodRenewals(f, m) => GoodRenewals(f, n)
         /\ \A S : GoodOrphans(S, m) => GoodOrphans(S, n)
         /\ \A s : s \in StoredType(m) => s \in StoredType(n)
BY DEF GoodCalls, GoodCall, GoodRenewals, GoodRenewal, GoodOrphans, StoredType


\* An answer changes one call, and of that call what the answer says.
AnsweredCall(q, s, a, n) ==
  [q EXCEPT !.phase = IF q.phase = "unheard" THEN "settled" ELSE "answered",
            !.status = s, !.answer = a, !.pair = n]

LEMMA AnswerSays ==
  ASSUME NEW c \in Call, NEW s, NEW a, NEW n
  PROVE  Answer(c, s, a, n) = [call EXCEPT ![c] = AnsweredCall(call[c], s, a, n)]
BY DEF Answer, AnsweredCall

LEMMA AnsweredType ==
  ASSUME NEW q \in CallType, NEW s \in {0, 200, 400, 401},
         NEW a \in Account \cup {NoAccount}, NEW n \in Nat
  PROVE  AnsweredCall(q, s, a, n) \in CallType
<1> DEFINE p == IF q.phase = "unheard" THEN "settled" ELSE "answered"
<1>1. p \in Phase
  BY DEF Phase
<1>2. AnsweredCall(q, s, a, n) = [q EXCEPT !.phase = p, !.status = s, !.answer = a, !.pair = n]
  BY DEF AnsweredCall
<1>3. p = IF q.phase = "unheard" THEN "settled" ELSE "answered"
  OBVIOUS
<1> HIDE DEF p
<1>11. [q EXCEPT !.phase = p] \in CallType
  BY <1>1 DEF CallType
<1>12. \A x \in CallType : [x EXCEPT !.status = s] \in CallType
  BY DEF CallType
<1>13. \A x \in CallType : [x EXCEPT !.answer = a] \in CallType
  BY DEF CallType
<1>14. \A x \in CallType : [x EXCEPT !.pair = n] \in CallType
  BY DEF CallType
<1>15. AnsweredCall(q, s, a, n)
        = [[[[q EXCEPT !.phase = p] EXCEPT !.status = s] EXCEPT !.answer = a] EXCEPT !.pair = n]
  BY <1>2 DEF CallType
<1> DEFINE q1 == [q EXCEPT !.phase = p]
<1> DEFINE q2 == [q1 EXCEPT !.status = s]
<1> DEFINE q3 == [q2 EXCEPT !.answer = a]
<1>16. q2 \in CallType
  BY <1>11, <1>12
<1>17. q3 \in CallType
  BY <1>16, <1>13
<1>18. [q3 EXCEPT !.pair = n] \in CallType
  BY <1>17, <1>14
<1> QED
  BY <1>15, <1>18

LEMMA AnsweredFields ==
  ASSUME NEW q \in CallType, NEW s, NEW a, NEW n
  PROVE  /\ AnsweredCall(q, s, a, n).phase = IF q.phase = "unheard" THEN "settled" ELSE "answered"
         /\ AnsweredCall(q, s, a, n).status = s
         /\ AnsweredCall(q, s, a, n).answer = a
         /\ AnsweredCall(q, s, a, n).pair = n
         /\ AnsweredCall(q, s, a, n).kind = q.kind
         /\ AnsweredCall(q, s, a, n).tab = q.tab
         /\ AnsweredCall(q, s, a, n).access = q.access
         /\ AnsweredCall(q, s, a, n).body = q.body
         /\ AnsweredCall(q, s, a, n).retry = q.retry
         /\ AnsweredCall(q, s, a, n).times = q.times
BY DEF AnsweredCall, CallType

LEMMA AnsweredGood ==
  ASSUME NEW len \in Nat, NEW q, GoodCall(q, len), NEW s \in {0, 200, 400, 401},
         NEW a \in Account \cup {NoAccount}, NEW n \in 0..len,
         q.phase \in {"sent", "unheard"}, q.kind = "login" /\ s = 200 => n # 0
  PROVE  GoodCall(AnsweredCall(q, s, a, n), len)
<1>1. q \in CallType /\ n \in Nat
  BY DEF GoodCall
<1>2. AnsweredCall(q, s, a, n) \in CallType
  BY <1>1, AnsweredType
<1>3. /\ AnsweredCall(q, s, a, n).status = s
      /\ AnsweredCall(q, s, a, n).pair = n
      /\ AnsweredCall(q, s, a, n).kind = q.kind
      /\ AnsweredCall(q, s, a, n).access = q.access
      /\ AnsweredCall(q, s, a, n).body = q.body
      /\ AnsweredCall(q, s, a, n).tab = q.tab
      /\ AnsweredCall(q, s, a, n).phase = IF q.phase = "unheard" THEN "settled" ELSE "answered"
  BY <1>1, AnsweredFields
<1> QED
  BY <1>1, <1>2, <1>3 DEF GoodCall

LEMMA AnswerIsGood ==
  ASSUME TypeInv, NEW c \in Call, NEW s \in {0, 200, 400, 401},
         NEW a \in Account \cup {NoAccount}, NEW len \in Nat, NEW n \in 0..len,
         Len(issued) <= len, call[c].kind = "login" /\ s = 200 => n # 0, AtServer(c)
  PROVE  GoodCalls(Answer(c, s, a, n), len)
<1>1. Len(issued) \in Nat
  BY TypeParts
<1>2. GoodCalls(call, len)
  BY <1>1, TypeParts, MoreTokens
<1>3. GoodCall(call[c], len) /\ call[c].phase \in {"sent", "unheard"}
  BY <1>2 DEF GoodCalls, AtServer
<1> DEFINE q == call[c]
<1>4. GoodCall(q, len) /\ q.phase \in {"sent", "unheard"} /\ (q.kind = "login" /\ s = 200 => n # 0)
  BY <1>3
<1> HIDE DEF q
<1>5. GoodCall(AnsweredCall(q, s, a, n), len)
  BY <1>4, AnsweredGood
<1>6. GoodCall(AnsweredCall(call[c], s, a, n), len)
  BY <1>5 DEF q
<1> QED
  BY <1>2, <1>6, AnswerSays, CallExcept

\* One field of a call set to a value of its type.
LEMMA CallField ==
  ASSUME NEW q \in CallType
  PROVE  /\ \A x \in Phase : [q EXCEPT !.phase = x] \in CallType
         /\ \A x \in Kind : [q EXCEPT !.kind = x] \in CallType
         /\ \A x \in Tab \cup {NoTab} : [q EXCEPT !.tab = x] \in CallType
         /\ \A x \in Account \cup {NoAccount} : [q EXCEPT !.by = x] \in CallType
         /\ \A x \in Nat : [q EXCEPT !.access = x] \in CallType
         /\ \A x \in Nat : [q EXCEPT !.body = x] \in CallType
         /\ \A x \in BOOLEAN : [q EXCEPT !.good = x] \in CallType
         /\ \A x \in BOOLEAN : [q EXCEPT !.retry = x] \in CallType
         /\ \A x \in {0, 200, 400, 401} : [q EXCEPT !.status = x] \in CallType
         /\ \A x \in Nat : [q EXCEPT !.times = x] \in CallType
<1>1. \A x \in Phase : [q EXCEPT !.phase = x] \in CallType
  BY DEF CallType
<1>2. \A x \in Kind : [q EXCEPT !.kind = x] \in CallType
  BY DEF CallType
<1>3. \A x \in Tab \cup {NoTab} : [q EXCEPT !.tab = x] \in CallType
  BY DEF CallType
<1>4. \A x \in Account \cup {NoAccount} : [q EXCEPT !.by = x] \in CallType
  BY DEF CallType
<1>5. \A x \in Nat : [q EXCEPT !.access = x] \in CallType
  BY DEF CallType
<1>6. \A x \in Nat : [q EXCEPT !.body = x] \in CallType
  BY DEF CallType
<1>7. \A x \in BOOLEAN : [q EXCEPT !.good = x] \in CallType
  BY DEF CallType
<1>8. \A x \in BOOLEAN : [q EXCEPT !.retry = x] \in CallType
  BY DEF CallType
<1>9. \A x \in {0, 200, 400, 401} : [q EXCEPT !.status = x] \in CallType
  BY DEF CallType
<1>10. \A x \in Nat : [q EXCEPT !.times = x] \in CallType
  BY DEF CallType
<1> QED
  BY <1>1, <1>2, <1>3, <1>4, <1>5, <1>6, <1>7, <1>8, <1>9, <1>10

LEMMA BlankType == Blank \in CallType
BY DEF Blank, CallType, Phase, Kind

LEMMA SentFields ==
  ASSUME NEW t, NEW k, NEW body, NEW good
  PROVE  LET q == Sent(t, k, body, good)
         IN  /\ q.phase = "sent" /\ q.kind = k /\ q.tab = t /\ q.access = stored.access
             /\ q.body = body /\ q.status = 0 /\ q.pair = 0 /\ q.times = 0 /\ ~q.retry
BY DEF Sent, Blank

LEMMA SentGood ==
  ASSUME TypeInv, NEW t \in Tab, NEW k \in Kind, NEW body \in Token, NEW good \in BOOLEAN,
         k = "logout" => body # 0
  PROVE  GoodCall(Sent(t, k, body, good), Len(issued))
<1> DEFINE q1 == [Blank EXCEPT !.phase = "sent"]
<1> DEFINE q2 == [q1 EXCEPT !.kind = k]
<1> DEFINE q3 == [q2 EXCEPT !.tab = t]
<1> DEFINE q4 == [q3 EXCEPT !.by = page[t].shown]
<1> DEFINE q5 == [q4 EXCEPT !.access = stored.access]
<1> DEFINE q6 == [q5 EXCEPT !.body = body]
<1> DEFINE q7 == [q6 EXCEPT !.good = good]
<1>1. /\ stored.access \in 0..Len(issued) /\ Len(issued) \in Nat
      /\ page[t].shown \in Account \cup {NoAccount}
  BY TypeParts DEF StoredType, PageType
<1>2. body \in 0..Len(issued) /\ stored.access \in Nat /\ body \in Nat
  BY <1>1 DEF Token
<1>3. Sent(t, k, body, good) = q7
  BY DEF Sent, Blank
<1>4. "sent" \in Phase
  BY DEF Phase
<1> HIDE DEF q1, q2, q3, q4, q5, q6, q7
<1>5. q1 \in CallType
  BY <1>4, BlankType, CallField DEF q1
<1>6. q2 \in CallType
  BY <1>5, CallField DEF q2
<1>7. q3 \in CallType
  BY <1>6, CallField DEF q3
<1>8. q4 \in CallType
  BY <1>1, <1>7 DEF q4, CallType
<1>9. q5 \in CallType
  BY <1>2, <1>8, CallField DEF q5
<1>10. q6 \in CallType
  BY <1>2, <1>9, CallField DEF q6
<1>11. q7 \in CallType
  BY <1>10 DEF q7, CallType
<1> QED
  BY <1>1, <1>2, <1>3, <1>11, SentFields DEF GoodCall

LEMMA OverFields ==
  ASSUME NEW c
  PROVE  LET q == Over(c)
         IN  /\ q.phase = "settled" /\ q.kind = call[c].kind /\ q.access = 0
             /\ q.body = call[c].body /\ q.status = 0 /\ q.pair = 0 /\ q.times = 0 /\ ~q.retry
BY DEF Over, Blank

LEMMA OverGood ==
  ASSUME NEW len \in Nat, NEW c \in Call, GoodCall(call[c], len), call[c].phase # "idle"
  PROVE  GoodCall(Over(c), len)
<1> DEFINE q1 == [Blank EXCEPT !.phase = "settled"]
<1> DEFINE q2 == [q1 EXCEPT !.kind = call[c].kind]
<1> DEFINE q3 == [q2 EXCEPT !.body = call[c].body]
<1>1. Over(c) = q3
  BY DEF Over, Blank
<1>2. call[c].kind \in Kind /\ call[c].body \in Nat /\ "settled" \in Phase
  BY DEF GoodCall, CallType, Phase
<1> HIDE DEF q1, q2, q3
<1>3. q1 \in CallType
  BY <1>2, BlankType, CallField DEF q1
<1>4. q2 \in CallType
  BY <1>2, <1>3, CallField DEF q2
<1>5. q3 \in CallType
  BY <1>2, <1>4, CallField DEF q3
<1> QED
  BY <1>1, <1>5, OverFields DEF GoodCall

LEMMA DroppedGood ==
  ASSUME TypeInv, NEW t \in Tab
  PROVE  GoodCalls(Dropped(t), Len(issued))
<1>1. Len(issued) \in Nat /\ GoodCalls(call, Len(issued))
  BY TypeParts
<1>2. ASSUME NEW c \in Call
      PROVE  GoodCall(Dropped(t)[c], Len(issued))
  <2>0. GoodCall(call[c], Len(issued))
    BY <1>1 DEF GoodCalls
  <2>1. CASE call[c].tab = t /\ call[c].phase = "sent"
    <3>1. Dropped(t)[c] = [call[c] EXCEPT !.phase = "unheard"]
      BY <2>1 DEF Dropped
    <3>2. [call[c] EXCEPT !.phase = "unheard"] \in CallType
      BY <2>0 DEF GoodCall, CallType, Phase
    <3> QED
      BY <2>0, <2>1, <3>1, <3>2 DEF GoodCall, CallType
  <2>2. CASE call[c].tab = t /\ call[c].phase \in {"answered", "renewing"}
    BY <1>1, <2>0, <2>2, OverGood DEF Dropped
  <2>3. CASE call[c].tab # t \/ call[c].phase \notin {"sent", "answered", "renewing"}
    BY <2>0, <2>3 DEF Dropped
  <2> QED
    BY <2>1, <2>2, <2>3
<1>3. Dropped(t) \in [Call -> CallType]
  BY <1>2 DEF Dropped, GoodCall
<1> QED
  BY <1>2, <1>3 DEF GoodCalls

NoRenewal == [phase |-> "none", token |-> 0, pair |-> 0]

LEMMA NoRenewalGood ==
  ASSUME NEW len \in Nat
  PROVE  GoodRenewal(NoRenewal, len)
BY DEF GoodRenewal, NoRenewal, RenewalType

LEMMA DropRenewalGood ==
  ASSUME TypeInv, NEW t \in Tab, DropRenewal(t)
  PROVE  GoodRenewals(renewal', Len(issued)) /\ GoodOrphans(orphans', Len(issued))
<1>1. /\ Len(issued) \in Nat /\ GoodRenewals(renewal, Len(issued))
      /\ GoodOrphans(orphans, Len(issued))
  BY TypeParts
<1>2. GoodRenewals(renewal', Len(issued))
  BY <1>1, NoRenewalGood, RenewalExcept DEF DropRenewal, NoRenewal
<1>3. GoodOrphans(orphans', Len(issued))
  <2>1. CASE renewal[t].phase \in {"sent", "checked"}
    <3> DEFINE o == [token |-> renewal[t].token, checked |-> renewal[t].phase = "checked"]
    <3>1. /\ renewal[t].token \in 0..Len(issued) /\ renewal[t].token # 0
          /\ renewal[t].token \in Nat
      BY <1>1, <2>1 DEF GoodRenewals, GoodRenewal, RenewalType
    <3>2. o \in OrphanType /\ o.token = renewal[t].token
      BY <3>1 DEF OrphanType
    <3>3. orphans' = orphans \cup {o}
      BY <2>1 DEF DropRenewal
    <3> HIDE DEF o
    <3> QED
      BY <1>1, <3>1, <3>2, <3>3 DEF GoodOrphans
  <2>2. CASE renewal[t].phase \notin {"sent", "checked"}
    BY <1>1, <2>2 DEF DropRenewal
  <2> QED
    BY <2>1, <2>2
<1> QED
  BY <1>2, <1>3

\* Token pairs are only added, and keep their login and their account; and no
\* account comes back.
Keeps ==
  /\ issued' \in Seq(PairType)
  /\ Len(issued) <= Len(issued')
  /\ \A n \in 1..Len(issued) : /\ issued'[n].login = issued[n].login
                             /\ issued'[n].account = issued[n].account
  /\ active' \subseteq active

LEMMA KeepsAll ==
  ASSUME TypeInv, UNCHANGED <<issued, active>>
  PROVE  Keeps
BY TypeParts DEF Keeps

LEMMA NewPair ==
  ASSUME NEW q \in Seq(PairType), NEW l \in Call, NEW a \in Account
  PROVE  LET s == Append(q, Pair(l, a))
         IN  /\ s \in Seq(PairType)
             /\ Len(s) = Len(q) + 1
             /\ \A n \in 1..Len(q) : s[n] = q[n]
             /\ s[Len(q) + 1] = Pair(l, a)
BY AppendProperties DEF Pair, PairType

LEMMA ChangedPair ==
  ASSUME NEW q \in Seq(PairType), NEW n \in 1..Len(q), NEW p \in PairType
  PROVE  LET s == [q EXCEPT ![n] = p]
         IN  /\ s \in Seq(PairType)
             /\ Len(s) = Len(q)
             /\ \A m \in 1..Len(q) : s[m] = IF m = n THEN p ELSE q[m]
BY ExceptSeq

-----------------------------------------------------------------------------
(* Every step keeps the types, and keeps the pairs it finds. *)

\* A step of the tables of the browser alone.
LEMMA BrowserTypes ==
  ASSUME TypeInv, UNCHANGED <<issued, active>>,
         stored' \in StoredType(Len(issued)), page' \in [Tab -> PageType],
         GoodCalls(call', Len(issued)), GoodRenewals(renewal', Len(issued)),
         GoodOrphans(orphans', Len(issued))
  PROVE  TypeInv' /\ Keeps
BY KeepsAll, TypePartsNext, TypeParts

LEMMA BadLoginGood ==
  ASSUME TypeInv, NEW c \in Call, AtServer(c)
  PROVE  GoodCalls(Answer(c, 401, NoAccount, 0), Len(issued))
<1>1. Len(issued) \in Nat /\ 401 # 200
  BY TypeParts
<1>2. GoodCalls(call, Len(issued)) /\ GoodCall(call[c], Len(issued))
  BY TypeParts DEF GoodCalls
<1>3. ASSUME NEW s \in {0, 200, 400, 401}, s # 200
      PROVE  GoodCall(AnsweredCall(call[c], s, NoAccount, 0), Len(issued))
  BY <1>1, <1>2, <1>3, AnsweredGood DEF AtServer
<1>4. GoodCall(AnsweredCall(call[c], 401, NoAccount, 0), Len(issued))
  BY <1>1, <1>3
<1> QED
  BY <1>1, <1>2, <1>4, AnswerSays, CallExcept

LEMMA ServeLoginTypes ==
  ASSUME TypeInv, NEW c \in Call, ServeLogin(c)
  PROVE  TypeInv' /\ Keeps
<1> DEFINE len == Len(issued)
<1>0. len \in Nat /\ issued \in Seq(PairType)
  BY TypeParts
<1>1. CASE \E a \in active : /\ issued' = Append(issued, Pair(c, a))
                              /\ call' = Answer(c, 200, a, len + 1)
  <2>1. PICK a \in Account : /\ issued' = Append(issued, Pair(c, a))
                             /\ call' = Answer(c, 200, a, len + 1)
    BY <1>1, TypeParts
  <2>2. /\ issued' \in Seq(PairType) /\ Len(issued') = len + 1
        /\ \A n \in 1..len : issued'[n] = issued[n]
    BY <1>0, <2>1, NewPair
  <2>3. Keeps
    BY <1>0, <2>2 DEF Keeps, ServeLogin
  <2>4. len + 1 \in 0..(len + 1) /\ len + 1 # 0 /\ len <= len + 1 /\ len + 1 \in Nat
    BY <1>0
  <2>5. GoodCalls(call', len + 1)
    BY <2>1, <2>4, AnswerIsGood DEF ServeLogin
  <2>6. /\ stored \in StoredType(len + 1) /\ GoodRenewals(renewal, len + 1)
        /\ GoodOrphans(orphans, len + 1)
    BY <1>0, <2>4, TypeParts, MoreTokens
  <2>7. UNCHANGED <<stored, page, renewal, orphans, active>>
    BY DEF ServeLogin
  <2> QED
    BY <2>2, <2>3, <2>5, <2>6, <2>7, TypeParts, TypePartsNext
<1>2. CASE call' = Answer(c, 401, NoAccount, 0) /\ UNCHANGED issued
  <2>1. call' = Answer(c, 401, NoAccount, 0) /\ UNCHANGED <<issued, stored, page, renewal, orphans, active>>
    BY <1>2 DEF ServeLogin
  <2>4. GoodCalls(call', len)
    BY <2>1, BadLoginGood DEF ServeLogin
  <2> QED
    BY <1>0, <2>1, <2>4, BrowserTypes, TypeParts
<1> QED
  BY <1>1, <1>2 DEF ServeLogin

LEMMA RefuseTypes ==
  ASSUME TypeInv, NEW c \in Call, Refuse(c)
  PROVE  TypeInv' /\ Keeps
<1>0. Len(issued) \in Nat
  BY TypeParts
<1>1. GoodCalls(call', Len(issued))
  BY <1>0, AnswerIsGood DEF Refuse
<1> QED
  BY <1>1, BrowserTypes, TypeParts DEF Refuse

LEMMA AuthenticatedType ==
  ASSUME TypeInv, NEW n \in Token, Authenticated(n) # NoAccount
  PROVE  Authenticated(n) \in Account /\ n # 0 /\ issued[n].access = "live"
<1>1. n # 0 /\ issued[n].access = "live"
  BY DEF Authenticated
<1>2. issued[n] \in PairType
  BY <1>1, TypeParts, ElementOfSeq DEF Token
<1> QED
  BY <1>1, <1>2 DEF Authenticated, PairType

LEMMA ServeTypes ==
  ASSUME TypeInv, NEW c \in Call, Serve(c)
  PROVE  TypeInv' /\ Keeps
<1> DEFINE a == Authenticated(call[c].access)
<1> DEFINE q == AnsweredCall(call[c], 200, a, 0)
<1>0. Len(issued) \in Nat /\ GoodCalls(call, Len(issued))
  BY TypeParts
<1>1. a \in Account
  BY <1>0, AuthenticatedType DEF Serve, GoodCalls, GoodCall, Token
<1>2. call[c].phase \in {"sent", "unheard"} /\ call[c].kind # "login"
  BY DEF Serve, AtServer
<1>3. GoodCall(q, Len(issued))
  BY <1>0, <1>1, <1>2, AnsweredGood DEF GoodCalls
<1> HIDE DEF a, q
<1>4. q \in CallType /\ q.times + 1 \in Nat
  BY <1>3 DEF GoodCall, CallType
<1>5. [q EXCEPT !.times = q.times + 1] \in CallType
  BY <1>4, CallField
<1>6. GoodCall([q EXCEPT !.times = q.times + 1], Len(issued))
  BY <1>3, <1>4, <1>5 DEF GoodCall, CallType
<1>7. Answer(c, 200, a, 0) = [call EXCEPT ![c] = q]
  BY AnswerSays DEF q
<1>8. call' = [call EXCEPT ![c] = [q EXCEPT !.times = q.times + 1]]
  BY <1>0, <1>7 DEF Serve, a, GoodCalls
<1>9. GoodCalls(call', Len(issued))
  BY <1>0, <1>6, <1>8, CallExcept
<1> QED
  BY <1>9, BrowserTypes, TypeParts DEF Serve

\* A refresh token is spent or expires: its pair changes in one field.
LEMMA RefreshChanged ==
  ASSUME TypeInv, NEW n \in Token, n # 0, NEW v \in {"live", "spent", "expired"},
         issued' = [issued EXCEPT ![n].refresh = v], UNCHANGED active
  PROVE  /\ Keeps /\ Len(issued') = Len(issued)
         /\ \A m \in 1..Len(issued) :
              /\ issued'[m].access = issued[m].access
              /\ issued'[m].account = issued[m].account
              /\ issued'[m].refresh = IF m = n THEN v ELSE issued[m].refresh
<1>1. issued \in Seq(PairType) /\ Len(issued) \in Nat /\ n \in 1..Len(issued)
  BY TypeParts DEF Token
<1>2. issued[n] \in PairType
  BY <1>1, ElementOfSeq
<1>3. [issued[n] EXCEPT !.refresh = v] \in PairType
  BY <1>2 DEF PairType
<1>4. issued' = [issued EXCEPT ![n] = [issued[n] EXCEPT !.refresh = v]]
  BY <1>1
<1> DEFINE p == [issued[n] EXCEPT !.refresh = v]
<1>5. /\ p \in PairType /\ p.login = issued[n].login /\ p.access = issued[n].access
      /\ p.account = issued[n].account /\ p.refresh = v
  BY <1>2, <1>3 DEF PairType
<1>6. issued' = [issued EXCEPT ![n] = p]
  BY <1>4
<1> HIDE DEF p
<1>7. /\ issued' \in Seq(PairType) /\ Len(issued') = Len(issued)
      /\ \A m \in 1..Len(issued) : issued'[m] = IF m = n THEN p ELSE issued[m]
  BY <1>1, <1>5, <1>6, ChangedPair
<1> QED
  BY <1>1, <1>5, <1>7 DEF Keeps

LEMMA AccessChanged ==
  ASSUME TypeInv, NEW n \in Token, n # 0, ExpireAccess(n)
  PROVE  /\ Keeps /\ Len(issued') = Len(issued)
         /\ \A m \in 1..Len(issued) :
              /\ issued'[m].refresh = issued[m].refresh
              /\ m # n => issued'[m].access = issued[m].access
<1>1. issued \in Seq(PairType) /\ Len(issued) \in Nat /\ n \in 1..Len(issued)
  BY TypeParts DEF Token
<1>2. issued[n] \in PairType
  BY <1>1, ElementOfSeq
<1> DEFINE p == [issued[n] EXCEPT !.access = "expired"]
<1>3. /\ p \in PairType /\ p.login = issued[n].login /\ p.account = issued[n].account
      /\ p.refresh = issued[n].refresh
  BY <1>2 DEF PairType
<1>4. issued' = [issued EXCEPT ![n] = p] /\ UNCHANGED active
  BY <1>1 DEF ExpireAccess
<1> HIDE DEF p
<1>5. /\ issued' \in Seq(PairType) /\ Len(issued') = Len(issued)
      /\ \A m \in 1..Len(issued) : issued'[m] = IF m = n THEN p ELSE issued[m]
  BY <1>1, <1>3, <1>4, ChangedPair
<1> QED
  BY <1>1, <1>3, <1>4, <1>5 DEF Keeps

\* A rotation spends a live token and adds a pair of the same login.
LEMMA RotatedPairs ==
  ASSUME TypeInv, NEW n \in Token, n # 0, issued' = Rotated(n), UNCHANGED active
  PROVE  /\ Keeps /\ Len(issued') = Len(issued) + 1
         /\ \A m \in 1..Len(issued) :
              /\ issued'[m].access = issued[m].access
              /\ m # n => issued'[m].refresh = issued[m].refresh
         /\ issued'[n].refresh # "live"
         /\ issued'[Len(issued) + 1] = Pair(issued[n].login, issued[n].account)
<1> DEFINE s == [issued EXCEPT ![n].refresh = IF @ = "live" THEN "spent" ELSE @]
<1> DEFINE v == IF issued[n].refresh = "live" THEN "spent" ELSE issued[n].refresh
<1> DEFINE p == [issued[n] EXCEPT !.refresh = v]
<1>1. issued \in Seq(PairType) /\ Len(issued) \in Nat /\ n \in 1..Len(issued)
  BY TypeParts DEF Token
<1>2. issued[n] \in PairType
  BY <1>1, ElementOfSeq
<1>3. v \in {"spent", "expired"}
  BY <1>2 DEF PairType
<1>4. s = [issued EXCEPT ![n] = p]
  BY <1>1
<1>5. issued' = Append(s, Pair(issued[n].login, issued[n].account))
  BY DEF Rotated
<1> HIDE DEF s, v
<1>6. /\ p \in PairType /\ p.login = issued[n].login /\ p.access = issued[n].access
      /\ p.account = issued[n].account /\ p.refresh # "live"
  BY <1>2, <1>3 DEF PairType
<1> HIDE DEF p
<1>7. /\ s \in Seq(PairType) /\ Len(s) = Len(issued)
      /\ \A m \in 1..Len(issued) : s[m] = IF m = n THEN p ELSE issued[m]
  BY <1>1, <1>4, <1>6, ChangedPair
<1>8. issued[n].login \in Call /\ issued[n].account \in Account
  BY <1>2 DEF PairType
<1>9. /\ issued' \in Seq(PairType) /\ Len(issued') = Len(issued) + 1
      /\ \A m \in 1..Len(issued) : issued'[m] = s[m]
      /\ issued'[Len(issued) + 1] = Pair(issued[n].login, issued[n].account)
  BY <1>1, <1>5, <1>7, <1>8, NewPair
<1> QED
  BY <1>1, <1>6, <1>7, <1>9 DEF Keeps

LEMMA ServeLogoutTypes ==
  ASSUME TypeInv, NEW c \in Call, ServeLogout(c)
  PROVE  TypeInv' /\ Keeps
<1> DEFINE s == IF Usable(call[c].body) THEN 200 ELSE 400
<1>0. Len(issued) \in Nat /\ GoodCalls(call, Len(issued))
  BY TypeParts
<1>1. AtServer(c) /\ call[c].kind = "logout" /\ call[c].body \in Token /\ call[c].body # 0
  BY <1>0 DEF ServeLogout, GoodCalls, GoodCall, Token, AtServer
<1>2. s \in {0, 200, 400, 401}
  OBVIOUS
<1>3. call' = Answer(c, s, NoAccount, 0) /\ UNCHANGED <<stored, page, renewal, orphans, active>>
  BY DEF ServeLogout
<1> HIDE DEF s
<1>4. GoodCalls(Answer(c, s, NoAccount, 0), Len(issued))
  BY <1>0, <1>1, <1>2, AnswerIsGood
<1>5. Keeps /\ Len(issued') = Len(issued)
  <2>1. CASE Usable(call[c].body)
    BY <1>1, <1>3, <2>1, RefreshChanged DEF ServeLogout
  <2>2. CASE ~Usable(call[c].body)
    BY <1>3, <2>2, KeepsAll DEF ServeLogout
  <2> QED
    BY <2>1, <2>2
<1> QED
  BY <1>3, <1>4, <1>5, TypeParts, TypePartsNext DEF Keeps

LEMMA RotateTypes ==
  ASSUME TypeInv, NEW t \in Tab, Rotate(t)
  PROVE  TypeInv' /\ Keeps
<1> DEFINE len == Len(issued)
<1>0. len \in Nat /\ GoodRenewals(renewal, len)
  BY TypeParts
<1>1. renewal[t].token \in Token /\ renewal[t].token # 0
  BY <1>0 DEF Rotate, GoodRenewals, GoodRenewal, Token
<1>2. Keeps /\ Len(issued') = len + 1
  BY <1>1, RotatedPairs DEF Rotate
<1> DEFINE q == [renewal[t] EXCEPT !.phase = "yes", !.pair = len + 1]
<1>3. GoodRenewal(q, len + 1)
  <2>1. renewal[t] \in RenewalType /\ renewal[t].token \in 0..(len + 1) /\ renewal[t].token # 0
    BY <1>0, <1>1 DEF GoodRenewals, GoodRenewal, Token
  <2>2. [renewal[t] EXCEPT !.phase = "yes"] \in RenewalType
    BY <2>1 DEF RenewalType
  <2>3. q = [[renewal[t] EXCEPT !.phase = "yes"] EXCEPT !.pair = len + 1]
    BY <2>1 DEF RenewalType
  <2>4. q \in RenewalType
    <3>1. len + 1 \in Nat
      BY <1>0
    <3>2. \A x \in RenewalType : [x EXCEPT !.pair = len + 1] \in RenewalType
      BY <3>1 DEF RenewalType
    <3>3. [[renewal[t] EXCEPT !.phase = "yes"] EXCEPT !.pair = len + 1] \in RenewalType
      BY <2>2, <3>2
    <3> QED
      BY <2>3, <3>3
  <2>5. q.token = renewal[t].token /\ q.pair = len + 1
    BY <2>1 DEF RenewalType
  <2> HIDE DEF q
  <2> QED
    BY <1>0, <2>1, <2>4, <2>5 DEF GoodRenewal
<1>4. /\ renewal' = [renewal EXCEPT ![t] = q]
      /\ UNCHANGED <<stored, page, call, orphans, active>>
  BY <1>2 DEF Rotate
<1> HIDE DEF q
<1>5. len + 1 \in Nat /\ len <= len + 1
  BY <1>0
<1>6. /\ GoodCalls(call, len + 1) /\ GoodRenewals(renewal, len + 1) /\ GoodOrphans(orphans, len + 1)
      /\ stored \in StoredType(len + 1)
  BY <1>0, <1>5, TypeParts, MoreTokens
<1>7. GoodRenewals(renewal', len + 1)
  BY <1>3, <1>4, <1>5, <1>6, RenewalExcept
<1> QED
  BY <1>2, <1>4, <1>6, <1>7, TypeParts, TypePartsNext DEF Keeps

LEMMA RotateOrphanTypes ==
  ASSUME TypeInv, NEW o \in orphans, RotateOrphan(o)
  PROVE  TypeInv' /\ Keeps
<1> DEFINE len == Len(issued)
<1>0. len \in Nat /\ GoodOrphans(orphans, len)
  BY TypeParts
<1>1. o.token \in Token /\ o.token # 0
  BY <1>0 DEF GoodOrphans, Token
<1>2. Keeps /\ Len(issued') = len + 1
  BY <1>1, RotatedPairs DEF RotateOrphan
<1>3. len + 1 \in Nat /\ len <= len + 1
  BY <1>0
<1>4. /\ GoodCalls(call, len + 1) /\ GoodRenewals(renewal, len + 1) /\ GoodOrphans(orphans, len + 1)
      /\ stored \in StoredType(len + 1)
  BY <1>0, <1>3, TypeParts, MoreTokens
<1>5. GoodOrphans(orphans', len + 1)
  BY <1>4 DEF RotateOrphan, GoodOrphans
<1> QED
  BY <1>2, <1>4, <1>5, TypeParts, TypePartsNext DEF Keeps, RotateOrphan

LEMMA RenewalServerTypes ==
  ASSUME TypeInv,
         (\E t \in Tab : CheckRenewal(t) \/ LoseRenewal(t)) \/ (\E o \in orphans : CheckOrphan(o))
  PROVE  TypeInv' /\ Keeps
<1>0. Len(issued) \in Nat /\ GoodRenewals(renewal, Len(issued)) /\ GoodOrphans(orphans, Len(issued))
  BY TypeParts
<1>1. ASSUME NEW t \in Tab, NEW p \in {"sent", "checked", "no"}, renewal[t].phase # "none",
             renewal' = [renewal EXCEPT ![t].phase = p],
             UNCHANGED <<issued, stored, page, call, orphans, active>>
      PROVE  TypeInv' /\ Keeps
  <2> DEFINE q == [renewal[t] EXCEPT !.phase = p]
  <2>1. GoodRenewal(q, Len(issued))
    BY <1>0, <1>1 DEF GoodRenewals, GoodRenewal, RenewalType
  <2>2. renewal' = [renewal EXCEPT ![t] = q]
    BY <1>0, <1>1 DEF GoodRenewals
  <2> HIDE DEF q
  <2>3. GoodRenewals(renewal', Len(issued))
    BY <1>0, <2>1, <2>2, RenewalExcept
  <2> QED
    BY <1>1, <2>3, BrowserTypes, TypeParts
<1>2. ASSUME NEW t \in Tab, CheckRenewal(t) PROVE TypeInv' /\ Keeps
  BY <1>1, <1>2 DEF CheckRenewal
<1>3. ASSUME NEW t \in Tab, LoseRenewal(t) PROVE TypeInv' /\ Keeps
  BY <1>1, <1>3 DEF LoseRenewal
<1>4. ASSUME NEW o \in orphans, CheckOrphan(o) PROVE TypeInv' /\ Keeps
  <2>1. o \in OrphanType /\ o.token \in 0..Len(issued) /\ o.token # 0
    BY <1>0 DEF GoodOrphans
  <2>2. [o EXCEPT !.checked = TRUE] \in OrphanType /\ [o EXCEPT !.checked = TRUE].token = o.token
    BY <2>1 DEF OrphanType
  <2>3. GoodOrphans(orphans', Len(issued))
    BY <1>0, <1>4, <2>1, <2>2 DEF CheckOrphan, GoodOrphans
  <2> QED
    BY <1>4, <2>3, BrowserTypes, TypeParts DEF CheckOrphan
<1> QED
  BY <1>2, <1>3, <1>4

LEMMA ClockTypes ==
  ASSUME TypeInv, NEW n \in 1..Len(issued), ExpireAccess(n) \/ ExpireRefresh(n)
  PROVE  TypeInv' /\ Keeps
<1>0. Len(issued) \in Nat /\ n \in Token /\ n # 0
  BY TypeParts DEF Token
<1>1. Keeps /\ Len(issued') = Len(issued)
  BY <1>0, AccessChanged, RefreshChanged DEF ExpireRefresh
<1>2. UNCHANGED <<stored, page, call, renewal, orphans, active>>
  BY DEF ExpireAccess, ExpireRefresh
<1> QED
  BY <1>1, <1>2, TypeParts, TypePartsNext DEF Keeps

LEMMA LoseCallTypes ==
  ASSUME TypeInv, NEW c \in Call, LoseCall(c)
  PROVE  TypeInv' /\ Keeps
<1> DEFINE q == [call[c] EXCEPT !.phase = "answered", !.status = 0]
<1>0. Len(issued) \in Nat /\ GoodCalls(call, Len(issued)) /\ GoodCall(call[c], Len(issued))
  BY TypeParts DEF GoodCalls
<1>1. /\ q.phase = "answered" /\ q.status = 0 /\ q.kind = call[c].kind
      /\ q.access = call[c].access /\ q.body = call[c].body /\ q.pair = call[c].pair
      /\ q.tab = call[c].tab
  BY <1>0 DEF GoodCall, CallType
<1>2. q = [[call[c] EXCEPT !.phase = "answered"] EXCEPT !.status = 0]
  BY <1>0 DEF GoodCall, CallType
<1>3. [call[c] EXCEPT !.phase = "answered"] \in CallType
  BY <1>0 DEF GoodCall, CallType, Phase
<1>4. q \in CallType
  <2>1. \A x \in CallType : [x EXCEPT !.status = 0] \in CallType
    BY DEF CallType
  <2> QED
    BY <1>2, <1>3, <2>1
<1>5. call' = [call EXCEPT ![c] = q] /\ call[c].phase \in {"sent", "answered"}
  BY DEF LoseCall
<1> HIDE DEF q
<1>6. GoodCall(q, Len(issued))
  BY <1>0, <1>1, <1>4, <1>5 DEF GoodCall
<1>7. GoodCalls(call', Len(issued))
  BY <1>0, <1>5, <1>6, CallExcept
<1> QED
  BY <1>7, BrowserTypes, TypeParts DEF LoseCall

LEMMA SentTypes ==
  ASSUME TypeInv, NEW t \in Tab, NEW c \in Call,
         StartWork(t, c) \/ StartLogout(t, c) \/ (\E good \in BOOLEAN : SubmitLogin(t, c, good))
  PROVE  TypeInv' /\ Keeps
<1>0. Len(issued) \in Nat /\ GoodCalls(call, Len(issued)) /\ stored.refresh \in Token /\ 0 \in Token
  BY TypeParts DEF StoredType, Token
<1>1. ASSUME NEW k \in Kind, NEW body \in Token, NEW good \in BOOLEAN, k = "logout" => body # 0,
             call' = [call EXCEPT ![c] = Sent(t, k, body, good)],
             UNCHANGED <<issued, stored, page, renewal, orphans, active>>
      PROVE  TypeInv' /\ Keeps
  <2>1. GoodCall(Sent(t, k, body, good), Len(issued))
    BY <1>1, SentGood
  <2>2. GoodCalls(call', Len(issued))
    BY <1>0, <1>1, <2>1, CallExcept
  <2> QED
    BY <1>1, <2>2, BrowserTypes, TypeParts
<1>2. "work" \in Kind /\ "logout" \in Kind /\ "login" \in Kind
  BY DEF Kind
<1>3. CASE StartWork(t, c)
  BY <1>0, <1>1, <1>2, <1>3 DEF StartWork
<1>4. CASE StartLogout(t, c)
  BY <1>0, <1>1, <1>2, <1>4 DEF StartLogout
<1>5. CASE \E good \in BOOLEAN : SubmitLogin(t, c, good)
  BY <1>0, <1>1, <1>2, <1>5 DEF SubmitLogin
<1> QED
  BY <1>3, <1>4, <1>5

LEMMA LeavingType ==
  ASSUME TypeInv, NEW t
  PROVE  Leaving(t) \in [Tab -> PageType] /\ redirectToLogin(t) \in [Tab -> PageType]
BY TypeParts DEF Leaving, redirectToLogin, PageType

LEMMA ClearType ==
  ASSUME TypeInv
  PROVE  clear \in StoredType(Len(issued))
BY TypeParts DEF clear, StoredType

LEMMA SetTokensType ==
  ASSUME TypeInv, NEW n \in Token
  PROVE  /\ setTokens(n) \in StoredType(Len(issued))
         /\ setTokens(n).access = n /\ setTokens(n).refresh = n
<1>1. stored \in StoredType(Len(issued))
  BY TypeParts
<1>2. n \in 0..Len(issued)
  BY DEF Token
<1>3. [stored EXCEPT !.access = n] \in StoredType(Len(issued))
  BY <1>1, <1>2 DEF StoredType
<1>4. setTokens(n) = [[stored EXCEPT !.access = n] EXCEPT !.refresh = n]
  BY <1>1 DEF setTokens, StoredType
<1> QED
  BY <1>2, <1>3, <1>4 DEF StoredType

LEMMA PageTypes ==
  ASSUME TypeInv, NEW t \in Tab,
         LoadLogin(t) \/ (\E c \in Call : LoadApp(t, c)) \/ Navigate(t) \/ LogoutLocally(t)
  PROVE  TypeInv' /\ Keeps
<1>0. Len(issued) \in Nat /\ page \in [Tab -> PageType] /\ stored \in StoredType(Len(issued))
  BY TypeParts
<1>1. CASE LoadLogin(t)
  <2>1. page' \in [Tab -> PageType]
    BY <1>0, <1>1 DEF LoadLogin, PageType
  <2> QED
    BY <1>0, <1>1, <2>1, DroppedGood, DropRenewalGood, BrowserTypes DEF LoadLogin
<1>2. ASSUME NEW c \in Call, LoadApp(t, c) PROVE TypeInv' /\ Keeps
  <2> DEFINE q == [Sent(t, "me", 0, TRUE) EXCEPT !.by = stored.user]
  <2>1. GoodCall(Sent(t, "me", 0, TRUE), Len(issued))
    <3>1. "me" \in Kind /\ 0 \in Token /\ TRUE \in BOOLEAN /\ "me" # "logout"
      BY <1>0 DEF Kind, Token
    <3> QED
      BY <3>1, SentGood
  <2>2. GoodCall(q, Len(issued))
    <3> DEFINE r == Sent(t, "me", 0, TRUE)
    <3>1. GoodCall(r, Len(issued)) /\ r \in CallType
      BY <2>1 DEF GoodCall
    <3>2. q = [r EXCEPT !.by = stored.user]
      OBVIOUS
    <3> HIDE DEF r, q
    <3>3. stored.user \in Account \cup {NoAccount}
      BY <1>0 DEF StoredType
    <3>4. q \in CallType
      BY <3>1, <3>2, <3>3 DEF CallType
    <3>5. /\ q.phase = r.phase /\ q.kind = r.kind /\ q.body = r.body /\ q.access = r.access
          /\ q.pair = r.pair /\ q.status = r.status /\ q.tab = r.tab
      BY <3>1, <3>2 DEF CallType
    <3> QED
      BY <3>1, <3>4, <3>5 DEF GoodCall
  <2>3. call' = [Dropped(t) EXCEPT ![c] = q]
    BY <1>2 DEF LoadApp
  <2> HIDE DEF q
  <2>4. GoodCalls(call', Len(issued))
    BY <1>0, <2>2, <2>3, DroppedGood, CallExcept
  <2>5. page' \in [Tab -> PageType]
    BY <1>0, <1>2 DEF LoadApp, PageType, StoredType
  <2> QED
    BY <1>0, <1>2, <2>4, <2>5, DropRenewalGood, BrowserTypes DEF LoadApp
<1>3. CASE Navigate(t)
  BY <1>3, LeavingType, BrowserTypes, TypeParts DEF Navigate
<1>4. CASE LogoutLocally(t)
  BY <1>4, LeavingType, ClearType, BrowserTypes, TypeParts DEF LogoutLocally
<1> QED
  BY <1>1, <1>2, <1>3, <1>4

LEMMA AwaitRenewalTypes ==
  ASSUME TypeInv, NEW c \in Call, AwaitRenewal(c)
  PROVE  TypeInv' /\ Keeps
<1> DEFINE t == call[c].tab
<1> DEFINE q == [call[c] EXCEPT !.phase = "renewing"]
<1> DEFINE s == [phase |-> "sent", token |-> stored.refresh, pair |-> 0]
<1>0. /\ Len(issued) \in Nat /\ GoodCalls(call, Len(issued)) /\ GoodCall(call[c], Len(issued))
      /\ GoodRenewals(renewal, Len(issued)) /\ stored.refresh \in 0..Len(issued)
  BY TypeParts DEF GoodCalls, StoredType
<1>1. stored.refresh # 0 /\ call[c].phase = "answered"
  BY DEF AwaitRenewal, WantsRenewal
<1>2. GoodCall(q, Len(issued))
  BY <1>0, <1>1 DEF GoodCall, CallType, Phase
<1>3. GoodRenewal(s, Len(issued))
  BY <1>0, <1>1 DEF GoodRenewal, RenewalType
<1>4. /\ call' = [call EXCEPT ![c] = q]
      /\ renewal' = IF renewal[t].phase # "none" THEN renewal ELSE [renewal EXCEPT ![t] = s]
      /\ UNCHANGED <<issued, stored, page, orphans, active>>
  BY <1>0 DEF AwaitRenewal, GoodCalls
<1> HIDE DEF q, s, t
<1>5. GoodCalls(call', Len(issued))
  BY <1>0, <1>2, <1>4, CallExcept
<1>6. t \in Tab
  BY <1>0, <1>1 DEF t, GoodCall
<1>7. GoodRenewals(renewal', Len(issued))
  BY <1>0, <1>3, <1>4, <1>6, RenewalExcept
<1> QED
  BY <1>4, <1>5, <1>7, BrowserTypes, TypeParts

LEMMA RenewedTypes ==
  ASSUME TypeInv, NEW t \in Tab, Renewed(t) \/ NotRenewed(t)
  PROVE  TypeInv' /\ Keeps
<1>0. /\ Len(issued) \in Nat /\ GoodCalls(call, Len(issued))
      /\ GoodRenewals(renewal, Len(issued)) /\ renewal[t].pair \in Token
  BY TypeParts DEF GoodRenewals, GoodRenewal, Token
<1>1. GoodRenewals(renewal', Len(issued))
  <2>1. renewal' = [renewal EXCEPT ![t] = NoRenewal]
    BY DEF Renewed, NotRenewed, NoRenewal
  <2> QED
    BY <1>0, <2>1, NoRenewalGood, RenewalExcept
<1>2. CASE Renewed(t)
  <2>1. stored' \in StoredType(Len(issued)) /\ stored'.access \in Token
    BY <1>0, <1>2, SetTokensType DEF Renewed
  <2>2. ASSUME NEW c \in Call PROVE GoodCall(call'[c], Len(issued))
    <3> DEFINE q1 == [call[c] EXCEPT !.phase = "sent"]
    <3> DEFINE q2 == [q1 EXCEPT !.retry = TRUE]
    <3> DEFINE q3 == [q2 EXCEPT !.access = stored'.access]
    <3>0. GoodCall(call[c], Len(issued)) /\ stored'.access \in Nat /\ stored'.access \in 0..Len(issued)
      BY <1>0, <2>1 DEF GoodCalls, Token
    <3>1. q1 \in CallType
      BY <3>0 DEF GoodCall, CallType, Phase
    <3>2. q2 \in CallType
      <4>1. \A x \in BOOLEAN : [q1 EXCEPT !.retry = x] \in CallType
        BY <3>1, CallField
      <4> QED
        BY <4>1
    <3>3. q3 \in CallType
      <4>1. \A x \in CallType, n \in Nat : [x EXCEPT !.access = n] \in CallType
        BY DEF CallType
      <4> QED
        BY <3>0, <3>2, <4>1
    <3>4. CASE call[c].tab = t /\ call[c].phase = "renewing"
      <4>1. call'[c] = [call[c] EXCEPT !.phase = "sent", !.retry = TRUE, !.access = stored'.access]
        BY <1>2, <3>4 DEF Renewed
      <4>2. call'[c] = q3
        BY <3>0, <4>1 DEF GoodCall, CallType
      <4>3. /\ q3.body = call[c].body /\ q3.pair = call[c].pair /\ q3.access = stored'.access
            /\ q3.phase = "sent" /\ q3.tab = call[c].tab
        BY <3>0 DEF GoodCall, CallType
      <4>4. q3.kind = call[c].kind
        BY <3>0 DEF GoodCall, CallType
      <4> HIDE DEF q3
      <4> QED
        BY <3>0, <3>3, <3>4, <4>2, <4>3, <4>4 DEF GoodCall
    <3>5. CASE ~(call[c].tab = t /\ call[c].phase = "renewing")
      BY <1>2, <3>0, <3>5 DEF Renewed
    <3> QED
      BY <3>4, <3>5
  <2>3. GoodCalls(call', Len(issued))
    BY <1>2, <2>2 DEF Renewed, GoodCalls, GoodCall
  <2> QED
    BY <1>1, <1>2, <2>1, <2>3, BrowserTypes, TypeParts DEF Renewed
<1>3. CASE NotRenewed(t)
  <2>1. ASSUME NEW c \in Call PROVE GoodCall(call'[c], Len(issued))
    BY <1>0, <1>3, OverGood DEF NotRenewed, GoodCalls
  <2>2. GoodCalls(call', Len(issued))
    BY <1>3, <2>1 DEF NotRenewed, GoodCalls, GoodCall
  <2> QED
    BY <1>1, <1>3, <2>2, LeavingType, ClearType, BrowserTypes, TypeParts DEF NotRenewed
<1> QED
  BY <1>2, <1>3

LEMMA SettleTypes ==
  ASSUME TypeInv, NEW c \in Call,
         Expel(c) \/ LoggedIn(c) \/ Greeted(c) \/ LoggedOut(c) \/ Shown(c)
  PROVE  TypeInv' /\ Keeps
<1>0. /\ Len(issued) \in Nat /\ GoodCalls(call, Len(issued)) /\ GoodCall(call[c], Len(issued))
      /\ stored \in StoredType(Len(issued)) /\ page \in [Tab -> PageType]
  BY TypeParts DEF GoodCalls
<1>1. call[c].phase = "answered" /\ call' = [call EXCEPT ![c] = Over(c)]
      /\ UNCHANGED <<issued, renewal, orphans, active>>
  BY DEF Expel, LoggedIn, Greeted, LoggedOut, Shown, Settle
<1>2. GoodCalls(call', Len(issued))
  <2>1. GoodCall(Over(c), Len(issued))
    BY <1>0, <1>1, OverGood
  <2> QED
    BY <1>0, <1>1, <2>1, CallExcept
<1>3. call[c].answer \in Account \cup {NoAccount} /\ call[c].pair \in Token
  BY <1>0 DEF GoodCall, CallType, Token
<1>4. stored' \in StoredType(Len(issued))
  <2>1. CASE Expel(c)
    BY <2>1, ClearType DEF Expel
  <2>2. CASE LoggedIn(c)
    BY <1>3, <2>2, SetTokensType DEF LoggedIn, StoredType
  <2>3. CASE Greeted(c)
    BY <1>0, <1>3, <2>3 DEF Greeted, StoredType
  <2>4. CASE LoggedOut(c)
    BY <1>0, <2>4, ClearType DEF LoggedOut
  <2>5. CASE Shown(c)
    BY <1>0, <2>5 DEF Shown
  <2> QED
    BY <2>1, <2>2, <2>3, <2>4, <2>5
<1>5. page' \in [Tab -> PageType]
  <2>1. CASE Greeted(c)
    <3>1. call[c].tab \in Tab
      BY <1>0, <1>1 DEF GoodCall
    <3>2. [page[call[c].tab] EXCEPT !.shown = call[c].answer] \in PageType
      BY <1>0, <1>3, <3>1 DEF PageType
    <3>3. page' = [page EXCEPT ![call[c].tab] = [page[call[c].tab] EXCEPT !.shown = call[c].answer]]
      BY <1>0, <2>1, <3>1 DEF Greeted
    <3> QED
      BY <1>0, <3>1, <3>2, <3>3
  <2>2. CASE ~Greeted(c)
    BY <1>0, <2>2, LeavingType DEF Expel, LoggedIn, LoggedOut, Shown
  <2> QED
    BY <2>1, <2>2
<1> QED
  BY <1>1, <1>2, <1>4, <1>5, BrowserTypes, TypeParts

LEMMA StepTypes ==
  ASSUME TypeInv, Next
  PROVE  TypeInv' /\ Keeps
<1>1. CASE Server
  BY <1>1, ServeLoginTypes, RefuseTypes, ServeTypes, ServeLogoutTypes, RotateTypes,
     RotateOrphanTypes, RenewalServerTypes DEF Server
<1>2. CASE Browser
  BY <1>2, PageTypes, RenewedTypes, AwaitRenewalTypes, SettleTypes DEF Browser
<1>3. CASE Person
  BY <1>3, PageTypes, SentTypes DEF Person
<1>4. CASE World
  <2>1. ASSUME NEW a \in Account, Deactivate(a)
        PROVE  TypeInv' /\ Keeps
    BY <2>1, TypeParts, TypePartsNext DEF Deactivate, Keeps
  <2> QED
    BY <1>4, <2>1, LoseCallTypes, RenewalServerTypes, ClockTypes DEF World
<1> QED
  BY <1>1, <1>2, <1>3, <1>4 DEF Next

LEMMA TypeInvHolds == Spec => []TypeInv
<1>1. Init => TypeInv
  <2> SUFFICES ASSUME Init PROVE TypeInv
    OBVIOUS
  <2>1. issued \in Seq(PairType) /\ Len(issued) = 0
    BY DEF Init
  <2>2. GoodCalls(call, 0)
    <3>1. GoodCall(Blank, 0)
      BY BlankType DEF GoodCall, Blank
    <3> QED
      BY <3>1, BlankType DEF Init, GoodCalls
  <2>3. GoodRenewals(renewal, 0)
    BY NoRenewalGood DEF Init, GoodRenewals, GoodRenewal, NoRenewal
  <2>4. /\ GoodOrphans(orphans, 0) /\ stored \in StoredType(0) /\ page \in [Tab -> PageType]
        /\ active \subseteq Account
    BY DEF Init, GoodOrphans, StoredType, clear, PageType
  <2> QED
    BY <2>1, <2>2, <2>3, <2>4, TypeParts
<1>2. TypeInv /\ [Next]_vars => TypeInv'
  <2>1. TypeInv /\ UNCHANGED vars => TypeInv'
    BY TypeParts, TypePartsNext DEF vars
  <2> QED
    BY <2>1, StepTypes
<1> QED
  BY <1>1, <1>2, PTL DEF Spec

\* The variables keep their types, and every token a page, a call, a renewal
\* or the server refers to is one that was issued.
THEOREM TypeCorrect == Spec => []TypeOK
<1>1. TypeInv => TypeOK
  BY DEF TypeInv
<1> QED
  BY <1>1, TypeInvHolds, PTL


-----------------------------------------------------------------------------
(* At most once: a call that took effect is answered, and not with a 401, *)
(* so nothing sends it again.                                              *)

OnceCall(q) ==
  /\ q.times \in {0, 1}
  /\ q.times = 1 => q.phase \in {"answered", "settled"} /\ q.status # 401

LEMMA AnswersOnce ==
  ASSUME TypeInv, OnceInv, NEW c \in Call, AtServer(c),
         NEW s, NEW a, NEW n, call' = Answer(c, s, a, n)
  PROVE  OnceInv'
<1>1. call \in [Call -> CallType] /\ call[c] \in CallType
  BY TypeParts DEF GoodCalls
<1>2. call' = [call EXCEPT ![c] = AnsweredCall(call[c], s, a, n)]
  BY AnswerSays
<1>3. call[c].times = 0
  BY DEF OnceInv, AtServer
<1>4. AnsweredCall(call[c], s, a, n).times = 0
  BY <1>1, <1>3, AnsweredFields
<1> QED
  BY <1>1, <1>2, <1>4 DEF OnceInv

LEMMA ServesOnce ==
  ASSUME TypeInv, OnceInv, NEW c \in Call, Serve(c)
  PROVE  OnceInv'
<1> DEFINE q == AnsweredCall(call[c], 200, Authenticated(call[c].access), 0)
<1>1. call \in [Call -> CallType] /\ call[c] \in CallType
  BY TypeParts DEF GoodCalls
<1>2. call[c].times = 0 /\ call[c].phase \in {"sent", "unheard"}
  BY DEF OnceInv, AtServer, Serve
<1>3. q.times = 0 /\ q.status = 200 /\ q.phase \in {"answered", "settled"}
  BY <1>1, <1>2, AnsweredFields
<1>4. Answer(c, 200, Authenticated(call[c].access), 0) = [call EXCEPT ![c] = q]
  BY AnswerSays
<1>5. DOMAIN q = DOMAIN call[c] /\ "times" \in DOMAIN call[c]
  BY <1>1 DEF AnsweredCall, CallType
<1> HIDE DEF q
<1>6. call' = [call EXCEPT ![c] = [q EXCEPT !.times = q.times + 1]]
  BY <1>1, <1>4 DEF Serve
<1>7. /\ [q EXCEPT !.times = q.times + 1].times = 1
      /\ [q EXCEPT !.times = q.times + 1].status = 200
      /\ [q EXCEPT !.times = q.times + 1].phase \in {"answered", "settled"}
  BY <1>3, <1>5
<1>8. 200 # 401
  OBVIOUS
<1> QED
  BY <1>1, <1>6, <1>7, <1>8 DEF OnceInv

LEMMA SettlesOnce ==
  ASSUME TypeInv, OnceInv, NEW c \in Call, call' = [call EXCEPT ![c] = Over(c)]
  PROVE  OnceInv'
BY TypeParts, OverFields DEF OnceInv, GoodCalls

LEMMA SendsOnce ==
  ASSUME TypeInv, OnceInv, NEW c \in Call, NEW t, NEW k, NEW body, NEW good,
         call' = [call EXCEPT ![c] = Sent(t, k, body, good)]
  PROVE  OnceInv'
BY TypeParts, SentFields DEF OnceInv, GoodCalls

LEMMA DropsOnce ==
  ASSUME TypeInv, OnceInv, NEW t \in Tab, NEW c \in Call
  PROVE  OnceCall(Dropped(t)[c])
<1>1. call[c] \in CallType /\ OnceCall(call[c])
  BY TypeParts DEF GoodCalls, OnceInv, OnceCall
<1>2. CASE call[c].tab = t /\ call[c].phase = "sent"
  BY <1>1, <1>2 DEF Dropped, CallType, OnceCall
<1>3. CASE call[c].tab = t /\ call[c].phase \in {"answered", "renewing"}
  BY <1>3, OverFields DEF Dropped, OnceCall
<1>4. CASE call[c].tab # t \/ call[c].phase \notin {"sent", "answered", "renewing"}
  BY <1>1, <1>4 DEF Dropped
<1> QED
  BY <1>2, <1>3, <1>4

LEMMA RenewsOnce ==
  ASSUME TypeInv, OnceInv, NEW t \in Tab, NEW c \in Call, Renewed(t) \/ NotRenewed(t)
  PROVE  OnceCall(call'[c])
<1>1. call[c] \in CallType /\ OnceCall(call[c])
  BY TypeParts DEF GoodCalls, OnceInv, OnceCall
<1>2. CASE Renewed(t)
  BY <1>1, <1>2 DEF Renewed, CallType, OnceCall
<1>3. CASE NotRenewed(t)
  BY <1>1, <1>3, OverFields DEF NotRenewed, OnceCall
<1> QED
  BY <1>2, <1>3

LEMMA PageStepsOnce ==
  ASSUME TypeInv, OnceInv,
         \/ \E t \in Tab : LoadLogin(t) \/ (\E c \in Call : LoadApp(t, c))
         \/ \E c \in Call : AwaitRenewal(c) \/ LoseCall(c)
  PROVE  OnceInv'
<1>0. call \in [Call -> CallType]
  BY TypeParts DEF GoodCalls
<1>1. ASSUME NEW t \in Tab, LoadLogin(t) PROVE OnceInv'
  BY <1>1, DropsOnce DEF LoadLogin, OnceInv, OnceCall
<1>2. ASSUME NEW t \in Tab, NEW c \in Call, LoadApp(t, c) PROVE OnceInv'
  <2> DEFINE q == [Sent(t, "me", 0, TRUE) EXCEPT !.by = stored.user]
  <2>1. OnceCall(q)
    BY SentFields DEF OnceCall, Sent, Blank
  <2>2. call' = [Dropped(t) EXCEPT ![c] = q]
    BY <1>2 DEF LoadApp
  <2> HIDE DEF q
  <2>3. \A d \in Call : call'[d] = IF d = c THEN q ELSE Dropped(t)[d]
    BY <2>2, TypeParts, DroppedGood DEF GoodCalls
  <2> QED
    BY <2>1, <2>3, DropsOnce DEF OnceInv, OnceCall
<1>3. ASSUME NEW c \in Call, AwaitRenewal(c) PROVE OnceInv'
  <2>1. call' = [call EXCEPT ![c] = [call[c] EXCEPT !.phase = "renewing"]]
    BY <1>0, <1>3 DEF AwaitRenewal
  <2>2. call[c].times = 0
    BY <1>3 DEF OnceInv, AwaitRenewal, WantsRenewal
  <2> QED
    BY <1>0, <2>1, <2>2 DEF OnceInv, CallType
<1>4. ASSUME NEW c \in Call, LoseCall(c) PROVE OnceInv'
  <2> DEFINE q == [call[c] EXCEPT !.phase = "answered", !.status = 0]
  <2>1. q.times \in {0, 1} /\ q.phase = "answered" /\ q.status = 0
    BY <1>0 DEF OnceInv, CallType
  <2>2. 0 # 401
    OBVIOUS
  <2>3. OnceCall(q)
    BY <2>1, <2>2 DEF OnceCall
  <2>4. call' = [call EXCEPT ![c] = q]
    BY <1>4 DEF LoseCall
  <2> HIDE DEF q
  <2>5. \A d \in Call : call'[d] = IF d = c THEN q ELSE call[d]
    BY <1>0, <2>4
  <2> QED
    BY <2>3, <2>5 DEF OnceInv, OnceCall
<1> QED
  BY <1>1, <1>2, <1>3, <1>4

LEMMA OnceStep ==
  ASSUME TypeInv, OnceInv, Next
  PROVE  OnceInv'
<1>1. CASE Server
  <2>1. ASSUME NEW c \in Call, ServeLogin(c) PROVE OnceInv'
    BY <2>1, AnswersOnce DEF ServeLogin
  <2>2. ASSUME NEW c \in Call, Refuse(c) PROVE OnceInv'
    BY <2>2, AnswersOnce DEF Refuse
  <2>3. ASSUME NEW c \in Call, ServeLogout(c) PROVE OnceInv'
    BY <2>3, AnswersOnce DEF ServeLogout
  <2>4. CASE UNCHANGED call
    BY <2>4 DEF OnceInv
  <2> QED
    BY <1>1, <2>1, <2>2, <2>3, <2>4, ServesOnce
    DEF Server, CheckRenewal, Rotate, CheckOrphan, RotateOrphan
<1>2. CASE Browser
  <2>1. ASSUME NEW t \in Tab, Renewed(t) \/ NotRenewed(t) PROVE OnceInv'
    BY <2>1, RenewsOnce DEF OnceInv, OnceCall
  <2>2. ASSUME NEW c \in Call, Settle(c) PROVE OnceInv'
    BY <2>2, SettlesOnce DEF Settle
  <2> QED
    BY <1>2, <2>1, <2>2, PageStepsOnce DEF Browser, Expel, LoggedIn, Greeted, LoggedOut, Shown
<1>3. CASE Person
  <2>1. CASE UNCHANGED call
    BY <2>1 DEF OnceInv
  <2>2. ASSUME NEW t \in Tab, NEW c \in Call, NEW good \in BOOLEAN, SubmitLogin(t, c, good)
        PROVE  OnceInv'
    BY <2>2, SendsOnce DEF SubmitLogin
  <2>3. ASSUME NEW t \in Tab, NEW c \in Call, StartWork(t, c) PROVE OnceInv'
    BY <2>3, SendsOnce DEF StartWork
  <2>4. ASSUME NEW t \in Tab, NEW c \in Call, StartLogout(t, c) PROVE OnceInv'
    BY <2>4, SendsOnce DEF StartLogout
  <2> QED
    BY <1>3, <2>1, <2>2, <2>3, <2>4 DEF Person, Navigate, LogoutLocally
<1>4. CASE World
  <2>1. CASE UNCHANGED call
    BY <2>1 DEF OnceInv
  <2> QED
    BY <1>4, <2>1, PageStepsOnce DEF World, LoseRenewal, ExpireAccess, ExpireRefresh, Deactivate
<1> QED
  BY <1>1, <1>2, <1>3, <1>4 DEF Next

\* However many 401s, renewals, losses and tabs: no request takes effect twice.
THEOREM NothingTwice == Spec => []AtMostOnce
<1>1. Init => OnceInv
  BY DEF Init, OnceInv, Blank
<1>2. TypeInv /\ OnceInv /\ [Next]_vars => OnceInv'
  <2>1. OnceInv /\ UNCHANGED vars => OnceInv'
    BY DEF OnceInv, vars
  <2> QED
    BY <2>1, OnceStep
<1>3. OnceInv => AtMostOnce
  BY DEF OnceInv, AtMostOnce
<1> QED
  BY <1>1, <1>2, <1>3, TypeInvHolds, PTL DEF Spec

-----------------------------------------------------------------------------
(* The stored pair. *)

LEMMA SameTokenStep ==
  ASSUME TypeInv, SameToken, Next
  PROVE  SameToken'
<1>1. \A n \in Token : setTokens(n).access = n /\ setTokens(n).refresh = n
  BY SetTokensType
<1>2. /\ \A c \in Call : call[c].pair \in Token
      /\ \A t \in Tab : renewal[t].pair \in Token
      /\ stored \in StoredType(Len(issued))
  BY TypeParts DEF GoodCalls, GoodCall, GoodRenewals, GoodRenewal, Token
<1>3. CASE UNCHANGED stored
  BY <1>3 DEF SameToken
<1>4. CASE stored' = clear
  BY <1>4 DEF SameToken, clear
<1>5. ASSUME NEW t \in Tab, Renewed(t) PROVE SameToken'
  BY <1>1, <1>2, <1>5 DEF SameToken, Renewed
<1>6. ASSUME NEW c \in Call, LoggedIn(c) PROVE SameToken'
  <2>1. stored' = [setTokens(call[c].pair) EXCEPT !.user = call[c].answer]
    BY <1>6 DEF LoggedIn
  <2>2. setTokens(call[c].pair) \in StoredType(Len(issued))
    BY <1>2, SetTokensType
  <2> QED
    BY <1>1, <1>2, <2>1, <2>2 DEF SameToken, StoredType
<1>7. ASSUME NEW c \in Call, Greeted(c) PROVE SameToken'
  BY <1>2, <1>7 DEF SameToken, Greeted, StoredType
<1>8. Server => UNCHANGED stored
  BY DEF Server, ServeLogin, Refuse, Serve, ServeLogout, CheckRenewal, Rotate, CheckOrphan,
         RotateOrphan
<1>9. Person \/ World => UNCHANGED stored \/ stored' = clear
  BY DEF Person, World, Navigate, LogoutLocally, StartWork, StartLogout, SubmitLogin, LoseCall,
         LoseRenewal, ExpireAccess, ExpireRefresh, Deactivate
<1>10. CASE Browser
  BY <1>3, <1>4, <1>5, <1>6, <1>7, <1>10
  DEF Browser, LoadLogin, LoadApp, NotRenewed, AwaitRenewal, Expel, LoggedOut, Shown
<1> QED
  BY <1>3, <1>4, <1>8, <1>9, <1>10 DEF Next

LEMMA SameTokenHolds == Spec => []SameToken
<1>1. Init => SameToken
  BY DEF Init, SameToken, clear
<1>2. TypeInv /\ SameToken /\ [Next]_vars => SameToken'
  <2>1. SameToken /\ UNCHANGED vars => SameToken'
    BY DEF SameToken, vars
  <2> QED
    BY <2>1, SameTokenStep
<1> QED
  BY <1>1, <1>2, TypeInvHolds, PTL DEF Spec

\* Whatever tabs log in, renew and log out in whatever order, localStorage
\* holds the two halves of one login's pair, or neither.
THEOREM OneLoginStored == Spec => []StoredTokensMatch
<1>1. SameToken => StoredTokensMatch
  BY DEF SameToken, StoredTokensMatch
<1> QED
  BY <1>1, SameTokenHolds, PTL

-----------------------------------------------------------------------------
(* Silent renewal, for a browser with one tab whose user waits for the     *)
(* page and whose network loses nothing.                                   *)

Alone == ~Faults /\ ~Impatient /\ \A s, t \in Tab : s = t

\* A logout was asked for of the login that pair n of s belongs to, or its
\* account is none of the active ones.
EndedIn(f, s, a, n) ==
  \/ \E c \in Call : f[c].phase # "idle" /\ f[c].kind = "logout" /\ s[f[c].body].login = s[n].login
  \/ s[n].account \notin a

\* Nobody has spent the refresh token of pair n, unless its login has ended.
Kept(f, s, a, n) == s[n].refresh # "spent" \/ EndedIn(f, s, a, n)

OnWay(q) == q.phase \in {"sent", "answered", "renewing"}

\* The login page keeps no token, and a page being left waits for nothing but
\* the end of a login.
PageInv ==
  \A t \in Tab :
    /\ page[t].at = "login" => stored.refresh = 0 /\ renewal[t].phase = "none"
    /\ page[t].at = "gone" /\ stored.refresh # 0 /\ (\E c \in Call : OnWay(call[c]))
         => EndedIn(call, issued, active, stored.refresh)

\* What holds of a call q under way.
GoodWay(q, f, s, a, st, p) ==
  /\ q.kind = "login" <=> p[q.tab].at = "login"
  /\ q.kind = "login" => ~q.retry /\ q.phase # "renewing"
  /\ q.kind = "login" /\ q.phase = "answered" /\ q.status = 200 => Kept(f, s, a, q.pair)
  /\ q.kind = "logout" /\ st.refresh # 0 => EndedIn(f, s, a, st.refresh)
  /\ q.retry /\ q.phase = "sent" => q.access # 0 /\ s[q.access].access = "live"

\* Every call is as it should be, and a login is alone.
CallInv ==
  /\ \A c \in Call : OnWay(call[c]) => GoodWay(call[c], call, issued, active, stored, page)
  /\ \A c, d \in Call : OnWay(call[c]) /\ call[c].kind = "login" /\ OnWay(call[d]) => c = d

\* A renewal has a request waiting for it and renews what is stored, unless
\* that login has ended meanwhile.
GoodWait(q, f, s, a, st) ==
  /\ \E c \in Call : f[c].phase = "renewing"
  /\ st.refresh = q.token \/ (st.refresh = 0 /\ EndedIn(f, s, a, q.token))
  /\ q.phase = "no" => s[q.token].refresh # "live" \/ EndedIn(f, s, a, q.token)
  /\ q.phase = "yes" => /\ s[q.pair].login = s[q.token].login
                        /\ s[q.pair].account = s[q.token].account
                        /\ s[q.pair].access = "live"
                        /\ Kept(f, s, a, q.pair)

RenewalInv ==
  \A t \in Tab : renewal[t].phase # "none" => GoodWait(renewal[t], call, issued, active, stored)

\* Only a renewal about to be stored, or a logout, spends the stored token.
StoredInv ==
  /\ \A o \in orphans : EndedIn(call, issued, active, o.token)
  /\ stored.refresh # 0 => \/ Kept(call, issued, active, stored.refresh)
                           \/ \E t \in Tab : renewal[t].phase = "yes"

\* The refresh tokens the page has, or is having renewed.
Held(n) ==
  \/ n # 0 /\ n = stored.refresh
  \/ \E t \in Tab : renewal[t].phase # "none" /\ n = renewal[t].token

\* A retry is made for the account of these tokens: if it meets a 401 all the
\* same, that account is not active.
RetryInv ==
  \A c \in Call, n \in 1..Len(issued) :
    call[c].retry /\ Held(n) =>
      /\ call[c].phase = "sent" => issued[call[c].access].account = issued[n].account
      /\ call[c].phase = "answered" /\ call[c].status = 401 => EndedIn(call, issued, active, n)

SilentInv ==
  Alone /\ SameToken /\ PageInv /\ CallInv /\ RenewalInv /\ StoredInv /\ RetryInv

LEMMA Places ==
  ASSUME TypeInv
  PROVE  /\ Len(issued) \in Nat /\ issued \in Seq(PairType)
         /\ stored.refresh \in 0..Len(issued)
         /\ \A c \in Call : /\ call[c].access \in 0..Len(issued)
                            /\ call[c].body \in 0..Len(issued)
                            /\ call[c].pair \in 0..Len(issued)
                            /\ call[c] \in CallType
                            /\ OnWay(call[c]) => call[c].tab \in Tab
                            /\ call[c].phase # "idle" /\ call[c].kind = "logout"
                                 => call[c].body \in 1..Len(issued)
                            /\ call[c].phase = "answered" /\ call[c].kind = "login" /\ call[c].status = 200
                                 => call[c].pair \in 1..Len(issued)
         /\ \A t \in Tab : /\ renewal[t].phase # "none" => renewal[t].token \in 1..Len(issued)
                           /\ renewal[t].phase = "yes" => renewal[t].pair \in 1..Len(issued)
         /\ \A o \in orphans : o.token \in 1..Len(issued)
         /\ call \in [Call -> CallType] /\ renewal \in [Tab -> RenewalType] /\ page \in [Tab -> PageType]
<1>1. /\ Len(issued) \in Nat /\ issued \in Seq(PairType) /\ stored \in StoredType(Len(issued))
      /\ page \in [Tab -> PageType]
      /\ GoodCalls(call, Len(issued)) /\ GoodRenewals(renewal, Len(issued))
      /\ GoodOrphans(orphans, Len(issued))
  BY TypeParts
<1>2. \A n \in 0..Len(issued) : n # 0 => n \in 1..Len(issued)
  BY <1>1
<1>3. stored.refresh \in 0..Len(issued)
  BY <1>1 DEF StoredType
<1>4. \A c \in Call : GoodCall(call[c], Len(issued))
  BY <1>1 DEF GoodCalls
<1>5. ASSUME NEW c \in Call
      PROVE  /\ call[c].access \in 0..Len(issued) /\ call[c].body \in 0..Len(issued)
             /\ call[c].pair \in 0..Len(issued) /\ call[c] \in CallType
             /\ OnWay(call[c]) => call[c].tab \in Tab
             /\ call[c].phase # "idle" /\ call[c].kind = "logout" => call[c].body \in 1..Len(issued)
             /\ call[c].phase = "answered" /\ call[c].kind = "login" /\ call[c].status = 200
                  => call[c].pair \in 1..Len(issued)
  BY <1>2, <1>4 DEF GoodCall, OnWay
<1>6. \A t \in Tab : /\ renewal[t].phase # "none" => renewal[t].token \in 1..Len(issued)
                     /\ renewal[t].phase = "yes" => renewal[t].pair \in 1..Len(issued)
  BY <1>1, <1>2 DEF GoodRenewals, GoodRenewal
<1>7. \A o \in orphans : o.token \in 1..Len(issued)
  BY <1>1, <1>2 DEF GoodOrphans
<1> QED
  BY <1>1, <1>3, <1>5, <1>6, <1>7 DEF GoodCalls, GoodRenewals

\* A call that was made stays the call it is, to its end and beyond.
Stays(q, r) == q.phase # "idle" => r.phase # "idle" /\ r.kind = q.kind /\ r.body = q.body

LEMMA AnswersStay ==
  ASSUME TypeInv, NEW c \in Call, NEW d \in Call,
         ServeLogin(c) \/ Refuse(c) \/ Serve(c) \/ ServeLogout(c)
  PROVE  Stays(call[d], call'[d])
<1>0. call \in [Call -> CallType] /\ call[c] \in CallType
  BY Places
<1>1. ASSUME NEW s, NEW a, NEW n
      PROVE  Stays(call[d], Answer(c, s, a, n)[d])
  <2>1. Answer(c, s, a, n) = [call EXCEPT ![c] = AnsweredCall(call[c], s, a, n)]
    BY AnswerSays
  <2>2. Stays(call[c], AnsweredCall(call[c], s, a, n))
    BY <1>0, AnsweredFields DEF Stays
  <2> QED
    BY <1>0, <2>1, <2>2 DEF Stays
<1>2. CASE Serve(c)
  <2> DEFINE f == Answer(c, 200, Authenticated(call[c].access), 0)
  <2>1. call' = [f EXCEPT ![c] = [f[c] EXCEPT !.times = f[c].times + 1]]
    BY <1>2 DEF Serve
  <2>2. f = [call EXCEPT ![c] = AnsweredCall(call[c], 200, Authenticated(call[c].access), 0)]
    BY AnswerSays
  <2>3. Stays(call[d], f[d])
    BY <1>1
  <2>4. DOMAIN f = Call
    BY <1>0, <2>2
  <2> HIDE DEF f
  <2>5. /\ call'[d].phase = f[d].phase /\ call'[d].kind = f[d].kind /\ call'[d].body = f[d].body
    BY <2>1, <2>4
  <2> QED
    BY <2>3, <2>5 DEF Stays
<1> QED
  BY <1>1, <1>2 DEF ServeLogin, Refuse, ServeLogout

LEMMA DropsStay ==
  ASSUME TypeInv, NEW t \in Tab, NEW d \in Call
  PROVE  Stays(call[d], Dropped(t)[d])
<1>0. call[d] \in CallType
  BY Places
<1>1. CASE call[d].tab = t /\ call[d].phase = "sent"
  BY <1>0, <1>1 DEF Dropped, CallType, Stays
<1>2. CASE call[d].tab = t /\ call[d].phase \in {"answered", "renewing"}
  BY <1>2, OverFields DEF Dropped, Stays
<1>3. CASE call[d].tab # t \/ call[d].phase \notin {"sent", "answered", "renewing"}
  BY <1>3 DEF Dropped, Stays
<1> QED
  BY <1>1, <1>2, <1>3

LEMMA CallsStay ==
  ASSUME TypeInv, Next, NEW d \in Call
  PROVE  Stays(call[d], call'[d])
<1>0. call \in [Call -> CallType] /\ call[d] \in CallType
  BY Places
<1>1. CASE UNCHANGED call
  BY <1>1 DEF Stays
<1>2. ASSUME NEW c \in Call, call[c].phase = "idle", NEW q, call' = [call EXCEPT ![c] = q]
      PROVE  Stays(call[d], call'[d])
  BY <1>0, <1>2 DEF Stays
<1>3. ASSUME NEW c \in Call, Settle(c)
      PROVE  Stays(call[d], call'[d])
  BY <1>0, <1>3, OverFields DEF Settle, Stays
<1>4. CASE Server
  BY <1>1, <1>4, AnswersStay DEF Server, CheckRenewal, Rotate, CheckOrphan, RotateOrphan
<1>5. ASSUME NEW t \in Tab, Renewed(t) \/ NotRenewed(t)
      PROVE  Stays(call[d], call'[d])
  <2>1. CASE Renewed(t)
    BY <1>0, <2>1 DEF Renewed, CallType, Stays
  <2>2. CASE NotRenewed(t)
    BY <2>2, OverFields DEF NotRenewed, Stays
  <2> QED
    BY <1>5, <2>1, <2>2
<1>6. ASSUME NEW t \in Tab, NEW c \in Call, LoadApp(t, c)
      PROVE  Stays(call[d], call'[d])
  <2>1. Dropped(t) \in [Call -> CallType] /\ Stays(call[d], Dropped(t)[d])
    BY DroppedGood, DropsStay DEF GoodCalls
  <2>2. d # c => call'[d] = Dropped(t)[d]
    BY <1>6, <2>1 DEF LoadApp
  <2>3. d = c => call[d].phase = "idle"
    BY <1>6 DEF LoadApp
  <2> QED
    BY <2>1, <2>2, <2>3 DEF Stays
<1>7. ASSUME NEW c \in Call, AwaitRenewal(c)
      PROVE  Stays(call[d], call'[d])
  BY <1>0, <1>7 DEF AwaitRenewal, CallType, Stays
<1>8. ASSUME NEW t \in Tab, LoadLogin(t)
      PROVE  Stays(call[d], call'[d])
  BY <1>8, DropsStay DEF LoadLogin
<1>9. CASE Browser
  BY <1>9, <1>3, <1>5, <1>6, <1>7, <1>8 DEF Browser, Expel, LoggedIn, Greeted, LoggedOut, Shown
<1>10. CASE Person
  BY <1>10, <1>1, <1>2 DEF Person, Navigate, LogoutLocally, StartWork, StartLogout, SubmitLogin
<1>11. ASSUME NEW c \in Call, LoseCall(c)
       PROVE  Stays(call[d], call'[d])
  BY <1>0, <1>11 DEF LoseCall, CallType, Stays
<1>12. CASE World
  BY <1>12, <1>1, <1>11 DEF World, LoseRenewal, ExpireAccess, ExpireRefresh, Deactivate
<1> QED
  BY <1>4, <1>9, <1>10, <1>12 DEF Next

\* How the pairs that are there age.
LEMMA PairsAge ==
  ASSUME TypeInv, Next, NEW n \in 1..Len(issued)
  PROVE  /\ issued[n].refresh # "live" => issued'[n].refresh # "live"
         /\ issued[n].refresh # "spent" /\ issued'[n].refresh = "spent" =>
              \/ \E c \in Call : ServeLogout(c) /\ call[c].body = n
              \/ \E t \in Tab : Rotate(t) /\ renewal[t].token = n
              \/ \E o \in orphans : RotateOrphan(o) /\ o.token = n
         /\ issued[n].access = "live" => issued'[n].access = "live" \/ ExpireAccess(n)
<1> DEFINE Claim ==
      /\ issued[n].refresh # "live" => issued'[n].refresh # "live"
      /\ issued[n].refresh # "spent" /\ issued'[n].refresh = "spent" =>
           \/ \E c \in Call : ServeLogout(c) /\ call[c].body = n
           \/ \E t \in Tab : Rotate(t) /\ renewal[t].token = n
           \/ \E o \in orphans : RotateOrphan(o) /\ o.token = n
      /\ issued[n].access = "live" => issued'[n].access = "live" \/ ExpireAccess(n)
<1> SUFFICES Claim
  OBVIOUS
<1>0. /\ Len(issued) \in Nat /\ issued \in Seq(PairType) /\ \A m \in 1..Len(issued) : m \in Token /\ m # 0
  BY Places DEF Token
<1>1. CASE UNCHANGED issued
  BY <1>1
<1>2. ASSUME NEW c \in Call, ServeLogin(c)
      PROVE  issued'[n] = issued[n]
  <2>1. CASE UNCHANGED issued
    BY <2>1
  <2>2. CASE \E a \in Account : issued' = Append(issued, Pair(c, a))
    BY <1>0, <2>2, NewPair
  <2> QED
    BY <1>2, <2>1, <2>2, TypeParts DEF ServeLogin
<1>3. ASSUME NEW c \in Call, ServeLogout(c)
      PROVE  Claim
  <2>1. call[c].body \in 1..Len(issued)
    BY <1>3, Places DEF ServeLogout, AtServer
  <2>2. CASE Usable(call[c].body)
    <3>1. issued' = [issued EXCEPT ![call[c].body].refresh = "spent"] /\ UNCHANGED active
      BY <1>3, <2>2 DEF ServeLogout
    <3>2. \A m \in 1..Len(issued) :
            /\ issued'[m].access = issued[m].access
            /\ issued'[m].refresh = IF m = call[c].body THEN "spent" ELSE issued[m].refresh
      BY <1>0, <2>1, <3>1, RefreshChanged
    <3> QED
      BY <1>3, <3>2
  <2>3. CASE ~Usable(call[c].body)
    BY <1>1, <1>3, <2>3 DEF ServeLogout
  <2> QED
    BY <2>2, <2>3
<1>4. ASSUME NEW k \in 1..Len(issued), issued' = Rotated(k), UNCHANGED active
      PROVE  /\ issued[n].refresh # "live" => issued'[n].refresh # "live"
             /\ n # k => issued'[n].refresh = issued[n].refresh
             /\ issued'[n].access = issued[n].access
  BY <1>0, <1>4, RotatedPairs
<1>5. ASSUME NEW t \in Tab, Rotate(t)
      PROVE  Claim
  <2>1. renewal[t].token \in 1..Len(issued) /\ issued' = Rotated(renewal[t].token) /\ UNCHANGED active
    BY <1>5, Places DEF Rotate
  <2> QED
    BY <1>4, <1>5, <2>1
<1>6. ASSUME NEW o \in orphans, RotateOrphan(o)
      PROVE  Claim
  <2>1. o.token \in 1..Len(issued) /\ issued' = Rotated(o.token) /\ UNCHANGED active
    BY <1>6, Places DEF RotateOrphan
  <2> QED
    BY <1>4, <1>6, <2>1
<1>7. ASSUME NEW m \in 1..Len(issued), ExpireAccess(m)
      PROVE  Claim
  BY <1>0, <1>7, AccessChanged
<1>8. ASSUME NEW m \in 1..Len(issued), ExpireRefresh(m)
      PROVE  Claim
  <2>1. issued' = [issued EXCEPT ![m].refresh = "expired"] /\ UNCHANGED active
    BY <1>8 DEF ExpireRefresh
  <2>2. \A i \in 1..Len(issued) :
          /\ issued'[i].access = issued[i].access
          /\ issued'[i].refresh = IF i = m THEN "expired" ELSE issued[i].refresh
    BY <1>0, <2>1, RefreshChanged
  <2> QED
    BY <2>2
<1>9. CASE Server
  <2>1. ASSUME NEW c \in Call, Refuse(c) \/ Serve(c)
        PROVE  Claim
    BY <1>1, <2>1 DEF Refuse, Serve
  <2>2. ASSUME NEW c \in Call, ServeLogin(c)
        PROVE  Claim
    BY <1>2, <2>2
  <2>3. ASSUME NEW t \in Tab, CheckRenewal(t)
        PROVE  Claim
    BY <1>1, <2>3 DEF CheckRenewal
  <2>4. ASSUME NEW o \in orphans, CheckOrphan(o)
        PROVE  Claim
    BY <1>1, <2>4 DEF CheckOrphan
  <2> HIDE DEF Claim
  <2> QED
    BY <1>9, <1>3, <1>5, <1>6, <2>1, <2>2, <2>3, <2>4 DEF Server
<1>10. Browser => UNCHANGED issued
  BY DEF Browser, LoadLogin, Renewed, NotRenewed, LoadApp, AwaitRenewal, Expel, LoggedIn, Greeted,
         LoggedOut, Shown, Settle
<1>11. Person => UNCHANGED issued
  BY DEF Person, Navigate, LogoutLocally, StartWork, StartLogout, SubmitLogin
<1>12. CASE World
  <2>1. (\E c \in Call : LoseCall(c)) \/ (\E t \in Tab : LoseRenewal(t))
          \/ (\E a \in Account : Deactivate(a)) => UNCHANGED issued
    BY DEF LoseCall, LoseRenewal, Deactivate
  <2>2. UNCHANGED issued => Claim
    BY <1>1
  <2> HIDE DEF Claim
  <2> QED
    BY <1>12, <1>7, <1>8, <2>1, <2>2 DEF World
<1>13. UNCHANGED issued => Claim
  BY <1>1
<1> HIDE DEF Claim
<1> QED
  BY <1>9, <1>10, <1>11, <1>12, <1>13 DEF Next

\* What a step leaves of the claims about the pairs it finds.
Frame ==
  /\ Keeps
  /\ \A n \in 1..Len(issued) :
       /\ EndedIn(call, issued, active, n) => EndedIn(call', issued', active', n)
       /\ issued[n].refresh # "live" => issued'[n].refresh # "live"
       /\ InUseForRetry(n) /\ issued[n].access = "live" => issued'[n].access = "live"

KeptFrame ==
  \A n \in 1..Len(issued) : Kept(call, issued, active, n) => Kept(call', issued', active', n)

LEMMA FrameHolds ==
  ASSUME TypeInv, Next
  PROVE  Frame
<1>1. Keeps
  BY StepTypes
<1>2. ASSUME NEW n \in 1..Len(issued), EndedIn(call, issued, active, n)
      PROVE  EndedIn(call', issued', active', n)
  <2>1. CASE issued[n].account \notin active
    <3>1. issued'[n].account \notin active'
      BY <1>1, <2>1 DEF Keeps
    <3> QED
      BY <3>1 DEF EndedIn
  <2>2. ASSUME NEW c \in Call, call[c].phase # "idle", call[c].kind = "logout",
               issued[call[c].body].login = issued[n].login
        PROVE  EndedIn(call', issued', active', n)
    <3>1. call[c].body \in 1..Len(issued)
      BY <2>2, Places
    <3>2. call'[c].phase # "idle" /\ call'[c].kind = "logout" /\ call'[c].body = call[c].body
      BY <2>2, CallsStay DEF Stays
    <3>3. issued'[call[c].body].login = issued'[n].login
      BY <1>1, <2>2, <3>1 DEF Keeps
    <3> QED
      BY <3>2, <3>3 DEF EndedIn
  <2> QED
    BY <1>2, <2>1, <2>2 DEF EndedIn
<1>3. ASSUME NEW n \in 1..Len(issued), InUseForRetry(n), issued[n].access = "live"
      PROVE  issued'[n].access = "live"
  <2>1. ~ExpireAccess(n)
    BY <1>3 DEF ExpireAccess
  <2> QED
    BY <1>3, <2>1, PairsAge
<1> QED
  BY <1>1, <1>2, <1>3, PairsAge DEF Frame

\* A refresh token is spent by a logout, by an orphan whose login was logged
\* out, or by the renewal that rotates it.
LEMMA KeptUnlessRotated ==
  ASSUME TypeInv, StoredInv, Next, NEW n \in 1..Len(issued), Kept(call, issued, active, n),
         \A t \in Tab : Rotate(t) => renewal[t].token # n
  PROVE  Kept(call', issued', active', n)
<1>1. EndedIn(call, issued, active, n) => EndedIn(call', issued', active', n)
  BY FrameHolds DEF Frame
<1>2. ASSUME NEW c \in Call, ServeLogout(c), call[c].body = n
      PROVE  EndedIn(call, issued, active, n)
  BY <1>2 DEF ServeLogout, AtServer, EndedIn
<1>3. ASSUME NEW o \in orphans, RotateOrphan(o), o.token = n
      PROVE  EndedIn(call, issued, active, n)
  BY <1>3 DEF StoredInv
<1> QED
  BY <1>1, <1>2, <1>3, PairsAge DEF Kept

LEMMA KeptFrameHolds ==
  ASSUME TypeInv, StoredInv, Next, UNCHANGED renewal \/ UNCHANGED issued
  PROVE  KeptFrame
<1>1. ASSUME NEW t \in Tab, Rotate(t)
      PROVE  FALSE
  <2>1. renewal[t].token \in 1..Len(issued) /\ Len(issued) \in Nat /\ renewal \in [Tab -> RenewalType]
    BY <1>1, Places DEF Rotate
  <2>2. Len(issued') = Len(issued) + 1
    BY <1>1, <2>1, RotatedPairs DEF Rotate, Token
  <2>3. renewal'[t].phase = "yes" /\ renewal[t].phase = "checked"
    BY <1>1, <2>1 DEF Rotate, RenewalType
  <2> QED
    BY <2>1, <2>2, <2>3
<1> QED
  BY <1>1, KeptUnlessRotated DEF KeptFrame

\* A call and a renewal that a step passes by.
LEMMA WaySame ==
  ASSUME TypeInv, Frame, KeptFrame, NEW d \in Call, OnWay(call[d]),
         GoodWay(call[d], call, issued, active, stored, page),
         (page'[call[d].tab].at = "login") <=> (page[call[d].tab].at = "login"),
         stored'.refresh \in {0, stored.refresh}
  PROVE  GoodWay(call[d], call', issued', active', stored', page')
<1>1. /\ call[d].kind = "logout" /\ stored'.refresh # 0 => EndedIn(call', issued', active', stored'.refresh)
  BY Places DEF GoodWay, Frame
<1>2. call[d].kind = "login" /\ call[d].phase = "answered" /\ call[d].status = 200
        => Kept(call', issued', active', call[d].pair)
  BY Places DEF GoodWay, KeptFrame
<1>3. call[d].retry /\ call[d].phase = "sent"
        => call[d].access # 0 /\ issued'[call[d].access].access = "live"
  BY Places DEF GoodWay, Frame, InUseForRetry
<1> QED
  BY <1>1, <1>2, <1>3 DEF GoodWay

LEMMA WaitSame ==
  ASSUME TypeInv, Frame, KeptFrame, NEW t \in Tab, renewal[t].phase # "none",
         GoodWait(renewal[t], call, issued, active, stored),
         \E c \in Call : call'[c].phase = "renewing",
         stored'.refresh = stored.refresh
  PROVE  GoodWait(renewal[t], call', issued', active', stored')
<1>1. renewal[t].token \in 1..Len(issued)
      /\ (renewal[t].phase = "yes" => renewal[t].pair \in 1..Len(issued))
  BY Places
<1>2. /\ EndedIn(call, issued, active, renewal[t].token) => EndedIn(call', issued', active', renewal[t].token)
      /\ issued[renewal[t].token].refresh # "live" => issued'[renewal[t].token].refresh # "live"
      /\ issued'[renewal[t].token].login = issued[renewal[t].token].login
      /\ issued'[renewal[t].token].account = issued[renewal[t].token].account
  BY <1>1 DEF Frame, Keeps
<1>3. ASSUME renewal[t].phase = "yes"
      PROVE  /\ issued'[renewal[t].pair].login = issued'[renewal[t].token].login
             /\ issued'[renewal[t].pair].account = issued'[renewal[t].token].account
             /\ issued'[renewal[t].pair].access = "live"
             /\ Kept(call', issued', active', renewal[t].pair)
  <2>1. InUseForRetry(renewal[t].pair)
    BY <1>3 DEF InUseForRetry
  <2>2. /\ issued'[renewal[t].pair].login = issued[renewal[t].pair].login
        /\ issued'[renewal[t].pair].account = issued[renewal[t].pair].account
    BY <1>1, <1>3 DEF Frame, Keeps
  <2> QED
    BY <1>1, <1>2, <1>3, <2>1, <2>2 DEF GoodWait, Frame, KeptFrame
<1> QED
  BY <1>2, <1>3 DEF GoodWait

LEMMA StoredSame ==
  ASSUME TypeInv, Frame, KeptFrame, StoredInv, orphans' \subseteq orphans,
         stored'.refresh \in {0, stored.refresh},
         stored'.refresh # 0 => UNCHANGED renewal
  PROVE  StoredInv'
<1>1. \A o \in orphans' : EndedIn(call', issued', active', o.token)
  BY Places DEF StoredInv, Frame
<1>2. stored'.refresh # 0 => \/ Kept(call', issued', active', stored'.refresh)
                             \/ \E t \in Tab : renewal'[t].phase = "yes"
  BY Places DEF StoredInv, KeptFrame
<1> QED
  BY <1>1, <1>2 DEF StoredInv

LEMMA PageSame ==
  ASSUME TypeInv, Frame, PageInv, NEW t \in Tab, page'[t].at = page[t].at,
         renewal'[t].phase = "none" \/ renewal'[t].phase = renewal[t].phase,
         stored'.refresh \in {0, stored.refresh},
         \A c \in Call : OnWay(call'[c]) /\ page[t].at = "gone" => OnWay(call[c])
  PROVE  /\ page'[t].at = "login" => stored'.refresh = 0 /\ renewal'[t].phase = "none"
         /\ page'[t].at = "gone" /\ stored'.refresh # 0 /\ (\E c \in Call : OnWay(call'[c]))
              => EndedIn(call', issued', active', stored'.refresh)
<1>1. page[t].at = "login" => stored.refresh = 0 /\ renewal[t].phase = "none"
  BY DEF PageInv
<1>2. ASSUME page'[t].at = "gone", stored'.refresh # 0, \E c \in Call : OnWay(call'[c])
      PROVE  EndedIn(call', issued', active', stored'.refresh)
  <2>1. EndedIn(call, issued, active, stored.refresh)
    BY <1>2 DEF PageInv
  <2> QED
    BY <1>2, <2>1, Places DEF Frame
<1> QED
  BY <1>1, <1>2

\* In a page that holds no other token than it held before, a step sends no
\* retry and answers none with 401, unless the account is not active.
LEMMA RetrySame ==
  ASSUME TypeInv, Frame, CallInv, RetryInv,
         \A n : Held(n)' => Held(n),
         \A d \in Call : call'[d].retry /\ call'[d].phase = "sent" => call'[d] = call[d],
         \A d \in Call : call'[d].retry /\ call'[d].phase = "answered" /\ call'[d].status = 401
           => \/ call'[d] = call[d]
              \/ \A n \in 1..Len(issued) : Held(n) => EndedIn(call', issued', active', n)
  PROVE  RetryInv'
<1>1. ASSUME NEW d \in Call, NEW n, call'[d].retry, Held(n)'
      PROVE  /\ call'[d].phase = "sent" => issued'[call'[d].access].account = issued'[n].account
             /\ call'[d].phase = "answered" /\ call'[d].status = 401
                  => EndedIn(call', issued', active', n)
  <2>1. Held(n) /\ n \in 1..Len(issued)
    <3>1. \A m \in 0..Len(issued) : m # 0 => m \in 1..Len(issued)
      BY Places
    <3>2. Held(n)
      BY <1>1
    <3>3. n \in 1..Len(issued)
      BY <3>1, <3>2, Places DEF Held
    <3> QED
      BY <3>2, <3>3
  <2>2. ASSUME call'[d].phase = "sent"
        PROVE  issued'[call'[d].access].account = issued'[n].account
    <3>1. call'[d] = call[d] /\ call[d].access # 0
      BY <1>1, <2>2 DEF CallInv, GoodWay, OnWay
    <3>2. call[d].access \in 1..Len(issued)
      BY <3>1, Places
    <3>3. issued[call[d].access].account = issued[n].account
      BY <1>1, <2>1, <2>2, <3>1 DEF RetryInv
    <3> QED
      BY <2>1, <3>1, <3>2, <3>3 DEF Frame, Keeps
  <2>3. ASSUME call'[d].phase = "answered", call'[d].status = 401
        PROVE  EndedIn(call', issued', active', n)
    <3>1. CASE call'[d] = call[d]
      <4>1. EndedIn(call, issued, active, n)
        BY <1>1, <2>1, <2>3, <3>1 DEF RetryInv
      <4> QED
        BY <2>1, <4>1 DEF Frame
    <3> QED
      BY <1>1, <2>1, <2>3, <3>1
  <2> QED
    BY <2>2, <2>3
<1> QED
  BY <1>1 DEF RetryInv

\* The server answers a call.
LEMMA AnswerSilent ==
  ASSUME TypeInv, SilentInv, Next, NEW c \in Call, AtServer(c), NEW q,
         call' = [call EXCEPT ![c] = q],
         call[c].phase = "unheard" => q.phase = "settled",
         call[c].phase # "unheard" => q.phase = "answered",
         q.kind = call[c].kind, q.tab = call[c].tab, q.retry = call[c].retry,
         q.kind = "login" /\ q.phase = "answered" /\ q.status = 200 => Kept(call', issued', active', q.pair),
         q.retry /\ q.phase = "answered" /\ q.status = 401
           => \A n \in 1..Len(issued) : Held(n) => EndedIn(call', issued', active', n),
         stored' = stored, page' = page, renewal' = renewal, orphans' = orphans
  PROVE  SilentInv'
<1>1. Frame /\ KeptFrame
  BY FrameHolds, KeptFrameHolds DEF SilentInv
<1>2. call \in [Call -> CallType] /\ \A d \in Call : call'[d] = IF d = c THEN q ELSE call[d]
  BY Places
<1>3. OnWay(q) => OnWay(call[c]) /\ call[c].phase = "sent" /\ q.phase = "answered"
  BY DEF OnWay, AtServer
<1>4. \A d \in Call : OnWay(call'[d]) => OnWay(call[d])
  BY <1>2, <1>3
<1>5. PageInv'
  <2>1. PageInv /\ stored'.refresh = stored.refresh
    BY DEF SilentInv
  <2> QED
    BY <1>1, <1>4, <2>1, PageSame DEF PageInv
<1>6. CallInv'
  <2>0. CallInv
    BY DEF SilentInv
  <2>1. ASSUME NEW d \in Call, OnWay(call'[d]), d # c
        PROVE  GoodWay(call'[d], call', issued', active', stored', page')
    <3>1. OnWay(call[d]) /\ call'[d] = call[d]
      BY <1>2, <2>1
    <3>2. GoodWay(call[d], call, issued, active, stored, page)
      BY <2>0, <3>1 DEF CallInv
    <3> QED
      BY <1>1, <3>1, <3>2, WaySame
  <2>2. ASSUME OnWay(q)
        PROVE  GoodWay(q, call', issued', active', stored', page')
    <3>1. GoodWay(call[c], call, issued, active, stored, page) /\ OnWay(call[c])
      BY <1>3, <2>0, <2>2 DEF CallInv
    <3>2. GoodWay(call[c], call', issued', active', stored', page')
      BY <1>1, <3>1, WaySame
    <3> QED
      BY <1>3, <2>2, <3>2 DEF GoodWay
  <2>3. \A d \in Call : call'[d].kind = call[d].kind
    BY <1>2
  <2>4. \A d \in Call : OnWay(call'[d]) => GoodWay(call'[d], call', issued', active', stored', page')
    BY <1>2, <2>1, <2>2
  <2>5. \A d, e \in Call : OnWay(call'[d]) /\ call'[d].kind = "login" /\ OnWay(call'[e]) => d = e
    <3>1. \A d, e \in Call : OnWay(call[d]) /\ call[d].kind = "login" /\ OnWay(call[e]) => d = e
      BY <2>0 DEF CallInv
    <3> QED
      BY <1>4, <2>3, <3>1
  <2> QED
    BY <2>4, <2>5 DEF CallInv
<1>7. RenewalInv'
  <2>1. ASSUME NEW t \in Tab, renewal[t].phase # "none"
        PROVE  GoodWait(renewal[t], call', issued', active', stored')
    <3>1. GoodWait(renewal[t], call, issued, active, stored)
      BY <2>1 DEF SilentInv, RenewalInv
    <3>2. PICK d \in Call : call[d].phase = "renewing"
      BY <3>1 DEF GoodWait
    <3>3. call'[d].phase = "renewing"
      BY <1>2, <3>2 DEF AtServer
    <3> QED
      BY <1>1, <2>1, <3>1, <3>3, WaitSame
  <2> QED
    BY <2>1 DEF RenewalInv
<1>8. StoredInv'
  BY <1>1, StoredSame DEF SilentInv
<1>9. Alone' /\ SameToken'
  BY DEF SilentInv, Alone, SameToken
<1>10. RetryInv'
  <2>1. \A d \in Call : call'[d].phase = "sent" => call'[d] = call[d]
    BY <1>2 DEF AtServer
  <2>2. \A n : Held(n)' => Held(n)
    BY DEF Held
  <2> QED
    BY <1>1, <1>2, <2>1, <2>2, RetrySame DEF SilentInv
<1> QED
  BY <1>5, <1>6, <1>7, <1>8, <1>9, <1>10 DEF SilentInv

LEMMA AnswersSilent ==
  ASSUME TypeInv, SilentInv, Next, NEW c \in Call,
         ServeLogin(c) \/ Refuse(c) \/ Serve(c) \/ ServeLogout(c)
  PROVE  SilentInv'
<1>0. call[c] \in CallType /\ Len(issued) \in Nat /\ issued \in Seq(PairType)
      /\ call \in [Call -> CallType] /\ AtServer(c)
  BY Places DEF ServeLogin, Refuse, Serve, ServeLogout
<1>1. call[c].phase = "sent" => OnWay(call[c]) /\ GoodWay(call[c], call, issued, active, stored, page)
  BY DEF SilentInv, CallInv, OnWay
<1>2. ASSUME NEW s \in {0, 200, 400, 401}, NEW a, NEW n, call' = Answer(c, s, a, n),
             call[c].kind = "login" /\ s = 200 => Kept(call', issued', active', n),
             call[c].retry /\ call[c].phase = "sent" /\ s = 401
               => \A m \in 1..Len(issued) : Held(m) => EndedIn(call', issued', active', m),
             stored' = stored, page' = page, renewal' = renewal, orphans' = orphans
      PROVE  SilentInv'
  <2> DEFINE q == AnsweredCall(call[c], s, a, n)
  <2>1. call' = [call EXCEPT ![c] = q]
    BY <1>2, AnswerSays
  <2>2. /\ call[c].phase = "unheard" => q.phase = "settled"
        /\ call[c].phase # "unheard" => q.phase = "answered"
        /\ q.status = s /\ q.pair = n
        /\ q.kind = call[c].kind /\ q.tab = call[c].tab /\ q.retry = call[c].retry
    BY <1>0, AnsweredFields
  <2>3. q.phase = "answered" => call[c].phase = "sent"
    BY <1>0, <2>2 DEF AtServer
  <2> HIDE DEF q
  <2>4. q.kind = "login" /\ q.phase = "answered" /\ q.status = 200 => Kept(call', issued', active', q.pair)
    BY <1>2, <2>2
  <2>5. q.retry /\ q.phase = "answered" /\ q.status = 401
          => \A m \in 1..Len(issued) : Held(m) => EndedIn(call', issued', active', m)
    BY <1>2, <2>2, <2>3
  <2>6. AtServer(c)
    BY <1>0
  <2>7. /\ call[c].phase = "unheard" => q.phase = "settled"
        /\ call[c].phase # "unheard" => q.phase = "answered"
        /\ q.kind = call[c].kind /\ q.tab = call[c].tab /\ q.retry = call[c].retry
    BY <2>2
  <2>8. stored' = stored /\ page' = page /\ renewal' = renewal /\ orphans' = orphans
    BY <1>2
  <2> QED
    BY <2>1, <2>4, <2>5, <2>6, <2>7, <2>8, AnswerSilent
<1>3. CASE ServeLogin(c)
  <2>1. call[c].phase = "sent" => ~call[c].retry
    BY <1>1, <1>3 DEF GoodWay, ServeLogin
  <2>2. CASE \E a \in active : /\ issued' = Append(issued, Pair(c, a))
                                /\ call' = Answer(c, 200, a, Len(issued) + 1)
    <3>1. PICK a \in Account : /\ issued' = Append(issued, Pair(c, a))
                               /\ call' = Answer(c, 200, a, Len(issued) + 1)
      BY <2>2, TypeParts
    <3>2. issued'[Len(issued) + 1] = Pair(c, a)
      BY <1>0, <3>1, NewPair
    <3>3. Kept(call', issued', active', Len(issued) + 1)
      BY <3>2 DEF Kept, Pair
    <3> QED
      BY <1>2, <1>3, <2>1, <3>1, <3>3 DEF ServeLogin
  <2>3. CASE call' = Answer(c, 401, NoAccount, 0)
    <3>1. ~(401 = 200)
      OBVIOUS
    <3> QED
      BY <1>2, <1>3, <2>1, <2>3, <3>1 DEF ServeLogin
  <2> QED
    BY <1>3, <2>2, <2>3 DEF ServeLogin
<1>4. CASE Refuse(c)
  <2>1. ASSUME call[c].retry, call[c].phase = "sent", NEW m \in 1..Len(issued), Held(m)
        PROVE  EndedIn(call', issued', active', m)
    <3>1. call[c].access # 0 /\ issued[call[c].access].access = "live"
      BY <1>1, <2>1 DEF GoodWay
    <3>2. call[c].access \in 1..Len(issued)
      BY <3>1, Places
    <3>3. issued[call[c].access] \in PairType
      BY <1>0, <3>2, ElementOfSeq
    <3>4. issued[call[c].access].account \notin active
      BY <1>4, <3>1, <3>3, SessionsAssumption DEF Refuse, Authenticated, PairType
    <3>5. issued[call[c].access].account = issued[m].account
      BY <2>1 DEF SilentInv, RetryInv
    <3>6. issued' = issued /\ active' = active
      BY <1>4 DEF Refuse
    <3> QED
      BY <3>4, <3>5, <3>6 DEF EndedIn
  <2> QED
    BY <1>2, <1>4, <2>1 DEF Refuse
<1>5. CASE ServeLogout(c)
  <2> DEFINE s == IF Usable(call[c].body) THEN 200 ELSE 400
  <2>1. s \in {0, 200, 400, 401} /\ s # 401
    OBVIOUS
  <2>2. call' = Answer(c, s, NoAccount, 0) /\ call[c].kind = "logout"
        /\ UNCHANGED <<stored, page, renewal, orphans>>
    BY <1>5 DEF ServeLogout
  <2> HIDE DEF s
  <2> QED
    BY <1>2, <2>1, <2>2
<1>6. CASE Serve(c)
  <2> DEFINE f == Answer(c, 200, Authenticated(call[c].access), 0)
             p == AnsweredCall(call[c], 200, Authenticated(call[c].access), 0)
             q == [p EXCEPT !.times = p.times + 1]
  <2>1. f = [call EXCEPT ![c] = p]
    BY AnswerSays
  <2>2. /\ p.phase = IF call[c].phase = "unheard" THEN "settled" ELSE "answered"
        /\ p.status = 200
        /\ p.kind = call[c].kind /\ p.tab = call[c].tab /\ p.retry = call[c].retry
    BY <1>0, AnsweredFields
  <2>3. call' = [f EXCEPT ![c] = [f[c] EXCEPT !.times = f[c].times + 1]]
    BY <1>6 DEF Serve
  <2> HIDE DEF f, p
  <2>4. call' = [call EXCEPT ![c] = q] /\ 200 # 401
    <3>1. f[c] = p
      BY <1>0, <2>1
    <3>2. call' = [f EXCEPT ![c] = q]
      BY <2>3, <3>1
    <3> HIDE DEF q
    <3>3. [f EXCEPT ![c] = q] = [d \in Call |-> IF d = c THEN q ELSE call[d]]
      BY <1>0, <2>1
    <3>4. [call EXCEPT ![c] = q] = [d \in Call |-> IF d = c THEN q ELSE call[d]]
      BY <1>0
    <3> QED
      BY <3>2, <3>3, <3>4
  <2>5. /\ call[c].phase = "unheard" => q.phase = "settled"
        /\ call[c].phase # "unheard" => q.phase = "answered"
        /\ q.status = 200
        /\ q.kind = call[c].kind /\ q.tab = call[c].tab /\ q.retry = call[c].retry
    BY <2>2
  <2>6. /\ call[c].kind # "login"
        /\ stored' = stored /\ page' = page /\ renewal' = renewal /\ orphans' = orphans
    BY <1>6 DEF Serve
  <2> HIDE DEF q
  <2>7. q.kind = "login" /\ q.phase = "answered" /\ q.status = 200 => Kept(call', issued', active', q.pair)
    BY <2>5, <2>6
  <2>8. q.retry /\ q.phase = "answered" /\ q.status = 401
          => \A m \in 1..Len(issued) : Held(m) => EndedIn(call', issued', active', m)
    BY <2>4, <2>5
  <2>9. AtServer(c) /\ call' = [call EXCEPT ![c] = q]
    BY <1>0, <2>4
  <2> QED
    BY <2>5, <2>6, <2>7, <2>8, <2>9, AnswerSilent
<1> QED
  BY <1>3, <1>4, <1>5, <1>6

\* A step that leaves the page, its calls and localStorage alone.
LEMMA StillSilent ==
  ASSUME TypeInv, SilentInv, Next, stored' = stored, page' = page, call' = call,
         \A t \in Tab : renewal[t].phase = "none" => renewal'[t].phase = "none",
         \A t \in Tab : renewal'[t].token = renewal[t].token,
         \A c \in Call : call[c].phase = "answered" /\ call[c].kind = "login" /\ call[c].status = 200
                           => Kept(call', issued', active', call[c].pair),
         RenewalInv', StoredInv'
  PROVE  SilentInv'
<1>1. Frame
  BY FrameHolds
<1>2. PageInv'
  <2>1. PageInv
    BY DEF SilentInv
  <2>2. ASSUME NEW t \in Tab, page[t].at = "gone", stored.refresh # 0, \E c \in Call : OnWay(call[c])
        PROVE  EndedIn(call', issued', active', stored.refresh)
    BY <1>1, <2>1, <2>2, Places DEF PageInv, Frame
  <2> QED
    BY <2>1, <2>2 DEF PageInv
<1>3. ASSUME NEW c \in Call, OnWay(call[c])
      PROVE  GoodWay(call[c], call', issued', active', stored', page')
  <2>1. GoodWay(call[c], call, issued, active, stored, page)
    BY <1>3 DEF SilentInv, CallInv
  <2>2. call[c].kind = "logout" /\ stored.refresh # 0 => EndedIn(call', issued', active', stored.refresh)
    BY <1>1, <2>1, Places DEF GoodWay, Frame
  <2>3. call[c].retry /\ call[c].phase = "sent"
          => call[c].access # 0 /\ issued'[call[c].access].access = "live"
    BY <1>1, <2>1, Places DEF GoodWay, Frame, InUseForRetry
  <2> QED
    BY <2>1, <2>2, <2>3 DEF GoodWay
<1>4. CallInv'
  BY <1>3 DEF SilentInv, CallInv
<1>5. \A n : Held(n)' => Held(n)
  BY DEF Held
<1>6. RetryInv'
  BY <1>1, <1>5, RetrySame DEF SilentInv
<1> QED
  BY <1>2, <1>4, <1>6 DEF SilentInv, Alone, SameToken

LEMMA QuietSilent ==
  ASSUME TypeInv, SilentInv, Next, stored' = stored, page' = page, call' = call,
         renewal' = renewal, StoredInv'
  PROVE  SilentInv'
<1>1. Frame /\ KeptFrame
  BY FrameHolds, KeptFrameHolds DEF SilentInv
<1>2. RenewalInv'
  <2>1. ASSUME NEW t \in Tab, renewal[t].phase # "none"
        PROVE  GoodWait(renewal[t], call', issued', active', stored')
    <3>1. GoodWait(renewal[t], call, issued, active, stored)
      BY <2>1 DEF SilentInv, RenewalInv
    <3> QED
      BY <1>1, <2>1, <3>1, WaitSame DEF GoodWait
  <2> QED
    BY <2>1 DEF RenewalInv
<1>3. \A c \in Call : call[c].phase = "answered" /\ call[c].kind = "login" /\ call[c].status = 200
                        => Kept(call', issued', active', call[c].pair)
  <2>1. ASSUME NEW c \in Call, call[c].phase = "answered", call[c].kind = "login", call[c].status = 200
        PROVE  Kept(call', issued', active', call[c].pair)
    <3>1. Kept(call, issued, active, call[c].pair)
      BY <2>1 DEF SilentInv, CallInv, GoodWay, OnWay
    <3> QED
      BY <1>1, <2>1, <3>1, Places DEF KeptFrame
  <2> QED
    BY <2>1
<1> QED
  BY <1>2, <1>3, StillSilent

LEMMA ClockSilent ==
  ASSUME TypeInv, SilentInv, Next,
         \/ \E n \in 1..Len(issued) : ExpireAccess(n) \/ ExpireRefresh(n)
         \/ \E a \in Account : Deactivate(a)
  PROVE  SilentInv'
<1>1. /\ stored' = stored /\ page' = page /\ call' = call /\ renewal' = renewal /\ orphans' = orphans
  BY DEF ExpireAccess, ExpireRefresh, Deactivate
<1>2. StoredInv'
  BY <1>1, FrameHolds, KeptFrameHolds, StoredSame DEF SilentInv
<1> QED
  BY <1>1, <1>2, QuietSilent

LEMMA OrphansSilent ==
  ASSUME TypeInv, SilentInv, Next, NEW o \in orphans, CheckOrphan(o) \/ RotateOrphan(o)
  PROVE  SilentInv'
<1>1. /\ stored' = stored /\ page' = page /\ call' = call /\ renewal' = renewal
  BY DEF CheckOrphan, RotateOrphan
<1>2. Frame /\ KeptFrame /\ StoredInv
  BY <1>1, FrameHolds, KeptFrameHolds DEF SilentInv
<1>3. \A p \in orphans' : \E r \in orphans : p.token = r.token
  <2>1. CASE CheckOrphan(o)
    <3>1. o \in OrphanType
      BY TypeParts DEF GoodOrphans
    <3>2. [o EXCEPT !.checked = TRUE].token = o.token
      BY <3>1 DEF OrphanType
    <3> QED
      BY <2>1, <3>2 DEF CheckOrphan
  <2>2. CASE RotateOrphan(o)
    BY <2>2 DEF RotateOrphan
  <2> QED
    BY <2>1, <2>2
<1>4. \A p \in orphans' : EndedIn(call', issued', active', p.token)
  BY <1>2, <1>3, Places DEF StoredInv, Frame
<1>5. stored'.refresh # 0 => \/ Kept(call', issued', active', stored'.refresh)
                             \/ \E t \in Tab : renewal'[t].phase = "yes"
  BY <1>1, <1>2, Places DEF StoredInv, KeptFrame
<1>6. StoredInv'
  BY <1>4, <1>5 DEF StoredInv
<1> QED
  BY <1>1, <1>6, QuietSilent

LEMMA CheckSilent ==
  ASSUME TypeInv, SilentInv, Next, NEW t \in Tab, CheckRenewal(t)
  PROVE  SilentInv'
<1>1. /\ stored' = stored /\ page' = page /\ call' = call /\ issued' = issued /\ orphans' = orphans
      /\ active' = active /\ renewal[t].phase = "sent"
  BY DEF CheckRenewal
<1>2. renewal \in [Tab -> RenewalType] /\ renewal[t] \in RenewalType
  BY Places
<1>3. PICK p : /\ renewal' = [renewal EXCEPT ![t].phase = p]
               /\ p \in {"checked", "no"}
               /\ p = "no" => \/ issued[renewal[t].token].refresh # "live"
                              \/ EndedIn(call, issued, active, renewal[t].token)
  <2>1. PICK granted \in Renewable(renewal[t].token) :
          renewal' = [renewal EXCEPT ![t].phase = IF granted THEN "checked" ELSE "no"]
    BY DEF CheckRenewal
  <2>2. CASE granted
    <3>1. renewal' = [renewal EXCEPT ![t].phase = "checked"]
      BY <2>1, <2>2, Zenon
    <3>2. "checked" # "no"
      OBVIOUS
    <3> QED
      BY <3>1, <3>2
  <2>3. CASE ~granted
    <3>1. renewal' = [renewal EXCEPT ![t].phase = "no"]
      BY <2>1, <2>3, Zenon
    <3>2. \/ issued[renewal[t].token].refresh # "live"
          \/ EndedIn(call, issued, active, renewal[t].token)
      BY <2>1, <2>3 DEF Renewable, Usable, EndedIn
    <3> QED
      BY <3>1, <3>2
  <2> QED
    BY <2>2, <2>3
<1>4. /\ renewal'[t].phase = p /\ renewal'[t].token = renewal[t].token
      /\ \A s \in Tab : s # t => renewal'[s] = renewal[s]
  BY <1>1, <1>2, <1>3 DEF RenewalType
<1>5. RenewalInv'
  <2>1. ASSUME NEW s \in Tab, renewal'[s].phase # "none"
        PROVE  GoodWait(renewal'[s], call', issued', active', stored')
    <3>1. CASE s = t
      <4>1. GoodWait(renewal[t], call, issued, active, stored)
        BY <1>1 DEF SilentInv, RenewalInv
      <4> QED
        BY <1>1, <1>3, <1>4, <3>1, <4>1 DEF GoodWait
    <3>2. CASE s # t
      BY <1>1, <1>4, <2>1, <3>2 DEF SilentInv, RenewalInv
    <3> QED
      BY <3>1, <3>2
  <2> QED
    BY <2>1 DEF RenewalInv
<1>6. StoredInv'
  <2>1. \A s \in Tab : renewal[s].phase = "yes" => renewal'[s].phase = "yes"
    BY <1>1, <1>4
  <2> QED
    BY <1>1, <2>1 DEF SilentInv, StoredInv
<1>7. \A c \in Call : call[c].phase = "answered" /\ call[c].kind = "login" /\ call[c].status = 200
                        => Kept(call', issued', active', call[c].pair)
  BY <1>1 DEF SilentInv, CallInv, GoodWay, OnWay
<1>8. /\ \A s \in Tab : renewal[s].phase = "none" => renewal'[s].phase = "none"
      /\ \A s \in Tab : renewal'[s].token = renewal[s].token
  BY <1>1, <1>4
<1> QED
  BY <1>1, <1>5, <1>6, <1>7, <1>8, StillSilent

LEMMA RotateSilent ==
  ASSUME TypeInv, SilentInv, Next, NEW t \in Tab, Rotate(t)
  PROVE  SilentInv'
<1> DEFINE n == renewal[t].token
<1>0. /\ Len(issued) \in Nat /\ n \in 1..Len(issued) /\ n \in Token /\ n # 0
      /\ renewal \in [Tab -> RenewalType] /\ renewal[t] \in RenewalType
      /\ renewal[t].phase = "checked"
  BY Places DEF Rotate, Token
<1>1. /\ stored' = stored /\ page' = page /\ call' = call /\ orphans' = orphans
      /\ active' = active
  BY DEF Rotate
<1>2. /\ Len(issued') = Len(issued) + 1
      /\ issued'[Len(issued) + 1] = Pair(issued[n].login, issued[n].account)
      /\ issued'[n].login = issued[n].login /\ issued'[n].account = issued[n].account
  BY <1>0, <1>1, RotatedPairs DEF Rotate, Keeps
<1>3. /\ renewal'[t].phase = "yes" /\ renewal'[t].token = n /\ renewal'[t].pair = Len(issued) + 1
  BY <1>0, <1>2 DEF Rotate, RenewalType
<1>4. Frame /\ \A s \in Tab : s = t
  BY FrameHolds DEF SilentInv, Alone
<1>5. GoodWait(renewal[t], call, issued, active, stored)
  BY <1>0 DEF SilentInv, RenewalInv
<1> HIDE DEF n
<1>6. GoodWait(renewal'[t], call', issued', active', stored')
  <2>1. /\ issued'[Len(issued) + 1].login = issued[n].login /\ issued'[Len(issued) + 1].access = "live"
        /\ issued'[Len(issued) + 1].refresh = "live"
        /\ issued'[Len(issued) + 1].account = issued[n].account
    BY <1>2 DEF Pair
  <2>2. EndedIn(call, issued, active, n) => EndedIn(call', issued', active', n)
    BY <1>0, <1>4 DEF Frame
  <2> QED
    BY <1>1, <1>2, <1>3, <1>5, <2>1, <2>2 DEF GoodWait, Kept, n
<1>7. RenewalInv'
  BY <1>4, <1>6 DEF RenewalInv
<1>8. StoredInv'
  <2>1. \A o \in orphans : EndedIn(call', issued', active', o.token)
    BY <1>4, Places DEF SilentInv, StoredInv, Frame
  <2> QED
    BY <1>1, <1>3, <2>1 DEF StoredInv
<1>9. ASSUME NEW c \in Call, call[c].phase = "answered", call[c].kind = "login"
      PROVE  FALSE
  <2>1. PICK d \in Call : call[d].phase = "renewing"
    BY <1>5 DEF GoodWait
  <2>2. c = d
    BY <1>9, <2>1 DEF SilentInv, CallInv, OnWay
  <2> QED
    BY <1>9, <2>1, <2>2
<1>10. \A s \in Tab : renewal[s].phase = "none" => renewal'[s].phase = "none"
  BY <1>0, <1>4
<1>11. \A s \in Tab : renewal'[s].token = renewal[s].token
  BY <1>3, <1>4 DEF n
<1> QED
  BY <1>1, <1>7, <1>8, <1>9, <1>10, <1>11, StillSilent

\* The page sends a request.
LEMMA SendSilent ==
  ASSUME TypeInv, SilentInv, Next, NEW t \in Tab, NEW c \in Call, call[c].phase = "idle", NEW q,
         call' = [call EXCEPT ![c] = q],
         q.phase = "sent", q.tab = t, ~q.retry, page[t].at # "gone",
         q.kind = "login" <=> page[t].at = "login",
         q.kind = "login" => \A d \in Call : ~OnWay(call[d]),
         q.kind = "logout" => q.body = stored.refresh,
         issued' = issued, stored' = stored, page' = page, renewal' = renewal, orphans' = orphans
  PROVE  SilentInv'
<1>1. Frame /\ KeptFrame
  BY FrameHolds, KeptFrameHolds DEF SilentInv
<1>2. call \in [Call -> CallType] /\ \A d \in Call : call'[d] = IF d = c THEN q ELSE call[d]
  BY Places
<1>3. \A s \in Tab : s = t
  BY DEF SilentInv, Alone
<1>4. PageInv'
  <2>1. PageInv /\ stored'.refresh = stored.refresh
    BY DEF SilentInv
  <2> QED
    BY <1>1, <1>3, <2>1, PageSame DEF PageInv
<1>5. ASSUME NEW d \in Call, OnWay(call[d])
      PROVE  GoodWay(call[d], call', issued', active', stored', page')
  BY <1>1, <1>5, WaySame DEF SilentInv, CallInv
<1>6. q.kind = "logout" /\ stored.refresh # 0 => EndedIn(call', issued', active', stored.refresh)
  BY <1>2 DEF EndedIn
<1>7. GoodWay(q, call', issued', active', stored', page')
  BY <1>6 DEF GoodWay
<1>8. ASSUME NEW d \in Call, OnWay(call[d])
      PROVE  call[d].kind = "login" => page[t].at = "login"
  <2>1. call[d].tab = t
    BY <1>3, <1>8, Places
  <2> QED
    BY <1>8, <2>1 DEF SilentInv, CallInv, GoodWay
<1>9. CallInv'
  <2>1. \A d \in Call : OnWay(call'[d]) => GoodWay(call'[d], call', issued', active', stored', page')
    BY <1>2, <1>5, <1>7
  <2>2. ASSUME NEW d \in Call, NEW e \in Call,
               OnWay(call'[d]), call'[d].kind = "login", OnWay(call'[e])
        PROVE  d = e
    <3>1. CASE d # c /\ e # c
      BY <1>2, <2>2, <3>1 DEF SilentInv, CallInv
    <3>2. CASE d = c
      BY <1>2, <2>2, <3>2
    <3>3. CASE d # c /\ e = c
      <4>1. OnWay(call[d]) /\ call[d].kind = "login"
        BY <1>2, <2>2, <3>3
      <4> QED
        BY <1>8, <4>1
    <3> QED
      BY <3>1, <3>2, <3>3
  <2> QED
    BY <2>1, <2>2 DEF CallInv
<1>10. RenewalInv'
  <2>1. ASSUME NEW s \in Tab, renewal[s].phase # "none"
        PROVE  GoodWait(renewal[s], call', issued', active', stored')
    <3>1. GoodWait(renewal[s], call, issued, active, stored)
      BY <2>1 DEF SilentInv, RenewalInv
    <3>2. PICK d \in Call : call[d].phase = "renewing"
      BY <3>1 DEF GoodWait
    <3>3. call'[d].phase = "renewing"
      BY <1>2, <3>2
    <3> QED
      BY <1>1, <2>1, <3>1, <3>3, WaitSame
  <2> QED
    BY <2>1 DEF RenewalInv
<1>11. StoredInv'
  BY <1>1, StoredSame DEF SilentInv
<1>12. RetryInv'
  <2>1. \A n : Held(n)' => Held(n)
    BY DEF Held
  <2> QED
    BY <1>1, <1>2, <2>1, RetrySame DEF SilentInv
<1> QED
  BY <1>4, <1>9, <1>10, <1>11, <1>12 DEF SilentInv, Alone, SameToken

LEMMA SendsSilent ==
  ASSUME TypeInv, SilentInv, Next, NEW t \in Tab, NEW c \in Call,
         \/ \E good \in BOOLEAN : SubmitLogin(t, c, good)
         \/ StartWork(t, c)
         \/ StartLogout(t, c)
  PROVE  SilentInv'
<1>0. \A s \in Tab : s = t
  BY DEF SilentInv, Alone
<1>1. ASSUME NEW good \in BOOLEAN, SubmitLogin(t, c, good)
      PROVE  SilentInv'
  <2> DEFINE q == Sent(t, "login", 0, good)
  <2>1. q.phase = "sent" /\ q.tab = t /\ ~q.retry /\ q.kind = "login"
    BY SentFields
  <2>2. /\ call' = [call EXCEPT ![c] = q] /\ page[t].at = "login" /\ call[c].phase = "idle"
        /\ issued' = issued /\ stored' = stored /\ page' = page /\ renewal' = renewal
        /\ orphans' = orphans
    BY <1>1 DEF SubmitLogin
  <2> HIDE DEF q
  <2>3. ASSUME NEW d \in Call, OnWay(call[d])
        PROVE  FALSE
    <3>1. call[d].tab = t
      BY <1>0, <2>3, Places
    <3>2. call[d].kind = "login"
      BY <2>2, <2>3, <3>1 DEF SilentInv, CallInv, GoodWay
    <3> QED
      BY <1>1, <2>3, <3>1, <3>2 DEF SubmitLogin, UnderWay, OnWay
  <2> QED
    BY <2>1, <2>2, <2>3, SendSilent
<1>2. ASSUME StartWork(t, c)
      PROVE  SilentInv'
  <2> DEFINE q == Sent(t, "work", 0, TRUE)
  <2>1. q.phase = "sent" /\ q.tab = t /\ ~q.retry /\ q.kind = "work"
    BY DEF Sent, Blank
  <2>2. /\ call' = [call EXCEPT ![c] = q] /\ page[t].at = "app" /\ call[c].phase = "idle"
        /\ issued' = issued /\ stored' = stored /\ page' = page /\ renewal' = renewal
        /\ orphans' = orphans
    BY <1>2 DEF StartWork
  <2> HIDE DEF q
  <2> QED
    BY <2>1, <2>2, SendSilent
<1>3. ASSUME StartLogout(t, c)
      PROVE  SilentInv'
  <2> DEFINE q == Sent(t, "logout", stored.refresh, TRUE)
  <2>1. q.phase = "sent" /\ q.tab = t /\ ~q.retry /\ q.kind = "logout" /\ q.body = stored.refresh
    BY DEF Sent, Blank
  <2>2. /\ call' = [call EXCEPT ![c] = q] /\ page[t].at = "app" /\ call[c].phase = "idle"
        /\ issued' = issued /\ stored' = stored /\ page' = page /\ renewal' = renewal
        /\ orphans' = orphans
    BY <1>3 DEF StartLogout
  <2> HIDE DEF q
  <2> QED
    BY <2>1, <2>2, SendSilent
<1> QED
  BY <1>1, <1>2, <1>3

\* A page that has been left is replaced: what it was waiting for was the end
\* of a login, or nothing.
LEMMA LeftBehind ==
  ASSUME TypeInv, SilentInv, NEW t \in Tab, page[t].at = "gone", DropRenewal(t)
  PROVE  /\ \A o \in orphans' : EndedIn(call, issued, active, o.token) /\ o.token \in 1..Len(issued)
         /\ stored.refresh # 0 => Kept(call, issued, active, stored.refresh)
         /\ \A s \in Tab : renewal'[s].phase = "none"
         /\ \A d \in Call : ~OnWay(Dropped(t)[d])
<1>0. \A s \in Tab : s = t
  BY DEF SilentInv, Alone
<1>1. renewal[t].phase # "none" => EndedIn(call, issued, active, renewal[t].token)
  <2>1. ASSUME renewal[t].phase # "none"
        PROVE  EndedIn(call, issued, active, renewal[t].token)
    <3>1. GoodWait(renewal[t], call, issued, active, stored)
      BY <2>1 DEF SilentInv, RenewalInv
    <3>2. \E c \in Call : OnWay(call[c])
      BY <3>1 DEF GoodWait, OnWay
    <3>3. renewal[t].token \in 1..Len(issued) /\ Len(issued) \in Nat
      BY <2>1, Places
    <3>4. renewal[t].token # 0
      BY <3>3
    <3> QED
      BY <3>1, <3>2, <3>4 DEF GoodWait, SilentInv, PageInv
  <2> QED
    BY <2>1
<1>2. \A o \in orphans' : EndedIn(call, issued, active, o.token) /\ o.token \in 1..Len(issued)
  <2>1. ASSUME NEW o \in orphans', o \notin orphans
        PROVE  renewal[t].phase # "none" /\ o.token = renewal[t].token
    BY <2>1 DEF DropRenewal
  <2>2. \A o \in orphans : EndedIn(call, issued, active, o.token) /\ o.token \in 1..Len(issued)
    BY Places DEF SilentInv, StoredInv
  <2> QED
    BY <1>1, <2>1, <2>2, Places
<1>3. stored.refresh # 0 => Kept(call, issued, active, stored.refresh)
  <2>1. ASSUME stored.refresh # 0, NEW s \in Tab, renewal[s].phase = "yes"
        PROVE  EndedIn(call, issued, active, stored.refresh)
    <3>1. GoodWait(renewal[s], call, issued, active, stored)
      BY <2>1 DEF SilentInv, RenewalInv
    <3>2. \E c \in Call : OnWay(call[c])
      BY <3>1 DEF GoodWait, OnWay
    <3> QED
      BY <2>1, <3>2 DEF SilentInv, PageInv
  <2> QED
    BY <2>1 DEF SilentInv, StoredInv, Kept
<1>4. \A s \in Tab : renewal'[s].phase = "none"
  BY <1>0, Places DEF DropRenewal
<1>5. ASSUME NEW d \in Call
      PROVE  ~OnWay(Dropped(t)[d])
  <2>1. call[d].tab = t \/ ~OnWay(call[d])
    BY <1>0, Places
  <2>2. call[d] \in CallType
    BY Places
  <2>3. CASE call[d].tab = t /\ call[d].phase = "sent"
    BY <2>2, <2>3 DEF Dropped, CallType, OnWay
  <2>4. CASE call[d].tab = t /\ call[d].phase \in {"answered", "renewing"}
    BY <2>4, OverFields DEF Dropped, OnWay
  <2>5. CASE ~OnWay(call[d])
    BY <2>5 DEF Dropped, OnWay
  <2> QED
    BY <2>1, <2>3, <2>4, <2>5 DEF OnWay
<1> QED
  BY <1>2, <1>3, <1>4, <1>5

LEMMA LoadsSilent ==
  ASSUME TypeInv, SilentInv, Next, NEW t \in Tab,
         LoadLogin(t) \/ (\E c \in Call : LoadApp(t, c))
  PROVE  SilentInv'
<1>0. /\ \A s \in Tab : s = t
      /\ page[t].at = "gone" /\ DropRenewal(t) /\ stored' = stored /\ issued' = issued
      /\ page \in [Tab -> PageType] /\ call \in [Call -> CallType]
  BY Places DEF SilentInv, Alone, LoadLogin, LoadApp
<1>1. Frame /\ KeptFrame
  BY <1>0, FrameHolds, KeptFrameHolds DEF SilentInv
<1>2. /\ \A o \in orphans' : EndedIn(call, issued, active, o.token) /\ o.token \in 1..Len(issued)
      /\ stored.refresh # 0 => Kept(call, issued, active, stored.refresh)
      /\ \A s \in Tab : renewal'[s].phase = "none"
      /\ \A d \in Call : ~OnWay(Dropped(t)[d])
  BY <1>0, LeftBehind
<1>3. RenewalInv'
  BY <1>2 DEF RenewalInv
<1>4. StoredInv'
  <2>1. \A o \in orphans' : EndedIn(call', issued', active', o.token)
    BY <1>1, <1>2 DEF Frame
  <2>2. stored'.refresh # 0 => Kept(call', issued', active', stored'.refresh)
    BY <1>0, <1>1, <1>2, Places DEF KeptFrame
  <2> QED
    BY <2>1, <2>2 DEF StoredInv
<1>5. \A n : Held(n)' => Held(n)
  BY <1>0, <1>2 DEF Held
<1>6. CASE LoadLogin(t)
  <2>1. stored.refresh = 0 /\ page'[t].at = "login" /\ call' = Dropped(t)
    BY <1>0, <1>6 DEF LoadLogin, SilentInv, SameToken
  <2>2. PageInv'
    BY <1>0, <1>2, <2>1 DEF PageInv
  <2>3. CallInv'
    BY <1>2, <2>1 DEF CallInv
  <2>4. RetryInv'
    BY <1>1, <1>2, <1>5, <2>1, RetrySame DEF SilentInv, OnWay
  <2> QED
    BY <1>0, <1>3, <1>4, <2>2, <2>3, <2>4 DEF SilentInv, Alone, SameToken
<1>7. ASSUME NEW c \in Call, LoadApp(t, c)
      PROVE  SilentInv'
  <2> DEFINE q == [Sent(t, "me", 0, TRUE) EXCEPT !.by = stored.user]
  <2>1. page'[t].at = "app" /\ call' = [Dropped(t) EXCEPT ![c] = q]
    BY <1>0, <1>7 DEF LoadApp
  <2>2. q.phase = "sent" /\ q.kind = "me" /\ q.tab = t /\ ~q.retry
    BY DEF Sent, Blank
  <2> HIDE DEF q
  <2>3. \A d \in Call : OnWay(call'[d]) => d = c /\ call'[d] = q
    <3>1. \A d \in Call : d # c => call'[d] = Dropped(t)[d]
      BY <2>1, DroppedGood DEF GoodCalls
    <3>2. call'[c] = q
      BY <2>1, DroppedGood DEF GoodCalls
    <3> QED
      BY <1>2, <3>1, <3>2
  <2>4. GoodWay(q, call', issued', active', stored', page')
    BY <2>1, <2>2 DEF GoodWay
  <2>5. PageInv'
    BY <1>0, <2>1 DEF PageInv
  <2>6. CallInv'
    BY <2>3, <2>4 DEF CallInv
  <2>7. RetryInv'
    BY <1>1, <1>5, <2>2, <2>3, RetrySame DEF SilentInv, OnWay
  <2> QED
    BY <1>0, <1>3, <1>4, <2>5, <2>6, <2>7 DEF SilentInv, Alone, SameToken
<1> QED
  BY <1>6, <1>7

LEMMA NavigateSilent ==
  ASSUME TypeInv, SilentInv, Next, NEW t \in Tab, Navigate(t)
  PROVE  SilentInv'
<1>0. /\ \A s \in Tab : s = t
      /\ issued' = issued /\ stored' = stored /\ call' = call /\ renewal' = renewal /\ orphans' = orphans
      /\ page[t].at = "app" /\ page \in [Tab -> PageType]
  BY Places DEF SilentInv, Alone, Navigate
<1>1. page'[t].at = "gone"
  BY <1>0 DEF Navigate, Leaving, PageType
<1>2. \A c \in Call : ~OnWay(call[c])
  BY <1>0, Places DEF Navigate, SilentInv, Alone, UnderWay, OnWay
<1>3. PageInv' /\ CallInv'
  BY <1>0, <1>1, <1>2 DEF PageInv, CallInv
<1>4. active' = active
  BY DEF Navigate
<1>5. RenewalInv' /\ StoredInv' /\ RetryInv'
  BY <1>0, <1>4 DEF SilentInv, RenewalInv, StoredInv, RetryInv, Held
<1> QED
  BY <1>0, <1>3, <1>5 DEF SilentInv, Alone, SameToken

\* The page forgets the login, and nothing that waits for a renewal minds.
LEMMA ClearSilent ==
  ASSUME TypeInv, SilentInv, Next, NEW t \in Tab, stored' = clear,
         page'[t].at = "login" <=> page[t].at = "login",
         issued' = issued, orphans' = orphans,
         \A c \in Call : call'[c] = call[c] \/ call'[c].phase = "settled",
         renewal' = renewal \/ renewal'[t].phase = "none",
         renewal'[t].phase # "none" =>
           /\ \E c \in Call : call'[c].phase = "renewing"
           /\ stored.refresh = 0 \/ EndedIn(call, issued, active, renewal[t].token)
  PROVE  SilentInv'
<1>0. /\ \A s \in Tab : s = t
      /\ stored'.refresh = 0 /\ stored'.access = 0
  BY DEF SilentInv, Alone, clear
<1>1. Frame /\ KeptFrame
  BY FrameHolds, KeptFrameHolds DEF SilentInv
<1>2. PageInv'
  BY <1>0 DEF SilentInv, PageInv
<1>3. \A d \in Call : OnWay(call'[d]) => call'[d] = call[d]
  BY DEF OnWay
<1>4. ASSUME NEW d \in Call, OnWay(call'[d])
      PROVE  GoodWay(call'[d], call', issued', active', stored', page')
  <2>1. call'[d] = call[d] /\ OnWay(call[d])
    BY <1>3, <1>4
  <2>2. GoodWay(call[d], call, issued, active, stored, page) /\ call[d].tab = t
    BY <1>0, <2>1, Places DEF SilentInv, CallInv
  <2> QED
    BY <1>0, <1>1, <2>1, <2>2, WaySame
<1>5. CallInv'
  <2>1. ASSUME NEW d \in Call, NEW e \in Call, OnWay(call'[d]), call'[d].kind = "login", OnWay(call'[e])
        PROVE  d = e
    <3>1. OnWay(call[d]) /\ call[d].kind = "login" /\ OnWay(call[e])
      BY <1>3, <2>1
    <3> QED
      BY <3>1 DEF SilentInv, CallInv
  <2> QED
    BY <1>4, <2>1 DEF CallInv
<1>6. RenewalInv'
  <2>1. ASSUME renewal'[t].phase # "none"
        PROVE  GoodWait(renewal'[t], call', issued', active', stored')
    <3>1. renewal' = renewal /\ renewal[t].phase # "none"
      BY <2>1
    <3>2. GoodWait(renewal[t], call, issued, active, stored)
      BY <3>1 DEF SilentInv, RenewalInv
    <3>3. renewal[t].token \in 1..Len(issued)
      BY <3>1, Places
    <3>4. EndedIn(call, issued, active, renewal[t].token)
      BY <2>1, <3>2, <3>3 DEF GoodWait
    <3>5. EndedIn(call', issued', active', renewal[t].token)
      BY <1>1, <3>3, <3>4 DEF Frame
    <3>6. renewal[t].phase = "yes" => Kept(call', issued', active', renewal[t].pair)
      BY <1>1, <3>2, Places DEF KeptFrame, GoodWait
    <3> QED
      BY <1>0, <2>1, <3>1, <3>2, <3>5, <3>6 DEF GoodWait
  <2> QED
    BY <1>0, <2>1 DEF RenewalInv
<1>7. StoredInv'
  BY <1>0, <1>1, StoredSame DEF SilentInv
<1>8. RetryInv'
  <2>1. \A n : Held(n)' => Held(n)
    BY <1>0 DEF Held
  <2>2. \A d \in Call : call'[d].phase \in {"sent", "answered"} => call'[d] = call[d]
    BY <1>3 DEF OnWay
  <2> QED
    BY <1>1, <2>1, <2>2, RetrySame DEF SilentInv
<1> QED
  BY <1>0, <1>2, <1>5, <1>6, <1>7, <1>8 DEF SilentInv, Alone, SameToken

LEMMA LogoutLocallySilent ==
  ASSUME TypeInv, SilentInv, Next, NEW t \in Tab, LogoutLocally(t)
  PROVE  SilentInv'
<1>1. /\ stored' = clear /\ stored.refresh = 0 /\ issued' = issued /\ call' = call
      /\ renewal' = renewal /\ orphans' = orphans /\ page[t].at = "app"
      /\ page \in [Tab -> PageType]
  BY Places DEF LogoutLocally
<1>2. page'[t].at = "gone"
  BY <1>1 DEF LogoutLocally, Leaving, PageType
<1>3. renewal[t].phase # "none" => \E c \in Call : call[c].phase = "renewing"
  BY DEF SilentInv, RenewalInv, GoodWait
<1> QED
  BY <1>1, <1>2, <1>3, ClearSilent

LEMMA AwaitSilent ==
  ASSUME TypeInv, SilentInv, Next, NEW c \in Call, AwaitRenewal(c)
  PROVE  SilentInv'
<1> DEFINE t == call[c].tab
           q == [call[c] EXCEPT !.phase = "renewing"]
<1>0. /\ call[c].phase = "answered" /\ stored.refresh # 0 /\ OnWay(call[c]) /\ t \in Tab
      /\ \A s \in Tab : s = t
      /\ issued' = issued /\ stored' = stored /\ page' = page /\ orphans' = orphans
      /\ renewal \in [Tab -> RenewalType] /\ call \in [Call -> CallType] /\ call[c] \in CallType
  BY Places DEF AwaitRenewal, WantsRenewal, OnWay, SilentInv, Alone
<1>1. Frame /\ KeptFrame
  BY <1>0, FrameHolds, KeptFrameHolds DEF SilentInv
<1>2. \A d \in Call : call'[d] = IF d = c THEN q ELSE call[d]
  BY <1>0 DEF AwaitRenewal
<1>3. /\ q.phase = "renewing" /\ q.kind = call[c].kind /\ q.tab = t /\ q.retry = call[c].retry
  BY <1>0 DEF CallType
<1>4. page[t].at # "login"
  BY <1>0 DEF SilentInv, PageInv
<1>5. GoodWay(call[c], call, issued, active, stored, page)
  BY <1>0 DEF SilentInv, CallInv
<1>6. q.kind # "login"
  BY <1>3, <1>4, <1>5 DEF GoodWay
<1> HIDE DEF q
<1>7. PageInv'
  <2>1. ASSUME page[t].at = "gone"
        PROVE  EndedIn(call', issued', active', stored.refresh)
    <3>1. EndedIn(call, issued, active, stored.refresh)
      BY <1>0, <2>1 DEF SilentInv, PageInv
    <3> QED
      BY <1>0, <1>1, <3>1, Places DEF Frame
  <2> QED
    BY <1>0, <1>4, <2>1 DEF PageInv
<1>8. CallInv'
  <2>1. ASSUME NEW d \in Call, OnWay(call[d])
        PROVE  GoodWay(call[d], call', issued', active', stored', page')
    BY <1>0, <1>1, <2>1, WaySame DEF SilentInv, CallInv
  <2>2. GoodWay(q, call', issued', active', stored', page')
    BY <1>0, <1>3, <1>6, <2>1 DEF GoodWay
  <2>3. \A d \in Call : OnWay(call'[d]) => GoodWay(call'[d], call', issued', active', stored', page')
    BY <1>2, <2>1, <2>2
  <2>4. ASSUME NEW d \in Call, NEW e \in Call, OnWay(call'[d]), call'[d].kind = "login", OnWay(call'[e])
        PROVE  d = e
    <3>1. d # c /\ OnWay(call[d]) /\ call[d].kind = "login"
      BY <1>2, <1>6, <2>4
    <3>2. OnWay(call[e])
      BY <1>0, <1>2, <2>4
    <3> QED
      BY <3>1, <3>2 DEF SilentInv, CallInv
  <2> QED
    BY <2>3, <2>4 DEF CallInv
<1>9. call'[c].phase = "renewing"
  BY <1>2, <1>3
<1>10. RetryInv'
  <2>1. \A n : Held(n)' => Held(n)
    BY <1>0 DEF Held, AwaitRenewal
  <2>2. \A d \in Call : call'[d].phase \in {"sent", "answered"} => call'[d] = call[d]
    BY <1>2, <1>9
  <2> QED
    BY <1>1, <2>1, <2>2, RetrySame DEF SilentInv
<1>11. CASE renewal[t].phase # "none"
  <2>1. renewal' = renewal
    BY <1>11 DEF AwaitRenewal
  <2>2. GoodWait(renewal[t], call', issued', active', stored')
    BY <1>0, <1>1, <1>9, <1>11, WaitSame DEF SilentInv, RenewalInv
  <2>3. RenewalInv'
    BY <1>0, <2>1, <2>2 DEF RenewalInv
  <2>4. StoredInv'
    BY <1>0, <1>1, <2>1, StoredSame DEF SilentInv
  <2> QED
    BY <1>0, <1>7, <1>8, <1>10, <2>3, <2>4 DEF SilentInv, Alone, SameToken
<1>12. CASE renewal[t].phase = "none"
  <2>1. renewal' = [renewal EXCEPT ![t] = [phase |-> "sent", token |-> stored.refresh, pair |-> 0]]
    BY <1>12 DEF AwaitRenewal
  <2>2. renewal'[t].phase = "sent" /\ renewal'[t].token = stored.refresh
    BY <1>0, <2>1
  <2>3. RenewalInv'
    BY <1>0, <1>9, <2>2 DEF RenewalInv, GoodWait
  <2>4. StoredInv'
    <3>1. Kept(call, issued, active, stored.refresh)
      BY <1>0, <1>12 DEF SilentInv, StoredInv
    <3>2. Kept(call', issued', active', stored.refresh)
      BY <1>0, <1>1, <3>1, Places DEF KeptFrame
    <3>3. \A o \in orphans : EndedIn(call', issued', active', o.token)
      BY <1>1, Places DEF SilentInv, StoredInv, Frame
    <3> QED
      BY <1>0, <3>2, <3>3 DEF StoredInv
  <2> QED
    BY <1>0, <1>7, <1>8, <1>10, <2>3, <2>4 DEF SilentInv, Alone, SameToken
<1> QED
  BY <1>11, <1>12

LEMMA RenewedSilent ==
  ASSUME TypeInv, SilentInv, Next, NEW t \in Tab, Renewed(t)
  PROVE  SilentInv'
<1> DEFINE n == renewal[t].pair
           k == renewal[t].token
<1>0. /\ renewal[t].phase = "yes" /\ \A s \in Tab : s = t
      /\ issued' = issued /\ page' = page /\ orphans' = orphans
      /\ call \in [Call -> CallType] /\ renewal \in [Tab -> RenewalType]
      /\ n \in 1..Len(issued) /\ k \in 1..Len(issued) /\ n # 0 /\ k # 0 /\ n \in Token
  <2>1. renewal[t].phase = "yes" /\ issued' = issued /\ page' = page /\ orphans' = orphans
    BY DEF Renewed
  <2>2. n \in 1..Len(issued) /\ k \in 1..Len(issued) /\ Len(issued) \in Nat
    BY <2>1, Places
  <2>3. n # 0 /\ k # 0 /\ n \in Token
    BY <2>2 DEF Token
  <2> QED
    BY <2>1, <2>2, <2>3, Places DEF SilentInv, Alone
<1>1. Frame /\ KeptFrame
  BY <1>0, FrameHolds, KeptFrameHolds DEF SilentInv
<1>2. stored'.refresh = n /\ stored'.access = n
  BY <1>0, SetTokensType DEF Renewed
<1>3. /\ \E c \in Call : OnWay(call[c])
      /\ stored.refresh = k \/ (stored.refresh = 0 /\ EndedIn(call, issued, active, k))
      /\ issued[n].login = issued[k].login /\ issued[n].access = "live"
      /\ issued[n].account = issued[k].account
      /\ Kept(call, issued, active, n)
  BY <1>0 DEF SilentInv, RenewalInv, GoodWait, OnWay
<1>4. page[t].at # "login"
  BY <1>0 DEF SilentInv, PageInv
<1> HIDE DEF n, k
<1>5. EndedIn(call, issued, active, k) => EndedIn(call', issued', active', n)
  <2>1. EndedIn(call, issued, active, k) => EndedIn(call, issued, active, n)
    BY <1>3 DEF EndedIn
  <2> QED
    BY <1>0, <1>1, <2>1 DEF Frame
<1>6. PageInv'
  <2>1. page[t].at = "gone" => EndedIn(call, issued, active, k)
    BY <1>0, <1>3 DEF SilentInv, PageInv
  <2> QED
    BY <1>0, <1>2, <1>4, <1>5, <2>1 DEF PageInv
<1>7. ASSUME NEW d \in Call, OnWay(call[d])
      PROVE  /\ call[d].kind # "login"
             /\ call[d].kind = "logout" => EndedIn(call', issued', active', n)
             /\ call[d].retry /\ call[d].phase = "sent"
                  => call[d].access # 0 /\ issued[call[d].access].access = "live"
             /\ call[d].tab = t
  <2>1. call[d].tab = t /\ GoodWay(call[d], call, issued, active, stored, page)
    BY <1>0, <1>7, Places DEF SilentInv, CallInv
  <2>2. call[d].kind = "logout" => EndedIn(call, issued, active, k)
    BY <1>0, <1>3, <2>1 DEF GoodWay
  <2> QED
    BY <1>4, <1>5, <2>1, <2>2 DEF GoodWay
<1>8. ASSUME NEW d \in Call, OnWay(call'[d])
      PROVE  GoodWay(call'[d], call', issued', active', stored', page') /\ call'[d].kind # "login"
  <2>1. call[d] \in CallType
    BY <1>0
  <2>2. CASE call[d].tab = t /\ call[d].phase = "renewing"
    <3>1. call'[d] = [call[d] EXCEPT !.phase = "sent", !.retry = TRUE, !.access = n]
      BY <1>2, <2>2 DEF Renewed
    <3>2. /\ call'[d].phase = "sent" /\ call'[d].access = n /\ call'[d].kind = call[d].kind
          /\ call'[d].tab = t
      BY <2>1, <2>2, <3>1 DEF CallType
    <3>3. OnWay(call[d])
      BY <2>2 DEF OnWay
    <3> QED
      BY <1>0, <1>2, <1>3, <1>4, <1>7, <3>2, <3>3 DEF GoodWay
  <2>3. CASE ~(call[d].tab = t /\ call[d].phase = "renewing")
    <3>1. call'[d] = call[d]
      BY <2>3 DEF Renewed
    <3> QED
      BY <1>0, <1>2, <1>4, <1>7, <1>8, <3>1 DEF GoodWay
  <2> QED
    BY <2>2, <2>3
<1>9. CallInv'
  BY <1>8 DEF CallInv
<1>10. renewal'[t].phase = "none"
  BY <1>0 DEF Renewed
<1>11. RenewalInv'
  BY <1>0, <1>10 DEF RenewalInv
<1>12. StoredInv'
  <2>1. \A o \in orphans : EndedIn(call', issued', active', o.token)
    BY <1>1, Places DEF SilentInv, StoredInv, Frame
  <2>2. Kept(call', issued', active', n)
    BY <1>0, <1>1, <1>3 DEF KeptFrame
  <2> QED
    BY <1>0, <1>2, <2>1, <2>2 DEF StoredInv
<1>13. \A m : Held(m)' => m = n
  BY <1>0, <1>2, <1>10 DEF Held
<1>14. ASSUME NEW d \in Call, call'[d].retry
       PROVE  /\ call'[d].phase = "sent" => issued[call'[d].access].account = issued[n].account
              /\ call'[d].phase = "answered" /\ call'[d].status = 401
                   => EndedIn(call', issued', active', n)
  <2>1. Held(k)
    BY <1>0 DEF Held, k
  <2>2. CASE call[d].tab = t /\ call[d].phase = "renewing"
    <3>1. call[d] \in CallType
      BY <1>0
    <3>2. call'[d].phase = "sent" /\ call'[d].access = n
      BY <1>2, <2>2, <3>1 DEF Renewed, CallType
    <3> QED
      BY <3>2
  <2>3. CASE ~(call[d].tab = t /\ call[d].phase = "renewing")
    <3>1. call'[d] = call[d]
      BY <2>3 DEF Renewed
    <3>2. /\ call[d].phase = "sent" => issued[call[d].access].account = issued[k].account
          /\ call[d].phase = "answered" /\ call[d].status = 401 => EndedIn(call, issued, active, k)
      BY <1>0, <1>14, <2>1, <3>1 DEF SilentInv, RetryInv
    <3> QED
      BY <1>3, <1>5, <3>1, <3>2
  <2> QED
    BY <2>2, <2>3
<1>15. RetryInv'
  BY <1>0, <1>13, <1>14 DEF RetryInv
<1> QED
  BY <1>2, <1>6, <1>9, <1>11, <1>12, <1>15 DEF SilentInv, Alone, SameToken

LEMMA NotRenewedSilent ==
  ASSUME TypeInv, SilentInv, Next, NEW t \in Tab, NotRenewed(t)
  PROVE  SilentInv'
<1>1. /\ stored' = clear /\ issued' = issued /\ orphans' = orphans
      /\ renewal[t].phase = "no" /\ page' = redirectToLogin(t)
  BY DEF NotRenewed
<1>2. page[t].at # "login"
  BY <1>1 DEF SilentInv, PageInv
<1>3. page'[t].at # "login"
  BY <1>1, <1>2, Places DEF redirectToLogin, PageType
<1>4. renewal'[t].phase = "none"
  BY Places DEF NotRenewed
<1>5. \A c \in Call : call'[c] = call[c] \/ call'[c].phase = "settled"
  BY OverFields DEF NotRenewed
<1> QED
  BY <1>1, <1>2, <1>3, <1>4, <1>5, ClearSilent

LEMMA SettlesSilent ==
  ASSUME TypeInv, SilentInv, Next, NEW c \in Call, Expel(c) \/ LoggedOut(c)
  PROVE  SilentInv'
<1> DEFINE t == call[c].tab
<1>0. /\ call[c].phase = "answered" /\ OnWay(call[c]) /\ t \in Tab /\ ~WantsRenewal(c)
      /\ issued' = issued /\ renewal' = renewal /\ orphans' = orphans
      /\ call' = [call EXCEPT ![c] = Over(c)]
      /\ call \in [Call -> CallType] /\ page \in [Tab -> PageType]
  BY Places DEF Expel, LoggedOut, Settle, OnWay
<1>1. GoodWay(call[c], call, issued, active, stored, page)
  BY <1>0 DEF SilentInv, CallInv
<1>2. stored' = clear
  BY DEF Expel, LoggedOut, LogoutEnds
<1>3. \A d \in Call : call'[d] = call[d] \/ call'[d].phase = "settled"
  BY <1>0, OverFields
<1>4. call[c].kind = "logout" => page[t].at # "login"
  BY <1>1 DEF GoodWay
<1>5. page'[t].at = "login" <=> page[t].at = "login"
  <2>1. Leaving(t)[t].at = "gone"
    BY <1>0 DEF Leaving, PageType
  <2>2. redirectToLogin(t)[t].at = "login" <=> page[t].at = "login"
    BY <1>0 DEF redirectToLogin, PageType
  <2>3. (page' = Leaving(t) /\ call[c].kind = "logout") \/ page' = redirectToLogin(t)
    BY DEF Expel, LoggedOut, LogoutEnds
  <2> QED
    BY <1>4, <2>1, <2>2, <2>3
<1>6. ASSUME renewal[t].phase # "none"
      PROVE  /\ \E d \in Call : call'[d].phase = "renewing"
             /\ stored.refresh = 0 \/ EndedIn(call, issued, active, renewal[t].token)
  <2>1. GoodWait(renewal[t], call, issued, active, stored)
    BY <1>0, <1>6 DEF SilentInv, RenewalInv
  <2>2. PICK d \in Call : call[d].phase = "renewing"
    BY <2>1 DEF GoodWait
  <2>3. call'[d].phase = "renewing"
    BY <1>0, <2>2
  <2>4. CASE Expel(c)
    <3>1. call[c].status = 401 /\ (call[c].retry \/ stored.refresh = 0)
      BY <1>0, <2>4 DEF Expel, WantsRenewal
    <3>2. renewal[t].token \in 1..Len(issued) /\ Held(renewal[t].token)
      BY <1>0, <1>6, Places DEF Held
    <3> QED
      BY <1>0, <2>3, <3>1, <3>2 DEF SilentInv, RetryInv
  <2>5. CASE LoggedOut(c)
    BY <1>1, <2>1, <2>3, <2>5 DEF LoggedOut, GoodWay, GoodWait
  <2> QED
    BY <2>4, <2>5
<1> HIDE DEF t
<1> QED
  BY <1>0, <1>2, <1>3, <1>5, <1>6, ClearSilent

LEMMA LoggedInSilent ==
  ASSUME TypeInv, SilentInv, Next, NEW c \in Call, LoggedIn(c)
  PROVE  SilentInv'
<1> DEFINE n == call[c].pair
<1>0. /\ call[c].phase = "answered" /\ OnWay(call[c]) /\ call[c].kind = "login"
      /\ call[c].status = 200 /\ n \in 1..Len(issued) /\ call[c].tab \in Tab
      /\ issued' = issued /\ renewal' = renewal /\ orphans' = orphans
      /\ call' = [call EXCEPT ![c] = Over(c)]
      /\ call \in [Call -> CallType] /\ page \in [Tab -> PageType]
  BY Places DEF LoggedIn, Settle, OnWay
<1>1. Frame /\ KeptFrame
  BY <1>0, FrameHolds, KeptFrameHolds DEF SilentInv
<1>2. Kept(call', issued', active', n)
  BY <1>0, <1>1 DEF SilentInv, CallInv, GoodWay, KeptFrame
<1>3. stored'.refresh = n /\ stored'.access = n
  <2>1. n \in Token
    BY <1>0, Places DEF Token
  <2>2. setTokens(n) \in StoredType(Len(issued)) /\ setTokens(n).access = n /\ setTokens(n).refresh = n
    BY <2>1, SetTokensType
  <2>3. stored' = [setTokens(n) EXCEPT !.user = call[c].answer]
    BY DEF LoggedIn
  <2> QED
    BY <2>2, <2>3 DEF StoredType
<1>4. \A d \in Call : ~OnWay(call'[d])
  <2>1. \A d \in Call : OnWay(call[d]) => d = c
    BY <1>0 DEF SilentInv, CallInv
  <2>2. \A d \in Call : call'[d] = IF d = c THEN Over(c) ELSE call[d]
    BY <1>0
  <2> QED
    BY <2>1, <2>2, OverFields DEF OnWay
<1>5. \A s \in Tab : renewal[s].phase = "none"
  <2>1. ASSUME NEW s \in Tab, renewal[s].phase # "none"
        PROVE  FALSE
    <3>1. PICK d \in Call : call[d].phase = "renewing"
      BY <2>1 DEF SilentInv, RenewalInv, GoodWait
    <3>2. d = c
      BY <1>0, <3>1 DEF SilentInv, CallInv, OnWay
    <3> QED
      BY <1>0, <3>1, <3>2
  <2> QED
    BY <2>1
<1>6. \A s \in Tab : page'[s].at # "login"
  BY <1>0 DEF LoggedIn, Leaving, PageType, SilentInv, Alone
<1> HIDE DEF n
<1>7. PageInv' /\ CallInv' /\ RenewalInv'
  BY <1>0, <1>4, <1>5, <1>6 DEF PageInv, CallInv, RenewalInv
<1>8. StoredInv'
  <2>1. \A o \in orphans : EndedIn(call', issued', active', o.token)
    BY <1>1, Places DEF SilentInv, StoredInv, Frame
  <2> QED
    BY <1>0, <1>2, <1>3, <2>1 DEF StoredInv
<1>9. RetryInv'
  BY <1>4 DEF RetryInv, OnWay
<1> QED
  BY <1>3, <1>7, <1>8, <1>9 DEF SilentInv, Alone, SameToken

LEMMA ShownSilent ==
  ASSUME TypeInv, SilentInv, Next, NEW c \in Call, Greeted(c) \/ Shown(c)
  PROVE  SilentInv'
<1>0. /\ call[c].phase = "answered" /\ call[c].tab \in Tab
      /\ issued' = issued /\ renewal' = renewal /\ orphans' = orphans
      /\ call' = [call EXCEPT ![c] = Over(c)]
      /\ call \in [Call -> CallType] /\ page \in [Tab -> PageType]
  BY Places DEF Greeted, Shown, Settle, OnWay
<1>1. Frame /\ KeptFrame
  BY <1>0, FrameHolds, KeptFrameHolds DEF SilentInv
<1>2. stored'.refresh = stored.refresh /\ stored'.access = stored.access
  BY TypeParts DEF Greeted, Shown, StoredType
<1>3. \A s \in Tab : page'[s].at = page[s].at
  BY <1>0 DEF Greeted, Shown, PageType
<1>4. \A d \in Call : OnWay(call'[d]) => call'[d] = call[d] /\ OnWay(call[d])
  BY <1>0, OverFields DEF OnWay
<1>5. PageInv'
  BY <1>0, <1>1, <1>2, <1>3, <1>4, PageSame DEF SilentInv, PageInv
<1>6. CallInv'
  <2>1. ASSUME NEW d \in Call, OnWay(call[d])
        PROVE  GoodWay(call[d], call', issued', active', stored', page')
    <3>1. call[d].tab \in Tab /\ GoodWay(call[d], call, issued, active, stored, page)
      BY <2>1, Places DEF SilentInv, CallInv
    <3> QED
      BY <1>1, <1>2, <1>3, <2>1, <3>1, WaySame
  <2>2. \A d \in Call : OnWay(call'[d]) => GoodWay(call'[d], call', issued', active', stored', page')
    BY <1>4, <2>1
  <2>3. \A d, e \in Call : OnWay(call'[d]) /\ call'[d].kind = "login" /\ OnWay(call'[e]) => d = e
    <3>1. \A d, e \in Call : OnWay(call[d]) /\ call[d].kind = "login" /\ OnWay(call[e]) => d = e
      BY DEF SilentInv, CallInv
    <3> QED
      BY <1>4, <3>1
  <2> QED
    BY <2>2, <2>3 DEF CallInv
<1>7. RenewalInv'
  <2>1. ASSUME NEW s \in Tab, renewal[s].phase # "none"
        PROVE  GoodWait(renewal[s], call', issued', active', stored')
    <3>1. GoodWait(renewal[s], call, issued, active, stored)
      BY <2>1 DEF SilentInv, RenewalInv
    <3>2. PICK d \in Call : call[d].phase = "renewing"
      BY <3>1 DEF GoodWait
    <3>3. call'[d].phase = "renewing"
      BY <1>0, <3>2
    <3> QED
      BY <1>1, <1>2, <2>1, <3>1, <3>3, WaitSame
  <2> QED
    BY <1>0, <2>1 DEF RenewalInv
<1>8. StoredInv'
  BY <1>0, <1>1, <1>2, StoredSame DEF SilentInv
<1>9. RetryInv'
  <2>1. \A n : Held(n)' => Held(n)
    BY <1>0, <1>2 DEF Held
  <2> QED
    BY <1>1, <1>4, <2>1, RetrySame DEF SilentInv, OnWay
<1> QED
  BY <1>2, <1>5, <1>6, <1>7, <1>8, <1>9 DEF SilentInv, Alone, SameToken

LEMMA SilentStep ==
  ASSUME TypeInv, SilentInv, Next
  PROVE  SilentInv'
<1>1. CASE Server
  BY <1>1, AnswersSilent, CheckSilent, RotateSilent, OrphansSilent DEF Server
<1>2. CASE Browser
  BY <1>2, LoadsSilent, RenewedSilent, NotRenewedSilent, AwaitSilent, SettlesSilent, LoggedInSilent,
     ShownSilent DEF Browser
<1>3. CASE Person
  BY <1>3, NavigateSilent, LogoutLocallySilent, SendsSilent DEF Person
<1>4. CASE World
  <2>1. (\A c \in Call : ~LoseCall(c)) /\ (\A t \in Tab : ~LoseRenewal(t))
    BY DEF SilentInv, Alone, LoseCall, LoseRenewal
  <2> QED
    BY <1>4, <2>1, ClockSilent DEF World
<1> QED
  BY <1>1, <1>2, <1>3, <1>4 DEF Next

\* One step of SilentRenewal.
LEMMA SilentlyKept ==
  ASSUME TypeInv, SilentInv, Next, stored.access # 0, stored'.access = 0
  PROVE  \/ issued[stored.refresh].refresh = "expired"
         \/ LogoutAsked(issued[stored.refresh].login)
         \/ issued[stored.refresh].account \notin active
<1> DEFINE n == stored.refresh
<1>0. /\ n \in 1..Len(issued) /\ n # 0 /\ issued[n] \in PairType
  <2>1. n # 0 /\ n \in 0..Len(issued) /\ Len(issued) \in Nat /\ issued \in Seq(PairType)
    BY Places DEF SilentInv, SameToken
  <2>2. n \in 1..Len(issued)
    BY <2>1
  <2> QED
    BY <2>1, <2>2, ElementOfSeq
<1>1. EndedIn(call, issued, active, n) => LogoutAsked(issued[n].login) \/ issued[n].account \notin active
  BY DEF EndedIn, LogoutAsked
<1> HIDE DEF n
<1>2. ASSUME NEW t \in Tab, NotRenewed(t)
      PROVE  issued[n].refresh = "expired" \/ EndedIn(call, issued, active, n)
  <2>1. renewal[t].phase = "no" /\ GoodWait(renewal[t], call, issued, active, stored)
    BY <1>2 DEF NotRenewed, SilentInv, RenewalInv
  <2>2. /\ renewal[t].token = n
        /\ issued[n].refresh # "live" \/ EndedIn(call, issued, active, n)
    BY <1>0, <2>1 DEF GoodWait, n
  <2>3. Kept(call, issued, active, n)
    BY <1>0, <2>1 DEF SilentInv, StoredInv, Alone, n
  <2> QED
    BY <1>0, <2>2, <2>3 DEF Kept, PairType
<1>3. ASSUME NEW c \in Call, Expel(c)
      PROVE  EndedIn(call, issued, active, n)
  <2>1. call[c].phase = "answered" /\ call[c].status = 401 /\ ~WantsRenewal(c)
    BY <1>3 DEF Expel, Settle
  <2>2. call[c].retry
    BY <1>0, <2>1 DEF WantsRenewal, n
  <2>3. Held(n)
    BY <1>0 DEF Held, n
  <2> QED
    BY <1>0, <2>1, <2>2, <2>3 DEF SilentInv, RetryInv
<1>4. ASSUME NEW c \in Call, LoggedOut(c)
      PROVE  EndedIn(call, issued, active, n)
  BY <1>0, <1>4 DEF LoggedOut, Settle, SilentInv, CallInv, GoodWay, OnWay, n
<1>5. ASSUME NEW t \in Tab, Renewed(t)
      PROVE  FALSE
  <2>1. renewal[t].pair \in 1..Len(issued) /\ Len(issued) \in Nat
    BY <1>5, Places DEF Renewed
  <2>2. renewal[t].pair \in Token /\ renewal[t].pair # 0
    BY <2>1 DEF Token
  <2> QED
    BY <1>5, <2>2, SetTokensType DEF Renewed
<1>6. ASSUME NEW c \in Call, LoggedIn(c)
      PROVE  FALSE
  <2>1. call[c].pair \in 1..Len(issued) /\ Len(issued) \in Nat
    BY <1>6, Places DEF LoggedIn, Settle
  <2>2. call[c].pair \in Token /\ call[c].pair # 0
    BY <2>1 DEF Token
  <2>3. setTokens(call[c].pair) \in StoredType(Len(issued))
        /\ setTokens(call[c].pair).access = call[c].pair
    BY <2>2, SetTokensType
  <2>4. stored'.access = call[c].pair
    BY <1>6, <2>3 DEF LoggedIn, StoredType
  <2> QED
    BY <2>2, <2>4
<1>7. ASSUME NEW c \in Call, Greeted(c)
      PROVE  FALSE
  BY <1>7, TypeParts DEF Greeted, StoredType
<1>8. CASE stored' = stored
  BY <1>8
<1>9. ASSUME NEW t \in Tab, LogoutLocally(t)
      PROVE  FALSE
  BY <1>0, <1>9 DEF LogoutLocally, n
<1>10. CASE Server \/ World
  BY <1>8, <1>10 DEF Server, ServeLogin, Refuse, Serve, ServeLogout, CheckRenewal, Rotate, CheckOrphan,
     RotateOrphan, World, LoseCall, LoseRenewal, ExpireAccess, ExpireRefresh, Deactivate
<1>11. CASE Person
  <2>1. stored' = stored \/ \E t \in Tab : LogoutLocally(t)
    BY <1>11 DEF Person, Navigate, StartWork, StartLogout, SubmitLogin
  <2> QED
    BY <1>8, <1>9, <2>1
<1>12. CASE Browser
  <2>1. \/ stored' = stored
        \/ \E t \in Tab : Renewed(t) \/ NotRenewed(t)
        \/ \E c \in Call : Expel(c) \/ LoggedIn(c) \/ Greeted(c) \/ LoggedOut(c)
    BY <1>12 DEF Browser, LoadLogin, LoadApp, AwaitRenewal, Shown
  <2>2. issued[n].refresh = "expired" \/ EndedIn(call, issued, active, n) \/ stored' = stored
    BY <1>2, <1>3, <1>4, <1>5, <1>6, <1>7, <2>1
  <2> QED
    BY <1>1, <1>8, <2>2 DEF n
<1> QED
  BY <1>10, <1>11, <1>12 DEF Next

\* In a browser with one tab, whose user waits for the page before leaving it
\* and whose network loses nothing, apiRequest and refreshAccessToken renew a
\* login for as long as its refresh token lives and its account is active: only
\* expiry, a logout or a deactivation takes it out of localStorage, however many
\* requests meet a 401 at once.
THEOREM RenewalIsSilent == Alone /\ Spec => SilentRenewal
<1>1. Alone /\ Init => SilentInv
  BY DEF Init, SilentInv, SameToken, clear, PageInv, CallInv, OnWay, Blank, RenewalInv, StoredInv,
         RetryInv
<1>2. TypeInv /\ SilentInv /\ [Next]_vars => SilentInv'
  <2>1. SilentInv /\ UNCHANGED vars => SilentInv'
    BY DEF SilentInv, Alone, SameToken, PageInv, CallInv, RenewalInv, StoredInv, RetryInv, Held, vars
  <2> QED
    BY <2>1, SilentStep
<1>3. TypeInv /\ SilentInv /\ [Next]_vars =>
        [(stored.access # 0 /\ stored'.access = 0) =>
           \/ issued[stored.refresh].refresh = "expired"
           \/ LogoutAsked(issued[stored.refresh].login)
           \/ issued[stored.refresh].account \notin active]_vars
  BY SilentlyKept DEF vars
<1> QED
  BY <1>1, <1>2, <1>3, TypeInvHolds, PTL DEF Spec, SilentRenewal
=============================================================================

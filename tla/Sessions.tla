------------------------------ MODULE Sessions ------------------------------
(***************************************************************************)
(* The life of a login in the browser: the token pair in localStorage,     *)
(* which every tab of the browser shares, apiRequest with its single retry *)
(* after a silent renewal, the renewal itself, logout, and the server's    *)
(* side of all four.                                                       *)
(*                                                                         *)
(* JavaScript runs a continuation to its end, so an action of a tab is one *)
(* continuation: what it reads from localStorage and what it writes there  *)
(* happen at once, and everything between two awaits of a tab may be       *)
(* interleaved with the server and with the other tabs.  The promises      *)
(* waiting for one renewal are all resumed before the next event.          *)
(***************************************************************************)
EXTENDS Naturals, Sequences, FiniteSets

CONSTANTS
  Tab,        \* the tabs of one browser
  Call,       \* every apiRequest the model lets happen
  Account,
  NoAccount,
  NoTab,
  Faults,     \* whether the network may lose a request or its answer
  Expiries,   \* how many access tokens the model lets expire
  Impatient,  \* whether a page may be left while it waits for an answer
  Barred      \* the accounts an Admin may deactivate meanwhile

ASSUME SessionsAssumption ==
  /\ Faults \in BOOLEAN
  /\ Impatient \in BOOLEAN
  /\ Expiries \in Nat
  /\ NoAccount \notin Account
  /\ NoTab \notin Tab
  /\ Barred \subseteq Account

VARIABLES
  issued,   \* issued[n]: the n-th access and refresh token pair
  stored,   \* localStorage: opsflow_access, opsflow_refresh, opsflow_user
  page,     \* page[t]: what tab t shows
  call,     \* call[c]: one apiRequest, from its first fetch to its end
  renewal,  \* renewal[t]: refreshInFlight of tab t, with its fetch
  orphans,  \* renewals on their way to a server nobody listens to any more
  active    \* the accounts whose is_active is set

vars == <<issued, stored, page, call, renewal, orphans, active>>

Kind == {"login", "work", "me", "logout"}
Phase == {"idle", "sent", "answered", "renewing", "unheard", "settled"}

\* Token 0 is no token.
Token == 0..Len(issued)

PairType == [login : Call, account : Account,
             access : {"live", "expired"}, refresh : {"live", "spent", "expired"}]

CallType == [phase : Phase, kind : Kind, tab : Tab \cup {NoTab}, by : Account \cup {NoAccount},
             access : Nat, body : Nat, good : BOOLEAN, retry : BOOLEAN,
             status : {0, 200, 400, 401}, answer : Account \cup {NoAccount},
             pair : Nat, times : Nat]

RenewalType == [phase : {"none", "sent", "checked", "yes", "no"}, token : Nat, pair : Nat]

PageType == [at : {"gone", "login", "app"}, shown : Account \cup {NoAccount}]

OrphanType == [token : Nat, checked : BOOLEAN]

\* The variables have these types, and every token named is one that was issued.
TypeOK ==
  /\ issued \in Seq(PairType)
  /\ stored \in [access : Token, refresh : Token, user : Account \cup {NoAccount}]
  /\ page \in [Tab -> PageType]
  /\ call \in [Call -> CallType]
  /\ renewal \in [Tab -> RenewalType]
  /\ orphans \in SUBSET OrphanType
  /\ active \subseteq Account
  /\ \A c \in Call : {call[c].access, call[c].body, call[c].pair} \subseteq Token
  /\ \A t \in Tab : {renewal[t].token, renewal[t].pair} \subseteq Token
  /\ \A o \in orphans : o.token \in Token

-----------------------------------------------------------------------------
(* The server. *)

Pair(login, account) ==
  [login |-> login, account |-> account, access |-> "live", refresh |-> "live"]

\* JWTAuthentication: the account a request is carried out for.  A token that
\* has not expired is of no use to an account that is not active.
Authenticated(n) ==
  IF n # 0 /\ issued[n].access = "live" /\ issued[n].account \in active
    THEN issued[n].account ELSE NoAccount

Usable(n) == issued[n].refresh = "live"

Blank ==
  [phase |-> "idle", kind |-> "work", tab |-> NoTab, by |-> NoAccount, access |-> 0,
   body |-> 0, good |-> TRUE, retry |-> FALSE, status |-> 0, answer |-> NoAccount,
   pair |-> 0, times |-> 0]

\* What is left of a call that is over: what kind it was and what it carried.
Over(c) == [Blank EXCEPT !.phase = "settled", !.kind = call[c].kind, !.body = call[c].body]

UnderWay(c) == call[c].phase \in {"sent", "answered", "renewing"}

Answer(c, s, a, n) ==
  [call EXCEPT ![c] =
     [call[c] EXCEPT !.phase = IF call[c].phase = "unheard" THEN "settled" ELSE "answered",
                     !.status = s, !.answer = a, !.pair = n]]

AtServer(c) == call[c].phase \in {"sent", "unheard"}

\* CustomTokenObtainPairView.post: good credentials are those of some account,
\* and get a pair when that account is active.
ServeLogin(c) ==
  /\ AtServer(c) /\ call[c].kind = "login"
  /\ \/ \E a \in active :
          /\ call[c].good
          /\ issued' = Append(issued, Pair(c, a))
          /\ call' = Answer(c, 200, a, Len(issued) + 1)
     \/ /\ call[c].good => active # Account
        /\ call' = Answer(c, 401, NoAccount, 0)
        /\ UNCHANGED issued
  /\ UNCHANGED <<stored, page, renewal, orphans, active>>

\* A request without a live access token of an active account is answered 401
\* before its view runs.
Refuse(c) ==
  /\ AtServer(c) /\ call[c].kind # "login"
  /\ Authenticated(call[c].access) = NoAccount
  /\ call' = Answer(c, 401, NoAccount, 0)
  /\ UNCHANGED <<issued, stored, page, renewal, orphans, active>>

\* Any other view, UserMeView among them.
Serve(c) ==
  LET a == Authenticated(call[c].access)
  IN /\ AtServer(c) /\ call[c].kind \in {"work", "me"}
     /\ a # NoAccount
     /\ call' = [Answer(c, 200, a, 0) EXCEPT ![c].times = @ + 1]
     /\ UNCHANGED <<issued, stored, page, renewal, orphans, active>>

\* LogoutView.post: the refresh token in the body is blacklisted, or refused
\* when it is blacklisted or expired already.
ServeLogout(c) ==
  LET n == call[c].body
  IN /\ AtServer(c) /\ call[c].kind = "logout"
     /\ Authenticated(call[c].access) # NoAccount
     /\ call' = Answer(c, IF Usable(n) THEN 200 ELSE 400, NoAccount, 0)
     /\ issued' = IF Usable(n) THEN [issued EXCEPT ![n].refresh = "spent"] ELSE issued
     /\ UNCHANGED <<stored, page, renewal, orphans, active>>

\* ROTATE_REFRESH_TOKENS and BLACKLIST_AFTER_ROTATION: the token is first
\* looked up in the blacklist, then put there, and a new pair handed out.
Rotated(n) ==
  Append([issued EXCEPT ![n].refresh = IF @ = "live" THEN "spent" ELSE @],
         Pair(issued[n].login, issued[n].account))

\* SimpleJWT looks at the account's is_active, too, in its newer versions only:
\* requirements.txt admits both.
Renewable(n) ==
  {Usable(n), Usable(n) /\ issued[n].account \in active}

CheckRenewal(t) ==
  /\ renewal[t].phase = "sent"
  /\ \E granted \in Renewable(renewal[t].token) :
       renewal' = [renewal EXCEPT ![t].phase = IF granted THEN "checked" ELSE "no"]
  /\ UNCHANGED <<issued, stored, page, call, orphans, active>>

Rotate(t) ==
  /\ renewal[t].phase = "checked"
  /\ issued' = Rotated(renewal[t].token)
  /\ renewal' = [renewal EXCEPT ![t] = [renewal[t] EXCEPT !.phase = "yes", !.pair = Len(issued')]]
  /\ UNCHANGED <<stored, page, call, orphans, active>>

CheckOrphan(o) ==
  /\ ~o.checked
  /\ \E granted \in Renewable(o.token) :
       orphans' = (orphans \ {o}) \cup (IF granted THEN {[o EXCEPT !.checked = TRUE]} ELSE {})
  /\ UNCHANGED <<issued, stored, page, call, renewal, active>>

RotateOrphan(o) ==
  /\ o.checked
  /\ issued' = Rotated(o.token)
  /\ orphans' = orphans \ {o}
  /\ UNCHANGED <<stored, page, call, renewal, active>>

-----------------------------------------------------------------------------
(* The network and the clock. *)

\* fetch rejects: the request never arrived, or its answer never came back.
\* apiRequest throws an ApiError of status 0, the renewal's catch says false.
LoseCall(c) ==
  /\ Faults
  /\ call[c].phase \in {"sent", "answered"}
  /\ call' = [call EXCEPT ![c] = [call[c] EXCEPT !.phase = "answered", !.status = 0]]
  /\ UNCHANGED <<issued, stored, page, renewal, orphans, active>>

LoseRenewal(t) ==
  /\ Faults
  /\ renewal[t].phase \in {"sent", "yes"}
  /\ renewal' = [renewal EXCEPT ![t].phase = "no"]
  /\ UNCHANGED <<issued, stored, page, call, orphans, active>>

\* A renewal and the retries it makes way for take less than the half hour
\* the new access token lives.
InUseForRetry(n) ==
  \/ \E t \in Tab : renewal[t].phase = "yes" /\ renewal[t].pair = n
  \/ \E c \in Call : call[c].phase = "sent" /\ call[c].retry /\ call[c].access = n

\* ACCESS_TOKEN_LIFETIME
ExpireAccess(n) ==
  /\ issued[n].access = "live"
  /\ ~InUseForRetry(n)
  /\ Cardinality({m \in 1..Len(issued) : issued[m].access = "expired"}) < Expiries
  /\ issued' = [issued EXCEPT ![n].access = "expired"]
  /\ UNCHANGED <<stored, page, call, renewal, orphans, active>>

\* REFRESH_TOKEN_LIFETIME, which is longer.
ExpireRefresh(n) ==
  /\ issued[n].access = "expired"
  /\ issued[n].refresh = "live"
  /\ issued' = [issued EXCEPT ![n].refresh = "expired"]
  /\ UNCHANGED <<stored, page, call, renewal, orphans, active>>

\* UserManagementDetailView.patch: the account's is_active is taken
\* away and its tokens are left as they are.  Nobody gives it back here.
Deactivate(a) ==
  /\ a \in active \cap Barred
  /\ active' = active \ {a}
  /\ UNCHANGED <<issued, stored, page, call, renewal, orphans>>

-----------------------------------------------------------------------------
(* The page. *)

\* Variant: an answer's refresh token is kept only when there is none yet.
KeepsRefresh(n) ==
  [stored EXCEPT !.access = n, !.refresh = IF @ = 0 THEN n ELSE @]

\* Auth.setTokens, with the access and the refresh token of one answer.
setTokens(n) == [stored EXCEPT !.access = n, !.refresh = n]

\* Auth.clear
clear == [access |-> 0, refresh |-> 0, user |-> NoAccount]

\* window.location.href = ...: the page runs on until the new one is loaded.
\* redirectToLogin stays where it is on the login page.
Leaving(t) == [page EXCEPT ![t].at = "gone"]
redirectToLogin(t) == [page EXCEPT ![t].at = IF @ = "login" THEN @ ELSE "gone"]

\* Unloading a page drops every continuation of it; a request that is under
\* way may still reach the server.
Dropped(t) ==
  [c \in Call |->
     IF call[c].tab # t THEN call[c]
     ELSE CASE call[c].phase = "sent" -> [call[c] EXCEPT !.phase = "unheard"]
            [] call[c].phase \in {"answered", "renewing"} -> Over(c)
            [] OTHER -> call[c]]

DropRenewal(t) ==
  /\ renewal' = [renewal EXCEPT ![t] = [phase |-> "none", token |-> 0, pair |-> 0]]
  /\ orphans' = orphans \cup
       (IF renewal[t].phase \in {"sent", "checked"}
          THEN {[token |-> renewal[t].token, checked |-> renewal[t].phase = "checked"]}
          ELSE {})

\* apiRequest up to its fetch.
Sent(t, k, body, good) ==
  [Blank EXCEPT !.phase = "sent", !.kind = k, !.tab = t, !.by = page[t].shown,
                !.access = stored.access, !.body = body, !.good = good]

\* A page that finds no access token is, or goes to, the login page.
LoadLogin(t) ==
  /\ page[t].at = "gone"
  /\ stored.access = 0
  /\ page' = [page EXCEPT ![t] = [at |-> "login", shown |-> NoAccount]]
  /\ call' = Dropped(t)
  /\ DropRenewal(t)
  /\ UNCHANGED <<issued, stored, active>>

\* Layout.init: the shell is drawn for the cached user, then /auth/me/ asked.
LoadApp(t, c) ==
  /\ page[t].at = "gone"
  /\ stored.access # 0
  /\ call[c].phase = "idle"
  /\ page' = [page EXCEPT ![t] = [at |-> "app", shown |-> stored.user]]
  /\ call' = [Dropped(t) EXCEPT ![c] = [Sent(t, "me", 0, TRUE) EXCEPT !.by = stored.user]]
  /\ DropRenewal(t)
  /\ UNCHANGED <<issued, stored, active>>

Navigate(t) ==
  /\ page[t].at = "app"
  /\ Impatient \/ \A c \in Call : call[c].tab = t => ~UnderWay(c)
  /\ page' = Leaving(t)
  /\ UNCHANGED <<issued, stored, call, renewal, orphans, active>>

\* The button is disabled while a login is under way.
SubmitLogin(t, c, good) ==
  /\ page[t].at = "login"
  /\ \A d \in Call : ~(call[d].kind = "login" /\ call[d].tab = t /\ UnderWay(d))
  /\ call[c].phase = "idle"
  /\ call' = [call EXCEPT ![c] = Sent(t, "login", 0, good)]
  /\ UNCHANGED <<issued, stored, page, renewal, orphans, active>>

StartWork(t, c) ==
  /\ page[t].at = "app"
  /\ call[c].phase = "idle"
  /\ call' = [call EXCEPT ![c] = Sent(t, "work", 0, TRUE)]
  /\ UNCHANGED <<issued, stored, page, renewal, orphans, active>>

\* Layout.logout: the refresh token goes into the body now, for both attempts.
StartLogout(t, c) ==
  /\ page[t].at = "app"
  /\ stored.refresh # 0
  /\ call[c].phase = "idle"
  /\ call' = [call EXCEPT ![c] = Sent(t, "logout", stored.refresh, TRUE)]
  /\ UNCHANGED <<issued, stored, page, renewal, orphans, active>>

LogoutLocally(t) ==
  /\ page[t].at = "app"
  /\ stored.refresh = 0
  /\ stored' = clear
  /\ page' = Leaving(t)
  /\ UNCHANGED <<issued, call, renewal, orphans, active>>

\* Variant: a request that got no answer is sent again, too.
AlsoWhenLost(c) == call[c].status \in {0, 401} /\ ~call[c].retry /\ stored.refresh # 0

\* An answer 401 to a first attempt is worth a renewal.
WantsRenewal(c) == call[c].status = 401 /\ ~call[c].retry /\ stored.refresh # 0

\* apiRequest awaits refreshAccessToken, which joins the tab's renewal or
\* starts one with the refresh token of this moment.
AwaitRenewal(c) ==
  LET t == call[c].tab
  IN /\ call[c].phase = "answered"
     /\ WantsRenewal(c)
     /\ call' = [call EXCEPT ![c].phase = "renewing"]
     /\ renewal' = IF renewal[t].phase # "none" THEN renewal
                   ELSE [renewal EXCEPT ![t] = [phase |-> "sent", token |-> stored.refresh, pair |-> 0]]
     /\ UNCHANGED <<issued, stored, page, orphans, active>>

\* The renewal is answered: refreshAccessToken stores what came, forgets
\* refreshInFlight, and every request awaiting it is sent again or gives up.
Renewed(t) ==
  /\ renewal[t].phase = "yes"
  /\ stored' = setTokens(renewal[t].pair)
  /\ call' = [c \in Call |->
                IF call[c].tab = t /\ call[c].phase = "renewing"
                  THEN [call[c] EXCEPT !.phase = "sent", !.retry = TRUE, !.access = stored'.access]
                  ELSE call[c]]
  /\ renewal' = [renewal EXCEPT ![t] = [phase |-> "none", token |-> 0, pair |-> 0]]
  /\ UNCHANGED <<issued, page, orphans, active>>

NotRenewed(t) ==
  /\ renewal[t].phase = "no"
  /\ stored' = clear
  /\ page' = redirectToLogin(t)
  /\ call' = [c \in Call |->
                IF call[c].tab = t /\ call[c].phase = "renewing" THEN Over(c) ELSE call[c]]
  /\ renewal' = [renewal EXCEPT ![t] = [phase |-> "none", token |-> 0, pair |-> 0]]
  /\ UNCHANGED <<issued, orphans, active>>

Settle(c) ==
  /\ call[c].phase = "answered"
  /\ ~WantsRenewal(c)
  /\ call' = [call EXCEPT ![c] = Over(c)]
  /\ UNCHANGED <<issued, renewal, orphans, active>>

\* A 401 to a retry, or with nothing to renew, throws the login away.  A
\* logout would do the same anyway.
Expel(c) ==
  /\ Settle(c)
  /\ call[c].status = 401
  /\ stored' = clear
  /\ page' = IF call[c].kind = "logout" THEN Leaving(call[c].tab) ELSE redirectToLogin(call[c].tab)

LoggedIn(c) ==
  /\ Settle(c)
  /\ call[c].kind = "login" /\ call[c].status = 200
  /\ stored' = [setTokens(call[c].pair) EXCEPT !.user = call[c].answer]
  /\ page' = Leaving(call[c].tab)

\* Layout.init stores the user the server knows and draws the shell anew.
Greeted(c) ==
  LET t == call[c].tab
  IN /\ Settle(c)
     /\ call[c].kind = "me" /\ call[c].status = 200
     /\ stored' = [stored EXCEPT !.user = call[c].answer]
     /\ page' = [page EXCEPT ![t].shown = call[c].answer]

\* Variant: only a logout the server accepted clears the login.
EndsWhenAccepted(status) == status = 200

\* Layout.logout clears the login whatever the server answered.
LogoutEnds(status) == TRUE

LoggedOut(c) ==
  /\ Settle(c)
  /\ call[c].kind = "logout" /\ call[c].status # 401
  /\ stored' = IF LogoutEnds(call[c].status) THEN clear ELSE stored
  /\ page' = IF LogoutEnds(call[c].status) THEN Leaving(call[c].tab) ELSE page

\* Nothing but the page's own display is left to do.
Shown(c) ==
  /\ Settle(c)
  /\ call[c].status # 401
  /\ call[c].kind = "work" \/ (call[c].kind \in {"login", "me"} /\ call[c].status = 0)
  /\ UNCHANGED <<stored, page, active>>

-----------------------------------------------------------------------------

Init ==
  /\ issued = <<>>
  /\ stored = clear
  /\ page = [t \in Tab |-> [at |-> "gone", shown |-> NoAccount]]
  /\ call = [c \in Call |-> Blank]
  /\ renewal = [t \in Tab |-> [phase |-> "none", token |-> 0, pair |-> 0]]
  /\ orphans = {}
  /\ active = Account

Server ==
  \/ \E c \in Call : ServeLogin(c) \/ Refuse(c) \/ Serve(c) \/ ServeLogout(c)
  \/ \E t \in Tab : CheckRenewal(t) \/ Rotate(t)
  \/ \E o \in orphans : CheckOrphan(o) \/ RotateOrphan(o)

Browser ==
  \/ \E t \in Tab : LoadLogin(t) \/ Renewed(t) \/ NotRenewed(t)
  \/ \E t \in Tab, c \in Call : LoadApp(t, c)
  \/ \E c \in Call : AwaitRenewal(c) \/ Expel(c) \/ LoggedIn(c) \/ Greeted(c)
                     \/ LoggedOut(c) \/ Shown(c)

Person ==
  \/ \E t \in Tab : Navigate(t) \/ LogoutLocally(t)
  \/ \E t \in Tab, c \in Call : StartWork(t, c) \/ StartLogout(t, c)
  \/ \E t \in Tab, c \in Call, good \in BOOLEAN : SubmitLogin(t, c, good)

World ==
  \/ \E c \in Call : LoseCall(c)
  \/ \E t \in Tab : LoseRenewal(t)
  \/ \E n \in 1..Len(issued) : ExpireAccess(n) \/ ExpireRefresh(n)
  \/ \E a \in Account : Deactivate(a)

Next == Server \/ Browser \/ Person \/ World

Spec == Init /\ [][Next]_vars

\* The server answers what reaches it and the browser runs its callbacks;
\* nobody has to click or to be deactivated, and nothing has to expire or to
\* get lost.
FairSpec ==
  /\ Spec
  /\ \A c \in Call : /\ WF_vars(ServeLogin(c) \/ Refuse(c) \/ Serve(c) \/ ServeLogout(c))
                     /\ WF_vars(AwaitRenewal(c) \/ Expel(c) \/ LoggedIn(c) \/ Greeted(c)
                                \/ LoggedOut(c) \/ Shown(c))
  /\ \A t \in Tab : /\ WF_vars(CheckRenewal(t) \/ Rotate(t))
                    /\ WF_vars(LoadLogin(t) \/ Renewed(t) \/ NotRenewed(t))

-----------------------------------------------------------------------------
(* Properties. *)

LogoutAsked(login) ==
  \E c \in Call : call[c].phase # "idle" /\ call[c].kind = "logout" /\ issued[call[c].body].login = login

\* Access tokens are renewed without the person noticing: a login leaves
\* localStorage only when its refresh token has expired, somebody logged it out
\* or its account was deactivated (apiRequest and refreshAccessToken).
SilentRenewal ==
  [][(stored.access # 0 /\ stored'.access = 0) =>
       \/ issued[stored.refresh].refresh = "expired"
       \/ LogoutAsked(issued[stored.refresh].login)
       \/ issued[stored.refresh].account \notin active]_vars

\* What a person starts on a page drawn for one account is carried out for
\* that account and no other, however often it is sent (the token and the
\* refresh token are read from localStorage again at the retry).
ActsForWhoAsked ==
  \A c \in Call :
    (call[c].kind = "work" /\ {call[c].by, call[c].answer} \subseteq Account)
      => call[c].answer = call[c].by

\* A request is sent twice when its first attempt is answered 401, yet takes
\* effect at most once (apiRequest retries nothing else).
AtMostOnce == \A c \in Call : call[c].times <= 1

\* The access and the refresh token in localStorage belong to one login.
StoredTokensMatch ==
  /\ stored.access = 0 <=> stored.refresh = 0
  /\ stored.access # 0 => issued[stored.access].login = issued[stored.refresh].login

\* A logout ends with the page left, whether the server blacklists the token or
\* refuses it, and whatever other requests do meanwhile: the login is cleared
\* when the answer comes, whichever it is (Layout.logout).  The run loses no
\* requests.
LogoutLeaves ==
  \A c \in Call, t \in Tab :
    (call[c].kind = "logout" /\ call[c].tab = t /\ call[c].phase = "sent" /\ page[t].at = "app")
      ~> page[t].at # "app"

\* A logout that is over leaves the login without a usable refresh token
\* (LogoutView blacklists "so it can't be used again").
LogoutRevokes ==
  \A c \in Call :
    call[c].kind = "logout" /\ call[c].phase = "settled" =>
      \A n \in 1..Len(issued) :
        issued[n].login = issued[call[c].body].login => issued[n].refresh # "live"

=============================================================================

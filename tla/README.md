# OpsFlow: specifications, checks and proofs

OpsFlow is a Django REST API over MySQL and a browser client in plain
JavaScript that the same container serves. This directory holds TLA+ models of
its stateful parts, TLC configurations for small instances of them, and proofs
that TLAPS checks for every instance. Paths are relative to the repository;
the backend is under `src/`, the client under `frontend/`.

1. The system: components, state, operations, interactions, hazards
2. The modules and what they stand for
3. The runs, their bounds and what they show
4. Where the code disagrees with its own documentation
5. Fairness
6. The proofs
7. Left out, and the plan

## 1. The system

Every request is one thread of a WSGI server. `ATOMIC_REQUESTS` is not set, so
**each database statement of a handler is its own commit**; the only explicit
transaction in the application code is `transition_task_status`. Handlers read
a row (`get_object`), judge it, and write it back with `Model.save()`, which
writes **every column** of the copy. There is no background worker and no
queue: what a request owes others (audit entries, notifications) it writes
itself, after its main statement. In the browser every menu entry is a page
load; what survives one is `localStorage`, which all tabs share.

| Component | State | Operations | Talks to | What makes it correct |
|---|---|---|---|---|
| Tasks (`apps/tasks`) | tasks, approval history | create, edit, transition, delete, list | audit, notifications, accounts (assignee) | the workflow is followed; an approved task is final; organizations stay apart; every transition leaves history and audit entry; Employees move only the status of their own tasks |
| Accounts (`apps/authentication`) | users, mailed reset links | sign-up, provision, PATCH/PUT by an Admin, profile, password, reset | audit, notifications | there is always an Admin; nobody obtains Admin over HTTP; a link works once; standing changes are audited and told |
| Login sessions (`frontend/js/api.js`, token views) | token pairs, blacklist, `localStorage`, `refreshInFlight` | login, request with retry, renewal, logout | all pages | access tokens are renewed unnoticed; no request takes effect twice; a logout ends the login |
| Audit log (`apps/audit`) | AuditLog | `record_audit_log`, list | called by the handlers | agrees with the tables it tells about; immutable |
| Notification inbox (`apps/notifications`) | Notification | `notify_user`, list, mark read, mark all read | called by the handlers | whoever a change concerns is told; the badge counts what is unread |
| Organizations, departments | two tables | CRUD, guarded deletion | root of every cascade | deletion is refused while anything depends on the organization |
| Clients; projects and members | three tables | CRUD, membership upsert | tasks, organizations | tenancy; unique names; what a deletion takes along is known |
| Demo seeding | users | `seed_demo_users` at every container start | accounts | after any number of killed starts, the accounts can log in |
| Growth analytics | none | bucketed counts | all tables, read only | the buckets tile the range: nothing counted twice or not at all |
| Record pages | filters, rows, option lists, dialog, requests under way | load, filter, search, edit, delete | the API | the quiet list is current; an edit sends what was listed or chosen; a dialog creates once; nothing waits for ever |
| Dashboard and shell | stored role, menus, panel, dot, theme, charts | guard, links, menus, mark read, toggles, hover | the API, `localStorage` | a page runs for its roles only; the dot, the list and the charts agree with the server, with one another and with their buttons |
| Permissions, error envelope, settings, Django admin, presentation | none, or generated | | | |

Interactions: the pages call the API through `apiRequest`; handlers call
`record_audit_log` and `notify_user` in-process; handlers of different requests
meet only in the database, and tabs meet only in `localStorage` and at the
server. The interesting behaviour is therefore in *what happens between two
statements of a handler, or between two awaits of a page*: another request
changes the row that was read, the process dies, an answer comes late or not
at all. `PROJECT.json` lists these hazards one by one, at their lines, with
the properties aimed at each.

## 2. The modules

| Module | Role |
|---|---|
| `TaskWorkflow` | the task endpoint, statement by statement |
| `TaskLifecycle` | what the endpoint promises: the life of a task in atomic steps |
| `TaskWorkflowProofs` | theorems about both: types, lock, refinement, and what the tables say of each other |
| `Accounts` | the account endpoints, statement by statement |
| `AccountsProofs` | theorems about it: types and Admin power |
| `AccountsTablesProofs` | theorems about organizations, notices, standing, links and the audit log |
| `Sessions` | token pairs, the pages' `apiRequest`, the renewal, the server's token endpoints |
| `SessionsProofs` | theorems about it |
| `Directory` | organizations, departments, clients, projects, members, the links of tasks, and every deletion with its cascade, statement by statement |
| `DirectoryProofs` | theorems about it |
| `RecordPage` | what the five record pages share: list, dialog, requests, the database behind them |
| `TasksPage`, `ProjectsPage`, `ClientsPage`, `OrganizationsPage`, `UsersPage` | the handlers of each page, on top of `RecordPage` |
| `RecordPages` | a window on one of the five, each an `INSTANCE` over the same variables |
| `RecordPagesProofs` | theorems about it, for all five pages at once |
| `Shell` | what surrounds every page: guard, sidebar, menus, bell, panel, theme |
| `Dashboard`, `AuditPage`, `InboxPage` | the pages that are no record pages, on top of `Shell` |
| `Charts` | the arithmetic of the two canvas charts, as operators |
| `Desk` | one tab that goes from page to page: `Shell` with the three pages inside |
| `DeskProofs` | theorems about it |
| `RequestLists` | lemmas about lists of requests under way, for `DeskProofs` and `RecordPagesProofs` |
| `MCTaskWorkflow`, `MCAccounts`, `MCSessions`, `MCDirectory`, `MCRecordPages`, `MCDesk` | values for the constants of the TLC runs |

### TaskWorkflow and TaskLifecycle

`row`, `history`, `audit` and `inbox` are the tables `tasks`,
`TaskApprovalHistory`, `AuditLog` and `Notification` (only the rows about
tasks). `born` are the primary keys handed out: none is used twice.
`req[r]` is the thread that serves request `r`: the statement it will execute
next (`pc`), the caller, the serializer's instance (`copy`), the validated data
(`patch`), the assignee before (`prev`), and the recipients it still has to
notify (`todo`). An action is the code **from one statement to just before the
next**:

| Action | Code |
|---|---|
| `CreateTask`, `AuditCreate` | `TaskViewSet.perform_create`, the INSERT and the audit entry |
| `BeginUpdate` | `get_object`, permission check, `is_valid()`, and the dropping of an Employee's fields |
| `SaveFields`, `AuditUpdate` | `serializer.save()` of the copy; the comparison of before and after; the entry |
| `TransitionTaskStatus`, `TransitionRefused` | `transition_task_status`: SELECT FOR UPDATE, checks, row + history + audit in one commit; or its refusals |
| `NotifyStatus`, `NotifyAssignee`, `NotifyFails` | the notifications, and the INSERT that fails for a verb over 255 characters |
| `BeginDelete`, `AuditDelete`, `DeleteRow` | `perform_destroy`: the entry first, the row and its history after |
| `Refused` | everything turned away before the first write |
| `Abort` | the thread dies between two statements (only with `Faults`) |

A transaction with its row lock is one action: other transactions on the row
wait for it, and the autocommitted statements before and after are actions of
their own. `save()` of a row that has been deleted meanwhile inserts it again,
as Django does. Title, description, priority and due date are one abstract
`Content`, because no rule tells them apart except the length of the title.

`TaskLifecycle` knows no requests, copies or statements: a task is unborn,
alive or deleted, has a body, a status, a seal and a number of moves.
`ImplementsLifecycle` maps the table onto it. The mapping holds exactly as
long as what is written back is what is stored: see sections 3 and 6.

### Accounts

`user` is the users table by its unique e-mail, `given` the sequence of hashes
`set_password` made (salted, so each is new: a hash is the number of the call
that made it), `mail` the reset links sent, `audit` and `inbox` the rows about
accounts. `req[r]` holds `request.user` (`me`), the target as it was when its
previous values were noted (`seen`), the serializer's instance and later the
refreshed target (`copy`), the body and the link.

| Action | Code |
|---|---|
| `BeginSignup`, `BeginProvision`, `InsertUser`, `AuditCreate` | check-then-insert of `UserRegisterView` and `UserManagementListCreateView`; the unique index decides |
| `BeginAdminUpdate`, `GetTarget`, `CountAdmins`, `LoadInstance`, `SaveInstance`, `RefreshTarget`, `AuditUpdate`, `NotifyRole`, `NotifyActive` | `AdminUserDetailView.patch`, query by query; PUT enters at `LoadInstance`, because `put()` is the inherited one |
| `BeginProfile`, `SaveProfile` | PATCH of `UserMeView`: a full save of the row the authentication read |
| `BeginChangePassword`, `RequestReset`, `BeginConfirm`, `SetPassword` | the password endpoints and `PasswordResetService` |
| `BeginLogin`, `AuditLogin` | the login, as far as the users table and the audit log are concerned |
| `Refused`, `Abort` | as above |

A body carries its method and whether it is a form, because the last-admin
check reads `request.data` as it came while the serializer coerces it. Names
and e-mail texts are left out: a profile edit is the writing back of a row.

### Sessions

`issued[n]` is the n-th token pair with the state of its two halves (an access
token lives or has expired; a refresh token lives, is blacklisted, or has
expired); `stored` is `localStorage`; `page[t]` what tab `t` shows and for
whom; `call[c]` one `apiRequest` from its first `fetch` to its end;
`renewal[t]` is `refreshInFlight` of the tab; `orphans` are renewals on their
way to the server from a page that is gone. An action of a tab is one
JavaScript continuation, which nothing interrupts; everything between two
awaits may be interleaved. The server looks a refresh token up in the
blacklist and rotates it in two statements (`CheckRenewal`, `Rotate`), so two
tabs can present one token at once. `redirectToLogin` and `location.href`
leave the old page running until the new one is loaded (`Leaving`, `LoadApp`,
`LoadLogin`), which is why some continuations run after a logout. `active` are
the accounts that may log in: an Admin may take one of `Barred` out at any
moment (`Deactivate`), with its tokens left as they are. The API then answers
401 to a token that is still live. Whether the renewal is refused as well
depends on the version of SimpleJWT (`requirements.txt` says 5.3.1 or later),
so `Renewable` allows both.

### Directory

`status[k]` says whether the row with primary key `k` is unborn, live or gone,
`row[x]` holds the columns rules look at: the organization and the nullable
link (a project's client, a task's project, a department's parent). `member`,
`home` and `audit` are the project members, the accounts' organizations and
the audit entries. `req[r]` is what the handler holds, its copy (`new`) and
the point it has reached.

| Action | Code |
|---|---|
| `Create`, `Update`, `Save`, `Audit` | the view sets' `perform_create` and `perform_update`: tenancy checked when the body is read, the whole copy written later (`Save` inserts a row deleted meanwhile), the entry last |
| `Destroy`, `Audit`, `Collect`, `Purge` | `perform_destroy`: the entry first; then Django's collector reads what cascades, and one transaction removes it |
| `AddMember`, `Join`, `RemoveMember`, `Leave` | the two member actions of `ProjectViewSet` |
| `CreateOrg`, `UpdateOrg`, `SaveOrg`, `DestroyOrg`, `CountRelated` | `OrganizationViewSet`: four counts, one statement each, before the deletion |
| `MoveUser` | the admin site, the only place that changes an account's organization |
| `Abort` | the worker dies between two statements |

The collector and InnoDB are not in the repository. They are modelled from the
`on_delete` of the models: `CASCADE` (organization, the project of a task),
`SET_NULL` (client, parent), `RESTRICT` (accounts). A transaction that meets a
row it had not read fails on the foreign key and changes nothing (`Blocking`).
`before`, what an organization held when its deletion began and has held ever
since, is a ghost that the properties use.

### RecordPage and the five pages

`calls` are the requests under way in the order they were sent, each sent,
answered or lost; any of them may be handled next, so answers overtake one
another. An action is one stretch of a script up to its next await. `view` is
what the controls show, with the debounce timer; `lastRows` and `table` what
the list shows; `options` what the selects offer; `dialog` the form with the
listed copy it was opened on; `rows` the table on the server. `excused` is a
ghost: another person wrote, an answer overtook an older one, or the answer to
a write was lost. Each page module translates its own script: the guard's
callback, the option lists, the filters, `openModal`, the save handler and its
validation, the delete button, and what the serializer and the view accept
(`accepts`). That a refusal comes only to a stale save is a property of the step
at which the server refuses: later the row may become the listed one again.

### Shell, Dashboard, AuditPage, InboxPage, Charts, Desk

`cached` is the user in `localStorage` and `role` the truth on the server;
`gate` follows `Layout.init` from the stored user to the answer of
`/auth/me/`; `dot`, `panel` and `marking` are the bell; `body` is the state of
the page in the document and is thrown away with it. The dashboard keeps, for
each chart, its lit button, what is drawn, the message over it and the theme
it was drawn in. `Charts` holds the formulas of `charts.js` over integers: the
scale, the grid and its numbers, the labels, widths and places of bars and
points, the nearest row under the mouse and the place of the tooltip. A canvas
has one size when it is drawn and any other when the mouse comes: `getCanvasSize`
measures it at drawing and takes 320 by 220 for anything smaller (`Picture`), the
mouse handlers measure it again, and nothing redraws in between. The inbox shows
the page of newest notices that the API answers with (`Listed`), not all.
`missed` is a ghost: which parts of the screen know less than the server,
because a notice came or an answer was lost or overtaken.

Definitions commented as a *faulty variant* belong to no action. Each is a
plausible mistake in the definition that follows it; put in its place, it makes
the run of the property it is paired with in `PROJECT.json` fail. They show
that the properties can be broken by a change of the code.

## 3. The runs

Each run asks one question. Bounds: requests (or calls) are finite in number
and never return to `idle`, so every run is finite without a state constraint;
`Workers` bounds how many of them are in flight together.

| Run | Instance | What it shows |
|---|---|---|
| `task_status_only` | 1 task in any starting status, 4 users of 2 organizations, 3 concurrent requests with every status, crashes | the locked transaction suffices when bodies carry only a status: the versions of the audited transitions form one unbroken path (`AuditChain`) |
| `task_serial` | 2 tasks, 3 requests one after the other, edits, reassignments, creations, deletions, crashes | approval is final (`LockedIsFinal`), a refused request wrote nothing, and the endpoint implements `TaskLifecycle` |
| `task_concurrent` | 1 task, 3 requests, 2 at a time, edits written back from stale copies, crashes | what survives racing writers: lock and approval stay together, history has its audit entry, organizations stay apart, Employees stay confined |
| `task_notices` | 1 task, 2 concurrent requests, no crash, no overlong title | everybody owed a notice gets it |
| `task_lock_race` | as above, one edit and one approval | **violation** of `LockedIsFinal`, section 4 |
| `accounts_serial` | 2 Admins, an Employee, a free address, 3 requests one after the other, the bodies the screens send | an Admin remains, the audit log agrees with the table, a link works once, only the admin screen changes standing |
| `accounts_concurrent` | an Admin in each of 2 organizations, 3 requests, 2 at a time, any method, forms, foreign departments, colliding sign-ups, crashes | Admin power is never obtained over HTTP, organizations stay apart, a PATCH that was answered has told whom it concerns (`AffectedAreTold`) |
| `sessions_one_tab` | 1 tab, 3 calls, 2 accounts of which one may be deactivated, 2 expiries, pages wait for their answers (52,488 states) | concurrent 401s share one renewal and never cost the login of an active account; a logout always leaves the page |
| `sessions_tabs` | 2 tabs, 3 calls, lost requests and answers, pages left early, both accounts may be deactivated (364,926 states) | a retried request takes effect once; `localStorage` never mixes two logins |
| `directory` | 2 organizations and one that may be created, a client, a project, a task, 2 departments, 2 accounts, 3 requests, 2 at a time, 2 moves on the admin site, deaths anywhere | links stay sound and inside one organization (`LinksHold`), nothing disappears without a DELETE entry (`GoneIsRecorded`), the deletion of an organization takes only what was added while it ran (`CascadeTakesOnlyNew`) |
| `record_pages` | each of the five pages, 2 rows to a page of the API, 3 events (a user's action, another person's edit, a loss) | the quiet list is current, an edit sends what was listed or chosen, an Employee is refused only if the task has changed, a dialog creates once, no spinner and no dead button stays |
| `desk` | 4 pages, 2 roles, 2 or 3 events to a page, 2 canvas sizes (700 by 250, and 280 by 230, narrower than what is drawn), 2 places of the mouse, 4 ranges, 3 breakdowns, inbox pages of 1 notice (345,645 states) | a page runs for its roles only; the dot, the inbox and the audit list agree with the server; each chart is that of its lit button, whole and readable, with the tooltip inside its wrapper and at the nearest point of a picture that was not stretched; every page comes to rest |

Why these bounds are enough to be interesting. A race needs two requests; the
third lets one finish before, between or after the two (a transition, the
stale save, and the next transition of the same version). One task is enough
for races, since handlers touch one task each; the serial run has two so that
a creation and a neighbour exist. A last-admin race needs two Admins; the
tenancy properties need two organizations. A session needs a login, `/auth/me/`
and one more call to have two 401s waiting for one renewal; two expiries let
the renewed token expire as well. In
`directory` the four starting tables are an empty organization, one with a
full chain of links, one with unlinked records, and a client beside an empty
organization; two workers are what a race needs, and the third request lets
the client of a creation disappear under it. On a page three events are a
change, a second one that overtakes it and a loss; every click, edit, notice
and role change costs one, and answers and continuations cost nothing, so the
order of answers is explored in full. The chart instances have fewer records
than grid lines, a range with a single step, and the narrowest canvas.
Initial rows and bodies are enumerated in
the `MC` modules; versions start at 1 as the serializer creates them.
Deadlock is not checked: the server may be idle when all requests are done.
Symmetry is used for requests, calls, accounts and tabs (never in a run with
a liveness property).

## 4. Disagreements

### Listed runs

* **An approved task is reopened** (`task_lock_race`). `perform_update` saves
  every column of the row `get_object` read, outside any lock. A Manager opens
  the update before an approval commits and saves after it: status, lock and
  version go back. `tests.py` of the tasks app says that once locked not even
  an Admin can push a change through.

### Further counterexample configurations

These configurations belong to the same modules and are not among the listed
runs; TLC finds a counterexample for each. The first four rows matter most.

| Configuration | Property that fails | Behaviour |
|---|---|---|
| `AccountsPut.cfg` | `SomeAdminLeft` | the guard "Protect against locking the platform out of Admin access entirely" is in `patch()`; PUT is routed to the inherited `put()`, without guard, audit entry or notice (with `AuditTellsTheTruth` in its place the same configuration finds the role that is in no entry) |
| `SessionsNavigate.cfg` | `SilentRenewal` | the rotated refresh token exists only in the answer to the page that asked; if that page is left, the spent one stays in `localStorage` and the next 401 clears a login that has a day to live, though `README.md` says only an expired refresh token sends the user to the login page |
| `TaskRejectedLock.cfg` | `ReviewedIsLocked` | `tasks/models.py:50` says of `is_locked` "Locked once approved/rejected to prevent further updates."; `transition_task_status` sets it for APPROVED alone (`services.py:31-32`), and a rejected task is edited and goes back to DRAFT. `LockedIsFinal` and the theorems about it are about the lock the code sets |
| `RecordPagesLinks.cfg` with `DueDatesSurviveSaving` in its place | `DueDatesSurviveSaving` | an edit of the title deletes the due date: `tasks.js:157` puts the ISO moment of a DateTimeField into a date input (`tasks.html:81`), which empties itself, and `tasks.js:201` sends null |
| `RecordPagesLinks.cfg` | `LinksSurviveSaving` | with an option list that failed, or that lacks the row's project, client or assignee, an edit of the title sends null for it; `tasks.js:39` says of a failed list only "dropdown just stays minimal" |
| `TaskLockRace.cfg` with `DeletedStaysDeleted` in its place | `DeletedStaysDeleted` | the stale save of a deleted task inserts it again ("This cannot be undone"); without a race it stays deleted (`DeletionIsFinal`, section 6) |
| `Desk.cfg` with `TipFollowsPicture` in place of its invariants | `TipFollowsPicture` | a chart is drawn, the window is resized, and the tooltip names a row beside the one under the mouse: `charts.js:443` and `561-577` (the bars: `787-801`) keep the width of the drawing, `charts.js:834` measures the canvas of the moment, `style.css:402-405` stretches the picture, and nothing redraws it |
| `TaskHandover.cfg` | `OnlyTheAssigneeMoves` | the assignee changes between the permission check and the transaction; with one worker it cannot (`AssigneesMove`, section 6) |
| `TaskLongTitle.cfg` | `NotificationsNeverBreakRequests` | a title near its limit overflows the notification's verb: the work is committed, the answer is a 500 |
| `AccountsAdminRace.cfg` | `SomeAdminLeft` | two Admins demoted at once each count the other |
| `AccountsForm.cfg` | `SomeAdminLeft` | a form's text `False` passes the check that compares with the JSON value |
| `AccountsProfileRevert.cfg` | `OnlyAdminsChangeStanding` | a profile save writes back the role a concurrent PATCH changed |
| `AccountsLinkRace.cfg` | `LinkUsedOnce` | two confirmations check the link before either sets the password |
| `AccountsLinkRevived.cfg` | `LinkDiesWithPassword` | a profile save restores the old hash, and with it the old link |
| `AccountsLinkLogin.cfg` | `LinkDiesWithLogin` | a login does not end a reset link: `last_login` is never updated |
| `SessionsLogout.cfg` | `LogoutRevokes` | logout posts the refresh token it read before its own 401 rotated it; the new one stays usable |
| `SessionsSwitch.cfg` | `ActsForWhoAsked` | a tab drawn for one account acts with the token another tab stored |

### Seen while modelling, without a property

* A deletion that fails or whose worker dies after the entry leaves a DELETE
  entry about a record that still exists. `AuditLog.delete` says entries are
  immutable (`audit/models.py:54`); an organization's deletion cascades over
  all of its entries, its own DELETE entry included.
* `projects.js:163` says deleting a project unlinks its tasks; they are
  deleted with it. Departments are neither counted nor audited, and two edits
  can make them each other's parent.
* The growth chart counts the records of all organizations for everybody
  (`README.md` says the aggregates are role-scoped), and its 6M button gets
  the 30 days the API falls back to: both are in the model (`Effective`).
* The first load of the audit page asks for page `[object Object]` and shows
  an error row (`UserObject`); a second click on Next while a page loads may
  ask for a page beyond the last.
* Retry in the panel closes the panel (`RetryPanel`): the click reaches the
  document after its button has left it. "Mark all read" under the bell does
  not reload the inbox page behind it.
* A theme change while a chart waits for its answer, or after an error,
  uncovers the old chart under the newly lit button (`Uncovers`).
* On the users page Save stays hidden in the dialog for a new account after
  one's own or another Admin's row was opened (`AfterClose`).
* Lists end at the 50th row: `page_size` is not a parameter of the API. So does
  the inbox, which asks for more (`notifications.js:23`, `settings/base.py:122`):
  its badge counts notices that no page of it shows.
* A task created as APPROVED is not locked either: only a transition locks.

## 5. Fairness

* `TaskWorkflow`: weak fairness of `Serve(r)` for each request. A
  thread that has begun a request is scheduled by the server until it has
  answered; nobody is obliged to send a request (`Start` is not fair), and a
  death (`Abort`) is never fair. Liveness runs set `Faults = FALSE`: a thread
  that dies owes its notices to nobody, since there is no outbox.
* `Sessions`: weak fairness of the server's step on each call and renewal, and
  of the continuations of each call and tab. Clicks, expiries and losses are
  not fair.
* `RecordPages`, `Desk`: weak fairness of the scripts' continuations
  (`Handlers`) and of the answers (`Server`). A `fetch` is answered or fails
  and the event loop runs what is ready; clicks, timers of other people, role
  changes and losses are not fair. `WaitingEnds` and `EverythingSettles` rest
  on nothing else.
* `Directory` has no liveness property and no fairness.
* One timing assumption: a renewal and the retries it makes way for take less
  than the half hour the new access token lives (`InUseForRetry`). Without it
  a retry could meet a second 401, on which the code gives the login up.

## 6. The proofs

All theorems hold for every set of tasks, accounts, bodies and requests and
every number of workers, for every set of tabs and calls, for any texts,
choices, options, rows and page sizes of the record pages, and for every set of
roles, pages and bounds on events, any recorded history and counts, and all
sizes and places of canvas, tooltip and mouse, that satisfy the named assumptions of the
module (`ConstantsAssumption`, `InitialRowAssumption`, `AccountsAssumption`,
`SessionsAssumption`, `DirectoryAssumption`, `InitialAssumption`,
`ShellAssumption`, `DashboardAssumption`, `AuditAssumption`, `InboxAssumption`;
TLC evaluates them in every run). Extra
conditions are hypotheses of the theorem. `AuditAssumption` says that the audit
log can be listed without a filter and that every list has a page;
`DashboardAssumption` that every range has a row and that a distribution has one
to twelve bars (the enumerations have two or five members), while the sizes of
canvases are any; `InboxAssumption` that a page of the inbox holds a number
of notices; `SessionsAssumption` that those who may be deactivated are accounts;
`AccountsAssumption` says that a value that is left out is none that can be
sent.

| Theorem | Hypothesis | States |
|---|---|---|
| `TaskWorkflowProofs!TypeCorrect` | | `[]TypeOK` |
| `LockedMeansApproved` | | `[]LockMeansApproved` |
| `FreshWhenUndisturbed` | `Undisturbed` | `[]CopyIsFresh` |
| `LockIsFinal` | `Undisturbed` | `LockedIsFinal` |
| `EndpointImplementsLifecycle` | `Undisturbed` | `ImplementsLifecycle` |
| `HistoryAudited` | | `[]HistoryIsAudited` |
| `TenantsAreIsolated` | | `[]TenantIsolation` |
| `EmployeesAreConfined` | | `EmployeeConfined` |
| `RefusalsLeaveNoTrace` | `Undisturbed` | `[]RefusedLeavesNoTrace` |
| `AuditLogIsChained` | `Undisturbed` | `[]AuditChain` |
| `DeletionIsFinal` | `Undisturbed` | `DeletedStaysDeleted` |
| `AssigneesMove` | `Workers = 1` | `OnlyTheAssigneeMoves` |
| `AccountsProofs!TypeCorrect` | | `[]TypeOK` |
| `AdminsAreSeeded` | | `[]AdminPowerIsSeeded` |
| `AnAdminRemains` | `Careful`, `AdminSeeded` | `[]SomeAdminLeft` |
| `AccountsTablesProofs!OrganizationsStayApart` | | `[]OrganizationsApart` |
| `TheAffectedAreTold` | | `[]AffectedAreTold` |
| `StandingIsForAdmins` | `Workers = 1` | `OnlyAdminsChangeStanding` |
| `LinksAreUsedOnce` | `Workers = 1` | `[]LinkUsedOnce` |
| `AuditIsTrue` | `Audited` | `[]AuditTellsTheTruth` |
| `SessionsProofs!TypeCorrect` | | `[]TypeOK` |
| `NothingTwice` | | `[]AtMostOnce` |
| `OneLoginStored` | | `[]StoredTokensMatch` |
| `RenewalIsSilent` | `Alone` | `SilentRenewal` |
| `DirectoryProofs!TypeCorrect` | | `[]TypeOK` |
| `LinksAlwaysHold` | | `[]LinksHold` |
| `CascadeTakesOnlyNewAlways` | | `CascadeTakesOnlyNew` |
| `GoneIsAlwaysRecorded` | `Workers <= 2` | `GoneIsRecorded` |
| `RecordPagesProofs!PagesKeepShape` | | `[]Shape` |
| `FieldsAreSentAsListed` | | `[]SentAsListed` |
| `OneRowForOneFilling` | | `CreatedOnce` |
| `ShownListIsCurrent` | | `[]QuietListIsCurrent` |
| `RefusalsAreOfStaleTasks` | | `RefusedOnlyWhenStale` |
| `DeskProofs!DeskKeepsShape` | | `[]DeskShape` |
| `PagesSuitRoles` | | `[]PageSuitsRole` |
| `DotsTellUnread` | | `[]BadgeTellsUnread` |
| `InboxesAreCurrent` | | `[]InboxIsCurrent` |
| `AuditsAreCurrent` | | `[]AuditIsCurrent` |
| `ChartsAreLit` | | `[]ChartIsLit` |
| `ChartsAreWhole` | | `[]ChartIsWhole` |
| `TipsAreNearest` | | `[]TipIsNearest` |
| `ChartsAreReadable` | | `[]ChartIsReadable` |

**Tasks: the row.** `LockMeansApproved` is not inductive: a handler may write
back a row it read long ago. The strengthening `LockInv` says the same of the
copies the handlers hold; saving fields moves status and lock together, and
the transaction sets the lock only on the way to APPROVED, which nothing
follows. `LockedIsFinal` and the refinement fail when requests race (section
4), so they are proved under `Undisturbed`: one worker, or bodies that carry
nothing but a status. Either makes `CopyIsFresh` an invariant (`FreshInv` adds
that one worker means one request in flight, and that status-only bodies never
reach the save); with a fresh copy every step of a handler is one step of
`TaskLifecycle` or a stutter, and a locked row is changed by none of them.
Together with the counterexample of `task_lock_race` this pins the cause: the
whole-row save of a stale copy, and nothing else.

**Tasks: the other tables.** A first group of lemmas says what one step adds to
the tables that only grow (`TransitionEffect`, `AuditChange`,
`InboxChange`, `HistoryChange`); the rest builds on that. `HistoryIsAudited`
is inductive by itself, because history row and audit entry are one commit.
`TenantIsolation` is not: a task that is deleted leaves entries and notices,
and the stale save of a copy brings it back. `TenantInv` therefore speaks of
every key handed out: one organization holds of its row, of every copy, body
and recipient list in a handler's hands, and of all that was written about it;
`RecordedAfterBirth` says that nothing was written about a key before it was
handed out. For `EmployeeConfined`, `EmployeesMove`: a caller who is no
Manager is at no statement but the transition and the notices after it, since
the fields were dropped when the request began. A refusal that comes after a
write must be ruled out from the body alone: `CleanInv` says that with one
worker a transition that was judged possible stays so up to the transaction,
past the save before it, and that status-only bodies have written nothing by
then. `ChainInv` is `AuditChain` with the version that the next transition
will count from; it needs the copy to be fresh, as a stale save sets the
version back. `DeletionIsFinal` and `AssigneesMove` prove what two
configurations of section 4 refute for two workers.

**Accounts: power.** `AdminPowerIsSeeded` holds however requests race, because
of `SeedInv`: every row a handler holds as `me` or `copy` confers the Admin
role only if its account was seeded with it, `validate_role` has accepted the
body wherever a row is about to be written from it, and whoever administers
was authenticated as an administrator. `AnAdminRemains` needs `Careful` (one
worker, no PUT, no forms; each clause is refuted by a configuration of section
4 when dropped) and `AdminSeeded` (there is an active Admin at first).
`CarefulInv` carries from the check to the save that the copy is what is
stored and that another active Admin exists if the body takes this one away.

**Accounts: the other tables.** One lemma per statement of the endpoints
(`InsertEffect` to `AbortEffect`) says what it changes. `OrganizationsApart`
needs no hypothesis although every check is made on a row read earlier: no
handler moves an account to another organization (`OrgsKept`), so `OrgInv` may
say of the copies what was true when they were read. `AffectedAreTold` follows
an entry to its notices: `ToldInv` says how far the request that wrote the
entry has come. The other three compare a row with what is written back, and a
stale copy breaks each of them (section 4). With one worker no copy is stale
(`FreshInv`). Then standing changes at the admin's save only; a link that was
accepted is signed with the stored hash until the password is set, and hashes
grow (`LinkInv`); and whatever an account is, the log told last, or the
handler about to tell it holds the values told before (`TruthInv`). `Audited`
asks for one worker, no deaths and no PUT: a handler that dies between save
and entry, and the inherited `put()`, leave a change untold.

**Sessions.** `TypeOK` alone is not inductive: the server looks up
`issued[body]` and `issued[token]`, and 0, no token, has no row. `TypeInv` adds
`Pointers`: a logout carries a token, a successful login and an answered
renewal carry a pair. `OnceInv` is the argument for at most once: a call that
took effect is answered or over, and not with a 401, the only status a retry
follows; a lost answer turns into status 0, which is none either.
`OneLoginStored` is proved through the stronger `SameToken`: both slots of
localStorage are always written, and cleared, together, with one answer's pair.

`RenewalIsSilent` is about one tab, a user who waits for the page and a network
that loses nothing (`Alone`); `SessionsNavigate.cfg` refutes it for a user who
does not wait, and lost answers or a second tab break it the same way: the
rotated token exists in one answer only. `SilentInv` has five parts.
`RenewalInv`: a renewal under way has a request waiting for it and renews what
is stored, unless a logout has cleared that; its answer brings a usable pair of
the same login. `CallInv`: a retry carries a live access token, and a login is
alone on its page. `RetryInv`: a retry therefore meets the 401 that gives the
login up only when the account is deactivated, and then no token of that login
is of use any more.
`PageInv`: the login page holds no token, and a page that is left with requests
under way is left for a logout. `StoredInv`: the stored refresh token is spent
only while the answer with its successor waits to be stored, or after a logout.
`Kept` and `EndedIn` follow a login through its pairs (it ends by expiry, by a
logout, or with its account); `RotatedPairs` says what the server's rotation
does to them.

**Directory.** `LinksHold` is about the tables, and a handler writes into them
what it read some statements ago. `IInv` says why that is still right. A
record never changes its organization, so `Agrees`: a copy about to be saved
has the organization of the row it will replace, if there is one, and of the
row it links to, if that one is live; a link is never to an unborn key. And
`Alike`: two handlers that hold copies of one record that is gone, either of
which may bring it back, or a copy and a link to it, say the same organization
of it. The foreign keys, checked as the row is written, do the rest.
`CascadeTakesOnlyNew` follows from `Kept`: after the second, third and fourth
count nothing that was there all the time is a client, a project or a task,
because nobody but a deletion removes rows and the ghost forgets what is
removed. Neither proof bounds the number of workers, moves or records.

`GoneIsAlwaysRecorded` needs `Workers <= 2`. `RecInv` follows a deletion from
its entry to its transaction. `Recorded`: past the entry, the entry is in the
log, or the organization it was filed under is gone, with nobody about to save
it (`Over`). `HandFits` and `SaveFits`: what the deletion has in hand is of that
organization, and so is a copy of it that another handler is about to save. So
whatever is there to be removed has its organization there too, hence not
`Over`, hence an entry. When one deletion takes another's entry along, both are
in flight, and with two workers nobody else is there to bring the organization
back. With three workers TLC finds the way around: an organization's deletion
is past its entry; a second one removes the organization, and the entry with
it; the pending save of a third request brings the organization back; an
account is moved there, creates a client and is moved away again; and the first
deletion collects and removes that client, of which the log says nothing.
`Others` and `Leads` say what a step does to the tables and to the handler that
takes it; `RecKept` proves the invariant from these two, and each action has one
lemma that shows them.

**Record pages.** The five pages have their own handlers, but each handler is a
step of one common machine: `PageStep` says that a step loads, asks for options,
opens the dialog, saves, deletes, takes an answer, or is the server's, the
network's or another person's, with the few facts of each that matter (a dialog
that can be saved shows the fields of its row, `Faithful`; a save sends what the
form shows, apart from what was filled in). `TasksSteps` to `UsersSteps` prove it
page by page, with one case for each handler; everything else is proved once,
of the machine.

* `Shape`: the requests under way are a list, each with the fields of its kind;
  so are the rows, and the dialog has the fields it was opened with.
* `ListedInv` is `SentAsListed` with the same said of the dialog that is open.
* `OnceInv`: at most one save is under way, and none while the button is
  enabled; no filling is newer than the dialog's; and as long as nothing
  excuses the page, a creation that has been sent, or a dialog for a new row that
  is open with no save answered, belongs to a filling that has created nothing.
* `FreshInv`: on a page that is up, with no timer running, no write that was done
  and not yet followed by a load (`Reloading`) and no excuse, the last list under
  way asks for what the filters say or has found what is in the database, and
  if there is none the rows on the screen are those.
* `EmployeeInv`: what an Employee has listed are tasks, what they have opened to
  save is an unlocked task of theirs with only the status to change, and what
  they have sent is one of the moves the page's own table offers for the task as
  listed. If the task is still that one, the server accepts.

The three events of the `record_pages` run, its two rows to a page and its
texts do not enter. `RefusedOnlyWhenStale` speaks of the step at which a save is
refused: as a statement about states it is false for longer runs, since after
the refusal somebody may make the row what it was when it was listed.

**Desk.** What a page shows when nothing is asked for is what the last answer
brought, so the invariants are about the last request under way, whatever is
under way before it. `Latest(calls, k, n)` of `RequestLists` names it for the
requests of kind `k`. Answers are taken out of the middle of `calls` and requests added at its
end: `Replaced` and `Turned` say which requests a step keeps, `KindKept` that
the last one of a kind that is not concerned stays the last, `LastSent` and
`LastHandled` what becomes of it when one is sent or handled. With these, one
lemma each for user, continuation, answer about the user and server says what
a step may send (`UserSends`, `HandlerSends`) and what it leaves alone
(`UserFrame`, `HandlerFrame`), and each invariant is proved from them:

* `DeskShape`: the types, and that the requests under way fit the page.
* `RoleInv`: `AskedOnce`, the user is asked for once and never after the
  document is open or left; `Suits`, the role seen last fits the page unless
  the document is left.
* `BadgeInv`: if no write is under way, nor the panel that is refilled after
  one, the last count that the server has answered is of the notices as they
  are, and without a count the dot is right; `LostExcused` remembers the
  writes whose answer was lost.
* `InboxInv`, `AuditInv`, `LitInv`: the last list (page, chart) under way is
  of the filter (query, button) on the screen, and if there is none the list
  (rows and buttons, chart) is right. A list of the inbox is right when it is
  the first page of what its filter selects, of whatever size a page is.
* `WholeInv`: whatever is drawn wears the theme of the document, and nothing
  is drawn or asked for while the page is not open: the first requests of a
  document follow the only answer about the user.
* `DrawnInv`: every request for a chart is for one of its buttons and a chart
  shows nothing or the data of a button, so the data have the rows, lines and
  bars that the lemmas on `Charts` are about. `TipInv`: the tooltip is right
  when the mouse puts it up, and nothing else moves it. It is about the row
  nearest to the mouse on the picture as it was drawn, which is the picture that
  is seen if the canvas still has that size (section 4 says what happens if not),
  and it is placed in the wrapper as it is now.

What is drawn is arithmetic: `GridIsNumbered`, `AxisIsLabelled`,
`LinesFitPlot`, `BarsKeepApart`, `NearestRow`, `NearestBar` and `TooltipFits` hold for all
numbers in question. Quotients are bounded by `Rounded`, products compared by
`Products`; the maximum of the counts and the line nearest to the mouse exist
because a set of natural numbers has a least element (`LeastNumber`), which
well-founded inclusion of finite sets gives without an induction over numbers.

The bounds of the `desk` run do not enter: any number of clicks, notices,
losses, pages and overtaking answers is covered.

Every invariant and action property of the passing runs is thus a theorem, some
under a hypothesis. Not proved: the four liveness properties (`NoticesArrive`,
`LogoutLeaves`, `WaitingEnds`, `EverythingSettles`), which need fairness and
`ENABLED` and are checked by TLC within the bounds of section 3. The theorems
with a hypothesis are false without it: section 4 has a configuration for most
of them, and the paragraphs above say what happens otherwise.

## 7. Left out, and what is next

In the modelled components: the read-only lists (`assigned_to_me`, the member
list), `approve_task` (no view calls it), the reactivation of an account during a
login (`Accounts` has it, `Sessions` has not), unique names, a member's role, the
texts of errors and notifications, `signup.js` (it logs in as `login.js`
does), colours, icons and markup, the drawer of the narrow screen, CSV export,
and what an operator does in the Django admin site beyond moving an account. A
thread's death is modelled between statements; MySQL's own durability and
isolation are taken as they are. Time appears only as order (a reset link
carries how long the audit log was) and as expiry. SimpleJWT, Django's
collector and InnoDB are not part of the repository: they are modelled from
how the settings, models and views use them, and are marked external in
`PROJECT.json`.

Components without a module: the demo seeding (it runs alone; its one hazard,
a start killed between `get_or_create` and `set_password`, is in the list),
settings and deployment, the admin site and the migrations, and the forms that
post once and show the answer. The calendar arithmetic of `growth.py` is one
formula for the index of a month; the model takes its rows as given.

Worth adding next: `signup.js` and the member list with its roles, a second
browser for one account in `Sessions` (today two tabs share one
`localStorage`), and the demo seeding together with a first login.

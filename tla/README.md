# Sentinel: verification project

Sentinel runs the incidents of a production workshop: operators declare an
incident on a machine, technicians of maintenance take and treat it,
supervisors (`RESPONSABLE`) set priorities and arbitrate corrections and
cancellations, an administrator manages lines, accounts and settings, and a
board in the workshop shows what is going on.  This directory holds TLA+ models
of its backend (`backend/src`), of the screens of its frontend that keep state
(`frontend/src`) and of its operator's scripts (`scripts`), the configurations
that check them with TLC, and theorems about them that TLAPS checks.

* [Inventory](#inventory) of the system, modelled or not
* [The modules](#the-modules) and how they correspond to the code
* [The runs](#the-runs), their bounds and what they show
* [The proofs](#the-proofs): what holds for every value of the constants
* [Disagreements](#disagreements-with-the-documentation) with the documentation
* [Limits](#limits) of the models
* [Plan](#plan)

To repeat everything: `tlc -workers 2 -config Incidents.cfg MCWorkshop`, and so
on for the runs of `PROJECT.json` (each ends in a few minutes), and `tlapm` on
each of the seven `...Proofs.tla` modules.

## Inventory

The backend is one Express process (or several replicas) over one PostgreSQL
database.  All lasting state is in the database; requests run concurrently and
each service is one transaction under READ COMMITTED, made safe by row locks,
partial unique indexes and conditional updates.  The frontend is a React
application that polls the backend; what a screen shows is a copy that ages.

| Component | State | Operations | Interacts with | Hard behaviour | What makes it correct |
|---|---|---|---|---|---|
| Incident workflow, `modules/workshop` | `workshop_incidents`, `workshop_arbitration_cases`, events, followers | declare, take, suspend, resume, close, invalidate, priority, instruction, edit, request/withdraw/approve/reject a correction or a cancellation, follow | locks lines and users; enqueues notifications; authenticated by the middleware | services of different actors interleave; the role is read before the transaction; two tables must agree; declaration, edit and approval compete for a place | one active incident per place; owner eligible; flags and cases aligned; finished records and decisions final; the Journal tells who follows |
| Production lines, `modules/lines`, and their page | `production_lines` (number, machine sequence, active, deleted); the copies of the page | create, update, plan, archive (with forced cancellation) | counts and cancels incidents | checks of numbers and machines without a lock; counts against declarations; whole fields of an old copy | no number or machine on two lines in service; an active incident stands on a machine that exists |
| Accounts, `modules/accounts` | `sentinel_users` | create, change of role, activate, deactivate, delete, reset of password | counts taken incidents; revokes sessions | guard and change are separate statements, against TAKE | no active incident is left to somebody who may not treat it |
| Notification outbox, `modules/notifications` | `notification_outbox`; memory of each worker | enqueue, claim a batch, mail channel by channel, complete, retry, abandon, recover a lease | enqueued by transactions; reads recipients; SMTP relay | crashes, failed statements, refused mails, expired leases, several workers | each item ends; nobody is mailed twice needlessly; failures are not hidden; ended items are final |
| Workshop credentials, `workshopCredentials`, `auth` | password and setup-code hashes, `session_version` | login, setup of a password, logout | reset by the administrator | slow hashes between a read and a write | a code works once; a revoked session stays revoked |
| Administrator, `adminCredentials`, `adminSecurity`, `adminSettings`, `adminAuth`, and the page of settings | `admin_accounts`; the drafts of the page | login, re-authentication, change of password, settings, preferences, global revocation | sessions, board, notification preferences | concurrent changes of one row; two browsers with old copies | a change is confirmed by a password; a save touches what was typed only |
| Board, `modules/board`, and its screen | board code, `board_session_version`; list, view and page on the screen | open a session, read; rotate the views | settings | legacy hash upgraded at login; a list that changes under the rotation | an old code does not come back; every incident comes round |
| Password reset requests, `passwordReset` | one pending request per user | request, handle | outbox | concurrent requests | the last request pends, once, and is notified |
| Rate limits, `middlewares/loginRateLimit` | windows per key, in memory | consume, record a failure, clear | logins | eviction at the limit, window boundary, requests in flight | failures exceed the limit by those in flight only |
| Migrations, `db/migrate` | ledger of migrations | lock, rename, apply, compare | server start | replicas of several releases; crashes | the ledger names what was applied; a server runs on its schema |
| Server lifecycle, `server.ts`, `db/pool` | flags, connections, timers | start, stop, forced stop | HTTP handlers, worker, pool | order of the stop; a run scheduled in between | a graceful exit leaves nothing half done |
| Backup and restore, `scripts` | files, databases, lock | dump, seal, prune; verify, import, exchange, roll back | PostgreSQL, Docker | interruption at any command | data is never lost; one verified backup is kept |
| Lists page by page (journal, history, knowledge, followed) | rows, cursor, requests in flight | first page, next page, record of the address | read side of the workshop | late answers, filters that change, cursors cut to the millisecond | the list is coherent |
| Dashboard, correction form, session of a tab | list, metrics, record, dialogue; form; cookie, route | poll, decide, correct; sign in, expire | services | answers late, lost or out of order; snapshots of an incident | nothing unasked is decided or corrected; the screen catches up |
| Permissions of the screens, `workshopPermissions.ts` | none | which buttons are drawn | policy of the services | written twice, by hand | both policies agree |
| Mail templates, audit and administration reads, AI support, CSRF and headers, configuration and seed, deployment, other forms | none, or append-only | | | | |

`PROJECT.json` lists the hazards of this code, each at its line, with the
properties that watch it, or the reason why none does.

## The modules

A module models one component; an MC module composes those that share a run.
Parts that share no state are composed by a variable `part` that says which one
a behaviour follows, the others at rest: since every property is about one part,
this checks what the product of the parts would, at the cost of their sum.

### The workshop

**`Workshop`**: incidents, arbitration, lines and accounts, in one module because
every invariant that matters spans these tables.  `incident`, `case`, `line`,
`user` are the four tables, functions from identities to rows (the status `ABSENT`,
or `NONE`, marks an identity not used yet); `actorRole` gives, for each user, the role that
the middleware read (`req.workshopUser.role`) for the request of his whose
service has not run yet: the account may have changed since.  `Authenticate` is
the middleware; each service of `workshop.service.mutations.ts`,
`workshop.service.edit.ts`, `workshop.service.ts`, `lines.service.ts` and
`accounts.service.ts` is one action with its guards in the order of the code
(`canPerform` of `workshop.policy.ts` is the operators `Can...`).  A service that
answers an error ends with `EndWithoutWrite`.  The grain is one transaction;
`WorkshopTx` justifies it.  An incident's text is a member of a small set:
`state` stands for fault, comment and product, `headNumber` for robot and head.
Dates, durations, names and audit rows are left out.

**`Offers`** (extends `Workshop`): the policy of the screens
(`workshopPermissions.ts`), the buttons drawn from it, and the service and body
that each button sends, on a fresh copy of the incident.

**`WorkshopTx`**: the transactions under `Workshop`.  `db` holds the committed
tables, `tx` what each request's transaction holds, read and wrote.  A step is a
lock (lines in ascending order, then user, then incident, then the key shares
that the foreign keys of an inserted event take), the unlocked read of the
context and its revalidation (`xmin`), the decision, the write, the commit or a
rollback at any point.  Services that take the same locks are one service.  Its
`ServicesAreAtomic` says that it implements `Workshop` under the mapping of `db` to the tables.

**`Followers`**, **`ResetRequests`**: one incident and those who follow it; the
requests to reset a password.  Each SQL statement under a lock is an action, so
that transactions interleave between statements.

**`LineConsole`**: the page of lines in several browsers (list, detail, and its dialogues to
create, edit, change a machine, plan and archive, with their summaries before
confirmation) against the services of lines: the lock of the row, the
comparison with the row of now, the counts of incidents, the reads of other lines
without a lock, and the unique indexes that decide at the writing.

### The outbox

**`Outbox`**: `row` is the table `notification_outbox`; `available_at` and
`locked_at` are kept as the answers of the two comparisons the code makes
(`due`, `stale`).  `worker` is the memory of each worker: the claimed batch as
the claim returned it, the item in hand and the `ChannelRunner` (channel,
confirmations, outcomes, first failure).  `sent` and `owed` are history.  Every
SQL statement is one action (`Recover`, `Claim`, `Complete`, `RetryOrFail`), and
so is a channel: `SkipDisabled`, `SkipNoRecipient`, `Mail` (any addresses, any
subset of them accepted), `ChannelFails`.  `Incoherent` items have no source, or an
event that no channel notifies: `Reject` throws the permanent error before any
channel, and `RetryOrFail` then counts the attempt (`Attempt`) as the last one.  An
item is incoherent or not for good, because the source of a row is fixed when it is
enqueued.  `CompleteFails` and `IterationFails`
are failing statements, in and out of the `try` block of the delivery; `Crash`
loses the memory of a worker between any two statements.  `BecomeDue` and
`LeaseExpires` are the passing of time; a lease expires even while its worker is
alive.  Whom a channel addresses, and whether it is enabled, is read from tables
that change at any time: `Deliver` takes any answer.

### What admits to Sentinel

**`Sessions`**: workshop accounts as their owners log in: temporary codes,
passwords, badges and session versions, with the slow verification of a secret
between a read and a write, against every change of the administrator.  A hash
stands for its secret.

**`Administrator`**: the row of `admin_accounts`: login, orders under
re-authentication and the count of its failures, the board's code, switch and
sessions, the upgrade of a legacy hash, the operator's script.  `replaced` is
history: the codes that the settings replaced.

**`RateLimit`**: `loginLimiter` as its two doors use it: windows, eviction,
cleanup, the limit that the administrator changes, requests that passed the check
and have not recorded their failure yet (`pending`).

**`Settings`**: the page of settings in several browsers: four sections loaded
apart, drafts and what was typed, dialogues, the lock that lets one mutation
through, lost answers, against the services that write the row.

### The server and its data

**`Migrations`**: servers of several releases start, take the advisory lock,
rename the legacy migration, apply what the ledger lacks, compare checksums,
refuse a ledger that names what they do not ship, fail, crash and start again;
`effect` is the history of what was done to the schema.  **`Lifecycle`**: the stop of a server against its
requests, its pool and its worker.  **`Backups`**: `backup.sh` and `restore.sh`,
command by command, interrupted anywhere.

### The browser

**`Listing`**: a list loaded page by page, for four screens, against rows written
in batches that share one instant; the cursor keeps milliseconds, the column
microseconds.  **`Dashboard`**: the list, the metrics, the open record, the
dialogue of decision and the one mutation at a time, against the server and
answers in any order.  **`Panel`**: the correction form, which copies an incident
when it is mounted and sends all of its fields, on a record that Back may
change under it.  **`BoardScreen`**: the board that nobody touches, its
refreshes and its rotation.  **`ClientSession`**: the cookie, the account kept by
React and the routes of one tab.

### Composition, and proofs

`MCWorkshop` (plant and constraints of `Workshop` and `Offers`), `MCOutbox`,
`MCAccess` (`Sessions`, `Administrator`, `RateLimit`, `Settings`),
`MCTransactions` (`WorkshopTx`, `Followers`, `ResetRequests`, `Migrations`,
`Lifecycle`, `Backups`, `Panel`), `MCClient` (`Listing`, `Dashboard`,
`BoardScreen`, `ClientSession`) and `MCLines` (`LineConsole`) are what TLC runs.
The proofs are in `WorkshopProofs`, `WorkshopTxProofs`, `OutboxProofs`,
`SessionsProofs`, `AccessProofs`, `LineConsoleProofs`, `TransactionsProofs` and
`ClientProofs`.

## The runs

| Run | Question | Size |
|---|---|---|
| `incidents` | From declaration to end: do flags and cases agree, are decisions made once, does an open arbitration freeze its incident, is the owner always eligible, do the screens offer what the services accept? | one incident, two cases, two users, one line |
| `places` | Can declaration, edit and approval put two active incidents on one place, or leave one on a machine that is gone? | two incidents, one machine of two heads, an administrator who renumbers and restructures |
| `offered` | *violation*: every button is served | as `incidents` |
| `outbox_one` | Are repetitions, abandonment and completion what the worker intends, and does every item end? | one worker, two channels, two addresses, two attempts, an item besides whose source is incoherent, one crash and one failed statement |
| `outbox_repeat` | *violation*: without a crash, nothing is repeated | one worker, one failed statement |
| `outbox_stranded` | *violation*: an item out of attempts is abandoned | two workers, no fault |
| `access` | Do the changes of the administrator revoke what they must while secrets are being verified; are failures bounded; do two pages of settings keep each other's work? | two users, codes, passwords, requests, browsers |
| `transactions` | Do transactions implement the atomic services and never wait in a circle; do followers, reset requests, migrations, stop, backup and restore, correction form keep their promises at every interruption? | two transactions on two lines and an incident; two or three of everything else |
| `lock_order` | *violation*: no circular wait, when a user has two requests in flight | the same transactions |
| `client` | Do late, lost and reordered answers keep the screens coherent, and do the screens catch up? | one incident on the dashboard, three on the board, three rows in a list, two sign-ins |
| `pages_skip` | *violation*: no page leaves a row out | the journal |
| `lines` | Can two administrators on old copies put one number or machine on two lines, or update a line against incidents that were not counted? | two browsers, two lines, numbers and machines |

*Why these bounds are enough to be of interest.*  Two incidents are needed to
compete for a place, two users to separate the owner from the one who acts, two
lines to move between, two cases so that a file can be decided and another one
opened, two requests for one to pass under the other, two browsers for a copy to
age.  Each property was checked to fail under a plausible fault of the code (the
`mutants` of `PROJECT.json`), in the same configuration.  Where the property is
proved, the bounds do not matter.

*State constraints* (TLC checks the properties at the states just reached, and
goes no further).  `Serving` (`incidents`, `offered`): no incident has been
directed by the supervisor, no line is out of service, and at most one account is
inactive or deleted.  `SteadyAccounts` (`places`): all accounts are in service.
`OneOrder` (`access`): two orders of the administrator do not run at once;
`Focus`: the page of settings has two sections loaded at a time, in one browser or
in two.  `Restoring` (`transactions`): a restore is still running or to come.
`TwoConsoles` (`lines`): one of two scenarios, `Pair` (two simple lines that compete) or
`Single` (one line, edited, planned and archived while the workshop declares on
it), and the two pages do not repeat each other.  What lies behind them is covered
by the proofs only.

*Bounds in the models.*  `MaxInFlight` (requests authenticated and not served),
`MaxCrashes`, `MaxFaults`, `MaxVersion(s)`, `MaxCodes`, `MaxTokens`, `MaxTime`,
`MaxCount`, `MaxEvents`, `MaxEdits`, `MaxRows`, `MaxNow`, `Batch`, `MaxChanges`,
`MaxSessions`, `MaxBusy` each cap one counter, in the guard of what counts it.
`WorkshopTx` is bounded to the first state of service of a plant whose rows are
given (`Plants`, `Staff`, `Places`, `Corrections`); `Settings` and `LineConsole`
do not leave a page while a call is in flight.

*Symmetry* permutes identities that the model only compares, in the runs whose
properties are invariants and action properties; `outbox_one` and `client`, which
check liveness, use none.

*Deadlock* is checked in the runs of `Outbox`.  Elsewhere the system may really
stop: the administrator may archive every line, a screen may be left, every
identity of a bounded set may be used.

*Fairness.*  `outbox_one`: weak fairness of the step of the worker (`run` always
schedules its next cycle, in the `try` and in the `catch`, and statements and
mails have timeouts) and of the passing of time; nothing is assumed of the
relay.  Crashes and failed statements are finitely many, by their bounds.
`client`: weak fairness of the polling timers, of the reading by the server and
of the arrival of answers (a request that is never answered is ended by its
timeout), of the redirections that React renders and of a page that asks; and strong fairness of
the arrival of a call, which another navigation may postpone but not for ever.
Users are free not to act.

## The proofs

TLAPS checks the following for every value of the constants that satisfies the
named assumption of each module (`ConstantsOK`, `PartsOK`, `RequestsOK`, `OutboxAssumption`,
`NullAssumption`: kinds of values, distinct markers, finiteness where something
is counted).  Hardly any property is inductive alone; each proof names the
invariant that is, and shows it action by action.  Components that share no state
are proved of their own specification; `PartsFollowed` (`AccessProofs`) and
`ScreensFollowed` (`ClientProofs`) show what `MCAccess` and `MCClient` run to be behaviours of it.

**`WorkshopProofs`**: `TypeCorrect`, `PlacesExclusive`, `LinesInService`,
`OwnersEligible`, `SuspensionsMotivated`.  The line of an active incident is in
service because an edit validates the selection against the line it locked,
which needs the types of the pending correction as well; the owner's eligibility
needs that only an active technician's request may be granted `TAKE`, whatever
role the request carries.  `PlantInv` is the conjunction that is inductive, with
`TypeInv`; the actions that write an incident in the same manner share a lemma
(`ProgressPlant` for those that continue an active one).

Of the arbitration: `ArbitrationsAligned`, `FrozenBeforeCurrent`,
`TerminalsFinal`, `TakenOpenProtected`, `ArbitrationsFreeze`, `DecisionsFinal`,
`PoliciesAgree`.  The inductive invariant `ArbInv` says, incident by incident
(`SettledAt`), which cases may be open in each status and with which flags, and
that the frozen half of an open correction is the incident's own description.
The action properties follow from it: `Respects` says when a row may replace
another, each service is shown to respect it, and the administrator's actions are
treated together (`AdminWrites`).  The screens read the case sent with an
incident, the services its flags and the table of cases: that both agree is
`ArbInv`, and the two policies are then compared action by action.

**`OutboxProofs`**.  For any number of workers whose leases expire at any time:
`OutboxTypeCorrect` (no item gets more than the configured attempts), `EndedFinal`
and `DeliveredAccepted`, which needs that what each worker *remembers* was accepted
too (`AcceptedInv`), since it writes it back later.  For one worker:
`RepeatedForInterruptions`, `FailedWhenExhausted`, `CompletedOnlyWhenServed`.  The
hypothesis is the deployment of the repository (one replica in Compose), and the
run `outbox_stranded` shows that the second fails with two.  Their invariant
(`OneInv`) ties the memory of the worker to the table: what it has in hand is what
the row says, unless the lease expired or it was interrupted, and every message
accepted but not confirmed is counted by one interruption; so is every attempt on an
incoherent item but the one that is in hand or ended it (`RejectInv`), and nothing is
mailed of it.

**`SessionsProofs`**: `SessionsCurrent`, `SessionsStayRefused`,
`PasswordsByCurrentCode`.  Whatever a token or a login in flight remembers of a
row is either still so, or the version of the row has moved on (`Since`, and `Later` for versions):
versions never go back, and each write that a session should not survive
increments one.

**`LineConsoleProofs`**: `LinesConsistent`.  The invariant (`ConsoleInv`) says of a
request in the service which line it has locked and counted, and that nothing was
declared or moved on the line since; the unique indexes do the rest, so that what
the page shows does not matter at all.

**`TransactionsProofs`**, one invariant per component:

* `FollowingLogged` (`FollowersInv`): the request that holds the incident alone
  knows whether it ended, and the active rows are what the events say, in order.
* `LastPending` (`ResetInv`): the transaction that holds a user's row superseded
  all that pended for him, so what it inserts is alone.
* `LedgerExact`, `SchemaServed` (`MigrationsInv`): what a server under the advisory
  lock has passed is recorded with its own checksum, and no checksum of the
  ledger ever changes, so what it found stays true when the lock is released.  The
  server that enters service therefore finds in the schema what it ships and, as the
  ledger that names nothing else is exact, no other migration.
* `GracefullyExits` (`LifecycleInv`): which flag was raised before which wait ended.
* `DataNeverLost`, `FailedRestoreHarmless`, `BackupsKeptVerified` (`BackupsInv`): the
  step a restore is at tells where the live database is (its name, or aside) and
  that the lock is its own; the retention keeps the backup just sealed.
* `UntypedOvertaken` (`PanelInv`): a form remembers of each field the value it was
  mounted with (`Faithful`), and what the list shows was true when it was read (`Filled`).

**`WorkshopTxProofs`**, for any number of requests, with one of each user at a
time: `LocksNeverCircle`, `ActiveOnLines`, `ServicesAreOneStep`.  The documented order of the locks does not
suffice, because the event of a service locks its actor after the incident and
the archiving of a line locks its incidents in any order.  Take a set of requests
that all wait on each other.  None is at its event, which waits for a change of
its user's account only, and that one has no more to lock.  None waits for an incident: its owner
would have more to lock, and only the archiving of a line does, of which no two
share an incident, since whoever moves an incident holds the line it leaves.
None waits for a user.  So all wait for lines, and the
owner of the greatest of them would wait for a greater one.  `TxInv` says who may
own which rows (`Plan`, `Ordered`), that what was read of an owned row is current,
what was counted still true (`Counted`), and that a line left unlocked because it is out of
service has no active incident.  A commit is one relation between two states of the tables
(`Publishes`), shown once to leave the others as they were.

`ServicesAreOneStep` is the refinement `Spec => ServicesAreAtomic`.  The admission of a
request is the `Authenticate` of `Workshop`, its commit the step of its service, an
`InstallLine` or `InstallAccount` the creation, every other step a stutter; a request that is
refused or rolled back leaves only the role it carried.  `AtomicInv` strengthens `TxInv` by
what each service decided, said of the tables as they *are* (`Ready`): of the workshop's
services, that the row they will write is that of their step in `Workshop`, that its place
is free and that no case forbids it (`Served`); of the administrators', that nobody
active stands on the line or took the incident (`Administers`).  It holds at the decision because
rows seen under a lock are current, and until the commit because whatever others
publish (`Spares`) touches no incident, line or account that the service owns, nor the
cases of an incident it owns, and makes an incident active only on a line it owns.  One lemma per commit then matches it to
the action of `Workshop` (`CommitIncidentRefines`, `CommitRequestRefines`,
`CommitLineRefines`, `CommitAccountRefines`).  Both theorems assume `MaxPerUser = 1`: `Workshop` knows
one role carried by each user, so two requests of one user are outside its mapping.
`RequestsOK` says of the constants that the requests are well-formed (a place is a description, a
correction a payload) and that two plants share no number and no machine, as the unique
indexes on the lines have it.

**`AccessProofs`**:

* `BoardSessionsCurrent`, `SessionsStayRevoked` (`AdminInv`): whatever a screen was
  told, or its token says, *stands* (`Stands`): its version is not above that of
  the row, is passed if the board is disabled, and if it is the current one then so
  is the code, unless the code of the old release came back.  A change of the row
  is one of three (`Turn`): it keeps the code, it gives a new one with a new
  version, or it upgrades the old hash; each keeps what stands (`TurnKept`).
* `FailuresStayBounded` (`RateInv`): in a window, the failures counted *plus* the
  requests that passed the check never exceed the greatest limit plus the requests
  at once less one; a failure takes the place of its request in that sum.
* `SavesOnlyTyped` (`SettingsInv`): what differs between a draft and what was
  received was typed (`DraftOK`), and while a call saves, the draft still says what
  it says (`CallOK`), because the page is locked or behind its dialogue.

**`ClientProofs`**:

* `ListsCohere` (`ListInv`): for any table, filters, size of page and precision of
  the cursor.  The rows of a page are those below a place in the order of the query
  (`SortedSorts`: the order is total, so a finite set of places has one), and it
  leaves out of those that are due only what is below its last row (`Continues`).
  The journal appends a page only to the row it was asked to follow, since whatever
  changes the list forgets the request; so the new list descends and covers what the
  old one and the page covered, but for what lies between the cursor and the row it
  was cut from, which is of that row's millisecond (`CursorBelow`, `NextPageShown`).
  Meanwhile the database only leaves fewer rows due and moves none (`JournalFramed`).
  The record beside a list is followed through every change of the list (`SelectionKept`).
* `MetricsForward` (`MetricsInv`): one answer at a time is awaited, and what the screen
  shows, the answer and the server are in that order.
* `ApprovalsRequested` (`DecisionInv`): a decision of the dialogue never is the direct
  cancellation, whose service asks for no request.

*Properties that are proved only* (no run states them, being about what the types
of the table already bound in a small instance): `SuspensionsMotivated`,
`EndedFinal`, the type invariants.

*Only model-checked.*  `EventuallyEnded`, `ViewCatchesUp`, `EveryCaseIsShown`,
`RevokedLeavesDashboard` are liveness properties, out of the reach of TLAPS here.
Every safety property of the passing runs is proved.

## Disagreements with the documentation

The runs that expect a violation each show one:

1. **The button «Modifier» of a record never edits** (`offered`).  The form always
   sends `requestOnly`, `false` for a technician or a supervisor, and
   `updateIncidentService` refuses any value but `true`
   (`workshop.service.ts:290`).
2. **A delivered item is mailed again without any crash** (`outbox_repeat`).  The
   completing statement runs in the `try` block of the delivery
   (`notificationOutbox.worker.ts:294`); when it fails, the item is retried with
   an error that carries no confirmation.  `docs/technique.md` (section 10) allows
   a duplicate after a brutal stop only.
3. **An item may wait for ever** (`outbox_stranded`).  With two workers, the late
   retry of an attempt whose lease was taken over decides from the attempt count
   of its own memory (`notificationOutbox.repository.ts:142`) and puts the row of
   the other back to `PENDING` with its attempts exhausted.
4. **Two requests of one user wait on each other** (`lock_order`).  `TAKE` locks the
   user before the incident, as the comment of `workshop.service.mutations.ts:37`
   has it; every event takes, by its foreign key, a share of its actor's row after the incident.
   PostgreSQL aborts one.  With one request per user there is no circle.
5. **A page of the Journal may leave an event out** (`pages_skip`).  The cursor is cut
   to the millisecond (`workshop.repository.ts:1048`), against the comment of
   `:418-420`.

Met while modelling, and stated by no run:

* The administrator's login reads the session version after the verification of
  the password (`auth.service.ts:104`): a password changed in between leaves a session that
  the old one opened, against `docs/conception.md:97`.
* An item for which a message went out may end as skipped, when a preference is
  disabled before the retry (`notifications.service.ts:12-15`, `docs/technique.md:541-543`).
* An edit without any difference answers success and writes nothing, where
  `docs/technique.md` announces `400 NO_CHANGES`.
* `editAfterTake` is offered by no screen, where `docs/conception.md:461` gives
  «Modifier actif pris» to the supervisor.
* The correction form sends fields that nobody typed: after a change by somebody
  else, they ask to undo it (`docs/conception.md:293-294`); and the flag of the
  dialogue outlives the record, so that Back may save a form opened on one
  incident onto another.
* The dialogue of decision is a snapshot: it may approve another request of the
  same type than the one it shows.
* The middleware of the board's limit and the handler that feeds it use two keys
  (`/api/board/session`, `/api/board`), so that its count is never looked at.
* A blocked toggle of a preference stays as clicked (`AdminSettingsPage.tsx:270-272`),
  and the lost answer of a stored one shows it reverted.  Two concurrent changes
  of the address are both checked against the old one.
* The dialogues to edit a line or a machine and the plan send whole fields of a
  copy that may be old; a forced archiving shows the count of incidents read when
  the dialogue opened; the edition of an account is two calls, of which the second
  may fail.
* `restore.sh` stopped by SIGTERM exits with the code of its trap.
* Someone who followed an incident keeps following it after a change of role.
* History, knowledge and followed incidents show a late page under a new filter;
  the Journal was corrected (`docs/archive-rc`, RC5-AUD-02).  A stale answer to a mutation overwrites a
  newer list until the next poll; a late answer to a logout clears a newer cookie,
  and a late refusal ends a newer session.
* The revalidation of `xmin` is never what saves a service: the rows it guards are
  locked and compared again.

## Limits

The components that `PROJECT.json` marks `not_modelled`, each with its reason;
the contents of mails, events and audit records; the analytics; PostgreSQL itself,
of which the models assume serial execution of the statements, row locks, partial
unique indexes and atomic commits.  `NOTIFICATION_MAX_ATTEMPTS` is a constant: lowered
at a restart, it would leave items that the claim refuses.  `Offers` is on a
fresh copy; what an old one leads to is in `Dashboard` and `Panel`, for one incident or two.

## Plan

1. *Done*: the models above, their runs, and the theorems above.
2. `ServicesAreOneStep` for several requests of one user in flight, with a role
   for each request in `Workshop` instead of one for each user.
3. The invariants on which the liveness of the screens rests (`ViewCatchesUp`,
   `RevokedLeavesDashboard`), of which the safety half is provable.

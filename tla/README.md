# Verification of tmpmail

tmpmail is a temporary-mail service: a Rust backend (`src/src`) over PostgreSQL
(`src/migrations`), which copies mail from an Inbucket server, and a Next.js
frontend (`src/frontend`). This directory holds TLA+ models of the backend's
core and of the browser client, TLC configurations that check them on small
instances, and proofs, checked by TLAPS, of safety properties for every value
of the constants.
`PROJECT.json` maps every definition to the lines it models and lists the runs,
the hazards, the findings and the theorems.

Paths below are relative to the repository; `pg_store.rs` stands for
`src/pg_store.rs` and so on.

## 1. The system

One process: `main.rs` starts an HTTP server (axum, many tasks) and three
background tasks, which share an `AppState`. Everything durable is in one
PostgreSQL database. Nothing ensures that there is one process only, but nothing
supports more either: the background gate, the console's document and the rate
limits live in the memory of one.

| part | state | operations | who calls it |
|---|---|---|---|
| Store, accounts and messages (`pg_store.rs`) | tables `accounts`, `messages`, `imported_source_keys`; rows are soft deleted | create, authenticate, delete an account; list, read, mark, delete a message; import; reconcile; expire | routes, poller, cleanup |
| Ingestion (`ingest.rs`, `inbucket.rs`) | none that lasts; a cycle's local variables | `sync_once`: per mailbox list, reconcile, then per message check, fetch, import | `spawn_inbucket_poller` |
| Store gate (`state.rs`) | a semaphore with one permit | `try_lock_store_for_background`, with a timeout | poller, verifier, cleanup |
| Cleanup (`cleanup_worker.rs`) | none | expired accounts, then stale pending domains | its loop, `routes/ops.rs` |
| Managed domains (`routes/domains.rs`, `domain_worker.rs`, `domain_management.rs`) | table `domains` | create, verify, share, delete; take over the operator's list at start | console users, verifier, start |
| Console (`admin_state.rs`, `routes/admin.rs`) | one document in memory behind a read-write lock, saved as a whole after every change | setup, login, register, recover, users, access keys, invite codes, settings | HTTP requests, start |
| Tokens (`auth.rs`) | none; signed tokens with a session version | issue, decode | routes |
| One-time codes (`otp.rs`) | table `otp_codes` | issue, verify and consume | registration, mailbox creation |
| Rate limits (`rate_limit.rs`) | attempts per key in memory | check | routes |
| Events (`realtime.rs`, `routes/events.rs`, `metrics.rs`) | a broadcast channel, a count of open streams | publish, subscribe, open, close | importer, routes |
| Audit log (`pg_store.rs`) | table `audit_logs`, trimmed to 500 | append | every write |
| Mailer, Cloudflare client, configuration | none | calls out, parsing | routes, start |
| Mailbox calls (`frontend/lib/api.ts`) | the current mailbox and token, a shared promise of a new token | list, read, mark, delete a message; refresh the token on a 401, retry | inbox, stream, detail view |
| Inbox, stream, detail (`message-list.tsx`, `use-mail-checker.ts`, `message-detail.tsx`, `auth-context.tsx`) | what is shown, loading flags, a connection, a watchdog, a reconnection timer | load, refresh, open, break, reconnect, select, delete | the user, timers, answers |
| Web session (`admin-session.ts`, `admin-entry-page.tsx`, `linux-do-callback-page.tsx`, `workspace-route-client.tsx`, `app/api/mail/route.ts`) | an http-only cookie, a marker and a pending session in sessionStorage, the page on display | bootstrap, sign in by form or by Linux Do, restore, change password, sign out | the user, page loads, answers |
| Console lists (`domain-management-page.tsx`) | one list of rows and a loading flag per view, one dialog | load, create, change, delete, clear, clean up | the user, answers |
| Console settings (same file) | a draft, the saved settings, the Cloudflare ones, a question on display | edit, save the difference, switch the system, leave with or without edits | the user, answers |
| Domain batch (same file) | a dialog, numbered loads of zones, a running batch with its counts | open, load zones, create and synchronize one by one | the user, answers |

What makes it hard is where one logical step is several awaits:

* **Ingestion** interleaves calls to Inbucket with statements on the store, lets
  go of the gate in between, is abandoned by any error (`?`), and may be killed
  anywhere. Meanwhile accounts come and go, addresses change hands, and Inbucket
  receives and drops mail. *Correct* means: nothing is delivered twice or to the
  wrong holder, nothing deleted comes back, only what is gone upstream is deleted,
  and mail does arrive.
* **Domains** are verified by asking DNS between two statements, by two parties at
  once; accounts are checked against domains outside the transaction that makes
  them. *Correct* means: no domain is usable, and no mailbox created, under a name
  nobody has proven to control.
* **The console** changes its memory first and saves second. A save that fails
  leaves memory ahead of the database until a restart or a later save; access
  check, operation and token issue take the lock separately. *Correct* means: what
  was revoked stays revoked, an administrator remains, invite codes admit no more
  than they are for.
* **One-time codes** are checked in a transaction of several statements, with a
  password hash between reading the row and deciding, by any number of requests at
  once, while the code expires, is replaced, or is withdrawn because its mail failed.
  *Correct* means: a code admits one request, and wrong guesses cannot be slipped
  past their count.

* **The mailbox client** runs in one thread, but every click, timer and answer is a
  task of its own, and the tasks meet in any order. One token refresh serves the calls of whatever
  mailboxes wait for it; a stream that breaks first refreshes the inbox and only then
  schedules its successor, while the user may have moved on. *Correct* means: what is
  shown as loading will be answered, the stream belongs to the mailbox and token on
  display, and a broken one comes back.
* **The web session** is a cookie the script cannot read and a marker it can, changed by
  answers that may come after the page that asked is gone. *Correct* means: who signed
  out stays out, a loading screen ends, a code of Linux Do is used once.
* **The console page** keeps copies: lists changed by answers out of order or lost,
  a draft beside settings that others change, zones of a dialog that was closed and opened
  again. *Correct* means: the copies are right once all is answered in order, a save
  carries only its author's edits, and edits are never left behind unseen.

`PROJECT.json` lists these hazards one by one, at their lines, with the properties
that cover each, or why none does yet.

## 2. Modules

| module | models | extends |
|---|---|---|
| `Accounts` | accounts table, clock, expiry, unique address among live rows | |
| `StoreGate` | the one-permit semaphore with its timeout | |
| `Delivery` | what the store promises about upstream mail, without poller, gate, retries or crashes | |
| `Ingest` | poller, requests on accounts and messages, cleanup of accounts, Inbucket, crashes; implements `Delivery` | `Accounts`, `StoreGate` |
| `Registry` | what managed domains promise, without lookups, late answers or restarts | |
| `Domains` | domain requests, verifier, cleanup of both kinds, operator's list, restarts; implements `Registry` | `Accounts`, `StoreGate` |
| `Console` | the console's document, its requests, saving, restarts | |
| `OneTimeCode` | what one-time codes promise, without table, locks or mail | |
| `Otp` | the table of codes, verification statement by statement, the mailer; implements `OneTimeCode` | |
| `MailCalls` | calls with a mailbox token: refusal, the shared refresh, retries | |
| `MailClient` | the current mailbox, inbox, event stream and message on display | `MailCalls` |
| `WebSession` | cookie, marker, entry page, Linux Do callback, restore and sign-out | |
| `ConsoleLists` | the lists of the console, their changes and loads | |
| `ConsoleSettings` | the settings view: draft, saves, the question about unsaved edits | |
| `DomainBatch` | the dialog that adds a batch of domains | |
| `ConsolePage` | the last four, followed one at a time | these four |
| `MCIngest`, `MCDomains`, `MCConsole`, `MCOtp`, `MCMailClient`, `MCConsolePage` | constants for TLC | the above |
| `AccountsProofs`, `IngestProofs`, `DomainsProofs`, `ConsoleProofs`, `OtpProofs`, `MailClientProofs`, `WebSessionProofs`, `ConsolePageProofs` | theorems | the above and `TLAPS` |

`Accounts` and `StoreGate` are the shared parts: `Ingest` and `Domains` each
compose them with their own component, so the cleanup appears in both, in detail
where it matters (its selection and its transaction in `Ingest`, its two statements
and what may fail between them in `Domains`).

**Granularity.** An action ends where the code awaits something that lets others
in: an HTTP call, a DNS lookup, a lock, the gate, or the gap between two SQL
statements outside a transaction. A transaction is one action, except in `Otp`,
where the row locks a transaction takes on its way are what the properties are
about. A guard is the
code's condition or early return; a request that is refused changes nothing and is
no action of its own, except where it gives up something it held. In the browser an
action is one task of the event loop: a click, a timer, a page load, or an answer,
with everything up to the next await, React's render and effects included.

### Accounts, StoreGate

A row's id never gets another address, so `AddressOf` is a constant that says
which address each fresh UUID is created for; ids that share an address are its
successive holders. `status` tells apart by whom a row was soft deleted, which in
the database only the audit log does. Application and database read one clock.
`StoreGate` has an operator for each use of the permit: `Acquire`/`Release` around several
statements, `PassThrough` around one, `GateTimesOut` when the wait is given up. A
timeout is possible only while another task holds the permit.

`AccountsSpec` is what both compositions do to the accounts table: time passes, an
account is inserted under a free address, accounts are soft deleted. It is the part of
the table's behaviour that neither may spoil for the other.

### Ingest

`pc` walks through `sync_once`: `PollBegin` (addresses in use), `ListMailbox` (the
HTTP call), `Reconcile`/`ReconcileSkipped`, then per summary
`CheckImported`/`CheckSkipped`, `FetchMessage`, `ImportSelect`/`ImportSkipped` (the
SELECT of recipients, keeping the gate), `ImportInsert` (the transaction), and
`MailboxDone`, `PollEnd`. `PollFails` is the `?` of every call; `ReconcileUnaudited`
is the UPDATE that is committed when its audit entry fails; `Restart` forgets
everything not in a table. The routes of accounts and messages are actions
(`CreateAccount`, `DeleteAccountTx`, `DeleteMessage`, `PatchMessage`, `ReadMessages`) over the store's
operations, which keep the code's names. The messages table is two counters per account and
source, of visible and of deleted rows, so that a duplicate row would be seen.
`LikeMatch[m]` is the set of mailboxes whose keys match the reconciliation's
`LIKE 'm:%'`. A mail is filed in the mailboxes of its `Envelope` and names
the addresses `To`; its copies have different source keys, as Inbucket gives them
different ids. `MailArrives` and `UpstreamPurge` are Inbucket, external.

`Delivery` has four steps: an account is opened, accounts are removed with what they
show, a message is handed out to holders of different addresses, copies are deleted.
`Ingest` implements it with `imported` as the messages handed out and, for each account
and key, `Copies`: shown if there is a visible row, deleted if there are only deleted
ones. Everything that happens between two statements is a stutter.

### Domains

An id is one registration of a name and is never reused. `zone` holds the MX and TXT
records of the names, as far as the verification reads them: `Found(d)` says that DNS
would confirm `d`'s token and exchanger now. The owner of a name changes them freely,
which also stands for lookups that fail. So do the service's own requests: `SyncDomain` writes the
records of a domain one after the other (`sync_domain_records`) and may fail at each of
them, `ClearRecords` deletes the matching ones before the domain itself is deleted, and
what is left of either in the zone is one of its prefixes. A synchronization whose row
is gone by the time it writes is one of the free changes. A lookup and the storing of its answer are two
actions, for requests (`RequestCheck`, `RequestStore`/`RequestDrop`) as for the
verifier (`VerifyCheck`, `VerifyStore`/`VerifySkipped`); the same for
`DeleteFetch`/`DeleteTx` and `CheckDomain`/`CreateAccountTx`. `Start` is a
(re)start with any public list. `proven` is a history variable.

`Registry` has registrations that stand, those that are usable, those the operator has
listed and those DNS vouched for. `Domains` implements it with the ids whose row is
present as standing, the active ones as usable, `system` as listed and `proven` as
vouched. A lookup vouches when DNS is asked; that its answer is stored later, or never,
is a step of its own or none.

### Console

`mem` is the document in memory, `saved` the row in the database. Every operation
computes a new document and commits it with one of three `Outcomes`: the save
succeeds, fails (memory keeps the change, the request answers an error), or the row
is written and the answer lost. The write lock is held until the save answers, so
an operation is one action. `cleared` holds requests between their access check
and their operation, `granting` those between authentication and the issue of a
session. A password is the time it was set, which is what the code's session
version is (milliseconds); two passwords of one user never share one. `via`, `floor`
and `dead` are history.

The first document is empty, or one of an earlier version, of which
`migrate_legacy_single_admin_if_needed` has made an administrator (`Migrated`).

The operators on a document (`WithKey`, `WithCode`, `WithSettings`, ...) are the methods of
`AdminStateStore`; the actions are the handlers of `routes/admin.rs` that call them between their
access check and their answer. A user comes in by one of three ways: made by an administrator,
registered by form (`Register`, only while registration is open), or through Linux Do
(`LinuxDoComplete`), which finds the user (`LinuxDoLogin`) or makes one (`LinuxDoJoin`), where an invite code is
asked for, when the user comes back with one. `RegenerateKey` adds a key and removes none,
as its handler does, although its audit entry says "rotated". `SettingsHalfApplied` is an update that
is refused with the registration settings set, with or without the limits behind them.

### OneTimeCode, Otp

`OneTimeCode` has the codes in force and four steps: a code is replaced, admits a
request, answers a wrong guess, or is given up. `Otp` is `otp.rs` with its two
callers. `Issue` is the upsert with its condition on cooldown and expiry, which waits
for a locked row and whose clock reading may be old by then; `MailSent` and
`MailFails` end `send_email_otp`, the latter by a verification that admits nobody.
A verification begins (`Ask`, which fixes `NOW()`), takes the expired rows of all
addresses one by one (`Delete`, `Deleted`), then finds no row (`Refuse`) or locks its
own (`Choose`), and decides on what it selected (`Match`, `Mismatch`). What it
deleted are the rows it has locked: they go when it commits, and are back when it is
rolled back (`Drop`, which also is PostgreSQL's way out of two transactions that wait
for each other). The row's code in `code` is the code in force of the abstract
specification; `misses` and `admitted` are history. A code value is given out
once, so two draws are never equal.

### MailCalls, MailClient

A token speaks for one mailbox and one period, after which the server refuses it. A
call (`Call`) remembers who made it, the token its function began with and the one its
request carries. A 401 makes it wait for the shared refresh (`WaitsForToken`); the
answer resumes all that wait (`Resumed`, in `TokenRefreshed`) or leaves them denied
(`RefreshFails`); then comes the last resort of each function, the token
current by now (`FallsBack`). `Retried` is `retryFetch`, used by the deletion alone.

`Render` is what React does after a change of view, selection, mailbox or token:
which components stay, which effects run again, which fetches lose their request id,
and whether the stream is connected anew or closed. A call whose caller is gone
becomes an `"orphan"`, which still refreshes tokens but tells nobody. `conn` is the
newest connection of `use-mail-checker.ts`; older ones live on only as calls that are
not `live`, whose catch block still runs: they clear the watchdog, or, when they were
recovering, schedule a reconnection on top of their successor's. Events that were buffered
when the watchdog aborted the connection are still handled and arm it again (`conn` is
`"late"`), before the reader notices the cut (`"cut"`). `fetchInbox`'s request
id is kept as the kind of the calls whose answer still counts, `refreshKey` as `stale`.
Messages are kept as the mailbox they came from. Downloads and the mark as read are calls that
only refresh tokens.

### WebSession

The proxy (`route.ts`) sets the cookie when a sign-in is answered and clears it
with a sign-out or a refused restore, so the cookie changes with the backend's answer
whatever the page does with it. `MarkerCleared` is `clearStoredAdminSession`, which
replaces the console by the entry page; `HomeLoaded` the server's choice of page by the
cookie and the browser's by the marker; `OpenCallback` the callback page, which removes
the state before it sends the code. Requests of a page that is gone stay in `requests`,
not `mounted`. Sessions may be ended elsewhere. The one-time code of a registration is a
request of its own (`"otp"`); the cooldown of its button is left out.

### ConsoleLists, ConsoleSettings, DomainBatch, ConsolePage

In `ConsoleLists` a row is the number of changes it shows; `doubled` has the rows that
are listed twice, since more rows of an audit log are appended without a look at those there
are. The calls are named after the functions of `lib/api.ts`, the loads after those of the
page (`loadUsers`, `loadOps`, ...). A call is handled by the
backend at one time (`Handle...`) and answered at another, in any order
(`ListLoaded`, `ChangeAnswered`), or its answer is lost. `drift` is history: something
happened that the rows cannot have followed, such as a change made elsewhere, a lost
or overtaken answer, or a mailbox handler that started from older rows; a complete load made
since takes it back. The lists are those of an administrator's page; a loading flag may stay up a
step longer than the list it belongs to (`activate`), because the mailboxes' is lowered after the
mailbox that is opened next.

In `ConsoleSettings` a save goes through three stages, as `handleSaveSettings` does: the
backend stores the change, reads the session, and the answer replaces saved and draft.
`edited` and `reverted` are history: fields the administrator changed, and fields that
a failed switch or an out-of-date discard left different from what is saved.
`NextConsole` is the console that follows one that went. `TestToken` tests the token typed,
or the saved one, and changes neither.

In `DomainBatch` each load of zones has a number, which the cleanup of the effect that
started it moves on, even when it has become another opening's (`outdated`). `canBatch` is whether
the Cloudflare settings allow batches.

The four parts are one component in the code and share state. What one part does to another
is an action of the other, free to happen at any time:

| in the code | who does it | in the part it happens to |
|---|---|---|
| a batch adds its domains to the list, and each synchronization changes a row of it | batch | `BatchListed` of `ConsoleLists` |
| a save of the settings loads the audit log, a cleanup and the bootstrap load lists | settings, lists, session | `LoadedElsewhere` of `ConsoleLists` |
| the bootstrap empties lists; the end of the session empties all of them | session | `ListsReset`, `NextSession` of `ConsoleLists` |
| the dialog loads the Cloudflare settings, which become the saved ones | batch | `LoadCloudflare` of `ConsoleSettings` |
| the dialog's refresh button asks for Cloudflare settings that allow a batch | settings | `CloudflareChanged` of `DomainBatch` |
| the automatic synchronization of a new domain asks for Cloudflare settings | settings | either choice in `ConsoleLists` |
| the session ends and the next console starts | session | `NextConsole` of `ConsoleSettings` |
| any call of a part may be refused and end the session | all | `ConsoleRequest` of `WebSession` |

So a part by itself has every behaviour it has on the page, and some more: an action of the
table is not tied to the state of the part that causes it. What holds of the part
by itself therefore holds of it on the page. `ConsolePage` follows one part in each behaviour,
`part`, and leaves the others where they start; a property that related two parts, of which there is
none, could not be checked this way.

## 3. Properties and runs

All runs use small sets of model values. A property is listed with the run that
checks it; `PROJECT.json` has, for each, a seeded bug (an operator next to the
one it replaces, marked "Seeded bug") under which TLC finds it violated.

| run | instance | properties |
|---|---|---|
| `IngestReuse` | 2 accounts in turn on one address, 2 mailboxes, 2 mails, one of them filed in both, 1 clock tick | `TypeOK`, `NoSecondHolder`, `OneRowPerSource`, `ExpiredHoldNoMail`, `KeepsDelivery`, `SyncDeletesOnlyMissing` |
| `IngestLive` | 1 account, 1 mail | `MailIsImported`, `MissingIsHidden`, `ExpiredIsRemoved` |
| `Domains` | 2 registrations of 1 name the operator may list, 1 mailbox | `TypeOK`, `ActiveIsProven`, `KeepsRegistry`, `SystemStaysActive` |
| `DomainsLive` | 1 registration | `SettlesVerified`, `StaleIsRemoved` |
| `ConsoleCredentials` | 2 users, 2 keys, 1 password change, 2 requests under way, 1 session | `TypeOK`, `RevokedStaysRevoked`, `AnAdministratorRemains` |
| `ConsoleInvites` | 3 users, 1 code for 1 use, registration by code and closed in between | `InvitesAreBounded` |
| `Otp` | 2 addresses, 2 codes, 2 requests, 2 attempts, codes outlive the cooldown by a tick | `TypeOK`, `CodesStay`, `KeepsPromise` |
| `MailClient` | 2 mailboxes, 1 expiry of tokens, 1 retry of a deletion, 1 activation at a time, a new call while none is under way | `TypeOK`, `NothingIsAbandoned`, `DisplayFollowsMailbox`, `StreamReturns` |
| `ConsolePage`, session | every form on offer, 2 attempts to restore, 2 sessions, 2 authorizations, 2 requests at once | `SignedOutStaysOut`, `CodesAreSentOnce`, `BootIsAnswered` |
| `ConsolePage`, lists | each of the 6 lists, 2 items of 2 revisions, 2 calls at once | `ListsAgree`, `LoadingEnds` |
| `ConsolePage`, settings | 2 fields, 2 values, 2 calls at once | `SavesOnlyEdits`, `NoHiddenEdits` |
| `ConsolePage`, batch | a batch of up to 3, 3 openings, 4 loads of zones | `ZonesOfThisOpening`, `ZonesWillCome`, `BatchAddsUp` |

`ConsolePage` is one run, whose four parts start from different initial states; its
`TypeOK` is that of all four. Three more runs, `IngestLike`, `ConsoleLastAdmin` and
`MailToken`, expect a violation (section 4).

Why these bounds: each property is about at most two actors or rows (two holders of an
address, two copies of a mail, two registrations of a name, two administrators), so
two of each let it fail; `ConsoleInvites` needs three users, an administrator and two
who want the same use. In `Otp` two requests are two guesses at one code, a guess and a
resend, or a guess and a withdrawal; two addresses make one delete the other's
expired row. One tick is enough for anything to expire or to become
stale, because lifetimes and the retention are one tick (a code's lifetime is two, its
cooldown one). In the browser the hazards are about one thing under way while
another begins: two calls, two requests, two loads; two mailboxes let a call of one meet
the other; three openings let a load survive two of them. (`MaxCalls` of `MailClient` bounds only
what clicks start: the stream, a render and an activated mailbox add calls beyond it.) The bounds are named:
`MaxTime` (clock), `MaxStamp` (password changes), `MaxRequests`, `MaxSessions`, `MaxPeriod`, `MaxAsked`, `MaxCalls`, `MaxStates`,
`MaxRevision`, `MaxListCalls`, `MaxSettingsCalls`, `MaxOpenings`, `MaxLoads`, and the sets themselves; a mail arrives at most once, and a user, key or
registration id is given out once. Symmetry is used between values that no other
constant tells apart (the two holders, the two registrations, users, keys, codes, requests) and never
with liveness. Since the theorems of section 5 have no such bounds, the runs of what they
prove mostly serve to show that the interesting behaviours exist and that the seeded bugs
are caught.

`KeepsDelivery`, `KeepsRegistry` and `KeepsPromise` are refinements: every step of `Ingest`,
`Domains` and `Otp` is one that the promise allows, or changes nothing it speaks of. They imply
several of the other properties (section 5, "What a promise is worth"), which is why no
run lists those again: `GoneStaysGone`, `MailboxesUnderProven`, `CodesAdmitOnce`.
`CodesStay` is what `OneTimeCode` leaves open: that promise lets a code be given up at any
moment, while the table gives a valid one up only for a reason of its own address.
What the histories excuse is not checked: with `drift`, rows that missed an answer because it
was overtaken or lost, and mailboxes put together from an older render; with `reverted`, fields that a failed switch
or a discard during a save left different; with `outdated`, a loading flag of zones that
an earlier opening's cleanup left without a load. The properties say that nothing else goes wrong, and that a
load received clean, or an opening that starts its own, puts it right.
`DisplayFollowsMailbox` is three things: the stream is the current mailbox's, a part of the
page waits for one answer only, and every answer still wanted was asked for with the
token on display and carries it.

Only `ConsolePage` turns deadlock checking off: a console nobody clicks rests, and the bounds
on openings and authorizations end what they count. Elsewhere a domain's zone, an
arriving request, a restart or a click can always come. That two verifications may wait for each other's rows shows in
`Otp` only as `Drop` being the one step left to them.

### Fairness

`FairSpec` of `Ingest` and `Domains` assumes, and the code justifies:

* a background task never stops between two awaits: each loops for ever, catches
  its errors, sleeps and begins again, and every call it awaits returns or times
  out (weak fairness of "some step of the loop or its failure");
* a call that is reached again and again does not fail every time: errors of
  Inbucket, PostgreSQL or DNS and timeouts at the gate do not meet the same message
  or domain for ever. tokio's semaphore is first come, first served, and holders
  keep it over a few statements;
* requests' answers are stored or dropped in the end.

Nothing is assumed about requests arriving, mail arriving, the clock or restarts.
A message that always fails to be fetched does starve those behind it in its
mailbox and the mailboxes after it (`?` in `ingest.rs`); the assumption excludes
it, and says so.

`FairSpec` of `MailClient` assumes that a call the stream waits for is answered (every request
is given up after a timeout, `fetchWithTimeout`), that the token refresh is, that the
timer of the reconnection fires, that a request for the stream is answered one way or the
other, that a connection which was cut off notices once it has handled the finitely many events it had
read, and that a stream asked for again and again opens in the end. It assumes nothing
of the inbox's, the detail's or the deletion's calls, the watchdog or the user, who may close the inbox at
any time.

The proof system does not reach liveness: these six properties are model-checked
only.

## 4. Findings

Three runs expect a violation. Each states what the repository says of itself.

* `IngestLike`, `SyncDeletesOnlyMissing`: `_` is legal in a local part and a wildcard of
  LIKE. Reconciling `a_x` deletes mail of `abx` that is still upstream, although the
  audit entry says "upstream message missing". With a `LikeMatch` that matches
  nothing else the property holds, and `SyncIsExact` proves it.
* `ConsoleLastAdmin`, `LastAdministratorStaysEnabled`: the guard whose error is "the last
  administrator cannot be disabled" counts disabled administrators too, so both of
  two can be disabled in turn.
* `MailToken`, `TokenOfItsMailbox`: a token refresh is asked for the mailbox current when a call is
  refused, and its answer is given to the mailbox current when it arrives. When the user
  has switched in between, the second mailbox is left with the first one's token, and its
  inbox, stream and deletions work on the first one's mail. The comment of the function
  claims protection against races. `TokensMixedLate` proves that this is the only way: no
  switch, sign-in, page load or retry mixes them.

Seen while modelling, and not checked because nothing in the repository says what
should happen (the models have the steps; `PROJECT.json` lists most of them
as hazards without a property): the age of a pending domain counts from its creation, so one failed
re-verification removes an old domain at the next cleanup; a session is issued with the
version read after the password check's lock was released, so a password change in between
does not revoke it; a manual refresh that a first load supersedes leaves its button
disabled until another refresh; a mailbox's token that arrives after a sign-out still
becomes current; a 401 that ends the session leaves the mailbox for whoever signs in
next; a refresh that a replaced stream connection still awaits when the user goes to another
mailbox puts the old one's messages in the new one's inbox (`use-mail-checker.ts`, of which
`ListsCurrent` proves that it is the only way past the token); a request of `delete_domain`
that fetched its row before the name was registered anew takes the new one's accounts.

## 5. Proofs

The theorems hold for every choice of the constants, of any size, that
satisfies the named assumptions of the modules (`AccountsAssumption`,
`IngestAssumption`, `DomainsAssumption`, `ConsoleAssumption`, `OtpAssumption`, `MailCallsAssumption`,
`WebSessionAssumption`, `ConsoleSettingsAssumption`, `ConsoleListsAssumption`,
`DomainBatchAssumption`), which TLC evaluates in every run of their modules.

* **Typing.** `TypeCorrect` in each of `IngestProofs`, `DomainsProofs`, `ConsoleProofs`, `OtpProofs`; `ClientTypes`
  and `PageTypes` in the browser's.
  For `Ingest` the type invariant is inductive only with `KeyChosen`: where the poller is
  decides that it has a mailbox and a key.
* **Accounts** (`AddressesHeldOnce`, `RemovedForGood`, `KeepsAccounts` in `IngestProofs` and in
  `DomainsProofs`). `AccountsSpec` alone gives each address one holder in use, expires nobody early,
  and never brings a removed account back or moves an expiry; both compositions implement
  it, so the facts hold of each, and of anything else that writes the table by these
  statements.
* **Delivery** (`AtMostOneRow`, `NeverTwoHolders`, `DeletedForGood`). `DeliveryInv`: a key
  that is not recorded in `imported` has no rows anywhere (`RowsRecorded`); at most one
  live account holds an address (`OneHolderInUse`), and the targets of an import
  have distinct addresses (`TargetsDistinct`). The only step that adds rows for a
  key is the one that records it (`OnlyImportsAddRows`), so rows of a key
  are added once, for one holder per address. The properties alone are not
  inductive: that a second import finds the key recorded must be carried along.
  `ImplementsDelivery` adds the invariants of the cleanup and that rows belong to accounts
  that exist (`NamedExist`), and maps each step: an import is `Deliver`, a reconciliation or a
  user's deletion `Delete`, the cleanup's transaction `Remove`, all else a stutter.
* **Expiry** (`ExpiryHidesMail`). `TargetsGuarded`: while an import has targets it holds
  the gate, and none of them has been expired. It is the gate that makes this
  true; without it (`CleanupUngated`, a seeded bug) the property fails.
* **Reconciliation** (`SyncIsExact`), under the hypothesis `LikeMatch[m] = {m}`.
  `ListingComplete`: while a reconciliation is pending, any key of the mailbox that is
  both upstream and imported is in the listing. A key that arrived since is not
  imported, hence has no rows.
* **Domains** (`NoUnprovenDomain`, `NoUnprovenMailbox`, `SystemDomainsStay`). `ProofInv`:
  answers waiting to be stored are honest about their own id, whose row is not the
  operator's; doomed ids have a token; what a request vetted was proven.
  `ImplementsRegistry` also needs that no two present rows have one name (`NamesUnique`) and
  that the verifier asks DNS about rows there are or were (`PendingKnown`).
* **Administrators** (`AdministratorRemains`). `AdminInv`: both documents, if they have
  users, have an administrator; memory has one if the record has; nobody is past an
  access check while there is none. The last conjunct is what makes a late
  operation of a removed administrator harmless.
* **Revocations** (`RevocationsLast`). `SecretsInv`: both documents hold only generated,
  never removed keys, no key has two holders, and each version lies between the
  floor and the clock. It has to be stated of the record as well as of the memory,
  because a restart loads the record.
* **Invites** (`InvitesBounded`). `InvitesInv`: in both documents a code's use count is at
  least the number of users it let in and at most its maximum. A use may be
  counted without a user (`JoinFails`), never the reverse.

* **One-time codes** (`AdmitsOnce`, `ImplementsPromise`). `OtpInv`: a verification that has
  chosen its row holds its lock, and the row still is what it selected (`RowsLocked`); a
  row's `failed_attempts` is the number of wrong guesses its code has answered, the
  code admitted nobody yet, and no other row has it (`RowsCount`); codes not issued
  have no history (`NothingBeforeIssue`). With it each step of the table is a step of
  `OneTimeCode` or none (`StepIsPromised`). The lock is what makes it inductive:
  without FOR UPDATE (`SelectOnly`, a seeded bug) two guesses decide on one row.
* **Codes of other addresses** (`CodesAreKept`). A verification locks the expired rows of every
  address and deletes them for good only when it commits. `HeldRows`: a held row has been
  chosen by its holder or was expired when it was taken, and stays so, because nobody
  rewrites a locked row.
* **What a promise is worth** (`DeliveryIsSafe`, `RegistryIsSafe`, `OneTimeCodeIsSafe`). These are about the
  abstract specifications themselves, and use nothing of the detailed ones: a message is
  handed out once, to one holder of an address at most, and deleted for good; a name
  stands for one registration, usable only if vouched for or listed, which never comes back;
  a code admits once and never is in force again. With the refinements they
  hold of the detailed modules (`NothingIsInherited`, `DomainsAreSafe`, `SpentCodesStaySpent`).

* **Mailbox client** (`ClientTypes`, `StreamFollows`, `NothingAbandoned`). `ClientInv`: there is a
  token exactly when there is a mailbox (`TokenIfMailbox`); the stream's timer and the calls of
  inbox and stream exist only while the inbox is on display (`StreamNeedsList`), those of the
  message only while it is (`DetailNeedsMessage`), because leaving either stops the timer and
  orphans the calls. A late answer therefore finds the part it is for, or nobody; that is
  what the two properties lack to be inductive. The lemmas say once, of each operator that
  changes the calls (`Orphaned`, `Superseded`, `Resumed`, `Replaced`, `Settle`, `Render`), whose
  calls survive it.
* **Answers the page waits for** (`DisplayFollows`, `ListsCurrent`, `TokensMixedLate`). `AnswersInv`, on top of
  `ClientInv`: inbox, stream and message each wait for one call at most, and every wanted one
  was asked with the token on display and carries it. It is inductive because a change of the
  token renders everything anew, which leaves no call of before wanted; a set of calls with
  one of each stays one when an operator changes its calls one by one or gives some to
  nobody (`ImageOfOneEach`).
* **Web session** (`SessionTypes`, `SigningOutLasts`, `CodesGoOnce`, `BootsEnd`). Only the console has
  a mounted restore under way (`OnlyConsoleRestores`), so an answer after a sign-out finds
  nobody to put back. A state is in the tab until its code is sent, and codes of
  authorizations not started have not been sent (`OAuthInv`). Each page that loads waits for
  an answer of its own kind, and the callback page, which shows no loading screen, alone
  sends codes (`BootInv`); without the second part an answer to a code could drop the
  request another page waits for.
* **Settings** (`SettingsTypes`, `EditsAreNotHidden`, `SavesCarryEdits`). What differs was
  edited or reverted (`DifferingIsRecorded`), and what was edited differs, but for the
  switch that saves itself (`EditsDiffer`): a save sends what differs, and the view is
  left when nothing does.
* **Lists** (`RowsFollow`, `LoadingIsAnswered`). `Followed`: while nothing was missed, each answer on its way
  leads from what came before it to the backend's items at its time, the first from the
  rows and the last to the items there are now; and the same holds of the answers behind
  one that is marked as clean, so that a load which is received clean puts the rows
  right whatever they missed before. A deletion names one row (`DeletesOne`).
* **Batch** (`ZonesAreCurrent`, `ZonesAreAwaited`, `BatchesAddUp`). No load has a number that was not drawn, and
  the one with the current number is of the opening on display (`LoadsOfThisOpening`). The
  domains made come before the one the loop is about (`InOrder`), so that none is counted
  twice.
* **The page** (`PageTypes`, `PageIsSafe`). `PartsAlone`: a behaviour of `ConsolePage` is one of each part,
  since the parts have actions of their own for what they do to each other (section 2); the theorems about the parts carry over.

Some theorems are about properties no run lists any more, since a property with a run
implies them or covers the same hazard: `GoneStaysGone`, `MailboxesUnderProven`, `CodesAdmitOnce`,
`StreamFollowsMailbox`, `ListsByTokenOrOldStream`, `MixedByLateRefresh`. TLC finds each true in the
instance of its module; name it in the `.cfg` to see it.

Not proved: the six liveness properties (`MailIsImported`, `MissingIsHidden`, `ExpiredIsRemoved`,
`SettlesVerified`, `StaleIsRemoved`, `StreamReturns`), which are out of the prover's reach with their
fairness, and the three violated properties. The safety part of `StreamReturns`, that a stream
which is not open has a request, a refresh or a timer that will bring it back, is in
`NothingIsAbandoned` and proved; that the timer and the requests then do it is what TLC checks.

## 6. Abstractions

* Message bodies, addresses, names, tokens and hashes are model values; validation
  and formatting of input is left out. A password's hash is its time stamp.
* The seen flag, attachments, read-only requests, audit entries as data, metrics and
  event publication change nothing that the properties tell apart. Failing audit
  writes are modelled where they leave a committed change behind them.
* PostgreSQL transactions are atomic and isolated as far as the unique indexes and
  row locks make them so; a lost connection is an error either before or after the
  commit.
* In the backend's modules session and mail tokens do not expire; expiry only removes
  behaviours there. In `MailCalls` they do.
* One process, as in section 1; one browser tab, with other tabs as `OtherTab` and
  `SessionsEnd` of `WebSession`, and other administrators as `OthersChange` and `OthersSave`.
* A click needs a button the page enables. HeroUI's `Button` is disabled while `isLoading`
  (external), and a dialog is modal.
* React's state and the runtime copy `api.ts` keeps of it are one: a layout effect makes
  them equal before anything else runs.
* A batch is not followed past the page it was started on.

Not modelled, and why:

* the rate limiter and the backend's side of event streams: planned, below;
* owners of domains and mailboxes and their limits: planned;
* Cloudflare, DNS and Linux Do themselves: external services, of which the models have the
  answers, and for Cloudflare the records a request leaves there. The choice of the zone and
  the listing of zones are answers too;
* the mailer, the configuration, the deployment scripts, the audit log: no state the others read;
* components of the frontend that no page imports (`app-shell.tsx` and what it
  shows, with the login, registration and switching inside `AuthProvider` that only they
  call; `empty-state.tsx`), and `waitForAdminSessionInfo`, which nothing calls;
* paging, search, drafts of forms, translations, layout: they change nothing
  that the properties see;
* consoles of users who are not administrators: they have some of the buttons
  of an administrator's, and their behaviours are among those modelled.

## 7. Plan

Done: `Accounts`, `StoreGate`, `Ingest`, `Domains`, `Console`, `OneTimeCode`, `Otp`; `MailCalls`,
`MailClient`, `WebSession`, `ConsoleLists`, `ConsoleSettings`, `DomainBatch`, `ConsolePage`; their
runs and the proofs of section 5.

What would come next, in this order:

1. `Ownership` (`routes/domains.rs`, `routes/accounts.rs`, `routes/admin.rs`): limits counted in
   one statement and used in another, and `delete_user` counting what a concurrent
   request creates; composes `Accounts` with owners.
2. `RateLimiter` (`rate_limit.rs`): the fixed window per key and its periodic cleanup against
   a reference that counts every attempt.
3. `EventStream` (`realtime.rs`, `routes/events.rs`, `metrics.rs`): the connection count, its
   guard, lag and loss; composed with the stream of `MailClient`.
4. The domain's remaining operation, sharing, with the owners of 1.

## 8. Running it

    tlc -workers 2 -config IngestReuse.cfg MCIngest
    tlapm IngestProofs.tla

The other runs are named after their `.cfg` files; `PROJECT.json` says which module
each belongs to. The longest, `ConsolePage`, has 1.5 million states; it, `Domains` (0.8 million) and
`ConsoleInvites` (0.4 million) take two to three minutes each.

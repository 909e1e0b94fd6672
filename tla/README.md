# WebStrada in TLA+

WebStrada is a CFML application server: a FastCGI process that compiles CFML
templates to machine code and runs them. It forks a fixed number of *workers*, each
serving one request at a time in a process of its own, and a *reaper* that ends
expired sessions and applications; a *supervisor* watches over them. The processes
share no memory to speak of. What they share is a set of SQLite files, above all
`scopes.db`, and what holds of the server as a whole is decided by how their
statements on it interleave, by the clock, and by who dies when.

That part is what these modules model. They do not model CFML, its compiler or its
function library, which are sequential and have some thousands of unit tests.

## Inventory

| Component | Source | State it keeps | Operations | Status |
|---|---|---|---|---|
| Scope store | `src/scope_store.cpp` | table `cf_scope`: one row per application, one per session; `cf_seq`; `cf_security` | load with lazy purge, store (upsert), touch, remove, earliestExpiry, claimExpired, nextCfid | `ScopeStore`, `Logins` (`cf_security`) |
| Scope lifecycle | `src/cftags/tag_application.cpp`, `src/worker.cpp`, `src/core/core_misc.cpp` | a `ScopeContext` per request; `m_application`, `m_appCfcStarted` per worker; cookies at the clients | scope_begin, cf_application_enable, run_application_cfc, SessionInvalidate, SessionRotate, ApplicationStop, scope_end | `ScopeLifecycle`, `SessionFate` |
| Scope contents | `src/cftags/tag_application.cpp` | `m_application`, `m_session`, `g_liveSessions` per worker; the JSON of the rows | the same operations, for the data they carry | `ScopeSharing` |
| Reaper | `src/reaper.cpp` | timerfd, signalfd, the claimed batch | the event loop, reap_expired_scopes, shutdown | `Reaper` (the loop), `ScopeLifecycle` (the batch) |
| Supervisor | `src/appserver.cpp` | `reaper_pid`, `childs`, signal mask | fork, sigwait, waitpid, respawn, terminate | `Supervisor` |
| Transactions | `src/cftags/tag_transaction.cpp`, `src/cftags/common.cpp`, `tag_query.cpp`, `tag_storedproc.cpp`, `src/db/db.cpp` | `g_txStack`, `s_threadConnections`, the queried and retried datasources | begin, commit, rollback, savepoints, statement, retry, clean-up | `Transactions` |
| Configuration | `src/config.cpp`, `fn_configset.cpp` | a JSON file, its last seen modification time, `config::*` per worker | save, reloadIfChanged, __configSet, __configReset | `Configuration` |
| Template cache | `src/template_cache.cpp` | compiled form and timestamp per path | get, get_component, clear | `TemplateCache` |
| Cache store | `src/cache_store.cpp`, `src/cftags/tag_cache.cpp`, `fn_cache.cpp` | `cf_cache`, `cf_cache_region`, `g_fragCaptures` per worker | put, get with expiry, remove, create and remove region, fragments | `CacheStore` |
| Logins | `src/cftags/tag_login.cpp`, `cf_security` of the store | token rows, `g_sec`, `g_loginFrames` per worker, cookies | cflogin, cfloginuser, cflogout, idle purge | `Logins` |
| CFID sequence | `ScopeStore::nextCfid` | `cf_seq` | one read and write per new session | not modelled, see below |
| Request pipeline | `src/worker.cpp` | output buffer | dispatch, response, guards at each exit | in the modules of what it changes |
| Parser, code generator, runtime, values, functions, other tags, uploads | `src/parser.cpp`, `src/codegen/`, `src/core/`, `src/cffunctions/`, `src/cftags/` | per request only | - | not modelled: sequential, and the language is too large for a bounded check to say much |
| Profiler, statistics, administrator | `src/profiler_store.cpp`, `src/server_stats.cpp`, `admin/` | diagnostics | - | not modelled: nothing decides anything by them |

How they interact:

- worker to worker: through the rows only. Every statement is atomic (SQLite, busy
  timeout); no transaction spans two of them except in `claimExpired` and `nextCfid`.
- worker to reaper: through `expires_at` only. Nothing wakes the reaper when a worker
  writes a row that is due before the one its timer is set for.
- client to server: the CFID/CFTOKEN cookies. They are sent with the response, before
  the session is stored.
- supervisor to children: fork, SIGTERM to the reaper, SIGUSR1 to the workers;
  children to supervisor: SIGCHLD, which the system merges while one is pending, and
  discards while it is not blocked; and PR_SET_PDEATHSIG, once the child has asked for it.
- worker to worker, besides: through `cf_cache`, `cf_security` and the configuration
  file, whose modification time is all a worker looks at.
- request to request of one worker: through what a request leaves in the worker's
  variables. `scope_begin` clears the login and the transaction frames, `process_request`
  rolls back the connections, and nothing clears `g_loginFrames` and `g_fragCaptures`.

What makes it hard: a request holds a session over many statements while its row may
expire, be claimed, be rotated or be invalidated by another request of the same client;
three copies of a session (row, live copy of each worker, the request's) disagree;
the reaper sleeps on what it read; a callback may kill its process; signals are lost.
Blocks of a page (`<cftransaction>`, `<cfcache>`, `<cflogin>`) are stacks in the runtime
that compiled code pushes and pops, and it can leave a block without a pop.

What should hold: a session that was stored is never silently lost; one that was
ended stays ended; a page runs over an initialised application; clients do not see each
other's sessions; what a request has stored the next one sees; what is due is claimed,
within a bound; there is one reaper, it is replaced when it dies, and a signal to
terminate ends the server; a transaction is all or nothing and its connection clean for the
next request; a worker that does not reload the configuration has no reason to; an entry of
the cache is what was put under its key; a request runs under its own client's login. Where
the code does not keep these, a run shows how.

## Modules

| Module | Is |
|---|---|
| `ScopeStore` | the `cf_scope` table of one application, an operator per SQL statement |
| `ScopeLifecycle` | workers, clients, reaper and clock over `ScopeStore` |
| `ScopeSharing` | what the scopes contain, across workers, applications and clients |
| `Reaper` | when the reaper sleeps and wakes |
| `Supervisor` | the processes |
| `SessionFate` | the abstract specification of a session, which `ScopeLifecycle` implements |
| `Transactions` | the frames and connections of one worker, request after request |
| `TemplateCache` | one compiled file in the caches of the workers |
| `Configuration` | the configuration file and its copies; EXTENDS `TemplateCache`, which it clears |
| `CacheStore` | one region of the cache, and the fragments of `<cfcache>` |
| `Logins` | `cf_security` and the login bodies |
| `MC...` | the symmetry set of each, and constants a .cfg cannot write, for TLC |
| `ScopeLifecycleProofs`, `ScopeSharingProofs`, `ReaperProofs`, `SupervisorProofs`, `TransactionsProofs`, `ConfigurationProofs`, `CacheStoreProofs`, `LoginsProofs` | the theorems of each, those of `TemplateCache` with those of `Configuration` |

Next to some definitions there is a "mutated form": the definition with a plausible
mistake in it. No specification uses these. They show that a property depends on the
code it is about: with the mutated form in place TLC finds the property violated.

### ScopeStore and ScopeLifecycle

`rows` is the table; each operator of `ScopeStore` is one statement. A row is its
expiry, whether its JSON holds what `onApplicationStart` sets (`data`), and whether it
names an Application.cfc (`cfc`). An expiry of 0 is "never".

A worker's request goes through `pc`:

| pc | Action | Code |
|---|---|---|
| idle | `BeginRequest` | scope_begin, and the clock reading of cf_application_enable |
| touchApp | `TouchApplication` | touch of the application a worker has in memory |
| loadApp | `LoadApplication` | loadApplication with its lazy purge; a new application if there is none |
| touchLoaded | `TouchLoadedApplication` | the touch after a load |
| touchSession | `TouchSession` | touchSession by the cookie, else `MintSession` |
| loadSession | `LoadSession` | loadSession, else mint: the row may have gone since the touch |
| start | `StartCallbacks` | onApplicationStart, onSessionStart in run_application_cfc |
| page | `InvalidateCallback`, `RotateRemove`, `ApplicationStop`, `FinishResponse` | what the page can do; the response |
| invalidate | `InvalidateRemove` | SessionInvalidate after its callback |
| rotate | `RotateStore` | SessionRotate after the removal |
| saveApp, saveSession | `SaveApplication`, `SaveSession` | scope_end |
| dead | - | a worker that died: it is not replaced |

Each is one database statement with the code up to the next, so other workers, the
reaper and the clock act between any two. The code reads the clock before a statement, and the
statement then waits for the database for as long as the busy timeout allows. So a statement works with any of
`Readings(w)`: those from the statement before it (`ctx[w].t`) up to now. A reading that several
statements work with stays in `ctx[w].t`. `cached` says whether the
worker's `m_application` is initialised. `hist` only records: what was stored, begun,
ended, reaped, removed, skipped and lost.

The reaper claims (`ClaimExpired`), then ends its batch, sessions first (`EndSession`,
`EndApplication`), and can die between any two (`ReaperCrash`). When it wakes is left
open here and is `Reaper`'s subject.

`SessionFate` is what all this comes to for one session: new, open, removed, claimed, and
ended, skipped or lost. `ScopeLifecycle` implements it under
`Fate == INSTANCE SessionFate WITH fate <- [s \in Sids |-> FateOf(s)]`, where `FateOf` is
read off `rows`, the reaper's batch and `hist`; `KeepsSessionFate` is that specification as
a property. A step of the store maps to a step of a session (a claim takes all that
are due, so `Claim` takes a set), everything else to a stutter. What it forbids is a second
claim or callback, a session that is claimed and open, and one that is open again after it was
claimed; what it allows, since the code does it, is one that comes back after SessionInvalidate.

### ScopeSharing

The contents of a scope are the set of *updates* made in it. An update is made once, in
both scopes of a request, and `origin` has its application, client and session.
`known`, in a request, are the updates whose request had ended when it began: what it
must see, unless the row has gone since (`expired`). The clock is left out: a row may go
at any time. That allows more than the code does, so what passes holds a fortiori. The
two statements of SessionRotate are one step here; `ScopeLifecycle` has them apart.
`Alone(w)` is the history that only worker `w` has served requests: for such a worker
`ApplicationShared` and `SessionShared` say that nothing stored is missed. With a second
worker in play they do not hold, see "Departures".

### Reaper

`step` is the place in the loop of `run_reaper_process`, `t` the `now` it has read,
`timer` what the timerfd is armed for. The rows are their expiries. `WriteScope` and
`RemoveScope` are the workers; what they write was worked out from a reading of the clock up to
`MaxDelay` seconds old, since cf_application_enable and scope_end read it once and then run statements that
may each wait for the database. A statement may fail at any time, which `failed` remembers:
`ClaimFails` leaves no transaction behind, `CommitFails` leaves it open (`open`), with the rows it has
deleted (`gone`) hidden from the reaper alone, and the workers locked out. That no failing COMMIT is undone
by SQLite itself, as most are, is the worst case. `Crash` and `Restart`
are a callback that kills the process, and the supervisor. `Tick` lets the process be
awake no longer than `MaxBusy`, and sleep no longer than what poll waits for.

### Supervisor

`phase` is the place in `appserver::run`. `role` is the process table: a process that is
no longer `alive` is a zombie until it is waited for, and then its id can be given out
again, which is how `childs` and `reaper_pid` can come to name a stranger. `pending`
holds each signal once. `missed` are the exits whose SIGCHLD was discarded.

### Transactions

`stack` is `g_txStack`, `blocks` the bodies the page is in. The two part ways whenever a body
is left by `<cfbreak>` or a return (`LeaveBlock`) or a frame is ended early (`EndNow`): the
end of a block (`CloseBlock`, `UnwindBlock`) ends whichever frame is on top. `Connect` finds
the connection of a statement and begins the frame's transaction, `Execute`, `ExecuteFails`
and `Reconnect` are what becomes of it. `pool` is keyed by the upper-case name, a frame by the
name as it is spelt, so two frames can share a connection; `hist.mixed` are those that have.
The database is external: `conn[c]` is in autocommit or has a transaction with the writes made
in it. Frames are numbered like their blocks, and `by[w]` is the frame on whose connection a
write ran. `phase = "undefined"` is the use of a deleted connection object, after which the
model says nothing.

### Configuration and TemplateCache

`step` is where a worker is: about to read the file, to note its time, on a page, or in one
of the calls of `save`. Files are inodes, `file` and `tmp` the names they have, so a
process that has a file open goes on writing to it after another has renamed it. A setting's value
is the number of the change that made it. `hist.taken` is the modification time of the text the
worker's settings come from, `hist.overtaken` that another text with this time has been put in its
place since, `hist.rejected` that the worker has applied changes it did not save. A modification has
the time of the one before it or a later one: the kernel takes the time from its tick.
`globals` are the settings that are saved. `lineExecutionTrace` is not one of them, though it is
in the file: `save` always writes `false` and `applyFile` always reads `false`. It is `trace`, with
every step that sets it: the reading of the file, `__configSet` and `__configReset`, which clear the
caches (`SetTrace`), and `__traceControl` and the hundredth traced request, which do not.

`TemplateCache` has one file and the second each of its forms was written in. `Noted` takes the
file and its time together, `FinishCompile` takes the time anew for a template and not
for a component. The pages of `Configuration` run these steps, and the clearing after a reload
is part of the reload's last step.

### CacheStore

`pc` is the statement a worker is about to run and `op` what it is about: a lookup is a SELECT
(`Get`) and an UPDATE (`Touch`) or a DELETE (`Purge`); a put two INSERTs; a flush a list of
DELETEs; the removal of a region two DELETEs. `blocks` are the bodies of `<cfcache>` a page is
in, `captures` is `g_fragCaptures`, `length` how much there is in `out`. A capture is a key and a place
in `out`; a body has besides where what it has written begins (`from`), which `Clear` moves to the
beginning of `out` and a capture does not notice. `Delimits` says when the two agree. `mixed` marks an
entry for which they do not, though no body inside had been left or not been captured (`Uncaptured`).

### Logins

`req[w]` is the request of a worker with the cookies it brought and those it will set, `sec` is
`g_sec`, `frames` is `g_loginFrames`. A user is the client who gave the name. `Resolve` is the
transaction of `loadSecurity`, whose UPDATE can fail unnoticed, and `PurgeIdle` its DELETE, a
transaction of its own; the two `storeSecurity` of a login are `LoginEnd` and `StoreRoles`.
A token that nothing names any more is as good as new, so `Tokens` bounds how many are in use.
A cookie may say what is no token at all: `setAuthCookie` sets one whose base64 is padded in quotes,
and the next request takes it with the quotes ("quoted"). `out` are the tokens a logout has removed,
`late` those of a login that was still to store its roles when it did.

## Runs

Passing, that is: TLC explores every reachable state and finds no violation.

| Run | Properties | Shows | States |
|---|---|---|---|
| `sessions` | TypeOK, SessionsAccountedFor, ReapedStaysGone, StoredWasBegun, LongExpiredIsNeverExtended, KeepsSessionFate | two workers, two sessions, callbacks, rotation, crashes: every session that goes is accounted for, none comes back, each has begun; the refinement of `SessionFate` | 4.1 M |
| `applications` | PageHasApplication | whatever expires, a page has an initialised application | 1.4 M |
| `scope_isolation` | SessionIsolated, ApplicationShared, SessionShared | a client's session has only its own data; one worker misses nothing that was stored | 2.2 M |
| `reaper_progress` | OversleepBounded, DueIsClaimed, SignalObeyed | how late the reaper can be; what is due is claimed, a signal is obeyed, unless claims fail for ever | 0.3 M |
| `supervisor` | TypeOK, OneReaper, NoLostWakeup, SignalsTheReaper, Terminates, ReaperIsReplaced | the processes | 0.1 M |
| `transactions` | TypeOK, FrameAtomic, OutsideIsDurable, NothingPending | transactions are all or nothing and do not outlive their request | 3.6 M |
| `configuration` | TypeOK, FileWhole, SettingsCurrent, SettingsAdvance, OnlyOwnChangesLinger, TemplateCurrent, ComponentCurrent | with one administrator, nobody works with old settings or an old template, outside of named windows | 6.6 M |
| `cache_store` | TypeOK, PurgeSparesFresh, OwnFragment, RegionOfEntry | what is in the cache is what was put there, or what the fragment of its key wrote | 5.5 M |
| `logins` | TypeOK, OwnLogin, LoggedOutStaysOut, WholeLogin | a login is its client's, and whole, and over when it is, but for one race | 3.0 M |

Each of the others checks one statement of the documentation or a comment that the
code does not keep, and ends in its counterexample:

| Run | Property | What TLC shows |
|---|---|---|
| `application_leak` | ApplicationIsolated | one application's data is stored under another's name |
| `nested_block` | ThrownIsUndone | a block that has committed explicitly commits the block around it at its end; that one throws, and its write stays |
| `torn_config` | FileWhole | two workers that save at once use one temporary file: the configuration file is empty until the second has written |

### Departures

The models show other departures of the code from the documentation and from its comments, which
have no run of their own.

Scopes:

- SessionInvalidate deletes the row, but the scope_end (`tag_application.cpp:210`) of another
  request under way in the same session stores it again, and the old cookies are good
  again; `PROGRESS.md:1285` says that the next request mints a fresh session. This is
  `Open` from "removed" in `SessionFate`.
- With `"throw"` in `StartOutcomes`, `PageHasApplication` fails: `worker.cpp:892` counts
  onApplicationStart as run before it runs, and scope_end stores the empty application; the
  next request runs its page over it.
- Without `Alone`, `SessionShared` and `ApplicationShared` fail: a worker prefers its live copy
  of a session (`tag_application.cpp:331`), and its application in memory, to the newer row,
  and stores it over that row; `scope_store.h:13` says every worker "reads/writes the same store safely".
- With two applications on a server `ApplicationShared` fails even where one worker serves all: a
  request of the second fills `m_application` from its own row (`tag_application.cpp:239`), and the
  first one's next request keeps that. It is what `application_leak` shows, seen from the page.
- With `SessionTimeout = 2000` and `MaxRequestTime = 3`, `ReapedStaysGone` fails: a request
  that outlasts its session stores it again after the reaper has ended it.
- With `"false"` in `StartOutcomes`, `StoredWasBegun` fails: a request that
  onApplicationStart stops has minted a session that is stored, and its onSessionStart never runs.
- `LongExpiredIsNeverExtended` cannot leave out "long": `tag_application.cpp:295` reads the clock and 303
  touches the row by that reading, so a row that expired while the statement waited is extended.
- `hist.lost`: a reaper deletes the rows it claims before it runs their callbacks, and one
  that dies in a callback loses the rest. `hist.skipped`: SessionRotate stores its row without a
  cfc_path; if the worker dies before scope_end, the reaper passes the session over.
- `LoadApplication` purges an expired application itself; the reaper then has nothing to
  claim, and no onApplicationEnd runs. At its shutdown the reaper ends what is due and
  nothing else (`Claim` at step "drain").

Processes:

- A reaper that exits before SIGCHLD is blocked (`appserver.cpp:133`), because its store does not
  open, is slept on as a zombie until another child exits: without `missed`, `ReaperIsReplaced`
  fails. `APP_SESSION_TIMEOUT.md:26` has the supervisor fork a fresh one immediately.
- While its claim fails the reaper goes round without polling, and never sees the signal
  (`reaper.cpp:171`): without `ClaimsSucceed`, `SignalObeyed` and `DueIsClaimed` fail. A COMMIT that fails
  is not rolled back (`scope_store.cpp:371`): if it leaves the transaction open, all later claims fail, the rows
  it has deleted stay for every other process until this one ends, and no worker can write. `DueIsClaimed` excepts these rows (`gone`).
- A worker's row can be due when it is written, if its timeout is shorter than the wait for the statement. If
  workers go on writing such rows the reaper goes on claiming them, and again does not poll:
  `SignalObeyed` fails with a `MaxDelay` as long as the shortest timeout.
- A child forked just before the supervisor dies may ask for its death signal too late, and
  runs on (`armed`). No property is stated about it.

Transactions:

- `FrameAtomic` excepts the frames that shared a connection: on MySQL the inner BEGIN commits
  the outer frame's work, on SQLite it is an error, and the frame that could not begin counts
  as begun (`tag_query.cpp:286`).
- A frame left on the stack with a connection that has been deleted, by a changed configuration or
  by the reopening of a lost connection, is used after: phase "undefined".
- A connection lost inside a transaction is never reopened in that request, and a savepoint
  set before the frame's first statement never reaches the database.

Configuration:

- `PROGRESS.md:643` says an update "becomes effective on the next request in every worker". It
  does not where the file was replaced between a worker's reading it and noting its time
  (`config.cpp:172`), or between its own rename and noting the time (272): `SettingsCurrent`
  excepts these by `hist.taken`. Nor does it where two saves leave one modification time, as they may
  within a tick of the kernel's clock: a worker that read the first never reads the second
  (`hist.overtaken`). With two administrators both `SettingsCurrent` and `SettingsAdvance` fail: they lose each other's changes.
- `lineExecutionTrace` is in force on no worker but the one that set it, and there until the file is
  next read, or a hundred requests are traced (`worker.cpp:553`): `config.cpp:223` saves `false`
  and 126 loads `false`. `SettingsCurrent` and `SettingsAdvance` are about the other settings.
- A `__configSet` that is rejected has applied the settings before the wrong one; they stay in
  that worker and go into the file with its next save.
- A worker that saves does not reload: its connections keep the old datasources until the next
  change (`OnlyOwnChangesLinger`). A file that is not JSON is read again at every request.

Cache:

- A body of `<cfcache>` that was left keeps its capture, and the next end in that worker, even
  of another request, pops it: the fragment is stored under the wrong key. `cf_cache_reset`,
  which would clear them, has no caller. `OwnFragment` says that this is the only way.
- `<cfflush>` (`tag_flush.cpp:40`, 49) and `<cfcontent>` (`tag_content.cpp:37`, 64) inside a body clear
  `out`, and its end takes what there is after the old place (`tag_cache.cpp:944`): the fragment that is
  stored is an end of what the body has written since, if `out` has grown beyond that place, and is served
  for the whole from then on. That nothing else is stored is what `OwnFragment` says of these bodies.
- A put between the two DELETEs of `removeRegion` loses its entry, or leaves it without a region
  (`raced`); a put that was computed before a flush is stored after it; a late UPDATE moves an
  entry's last access back. `remove` answers true when there was no row, so `throwOnError` of a flush
  never lists an id.

Logins:

- A login frame that a body has left makes a later `<cfloginuser>` outside of `<cflogin>`, which
  the comment at `tag_login.cpp:602` has log in directly, do nothing; an outer `</cflogin>`
  may end an inner frame. That this never gives a request another client's login is `OwnLogin`.
- A `<cflogout session="all">` on another worker that comes between the two `storeSecurity` of a login removes
  its row, and the second one, an upsert (`scope_store.cpp:512`), brings it back with its roles, and the cookie
  goes out: the login survives, though `PROGRESS.md:308` has `all` remove every token of the application.
  `LoggedOutStaysOut` excepts these (`late`), and says that no logout is undone in any other way.
- A login whose token is padded base64 is set in quotes (`tag_login.cpp:331`), which the reading of the
  Cookie header keeps (`worker.cpp:402`): no later request is logged in, and
  its row stays until a `<cflogout session="all">`, since no cookie leads to it.
- `PurgeIdle` deletes by token alone: a login renewed in between is ended. If the second store fails, the login
  has no roles (`hollow`); if both do, the cookie names no login. `session="others"` clears the
  cookie, though the comment at `tag_login.cpp:654` has it keep the current login.

### Bounds

- Two workers, two sessions. Every race above is between two actors over one session, or
  over one that is replaced by another; TLC finds each counterexample with these.
- Times. `ReapedStaysGone` needs `SessionTimeout > 2 * MaxRequestTime`, and the runs use 3
  against 1: a request touches its session when it begins and stores it when it ends, each
  time with a reading of the clock that may be as old as the request. At 2 against 1 it is
  violated. `SessionsAccountedFor` needs only a timeout above the longest request, which
  is what its theorem assumes; at 1 against 1 it is violated too. `MaxTime` lets a session expire after a full
  request and stay expired for as long as another may take, be claimed, and another be begun.
- `applications` has an application timeout of one second, shorter than a request, so that
  it expires in every step of one; sessions do not expire there.
- `Sids` and `Updates` are used up, not reused: behaviours stop when they are. Deadlock is
  not checked, since the models do stop: at the bound on the clock, when the ids are used
  up, when the server has ended.
- `reaper_progress` scales the heartbeat of 60 to 3 and has timeouts on both sides of
  it, each longer than `MaxDelay`. `Lateness` is reached: with one second less TLC finds a violation.
- `supervisor` has two workers and an id to spare, two deaths and one failing fork: enough for a
  merged SIGCHLD, for an id to be given out again, and for a stale `reaper_pid`.
- `transactions` has two frames deep, two spellings of one datasource and two connections: a
  shared connection, a replaced one, a frame left for the next of two requests. It has SQLite,
  where the ends of what has not begun fail; `nested_block` has MySQL.
- `configuration` has one administrator and one other worker, two changes of one setting, one spoilt
  file, three modification times and two forms of a template: each window is between two of these,
  and the copies of all settings are read and written together. Behaviours stop when the
  workers' changes are used up, which is no deadlock of the code.
- `cache_store` has fragments on one of two workers, nested twice, with a lost capture, and an output of
  two pieces: enough for a capture whose place is stale, at the beginning and behind it. A put
  lives and idles for one second, and the clock goes one second: that either limit expires an entry is
  told apart in the proofs only. Its `TypeOK` counts `created`.
- `logins` has one token in use at a time and one idle timeout of a second, two clients on two
  workers, three requests: a login, its takeover or its end, and a request that comes late.

### Fairness

Safety is checked without any. The liveness runs assume:

- `Reaper`: the process is scheduled, the clock runs, the supervisor restarts it (weak
  fairness of each step). That a claim succeeds is not assumed: it may fail each time. What follows if
  claims do not fail for ever is the antecedent `ClaimsSucceed` of the two properties.
- `Supervisor`: weak fairness of the supervisor's steps and of a signalled child's exit.
  A worker leaves its accept loop at SIGUSR1 and the reaper leaves poll at SIGTERM
  (`SignalObeyed` in `Reaper`). Nothing is assumed about children that were not signalled.

## Proofs

They hold for every value of the constants under the ASSUMEs of the modules: any number
of workers, sessions, applications, datasources, tokens and entries, any timeouts, any depth of
blocks. Each states the property of a run, which TLC has checked on a small instance.

| Theorem | States | Assumes |
|---|---|---|
| `TypeCorrect` | `ScopeLifecycle`: types, and every id a client has was minted | - |
| `PageInitialised` | `PageHasApplication` | onApplicationStart does not throw |
| `StoredSessionsBegun` | `StoredWasBegun` | onApplicationStart succeeds |
| `NoSessionLost` | `SessionsAccountedFor` | the session timeout is 0, or exceeds the longest request |
| `ReapedIsOver`, `NoneExtended` | `ReapedStaysGone`, `LongExpiredIsNeverExtended` | the timeout is 0, or exceeds twice the longest request |
| `ImplementsSessionFate` | `KeepsSessionFate`: `ScopeLifecycle` implements `SessionFate` | the same |
| `ClientsIsolated`, `SessionIsShared` | `SessionIsolated`, `SessionShared` | - |
| `ApplicationIsShared` | `ApplicationShared` | the server has one application |
| `ClaimedInTime` | `OversleepBounded` | - (the property is about a reaper none of whose statements has failed) |
| `SupervisorTypeCorrect`, `SingleReaper`, `ReaperSignalled`, `NoneSleptOn` | `TypeOK`, `OneReaper`, `SignalsTheReaper`, `NoLostWakeup` | - |
| `TransactionsTypeCorrect`, `FramesAreAtomic`, `OutsideSurvives`, `NothingLeftPending` | `TypeOK`, `FrameAtomic`, `OutsideIsDurable`, `NothingPending` | - |
| `ConfigurationTypeCorrect`, `OnlyOwnLinger` | `TypeOK`, `OnlyOwnChangesLinger` | - |
| `FileNeverTorn`, `SettingsAreCurrent`, `SettingsOnlyAdvance` | `FileWhole`, `SettingsCurrent`, `SettingsAdvance` | one worker at most serves administrators |
| `TemplatesCurrent`, `ComponentsCurrent` | `TemplateCurrent`, `ComponentCurrent` | - |
| `CacheTypeCorrect`, `FreshIsSpared`, `EntriesHaveRegion`, `FragmentsAreOwn` | `TypeOK`, `PurgeSparesFresh`, `RegionOfEntry`, `OwnFragment` | - |
| `LoginsTypeCorrect`, `LoginsAreOwn`, `LoggedOutIsOut`, `LoginsAreWhole` | `TypeOK`, `OwnLogin`, `LoggedOutStaysOut`, `WholeLogin` | - |

None of the assumptions is one of convenience: without it TLC violates the property, on the
constants that "Departures" and "Bounds" name. All of the theorems follow the same way: the
invariant is strengthened until every step keeps it, with one step of the proof per action.

Scopes:

- `PageHasApplication` speaks of the page. `ApplicationInv` of `ScopeLifecycleProofs` adds what
  leads there: a worker about to touch its session has an application or is about to start one, and
  *no row without data is ever in the store* for another worker to load. With an onApplicationStart
  that throws, this last part fails (see "Departures"), hence the assumption.
- `BegunInv`: every row is of a session that has begun; so a request that has found a row, or has
  minted a session and will begin it at "start", works from its page on in one that has begun.
- `SessionsAccountedFor` could fail in one place only, the lazy purge of `loadSession`, which
  deletes a row with no callback. `ExpiryInv` shows it never does: the reading of the clock a
  worker works with is at most a request old (`ReadingsRecent`), and a row it is about to load was
  touched at that reading or later (`LoadableSession`), so it cannot have expired. This is the
  reason for the touch before the load.
- `GoneInv`: the row of a session in use lives as long as the request may (`Covered`). A row is
  stored with a reading that may be a request old, over one that another request has just touched
  and needs for a request more: hence the factor of two. The reaper can then claim no session that
  is in use, and the only statements that make a row come from a request using it. By the same bound on
  a request's readings (`ReadingIsRecent`) no touch takes a row for live that expired a request ago.
- `FateInv` maps each step to `SessionFate`: a claim takes open sessions, since it takes rows; what is
  in the batch was claimed and not called back (`BatchReaped`); a row goes by a claim or a removal
  and in no other way (`NoneMissing`).
- `SessionIsolated` speaks of one slot. `IsolationInv` says that an id is held by one
  client at most (`HeldByOne`), only after it was minted, and that every copy of a session -
  the row, the live copy of any worker, the slot - has only updates of a client that holds its id.
- `SessionShared`: with `w` the only worker that has served requests, the row, the live copy of `w` and the
  slot of its page each have all that was stored under their key and not expired since
  (`SessionHeld`, `SlotHas`). What a copy has from another key, because SessionRotate took it
  along, is expired there (`KeysOwn`). `ApplicationShared` is the same for `m_application`, which is
  not kept by key: with two applications the invariant is false, and so is the property.

Processes:

- `OversleepBounded`: `LatenessInv` orders the clock readings and says that, while the process
  sleeps, the timer is at most `LongestSleep` ahead of the moment it read the table, every row it
  read is due no earlier than the timer, and one written since no earlier than a timeout after a reading `MaxDelay` old (`TimerNear`, `ExpiriesNear`, `AwakeShort`).
- `SupervisorInv`: the only process with the role of a reaper is the one `reaper_pid` names
  (`ReaperKnown`), and if it names one, that has this role, dead or alive (`ReaperThere`).
  `WakeupInv`: before the signals are blocked every zombie is one that was missed.

Transactions:

- `TransactionInv` accounts for what is pending. A live connection is in the pool, under one
  datasource (`Pooling`). A transaction on a connection is always that of a frame that holds it, and a frame
  that holds an open connection alone has its transaction there (`Holding`). What a connection has to commit is what
  ran in that frame, and all of it, but for what a savepoint has undone (`Accounted`). Then whichever frame
  is ended early, late, or by the next request, its COMMIT and its ROLLBACK concern its own
  writes and no others. Frames that have shared a connection are in `hist.mixed` and promised nothing.

Configuration and template cache:

- `TemplateInv` is about the caches alone: a form that a worker does not have was written after it
  read the file, so an old form can be served as new only if the write falls between the reading
  and the time noted.
- `SaveInv`: the temporary file is the administrator's own, distinct from the file, and says what its worker has
  when it is renamed (`OwnTemporary`); it is false for two administrators (`torn_config`). `HeldInv`:
  a worker that took a text with the file's time, and has not been overtaken, has the file's
  settings, also before it has noted the time. `InOrder`: changes
  so far, the administrator's settings, the file's, everybody else's are in this order.

Cache:

- The time an operation has noted is past, so what the second statement of a lookup finds expired by it
  is expired now. `RegionLags`: there are entries, or a put is past its first statement, only where the
  region is, or somebody is removing it, or has removed it too early (`raced`).
- `Aligned`: the capture of a body that was captured whole is as far below the top of `g_fragCaptures` as the
  body is on the page, whatever lies below, and delimits what the body has written (`Delimits`), or an end of
  it once `out` was cleared; `NoneMixed`, that what it yields is its own.

Logins:

- `LoginInv` follows a token. Between the two statements of its login only one worker knows it
  (`Pending`: nobody's cookie, nobody's request, not out unless `late`); then cookies of its own client and application
  name it (`OwnRows`); then it is out, and nothing that is under way can store it. `OwnFrames`: as many frames as
  a request has opened are on top, and hold no name but its client's; what lies below it never reads.

Three operators of `Transactions`, `Holder`, `ToFirst` and `ToLast`, are sets of one member where
one could have written CHOOSE: the provers then need no proof that the choice is unique.

Only model-checked: liveness (`DueIsClaimed`, `SignalObeyed`, `Terminates`,
`ReaperIsReplaced`), since liveness under fairness is beyond the proof system. `ApplicationIsolated`
and `ThrownIsUndone` do not hold.

## What the models leave out

- Scopes: client variables, Application.cfc lookup, onRequestStart and the rest of
  onRequest; only onApplicationStart and onSessionStart decide what is stored. Sessions are on,
  and the application's name does not change within a request.
- CFID and CFTOKEN are one id, never given twice: the token tells apart two sessions whose
  CFIDs a failing `nextCfid` made the same. `nextCfid` is one transaction, and no other
  component's promise depends on its number.
- Store errors: only the reaper's statements, and those of a login, fail. A worker takes a
  failing touch or load of a scope for an absent row, and does not notice a failing store. A SELECT of
  `claimExpired` that fails half-way loses the rows it has not copied.
- The server without prefork (one worker) has no supervisor and no reaper; rows that nobody
  claims stay until they are loaded, and no end callback runs.
- `g_liveSessions` grows with every session a worker has served; nothing bounds it.
- Rates: a reaper that cannot open its store is replaced at once, and again.
- Transactions: PostgreSQL, whose transactions are aborted by an error; locks between several
  processes on one SQLite database; a cached query inside an uncommitted transaction.
- Cache: a body that writes to a buffer of its own (`<cfsavecontent>`, `<cfsilent>`), where a clearing of the
  page's output does not reach; the whole-page store, which keeps whatever the response is, an error page too; metadata;
  region properties.
- Logins: `loginStorage="session"`. The lengths with which `loadSecurity` copies password, roles and
  application token are those of the user name: an error in the data, which is abstract here.
- Everything that is sequential within a request: the parser, the JIT compiler, the interpreter, the values, some four
  hundred functions and most tags, nine tenths of the source. They keep no state
  between requests beyond the caches above, they are specified by another product's behaviour, which the
  tests of the repository compare byte by byte, and a bounded model of them would restate their
  text. So the map covers a small share of the lines of the repository, and most of those in
  which processes or requests meet.

## Plan

Every safety property that holds is proved. What is left:

1. `TypeOK` of `Reaper`, `ScopeSharing` and `TemplateCache` are parts of the inductive invariants
   (`LatenessInv`, `IsolationInv`, `TemplateInv`) and could be theorems of their own.
2. `Reaper` against `ScopeLifecycle`: that the loop's `Claim` is a `ClaimExpired` of the batch, as a refinement
   of one by the other.
3. What holds with two administrators: that the file is torn only between two steps of a save.

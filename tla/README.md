# Revo: formal verification of the server's life cycle

Revo (`src/`) is a command line program that runs one *server* per data
directory: a detached Node.js process that owns the directory, starts an
embedded PostgreSQL and a Revo Core process, and serves a private control
endpoint through which other runs of the CLI ask for its status or stop it.
Nothing but files, a `flock`, sockets, an IPC channel and signals connects these
processes, so what can go wrong is mostly in the order of steps of processes that
cannot see each other. This directory models that part in TLA+, checks it with
TLC and proves its safety with TLAPS, for any number of processes, attempts,
connections, versions, stages and events.

Paths below are relative to the repository; `PROJECT.json` maps every
definition to the lines it stands for.

## The system

```
  revo server start|status|stop                      bin/revo-server (detached)
  ┌──────────────────────────┐                       ┌───────────────────────────┐
  │ ServerCommandService     │                       │ ServerHostEntry           │
  │  ├ ServerStatusService   │                       │  └ ServerOwnerService     │
  │  ├ ServerStopService     │   control socket      │     ├ PublishedControl    │
  │  └ ServerLauncherService │◄─────────────────────►│     │   lease, endpoint,  │
  │     └ ServerLaunchAttempt│                       │     │   locator           │
  │        over ManagedOwned-│   IPC: booted, start, │     └ ServerOwnerResource │
  │        Process           │   ready, commit,      │         ├ EmbeddedPostgres│
  └───────────┬──────────────┘◄─ committed ─────────►│         └ CoreHostProcess │
              │                                      └────────────┬──────────────┘
              ▼                data directory                     ▼
   .revo-server.lock (flock)  .revo-control.json (locator)  .revo-control.<id>.tmp
```

| Component | State | Operations | Talks to |
|---|---|---|---|
| Data directory ownership (`processes/server-ownership.service.ts`) | the lock file, who holds its flock | `acquire`, `inspect`, `release` | servers and probing CLIs, through the kernel |
| Published control (`published-control.service.ts`) | the locator and its temporary file, `HeldControlShutdown`'s `active`, `finalClose`, `finalState` | `open`, `cleanupStartup`, `close`, `finalize`, `closeOwned` | ownership, endpoint, database |
| Control endpoint (`control-endpoint.service.ts`) | `phase`, `closeRequested`, the responder, the running stop | accept a status or a stop, complete a stop, close | control clients, the owner's stop callback |
| Control client, discovery (`control-client.service.ts`) | none between calls | read the locator, one status or stop exchange | endpoint |
| Status, stop, start commands (`server-status`, `server-stop`, `server-launcher`, `cli/server-command`) | what has been read so far | `status`, `start`, `stop` | all of the above, the launch |
| Server owner (`server-owner.service.ts`, `server-owner.resource.ts`) | `lifecyclePhase`, `closeOperation`, `retryableCloseFailure`, `failureOwnership`, the outcome, the abort controller | `open`, `start`, `close`, `stopFromControl`, observing Core | database, Core, published control |
| Launch handshake (`server-launch-attempt.ts`, `server-host-entry.ts`) | the two protocol states, the terminal claim, pending sends | both ends of `booted/start/ready/commit/committed` | each other over IPC, the managed process, the owner |
| Managed process (`managed-process.service.ts`) | stop operation, exit, ownership of pipes and channel | `spawn`, `stop`, `releaseOwnership` | the child process |
| Core host (`core-host/`) | child, protocol state, stages | `open`, `start`, `close` on both sides of the Core channel | Revo Core, the owner |
| Embedded PostgreSQL (`postgres/`) | start attempts, the server process, `postmaster.pid`, data version, backup copies | prepare, recover the lock, back up, start, wait for readiness, close | PostgreSQL, the owner |
| External PostgreSQL | one readiness check | admit, drain | a database of the user |
| Startup progress (`startup-progress/`, `server-startup-observer.ts`) | a journal file, a sequence number, the last line read | append, poll, read once more at the end | launcher and host through a file |
| Server logs (`server-logs/`) | bounded lifecycle records | append, read, follow | owner, `revo server logs` |
| Configuration, layout, admin SPA, doctor, release metadata, text output | none | stateless | - |

### What makes it hard

- **Two servers and many observers on one directory.** `acquire` does not wait,
  and an observer's probe takes the very lock an owner takes.
- **`close` may overtake `start` at any await.** A control stop (even before the
  owner exists), a signal, the loss of the launcher, the startup deadline and
  the exit of Core all call one `close`, which is shared, may fail, and may be
  repeated only when it kept everything.
- **A partial failure keeps something.** Core that does not stop keeps
  everything; a database that does not stop keeps the directory until it has
  settled in the background; a failed clean-up must still release the lease and
  must not be reported as a clean stop.
- **A stop has two ends.** Acceptance and completion are different messages, the
  client may leave in between, and the endpoint has to be open or closed
  afterwards whatever the order of completion and close.
- **The handshake crosses a fence.** Before `start` is on the channel the launcher
  stops what it has spawned; after it it may only let go; after `commit` the host
  no longer depends on it. Interrupts, deadlines, exits, signals and send
  callbacks arrive at every point on both sides.
- **Files outlive processes.** A locator of a dead server, a temporary file, a
  `postmaster.pid` or a half-made backup is met by the next start.

### What makes each part correct

- directory: one owner; the locator is written and removed only by it; a
  `stopped` comes from a directory that was seen without an owner; a completed stop is
  final; nothing dead blocks a start;
- owner: a released directory has no process of its owner left or coming; the
  outcome and every stop answer are true; a closing server is never running
  again; a stuck one can be stopped again; every start, close and stop ends;
- handshake: the verdict is true; a failed start has gone; a committed server
  stands; a host that closes has closed its owner; an orphan ends;
- database files: the backup link names a complete copy, the data before an
  upgrade are in it, no version opens data of a newer one, the credential fits;
- processes of the database and Core: one child at a time, none spawned for a part
  that is closed, none left after a close that succeeded; what becomes ready is the
  own database and a Core whose runtime is open; `start` and `close` always settle;
- control endpoint: a client is told how its own stop has ended, and keeps its
  connection until then; every exchange and every close ends;
- startup progress: the user sees the events in order, and an end that fits the
  outcome; a journal never loses a transition it has told of.

## The modules

| Module | Models | Extended by |
|---|---|---|
| `Ownership` | the abstract promise of a data directory: an owner, and a record only the owner writes and withdraws | - |
| `DataDirectory` | servers and CLI runs on one directory; implements `Ownership` | `MCDataDirectory`, `DataDirectoryProofs` |
| `DataDirectoryProofs` | the inductive invariant and the theorems | - |
| `HostedOwner` | the abstract promise of an owner to its host: `open`, `start`, one outcome, the lease | - |
| `ServerOwner` | one server incarnation from the inside: start against close; implements `HostedOwner` | `ServerOwnerProofs` |
| `ServerOwnerProofs` | the inductive invariant, the theorems, the refinement | - |
| `LaunchHandshake` | one launch: launcher, channel, host; its owner implements `HostedOwner` | `LaunchHandshakeProofs` |
| `LaunchHandshakeProofs` | lemmas about what is under way, the inductive invariant, the theorems, the refinement | - |
| `DatabaseUpgrade` | the database files through a succession of starts by different versions | `MCDatabaseUpgrade`, `PreparationProofs` |
| `PostmasterLock` | what a start makes of the `postmaster.pid` it finds | `MCPostmasterLock`, `PreparationProofs` |
| `PreparationProofs` | the inductive invariants and the theorems of both: of the files on file systems that keep the order of changes, and of the lock | - |
| `OwnedChild` | the abstract promise of a part that owns a child process: `start`, `close`, one child | - |
| `EmbeddedPostgres` | start attempts, readiness SQL, retries and close of the database process; implements `OwnedChild` | `EmbeddedPostgresProofs` |
| `EmbeddedPostgresProofs` | the inductive invariant, the theorems, the refinement | - |
| `CoreHost` | the Core process from both ends of its channel; implements `OwnedChild` | `CoreHostProofs` |
| `CoreHostProofs` | the inductive invariant, the theorems, the refinement | - |
| `ControlSession` | one control endpoint, socket by socket and frame by frame | `ControlSessionProofs` |
| `ControlSessionProofs` | the inductive invariant and the theorems | - |
| `StartupJournal` | the progress of a start from the host to the terminal | `StartupJournalProofs` |
| `StartupJournalProofs` | lemmas about sequences of events, the inductive invariant, the theorems | - |

The first three system modules overlap on purpose. `DataDirectory` has many
processes and treats the inside of a close as three outcomes
(`ResourcesStopped`, `CoreStuck`, `PostgresStuck`); `ServerOwner` opens up one
incarnation and justifies them; `LaunchHandshake` keeps of the owner only what
the host sees (`open` and `start` settle, an outcome, the lease), and `HostedOwner`
says what that is: `ServerOwner` implements it from the inside, and so does the owner
of `LaunchHandshake`, whose steps are those of `HostedOwner` one for one. The proof of
the second is what found that the lease is back an instant before the outcome is
known, and that it may be back before `open` returns, when a stop came first.
`DatabaseUpgrade` takes from `DataDirectory` that the starts on one directory follow
one another, and looks at what they leave in it; its step `Recover`, after which no
PostgreSQL uses the cluster, is what `PostmasterLock` establishes.

The others open up one part each and show what its users take for granted.
`EmbeddedPostgres` and `CoreHost` implement `OwnedChild`, the interface at which
`ServerOwner` uses its two children: a child appears only while its `start` is
pending and before `close`, and a `close` that succeeds leaves none.
`EmbeddedPostgres` starts where `DatabaseUpgrade` and `PostmasterLock` end.
`ControlSession` has the session that `DataDirectory` and `ServerOwner` use with
one step for an exchange; its `StopEnds` is how `ServerOwner` answers a stop.

### DataDirectory

Constants `Server` (incarnations, i.e. instance ids) and `Client` (runs of the
CLI), any sets; `NoOne` is neither (assumption `DistinctParties`).

- *Disk*: `lockFile`, `lock` (holder of the flock), `locator`, `temporary`. A
  crash drops the flock and leaves the files, as the kernel does.
- *A server*: `pc` follows `acquire`, `open`, the owner's close, `closeOwned` and
  `cleanupStartup` await by await: `idle`, `spawned`, then `owning`, `listening`,
  `writing`, `published`, `held`, then `closing`, `retained`, `finalizing`,
  `retracting`, `unlinking`, `leaving`, `left`, or `aborting`, `erasing`, `quitting`,
  `quit` when `open` fails, and a settled state. `settling` is the finalization in the
  background, `failures` the list `closeOwned` or `cleanupStartup` collects, `phase` the
  lifecycle phase a status reports. Reading, comparing and unlinking the locator are
  separate steps, as in the code, and so are the two halves of `lease.release`: the
  flock is unlocked (`Unlock`), then its descriptor is closed (`CloseLease`), and only
  after that the close settles. Each half may fail. When both do, the flock stays until
  the process ends, and the failure is reported with the others.
- *Its endpoint*: `session` and `closeRequested` are fields of
  `ControlEndpointSession`, `stopRun` is the accepted stop and the result of its
  callback, `responder` the client that waits for the completion.
- *A CLI run*: `command`, `step` (one per await of `ServerStatusService.read`,
  `blockingServer` and `ServerStopService.stop`), `seen` (the incarnation in the
  record it read) and `answer`. `inspect` is three steps: `Inspect` takes
  the flock, `InspectFree` gives it back, `InspectConcludes` answers once the
  descriptor is closed. By then a server may own the directory, so what
  `StoppedWasFree` asks of a `stopped`, or of a start, is that the inspection has
  found the directory without an owner; a start that comes too late meets the flock.

Data left out: record contents other than the instance, tokens (which stand
and fall with the instance id), paths, permissions and the bytes of frames. A
failure of any of them is a failure branch of the step. A probe that cannot unlock
drops the flock with its descriptor; that this fails as well, within a CLI run that
is about to end, is left out.

Three behaviours a reader may not expect, all of them in the code:
a status deadline while the directory has no lock file makes `start` answer
`unknown` without launching (`blockingServer` inspects only to find `free` or
`busy`; a missing lock file is neither); a stuck Core that dies later leaves the
directory owned until the next stop or signal; a status request while a stop
is under way is dropped, and the client reports `unknown`.

### ServerOwner

No constants: one incarnation, whose database is its own PostgreSQL process or one of
the user's, chosen in `Init` and never changed (`database`). `start` is the program
counter of `ServerOwnerService.open` and `performStart`, `closing` that of
`performClose`, `pgClose` that of the database's close, `final` that of
`HeldControlShutdown.finalize` with `closeOwned`; `core` and `server` are the
two child processes, which die when they please; `client` is the `pg` client of an
external database and `lostClient` what `ExternalPostgresResource.failure` remembers;
`stop` and `session` are the control endpoint. Every caller of `close` is an action: `HostClose`,
`DeadlinePasses`, `CoreExitObserved`, `RunStop`, `OwnerAssigned` for the stop that
came first, and `Fail` within `performStart`.

Worth knowing: a stop during the start of the database is normally answered
`retained`, because `EmbeddedPostgresResource.close` still finds the start active,
and the directory comes back in the background; nobody in the owner watches a
PostgreSQL that is ready, so its crash is noticed by Core only. The connection to an
external database stays open while the server runs, and once it has broken the close
of the database fails whatever else happens: the first stop is answered `retained`,
and the directory comes back in the background then too. While it does, the flock goes
first (`Unlock`) and `finalState` follows when the descriptor is closed (`CloseOwned`):
a stop repeated in between is answered `retained` although the directory is free
already. `ClaimsAreTrue` leaves this answer out, by name (`LettingGo`), and nothing
else; nothing of the server runs by then. Of the external database,
connecting and its query are one await, the reports between them are left out, the
URL is taken as parsed, and `client.end()` may hang but is assumed not to reject.

### LaunchHandshake

No constants: one launcher, one host, two message queues. `attempt` is
`AttemptOperation.state`, `verdict` what it claimed, `reported` the settlement of
the promise, `killer` the `stopOperation` of the managed process with its
escalation from SIGTERM over SIGKILL to a timeout, `linked` the launcher's end
of the channel. `host` is `ServerHostEntry.state`, `readySend` the send callback
of `ready` that may come after the `commit` it provoked. Only detached mode is
modelled, the one mode the launcher asks for; `cancel`, malformed and foreign
messages are never sent by either end and are left out.

`owner` is where `ServerOwnerService.open` and the resource are: `opening`, `early` when
a stop that came first closes the server within `open`, `busy` or `failed` when `open`
has no server, then `starting`, `ready`, `closing` and `over`. Its steps are those of
`HostedOwner`, with what the host makes of them.

Worth knowing: a host that got the outcome `retained` ignores further signals
and only a control stop tries again; a commit may be acknowledged by a host
whose owner is already closing because Core has just died; a host that is killed
500 ms after SIGTERM takes its flock with it, but not necessarily PostgreSQL.

### DatabaseUpgrade

Constants `LastVersion`, the random names `Copy` and `Secret`, and the bound
`MaxEdits`. `disk` is what processes see of `postgres/`, `postgres-password`,
`data-version.json`, `database-backup` and `.database-backups/`; `synced` is what a
power loss leaves. `pc` follows `performStart` of the embedded database: `admit`,
`prepareCluster`, `releaseAbandonedLock`, `adopt` with `replace`, the start of
PostgreSQL and of Core. A rename and the sync of its directory are two steps. Of a
cluster the model keeps the newest version whose Core has opened it, the users'
changes and the password it was made with.

`Fail` (an error, the deadline or a cancellation), `HostDies` and `PowerLoss` may
come at every step; PostgreSQL and an old Core may survive the host, and the users
go on changing the data meanwhile. `Restore` is the procedure of the README of
Revo. The next start may be of any version.

`Journaled` chooses the file system. With it, changes become durable in their order
(ext4, APFS and the like with one journal): a sync, or the system on its own
(`Flush`), makes everything before it durable. Without it, entries are durable only
with the directory they are in, which is all that POSIX promises. The properties are
claimed for the first; the second is where finding 3 comes from.

Left out: a record or credential that cannot be read and a cluster that is there but
not whole (Revo never makes them; the start is refused and changes nothing), staged
files and directories (nobody else looks at them), free space (a failure of the
step), and the backends that outlive a killed postmaster.

### PostmasterLock

Constant `Pid`, any set; `NoPid` is not in it. `process` says who has a process id: a
postmaster on its way from `spawned` to its lock file and past it, another process of
the user with the cluster as its working directory or not, or a process of another
user. `lock`, `named`, `old` and `moved` are `postmaster.pid`: missing, incomplete,
complete, of another data directory or not a private file; its process id; written
before this boot; the clock set since. `step` follows `recover`: `inspect`,
`observe`, `workingLocation`, `pg_ctl stop`, `inspect` again, `unlink`. Anything may end,
start, be uninspectable, or reuse an id in between; hosts die, the machine restarts.

A time in the lock file is compared with the boot time, and that is the clock less the
uptime: setting the clock makes a running server look unlike its file (`moved`) and a
file that is not complete seem older or younger than the boot (`old`).

Three assumptions are named in the module, all about moments: `Prompt`, that a
postmaster spawned by a host that was then killed has reached its lock file before
the next start begins its recovery; in `ProcessStarts`, that the id under examination
is not given to a new process during the examination; and in `ClockMoves`, that the
clock is not set by more than the uptime between a postmaster's making its lock file
and its writing it. Without the first a start may miss the orphan; without the second
a signal could go astray, so that `OnlyTheServerIsSignalled` says only that the
identification is right at its moment; without the third the file of a starting server
could be taken for an abandoned one. The code excludes none of them; it only makes
them improbable.

### OwnedChild and EmbeddedPostgres

`OwnedChild` has three variables: the promises of `start` and `close`, and the
child (`coming` in the hands of `spawn`, `alive`, `dead` and not yet observed).

Constant `Attempts` (3 in the code). `start` follows `performStart` and
`resolveFailedAttempt`: `port`, `spawning`, `probing`, then `completing`, or
`quieting`, `waiting`, `stopping`, `reading` until the attempt is known to be a bind
conflict and is tried again. `process`, `exit`, `bound` and `port` are the process
and the listener of the present attempt; between the reservation of the port and the
bind anybody may take it (`ForeignTakes`). `sql`, `probe`, `round`, `peer` and
`verdict` are `EmbeddedPostgresReadiness`: the probe that is active, the attempt it
belongs to, the database it is at and who answered. `close`, `closeStop`,
`readinessClose` and `settled` are the calls of the owner.

A probe may outlive its attempt: what has the port need not answer, and only its own
deadline ends it. The next attempt is then refused a probe and waits for the exit of
its own, healthy process until the start deadline. The start still settles and never
takes the old answer for its own; `CallsSettle` and `ReadyIsOurs` say so. That the
retry after such a listener is lost (`test/scenarios/postgres-lifecycle.test.ts:50` has one that
is not silent) is an observation without a run.

Assumed: a spawn that is aborted between the fork and the `spawn` event ends its
process, as Node.js does with a signal given to `spawn`. A failing close of the log
file just after the spawn, which would leave the child unknown, is not modelled.

### CoreHost

Constants `StageLimit` (8 in the code) and `RuntimeStages`. The host is
`CoreHostProcessResource`: `phase`, the latched `failure`, `messages` and the chain
of stage callbacks (`received`, `persisted`, `stageFailed`), and up to three runs of
`terminate` at once (`term`): of `start`, of `close`, and the one `retainLateCleanup`
keeps for a child that comes too late. The channel is two queues with one
connection. The child is `CoreChildEntry` (`entry`, `pending`) and `CoreChildRunner`
(`operation`, `finish`, `runtime`), which meet shutdown, disconnection and the end of
the runtime's start in any order. The host may be killed and the child may crash at
every step. What is under way to a host that is dead, or to a child that is gone, is
dropped: nobody reads it.

`runtime.close()` may reject wherever it is called: in the two places of
`CoreRuntimeService.start`, in the runner's `start` and in its `finish`. The runtime is
`broken` then, what it has open is not known, and the entry finishes all the same, with
`exitCode` 1 or 2. That code is all `bin/revo-core-host.ts` sets: Node.js ends when no
handle is left, so a Core with a broken runtime need not end. A host that lives kills it
(`core-host-process.service.ts:371`); after the death of the host nobody does, and
`NoCoreIsLeft` leaves out this one case.

`StageLimit` covers the limit of all lifecycle messages too, for besides stages only
three come. A second shutdown is not queued behind the first, which is the one the
child acts on. `start` after a close of an idle resource rejects, so no `start`
message follows a shutdown.

### ControlSession

Constant `Client`, one connection and exchange each, and `NoClient`. Session, sockets
and handlers are those of `ControlEndpointSession` and `serve`; `pipe` keeps what was
written to a socket until the client reads it, even after the socket is destroyed.
The callback of a stop may end in any of its three ways, and `close` may be called at
any time, also by that callback. A failed write does not keep the stop from being run.
`acceptStop` can refuse a second stop, but never does: every other connection is
cut when the first is accepted. `NoRequestMeetsAStop` proves it, so the guard of
`AcceptStop` leaves no case of the code out. Frames that are too large or malformed, which the
client does not send, are a read that fails.

### StartupJournal

Constant `MaxCalls`, the number of calls the parts of the host make. `queued`,
`history`, `sequence`, `persist`, `disabled` are `OwnedStartupProgress` and its
operation; `file` is the journal, replaced as a whole; `follow`, `finalRead`, `batch`,
`cursor` are the polling loop of the observer, `inFlight` the sink that may hang,
`observe` what `observe()` awaits, `shown` what the sink was called with, `warned`
the warnings given. `Kept` is the filter of an array, written as a recursive function
so that it can be reasoned about. A write may fail (the next one makes up for it), an event may be
too large (it becomes a failure), the journal may be full (`LimitReached`), a read may
fail or a deadline pass at any time.

A read that finds no journal is not an error of the observer: a file that is missing,
that cannot be opened, is damaged or belongs to another start is no news, and only a
read that rejects gives a warning (`private-files.ts:57`,
`startup-progress-journal.service.ts:106`, `server-startup-observer.ts:216`). `unread`
says that the latest read was one of these. The next read makes up for it, as long as
there is one: a failure is lost without a warning when the last read, after the attempt
has settled, finds no journal, or when it comes after the deadline of the launch, at
which the code gives up. `EndIsTrue` leaves out these two cases (`unread`, `~late`). Times, urls and wording are left out, and that the terminal write fits is taken
from the reserve the store keeps for it.

## What is checked

| Run | Instance | Shows |
|---|---|---|
| `directory` | 3 servers, 2 CLI runs; 55 thousand states | ownership, locator, answers, refinement of `Ownership`; a dead locator blocks no start |
| `directory_owned` | 2 servers, 3 CLI runs | finding 1 |
| `owner` | complete; 40 thousand states | what is released and reported while start and close interleave; every start, close and stop ends; the directory comes back |
| `launch` | complete; 11 thousand states | verdicts, the committed host; every launch is reported, an orphan ends |
| `launch_abandon` | complete | finding 2 |
| `upgrade_journal` | 3 versions, 3 copies, 2 credentials, 1 edit; 830 thousand states | the backup link, the insured upgrade, the record, the credential |
| `upgrade_power` | 2 versions, 2 copies, no journal | finding 3 |
| `lock` | 3 process ids; 19 thousand states | lock recovery: no lock taken from a server, no signal to a stranger |
| `postgres` | 3 attempts, as in the code; 190 thousand states | the own database becomes ready, one child at a time, `settled`, every call settles |
| `core` | 1 stage taken, 2 reported; 553 thousand states | a running Core is what the host takes it for; no Core is left but a broken one of a dead host; every call settles |
| `session` | 2 connections; 64 thousand states | true answers, the kept connection, every exchange and close ends |
| `journal` | 3 calls; 2.4 million states | order, the end that fits, the journal that only grows, `observe` settles |

Each run checks safety and, where the module states fairness, liveness of the same
instance. The violation runs look for a single state or step and need no fairness.

**Bounds.** A directory has one flock and one locator, so the interesting cases
need an owner and a rival, or a successor that meets what the owner has left. Only a
CLI run launches a server, so the two runs of `directory` bring up two incarnations at
most (the third is a spare, so that a start always finds one), or one of them launches
and the other meets it as a status, a stop or a probe that holds the flock. Longer
successions are left to the proofs, which are for any number of both. Three of each,
with `Interchangeable` as symmetry and without the liveness property, are 488 thousand
states and TLC finds no error in them either; with liveness, where that symmetry may not
be used, they are too many for a run of its own. The violation of `directory_owned` needs
the third CLI run. Each
incarnation and each CLI run lives once; a new run of either is another element of
the set, which is how the program works (a new process with a new random id).
There must not be fewer incarnations than CLI runs, or a start would wait for an
incarnation that the instance, not the program, lacks. That module has no other
bound: no counters. `ServerOwner` and `LaunchHandshake` are finite as they stand,
and TLC explores them completely: message queues stay short because each side
waits for the other, and `interrupted`, `hostClosed` and `expired` happen once
because their listeners are one-shot in the code. In `DatabaseUpgrade` three
versions give an upgrade of an upgrade, a way back and a way forward; one copy is
named by the link, one is staged and one is what an interrupted attempt left; two
credentials tell a new one from the old one, and one edit a copy from what the
data became. Three process ids are an orphan, a new server and a stranger. These
two never stop, so deadlock is checked in them. In `EmbeddedPostgres` the bound is
the code's. A `CoreHost` that takes one stage while the runtime reports up to two
has every case: none, all taken, the one over the limit. Two connections are a
stop and its rival; a third would be cut like the second. Three calls are a
transition, one that takes its place or follows it, and a final event or a
failure, with room for the one that is lost in between. In the other runs the
deadlock check is off (`CHECK_DEADLOCK FALSE`) because these systems legitimately
stop: the CLI runs are done and the processes have ended. That they do not stop
too early is what the liveness properties say.

**Fairness.** Weak fairness only, on steps that the code itself bounds: local
computation and file operations, CLI steps under their deadlines
(`DEFAULT_CONTROL_LIMITS`, `SERVER_STOP_CONFIRMATION_MS`), the owner's awaits,
which all hang on the abort signal or on a timer (`CORE_CLOSE_MILLISECONDS`,
`POSTGRES_SHUTDOWN_TIMING`, the startup deadline), each SQL step and each wait of
an exchange, which have deadlines of their own, and delivery on a channel whose
two ends live. `CoreHost` asks for less: no message has to arrive, `StartFails`
stands for the deadline. `StartupJournal` asks only for the three timers of the
observer; the sink, the reads and the host may hang for ever. Alternatives of one
await (a close that succeeds or fails) share one fairness condition, so that
success is never assumed. Nothing is assumed of users, signals, crashes, nor of
child processes: that PostgreSQL or Core exits is never owed, and properties that
need it say so (`DirectoryComesBack`), nor that an external server closes a
connection. In `DataDirectory` the one step that waits
for a child process, `PostgresSettles`, is counted as progress; `ServerOwner` says
precisely when it is. `CoreHost` owes the exit of Core only after SIGTERM and
SIGKILL or once its entry has finished with a runtime that is not broken, and `EmbeddedPostgres` never owes that of
PostgreSQL.

**Mutants.** A definition whose name ends in `M` (`AcquireM`, `CloseFailsKeepM`) is
a faulty variant of the definition that follows it: a forgotten guard, a lost
assignment, a swapped order. No step uses it. Put in the place of the original
it must make the property listed with it in `PROJECT.json` fail; this shows
that the property depends on the code and not on the shape of the model.

### Findings

1. `revo server start` can answer `owned` while no server is alive
   (`OwnedMeansServer`, run `directory_owned`). `server-launcher.service.ts:30`
   describes the answer as an unreachable server that still holds the lock;
   but every probing CLI holds it for a moment as well. After a crash, a start
   that meets the probe of a concurrent `status` or `start` gives up. Nothing
   breaks, and the next start works.
2. An interrupt after the fence does stop the host (`AbandonedIsLeftAlone`, run
   `launch_abandon`). `server-launch-attempt.test.ts:141` treats the delivery of
   `start` as the fence after which the launcher only lets go. The launcher gives
   the same abort signal to `ManagedProcessService`, whose listener runs first and
   stops the process; `releaseOwnership` then rejects, and the rejection is
   swallowed. The host gets SIGTERM, and SIGKILL 500 ms later.
3. The directory that holds a new copy is never synced (`LinkNamesCompleteCopy`, run
   `upgrade_power`). `publish` syncs the data directory with the new link, `syncTree`
   the contents of the copy, and nobody the entry of the copy in
   `.database-backups`. On a file system that does not order the two, a power loss
   after the publication leaves the link naming nothing, perhaps with the copy
   before already removed. The common journaled file systems order them.

Met on the way, not shown by a run:

- a Core whose runtime refuses to close stays when its host is dead: nothing calls
  `process.exit` (`core-child-runner.ts:109`, `bin/revo-core-host.ts:19`). Without the
  last words of `NoCoreIsLeft` TLC shows it;
- a stop repeated while the lease is being released is answered `retained` of a
  directory that is free (`published-control.service.ts:329`); without `LettingGo`
  `ClaimsAreTrue` fails so;
- a journal that cannot be read at the end of a failed launch takes the reason of the
  failure with it, and no warning is shown (`server-startup-observer.ts:216`);
- after a bind conflict with a listener that does not answer, the next attempt can be
  refused its probe and the start then fails at its deadline
  (`embedded-postgres-readiness.ts:40` and `:141`, `embedded-postgres-resource.service.ts:361`);
- `server logs --follow` may end with an error while the server replaces its log
  (`server-logs/reader.service.ts:103`): opening, `fstat` and `lstat` are three steps,
  and a descriptor whose file was just replaced has no link left.
  `test/scenarios/server-logs.test.ts:49` says that it follows atomic replacements;
- on a file system that does not order changes, a start that is killed between the
  rename of `data-version.json` and the sync of its directory
  (`embedded-data-version.ts:137` and `:138`) leaves a record that is visible but not
  durable. The next start takes it for current and syncs nothing (`:57`, `:79`); a power
  loss after its Core has changed the data can bring the older record back, and then an
  older Revo is admitted. `RecordCoversData` fails in this way with `Journaled = FALSE`;
- a crash that leaves `.server-lifecycle.tmp` turns the lifecycle log off until
  somebody removes the file (`server-logs/store.service.ts:114`;
  `test/scenarios/server-lifecycle.test.ts:115` expects the file to be left alone).

## What is proved

Every module of the table that ends in `Proofs` proves `Spec => []IndInv` for an
inductive invariant `IndInv` (`PreparationProofs` one for each of its two parts) and takes
its theorems from it. Every safety property of a passing run is a theorem. None of the safety
properties is inductive alone; the invariants add what makes them so.

### DataDirectoryProofs

For any sets `Server` and `Client`, from `DistinctParties` alone:

| Theorem | Says |
|---|---|
| `Invariant` | `Spec => []IndInv` |
| `TypeCorrect` | `[]TypeOK` |
| `MutualExclusion` | `[]OneOwner` |
| `RunningServerCanBeFound` | `[]RunningIsPublished` |
| `NothingIsLeft` | `[]CleanEndLeavesNothing` |
| `StuckServerCanBeStopped` | `[]StuckServerTakesStops` |
| `CompletedStopsAreFinal` | `[]CompletedStopIsFinal` |
| `LocatorChangesByOwner` | `LocatorOnlyByOwner` |
| `StoppedReportsAreTrue` | `StoppedWasFree` |
| `DirectoryImplementsOwnership` | `Spec => Directory!OwnershipSpec` |

- `LockInv` adds to mutual exclusion that the flock is with a probing CLI
  exactly while it probes, that a server which has unlocked it does not hold it, unless
  that failed, and that one which is through can hold it only after a failed release;
- `LocatorInv` ties the locator to the stage: it names a server from the rename
  to the unlink and not after, so that a successor, who needs the flock first,
  never meets a predecessor about to unlink;
- `SessionInv` relates the endpoint to the stage: `stopping` exactly while a stop
  is under way, `closeRequested` from the start of `closeOwned` on, and which
  results a callback can have at which stage. It makes `StuckServerTakesStops` hold;
- `TemporaryInv` says when a temporary file may exist;
- `ResponderInv` says that whoever is to receive a completion is waiting for it
  from that very server; `CompletedStopIsFinal` is stable because of it: an
  incarnation never comes back.

The proof has a lemma per conjunct; each is split by the actions of `Next`, with a
step per action that can disturb it. The action properties follow from `IndInv`
by the same case split, and the refinement maps each step to `Take`, `Publish`,
`Withdraw`, `Leave` or a stutter. The other proofs are laid out alike.

### ServerOwnerProofs

There are no constants, so TLC has seen every state; the proof says why none is bad.
`[]ReleasedMeansGone` (`ReleasedGone`), `[]StatusIsTrue` (`StatusTrue`) and
`ClaimsAreTrue` (`ClaimsTrue`) follow from three facts. Whatever closes aborts first,
so nothing new is begun (`GoneInv`); Core is gone before the database is closed, and
the start of the database has ended before the rest is given up, which is what makes
a process that is still being spawned impossible. The lease goes only in `closeOwned`
(`LeaseInv`). From `closeOwned` on the endpoint takes no stop, and before it every
failure has kept the directory (`StatusInv`). The one answer that may lag behind, to a
stop repeated while the release is under way, is in the statement of `ClaimsAreTrue`;
that nothing runs at that moment is part of what is proved.

That every step is a step or a stutter of `HostedOwner` (`OwnerImplementsHostedOwner`)
needs a fourth, `OutcomeInv`: an abort always comes with a close, and as long as there is
no outcome only the first close can give the lease back. So a server that is still
starting owns the directory, the outcome is true of the lease, and after it only a
retained lease goes.

### LaunchHandshakeProofs

There are no constants, but two queues: the proof does not use how long they get, TLC
explores what they can hold.

| Theorem | Says |
|---|---|
| `Invariant`, `TypeCorrect` | `Spec => []IndInv`, `[]TypeOK` |
| `VerdictTrue` | `[]VerdictIsTrue` |
| `CommittedServerStands` | `CommittedStands` |
| `CommittedOwns` | a committed server has no outcome yet, and owns the directory until its owner closes it |
| `FenceDecides` | giving up before the fence stops the host or has seen it die; after it, unless by an interrupt, it lets go and stops nothing |
| `LaunchImplementsHostedOwner` | `Spec => ImplementsHostedOwner` |

A verdict speaks of the other process at a moment when the launcher can only know what
that process has sent, so the proof follows the messages. `WordInv` says that what is under
way to the launcher is so and stays so: a `busy` of an owner that is busy for good, a
`completed` of an outcome, a `committed` of a host that has committed. `ChannelInv` does
the same for the other direction: there is at most one message under way to the host,
`start` only while it has no owner, `commit` only when the launcher has seen `ready`.
`OwnerInv` ties the state of the host to that of its owner, `AttemptInv` says that
nothing has been claimed or stopped while the attempt goes on, and `VerdictInv` adds to the
property that a started server is reported at once, without which a later stop could
change what was said. Five lemmas (`WithinAppend` to `ReceiveFacts`) say what sending and
receiving do to what is under way, for queues of any length; each step of the host is then
a set of words it may add.

`FenceDecides` is what is left of `AbandonedIsLeftAlone`, which finding 2 shows violated: the
interrupt is the only exception.

### PreparationProofs

The module extends both parts of a start that come before PostgreSQL, which share no
variable and keep their definitions apart by name.

*The database files.* For any number of versions and edits and any sets of copies and credentials, from
`ConstantsAssumption`, and for a file system that keeps the order of changes: each
theorem assumes `Journaled`. It has to: with `Journaled = FALSE` TLC finds each of the
four invariants violated. Proved are `[]LinkNamesCompleteCopy` (`LinkComplete`),
`[]UpgradeIsInsured` (`UpgradeInsured`), `[]RecordCoversData` (`RecordCovers`),
`[]CredentialFits` (`CredentialAlwaysFits`) and `[]TypeOK`.

A power loss replaces what processes see by what was durable, so everything that is
true of the files has to be true of both: `FilesInv` is a predicate of files, and
`IndInv` has it of `disk` and of `synced`. Its third clause carries the argument: data
that the recorded version has not opened yet are in the copy the link names. So the
step in which Core first changes them (`OpenCore`) can take the present contents as
`origin`, insured on `disk` and on `synced` (`OriginInv`). `StartInv` says what each
step of a start has established, `CoreInv` that no start gets past a Core that runs.

*The lock file.* For any set `Pid` and from `NoPidIsNone` alone: `[]ServerHoldsLock`
(`ServerIsAlone`), `[]ReleasedMeansStopped` (`ReleaseIsSafe`), `OnlyTheServerIsSignalled`
(`SignalsAreAimed`) and `[]RecoveryTypeOK`, under the three assumptions named in the
module. `RecoveryInv` adds that a file being written
is of this boot and of one postmaster (`LockFileInv`), that nothing is spawned while a
recovery is under way (`PromptInv`), and that what the recovery has concluded from a
process that may end at any time stays true until it acts on it (`JudgedInv`).

### EmbeddedPostgresProofs

For any positive number of attempts: `[]ReadyIsOurs` (`ReadyDatabaseIsOurs`),
`[]SettledMeansGone` (`SettledIsFinal`), `[]TypeOK` and that every step is a step or a
stutter of `OwnedChild` (`PostgresImplementsOwnedChild`). `ReadyIsOurs` holds because a
probe of the present attempt can have begun only after the process of that attempt was
there, and the port is `own` only once that process has bound it. `AttemptInv` and
`PeerInv` say so for every state of the probe, an outdated one included; `SpawnInv` ties
the process to the stage of the start, and `CloseInv` that a close aborts the start,
which is why `settled` is final.

### CoreHostProofs

For any `StageLimit` and `RuntimeStages`: `[]ListeningIsTrue` (`ListeningTrue`),
`[]FinishedMeansClosed` (`FinishedClosed`), `[]TypeOK` and that every step is a step or
a stutter of `OwnedChild` (`CoreImplementsOwnedChild`). That a listening Core has all
its stages in the journal is a count over the channel: while the host is starting, what
it has received and what is under way make up what the child has reported, and
`listening` is behind all of it (`StreamInv`). That its runtime is still open needs the
other direction: a shutdown is sent only by a host that is stopping, and the child
begins to finish only because of one, of a lost channel, or of its own failed start
(`OrderInv`, `RunnerInv`). `RunnerInv` also follows a refused close to the exit code: it
makes the start a failed one or `finish` an unclean one, and either makes the code 1.
`PhaseInv` and `ProcessInv` are what the refinement needs:
`close` and `start` are never both about to bring a child up.

### ControlSessionProofs

For any set `Client`: `[]AnswersAreTrue` (`AnswersTrue`), `[]ResponderIsKept`
(`ResponderKept`), `[]TypeOK`, and that no request meets a stop
(`NoRequestMeetsAStop`). `RequestInv` is the core: a request can still be read from an
open socket only while the session would accept one, because accepting a stop cuts
all other sockets in the same step. Hence one stop at a time (`StopInv`), and hence
the completion in the pipe of a waiting client is that of its own stop (`PipeInv`,
which bounds what a pipe may hold by the outcome of the client it belongs to).

### StartupJournalProofs

For any number of calls, from `MaxCallsAssumption` alone: `[]ShownInOrder`
(`ShowsInOrder`), `[]EndIsTrue` (`EndTrue`), `JournalGrows` (`JournalOnlyGrows`) and
`[]TypeOK`, which bounds the numbers of events by twice the calls.

The proof needs what filtering a sequence does, for sequences of any length. The
induction is over the index: `LeastElement` takes a least counterexample, from the
well-foundedness of `<` on the naturals, and `KeptFilters` and `KeptFacts` derive that
`Kept` has exactly the chosen events in their order. `AppendFacts`, `HeadFacts` and
`LastFacts` are the other lemmas about sequences in order.

`WriterInv` and `FileInv` put host, file and what was persisted in an order of numbers
(`FileEnd` is the last number a reader can know of), so that `FileChange` can say that
every replacement ends in the newest event, keeps the transitions and comes before the
end. `ReaderInv` says that what has been read lies between `cursor` and `FileEnd`, and
that a final event, once read, is the end of the file: nothing is left to replay after
it. `ShownInv` follows `cursor`, and `DrainInv` says why the last turn of the loop finds
a failure that was in the file when the attempt settled, provided that this turn has
found the file.

### Checked by TLC only

Every liveness property: these need fairness and `ENABLED`. So what a launch reports is
true by proof, and that it reports at all is checked on the whole of a finite model;
likewise for the answers of `ServerOwner`, `CoreHost`, `EmbeddedPostgres` and
`ControlSession` and for the end of `StartupJournal`, in the instances of the runs.

## Not modelled, and the plan

Left out for good: text output, parsing of frames and records, environment
allow lists and redaction (string work), permission checks (I/O that only
succeeds or fails), `doctor`, `tui`, admin SPA and release metadata (stateless),
the parsing in process identity (`PostmasterLock` takes its results).

Left out although they have state:

- server logs: bounded records that replace one file, read by polling as in
  `StartupJournal`; independent of everything else, and what is hard about them is
  described above;
- configuration: the precedence of flags, environment and file, without any order of
  steps;
- the backends a killed postmaster leaves for a moment: PostgreSQL is one process here;
- the limits of memory, files and disk space: a failure of the step that meets them.

Planned: `LifecycleLog`, with the writer, the atomic replacement and the follower of the
lifecycle log.

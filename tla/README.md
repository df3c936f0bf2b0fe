# TLA+ models of work-behavior-analytics-ai

TLA+ modules, TLC configurations and TLAPS proofs for the parts of the
application where several processes, threads or tasks share state: the command
and control plane, the scan scheduler, the producers' scans, the signal pipeline,
the identity of persons in the graph, login sessions, the service token, the
runtime settings and the graph themes. Line numbers refer to the repository's files; paths are relative to its `src/` unless they start
with `docs/` or name a file of the root.

## 1. The system

Producers (GitHub, Jira, Confluence) scan their provider and publish
*ActivitySignals* to RabbitMQ. A consumer upserts each signal into Neo4j, indexes
it in Elasticsearch and hands it to a writer that keeps the activity timeline in
Postgres. A FastAPI application serves a UI, and starts scans by *commands*:
a row in Postgres and a message on RabbitMQ, consumed by the producer's daemon,
which runs the scan as a child process and reports its status through the API.

| Component | State | Operations | Talks to | What is hard |
|---|---|---|---|---|
| Commands API (`app/api/commands`, `common/command_n_control`) | `command_status` rows | create and publish, PATCH status, list, get | Postgres, RabbitMQ, daemons | publish before commit; PATCH reads and writes without a lock |
| Producer daemon (`connectors/producers/daemon_common.py`) | `_children`, `_exited`, `_test_children`, unacknowledged message | spawn scan / test, cancel, idle polls, shutdown, startup reconciliation | queue, API, children, SIGCHLD handler | a signal handler between any two steps; redelivery after a crash; silent deaths |
| Scan and test children (same file) | process state | report running, work, report result | API, stdout | killed anywhere |
| Scan scheduler (`app/scheduler.py`) | one lease row, last scan per connector | tick: claim, due check, fire | Postgres, commands API | several instances, skewed clocks, death of the leader |
| Signal consumer (`connectors/consumers/main.py`) | one message per queue task | deliver, upsert, ack / nack, index, hand over | RabbitMQ, Neo4j, Elasticsearch, writer | lost connections, redelivery, one dead task among live ones |
| Activity writer (`connectors/consumers/activity_writer.py`) | in-memory queue and batch; `activity_events`, `activity_actions` | collect, write batch, close | Postgres | cancelled in the middle of a batch; two statements per signal |
| DLQ redrive (`app/scripts/redrive_dlq.py`) | one message | get, publish, ack | RabbitMQ | duplicates, reordering |
| Person identity (`connectors/commons/person_*.py`, `neo4j_db/models.py`) | a cache per queue task; Person nodes, mappings, edges | find or create, fold a stub into the owner of its email, replace the interactions of an item | Neo4j | every query is a transaction of its own; caches of other tasks are not told |
| Runtime settings (`app/api/settings`, `common/messaging/settings_events.py`, `ui/pages/settings/runtime.py`) | rows with `updated_at`; a snapshot per process | load page, save or reset, publish event, refresh | Postgres, RabbitMQ | stale pages; lost events, overlapping refreshes |
| Login sessions (`app/api/auth`, `ui/auth.py`, `ui/api_client.py`, `ui/session_guard.py`) | session rows with refresh tokens, cached bearers, the cookie | login, exchange, logout, expiry, purge | Keycloak | an exchange takes long: others, a logout or a timeout come in between |
| Service token (`common/auth/service_token.py`, `daemon_common.py:197-224`) | cached token and expiry, or a backoff | get, invalidate, retry after 401 | Keycloak, API | fields read without the lock and written one by one |
| Producers (`connectors/producers/{github,jira,confluence}`) | `producer_sync_state`, trackers of commits and people | scan phase by phase, retry within a budget, advance cursor | providers, RabbitMQ | edits during a scan; concurrent tasks; errors that are swallowed, dropped or fatal |
| Graph themes (`app/api/graph_themes`) | rows, one of each base mode its default | create, clone, update, delete, set default | Postgres | overlapping transactions that write what they decided on old rows |
| Connectors, graph, search, activity, queries APIs; chat and AI agent; collaboration analytics; UI | configuration rows; otherwise none | CRUD, read-only queries | databases, language models | little or no concurrent state |

What makes the modelled components correct:

* Commands: a row says what happened to the scan; a cancel stops its victim for
  good; no command is lost or overtaken; the daemon's dictionaries agree with the
  processes; nothing waits for ever.
* Scheduler: one leader at a time; a dead leader is replaced in bounded time;
  scheduled scans keep their distance.
* Scans: every edit is published by this scan or the next, unless an error dropped
  it; nobody a signal names stays unknown; an exhausted retry budget keeps the
  cursor.
* Persons: folding loses no interaction and no mapping, counts no remark twice,
  and leaves no cache that names a Person it has removed.
* Sessions: a logout is final and soon ends every bearer; an active user is not
  signed out. Service token: no caller gets a stale one. Settings: every process
  works with the committed values; no edit overwrites a change its page had not
  seen. Graph themes: every mode keeps its one default, a theme shows what was
  asked of it.
* Signals: none is lost; redelivery and redrive do not double timeline actions;
  the sinks behind the graph never run ahead of it; every signal is settled.

`PROJECT.json` lists the hazards at their lines with the properties that watch
them.

## 2. Modules

| Module | Content |
|---|---|
| `CommandBus` | API, queues, daemons, SIGCHLD handlers and children together |
| `CommandChannel` | abstract: what the command queues promise |
| `CommandBusProofs` | TLAPS proofs about `CommandBus`, among them that it implements the channel |
| `CommandScansProofs` | extends it: proofs about the processes of scans and their cancels |
| `CommandBusClaims` | what comments say about commands and the code does not guarantee |
| `SchedulerLease` | lease, tick, due check, firing, in discrete time |
| `SchedulerLeaseProofs` | TLAPS proofs about it |
| `ActivityWriter` | the timeline writer of each consumer process |
| `SignalPipeline` | extends it: queues, consumer tasks, sinks, DLQ, redrive |
| `SignalPipelineProofs` | TLAPS proofs about both |
| `ProducerScan` | what all scans share: clock, items, cursor, budgets, tracker of people |
| `GitHubScan`, `JiraScan`, `ConfluenceScan` | extend it: the scan of a repository or an account |
| `ProducerScanProofs` | TLAPS proofs about the three scans |
| `PersonGraph` | resolution, caches and folding of Persons in the consumer's tasks |
| `PersonGraphProofs` | TLAPS proofs about it |
| `ItemEdges` | the edges between an item and people, query by query |
| `Sessions`, `ServiceToken`, `SettingsSync` | login sessions; the token of a connector; runtime settings |
| `SessionsProofs` | TLAPS proofs about `Sessions` |
| `GraphThemes` | the table of graph themes and its handlers |
| `SharedStateProofs` | TLAPS proofs about `ServiceToken`, `SettingsSync`, `GraphThemes` and `ItemEdges` |
| `MC*` | instances for TLC |

Components that share no state are checked in one run where that saves nothing but
a second start of TLC: `MCScans`, `MCProducerScans`, `MCLiveness`, `MCIdentity` and `MCShared`
have a variable (`producer`, `part`) that is chosen initially and never changes;
the variables of the other parts stay as they are, so the state space is the sum
of the parts, not their product. `MCCommandFaults` holds four instances of one
component, which its action constraint `OneInstance` tells apart.

### CommandBus

The daemon's main thread is sequential Python that may be interrupted between any
two operations by the SIGCHLD handler, a SIGTERM or a crash. `script[d]` is the
list of operations its current handler still has to perform; each operation is
one action (`Record`, `Find`, `Kill`, `Finalize`, ...), and an operation that
decides what comes next (a lookup, a poll) puts it in front of the rest. The
thread waits in `channel.consume` exactly when the script is empty. `children`,
`exited` and `testChildren` are the three dictionaries, by command instead of by
pid; `proc` is the operating system's view of each child (`boot` and `report` are
the points where it PATCHes; a `zombie` has ended and is not reaped).

`create_and_publish_command` is `CreateBegin`, one `Publish` per target, and
`CommitAccepted`, `CommitFailed` or `CommitLost`. The row is not visible before
the commit, as in the code, where the insert is only flushed. A PATCH is
`PatchRead` (load and validate) and `PatchCommit` (write): no lock is held in
between, and every client (a main thread or a child) blocks on its request.
`PatchTimeout` and `PatchDrop` are the failures of the client, which logs and
goes on, while the API may still execute the request (`LateRead`).

`Interrupt` is SIGTERM or a broken broker connection (the finally block runs),
`Crash` is SIGKILL (it does not). Either way every process of the container ends,
since the daemon is its PID 1, the broker takes the unacknowledged message back
to the head of the queue, and the container is restarted.

Left out: malformed envelopes (nacked; the publisher never sends one), reuse of a
pid, pipe capacity, more than 100 running rows at startup, retention of rows.

### SchedulerLease

`phase[i]` is where `scheduler_loop` of instance i stands; a tick is `Wake`
(read the clock), `Claim` or `Skip` (the UPDATE with its WHERE clause),
`Check` (`_get_due_connectors`), and `Fire` / `Commit` per due connector.
`Commit` may fail (`CommitFails`): the loop logs it and goes on, and the connector
is as due as before. `Manual` is a scan a user requests; it anchors the due check
like a scheduled one. Time is integral; `Pass` advances it only when no sleep is
over and no tick has used up `TickWork`. Instances compare the lease with their
own clocks, off by `Skew`. `fired` and `vacant` (when the holder died, and who
lived then) are history.

A tick that raises before a command is created (database error) is a `Skip` or
ends like one; it changes nothing the properties speak of and is left out, as is
the shortening of the tick by configuration at run time.

### ActivityWriter and SignalPipeline

Each process has one task per queue and one writer; every `await` is a step
boundary. A task waits, upserts, acknowledges (or nacks to the DLQ), indexes, and
puts the signal into the writer's queue. `held` says whether the broker still
counts the message as unacknowledged: after `ConnectionLost` it is back in the
queue although the task still works on it, and the late `ack()` raises, which
ends the task (`Raise`). `asyncio.gather` passes the first exception on, `main`
closes the writer while the other tasks continue, the process exits and its
container restarts.

The writer collects a batch and writes it signal by signal, the event
(`WriteEvent`, idempotent by its unique key) and its actions (`WriteActions`) in
two transactions. `close()` cancels it wherever it waits. In the loop the
`CancelledError` is caught and the batch written again from its start; in the
handler of the idle timeout it is not caught there, and the batch is dropped.

`graph[e]` and `index[e]` hold the signal whose properties the node or document
shows. How an entity becomes nodes and relationships is data and left out.

### ProducerScan, GitHubScan, JiraScan, ConfluenceScan

A scan is a sequence of phases (`phase`); within a phase the coroutines of a
semaphore are separate actors (`task`, `job`). `item[x]` is the provider's
revision of x and the time of its last edit, and changes at any moment of a scan.
`Since` is the lower bound of the listing, `MoveCursor` writes the start of the
scan at its end. A call to the provider succeeds, exhausts the retry budget
(`BudgetExhausted`, which every producer passes up to the end of the scan) or fails
otherwise: what that does is the producer's own, and follows its `except` clauses
(`DropCommit`, `SkipRepository`, `EntityFails`, a space that is skipped). `skipped`
and `lost` are history: what a scan dropped, and what it still had dropped when it
moved the cursor. `stubs` and `profiles` are the two sets of `PersonSeenTracker`.

GitHub lists the default branch in coroutines of `Permits`, then pull requests
newest first until an old one (those of one moment in any order), publishing the commits `seen_commits` does not
contain, then issues. Pull requests may share commits, with each other and with the
default branch, and a merge may bring the branch none of them (`MergePR`). Jira
lists level by level; `mapped` is what a scan knows of
parents, `partOf` the links it published. An entity without a valid signal is passed
over after it entered `mapped` (`SkipEntity`). `JIRA_COMMENT_FETCH_CONCURRENCY` is
assumed to be more than 1. Confluence lists what the lookback window holds, since
comments do not touch a page; `gap` says that a scan came later than the window
reaches back. Its people are published past every claim (`PublishPeople`), so that
the tracker's promise, `ProfilesReachTheGraph`, is checked for the other two.

### PersonGraph and ItemEdges

One task per provider queue, each with its `PersonCache` (`byAccount`, `byEmail`,
`pending`, `flushed`); an upsert stands at `up[t].pc` between two queries. A fold
reads the stub's edges (`ReadEdges`), merges them onto the canonical Person
(`CopyEdges`), and deletes the stub with what it then has (`DeleteStub`). `mapped`
(accounts whose IdentityMapping was written), `folder` (the task whose reroute
removed a Person) and `raced` (an edge was written to a Person while another task was
folding it) are history; the last is the way in which tasks are known to disturb each
other (section 6).

`ItemEdges` looks at the edges themselves. `edges` maps ids to them, as nothing keeps
two relationships from being alike, and `Matches` is what the pattern of each MERGE
compares. A handler is a sequence of phases (`work[w].at`) with one query each; people
and rows come in any order. Of an edge's properties the remarks its count stands for
and `_display_in_graph` are kept. `told`, `mess` and `torn` are history: what the last
signal said, and whether a handler failed or overlapped another one.

### Sessions, ServiceToken, SettingsSync

`Sessions` has one browser, the rows, and Keycloak as an external party. A call of
the UI and the exchange it asked for are two sides of one record (`ui`, `api`):
the UI may stop waiting (`GiveUp`) while the exchange goes on. `exchange_token` is
cut at its awaits: `Request` (row and time are read), `Granted` / `Refused` /
`Unavailable` (Keycloak), `Touch` or `Revoke` (the UPDATE by id), `Answer`. A
cached bearer is used until `until`, whatever has become of the row. The API accepts a
bearer for a while after its end (`Leeway`, `app/auth/tokens.py:138`). `used` and
`left` are history.

`ServiceToken` executes `_cached_token` and `_in_failure_backoff` read by read
outside the lock and write by write under it, in the threads of a daemon. Keycloak
issues the token at some moment of the request (`Issue`), and the expiry is computed
from the clock when the answer is there (`Answer`), up to `HttpTimeout` later. The
expiry of a backoff is computed when the failure is seen (`RequestFails`). That no
client secret is configured is not modelled.

`SettingsSync` follows an edit from the page it was loaded into, through the
handler (check, time stamp, commit), to the event and the listeners. What a process
works with is `domain.timezone.runtime_settings`, which only the start of the process
(`Load`, or `LoadDefaults` when the database cannot be read) and its listener replace.
The cache the handlers refresh (`_runtime_cache`, `settings/v1/service.py:23`) is
another object, which nothing reads outside the tests, and has no part in the model.
A listener loads first and binds its queue later; a broken connection loses the
queue.

### GraphThemes

A handler is one transaction at READ COMMITTED: it reads rows, decides on them,
writes by id the columns that differ from what it read, and commits; a written row
is locked until then (`Free`). `set_default` looks for the default of the mode,
clears it and sets the new one, each a statement of its own (`FindDefault`,
`ClearDefault`, `SetDefault`). A handler fails anywhere (`FailTheme`) and leaves
nothing. A document maps fields to tokens; what is stored is the document over the
palette of its mode (`Effective`), and a change of mode takes the difference from
the old palette over to the new one (`Rebased`). `chosen` (what the user asked for)
and `stale` (a call was committed on rows another one had changed) are history.
The two example themes that are seeded beside the defaults are left out: they are as
immutable as those, begin without being a default, and bring no handler of their own.

## 3. Runs

| Run | Instance | Properties |
|---|---|---|
| `commands_scans` | one daemon, limit 1, two scans, a cancel of the first; one crash or shutdown, one silent death; or the scheduler: two instances, clocks 1 apart, tick 2, tick work 1, two connectors (intervals 3 and 5), 11 units, a manual scan in the first two ticks | `LiveScansAreKnown`, `ScanCapacity`, `LiveScansAreSpared`, `OneLeaderActs`, `FailoverIsBounded`, `ScheduledScansAreSpaced` |
| `commands_faults` | one daemon, a scan, its cancel, three faults: up to two crashes or shutdowns, one lost or late request, one silent death; or two daemons, a scan sent to `*`, its cancel, one crash of the daemon that handles the cancel, during it; or a test and an unknown command with one fault; or a scan at work that a second one is refused for, and that ends while a cancel of the latter is handled | `CancelledIsDead`, `CancelTakesEffect`, `ScanCompletedOnlyOnSuccess`, `CommandsArriveInOrder` |
| `producer_scans` | GitHub (two commits, two pull requests that share one of them, an issue), Jira (an epic, two issues) or Confluence (two pages in two spaces); two ticks, three for Confluence; four edits for GitHub (none at the last moment) and three for the others | `ProfilesReachTheGraph`, `GitHubMissesNothing`, `IncludedCommitsAreOut`, `NamedPeopleAreIntroduced`, `JiraMissesNothing`, `ParentsArePublishedFirst`, `ConfluenceMissesNothing`, `CommentsAreHeard`, `ExhaustedBudgetKeepsCursor` |
| `liveness` | one daemon, a scan and one of a cancel, a test and an unknown command, one silent death; or one consumer process, two queues, two states of one node (one invalid, one with relationships) and another node, batch 2, two failures, two redrives; fairness | `TypeOK`, `NoSignalLost`, `ActionsWrittenOnce`, `SinksFollowGraph`, `Drained`, `RecordedExitIsReconciled`, `TestIsReported`, `SettledInTheEnd` |
| `identity` | one human with four accounts (two of them in Jira) and an email, a task per provider, two items, four signals or three and a failure; or one session with two calls at once, or two logins | `InteractionsSurvive`, `AccountsStayMapped`, `CachesForgetTheFolded`, `LogoutIsFinal`, `BearersEndSoon`, `ActiveUsersStaySignedIn` |
| `shared_state` | a token and two threads; three edits of two keys, or two edits with two processes; three themes in two modes, two overlapping calls; one item with two remarks of two accounts, two writers, three handlers, one failed query | `ReturnedTokenIsGood`, `QuietSnapshotsAreCurrent`, `StaleEditsAreRefused`, `EveryModeHasItsDefault`, `ThemesShowWhatWasAsked`, `RemarksCountOnce`, `ReversesFollow` |

and six runs that end in a counterexample (section 6).

What the passing runs show:

* What the daemon believes agrees with the processes. A running scan is in
  `_children` or about to be entered there (`LiveScansAreKnown`), so that the
  limit holds (`ScanCapacity`), a cancel finds it and a shutdown stops it. The
  opposite does not hold: a child that ends before it is recorded leaves an entry
  for ever (section 6).
* Reconciliation fails no scan that runs (`LiveScansAreSpared`), and a scan shown
  cancelled is dead (`CancelledIsDead`).
* A redelivered scan never comes after its cancel (`CancelTakesEffect`): an
  unacknowledged message returns to the head, and the queue is handled one at a
  time. The same two facts make the queues implement `CommandChannel`
  (`CommandsArriveInOrder`, with the unacknowledged message as the first pending
  one): the end of a daemon settles nothing, and each command is settled once, in
  order.
* A row says completed only after a success, even when a PATCH that was abandoned
  is executed late (`ScanCompletedOnlyOnSuccess`).
* Every queue is drained, every exit the handler recorded is turned into a
  terminal row, every test that ended gives its slot back.
* The scheduler's guarantees hold while the lease outlasts a tick plus the clock
  difference (`LeaseOutlastsTick`); failover takes at most three ticks plus two
  ticks' work and the difference of the clocks.
* A signal is in the graph or in the broker at any time; redelivery, redrive and
  the repeated batch of `close()` never double its actions; nothing dead-lettered
  reaches the timeline or the index; and every signal is settled, because one
  task's death takes the process down.

* The windows of successive scans leave no gap, although edits go on while a scan
  lists, processes in concurrent tasks and publishes, because the cursor is the
  start of the scan and not its end (`...MissesNothing`; history `lost` exempts
  what an error dropped, `gap` a Confluence scan that comes too late). The shared
  `seen_commits` and the tracker of people hide nothing nobody published.
  `ProfilesReachTheGraph`: somebody met as a bare id and later with a profile is
  published with it.
* Folds lose nothing as long as no other task writes to the stub in between
  (`raced`), and no cache names a Person its own task has rerouted away from. A remark is counted
  once, however often its signal was delivered and its authors were folded, and the
  next undisturbed snapshot repairs what was disturbed.
* An exchange under way cannot revive a session, because `touch_session` writes two
  columns only. Bearers end within the life of one bearer and the length of one
  exchange after a logout. Concurrent exchanges do not cost an active user the
  session, except close to the idle limit (section 6).
* The unlocked reads of the service token are safe because the token is written
  before the expiry: a token that is returned lives on for the margin (60 s) less the
  time its request may have taken (10 s).
* What a listener reads may be older than the last commit; the event of that commit
  repairs it, unless a broken connection lost it (section 6). Conflicts are
  found but for a commit between the check and the write, and a time stamp older
  than the page whose commit is younger.
* Every mode has exactly one default theme, which can be neither deleted nor moved to
  the other mode, and a theme shows what was asked of it although only a snapshot is
  stored, as long as no call is committed on rows another call has changed since it
  read them. When one is, there may be two defaults (section 6).

### Bounds

`MaxCrashes`, `MaxDrops`, `MaxDeaths` (faults of a kind), `MaxPublish`,
`MaxFaults`, `MaxRedrives`, `MaxTime`, `MaxManual`, `MaxRev`, `MaxEdits`, `MaxLost`,
`MaxSignals`, `MaxFailures`, `MaxScripts`, `MaxCuts`, `EdgeId`, `LoginBy`, `Aftermath`,
`MaxClock`, `MaxRefusals`, `MaxMissed` and `Flight` are the only bounds, each a guard
of the action it counts. One fault of a kind is enough to put it before and
after every other step; a second crash also strikes redelivered work
(`commands_faults`). The limit of one scan makes two scans reach
it. Two daemons are what a broadcast needs; a third adds nobody new to talk to,
since daemons share only rows. Two instances are what a lease race needs, and the
theorems below cover any number. Eleven units are five ticks and more: a death,
the expiry, the takeover and the next due scan; they suffice to exceed the bound of
`FailoverIsBounded` where the lease is not given up. A manual scan in the first two ticks
(`EarlyManual`) falls between a due check and its creation, and before the next one.
Two queues are needed for a task that dies while another lives; two signals of one
node for reordering; a batch of two for an interruption inside a batch. One consumer process is the deployed default
(`docker-compose.yml`, `SIGNAL_CONSUMER_REPLICAS:-1`).

The clock of the scans shows three moments: one scan, an edit during it, the next
scan (of GitHub, only the first two have edits: `InTimeForAScan`). Confluence has one more: with a `Lookback` of 2, a page may then be older than
the window while a comment on it is new, and a scan may come too late (`gap`). Two
scans are reached in all of them. Four signals are a stub, a second
account, the email that joins them, and one more. Three handlers on an item are a
snapshot, a fold of one of its authors and whatever disturbs the two, or a snapshot that
repairs; they never use up the 13 ids of edges. In `Sessions` the idle time (5)
exceeds the life of a bearer and two exchanges (2 + 2 x 1), the maximal age (7) the
idle time, as the defaults do (60 minutes, 15 minutes, 8 hours; exchanges take seconds); seven
ticks reach idle expiry, age and the end of a bearer after a logout. Two calls are
needed for exchanges that overlap; calls are symmetric, as are the calls of
`GraphThemes`, of which two are needed for the same reason. Two modes, a default
each and one more theme let a theme change its mode and take a default over. Three edits are needed for
one page that is stale towards an edit that was itself checked against another.

`CHECK_DEADLOCK FALSE`: a behaviour may end when every command or signal of the
instance is handled, every instance is dead or the time is up.

### Fairness

`liveness`, commands: weak fairness of the API's steps (a request is answered), of a
daemon's main thread (a running process goes on), of its signal handler (the
kernel delivers SIGCHLD) and of the restart (`restart: unless-stopped`). Nothing
makes a command be created, a scan end or a fault happen. Signals: weak
fairness of each task, of the writer, of the exit of a process that is closed and
of the restart; none of the redrive, which an operator runs, nor of publishing.

## 4. Proofs

Every theorem is about the specification the runs check, for all values of its
constants; what it assumes of them is the `ASSUME` of the component's module, which
TLC evaluates in the runs. Every invariant and every action property that a passing run
checks is proved; section 4.9 says what is not.

Each proof has the same shape: an inductive invariant made of named parts, its
initial states, one lemma or step per action, and the property as a consequence.

### 4.1 CommandBusProofs

Proved from the three named assumptions of the module (kinds of commands are
disjoint, routing is well formed, bounds are natural numbers):

* `TypesHold`: `Spec => []TypeOK`.
* `CompletedMeansSuccess`: `Spec => []ScanCompletedOnlyOnSuccess`.
* `ChannelIsImplemented`: `Spec => CommandsArriveInOrder`, that is, `CommandBus`
  implements `CommandChannel`.

Even the types need more than types. `TypeInv` adds that scripts hold `Sound`
operations only (each names a command of the kind it works on; the main thread
never reports a scan completed), that a thread waiting for an answer stands at its
PATCH and nobody waits for two answers (`Waiters`: otherwise an answer would pop an
operation of an empty script), and that a handler acknowledges last and a message
is in hand only while somebody is there to acknowledge it or to go down (`Acks`).
Each action has a lemma; what replacing the head of a script preserves is stated
once (`ThenKeepsScripts`, `ThenKeepsAcks`, `MoveTypes`).

`ScanCompletedOnlyOnSuccess` becomes inductive with `WordIsTrue`: whatever a
process says, and whatever request is still on its way to the API, is true.
`RowWriters`, `Speakers` and `Askers` state which steps write a row, let a process
speak, or add a request; the theorem needs nothing else of the actions.

The refinement maps `Pending` to the message in hand in front of the queue.
`Movers` names the steps that touch queues, messages in hand or `up`: `Publish` is
`Send`, `Ack` is `Settle`, the end and the restart of a daemon are `Flip`, and
taking a message is a stutter, because by `Acks` an idle thread holds none.

### 4.2 CommandScansProofs

From the same assumptions:

* `ScansAreKnown`: `Spec => []LiveScansAreKnown`.
* `CapacityHolds`: `Spec => []ScanCapacity`.
* `RunningScansAreSpared`: `Spec => []LiveScansAreSpared`.
* `CancelledMeansDead`: `Spec => []CancelledIsDead`.
* `CancelsTakeEffect`: `Spec => []CancelTakesEffect`.

`ScanInv` follows a scan from its message to the end of its process. `Rows`: there is
a row only when the POST is over, and a cancel names one. `Arrivals`: a command
arrives at a daemon once and has no process before it is taken. `Order`: a cancel is
behind its scan. `Shapes`: what the operations of a script may rely on; one that
ends a scan (`Buries`) does so after its process is dead. `Handling`: while a cancel
is in hand, the script still searches for the victim, or that one is dead. `Burials`: what a row or a request says of a cancelled scan is true.
`Room`: the scans that run are in `_children` or being entered (`Tracked`), and
fit the limit.

The daemons interleave, but each step moves one of them. `Turned` splits the steps
into turns of a daemon's own thread and steps that leave its thread aside (`Aside`),
`Ageing` and `Noting` say what the latter may do to processes, messages and rows, and
the frame lemmas (`ShapeThen`, `PendsLeave`, `LiveFrom`) leave only the turns to look
at one by one.

### 4.3 SchedulerLeaseProofs

Proved from `TimingIsSane` alone:

* `TypesHold`: `LeaseSpec => []LeaseTypeOK`.
* `OneLeader`: `LeaseSpec => []OneLeaderActs`.
* `ScansAreSpaced`: `LeaseSpec => ScheduledScansAreSpaced`.
* `DeadLeadersAreReplaced`: `LeaseSpec => []FailoverIsBounded`.

`OneLeaderActs` is not inductive: in an arbitrary state a leader's lease may have
expired long ago. `LeaseInv` adds that ticks are short (`TicksAreShort`, kept by
`Pass`), that a claim works with the clock reading its tick began with
(`ClaimReadsClock`), and that a leader holds the lease with the expiry its running
tick wrote (`LeaseIsFresh`). The heart is `GrantedAlone`: a claim granted while j
leads would need `since[j] + Skew[j] + Ttl < since[i] + Skew[i]`, but
`since[i] <= time <= since[j] + TickWork`, which contradicts
`LeaseOutlastsTick`. The latter speaks of constants only, so the whole invariant
is carried under it.

`ScansAreSpaced` adds that a scheduled scan is one of the committed ones
(`FiredIsCommitted`), that the clock is read in order within a tick
(`ClockAdvances`), and that what the leader found due stays due until handled
(`DueStaysDue`): the only step that could spoil it is another leader's `Commit`,
which `FreshIsAlone` excludes.

`DeadLeadersAreReplaced` needs no condition on the lease. `FailoverInv` says that no
sleep outlasts a tick (`SleepsAreShort`), that the lease expires within two ticks of
the holder's last reading (`ExpiryIsNear`), that a vacancy ends with any claim
(`VacancyEnds`), and that whoever lived when the leader died asks again in time
(`HeirsAskInTime`).

### 4.4 SignalPipelineProofs

From `PipelineIsWired` and `WriterIsSane`: `PipelineTypes`, `NothingIsLost`
(`NoSignalLost`), `ActionsOnce` (`ActionsWrittenOnce`) and `SinksTrail`
(`SinksFollowGraph`).

`PipeInv` has the types and four facts. Every published signal is somewhere at every
moment (`Accounted`): in the graph, in its queue, with a task that has not
acknowledged it, in the DLQ, or in the hand of the redrive. Each action moves one
message and leaves the others where they are, which the frame lemmas say once for
all of them. `GoodTask` says what a task at each step may rely on. The writer has an
invariant over whatever set of signals it was given (`WriterHolds`), so that its part
is proved without the queues; that actions follow their event is part of it
(`ActionsFollow`).

### 4.5 ProducerScanProofs

From `ScanBounds`, and the shape of the provider's data in `RepositoryShape`,
`JiraHierarchy` and `SpacesHavePages`:

| | GitHub | Jira | Confluence |
|---|---|---|---|
| no edit between two scans | `GitHubScansMissNothing` | `JiraScansMissNothing` | `ConfluenceScansMissNothing` |
| an exhausted budget keeps the cursor | `GitHubBudgetKeepsCursor` | `JiraBudgetKeepsCursor` | `ConfluenceBudgetKeepsCursor` |
| profiles go out | `GitHubPublishesProfiles` | `JiraPublishesProfiles` | |
| its own | `GitHubIntroducesPeople`, `PullRequestsBringTheirCommits` | `ParentsComeFirst` | `ConfluenceHearsComments` |

`NothingMissed` is not inductive: it says of the old cursor what a scan must know of
the new one before it moves it. The strengthening says of every item edited before
the scan began that the scan has dealt with it or will: it is in a part not listed
yet, in a job, a page or a fetched record (`WindowIsHandled`, `PagesAreHandled`,
`TalkIsHandled`, `RepoIsHandled`). What is held in memory is what the provider has,
unless it was edited after the scan began, so that the next scan lists it
(`JobsAreReal`, `SnapshotsAreReal`, `TodoIsReal`). What is older than the window was
dealt with before, because nobody else moves the cursor (`TimesAreOrdered`).

Parents come first by `LevelsAreOrdered` and `MappedGoOut`: what `mapped` holds has
gone out or was passed over (`LeftOut`), unless its own level still runs, and a parent
is of an earlier level. That the exception is a parent this scan has passed over is why
`ParentsArePublishedFirst` speaks of the step that adds a link. A claim of `seen` or of the tracker of
people is a promise that its task will keep before the phase ends, or an error
records (`AuthorsAreClaimed`, `ClaimsAreUnderway`, `SeenAreHandled`).

`PullRequestsBringTheirCommits` has one case that no single scan shows. A scan
publishes a pull request, fails to publish a commit of it and ends before it moves
the cursor. `LateArePublishedAgain` says that the next scan lists this pull request
again, because its edit is not older than the cursor, and that the listing does not
stop before it (`PRsAreSorted`). Commits may belong to several pull requests and to the
default branch: what is in `seen_commits` is out, dropped, or about to go out, whoever
put it there (`SeenAreHandled`).

### 4.6 PersonGraphProofs

From `NoOneIsNobody`, `PeopleAreAccounts` and `ItemsAreNoAccounts`, for any tasks,
accounts, emails and items, with failed queries and restarts:

* `FoldsKeepInteractions`: `PeopleSpec => []InteractionsSurvive`.
* `FoldsKeepMappings`: `PeopleSpec => []AccountsStayMapped`.
* `ReroutesAreForgotten`: `PeopleSpec => []CachesForgetTheFolded`.

`InteractionsSurvive` is not inductive: the one edge an item has may lead to a Person
that another task is about to delete. `EdgesLast` adds the two facts that exclude this.
A fold nobody has raced knows every edge of its stub (`FoldIsComplete`), since whoever
writes one between the reading and the deletion sets `raced`; and whatever must have
an edge has one to a Person that is not `Doomed`, that is, no task stands before its
deletion. `CopyEdges` gives the edges of the stub a second end before the stub becomes
doomed; the canonical Person it moves them to cannot be doomed itself, as it is
written to, which the other fold would count as a race. The signal in progress
counts too (`Wanted`): its edges are written before it is acknowledged.

`CachesForgetTheFolded` needs more than the caches. `FoldsAreForgotten` says of every
task that neither what it remembers nor what its upsert has at hand was folded by
itself; only the database can still name such a Person, and what is there has not been
folded since it was created (`GraphIsWhole`). `MappingIsQueued` says why an account
is acknowledged: its mapping is queued, or its Person was written by this cache.

### 4.7 SharedStateProofs

*Service token.* `TokensAreGood`: `TokenSpec => []ReturnedTokenIsGood`, from
`HttpTimeout <= RefreshMargin < TokenLife` and a name for nobody. The recorded expiry is
late by the time the answer took; what remains of the margin is the difference. `TokenInv` says that whoever
fetches holds the lock (`LockIsHeld`), that the cached expiry never grants more than
the token has (`Sound`), and what a thread that has read one of the two fields knows of
the other: whoever trusted an expiry will find the token it belongs to, none, or a later
one (`Covers`).

*Settings.* `QuietSnapshots` (`QuietSnapshotsAreCurrent`) and `StaleEdits`
(`StaleEditsAreRefused`), for any processes, keys, values and edits. `SnapshotsMend`:
whatever is stale about a process that missed nothing is about to be mended, by an
edit that has yet to announce itself, a queued event, or what the listener has read.
`PagesAccount`: a row that differs from the page of an edit is by an edit that had its
time stamp when the page was loaded, or is later than everything the page knows, in
which case the check finds it.

*Graph themes.* `ModesKeepTheirDefault` (`EveryModeHasItsDefault`) and
`ThemesShowTheWish` (`ThemesShowWhatWasAsked`), for any themes, modes, fields and
calls, from `ThemesAreSeeded`. Within a transaction of `set_default` the table has a
default and the call's rows have another one or none, so that the invariant speaks of
the call: one that nobody has overtaken (`clean`) has read what is there, and at its
commit every row keeps its part in the defaults or the mark goes from the old default to
the new one (`Takes`). Locks make the rows of two calls disjoint (`LocksExclude`), and
a commit takes `clean` from every other call about one of its modes. For the
looks `Shows` is kept for rows not yet committed as well as for the table; that
a snapshot over a palette is its own look (`EffectiveTwice`) and what a change of mode
makes of it are lemmas about the operators.

*Item edges.* `RemarksStayCounted` (`RemarksCountOnce`) and `ReversesStay`
(`ReversesFollow`), for any writers, items, remarks and people, from
`PeopleHaveOneCanonical`. `ItemHolds` says for every phase of a handler that works on an
item alone how far the edges are from what is claimed of them at its end. A snapshot has written
both directions for the people it has done (`Snapshot`). A fold (`RemarksMove`) leaves
a moved edge and its original side by side until the stub is deleted: counted without
what has been moved already (`Remain`) the remarks are still counted once, and of what
was moved the canonical Person has a copy. The MERGE of a moved edge asks for the
aggregate of its remarks, which differs from that of every other edge since aggregates
are disjoint and not empty; so it finds the copy of this edge only, and none is overwritten.
Creations say nothing and do meet (`CreationMoves`): a moved `CREATED` stays visible
until its `CREATED_BY` is moved and hides it again, which is why outgoing edges must
come first; reversed, the property fails in the run. The invariant says nothing of
handlers that overlap (`Calm`), and an undisturbed snapshot restores the remarks from
any edges whatever, because it deletes before it writes.

### 4.8 SessionsProofs

`LogoutHoldsForever` (`LogoutIsFinal`), `BearersEnd` (`BearersEndSoon`) and
`UsersStaySignedIn` (`ActiveUsersStaySignedIn`), for any numbers of sessions, calls and
workers, from `TimesAssumption`: an exchange takes no longer than the margin by which
a bearer is renewed early, nor an exchange and a request together (`2 * Flight - 1` ticks,
since a bearer whose time is up is not sent), the margin is shorter than a bearer's life,
and Keycloak's idle limit is at least the application's. The second is why the API's
leeway prolongs no bearer: each is still good when its request arrives (`InTime`). All
rest on bounds every bearer keeps, in a cache, on its way or in a
request (`Bounded`). While the row is active no bearer outlives the row's own times by
more than one life and one exchange, although exchanges touch the row out of order;
after a logout none outlives it by more than that. `ExchangeHolds` and `MayRevoke` say
what an exchange under way may still do to a row it has read.

### 4.9 Model-checked only

Liveness under fairness: `Drained`, `RecordedExitIsReconciled`, `TestIsReported`
and `SettledInTheEnd`. The provers do not reason about ENABLED, on which weak fairness
rests. The counterexamples of section 6 are behaviours of an instance and need no
proof. The parameterised theorems say nothing beyond the histories their properties
name (`raced`, `stale`, `mess`, `torn`, `lost`, `gap`): these mark where the code
itself keeps no promise.

## 5. Plan

Modelled and checked: commands, scheduler, signal pipeline, scans, persons and edges,
sessions, service token, settings, themes. Proved: every safety property of these.
Candidates for more are the parts of section 7 that keep state: the rows of the
Connectors API, and the sprints and teams of a Jira scan.

## 6. Seen while modelling

Checked by runs that end in a counterexample:

* `claim_final`: a terminal row is overwritten. `daemon_common.py:411-413` relies
  on the validator of the API, which reads and writes without a lock.
* `claim_test`: a test killed before it prints is shown completed. The SIGCHLD
  handler reaps test children too, and `Popen.poll()` then reads 0
  (`daemon_common.py:233-235` explains this for scans).
* `claim_order`: a redriven signal takes its node back to an earlier state
  (`docs/design/rabbitmq-design.md:252`).
* `claim_links`: an issue created after its epic was scanned is published without its
  PART_OF link, as a scan knows only the parents it lists itself
  (`connectors/producers/jira/main.py:1169`; `docs/design/graph-db-high-level-design.md:164`),
  and gets it only if both are edited between the same two scans.
* `claim_local`: settings are "saved and applied locally" even when the event is lost
  (`settings/v1/service.py:46-49`, `common/messaging/settings_events.py:57-60`). The
  handlers refresh a cache of their own (`service.py:23,314`), which nothing reads; the
  API goes on with the old values until another event or a restart.
* `claim_default`: two calls at once make two themes of one mode the default. Each
  clears the default it found and sets its own (`graph_themes/v1/service.py:307`);
  `query.py:40-41` relies on a partial unique index that migration
  `e636212b35b4` (line 89) drops. From then on `scalar_one_or_none` raises for this
  mode.

In the models, with no promise they would break:

* `scheduler.py:79-80` says that the next instance leads "within one full tick
  period"; the lease lasts two ticks and is asked for once per tick, so it may take
  three (`FailoverIsBounded`).
* The daemon may handle a command before its row is committed
  (`service.py:108,116`). Its PATCHes get 404 and the row stays `accepted`.
* A child that ends before `_children` names it leaves an entry that is never
  removed and counts against the limit (`daemon_common.py:456-457`).
* A child that is reaped in that moment, a test, and a broadcast scan that a crash
  interrupted are never reconciled (`daemon_common.py:341-355`); a redelivered
  scan whose row was failed at startup runs with all its reports refused.
* `activity_writer.py:3-5` speaks of rows written atomically; event and actions
  are two transactions, and a failure between them leaves an event without its
  actions for good, as its repetition is a duplicate. A batch that `close()`
  interrupts while the idle timeout writes it is dropped.
* What was acknowledged and not yet written to the timeline is lost in a crash
  (the timeline is declared non-fatal).
* `redrive_dlq.py --dry-run` without a limit puts back what it reads next
  (`redrive_dlq.py:162`).

Scans:

* Errors of a listing that are not retried read as an empty answer, and the cursor
  moves on (Jira, GitHub issues); so do entities dropped one by one. The models keep
  them in `lost`.
* Confluence fetches what was modified within the lookback, not since the cursor
  (`confluence/main.py:742` says the latter): after a longer pause edits are missed.
  The pages of a space that is skipped lose their bodies until they are edited.
* Commits of a merged pull request keep their date and are not listed again for the
  default branch: they never get their Branch.
* A Jira initiative or epic that fails validation yields no signal
  (`jira/main.py:358-360`, `516-518`) and is passed over (`803-807`), but it is in the
  parent map already (`1013`, `1065`): its children go out with PART_OF to a parent that
  was never published, and the cursor moves. `ParentsArePublishedFirst` excepts it.
* A comment on a page older than the lookback window is never heard
  (`CommentsAreHeard` speaks of pages within the window).
* A repository without a creation date is passed over whole, and its cursor moves
  (`process_repo_signals.py:97-101`).
* A failed publication leaves a Person claimed for the rest of the scan;
  `seen_commits` is filled before the publication (`process_single_commit.py:90`).
* The date in a JQL query is UTC, Jira reads it in the time zone of the user
  (`fetch_jira.py:68`).
* `process_commits` says that `gather` cancels the other coroutines after an
  exception; it does not, and the model lets them go on.

Persons and edges:

* A fold moves a person's edge together with its reverse, then the reverse on its
  own. The pattern of the second merge asks for `_display_in_graph: true` and does
  not find the hidden edge: two COMMENTED_BY remain, one of them visible
  (`person_merge.py:58`, `models.py:1816-1826`), where
  `docs/design/consumer-development-guide.md:102-104` speaks of a single edge. A
  COMMENTED_ON the canonical Person already had stays beside the moved one. The next
  snapshot of the item repairs both.
* An edge written to a stub after a fold has read it is deleted with the stub
  (`person_merge.py:25-77`); two tasks may fold each other's Person; Jira and
  Confluence may both create a Person of one Atlassian account
  (`person_cache.py:191-219`). Documents of folded Persons stay in Elasticsearch.
* "Only creates one mapping per person_id" (`person_cache.py:355`): a second account of
  one provider that resolves to a Person this cache has mapped never gets its
  IdentityMapping (`person_cache.py:370-371`). `AccountsStayMapped` says what is left.
* The fold of the stub under a signal's own id (`neo4j_sink.py:506`) repoints no
  cache, unlike a reroute (`person_cache.py:253`): what another account of the task
  has cached keeps naming the removed Person and creates it again, bare.
  `CachesForgetTheFolded` therefore speaks of reroutes.
* An item whose last comment was deleted keeps its edges: a snapshot without
  interactions returns early (`models.py:1864`).

Sessions, token, settings:

* `docs/design/authn-authz-design.md:318-324` says that a logout clears the cached
  bearer of the UI at once; `invalidate_token` has no caller, and a bearer is used
  until it expires (`BearersEndSoon`).
* A cached bearer does not touch `last_seen_at`; close to the idle limit a refresh
  token may expire on its way to Keycloak although another exchange has renewed it,
  and the refusal revokes the row (`service.py:320-326`).
* The guard drops the cookie on any 401, also when the exchange failed because
  Keycloak was down and the row is active (`session_guard.py:73-97`).
* A reader between the two writes of `invalidate_service_token` sees a backoff that
  is none; after a 401 a real backoff is discarded as well.
* The time a token takes to arrive comes off its refresh margin
  (`service_token.py:99`).
* A setting committed between the load of a process and the binding of its queue is
  missed; the queue name is constant and exclusive, so that the listener of a second
  replica fails (`settings_events.py:132-138`).
* The conflict check and the write are not one transaction
  (`docs/design/runtime-settings-design.md:389-391`).

## 7. Not modelled

The Connectors API keeps configuration rows: each request is one transaction by
primary key, and its page repaints what it reads; the status it shows is that of
commands, which are modelled. The graph, search and activity APIs only read. The
query catalog is a cache of files with one writer. The chat and the AI agent call
language models whose answers nothing constrains. The collaboration analytics
compute scores in Cypher and real-valued geometry. The other pages of the UI render
answers. Deployment enters as restart policies and container boundaries. In the
modelled components: validation and formatting of values, PKCE and signatures, the
mapping of fields to node properties, sprints, teams and files of a scan, the loop
over several repositories or accounts (each has a cursor of its own).
RabbitMQ, Postgres, Neo4j and Elasticsearch appear
only by what the code relies on: FIFO queues with redelivery, transactions of
single statements, MERGE by key, restored connections.

# Hermes Sentinel: a TLA+ verification project

Hermes Sentinel watches a few hosts. Each host runs a reporter (a oneshot shell
script on a timer) that posts a heartbeat to a **central** process; the central
process stores heartbeats in SQLite, evaluates every host on a schedule and
sends DOWN and RECOVERED messages to a Telegram chat. A second, independent
program, the **dead-man**, runs as a oneshot process every 60 seconds on another
machine, probes the central process and reports its outages to the same kind of
chat.

## Inventory

| part | state it keeps | operations | what is hard about it |
|---|---|---|---|
| dead-man core (`deadman.py`) | an immutable status: state, streaks, pending intents, next id, the current outage | advance by an outcome, acknowledge an id, encode, decode | statuses reached by long sequences of cycles; ids and intents that must stay in step |
| dead-man store (`deadman_store.py`) | one state file | load, save (temporary, fsync, replace) | crashes between the calls, power losses, size limit, damaged files |
| dead-man runtime and process (`deadman_runtime.py`, `deadman_process.py`) | the status in memory for one cycle | one cycle: load, probe, advance, save, send, acknowledge, save | order of persisting and delivering; every call may fail |
| prober, senders (`deadman_probe.py`, `deadman_telegram.py`, `telegram.py`) | none | one HTTPS exchange each | an answer that is late, lost, unreadable or redirected; a close that fails |
| health rules (`health.py`, `state_resolver.py`) | none (pure) | freshness, thresholds, debounce | thresholds and streaks, clock evidence that contradicts itself |
| health engine (`health_engine.py`) | one resolution per host, in memory | evaluate_host | committed before the notification, lost on restart |
| incidents, notifications, monitoring (`incidents.py`, `notifications.py`, `monitoring.py`) | none | one pass over the hosts, one delivery attempt per incident | an exception aborts the pass and the process |
| ingestion, repository (`ingestion.py`, `persistence/repository.py`) | heartbeat rows | insert, latest | which row is latest; a crash after the commit; a row that cannot be restored |
| schema (`persistence/schema.py`) | the schema objects and version of the database file | validate, bootstrap | a failure, a crash or another process between its statements |
| wire, HTTP adapter and server (`wire.py`, `http_api.py`, `http_server.py`) | none | one request | refusal order, failures that must not be blamed on the client |
| runtime loop (`runtime.py`) | next deadline | run_forever | one thread for everything, a float clock, the stop flag |
| process, application (`process.py`, `application.py`) | signal handlers, a connection, a listener | start, run, close | signals at any point, failures during cleanup |
| settings (`settings.py`, `deadman_config.py`) | none | validate the environment | values valid alone and unusable together; numeric edges |
| reporter (`scripts/sentinel-report.sh`) | none | collect and post | none that outlives one run |

The dead-man and the central process share nothing but the network. Inside the
central process everything runs in one thread: the loop of `runtime.py` calls
the monitoring cycle, then waits for at most one request, which goes through
server, adapter, wire boundary and ingestion into the repository that the next
monitoring cycle reads. The only concurrency is with signals, clients, the
clock, kills and the two machines' disks.

What makes each part correct is stated as properties below; `PROJECT.json`
lists, under `hazards`, the places where the code could go wrong in ways tests
hardly reach, with the properties that would notice.

## Modules

| module | models | kind |
|---|---|---|
| `DeadManStatus` | `deadman.py` without the codec | pure operators |
| `DeadManCodec` | the persisted document of `deadman.py` | pure operators |
| `DeadManCycle` | store, runtime, process of the dead-man | state machine over `DeadManStatus` |
| `DeadManDisk` | `save` on a disk that loses power | composes `DeadManCycle` and `DeadManCodec` |
| `AlertOutbox` | what the dead-man promises | abstract specification |
| `HttpsExchange` | one `send()` or `probe()` | state machine |
| `DeliveryAttempt` | what such a call promises | abstract specification |
| `HostHealth` | `health.py`, `state_resolver.py`, the transition and incident rules | pure operators |
| `CentralMonitor` | engine, monitoring, notification, ingestion, restart | state machine over `HostHealth` |
| `Telemetry` | payload decoding, `domain.py`, the columns of a row | pure operators |
| `HeartbeatApi` | one request through server, adapter, wire, ingestion and repository | state machine over `Telemetry` |
| `Runtime` | `run_forever` and its clock | state machine |
| `Lifecycle` | `process.py`, `application.py` | state machine |
| `Schema` | `persistence/schema.py` | state and actions |
| `Settings` | `settings.py` and the constructors it calls | pure operators |
| `Startup` | `connect()`, and the above three together | composes `Lifecycle`, `Schema`, `Settings` |
| `DeadManStatusProofs`, `DeadManCycleProofs`, `DeadManDiskProofs` | what is proved of the dead-man | theorems |
| `HttpsExchangeProofs`, `CentralMonitorProofs`, `HeartbeatApiProofs`, `RuntimeProofs`, `StartupProofs` | what is proved of the others | theorems |
| `MC*` | | constants for TLC |

### DeadManStatus

`INITIAL_DEADMAN_STATUS`, `advance_deadman_status` and
`acknowledge_deadman_notification` are the functions of the same names;
`ValidStatus` is the constructor's check (`__post_init__`), one conjunct per
group of checks. The functions do not apply `ValidStatus` to their results: the
code would raise there, and that it never does is a theorem. A datetime is a
natural number and `NoTime` is `None`.

### DeadManCycle

`file` is the state file, `pc` the point one process has reached (`idle` when
none runs), `status` and `outcome` its locals. Each action is one call of
`run_deadman_cycle` that may fail: `Load`/`LoadFails`,
`ProbeAndAdvance`/`AdvanceRaises`, `WriteTemporary`/`WriteFails`,
`ReplaceAdvanced`, `ReplaceAcknowledged`/`ReplaceFails`, `Send`/`SendFails`;
`save` is cut in two at `os.replace`, since a crash on either side leaves a
different file. `Crash` kills the process anywhere. `SendFails` covers both a
message that never arrived and one whose confirmation was lost. `ledger`,
`run`, `chat`, `told` are history variables that no guard reads: every durable
intent, the run of persisted outcomes, and what the operator got.

A saved status is taken to decode to itself and `os.replace` as durable; both
are the subject of the next two modules.

### DeadManCodec and DeadManDisk

`encode_deadman_status` and `decode_deadman_status` map a status to the JSON
document and back, field by field, over JSON values of the form
`<<kind, content>>`: a bool is no int, an instant may be written with another
offset or without one. A written time that its offset carries out of the
calendar has no form in UTC (`UtcInstants`): `_decode_datetime` accepts it and
`encode_datetime` raises (`Overflow`), so the encoder is partial and `Encodable`
says of which statuses it is defined. `EditedDocument` are the documents one edit
away from a written one: a key dropped or added, a value replaced by any of
`Junk`, times of that kind among them.

`DeadManDisk` runs the cycle of `DeadManCycle` on a disk. `survivors` is what a
power loss may bring back: every snapshot that was the target since the
directory last reached the disk. `Replace` adds one (a torn one, if the bytes
were not synced before), `SyncDirectory` or the kernel's `Writeback` leaves only
the current one, `SyncSwallowed` is the best-effort sync that fails. `syncs` says
whether the platform syncs directories. `PowerLoss` picks a survivor, and with
it the history that file stands for; what the operator has received stays
received.

### AlertOutbox

A log, a count of acknowledged alerts, and the chat: `Publish`, `Deliver` (the
oldest unacknowledged alert, possibly again), `Acknowledge`. `DeadManCycle`
implements it with `acked` mapped to the number of durable intents that are no
longer pending in the file.

### HttpsExchange and DeliveryAttempt

One call of a sender or of the prober: open (the request may be lost, arrive
late, be answered, redirected, or wait for ever), read a bounded sample (which may
stop early, trickle or raise), judge it, close the response, raise or return.
`effects` counts what the peer did. `idle` is the time since bytes last arrived,
because the timeout of the opener is one of each socket operation. `sample` is
what the read gave and not what the peer meant to send: a body that breaks off
before its first byte reads as an empty one (`CutShort`), and the properties are
stated on `reply`. `OpenDefect` is what opening raises outside the caught
classes. The two
senders are the same code twice; `kind` tells sender and prober apart.

`DeliveryAttempt` is the promise `DeadManCycle` and `CentralMonitor` take from
such a call in `Send` and `SendFails`: at most one effect; success only after it;
a failure says nothing, and the effect may still come.

### HostHealth and CentralMonitor

`stored` is the row `latest_heartbeat` returns for each host, `resolutions` the
engine's memory, `turn` the host the cycle is at, `incident` the message being
sent. `EvaluateHost` is `evaluate_host` as a whole, up to and including the
commit; `Send`/`SendFails` is the delivery; `Serve` one `handle_request`. Every
exception goes to `dead`, from where systemd boots a process that remembers
nothing. The clock may read anything at any time. Whether a cycle is due is a
free choice here and is the subject of `Runtime`.

`evidence` and `chat` are history: the runs of equal observations in this
process's life and the last message per host, with a mark saying whether the
running process sent it.

### HeartbeatApi

A request is a record of what the checks tell apart; the handler goes through
`ResolveBody` (framing, declared length, body read), `Adapt` (`http_api.handle`
up to the wire call), `Authenticate` (`wire.handle` up to ingestion), `Ingest`,
`InsertFails` or `SerializeRaises`, and `Respond` or `ResponseLost`. Each pure
stage is a list of checks of which the first that fails decides
(`FirstRefusal`), in the order of the code. The declared length is its digits and
is compared as `_declared_length_status` compares it. `sent` is how many bytes
follow the headers and `json` how many of them are a JSON object the strict
decoder takes (0: none). The handler reads as many bytes as were declared, or all
that were sent if they are fewer (`BytesRead`): a short body is read in part and
then refused, and what follows a body of the declared length is never read.
`Telemetry` has the payload
as a JSON value, its strict decoding, the ranges the domain's constructors
accept, a datetime as wall clock and offset, the text `serialize_timestamp`
makes of it (which keeps what its order depends on: whether there is a fraction,
and the characters that begin the fraction and the offset), and the twenty
columns in which a record is written and from which `row_to_record` restores it,
by position. Floats are integers. `classify_deadman_probe` is the dead-man's
reading of the answer, which ties the two programs together.
`insert_heartbeat` of `CentralMonitor` keeps only the row `latest_heartbeat`
would return; `LatestIsNewest` is why that is enough.

### Runtime

One action per statement of the loop, with the local variables `now` and
`next_due`, over a clock that ticks between any two statements. Clock readings
are floats of `Precision` bits, rounded to nearest even, so that an interval can
disappear in a sum, which is what `_deadline_after` guards against. A client
that was accepted stays until `ClientDone`.

### Lifecycle

One action per step of `run_process` and `build_application`, each of which may
raise. `handlers` says whose handler a signal has, `installed` is the code's
list, `escaping` the exception that propagates, `first` (history) the first one.
`build_application` swallows what its own rollback raises, but `connect()`, its
first step, cleans up unguarded: a failure of that kind is `cleanup`, one of
`connect()` itself `connect`, and a later one `build`.
A signal whose handler is ours sets `stop`; the previous SIGTERM handler kills,
the previous SIGINT handler raises `KeyboardInterrupt` wherever the code is.
`Crash` ends the process anywhere and `Restart` is systemd's.

### Schema, Settings and Startup

`db` is the committed database: its version, what the table's name and the
index's name stand for. `draft` is the transaction, `seen` what the validation
saw, `step` the statement to come. Nothing is locked between the validation and
the first write, so `OtherBootstraps` may come in between. A validation is
several reads in the code and one step here. Where they straddle the commit of
another process, whose bootstrap is the same one, the version is still read as 0,
since it is read first, and some of the objects are seen: the statements that
follow all say IF NOT EXISTS and change nothing, as after `OtherBootstraps`.
`Settings` is
`load_central_settings` as a function from the environment to the settings or to
`Refused`; variables and JSON values are kinds with a content, as the checks
tell them apart.

`Startup` is the composition. Where `Lifecycle` lets loading the settings,
connecting and wiring succeed or fail freely, the environment and the database
decide here, statement by statement, and a crash takes the transaction with it.
What has been loaded is kept as `consistent` or `inconsistent`, the judgement of
`Consistent`: hosts and credentials belong together, one to one, and every
quantity is positive. It is no promise that each value can be used: the loader
sets no upper limit to a number and does not look into a host name, so a timeout
of 1e300 or a `tcp_host` that has no IDNA form is accepted and raises in use.

## Runs

| run | module, configuration | checks | shows |
|---|---|---|---|
| `deadman_cycle` | `MCDeadManCycle`, `MCDeadManCycle.cfg` | `StatusAlwaysValid`, `MemoryTracksFile`, `NoIntentLost`, `RecoveredFollowsDown`, `DebounceMatchesHistory`, `ChronologyPreserved`, `FlipsOnlyWhenConfirmed`, `ImplementsOutbox` | Safety of the dead-man cycle with the real thresholds (3 and 2), a clock that steps back, kills and I/O failures between any two calls: no alert is lost, invented, reordered or antedated, and the status never becomes one its own constructor refuses. |
| `deadman_live` | `MCDeadManCycle`, `MCDeadManLive.cfg` | `EveryIntentDelivered`, `OutageReported` | As long as the pending intents fit in the state file, every durable intent is delivered and acknowledged, and every lasting outage, the second as well as the first, ends with its own DOWN message received and acknowledged. |
| `deadman_backlog` (violation) | `MCDeadManCycle`, `MCDeadManBacklog.cfg` | `EveryIntentDelivered` | Once the backlog fills the state file, the next confirmed outage makes every later cycle fail before it delivers anything. |
| `deadman_disk` | `MCDeadManDisk`, `MCDeadManDisk.cfg` | `SurvivorsReadable`, `StrictDecoding`, `SyncedLosesNothing`, `HistoryConsistent` | The dead-man cycle on a disk that loses power between any two steps, with and without directory syncs, and a state file edited in one place: what comes back is always a snapshot load() accepts; with directory syncs no alert is lost; without them the machine stays consistent with the history it remembers; an edited file is refused, or is a canonical snapshot itself, or holds a time that cannot be written again. |
| `central_monitor` | `MCCentralMonitor`, `MCCentralMonitor.cfg` | `MemoryMatchesEvidence`, `OperatorInSync`, `FlipsOnlyWhenConfirmed`, `OutageReported` | The central monitor over two hosts with different thresholds, a clock that steps back, crashes and restarts: the resolver memory is the debounce of this process's evidence, the operator is in step with it, and a host that stays lost is announced, again after every restart, and stays announced once the process stays alive, whatever heartbeats other hosts send. |
| `heartbeat_api` | `MCHeartbeatApi`, `MCHeartbeatApi.cfg` | `AnswerMatchesStore`, `RowsAuthenticated`, `RefusalsAlike`, `LengthJudgedByValue`, `ProbeSignature`, `LatestIsNewest`, `RowsRestorable` | Every request that differs from a good heartbeat in at most two ways or in one thing in its payload, with SQLite failures, lost responses, kills and a clock that steps back: 204 means stored, rows are filed under the node whose token was presented, the dead-man's probe sees its signature, the text order of timestamps is the order of time, and every stored row can be restored to the record that was accepted. |
| `heartbeat_utc` (violation) | `MCHeartbeatApi`, `MCHeartbeatUtc.cfg` | `InternalErrorIsOurs` | A payload whose reported_at has no UTC form passes every check on client input and then raises OverflowError. |
| `runtime` | `MCRuntime`, `MCRuntime.cfg` | `AtMostOneLateRequest`, `StopWithinOneIteration`, `NeverTwiceAtOneInstant`, `CycleRunsAgain`, `StopHonoured` | The loop's scheduling arithmetic and order over a rounding clock: traffic does not starve monitoring, a stop costs at most one iteration, an interval below the clock's resolution does not run two cycles at one instant; if clients finish, every deadline leads to a cycle and a stop request to a return. |
| `runtime_stalled` (violation) | `MCRuntime`, `MCRuntimeStalled.cfg` | `StopHonoured` | A client that was accepted and sends nothing holds the loop for ever: the stop request is never looked at. |
| `lifecycle` | `MCStartup`, `MCStartup.cfg` | `ResourcesReleased`, `HandlersGivenBack`, `FirstFailureSeen`, `SettingsConsistent`, `AllOrNothing`, `StopEndsProcess` | Every way the central process can start, fail, crash, restart and end, over every database file it may find (no foreign index of its name) and every environment one edit away from a good one: resources are released, handlers given back, a failure to build escapes as itself and a failed start is never silent, a stop during start-up is not lost; the database goes from unversioned to complete in one step or not at all, also with another process at it; no inventory and credentials that do not belong together, and no quantity that is not positive, get through. |
| `schema_index` (violation) | `MCStartup`, `MCSchemaIndex.cfg` | `NoPartialAcceptance` | An index of the canonical name on another table passes the bootstrap, which stamps the version over a schema that every validation from then on refuses. |
| `exchange` | `HttpsExchange`, `MCHttpsExchange.cfg` | `ClosedOnce`, `HealthyIsSignature`, `PrimaryFailureWins`, `ImplementsAttempt` | One send() or probe() against every response, with failures, silence, trickling bytes and early closes at every point: one request, one close, the first failure wins, HEALTHY is exactly the signature over a body that is empty or broke off before its first byte, 'delivered' only after the peer acted, and the call ends wherever the peer falls silent (a peer that trickles bytes does so at most MaxFeeds times). |

Every state machine also has a `TypeOK`, which says what values its variables take
and on which proofs about it rest.

Deadlock is checked in all runs but those of `Runtime` and `HttpsExchange`, which
set `CHECK_DEADLOCK FALSE`: the loop returns, the call ends, and the clock of
`Runtime` is bounded.

### Bounds

- Dead-man: the real thresholds (3 failures, 2 successes) in the safety run.
  Three instants (`0..2`) are enough for a clock that steps back and one that
  stands still. `MaxId` 4 admits DOWN, RECOVERED, DOWN, RECOVERED and two
  outages whose DOWN messages are both undelivered. `MaxPending` 3 lets the
  size limit refuse a save within the run. The live run uses 2 failures, two
  instants and three ids, which all fit in the file.
- Central: two hosts, because order in the pass matters; one needs two
  confirmations, the other one, which is the case in which a first evaluation
  can resolve to DOWN. Three instants with `stale_after_seconds` 1 make a
  heartbeat fresh, stale or in the future.
- Runtime: three-bit floats up to 20: 0 to 8 are exact, then steps of 2 and 4,
  so that the interval of 2 is exact, rounded and lost in turn. The poll
  interval is shorter than the monitoring interval. Counters of late requests
  stop at 2, since the properties say 1.
- Lifecycle and start-up have no bounds on crashes and restarts. The databases
  are all those an installation can find: any version from -1 to 2, any meaning
  of the two names, an index only with its table. The passing run leaves out the
  index of our name on another table, which `schema_index` is about. The
  environments are all those one edit away from a good one with two hosts (about
  480 of them; every variable and every field, absent, unknown or with each kind
  of value), and the inventories that are wrong only as a whole.
- Exchange: a timeout of two ticks and two arrivals of bytes that complete
  nothing, so that a trickle outlasts the timeout of a single operation.
- Disk: two snapshots held back at a time and two power losses, so that a loss
  meets the file before a save, after it, and a file that is itself what an
  earlier loss left; two confirmations, two instants, three ids, two pending
  intents, which admit DOWN and RECOVERED pending together and a second outage.
  The instants 1 and 2 have a form in UTC; edits also write 0 and 3, before and
  after them, which have none and which only an offset can reach.
- Requests: every request that differs from a good one in at most two parts, so
  that each pair of checks is seen in both orders; a limit of 12 bytes, which
  has lengths below, at and above it with and without leading zeroes; bodies
  that are missing, shorter and longer than declared, and whose JSON object ends
  where they do, before, or nowhere; two rows;
  three instants, two of which share a second. Payloads: four good ones (another
  zone, a full resource, an unused one, an absent one in each) and about thirty
  with one thing wrong, among them times with no UTC form at either end.

### Fairness

- `DeadManCycle`: the timer starts a process again and again and each call is
  bounded by a timeout or by `TimeoutStartSec` (weak fairness of `Start` and of
  the process). That no call fails every time it is tried (strong fairness of
  the successful outcome) is an assumption on the disk, the clock and Telegram,
  without which no program could deliver anything. Probe outcomes are free.
- `CentralMonitor`: `Restart=on-failure` boots a dead process; a live one goes
  on; a cycle becomes due again and again, which is `CycleRunsAgain` of
  `Runtime`. Crashes are not excluded by fairness but by the hypothesis of
  `OutageReported`.
- `Runtime`: the thread runs and time passes (`StalledSpec`). That clients
  finish (`FairSpec`) is an assumption on clients that the code does not
  enforce, and `runtime_stalled` shows what happens without it.
- `Lifecycle`: every step ends; `run_forever` does once it is asked to stop
  (`StopHonoured` of `Runtime`), and nothing makes it fail otherwise. `Startup`
  has the same fairness of its own finer steps. A crash is never required and a restart is not promised:
  `StopEndsProcess` does not need one.
- `HttpsExchange`: time passes, an operation that is idle for the timeout raises,
  and closing returns. The peer need not do anything; that it trickles bytes
  without end is excluded by `MaxFeeds`, for which the limits on what is read of
  the head and of the body stand.

## Disagreements between code and comments

Each is a run that TLC must find violated; the property states what the quoted
line says.

- `schema_index` (`NoPartialAcceptance`, persistence/schema.py:191): The validation looks for the index only among the indexes of the heartbeat table. On an unversioned database in which an index of the canonical name belongs to another table it finds none; CREATE INDEX IF NOT EXISTS then leaves the foreign index alone and raises nothing, and the transaction commits the table and user_version = 1 without the canonical index. The validation that HeartbeatRepository runs over the same connection refuses the database at once ("schema objects are missing"), and so does every later start. persistence/schema.py:31-32 says "validation happens before any write, so a failed bootstrap never leaves a partially accepted schema or version behind".
- `heartbeat_utc` (`InternalErrorIsOurs`, persistence/repository.py:88): _require_reported_at accepts any aware datetime, for example year 1 with a positive offset; serialize_timestamp then raises OverflowError in astimezone(UTC), which passes through HeartbeatHttpAdapter.handle and is answered 500. http_api.py:423 says of handle "Serve one heartbeat request; never raises on client input".
- `deadman_backlog` (`EveryIntentDelivered`, deadman_store.py:220): save() refuses a document over MAX_DEADMAN_STATE_BYTES, and run_deadman_cycle saves the advanced status before it delivers anything. Once the backlog fills the file, the cycle that confirms the next outage fails at that save, and so does every later cycle of the same outage (the streak in the file still stands one short of confirmation, so each failed probe tries to confirm again): as long as the target stays down nothing is delivered, although Telegram works and intents are pending. deadman_store.py:80-81 says "a full mebibyte bounds even a pathological unacknowledged-intent backlog" and deadman_runtime.py:41-43 that "the timer naturally retries the next cycle". The model takes a file that holds one intent; the real limit holds several thousand.
- `runtime_stalled` (`StopHonoured`, runtime.py:287): handle_request serves the accepted client in the loop's own thread, and neither the handler nor its socket has a timeout (http_server.py:479 reads the declared body length), so an accepted client that sends nothing keeps the loop from its next stop and schedule check. runtime.py:64-65 says "Heartbeat waiting can never outrun the schedule, and stop checks stay bounded by the poll interval".

Others, seen while modelling and stated here without a run of their own. In the
first three the property of the passing run names the exception, and a theorem
says that there is no other.

- `application.py:59-62` says "The ORIGINAL construction failure always remains
  the primary escaping failure — a secondary cleanup failure during rollback
  never replaces it". `build_application` swallows the failures of its own
  rollback, but `connect()`, its first step, does not: when the schema is
  refused, `connection.close()` runs in the except clause
  (`persistence/repository.py:198`), and if it raises, or `connection.rollback()`
  does (`persistence/schema.py:195`), that exception escapes and the construction
  failure is only its `__context__` (`FirstFailureSeen`).
- `deadman.py:1359-1361` says that `decode_deadman_status` "proves the exact
  schema, types, enums, timestamps, counters, ids, queue ordering/grammar and
  internal future-behavior safety". It accepts every aware datetime, for example
  `0001-01-01T00:00:00+01:00`, whose UTC date is before year 1, and from then on
  every save of a status that keeps the date raises `OverflowError`
  (`deadman.py:1073`) before anything is written: the cycle ends with exit code 1
  and delivers nothing. Only an edited file can hold such a date
  (`StrictDecoding`).
- `deadman.py:26-29` says "Anything else — [...] a non-empty body — is a probe
  failure". `response.read(1)` (`deadman_probe.py:263`) returns `b""` both for an
  empty body and for a body of announced length whose connection closes before
  the first byte, and `http.client` raises nothing (for a chunked body it does):
  a 405 that allows POST, announces a body and breaks off is HEALTHY
  (`HealthyIsSignature`).
- `deadman_store.py:38-39` says "no debris accumulates", but a kill between
  `mkstemp` and `os.replace`, or a quiet removal that fails, leaves a temporary
  file that nothing removes.
- `process.py:142-144` says that a failure leaves `installed` "holding exactly
  the signals that were really changed", but a `KeyboardInterrupt` between
  `signal.signal` and `installed.append` leaves a changed signal out.
- `deadman_probe.py:143` says "``timeout_seconds`` bounds the single request attempt"; it is
  one of each socket operation, so a peer that feeds a byte now and then holds
  the call for longer. Under systemd the dead-man is killed after
  `TimeoutStartSec=30s`, which is `Crash` of `DeadManCycle`.
- A redirect whose Location urllib cannot parse raises `ValueError`, and a body
  nested past the recursion limit raises `RecursionError`, past the clauses that
  turn failures into the sender's own error; so does, before anything is sent, a
  probe path with a character outside ASCII, which the prober's constructor
  accepts (`UnicodeEncodeError`). `HttpsExchange` calls each of them a defect
  (the process ends or the cycle fails, as for any other failure).
- Timeouts and intervals such as 1e300 are finite and positive, so the settings
  accept them, and raise `OverflowError` when they are used. A `tcp_host` with a
  label that the IDNA codec refuses is accepted too and raises `UnicodeError`,
  past the `OSError` that `reachability.py:95` catches.
- Where directories are not synced, a power loss may repeat a message the
  operator has, or forget an outage that was announced, so that no RECOVERED
  follows it. `deadman_disk` shows that nothing worse happens, and with directory
  syncs neither.

## Proofs

Eight modules hold theorems; together they state every invariant and every
action property of the passing runs, the type invariant of every module with a
specification, and the safety of every refinement. All are for every value of the constants that the modules' named assumptions admit:
any thresholds, hosts, requests, clocks, intervals, float precisions and bounds.

| module | theorems | state |
|---|---|---|
| `DeadManStatusProofs` | `AdvanceGood`, `AcknowledgeGood` | the constructor accepts what an advance or an acknowledgement makes of a status it accepts |
| `DeadManCycleProofs` | `TypeCorrect`, `NeverLockedOut`, `AtLeastOnce`, `PersistBeforeDeliver` | `TypeOK`, `StatusAlwaysValid`, `NoIntentLost`, `MemoryTracksFile` |
| | `CycleImplementsOutbox` | `Spec => Outbox!Spec` |
| | `DebounceIsHistory`, `NoRecoveryUnannounced`, `ClockNeverReorders`, `NoUnconfirmedFlip` | `DebounceMatchesHistory`, `RecoveredFollowsDown`, `ChronologyPreserved`, `FlipsOnlyWhenConfirmed` |
| `DeadManDiskProofs` | `CodecRoundTrips` | decoding an encoded status gives that status, if its times have a form in UTC |
| | `CanonicalOrRefused`, `EditsAreRefused` | a document of any JSON values that is accepted is, offsets aside, what the encoder writes of the status it is decoded to, or that status has a time the encoder raises on; so is every edited one |
| | `SavesAreReadable`, `NothingCoerced`, `SyncsLoseNothing`, `PowerLossConsistent` | `SurvivorsReadable`, `StrictDecoding`, `SyncedLosesNothing`, `HistoryConsistent` |
| | `DiskImplementsCycle`, `DiskImplementsOutbox` | while the power holds, `DiskSpec` implements `Spec` of `DeadManCycle`, and so the outbox (`ImplementsOutbox`) |
| `HttpsExchangeProofs` | `ExchangeTypeCorrect`, `ResponseClosedOnce`, `OnlySignatureIsHealthy`, `FirstFailureWins` | `TypeOK`, `ClosedOnce`, `HealthyIsSignature`, `PrimaryFailureWins` |
| | `ExchangeImplementsAttempt` | `Spec => Attempt!Spec`, the safety half of `ImplementsAttempt` |
| `CentralMonitorProofs` | `MonitorTypeCorrect`, `MemoryIsEvidence`, `OperatorKnows`, `HostsFlipWhenConfirmed` | `TypeOK`, `MemoryMatchesEvidence`, `OperatorInSync`, `FlipsOnlyWhenConfirmed` |
| `HeartbeatApiProofs` | `StoredIffAnswered`, `NoHostSpeaksForAnother`, `RowsReadBack`, `RefusalsTellNothing`, `ProbeSeesLife`, `LatestByTextIsNewest` | `AnswerMatchesStore`, `RowsAuthenticated`, `RowsRestorable`, `RefusalsAlike`, `ProbeSignature`, `LatestIsNewest` |
| | `LengthByValue` | 413 is given exactly to digits worth more than the limit, however many there are |
| | `ApiTypeCorrect`, `LengthIsItsValue` | `TypeOK`, `LengthJudgedByValue` |
| | `OnlyTimestampsRaise` | `InternalErrorIsOurs`, of clients whose timestamps have a form in UTC |
| `RuntimeProofs` | `DeadlineAfter` | a deadline is a float after the completion: the sum rounded to nearest, or the next float |
| | `LoopTypeCorrect`, `MonitoringNotStarved`, `StopEndsIteration`, `CyclesApart` | `TypeOK`, `AtMostOneLateRequest`, `StopWithinOneIteration`, `NeverTwiceAtOneInstant` |
| `StartupProofs` | `StartupImplementsLifecycle` | `StartupSpec => Spec` of `Lifecycle` |
| | `LifeTypeCorrect`, `NothingLeftOpen`, `SignalsRestored`, `StartFailureSeen` | `TypeOK`, `ResourcesReleased`, `HandlersGivenBack`, `FirstFailureSeen` |
| | `BootstrapAtomic`, `OnlyForeignIndexStrands` | `AllOrNothing`, `NoPartialAcceptance`, of databases in which the index name is not another table's |
| | `LoaderRefusesInconsistent`, `StartsOnlyConsistent` | what the loader accepts is consistent; `SettingsConsistent` |

### The arguments

**Dead-man cycle.** None of the invariants is inductive alone: that a save loses
nothing needs to know that what is in memory is the file plus one advance or
minus one acknowledgement (`MemoryTracksFile`), which needs the file to be valid
so that the oldest pending id is the first one not acknowledged, which needs
ledger and file to agree. `FileInv` is that part, with what the operator has
received bounded from below only (whatever is no longer pending was received);
it is inductive. `Inv` adds `NoIntentLost`, which counts exactly. The refinement
follows from it step by step. `StoryInv` is a second strengthening, relative to
`FileInv`: it remembers that the status being stored is the persisted one after
one advance by this cycle's outcome (`OneAdvance`), that no alert is dated after
the file's last transition (`LedgerDated`), and that during an outage the last
alert is its DOWN (`OutageLast`).

**Disk.** A power loss replaces the file by any survivor, so `DiskInv` says of
each survivor what `FileInv` and `StoryInv` say of the file (`Sound`). Both are
monotone in the chat, which is why they outlive a loss. `NoIntentLost` is not:
it holds of every survivor only where directories are synced, because then
nothing is sent while there is more than one survivor (`NameBeforeSend`). That
no survivor is torn is `BytesBeforeName`. That a survivor is readable is
`CodecRoundTrips`, field by field and notification by notification; its
hypothesis is `DatedInv`, that every time in memory, in the file and in a
survivor has a form in UTC, because the clock of the process reads UTC and the
machine only loads what it has saved (an edited document is judged by
`StrictDecoding`, not loaded). Strictness
is the converse, and needs no history: `CanonicalOrRefused` takes a document of
arbitrary JSON values (`JsonValues`: a set that holds what its members are made
of) and reads off the decoder's checks, from the notification outwards, that
every field is the one the encoder would have written. That it applies to edited
documents is shown in layers: the plain values and those of `Junk`, the objects
and arrays made of them, and what edits make of those, are again JSON values.

**Disk and cycle.** `DiskSpec` is no refinement of the cycle as it stands, since a
power loss takes back what was saved. While there is none, each of its steps is
a step of the cycle or invisible to it; the only fact needed is that an idle
process holds nothing in memory.

**Exchange.** `ExchangeInv` follows the one path of the call: nothing is known
of the response before its head, it is owned until its close, and its judgement
once the sample is read carries the peer's confirmation from the step at which
it was given to the step at which the caller hears of it. `SampleOfReply` ties
what was read to the reply: an empty sample is an empty body or one that broke
off, which carries `HealthyIsSignature` from the sample to the reply.

**Central monitor.** `MemoryMatchesEvidence` is inductive once a turn names a
host; `OperatorInSync` needs in addition that a message of this process is about
a host it has evaluated.

**Requests.** `ApiInv`: every row is the row of a request that passed every
check, and at each point of the handler the request has passed the stages before
it. What holds of rows then follows from the checks: the lemmas on
`FirstRefusal` say what a stage lets through and with which status it refuses,
those on the columns follow a record into its row and back, and the one on
timestamps shows that the text order is the order of instants.

The least element of a set of naturals takes the place of induction, and gives
induction for sets: `AllNaturals` says that a set with 0 and every successor
holds every natural. With it the value of digits, a recursive function over
their prefixes, is shown to be below the next power of ten, to grow with every
significant digit and to be decided by the first digit that differs, which is
why comparing lengths and then texts compares values. `HandlerInv` adds to
`ApiInv` what was read of the body and what a 500 stands for.

**Loop.** `LoopInv` says what the loop can still begin from each point after a
late request or a stop, and that a deadline lies after the completion it was
computed from; `FloatsKept`, that what the loop keeps exists as a float, which
is inductive by itself. Both rest on the floats: a reading has exactly one
exponent (`UlpExponent`, `UlpOf`), the multiples of its distance up to the next
exponent are floats, that of the next exponent included (`OnGrid`), so the two
neighbours of a sum are and rounding gives one of them. Powers of two are
handled as cardinalities of power sets, and their products as power sets of
disjoint unions (`PowerSum`), which spares an induction.

**Start-up.** The life of a process is proved safe for `Lifecycle`, where each
step may end either way (`LifeInv`), and `Startup` is shown to implement
`Lifecycle`. `BootstrapInv` ties `seen`, `draft` and `db` together at each
statement: the database is still as it was seen, or another process has
completed it meanwhile. A database that was opened is complete and is not
changed again (`OpenedComplete`).

### Assumptions

The named `ASSUME`s of the modules, which TLC evaluates on every run: positive
thresholds and intervals, instants that are naturals, a `NoFile` that is no
status, natural bounds. `RequestsAssumption` types the fields of a request
(digits are digits, header values are sequences) and keeps `NoRequest` apart
from requests, `JunkAssumption` says that an edit puts JSON values in the place
of others, `EnvironmentsAssumption` that the content of a variable of kind
integer is an integer, and `ClockAssumption` that what the clock reads has a form
in UTC (`utc_now`, `deadman_runtime.py:107-115`). Seven theorems have a
hypothesis of their own. `CodecRoundTrips` and `EditsAreRefused` are about
statuses that can be written (`Encodable`), as every status of the machine can
(`DatedInv`).
`BootstrapAtomic` and `OnlyForeignIndexStrands` assume that no index of the
canonical name stands on another table; the run `schema_index` shows that
without it the bootstrap is not atomic in this sense. `OnlyTimestampsRaise`
assumes that the timestamps of decodable payloads have a form in UTC; the run
`heartbeat_utc` shows the 500 of one that has not. These hypotheses make the
findings exact: what the run shows is the only way to the violation.
`DiskImplementsCycle`, and with it `DiskImplementsOutbox`, assumes that no power
is lost.

### Only model-checked

- Liveness (`EveryIntentDelivered`, both `OutageReported`, `CycleRunsAgain`,
  `StopHonoured`, `StopEndsProcess`, and that an exchange ends, which is the
  liveness half of `ImplementsAttempt`): the prover has no rules for fairness.
- The four runs that expect a violation. For two of them, `heartbeat_utc` and
  `schema_index`, a theorem says what must be excluded for the property to hold;
  the other two are about liveness.

## Not modelled

- The texts of messages and requests, the grammars of numbers, JSON, header values
  and URLs: a value has the kind the code finds it to have.
- The resource percentages against their thresholds: one bit per heartbeat in
  `CentralMonitor`.
- `deadman_config.py`: seven variables checked with private copies of the
  parsers of `settings.py`. A refusal ends the process before it looks at the
  state file, as `LoadFails` does.
- The socket calls of the reachability probe: its two results only.
- The reporter script: one-shot, without state that outlives a run. Developer
  tools: no part of the running system.
- Durability below `fsync` and below SQLite's commit.

## Plan

Done: the dead-man core, its cycle, its outbox, its codec and its disk; the
exchange of senders and prober; the central monitor; the request pipeline,
payloads and rows; the loop; the lifecycle with settings and schema; and the
proofs of their safety listed above.

Left: no safety property of a passing run is without a theorem. What a next step
would add is outside the present models: `deadman_config.py`, whose parsers would extend
`Settings`, and the resource percentages behind the one bit of a heartbeat.

# Verification of AelioConvox

TLA+ models of AelioConvox, the runs that model-check them with TLC, and
theorems about them checked by TLAPS. The reference is the code under `src/`;
`PROJECT.json` maps every definition to the lines it stands for.

    tlc -workers 2 -config DatabaseFaults.cfg MCDatabase   # one run
    tlapm DatabaseProofs.tla                               # one module of proofs

## 1. The system

AelioConvox is a self-hosted conversational front end for an existing product.
The product's back end connects with an SDK over a WebSocket and registers
functions; end users write on a channel (SDK, WhatsApp, chat widget); the
server turns each message into a *turn*: it recalls context, asks a language
model for a plan, executes the plan by invoking registered functions, and
answers. Two databases sit below: SQLite (jobs, sessions, audit, ledger) and
Sunjet, an engine written in Rust in this repository (`Sunjet/Astrolobe`),
which holds conversations, context and embeddings.

| component | state | operations | what is hard | module |
|---|---|---|---|---|
| **Storage core** (`ll-query/database.rs`, `ll-engine`) | log, memtable, segments, manifest, row-id, LSN, txn and file counters | insert, update, delete, flush, compact, open, reads | a crash between any two steps; one step of several failing | `Database` |
| **Write-ahead log** (`ll-wal`) | file of framed records behind a header, next LSN | create, append, commit, truncate, replay, open_append | torn tails, failed writes and fsyncs | `WriteAheadLog` |
| **Segment format and reader** (`ll-format`, `file_source.rs`) | immutable files | write, read, version lookup | one type per column; vector dimensions | `Database` |
| **Catalog** (`ll-catalog`) | tables and columns, `catalog.bin` | create_table, save, load | memory ahead of the file after a failed save | – |
| **Query executor, indexes, cost model** (`exec.rs`, `ll-index`, `ll-text`, `ll-graph`, `ll-cost`) | none / per segment | ranked search over all sources | stale copies suppressed across sources | – |
| **Sunjet server** (`ll-server`) | a `RwLock` round one Database | HTTP handlers | writers exclude each other and readers | (`Database`) |
| **Sunjet daemon** (`sunjet-daemon`) | in-memory outbox | enqueue, deliver and retry, sweep, rollup, compact timer | jobs acknowledged before they are durable | – |
| **Job queue** (`job-queue`) | `job_queue` table: status, attempts, next run | enqueue, claim, complete, fail with backoff, requeue stale | completion by a worker that no longer owns the job | `Delivery` |
| **Workers** (`workers/*`) | timers | inbound turn, outbound delivery | reply enqueued before the job is completed; a send that times out after delivery | `Delivery` |
| **SDK bridge** (`sdk-bridge.ts`, `routes/sdk.ts`) | connections with heartbeats, pending invocations with timers | register, evict, heartbeat, invoke, send, result, close, shutdown | a result racing its time-out; a register handled after eviction | `SdkBridge` |
| **SDK clients** (`sdk/node`, `sdk/python`) | socket, handlers, reconnect timer | listen, connect, answer, reconnect, disconnect | two reconnect loops; results dropped while offline | `SdkBridge` |
| **Turn runtime** (`runtime/turn.ts`, `session-lock.ts`, `rate-limit.ts`, `response-cache.ts`) | lock table, sessions, pending confirmations, cache | processTurn | lock per channel identity, session per customer; state read before long awaits | `Turns` |
| **Intent stack, confirmations, summaries** (`intent/stack.ts`, `session/*`) | session metadata | push, refresh, conclude, expire; set, clear; summarise | read-modify-write of one JSON column | `Turns` |
| **Harness** (`harness/*`, `safety/policy.ts`) | executor state, ledger, suspended plan | plan, bind, resolve, execute in waves, suspend, resume, finish | a crash between a call and the record of it; a suspension cleared before its plan runs | `Harness` |
| **Proactive messages, daemon, customer lifecycle** (`runtime/proactive.ts`, `workers/daemon.ts`, `analyst/reflect.ts`, `lifecycle/index.ts`) | proactive log, reflections, customer metadata | opt in, send, reflect, follow up, set state, set progress | check, then act; overlapping cycles; lost updates | `Outreach` |
| **Chat widget and its route** (`chat/widget.tsx`, `routes/widget.ts`) | socket, timers, transcript; sockets initialised, session history | connect, init, send, reply, retry | handshake against close events; a history that replaces what is shown | `Widget` |
| **Identity** (`identity/*`, `routes/auth.ts`) | magic links, customers, addresses, rate limiter | ask, redeem | one-time consumption | `MagicLinks` |
| **Lighthouse, storage adapters, telemetry, LLM providers, channel parsers** | rows in either database, none | mirroring, mapping, HTTP | best effort; little state | – |

How they interact: the channel route claims a message id and enqueues an inbound
job; the inbound worker claims it and runs `processTurn` in the chain of its
channel identity; the turn reads and writes sessions (SQLite) and conversations
(Sunjet, over HTTP), runs the tool loop or the harness, which invoke functions
through the bridge to the SDK, and the worker enqueues the outbound job; the
outbound worker delivers it through the bridge or WhatsApp. The widget's route
runs turns directly. Sunjet's HTTP server takes a write lock for a mutation, a
flush or a compaction and holds it to the end, so inside the storage core
nothing interleaves but crashes.

Where one module leaves off, another takes up: the turn that is one step in
`Delivery` and two in `Widget` is `Turns`; the engine that calls, asks or fails
in `Turns` is `Harness`; a call that returns a value, null or an error there is
`SdkBridge`; the job that `Outreach` queues is delivered in `Delivery`; the log
that is a set of records in `Database` is `WriteAheadLog`. What each assumes of
the next is a property of that one: `Delivery` and `Turns` that turns end
(`TurnsEnd`, `TurnsSettle`), those that calls settle (`CallsSettle`), the widget
that the turns of a customer exclude each other (`OneAtATime`), the database
that its log comes back in order (`LogOrdered`, `CommitsReplayed`).

What makes each correct: a committed write survives everything and is never
applied over a newer one (storage); an acknowledged commit is replayed (log);
every queued message is answered or given up for a cause (queue and workers);
every invocation is settled once and truthfully (bridge); a call the user must
confirm is made only after a yes to that question, and once (harness, turn);
turns of one channel do not overlap (turn runtime); caps and deduplication hold
under concurrency (proactive); what the page shows was said, in order (widget);
a link signs in once (identity).

## 2. Modules

| module | models |
|---|---|
| `DurableStore` | what the storage engine promises: one map from row ids to rows, changed by one insert, update or delete at a time |
| `Database`, `MCDatabase` | the storage core in full: disk (log, segments, manifest), memory, the steps of every operation, crash and recovery |
| `WriteAheadLog` | the log file below `Database`: frames, torn tails, header, fsyncs |
| `Mailbox` | what the queue and its workers promise: a list of entries, each accepted, acted on, replied to and settled |
| `Delivery`, `MCDelivery` | message claiming, the job queue and both workers: from a user's message to the delivered reply |
| `SdkBridge` | the bridge, the `/sdk` route, a Node or Python client, and the sockets between them |
| `Turns`, `MCTurns` | the turns of a customer, on one channel or two: every awaited read and write of the session |
| `Harness`, `MCHarness` | planning, binding, waves, gates, suspension and resumption of one session |
| `Outreach` | proactive messages, the reflection daemon, the customer's metadata |
| `Widget` | the page, its WebSocket, the route that serves it |
| `MagicLinks` | asking for sign-in links and redeeming them |
| `DatabaseProofs`, `LogProofs`, `DeliveryProofs`, `SdkBridgeProofs`, `TurnsProofs`, `HarnessProofs`, `OutreachProofs` | theorems about the module they extend (`LogProofs`: `WriteAheadLog`) |
| `VisitorProofs` | theorems about `MagicLinks` and `Widget`, both of which it extends: `MagicLinks` calls its specification `LinkSpec` for that |

In every module a process that awaits is cut at the awaits: what JavaScript runs
between two of them is one action, and any other process may run in between.

### Database

*State.* `wal`, `walOk`, `walBase`, `synced` are `wal.log`: its records (a set,
LSNs order it), whether the 16-byte header is there, the header's base LSN, and
how far fsync has returned. `files` are the segment files, `manifest` is
`manifest.bin`. `mem`, `segs`, `nextRowId`, `segSeq`, `nextLsn`, `nextTxn` are
the fields of `Database`, `Engine` and `Wal`. `pc` is where the operation that
holds the server's lock stands; `req` and `old` are its locals. `committed`
and `faults` are history.

*Actions.* Mutations take two steps: `Insert`, `Update`, `Delete` append a data
record and its Commit record; `Sync` is the fsync, the memtable and the answer
(`SyncFails` its error). A flush is `Flush` (the segment), `WriteManifest`,
`Truncate`; a compaction is `Compact`, the same two, `Unlink`. `CompactFails`,
`ManifestFails` and `TruncateFails` are the error returns, each leaving behind
exactly what the code leaves behind. `Crash` may come before every step and
keeps any prefix of the log that contains what was fsynced; in the truncation
it also finds the file empty, with or without its header. `Open` is
`Database::open`, with its two ways to fail as guards.

*Abstractions.* A row is its table and one cell per column. Only the newest
version of a row in a source is kept: every reader of the server reads at
`SNAPSHOT_LATEST`, and a flush writes only that version. Appending the two
records of a transaction is one step: a crash may still keep one of them, as it
cuts the log at any LSN. Segment and manifest writes are atomic (temporary file,
fsync, rename). Reading back a segment just written is assumed to work.
Tables exist before the first row; edge columns and the embedded indexes are
left out. After a failed truncation the old log may come back with a later crash
of the machine; that is modelled only while the truncation runs.

A type is not left out: a value has a *kind*, because a segment column has one
type, inferred from the first row that has a value in it, and column ids are
shared between tables.

### WriteAheadLog

The same log one level lower: frames in file order, of which some are `Torn`
(what `decode_at` rejects), the header absent, torn or whole, the number of
frames a crash cannot take. Here a write may fail having written half a frame,
and the process goes on, as `Wal::append` lets it.

### Delivery

*State.* `claimed` is the `inbound_dedup` table, `jobs` the `job_queue` table
(a sequence; a job's id is its position). Both are SQLite and outlive a crash.
`runs` are the asynchronous chains the two worker timers have started and that
have not ended: which job, which attempt, and where they stand between two
awaits. `sends`, `acked`, `faults` and a job's `ran` are history, as is `cause`,
which ties an outbound job to the inbound job whose reply it carries (the code
keeps no such link).

*Actions.* `Receive` and `ReceiveFails` are the SDK's ingest message and the
WhatsApp webhook. `InboundTick` sweeps the stale locks of both queues and claims
a job, in one synchronous stretch; `OutboundTick` claims. A run is `Act` (the
turn takes effect), `Reply` (the outbound job is queued), `Complete`; or `Send`,
`Complete`; every failing await ends in `failJob` (`TurnFails`, `SendFails`,
`CompleteFails`), including a send that was delivered and not heard of.
`Ripen` is a retry falling due after five seconds, `Expire` a lock growing older
than five minutes: of a run that died (`Orphan`), or of one that is still going,
which is the failure `"slow"`. `Crash` ends all runs.

*Abstractions.* Time is what the code compares it with. Of the due jobs any may
be claimed; the code takes the earliest. The two statements of `failJob` are one
step: no timer runs between them. Dedup keys are not pruned (the code drops them
after seven days). What a turn does inside is one step here. Replies to the web
widget need no delivery and are sent like the others.

### SdkBridge

*State.* `conns` is the bridge's `connections` map and `older` the order of its
heartbeats (pairs of connections), `pending` its map of invocations, `outcome` what the promise of
each has become. `wire` are the sockets: each has an end at either side and a
queue in either direction, and its ends learn of its closing at different
times. `sdk` is the client object: its current socket, `shouldReconnect`, its
reconnect loops in their delay, its handlers and those running.

*Actions.* `Call`, `Timeout`, `Result` are `invoke` and `sendViaChannel`, their
timer, and `handleResult`; `Opens` is the acceptance with `evictOldestConnection`
and `registerPending`; `Register`, `Refuse`, `Pong`, `TooLarge`, `Gone` the
route's handlers; `Sweep` its timer; `Shutdown` and `Restart` end the process.
Of the client, `Listen`, `Dial`, `DialFails`, `SdkEnd`, `Ping`, `Handle`,
`HandlerEnds`, `Disconnect`, `SdkRestart`. The two clients differ where the code
does: the Node client answers on its *current* socket and its close handlers
each start a loop; the Python client is one loop, answers on the socket that
asked, and reads nothing while a handler runs.

*Abstractions.* The server accepts and the client sees its socket open in one
step. A connection has missed 0, 1 or 2 sweeps; a sweep comes when what is on
working links has been handled (30 seconds). The `sdk_connections` table is
written and never read.

### Turns

*State.* `turns` are the calls of `processTurn` in order of arrival, with the
locals that outlive an await (`sid`, the message's `word`, the `stack` and `row`
read, the call `asked` about); `chain` is the map of promise tails in
`session-lock.ts`; `sessions`, `latest`, `known`, `sent`, `cache` are tables;
a session's `meta` is its JSON column (pending confirmation, intent stack,
summary mark) and `plan` the harness's suspended row. `calls` is history.

*Actions.* `Arrive` joins the chain, `Begin` leaves it; then `CreateCustomer`,
`Admit` (rate limit, idle sessions closed, session found), `Persist`; a pending
confirmation goes through `Invoke`, `ReadMeta`, `WriteMeta`, `Acknowledge`, any
other message through `Lookup` (cache), the summary, `EngineStarts`, the engine
(`TakePlan`, `RunPlan`, `Answers`, `Calls`, `Asks`), the intent stack and
`Reply`. Every change of the metadata is a `ReadMeta` that computes the column
and a `WriteMeta` that overwrites it. `EngineFails` and `Crash` end turns;
`MinutePasses` and `GoesQuiet` are the clocks.

*Abstractions.* One customer, whose address row has no effect beyond the
customer's. Creating a session and inserting the message are one step, as are
the end of a turn and forgetting its chain entry. A message's words are chosen
when it is stored, so one queued behind a question may be the yes to it, as in
the code. A moment is the number of messages in the session. The daily limit,
history, memories and prompts are left out.

### Harness

*State.* `turn` is the executor's and the turn's memory (`phase`, its `message`,
the resolved `plan`, `wave`, `todo`, `flying`, `ledger`, call count), `parked` the
session's row of `suspended_plans`, `registry` and `stage` what the back end
registered and the customer's lifecycle state, `inbox` the messages that wait for
a turn. History are `reply`, the last thing the user was told, `questions`, how
many approvals and questions were parked, and `runs`, how often each step was
started. A message carries what its writer had been shown: `asked`, the question
he was shown last if nothing else was told him since, and `latest`, the latest he
has ever been shown.

*Actions.* `Message` (the user writes), `Begin` (a turn takes a message), `Get`
(the row), then `Declined`, `AskAgain`, `Discard` or
`Resume` with `Clear`; or the planner: `Reply`, `Replan`, `PlanFails`, `Plan`,
which binds and resolves (operators `Bindings`, `Resolve`, `Tangled`,
`NextWave`). Execution is `StartWave`, `StartRead`, `ReadsDone`, `StartWrite`,
`Return`, `EndWave`; the end is `Answer`, `GiveUp`, or the question: `Delete`
and `Insert` of the row. The user learns of any of them with `Tell`, when the turn
has stored the rest and its reply is queued; a crash between `Insert` and `Tell`
leaves a question nobody has seen. `Change` is another registration or a state set
by the back end. `ModelFails` and `Crash` are the faults: either ends the turn, and
its message comes again or not (`Fails`: the queue retries it, or its attempts are
used up). `TellsTwice` is the crash after the reply is queued and before the job is
completed: the user has his reply, and his message is answered again.

*Abstractions.* A parameter is given, comes from an earlier step or is missing; a
result is a value, null or an error. The semantic search of the binder may find
any offered function, the clock and the identical-call check may refuse any
call. What a turn does between the end of the harness and the queueing of its reply
(intent stack, message, cache) is one step, as is the way of the reply from there to
the user: `Message` may carry what was told as soon as it is queued, and
`Moments` lets the user write before that too. No flows are
active (their tool would be offered always). The persisted ledger is left out:
see section 5.

### Outreach

*State.* `row` is the customer's metadata column, `writes` what each writer has
computed from it before writing it back; `sends` the sends under way, `queued`,
`sentKeys`, `today` the jobs and rows; `closed`, `reflections` the tables,
`todo`, `running` the daemon's cycle. `messages` counts a session's messages up to
`MinMessages`. `todo` is the set of sessions the cycle's query returned: closed,
without a reflection, and with at least `MinMessages` messages; the order in which it
takes them is that of `closed`. A send is `Request` (or `FollowUp`),
`OptedIn`, `KeyCheck`, `CapCheck`, `Enqueue`, `Record`; a cycle is `Tick`, `Reflect`
or `ReflectFails` for each session, `CycleEnds`. `StoreMessage` and `Close` are what
turns do to a session; a message may be stored after its session was closed.

A flow's progress in `row` is the set of stages its parts were made in. Progress is
stored for any flow, of whatever stage, and keeps the steps completed before unless
the caller names new ones (`WithProgress`); progress made while the customer has no
stage has the mark `Nowhere`, and goes with him into his first stage (`WithStage`).

*Abstractions.* One customer, opt-in required (`require_opt_in`); blocked
messages' rows are read by nothing and left out. The read of the WhatsApp window
changes nothing the other guards look at and is a choice of `CapCheck`. `Populations` says which
processes are at work together, to bound the product of all.

### Widget

*State.* The page (`status`, `socket`, `ready`, the timers, `shown`), the frames
under way in either direction, and the route (`inited` sockets, `jobs` received,
the customer's `turn`, the message `rows`). Actions are the handlers of the page
(`Opens`, `GetsReady`, `GetsReply`, `GetsError`, `CloseEvent`, `Rejected`, the
timers, `Send`, `Unmount`) and of the route (`Arrives`, `Inits`,
`Uninitialised`, `TurnStarts`, `TurnEnds`, `TurnFails`); `Drops`, `Refused`,
`Expires` and `Restarts` are the environment.

*Abstractions.* A message is its number. `Closed` retries after every drop, also
after an `origin_not_allowed` error, where the page gives up (`widget.tsx:281`): this
adds behaviours and takes none away. Frames above the size limit, malformed frames and the typing indicator are left out. A turn is its two inserts.

### MagicLinks

*State.* The tables (`customers`, `addresses` and which are `verified`, `links`),
the HTTP requests under way, and the limiter's `hits`. `AskForLink` counts and starts a
request; `AddCustomer`, `LookUp`, `AddAddress`, `AddLink` are the statements of
`createMagicLink`; `Open`, `Consume`, `SignIn` those of `verifyMagicLink`, of
which `Consume` is the conditional update. `Crash` ends requests and empties the
limiter. A token is the number of its link; a request refused for its secret,
body or IP address changes nothing; a race on a unique index fails the request.

## 3. Runs

| run | instance | shows |
|---|---|---|
| `DatabaseFaults` | 2 tables sharing 2 columns, 2 rows, 5 LSNs, 2 files, partial payloads and nulls; one failed manifest write or truncation | types, `CommittedSurvives`, `CrashSafe`, `FreshIdIsFree`, `LsnFresh`, and that `Database` implements `DurableStore` |
| `DatabaseBroken` | vectors of two dimensions, any one failure, 4 LSNs, 3 files | no file in use is ever unlinked or overwritten |
| `LogFaults` | 8 LSNs (4 transactions), crashes, 2 failed writes or fsyncs | LSNs ascend and transaction ids are distinct; acknowledged commits are replayed until a write fails |
| `DeliveryFaults` | 1 message sent twice, 2 attempts, 2 failures: crash, turn, send (heard or not), database, queueing | `SettledForCause`, `RetriesAreFaults`, `RunsExclusive`, `QueuedOnce`, `RefinesMailbox`, `EveryMessageSettles` |
| `SdkBridge` | 2 sockets, 1 call, 1 function, either client, a limit of 1 connection, 2 faults of seven kinds | `AnsweredForCause`, `WaitersKnown`, `EntriesEnd`, `CapPassedLate`, `CallsSettle`, `Recovers` |
| `Harness` | 5 functions, 5 plans of up to 3 steps, 3 messages one after another, 1 fault or change | `WritesAlone`, `ConfirmedOnly`, `AtMostOnce`, `QuestionParked`, `TurnsSettle` |
| `Turns` | 3 messages on one channel or 2 on two, either engine, a fresh customer or one with four topics and up to 2 earlier messages in this minute, a limit of 2, 1 long pause, 1 fault | `OneAtATime`, `RateKept`, `ConfirmedOnce`, `StackAges`, `TurnsEnd` |
| `Outreach` | 2 writers, or 2 senders with a writer, or a sender with 2 cycles; 3 requests, 2 stages, 2 sessions with or without a message, a cap of 1, 1 crash | `OncePerSession`, `CapKept`, `FlowFitsStage`, `EveryReflected` |
| `Widget` | 2 messages, 1 reconnection in a row, a visitor granted, refused or on a foreign page, a token that expires | `TranscriptFaithful`, `ConnectionSettles`, `MessagesAnswered` |
| `MagicLinks` | 3 requests for links of one e-mail and two customers, 3 requests at a time, a limit of 2, 1 crash | `RedeemedOnce`, `FewLinks` |
| `DatabaseKinds` | two tables with different column types at one position | *violation:* a flush nulls the cells of one |
| `TurnsChannels` | one customer on two channels | *violation:* two turns work on one session at once |

Two further configurations pass, and enlarge an instance of these in one
direction only:

| configuration | instance | shows |
|---|---|---|
| `DeliverySlow.cfg` (`MCDelivery`) | 1 message, 2 attempts, 3 failures: crash, turn, database, a run that outlives its lock | `SettledForCause` and `RetriesAreFaults` with late workers |
| `HarnessMessages.cfg` (`MCHarness`) | plans of one or two writes to confirm, 3 messages of which 2 may wait, written between turns or while a reply is about to be told, 1 fault or change | `ConfirmedOnly` |

*Why the bounds are enough.* Two row ids let one row supersede, outlive or be
confused with another; five LSNs are two transactions of two
records and what one cut in half leaves;
two files are a segment and the compaction that replaces it. Two attempts are the one that may be
retried and the one that may not, and two failures exhaust a job or crash in the
middle and fail the other attempt. Two sockets are what it takes for an event of
an old one to meet a new one, with a limit of one for eviction; two faults lose
a link and then fail its repair. Three messages ask, confirm, and confirm again;
after the two earlier messages of the minute two more, one on each channel, would
be one more than a limit of two and one further channel let pass, and after one
earlier message they race for the last place.
The user of `Harness` writes between turns (`Moments`): the messages he writes
during a turn, before its reply is queued, carry the same `asked` and `latest` as
one written before it, so `HarnessMessages.cfg` adds only the last such moment, before
`Tell`, and lets two messages wait, to be taken in either order. The plans of `Harness` have a read that
feeds a confirmed write, a missing value to ask for, a write that feeds a read
and a second confirmed write, a forbidden function with a doubled id, and a step bound by search alone.
`CHECK_DEADLOCK FALSE` stands where the bounds on messages, rows or requests end
every behaviour; the timers of `Delivery` and `SdkBridge` always tick.

*Fairness.* Nothing is assumed of messages, failures and crashes, and failures
are finite in every behaviour. Otherwise:

- `Delivery`: the two `setInterval` timers fire; retries fall due and locks of
  dead runs age; of the runs in flight some run goes on. The last is what the
  code's time-outs give: a turn or a send returns or throws; when it hangs for
  longer than a lock lives that is the failure `"slow"`, which this run leaves
  out (`DeliverySlow.cfg` and the theorems `SettledJobs` and `Retries` do not).
- `SdkBridge`: messages on a link arrive, each end learns in the end that its
  socket is done, timers fire, a server that is down is started again, handlers
  return. A Python handler that never returns blocks its client for good.
  `Recovers` is stated of behaviours in which the client never has two sockets
  or loops; the Node client that once has may lose one to the other for ever
  (`SdkReconnect.cfg`).
- `Turns`, `Harness`: a turn that can go on does; models and back ends answer or
  fail, because every call has a time-out (`CallsSettle`).
- `Outreach`: the daemon's timer fires, cycles go on, and the model does not fail
  on one session for ever (strong fairness of its reflection). Without the last
  sessions that always fail would fill every cycle and starve the newer ones.
  Sessions with fewer messages than `MinMessages`, a widget visit without any for
  example, are closed and never reflected on, and `EveryReflected` does not speak of
  them.
- `Widget`: page and server go on; connections may drop at any time.

No liveness is stated of the storage engine and of magic links: they act only on
requests, and nothing obliges a client to make them.

## 4. Proofs

Eight modules of proofs, one for each component and one, `VisitorProofs`, for two.
Their theorems hold for every value of the constants that satisfies the module's
named assumptions; TLC evaluates those in every run. The assumptions say what the constants are; beyond
types, five of them say something of the code:

- `DeliveryKeys` (`Delivery`): a key is the id of one message. It holds of
  WhatsApp's ids and of the SDK's when the product sends one; without an id the key
  is made from the text, and equal texts share it (section 5).
- `TurnsConstants`: a customer has finitely many channels, and one at least.
- `OldFrames` (`Turns`): the frames a session's intent stack has from earlier
  visits are all of one moment, before the first message counted.
- `HarnessConstants`: a plan is a sequence of calls with ids and hints, as the
  planner's schema requires of the model's answer (`schema.ts`).
- `OutreachConstants`: cap and batch size are positive (`config.ts`), the keys of
  requests are not session ids, finitely many processes work at once.

Every safety proof has the same form: an inductive invariant `IInv` (`Conf`,
`RateInv` and `Aging` in `TurnsProofs`; `Hits` and `Forgotten`, and `PageInv` for the
widget, in `VisitorProofs`), which TLC had checked on the instance of the run before it was proved; a lemma that it
holds initially; one lemma for each action; `Invariant`, which puts them
together; and the theorems, which follow from it. What counts processes, links or rows
rests on the library's theorems about finite sets.

### Storage

| `DatabaseProofs` | hypotheses | states |
|---|---|---|
| `TypeCorrect` | none | `Spec => []TypeOK` |
| `Durability` | `OneKind`, `ReliableWrites` | `Spec => []CommittedSurvives` |
| `CrashSafety` | the same | `Spec => []CrashSafe` |
| `Freshness` | the same | `Spec => []LsnFresh` |
| `FreshIds` | the same | `Spec => []FreshIdIsFree` |
| `FilesKept` | none | `Spec => []FilesIntact` |
| `Refinement` | `OneKind`, `ReliableWrites` | `Spec => RefinesStore` |

The two hypotheses are needed: `OneKind`, all values have one kind
(`DatabaseKinds`), and `ReliableWrites`, only manifest writes and truncations
fail (failed fsyncs and segment writes break them, section 5).

None of the durability properties is inductive: that reads are right now says
nothing of what a crash would leave. `IInv` adds

- `ReadsRight`: what is read from memory, what would be recovered from the
  durable part of the disk, and (once a new segment is written) what the new
  segments hold alone, are all the committed rows;
- `StampsOrdered`: the memtable's versions are newer than the segments', the
  next LSN newer than both, and what the manifest names at or below its
  checkpoint; so "newest wins" picks the committed version;
- `LogEnds`, `InFlight`: where the log ends relative to the fsyncs, and exactly
  which two records are unsynced while a write waits;
- `FilesNamed`: file numbers in use are below the next one;
- `IdsFree`: ids not yet given out have no row.

"Newest" is stated over the *set* of newest versions, so the proofs do not
depend on how a tie is broken. `Refinement` maps `committed` to the abstract
store's rows: a fsync that returns is one insert, update or delete, every other
step, crashes and recovery among them, a stutter.

| `LogProofs` | states |
|---|---|
| `TypeCorrect` | `Spec => []WalTypeOK` |
| `CommitsFound` | `Spec => []CommitsReplayed` |
| `Ordered` | `Spec => []LogOrdered` |

`CommitsFound` needs where an acknowledged commit lies: behind its data record,
in the valid prefix, out of a crash's reach (`Kept`), and while a data record is
open, that it is the last frame (`Unfailed`). `Ordered` holds through failed
writes too: a half-written frame ends the valid prefix, and what is appended
behind it is not replayed.

### Messages

| `DeliveryProofs` | hypothesis | states |
|---|---|---|
| `DeliveryTypes` | none | `Spec => []DeliveryTypeOK` |
| `SettledJobs` | none | `Spec => []SettledForCause` |
| `Retries` | none | `Spec => []RetriesAreFaults` |
| `Deduplicated` | none | `Spec => []QueuedOnce` |
| `Exclusive` | `"slow" \notin Faults` | `Spec => []RunsExclusive` |
| `MailboxKept` | `"slow" \notin Faults` | `Spec => RefinesMailbox` |

The hypothesis is needed: the sweep looks at the age of a lock only. The first
four hold without it, with runs of one job overlapping and settling it in any
order; `DeliverySlow.cfg` is one instance of that for the first two.

`RetriesAreFaults` must also say that a job which can be claimed again (pending,
stale, or in processing with its run gone) has at most as many attempts as there
were failures. `SettledForCause` needs that a run which is about to complete an
inbound job has queued its reply, which in turn needs that runs stay on the queue
they were started for; `Exclusive` that two runs never share a job and an
attempt. `IInv` states these over a job table and a set of runs (`JobOk`,
`RunOk`, `TableOk`) and not over the variables, so that an action that does two
things (sweep and claim; act and move on) is two lemmas one after the other.
`Deduplicated` is about claims and jobs: one inbound job for a claimed key, none
for a key that is not claimed (`Ingested`).

`MailboxKept` maps a job to an entry of `Mailbox`: pending and processing are
*open*, and `acted` says that some attempt took effect. Sweeps, claims, retries,
time and crashes are then stutters; a failure is one too, or an entry given up,
after a turn or a send that may have had its effect. The proof needs `IInv`,
`Ingested`, and that a run past its turn or its send belongs to an entry that
shows it (`Acted`). An open entry may be replied to more than once: that is the
repetition `DeliveryRepeat` shows (section 5). With `"slow"` the refinement is
false, as a late run settles a job another one has settled.

| `SdkBridgeProofs` | states |
|---|---|
| `TypeCorrect` | `Spec => []SdkTypeOK` |
| `AnswersTrue` | `Spec => []AnsweredForCause` |
| `Answerable` | `Spec => []WaitersKnown` |
| `NoGhosts` | `Spec => []EntriesEnd` |
| `Capped` | `Spec => CapPassedLate` |

What makes an answer true is spread over the wires: a call is asked for by one
message at most, on one socket, and only while it was neither started nor
answered (`OneRequest`, `Requested`); a result under way, and a handler running,
are of a call started once (`Started`); the server asks a client only for what
that client exposes (`Offered`). Most steps only take a message, drop all or add a
harmless one; `Quiet` names these, and one lemma carries the invariant over
them. `Capped` counts: an accepted connection passes the limit only while the
table holds one that is closing, which a late `register` put back.

### Turns

| `TurnsProofs` | states |
|---|---|
| `Serialised` | `Spec => []OneAtATime` |
| `Limits` | `Spec => []RateKept` |
| `Confirmed` | `Spec => []ConfirmedOnce` |
| `StacksInOrder` | `Spec => []StackAges` |

These hold for every number of channels, messages, turns at a time, restarts and
failures, and whatever the constants of the engine, the cache and the intent
stack are. A started turn has nothing unfinished before it in its channel
(`InOrder`); that is not inductive, because a turn starts when its *predecessor*
has ended. `Queued` says that what is unfinished before a waiting turn is not
after its predecessor, and `Tails` that nothing unfinished of a channel is after
the tail the map holds: this is what makes the deletion of a map entry safe, and
the mutant that deletes the entry of a chain others have joined breaks it. Of a
turn's fields only the channel, the phase and the predecessor matter, so each
action is shown to be one of four changes (`GoesOn`, `TurnEnds`, `BeginStep`,
`ArriveStep`).

`Limits` is on top of that: channels whose turn is past the check and has not
stored its message (`Counting`) are counted with `sent`; by `OneAtATime` each
channel has one such turn at most.

`Confirmed` speaks of one channel. There the turn at work is the only one, so
what it has read of the session is still so when it writes (`TurnOk`); no two
sessions wait for one question, and a question still waited for was called no more
often than restarts explain (`Questions`). With two channels it is false.

`StacksInOrder` holds for any number of channels, whose turns may save stacks that
others have saved since. `Aging` therefore speaks of every stack there is: those of
the sessions, those that turns at work have read or computed, and those in metadata
about to be written. Each is in order of age, and none of its frames is later than
the number of messages its session has, which only grows; so the frame a turn
refreshes or adds, which is of this moment, belongs on top. That dropping what has
expired keeps the order is a fact about ranks in a finite set (`NthOf`); the model
writes `Expired` with `Nth` for it, since a sorting operator of the library takes an
operator as its parameter, which the provers cannot instantiate.

| `HarnessProofs` | states |
|---|---|
| `WriteAlone` | `Spec => []WritesAlone` |
| `Consented` | `Spec => []ConfirmedOnly` |
| `StartedOnce` | `Spec => []AtMostOnce` |
| `QuestionKept` | `Spec => []QuestionParked` |
| `TypeCorrect` | `Spec => []HarnessTypeOK` |

For all functions, registries, policies, plans and faults. A step that was
started is in the ledger or in flight, and what a parked row has started is in
*its* ledger (`Counted`); the row exists only until its plan runs (`Halted`),
which is what keeps a resumed step from being started twice. The approval a turn
carries comes from the row it resumed, and its message is a yes (`Consent`). What
`Consented` says of the customer is as much as the code ensures: every row has a
question of its own number (`questions`), and if he had been shown that question
when he wrote, he had been told nothing since. If he had not been shown it, his yes
may have been meant for another (`HarnessConsent.cfg`). `TypeCorrect` stands on these and on `TypeInv`,
which follows the recoil budget from the row to the turn that resumes it and back:
a plan is parked for information only while the budget has room. `HarnessTypeOK` is
no invariant of a run's configuration; TLC had checked it, with `TypeInv`, on the
instance of `Harness.cfg`.

### Proactive messages, sign-in, widget

| `OutreachProofs` | states |
|---|---|
| `FollowedUpOnce` | `Spec => []OncePerSession` |
| `CapBound` | `Spec => []CapKept` |
| `FlowsFit` | `Spec => []FlowFitsStage` |

A cycle looks only at sessions without a reflection and runs alone (`OneCycle`);
a follow-up whose job is not queued yet is the only one of its session, which has
its reflection and no job (`Promised`): so nothing is followed up twice, in any
life of the server. `CapBound` counts rows and senders past the guards
(`Passed`): when one passes the cap, the rows are below the cap, and the senders past
them are at most those at work. Jobs without a row are those about to be
recorded (`Unrecorded`) and those a crash lost, one of every sender at each
crash. The bound is tight in both terms; a smaller one, which counted one lost
row for a crash, was refuted by TLC with two senders and led to this one. An
overwritten update of the metadata does no harm to `FlowFitsStage`, because each
row is computed whole from one that fits: the update is lost, stage and reset together.

| `VisitorProofs` | states |
|---|---|
| `Redeemed` | `LinkSpec => []RedeemedOnce` |
| `Limited` | `LinkSpec => []FewLinks` |
| `Shown` | `Spec => []TranscriptFaithful` |

`IInv` follows the *right* to sign in with a link (`OneRight`): with nobody while
the link is not consumed, with one request after the conditional update, spent
once it has its token; that no request for a link ever meets a link that is there
(`AsksApart`) and that an issued link has its rows (`IssuedHasRows`) give the
rest. `Limited` follows the limiter: it counts every request whose link is to
come (`Hits`), and the live links it does not count are those of former lives
(`Forgotten`). It rests on a link's life being shorter than the limiter's hour
(`HourPasses`), as it is by default.

`Shown` is about `Widget`. Every message sent is in one place: under way to the
route, a job there, or answered and under way back (`UnderWayOnce`). Nothing that is
stored, shown, *or under way as a history* has an answer to a message in these places
(`NothingEarly`), and no message is stored before its turn (`StoredByTurn`). So a
history may replace the transcript whenever it comes: what is still to be answered
is answered once, after it. That needs the order of a socket: its init is handled
before its messages, so no answer is ahead of the history in the socket, and the
error that answers an init is never shown (`GreetedOnce`); and a new socket has a
number no job left from an older one has (`FreeNumber`, by the pigeonhole
principle).

### Model-checked only

The two violations. All other invariants and action properties of the runs have a theorem. Out of the
prover's reach: all liveness (`EveryMessageSettles`, `CallsSettle`, `Recovers`,
`TurnsSettle`, `TurnsEnd`, `EveryReflected`, `ConnectionSettles`,
`MessagesAnswered`), which needs `ENABLED`.

## 5. Disagreements of the code with its documents

Two have a run of their own, which TLC ends with the violation:

- `DatabaseKinds`. A flush types a column by the first row with a value in it
  and writes other kinds as null (`engine.rs:299`); tables share column ids, so
  "multiple tables share the segments" (`database.rs:4-6`) costs the second
  table its cells.
- `TurnsChannels`. `findOrCreateSession` does not filter by channel, against
  `docs/fix-log.md:237`; turns of two channels, whose chains are two, work on
  one session, against the comment at `turn.ts:235-237`.

Others have a configuration that shows them in the same way:

| configuration | property | what happens |
|---|---|---|
| `DatabaseHeader.cfg` (`MCDatabase`) | `Reopenable` | a crash inside a flush's truncation leaves a log without a header; `open` refuses it |
| `LogLost.cfg` (`WriteAheadLog`) | `AckedReplayed` | commits after a half-written frame are never replayed |
| `DeliveryRepeat.cfg` (`MCDelivery`) | `ReplyOnce` | a crash between queueing the reply and completing the job repeats turn and reply; `fix-log.md:239` names flags in the payload that prevent it, which the code does not have |
| `DeliveryLost.cfg` (`MCDelivery`) | `AckedQueued` | a message whose queueing failed is claimed, so its redelivery is acknowledged and dropped |
| `SdkReconnect.cfg` (`SdkBridge`) | `OneReconnectLoop` | the Node client has two reconnect loops at once, against `bug-list.md:102` |
| `SdkCap.cfg` (`SdkBridge`) | `CapHolds` | a `register` handled after its connection was evicted adds it again; the next eviction takes that closing one, and more than `MAX_SDK_CONNECTIONS` are open, against the fix of `fix-log.md:241` |
| `HarnessConsent.cfg` (`MCHarness`) | `ConsentInformed` | the row of a question is stored (`suspension.ts:68`) several awaits before the reply that asks it is queued (`turn.ts:513-568`, `inbound.ts:48`). When the message of that turn was the yes to an earlier step and the turn fails in between, the queue delivers the yes again, and `resumeSuspended` takes it for the approval of the later step, which nobody was asked about; a yes written before the question came has the same effect. `Blueprint/v1-oss-spec.md:761` wants a write confirmed in conversation, and the comment at `harness/index.ts:222-223` never assumes consent |
| `HarnessAsks.cfg` (`MCHarness`) | `AskedWithinBudget` | a rejected answer has the same question asked again without being counted (`index.ts:276-283`), so a user who cannot supply a value is asked for ever, against the comment at `350-352` |
| `HarnessOffer.cfg` (`MCHarness`) | `PendingOffered` | the function a parked plan waits for is not offered in the next turn, against `tool-retrieval.ts:13-17`: `turn.ts:433-444` forces in the tools of active flows only |

And these follow from a change of constants, or are plain from a definition:

- `CommittedSurvives` fails in `DatabaseBroken`: a compaction that cannot write
  its segment has already forgotten the old ones (`database.rs:389`).
- `LsnFresh` fails with `"fsync"` among the `Faults` of `DatabaseFaults`: after
  a failed fsync, a checkpoint and a crash, new LSNs start at or below the
  checkpoint (`engine.rs:61`).
- The id of a row deleted before its first flush is handed out again after a
  crash: `open` looks at live rows only (`database.rs:205`), where its comment
  says "every id we know about".
- `RunsExclusive` fails with `"slow"` among the `Faults` of `DeliveryFaults`: a
  turn of more than five minutes runs a second time beside itself.
- With one key for two messages (equal text and no id, `sdk.ts:20`) the second
  is acknowledged and dropped; the hardening plan deduplicates by id only.
- Harness. The ledger is written to a table and read back under a fresh turn id,
  so a resumed turn starts with an empty one, and the look-up that would skip a
  finished step (`executor.ts:346`) never finds any; `docs/MANUAL.md:493-494`
  promises idempotence across resumption. What keeps a write from being made
  twice is that the suspension is deleted first. The price: a crash between the
  deletion (`index.ts:242`) and the execution loses the confirmed plan. The result
  of `noteUsage` is ignored (`index.ts:114`), so tokens bound nothing, against
  `MANUAL.md:499`. A resumed step is started even if a producer of its inputs
  failed (`executor.ts:227-248`), and gates look at the lifecycle state the
  turn began with.
- Turns. With the cache on, the harness's question is stored as the reply to the
  message (it made no calls). A pending confirmation has no age limit
  (`fix-log.md`, BUG-028), and two first messages on two channels race for the
  customer's row, of which one turn fails (BUG-041). With two channels a summary
  writes back the pending confirmation another turn has cleared meanwhile.
  The comment at `stack.ts:39-44` keeps the root goal for ever; the code keeps
  the three frames on top.
- SDK bridge. `disconnect()` during a pending connect leaves a live socket. A
  result frame above 64 KB closes the socket, and the call waits for its time-out.
- Outreach. Concurrent sends with one key both queue a message; a crash between
  the job and its row loses the row; an opt-out can be undone by a state or flow
  update that had read the column before it; a reflection whose embedding fails
  after its row is stored leaves no insight and no follow-up. A send is recorded
  when it is queued (`proactive.ts:192-207`), not when it is delivered (`fix-log.md`,
  BUG-042).
- Widget. After a rejected sign-in the socket stays open, the handshake timer
  overwrites the error and retries, up to ten times, against the comment at
  `widget.tsx:280`. The reply of a turn whose socket has gone is seen in the next
  history only. A history does not reset which question the buttons belong to,
  and the buttons can be pressed before the session is ready.
- Magic links. A crash between the consumption and the answer makes the link
  useless. The limiter is in memory: `FewLinks` holds per life of the server. Two
  first requests for one customer or e-mail race for a unique index, and one
  of them fails.

## 6. Plan

Modelling is done as far as the plan went: every component with control of its
own has a module, and every invariant of a run that is to pass has its theorem.

Left to model, if the code grows there: the catalog beside `Database`; the segment replan of the harness, which the code
declares and does not do.

## 7. Not modelled

`PROJECT.json` names every component with its reason. In short:

- *Catalog*: tables are fixed in `Database`; `create_table` only adds to a file.
- *Query executor, indexes, cost model*: numeric search over one immutable
  snapshot, without state; which version of a row it sees is `ResolveLive`.
- *Sunjet daemon*: scripts over the HTTP client which this server does not run;
  its in-memory outbox is noted under the hazards.
- *Lighthouse, analyst's memories, storage adapters, telemetry, Sunjet client*:
  best-effort copies and row mapping.
- *Language-model providers, prompts, ranking, channel parsers, configuration,
  static pages, backup rotation, relational schema*: pure I/O or wording; the
  modules let any call of a model fail or return anything the code accepts.

# SystemForge AI: a TLA+ verification project

This directory holds TLA+ models of the stateful core of SystemForge AI (`src/backend/app`), TLC
configurations that model-check them on small instances, and proofs, checked by TLAPS, of what
matters most about them for every size of instance.

## 1. The system

A FastAPI backend over PostgreSQL and Redis, with worker processes that read Redis Streams.

| Component | State it keeps | Operations | Talks to |
|---|---|---|---|
| Messaging service (`messaging/`) | conversations with a message counter, members with a read cursor, messages, recipient rows | send, acknowledge delivered, acknowledge read, sync; cascading deletion | called by the gateway and the delivery worker; writes the outbox in its own transactions |
| Outbox and relay (`workers/outbox_relay.py`) | `outbox_events` rows: status, attempts, next attempt, claim time | claim a batch, XADD, mark published or failed, recover stale claims | reads what the messaging service commits; adds to the delivery stream |
| Delivery worker (`workers/delivery_worker.py`) | consumer group with its pending list, dedupe keys in Redis | hand a message to each recipient (realtime stream or notification), fan out updates, acknowledge, take over idle entries | delivery stream; calls `acknowledge_delivered`; realtime streams; notification queue |
| Design lifecycle (`services/design_service.py`) and generation worker (`workers/generation_worker.py`) | design row with a status, its output, archived versions, generation stream | create, regenerate, edit, delete; generate, save, fail | generation stream, LLM, realtime streams |
| Notification queue (`notifications/`, `workers/notification_worker.py`) | notify stream, delayed sorted set, attempt records | enqueue, promote, send, retry with back-off | delivery worker, presence, push providers |
| Presence (`realtime/presence_service.py`) | per-user socket sets and per-socket keys with a TTL | register, heartbeat, unregister, query | gateway, workers |
| WebSocket gateway (`realtime/ws_gateway.py`) | connection state, stream position, rate window | hello, resume, send, acknowledge, sync, typing, forwarding | client, messaging service, realtime streams |
| Realtime client (`frontend/features/realtime`, `frontend/lib/ws-client.ts`) | `lastServerSeq`, pending sends, reconnect timer | connect, send, resume, sync | gateway |
| Export jobs (`services/export_job_service.py`, `workers/export_worker.py`) | job records with a TTL, export stream | enqueue, process, poll | routes, Redis |
| Workspaces (`services/workspace_service.py`) | members with roles, default workspace, budget | create, invite, change role, remove, delete | routes; ends designs and sessions by cascade |
| Authentication (`auth/`, `api/routes/auth.py`, `api/routes/settings.py`) | users with a token version, refresh sessions, API key | register, login, rotate, revoke, log out, reset, deactivate; generate and revoke a key | routes |
| Rate limits, quotas, idempotency keys (`core/`) | counters and keys with a TTL in Redis | check and count | routes |

What is hard: every request and worker is a process of its own, transactions run READ COMMITTED,
Redis and PostgreSQL are written one after the other and never together, work is taken over from
processes that may still be alive, and every hand-over between stages is at least once. The hazards
are listed with their lines in `PROJECT.json`.

What makes each component correct:

* messaging: a message is stored, numbered and announced exactly once, whatever is retried or
  aborted; acknowledgements never go back; paging skips nothing;
* outbox: every committed event is relayed, nothing else is, and duplicates are bounded by faults;
* delivery: nothing is acknowledged before every recipient was served; duplicates are bounded;
* designs: generating comes to an end; a completed design has an output; no version is lost;
* notifications: an attempt budget per message, nothing parked for ever;
* presence: a user with a live socket is online;
* gateway and client: a message the client never shows met one of the known ways of being missed;
* export jobs: a job is settled or was lost to a fault; a key makes one job; no window of a limit is
  left without an expiry;
* workspaces: an administrator remains; sessions: nothing outlives a logout; a key, a link or a
  discussion that was given out works until it is withdrawn.

## 2. Modules

| Module | What it is | Extends / instantiates |
|---|---|---|
| `ReliableRelay` | abstract: what one stage of the message pipeline promises the next | |
| `MessageStore` | messaging service and its tables, statement by statement | |
| `OutboxRelay` | outbox rows and relay processes | instantiates `ReliableRelay` |
| `DeliveryWorker` | consumer group over the delivery stream | instantiates `ReliableRelay` |
| `DesignGeneration` | one design, its requests and the generation workers | |
| `NotificationQueue` | notify stream, delayed set and notification workers | |
| `Presence` | the presence keys of one user in Redis and the commands on them | |
| `RealtimeSession` | gateway, forwarder and client of one user in one conversation, with what messages of others do to its cursor | extends `Presence` |
| `ExportJobs` | export requests behind a rate limit and an idempotency key, job records, export workers | |
| `Workspaces` | accounts, workspaces, members, defaults, with the unit of work all requests use | |
| `AuthSessions` | refresh sessions, access tokens and API key of one account | extends `Workspaces` |
| `DesignReview` | link, review, discussion and deletion of one design; the next-state relation of all three | extends `AuthSessions` |
| `MC*` | the instances TLC checks: memberships, commands, stream contents, symmetries | the module they are named after |
| `MessageStoreProofs`, `OutboxRelayProofs`, `DeliveryWorkerProofs`, `DesignGenerationProofs`, `NotificationQueueProofs`, `RealtimeSessionProofs`, `ExportJobsProofs`, `DesignReviewProofs` | theorems | the module they are named after, TLAPS |

The first three detailed modules are the path of a message: `MessageStore` commits an event,
`OutboxRelay` copies it to a stream, `DeliveryWorker` hands it to the recipients and calls back into
the service to acknowledge delivery. `OutboxRelay` and `DeliveryWorker` are shown to keep the same
abstract promise, so their guarantees chain: what a transaction committed is relayed, and what is
relayed reaches every recipient. These modules are not composed in one state space; each
models what the other side may do to it: `OutboxRelay!Insert` is a commit of the service,
`DeliveryWorker` may find an event twice in its stream (`Stream`), because `OutboxRelay` may write it
twice. `NotificationQueue!Enqueue` and `RealtimeSession`'s `LookUp` and `HandOver` are the two ways
`DeliveryWorker!Hand` takes, and `RealtimeSession` takes the gap-free log of `MessageStore` for given.

`Presence` with `RealtimeSession`, and `Workspaces` with `AuthSessions` and `DesignReview`, are
composed in one state space: presence is run by the gateway's connections, deleting an account ends
its sessions and takes its memberships and review, and roles that change decide who may touch the
design.

Operators marked *Deliberately wrong* stand next to the definition they vary and are used by no
specification. Each is what a plausible mistake in that piece of code would look like, and the run
that checks the corresponding property finds it violated with the variant in place of the original.

### MessageStore

A request is a process: `pc` says between which two statements of which service function it is,
`arg` holds its command and what it has computed. Writes are applied by the commit step, since READ
COMMITTED shows them to nobody before; the locks a transaction holds are derived from `pc`
(`ConversationLocked`, `MemberLocked`, `RecipientLocked`), and a step that needs a lock another
request holds is not enabled.

* `send_message`: `SendBegin` (membership), `SendLookup` (sent before under this client id?),
  `SendAllocate` (the `UPDATE ... RETURNING` that locks the conversation and numbers the message),
  `SendInsert` (the unique key `(sender, client id)`: waits for a concurrent insert and, if that
  one committed, rolls back), `SendRelookup` (answers with the winner's message), `SendCommit`
  (message, recipient rows and outbox event at once), `Abort` at any statement.
* `acknowledge_delivered`: `DeliverBegin`, `DeliverMark` (conditional update that locks the row),
  `DeliverCommit`.
* `acknowledge_read`: `ReadBegin` locks the member row, `ReadTarget` finds the last message at or
  before the requested seq and compares it with the cursor, `ReadCommit` moves the cursor, marks
  the recipient rows and writes the event.
* `build_sync_response`: `SyncAfterSeq`, `SyncAfterMessage`; `Adopt` is what a reader does with
  the page. `synced` and `seen` are history variables of the readers, not tables.
* `DeleteConversation`: the cascade of `delete_design_for_user`. Message keys and seqs ascend
  together, so a message is identified by its conversation and seq.

### OutboxRelay

`status` is the column, `elapsed` one Boolean per row for the instant its claim query compares with
`now()`: `next_attempt_at` for failed rows, `processing_started_at` plus the timeout for claimed
ones. `Claim` is the `SELECT ... FOR UPDATE SKIP LOCKED` and the update, committed together;
`Publish`, `MarkPublished`, `MarkFailed` are the steps of `process_once` for one row, each in its own
transaction; `PublishRaises` covers an XADD that failed before or after it was applied; `MarkRaises`
a failed transaction; `Abandon` a crash or an exception that leaves the loop. Nothing ties a row to
the relay that claimed it, as in the code. `OrphanTimesOut` and `HolderOverruns` are the same clock
event for a row nobody works on and for one whose relay is still busy; only the second is a fault.

### DeliveryWorker

`Stream` is the sequence of entries the relays will write, `length` how far they are; `lastRead` and
`pending` are the consumer group, `idle` the pending entries past `delivery_pending_idle_ms`.
`Reclaim` and `ReadNew` are the two ways `process_once` gets its batch, in the code's order.
`_process_event` is, per recipient, `Check` (dedupe key), `Hand`, `SetKey`, `Mark`; for updates
`Members`, `Fanout`; then `Ack`. `DispatchRaises` leaves the entry pending and goes on with the batch,
`MarkRaises` is swallowed, `Abandon` loses the rest of the batch. `KeyExpires` and
`DeleteConversation` come from outside.

### DesignGeneration

`request[q]` follows `create_design_for_user` and `regenerate_design_for_user` through their commit
and the XADD after it (`Create`, `RegenerateRead`, `RegenerateCommit`, `Enqueue`, `EnqueueFails`);
`EditRead`, `EditCommit` are the diagram edit, `Delete` the deletion. A worker takes entries with
`ReadNew` only: `process_once` first claims what has been pending for a minute, but takes the answer of
XAUTOCLAIM for a tuple (line 242), redis-py gives a list, and what was claimed is dropped. It stays
in `pending`, and no action gets it out. `_process_event` goes through `Start` (is there a design
that is not completed?), `Generate` (the model run, which may raise), `SaveRead`, `SaveCommit` and
`Ack`, the `try`; reads and commits are separate because no row is locked in between. `Raises` is a
query, a commit or an XACK of the `try` that raises. The `except` branch is `FailRead` and
`FailCommit`, or `Swallow`, an error in these that is passed over, and its `finally` is `LastAck`.
`Crash` is a death, or an error of that last XACK, which leaves `process_once`. Outputs are numbered as
they are written, so that losing one can be seen; `swallowed` is history.

### NotificationQueue

An entry is an item and how often it was attempted, in the stream or in the sorted set (`delayed`).
`Reclaim`, `ReadNew` and `Promote` are `process_once`; `_process_entry` is `Park` (the worker's clock
says the entry is early), `FindOnline`, `FindOffline`, `FindNoDevice`, `Send`, one `Record` per answer,
`Retry` and `Ack`. `Abandon` is a death or an exception at any of these, `DieSending` one after a
device was reached. `excused`, `rounds` and `pushed` are history.

### Presence and RealtimeSession

`Presence` has the commands (`RegisterSession`, `Heartbeat`, `RemoveSocket`, `NoneRemains`,
`GoOffline`) and the expiry of the keys. In `RealtimeSession` a socket goes from `open` through
`counting` and `emptied` to `closed`, the three steps of `unregister_session`. The receive loop is the
`Handle*` actions and `Reject`; the forwarder is `Read`, `ReadTimesOut`, `Forward`, `ForwardOther`,
with `waitsAt` the place its XREAD waits at, since `"$"` means the end of the stream at that moment;
`Close`, `Crash` end a connection. The client is `Welcomed`, `Resumed`, `MessageNew`, `OtherMessage`,
`MessageAccepted`, `SyncResponse`, `SendMessage`, `Disconnect`.

The user's stream carries the messages of all his conversations, each numbered for itself, and
`onMessageNew` moves `lastServerSeq` without looking at the conversation of a message. The log and the
entries of one conversation are in the state; of the others only what they do to it: `ForwardOther` is
an entry of another conversation that the forwarder comes to between two of this one (which also gives
it an id to wait after), with any number of `OtherSeqs`, and `OtherMessage` the client that takes it.
Numbers not above the cursor change nothing and are not kept. `OtherSeqs` lies within the numbers this
conversation may reach: the cursor tells no more apart.

`skipped` is history: the messages to which something happened that may
lose them; each of these events is written down where it happens.

### ExportJobs

One step per Redis command: `Count`, `Expire` (rate limit), `TakeKey`, `KeyUnchecked` (idempotency
key, and the error that lets a request pass, whether or not the key was set), `LoadDesign`,
`SetQueued`, `TrackJob`, `Enqueue`, of which `TrackJob` stands for three commands on a list that only
the job overview reads; the worker is `ReadNew`, `LoadJob`, `SetRunning`, `Render`, `SetFailed`, `Ack`. `RequestFails`,
`CommandFails` and `Abandon` are faults, `WindowEnds`, `KeyExpires`, `RecordExpires` the clock of Redis.

### Workspaces, AuthSessions, DesignReview

A request's reads and checks are one step and its commit another, without a lock in between, as the
ORM session behaves: the first step builds the unit of work (`work`, `auth`, `edit`), the second
applies what the ORM writes, that is the rows to insert and delete and the columns that differ from
what was read, on whatever the rows hold by then. `Committable` is what the database checks. `stale`,
`left`, `collided`, `muddled`, `overlaps`, `crossed` are history: they mark the races that
the properties exempt, so that a property says that nothing else breaks it. `DesignReview!Ends`
couples a commit of `Workspaces` with the cascades into sessions and design.

## 3. Runs

| Run | Instance | What it shows |
|---|---|---|
| `outbox_relay` | 3 events, 2 relays, batches of 2, 2 faults (61 500 states) | rows are published only when streamed, for good, in the end; each fault costs one duplicate at most; `ReliableRelay` is implemented, liveness included |
| `message_store_send` | 2 users, 2 conversations, the same client id in both and by both users, 2 requests at a time (28 700 states) | numbering without gaps, answers that stay true, one message per client id, one event per message, every request returns |
| `message_store_acks` | 3 requests at a time, 2 messages, deletion, a paging reader with limits 1 and 2 (about 300 000 states) | one delivered event per row, rows read exactly up to the cursor, the cursor never moves back, paging skips nothing |
| `delivery_duplicates` | an event written twice, 2 recipients, 2 workers, 2 faults, 1 overrun (130 000 states) | duplicates and lost delivery marks are bounded by the faults |
| `delivery_promise` | all kinds of entries, 2 workers, 1 fault (25 500 states) | nothing is acknowledged unserved, everything in the end, `ReliableRelay` is implemented |
| `design_generation` | 2 generations, 1 edit, deletion, 2 workers, 2 faults (43 700 states) | completed designs have output, generating is never for nothing unless a request was given up in one of three ways, and a request that was not brings it to an end |
| `notification_queue` | 1 item, 2 workers, 2 attempts, 2 devices, any 2 of faults, overruns, early entries (118 000 states) | nothing is dropped, rounds and repeated pushes are bounded by faults, everything is settled in the end |
| `realtime_session` | 2 connections, 2 messages, 1 number of other conversations, pages of 1, 1 fault (2.2 million states, 3 to 4 min) | which messages a client can miss, when a connected user can be offline, and that who is gone becomes inactive |
| `workspaces_and_review` | 3 requests, 2 at once, of 2 users, 2 workspaces (500 000 states) | an admin remains, sessions end, links, keys and discussions work, approvals have an owner, each with its one exempted race |
| `export_jobs` | 3 requests, limit 2, 1 key, 2 workers, 1 fault, 1 expiry (5.6 million states, 2 min) | limits end, a key makes one job, what is stuck was lost to a fault |
| `generation_lost_message` | 1 generation, 1 fault | *violated*: a generating design without a message |
| `generation_history` | 3 generations, 2 workers, no fault | *violated*: a version overwritten without a snapshot |

**Bounds.** `MaxFaults`, `MaxOverruns`, `MaxRequests`, `MaxEdits` bound the counters; sends are bounded
by the client ids, page sizes by `PageLimit`. Two processes suffice for the races listed in the
hazards, since each is between a process that holds stale knowledge and one that changed the state;
acknowledgements get three, because a read, a delivery mark and a send can all be open. Three events
with batches of two make a relay claim a full and a short batch and leave a row for the other. Two
faults make one recovery fail in turn. Two recipients show a hand-over that fails for one of them. The
bounds on duplicates are stated against the number of faults and proved for any. A notification needs two attempts for its count to matter and two devices for one to fail, and two
troubles for a fault to hit the recovery from another; so does a generation, where a second error can
hit the branch that handles the first. In `RealtimeSession` two connections let one
register while the other is being unregistered, and pages of one message make two a full page and a
rest. `MaxOthers` bounds the events under way as a message of another conversation comes, and one number,
below the last of this conversation, shows a cursor moved before and after what it passes was written.
A third message, with which a later one can overtake the rest of a replay that was cut short, is
left to the proof of `HolesExplained`, which holds for any number of messages. Two users and two
concurrent requests are an admin acting on an admin; the third request, after them, lets one of the two
be a consequence of an earlier commit. Three export requests are the limit, one above it and a repeated
key.

**Symmetry** is used only in runs without liveness, over workers, relays or requests, which no
definition tells apart. `CHECK_DEADLOCK FALSE` is set where the instance runs out of events,
commands or requests; that a request or entry is not stuck half-way is checked as liveness instead.

**Fairness.** The `run_*_worker.py` runners call `process_once` in an endless loop and are restarted
by the deployment: weak fairness of a worker's next step. Redis and PostgreSQL clocks advance: weak
fairness of the time-outs of rows and entries nobody holds. The generation workers take nothing over,
and no fairness makes them. PostgreSQL queues lock waiters in order,
so a request whose lock is given up again and again gets it: strong fairness of a request's steps.
Redis expires keys that nobody refreshes and promotes nothing by
itself, but a delayed entry falls due and every worker promotes first: weak fairness of `Expire` and
`Promote`. A gateway that began to close a connection goes on (`Count`, `DeleteSet`), unless it
crashes. Errors, crashes, overruns and everything clients decide to do are never required to
happen; they are finitely many, since nothing is promised while Redis is down for ever.

## 4. Findings

* `docs/ARCHITECTURE.md` (lines 47 to 52) says that creating a design writes the generation request
  to the outbox in the same transaction and that a record without a message never happens.
  `create_design_for_user` commits first and adds the entry to Redis itself afterwards; run
  `generation_lost_message` shows the design that says generating and has no message. The outbox is
  used by messaging only. `GeneratingIsUnderWay` lists the other ways to a design that says generating
  for ever: the two errors of the worker described below.
* `models/design.py:72` says that every regeneration is preceded by a snapshot. The worker reads the
  output it archives without a lock long before it commits. Run `generation_history` shows two workers
  with two regenerations of one design archiving the same version; the one written in between is lost.

Not findings, since no doc, comment or test says otherwise, but worth knowing; each is what a
property above exempts by name:

* the generation worker claims entries that have been pending for a minute and drops them: the
  comments at `generation_worker.py:231` and `:241` say what is meant ("Autoclaim entries that have been
  pending for more than 60 seconds", "handle both redis-py 4/5 return types"), but the answer of
  XAUTOCLAIM is a list and line 242 asks for a tuple. What a worker had when it died is never run. The
  delivery and notification workers index the answer and do take over (`EventuallySettled`);
* an error of the database while the same worker writes a failure is passed over
  (`generation_worker.py:221`) and the entry acknowledged: the design stays generating and no message
  is left (`GeneratingIsUnderWay`);
* a message of another conversation moves the cursor of the conversation a client shows
  (`use-realtime-messaging.ts:75`), which therefore may not ask for what it has missed, and is itself
  added to the list of messages, where it does not belong (`HolesExplained`, the cursor only);
* two reviews that cross merge column by column, and a key generated while its predecessor is being
  revoked is stored as revoked (`ApprovedHasOwner`, `GivenKeyWorks`);
* two logouts or resets that cross increment `token_version` once, and a token given out in between
  stays valid (`EndedForGood`);
* a client misses messages that reach the stream between two reads of its forwarder, that exceed a
  page of a sync, that a later one overtakes before the welcome, or, after a replay that was cut
  short, before the client asks for the rest; the later one may belong to any conversation
  (`HolesExplained`);
* what an export worker had read when it died is never taken up again (`StuckNeedsFaults`).

## 5. Proofs

TLAPS checks these for every value of the constants that satisfies the modules' `ASSUME`s (batch
sizes are positive, events are natural numbers as primary keys are, memberships and commands are
typed, stream entries with one subject are copies of one event, since only the relays write them).
Numbers of processes, users, conversations, events and faults are arbitrary, even infinite.

* `OutboxRelayProofs`. Type correctness; `PublishedIsStreamed`; `OnlyCommittedIsStreamed`;
  `PublishedIsFinal`; `Spec => Promise!Safety`. `PublishedIsStreamed` is not inductive: a relay about to
  mark a row must know that its XADD happened, and it may not be the relay that holds the claim.
  `RelayInv` adds that an event being marked is streamed and that relays hold only rows that were
  claimed once, whoever holds them now. `DuplicatesNeedFaults` is proved with a debt (`DebtInv`): the
  copies of an event, the relays that hold it and have not done their XADD, and one for the row while
  it can be claimed without a fault, never exceed one more than the faults. Each step but a fault pays
  what it makes somebody owe; a claim moves the debt from the row to the relay.
* `MessageStoreProofs`. Every safety property of the module: type correctness; `GapFree`;
  `AcceptedIsDurable`; `RetriesAgree`; `SyncHasNoHoles`; `ReadUptoCursor`; `ReadEventsAscend`;
  `CreatedOnce`; `DeliveredOnce`. Numbering
  needs that a request past `SendAllocate` carries the conversation's next number and that no two such
  requests are in one conversation (the row lock); `RetriesAgree` needs that committed messages are
  unique by sender and client id, which the insert waits and checks for. `SendInv` collects this, and
  the rest builds on it. Since seqs have no gaps, a page is an interval right after its anchor
  (`PageIsInterval`). `ReadInv` says that a target chosen under the lock on the member's row is still
  ahead of the cursor at the commit (`TargetAhead`), and that no cursor is beyond the conversation's
  counter, so a new message is beyond every cursor. `EventInv` says that a request about to commit a
  delivery has a row nobody else is committing and that is not delivered (`DeliverLocks`), and that no
  event carries a seq that is yet to be given out (`EventsBounded`).
* `DeliveryWorkerProofs`. Type correctness; `AckedIsHanded`; `Spec => Promise!Safety`;
  `LostMarksNeedFaults`; `DuplicatesNeedFaults`. `DeliveryInv`
  says what a worker busy with an entry has already achieved: the recipients before its position were
  served, also the one at it once the hand-over is behind it, all of them at `Ack`; a dedupe key is set
  only for a served recipient, which is why a key set by another worker may be trusted; and nobody was
  handed what no entry carries. Type correctness itself rests on it: a position stays within the
  recipients. That entries read are consecutive is a fact about cardinalities of intervals
  (`FirstOfInterval`). `LostInv` is the bound itself with the finiteness of what is lost: a worker is
  the only one about to make its mark, so one fault loses one. `DuplicatesNeedFaults` has a debt again
  (`PaidInv`): an attempt is an entry a worker may still take or one that a worker holds, and owes a
  recipient the message unless its key is set or the hand-over is behind it. The duplicates so far and
  what all attempts owe never exceed the recipients still unserved and the allowance
  (`DuplicatesPaid`). A step moves an attempt from place to place; only an overrun adds one, so a
  message has no more than its copies and the overruns (`AttemptsBounded`), and an expired key makes
  each of these owe once more. That factor came out of the proof: with a bound of one duplicate per
  fault the invariant was not inductive, and a stream of two copies for three users refutes it.
* `DesignGenerationProofs`. Type correctness; `CompletedHasOutput`; `GeneratingIsUnderWay`.
  `GenerationInv` adds that a pending edit implies an output, and `Vouched`: while the design is
  generating, some request is about to queue its entry or lost it, or has an entry whose failure could
  not be written, or one that is unread or pending and whose worker, if any, has not yet passed the
  point where it changes the status. The last is what `GeneratingIsUnderWay` lacks to be inductive: an
  entry that waits for its XACK stands for nothing any more.
* `NotificationQueueProofs`. Type correctness; `NothingDropped`; `RoundsNeedFaults`;
  `PushedAgainNeedsFaults`. `QueueInv` adds what a busy worker knows (`WorkingInv`), that an entry's count is recorded (`RetriesAreRecorded`, from which the last
  attempt is the last), and `AckedCovered`: an acknowledged entry is settled, delayed, or followed by
  a later entry of its item that is not acknowledged. The bounds follow from `PaidInv`: the attempts
  left of a notification are in places, an entry a worker may still take, one that a worker holds or a
  member of the sorted set (`Chances`). The rounds so far and all attempts left never exceed a full
  budget for each notification, fault and overrun (`RoundsPaid`), and the repeated pushes with the
  places that have attempts left never exceed the notifications not yet pushed, the faults and the
  overruns (`PushesPaid`). Each step moves attempts from one place to another or spends one; only a
  fault or an overrun leaves them in two places.
* `ExportJobsProofs`. Type correctness; `LimitExpires`; `OneJobPerKey`; `StuckNeedsFaults`. A key
  that is not taken was never taken or has expired, so `KeysCounted` relates those admitted to the key, its expiries and the
  faults; the cardinalities are those of the library's `FiniteSetTheorems`. `StuckInv` counts a job as
  doomed when the worker acknowledges its entry, a step before it is stuck, leaves out expired
  records, and adds that whoever writes a record knows its owner (`OwnersKnown`).
* `RealtimeSessionProofs`. Type correctness; `OnlineWhileConnected`; `HolesExplained`. For the second:
  without faults and overlaps the connection's keys are all there and nobody is about to delete them
  (`Registered`), so whoever counts next counts this connection too. `HolesExplained` looks only below the cursor and is not inductive; `HolesInv` looks
  at all messages: one that the client neither shows nor met a way of losing is on its way, or is
  above the cursor of a client that still awaits its welcome or is not connected. It needs the types
  of log, stream and wire (`ConversationInv`, `WireInv`) and the order of the greeting (`GreetingInv`):
  before the welcome a client can only be told of new messages, of this conversation or another
  (`Early`). A message of another conversation may move the cursor at any time, so a message that is
  wanted is kept apart from the cursor as soon as it is on its way; only before the welcome, and while
  the client is away, does the cursor decide whether it will be asked for. The proof found that the model left
  out one of the ways, a replay that is cut short; with two messages TLC could not see it. Type
  correctness rests on both invariants and on a bound for what the client sends ahead, which bounds
  what a connection leaves behind (`RestTypeOK`).
* `DesignReviewProofs`, about the composition. `AdminUnlessStale`: a unit of work that takes an
  admin's role aims at one row, of somebody else than the admin it was checked by (`Sound`), and stays
  so while other requests commit, because row ids are never given out twice; at its commit that
  admin's row survives or the workspace is marked. `EndedForGood`: no token or request holds a version
  above the row's (`VersionsAscend`). `GivenKeyWorks`, `GivenOutWorks`, `ApprovedHasOwner`: what an
  open request may write, given what it read (`EditSound`, `KeyKept`). `SessionsComeFromLogins`: a
  commit ends a session for every one it issues but at a login or a race it marks. `TypeOK` of the
  composition: the rows of members get numbers one by one, and the requests under way still fit below
  the bound (`WorkspacesInv`); a version was read before its request was counted (`SessionsInv`).
  Assumes finitely many users.

Every invariant and action property that a run checks is stated by a theorem, and so are the type
invariants; those are not repeated in a run, except that of `DesignReview`, which covers three
modules. Only model-checked: all liveness, of the modules and of `ReliableRelay`, since fairness and
`ENABLED` are beyond the prover, and the two violated properties of section 4.

## 6. What is not modelled

* The trimming of streams at `stream_maxlen_approx`: streams are taken to stay below it.
* Which of the two ways a message takes to a recipient (presence lookup) within `DeliveryWorker`: both
  are one hand-over there. `RealtimeSession` has the lookup.
* Message contents, validation of payloads beyond the kind of entry, metrics and logging.
* Other conversations in `RealtimeSession`, but for the cursor: their logs, syncs and messages shown. The
  panel is used on the page of one design (`app/dashboard/designs/[id]/page.tsx`), so it changes its
  conversation with the page. `lastServerSeqRef` follows `lastServerSeq` in an effect after the next
  render: a sync may ask from an older cursor, which only asks for more.
* The counter in memory to which the rate limiter falls back in development (`rate_limiter.py:31`): the
  request stops there, as in production. `TrackJob`'s three commands and the two of a heartbeat are one
  step each; between the latter only the expiry of a key could show, and the second writes it again.
* Deleting an account, a message or a device while a notification waits: `record_attempt` would raise
  for it time and again, so that `NotificationQueue!EventuallySettled` is about accounts that stay.
* The time zone of `refresh_sessions.expires_at`: `auth/service.py:103` compares it with a naive time,
  which raises on PostgreSQL. `AuthSessions!Rotate` succeeds, as it does where the column is naive, and
  so the model allows more.
* Membership changes of conversations: nothing in the code sets `left_at`.
* Acknowledgements and typing in the gateway: they call `MessageStore` or change nothing.
* Names, budgets, profiles, themes, notes and comments: single columns or rows that nothing else
  depends on. Quotas count as the rate limit does, by other amounts.
* The versions routes, which only read what `DesignGeneration` archives.
* What a language model returns, schema repair, fallback text, rendering, export formats, scaffolds,
  cost tables, routes, user interface, migrations: one call that returns or raises, or no state.
* The time between the reads of one request: they are one step, its commit another.

## 7. Plan

Done, in this order: `MessageStore`, `OutboxRelay`, `DeliveryWorker`, `DesignGeneration`,
`NotificationQueue`, `RealtimeSession` with `Presence`, `ExportJobs`, `Workspaces` with `AuthSessions`
and `DesignReview`, and a proof module for each, with the bounds that count over faults last. What is left,
by value:

1. An abstract specification of the attempt budget that `NotificationQueue` implements; the debt in
   `NotificationQueueProofs` is its refinement mapping.
2. The trimming of streams, as a loss the relays may suffer, once a backlog is a concern.

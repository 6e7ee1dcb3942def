# Spark Push in TLA+

Spark Push is an instant-messaging server with agents: three C++ processes (Logic, Comet, Job)
around Kafka, MySQL and Redis, and an optional bridge to an agent runtime. This directory holds
TLA+ specifications of the parts on which "no accepted message is lost, none is numbered twice,
none is skipped by a reader, and none goes to somebody who may not read it" depends, TLC
configurations for small instances of them, and proofs with TLAPS, up to the theorem that carries
an accepted message through all the writers to its readers. The specifications follow the C++ sources; `PROJECT.json` names
the lines that each definition stands for.

## 1. The system

    client --WebSocket--> Comet --MessageStream--> Logic --+-- MySQL: message, session,
       ^                    ^                        ^     |          message_sequence, message_reservation
       |                    | PushStream / Unary     |     +-- Redis: tokens, routes, cached positions
       |                    |                        |     +-- Kafka: persist, push_*, broadcast, ai_request
       +--------------------+-- Job <----------------+-----+
                                                     +-- hermes_bridge (ai_request -> ai_reply)

| Component | State it keeps | Operations | Hard behaviour | What makes it correct |
| --- | --- | --- | --- | --- |
| Reservation and outbox (`logic/message_reservation.cpp`, `PersistToTopic`, `outbox_recovery`) | `message_sequence`, `message_reservation` with its stages | reserve, prepare, publish, mark persisted, seal, collect, scan and resend, safe prefix | retries, abandoned waits, a recovery timer beside Submit and the Job, crashes between any two statements | a number stands for one message; an accepted message is never lost; nothing appears below the safe prefix |
| Direct append (`logic/conversation_store.cpp`) | the same tables | reserve, insert, mark, advance | no outbox and no mutex between statements | no collision with the outbox, nothing below the safe prefix |
| Job persistence (`job/service.cpp`) | offset, message table, DLQ | insert with comparison, mark, advance, dead-letter | redelivery, partial failure | idempotent; the DLQ catches the rest |
| Kafka consumer (`common/kafka_consumer.cpp`) | polled records, lanes, offset, `failed_` | poll, handle, dead-letter, commit, halt | three loops, parallel lanes, rebalancing, restart | commits only what is settled, keeps a session's turns in order, leaves nothing behind |
| Kafka producer (`common/kafka_producer.cpp`) | deliveries awaited | SendAndWait | late and lost reports | "confirmed" means it is in the topic |
| Job push (`job/service.cpp`) | queue, pending table, completions, stream | queue, write, read replies, reconnect, time out, Unary fallback, acknowledge | three kinds of thread and two locks per request; reconnection under other requests | an offset moves on success only after Comet's fan-out; nobody waits for a reply that cannot come |
| Comet push reception (`comet/comet_grpc_service.cpp`) | in-flight and recent request ids | accept, complete, forget, fan out | stream and Unary calls overlap, crash | one fan-out per request id it remembers |
| Comet upstream stream (`comet/comet_server.cpp`) | queue, pending callbacks, streams | send, expire, reconnect | a callback claimed by four threads | each client request is answered once |
| Comet connections and routes (`comet/comet_server.cpp`, `logic/redis_store.cpp`) | connections, route generations and leases | handshake, open, close, offline notice | an old close against a new connect, answers and notices out of order, crash | the newest registration keeps the route; no route is left behind unnoticed |
| Comet rooms (`comet/comet_server.cpp`) | room members, join and access generations | join, leave, push, revoke, revalidate | memberships asked for by many threads and out of date when used | nobody outside a room receives its messages |
| Positions (`user_session_state_dao.cpp`, `conversation_service.cpp`) | read_seq, delivered_seq, receipts, caches | mark, advance, offline sync, cursor sync, unread | several devices and Comets report out of order; pages against a moving position | positions never move back and never pass an undelivered message |
| Web client (`web_demo/static/index.html`) | cursor, seen numbers, buffer, history page | receive, sync, show, park, reconnect | pushes and sync pages interleave on one socket, the conversation leaves the screen, limits | the cursor skips no stored message |
| Agent request and reply (`hermes_bridge`, `hermes_reply.cpp`, `HandleHermesReply`) | reply cache, agent rows | consume, run, publish, confirm, store | redelivery, restart | one stored reply per request |
| Room agents, tasks, workspaces; media; rooms and users; attachments; danmaku; knowledge; admin | revisioned MySQL rows, files | create, read, update, delete | MySQL's own isolation | revision checks |
| Pools, configuration, metrics, front ends, deployment, clients, Python gateways, inference | none that the properties are about | | | |

`PROJECT.json` lists every component with its sources, and under `hazards` the steps of this code
that a test would hardly reach, each with the properties that would catch it going wrong.

## 2. Modules

| Module | Models | Extends |
| --- | --- | --- |
| `StableLog` | abstract: a log whose entries never change and whose settled prefix only grows and never gains an entry | |
| `MessageOutbox` | Submit, HandleHermesReply's reservation, the outbox tables, SendAndWait, the broker, the recovery thread, the Job, the DLQ and its replay | |
| `MessageOutbox_proofs` | the inductive invariants of the outbox alone and with direct appends, and thirteen theorems | `DirectAppend`, `Extrema`, `TLAPS` |
| `DirectAppend` | `AppendMessage` beside all of the above | `MessageOutbox` |
| `OrderedTopic` | abstract: a partition whose records are settled in their order, with an offset that stands only behind settled ones | |
| `DurableConsumer` | one partition, the members of its group, the three loops of `KafkaConsumer` | instance of `OrderedTopic` |
| `DurableConsumer_proofs` | two inductive invariants and four theorems | `DurableConsumer`, `TLAPS` |
| `PushDelivery` | the Job's consumer, writer and reader threads of one Comet, and Comet's handlers | |
| `PushDelivery_proofs` | three inductive invariants and six theorems | `PushDelivery`, `TLAPS` |
| `DeliveredPosition` | AdvanceDelivered with its receipts, the offline resync, pushes and their reports | `StableLog` |
| `DeliveredPosition_proofs` | the inductive invariant and three theorems | `DeliveredPosition`, `Extrema`, `TLAPS` |
| `CursorSync` | the web client's cursor, buffer and history page, RequestCursorSync and SyncAfter | `StableLog` |
| `CursorSync_proofs` | the inductive invariant and two theorems | `CursorSync`, `Extrema`, `TLAPS` |
| `UserRoute` | handshakes, route generations and offline notices of one user on one Comet | |
| `RoomAccess` | joins, pushes, the watchdog and revocation in one room, over those connections | `UserRoute` |
| `RoomAccess_proofs` | the inductive invariants of the routes and of the rooms over them, and seven theorems | `RoomAccess`, `TLAPS` |
| `Conversation` | the writers of `DirectAppend` with one reader: `DeliveredPosition` and `CursorSync` over their table | `DirectAppend`, instances of the two |
| `Conversation_proofs` | the composition, and five theorems | `Conversation`, `MessageOutbox_proofs`, instances of the readers' proofs |
| `Extrema` | lemmas about Min and Max for the proofs | `TLAPS` |
| `MC*` | values for TLC: sets of model values, start states, views | one each |

**MessageOutbox.** One conversation. `lastSeq`, `stage`, `original`, `stored` and `sessionLast`
are the SQL columns of the same names by `msg_seq`; `Gone` stands for a row that is not there. One
SQL transaction or autocommit statement is one step, so a crash (`LogicCrash`, `JobRestart`) falls
between any two of them. Submit is `ReserveAgain`/`ReserveFresh`, `Prepare` (UPDATE), `ReadBack`
(SELECT and produce), a wait, and `Accept` (Published and `accepted_ack`); every failure, including
the timeout of SendAndWait, is `Refuse`, after which the record stays in librdkafka with no owner.
`Submitters` hold the KeyedMutex, `Repliers` (HandleHermesReply, another Logic process) do not.
The recovery round is `Seal`, `Collect`, `Scan`, then `Resend` and `ResendConfirmed` per record,
with `Break` where the code breaks. `SafePrefix` is the SQL's LEAST of two: the counter (the greatest
row only while there is no counter) and one less than the first unsettled reservation. `lastSeq` is 0
exactly while the session has no `message_sequence` row, for ReserveImpl creates it and counts in one
transaction. Numbers that the older allocator gave out and that have no row yet are not in `Init`, as
the comment in ReserveImpl asks for (the old backlog is drained before the migration).
ReservePublished, which is not modelled, may leave a row whose last_seq is 0: the SQL's prefix is
then 0, which is lower than the model's and passes nothing. The Job is `Insert`, `MarkPersisted`, `AdvanceSession`,
`Commit`, with `Fail` and `DeadLetter`.

**DirectAppend.** The four statements of AppendMessage, interleaved with everything in
MessageOutbox. `Grace` says whether an append ends within the 10 minutes that Pending waits
before it seals.

**DurableConsumer.** `opt` is the deployment's Options; `pending[c]` is the record, batch or deque
of a member; a record is polled, running, done or lost. The attempts, the callback and the DLQ are
one running phase with the outcomes `Handled` and `Unhandled`. The coordinator may give the
partition to another member at any time (`Assign`), while the old member goes on with what it has
polled and is refused its commits.

**PushDelivery.** One Comet, one consumer thread per topic that pushes to it. A completion
(`PromiseState`) is named by request and attempt, because an attempt makes a new one under the
same request_id. Steps are cut where the code takes or releases a lock: `Timeout` takes the entry
out of `pending`, `Expire` settles the completion; `Receive` takes the entry, `Give` settles;
`Register` and `Write` are two. `stream` is the transport, `broken` the Job's opinion of it.
ReconnectStream is one step, for the writer is the only thread that runs it and it blocks. Calls
whose caller has gone stay as `lost` until Comet is done with them.

**DeliveredPosition.** One user and one conversation; `StableLog` moves the table and the safe
prefix under it, as `MessageOutbox` is shown to do. `delivered` and `receipts` are the two SQL
tables; `AdvanceDelivered` is one transaction under the lock of the position's row, and is a step of
`Report` (MarkDelivered, any number of times, late or never) and of `Start` (SyncOffline asks with
receipt 0). The resync task of a handshake is `Connect`, then per page `Start`, `ReadPage`,
`PushNext` and `NextPage`, with `PushFails` at any point. `Push` is a live push, which may come
before its row.

**CursorSync.** One conversation of one page of the web client, and the socket as a sequence of
frames (`wire`). The variables are the client's maps at that conversation. Each handler of
`index.html` is one step, for JavaScript runs it to its end: `ReceiveMessage`, `ReceiveSyncEnd`,
`Timer` (1 s after a gap), `Reconcile` (every 5 s), `Show`, `Park`, `LoadHistory`, `LoadFails`,
`Connect`, `Disconnect`, `Logout`. An answer to a sync takes two steps, `ReadPrefix` and `Answer`,
since SyncAfter reads the safe prefix before the rows; it may stop before any frame that cannot be
queued.

**UserRoute.** `counter`, `lease` and `routed` are the three keys of Redis, changed by the two
scripts as single steps; `call`, `gen` and `late` are VerifyToken calls, the last those that Comet
gave up and Logic still handles; `notices` are UserOffline calls under way, in any order. A handshake
is `Handshake`, `Verify`, then `Open`, or `CleanupAuthenticatedRoute` if the connection went
meanwhile, or `Refuse`. `Close` is OnConnection; `Crash` kills the Comet.

**RoomAccess.** Three kinds of thread ask Logic for the membership: a connection's join, the
watchdog of every second, and a push to the room. Steps are cut at the lock: a join is `Join`,
`CheckJoin`, `FinishJoin` (the generations are compared) and `AddUserToRoom` (the lock is taken
again); a revocation is `Revoke` (the access generation moves), `Remove` (the room loses the user,
a callback is queued per connection) and `Bump` in the loop of each. `stale` says that the access
generation has moved since a request read it: it is the outcome of the comparison with which a
queued push is dropped in the loop (`comet/comet_server.cpp:710`), and sending itself is left out. While a loop is inside the join's callback it takes no
other step of that connection (`Idle`). `RoomSpec` implements `UserRoute!Spec`, which is a theorem,
so what is proved of routes holds here.

**Conversation.** The readers' modules stand on an abstract log and push whatever is not below its
prefix; here the log is the message table and SafePrefix of the writers (`rows <- stored,
prefix <- SafePrefix`), and what is pushed is what they sent. `Write` is any step of the writers.
`LivePush` is a push of a number that has a row or is in the persist topic, as Submit and
HandleHermesReply give it to the realtime topics after PersistToTopic, and SendDanmaku after its
row; the Job, PushDelivery and Comet between them may delay, repeat or drop it. PushToUsers
(`ToConnections`) sends to every connection of the user, so the pushes of a resync
(`OfflinePush`) reach the web client too. `Position` and `Sync` are the remaining steps of the two
readers.

### Abstractions

- The clock is left out. "Older than 10 minutes", "older than a day" and every deadline may be true
  at any time, so each real timing is one of the model's.
- A message is a pair of a deduplication key and a body. The outbox payload is a function of the
  canonical message and is not stored twice. Empty client_msg_ids (direct append) are fresh keys.
- `MaxCopies` bounds the equal records in the topic, `MaxHistory` the rows older than the counter,
  `MaxFaults` the crashes and broken connections (PushDelivery).
- PushDelivery keeps of a fan-out only whether somebody or nobody got it; two lost calls of one
  request that Comet has not begun count as one; a reconnection to a Comet that is down fails or
  yields a stream that breaks. The failure of a commit is left to DurableConsumer.
- CursorSync's `base` and `dropped` are history: rows below the lower edge of the first history page
  are not the cursor's business (older pages are loaded by scrolling), and the one kind of message
  the client may lose is one that found `pendingLiveMessages` full, for which it asks again after
  `recover`. The clock of a sync request (15 s) is left out: any request may be that old.
- UserRoute takes one user on one Comet: other Comets are other members of the user's set of routes.
  The token is drawn with the generation, so one number stands for both. Closing a connection is
  one step, although the code takes the lock for `user_conns_` and again for its rooms.
- `MaxGen` bounds the registrations, `MaxBumps` the callbacks queued for one connection, `MaxAsked`
  and `MaxWire` the requests and frames under way.
- Views and symmetry: `WithoutSessionLast` leaves out a variable that no step reads without older
  rows; keys and bodies are only compared, so they are permuted where no liveness is checked. `Merged` (CursorSync) leaves out what a disconnected client
  resets when it connects, and merges `shown` with `dropped`, between which no step distinguishes.

## 3. Runs

| Run | Bounds | Shows |
| --- | --- | --- |
| `outbox_safety` | 2 numbers, 2 keys, one Submit thread, recovery, Job | `TypeOK`, `AcceptedIsDurable`, `SealedNeverSent`, and the refinement `ImplementsStableLog` |
| `outbox_contention` | 1 key with 2 bodies, a Submit thread and a writer outside its mutex, 1 older row | `OneMessagePerSeq`, `AcceptedIsDurable` |
| `outbox_recovery` | 2 prepared numbers left by a crash, rounds of 1, 2 copies of a record in the topic | `PreparedIsSettled` (liveness); `SentStaysAhead` and `ImplementsStableLog` while dead letters are replayed |
| `direct_append` | 2 appends, 1 outbox number, 3 keys, grace kept | `NoCollision`, `WritersStayAhead`, `ImplementsStableLog` |
| `direct_append_late` (violation) | 2 appends, grace not kept | the safe prefix is overtaken |
| `consumer` | 2 members, 3 records of 2 keys, one of them a control record, windows of 2, 2 lanes, three loops | `TypeOK`, `CommittedIsSettled`, `TurnsInOrder`, the refinement `ImplementsOrderedTopic`, `EveryRecordIsSettled` (liveness) |
| `consumer_best_effort` (violation) | 1 member, no DLQ | an offset passes a record that failed |
| `push_retry` | 1 record, 2 Kafka attempts, 2 Unary and 2 write tries, queue of 1, 2 faults | `TypeOK`, `HandledIsProcessed`, `AckedIsDelivered`, `FannedOutOnce`, `WaitersAreWoken` (liveness) |
| `push_shared` | 2 threads, queue and deduplication of 1, 1 fault | `HandledIsProcessed`, `InFlightIsBegun`, `RegisteredIsOwed` |
| `delivered_position` | 3 numbers, pages of 1 row | `TypeOK`, `DeliveredWasHanded`, `ResyncIsComplete`, `PositionCatchesUp` (liveness) |
| `cursor_sync` | 3 numbers, 2 and 3 stored and 1 on its way at the start, every limit 1, 2 requests and 2 frames under way (constraint `Small`) | `TypeOK`, `CursorSkipsNothing` |
| `comet_rooms` | 2 connections, 2 registrations, the watchdog and one push thread | `RoomTypeOK`, `NewestIsRouted`, `RouteHasOwner`, `EvictedStaysOut`, `EvictedGetsNothing`, `RemovedMemberLeaves` (liveness) |

Why the bounds are enough: the interesting cases of the outbox need a number below another one
(two), a key used twice with another body (one key, two bodies), and a Job, a recovery round and a
Submit that hold the same record at once; two numbers give all of them. Only `outbox_recovery` keeps two
copies of a record in the topic, so that a dead letter can be replayed; elsewhere a further copy is
consumed like the first. The consumer needs a key
with two records, another key between lanes, and a second member; the window of two is smaller
than the three records, so batches follow one another. Pushing needs an attempt after a lost one
(two attempts) and a second request on the same stream (two threads); with a queue and a
deduplication of one place both limits are met. A position needs a row
that was reported, one before it that was not, and one that is settled without a row: three
numbers; with pages of one row each resync has pages between which the position moves. A cursor
needs a gap with messages on both sides of it, which is where `GapSpec` starts; with every limit
at one, the seen set overflows, the buffer drops, a page has a successor and an old request
answers beside a new one. Routes need an older and a newer connection with their notices in both
orders, rooms two threads that revoke or ask beside a join; both are proved for any number. Every property has a mutant of the code in
`PROJECT.json` that violates it under the same configuration.

### The disagreements

- `direct_append_late`: AppendMessage needs no Kafka, so the argument with which Pending seals raw
  reservations ("cannot have reached Kafka", `logic/message_reservation.cpp:176`) does not cover
  it. An append that stalls for over 10 minutes puts its row below the safe prefix.
- The same trace shows that `SafePrefix` is not the LEAST of three that its comments describe
  (`logic/message_reservation.h:88-91`, `logic/message_reservation.cpp:196-198`): once the session
  has a counter, the SQL (lines 205-209) no longer looks at MAX(msg_seq). When number 1 is sealed and
  the table is empty the prefix is 1, where the documented minimum is 0. So the prefix is not "what is
  certainly stored" but "what will not change": a number at or below it has its row or never gets
  one. That is what `ImplementsStableLog` says, and it holds of the outbox, where a sealed number was
  never sent (`SealedNeverSent`).
- `consumer_best_effort`: `job/service.h:38` and `job/service.cpp:200` say that a failed push is not
  committed and is replayed. The push consumers have no DLQ, and a consumer without one commits a
  record after its last attempt.

### What holds less than its comment suggests

Reading the code for a property also showed where it must be stated with care:

- `logic/redis_store.h:62` wants a generation so that no user is online and receives nothing. What
  holds is `NewestIsRouted`. An online connection may still be without a route: the answer to a
  connection k1 (generation 1) is under way, k2 registers (generation 2), opens and closes, its
  notice is handled and the route goes; then k1 opens with generation 1. Only a connection older
  than the last registration is exposed to it.
- A recovery round reads the oldest prepared records first and stops at its first failure
  (`logic/main.cpp:492-507`). `PreparedIsSettled` assumes that failures end. A record whose resend
  fails every time keeps all younger ones waiting, and no property claims otherwise.
- A join compares the access generation in one critical section and enters the room in another. A
  user revoked in between is in the room (`slipped`) until the next watchdog round takes him out.
  `docs/collaboration-spaces.md:101` promises no more than that (`RemovedMemberLeaves`), and
  lines 103-104, that queued pushes are dropped, hold as stated (`EvictedGetsNothing`).
- `docs/reliability-optimization.md:81` describes delivered_seq as GREATEST of the reports. The code
  advances over contiguous receipts only, which is the stronger rule, and `DeliveredWasHanded` needs
  it: its mutant is GREATEST.

### Fairness

- `MessageOutbox!FairSpec`: the 1 s timer (`Recover`), the Job's thread and librdkafka's delivery of
  what recovery sent take steps; failures (`Trouble`) happen any number of times, not for ever.
  Submitters have no fairness: a client may leave at any time, which is the case of interest.
- `DurableConsumer!FairSpec`: loops run, a halted process exits (both `main` functions poll
  `Failed()` every 200 ms and return 1) and its orchestrator restarts it, a partition nobody holds
  is assigned; crashes, refused commits, unconfirmed dead letters and takeovers end.
- `PushDelivery!FairSpec`: the writer, the reader and Comet's handlers run. A handler always ends,
  for its RPC to Logic has a deadline of 1 s. There is no fairness on `Timeout`, `Break`,
  a crash, or the success of a reconnection, and none is needed: `WaitersAreWoken` says that a wait
  ends even if its deadline never fires.
- `DeliveredPosition!FairSpec`: the user comes back now and again, a resync goes on, its failures
  end, and of what is reported again and again a call succeeds. None of it is promised by the code:
  it says under which conditions no receipt, gap or covered row can hold the position for ever.
- `RoomAccess!RoomFairness`: the watchdog is a loop that the Comet runs until it stops; its calls do
  not fail for ever (strong fairness of `CheckThread`); the event loops run the callbacks queued for
  them and end the join they are in. Nothing is assumed of pushes, joins or clients.

`CHECK_DEADLOCK FALSE` stands in the two push configurations only, where the system stops once the
records are consumed.

## 4. Proofs

`MessageOutbox_proofs`, for every finite or infinite set of threads, keys and bodies and every
bound allowed by `OutboxAssumption`:

| Theorem | Statement |
| --- | --- |
| `TypeCorrect` | `Spec => []TypeOK` |
| `AcceptedStaysDurable` | `Spec => []AcceptedIsDurable` |
| `NumbersAreUnique` | `Spec => []OneMessagePerSeq` |
| `SealedIsSafe` | `Spec => []SealedNeverSent` |
| `OutboxImplementsStableLog` | `Spec => ImplementsStableLog` |
| `SentMessagesStayAhead` | `Spec => []SentStaysAhead` |

None of these invariants is inductive. The one that is, `IInv`, says: the types; whatever exists of
a number (`Agree`: row, reservation, records in memory, in flight, in the topic, in the DLQ) is one
message; a reservation's stage bounds what may exist of it (`RawHasNoRow`: raw and sealed ones have
no row; `StageAgrees`: persisted ones have one) and no number above the counter is used;
what each sender and the Job hold agrees with the place they are at (`SentAgrees`, `JobAgrees`); a
confirmed report is of a record in the topic (`ReportsAreTrue`); and `AcceptedIsDurable`. The
proof that a step preserves it goes action by action. The refinement follows: a row appears only
for a record that was sent, such a reservation is unsettled until its row is there, and an unsettled
reservation keeps the safe prefix below it; nothing else does, for the counter is already past the
number. The prefix does not move back (`SafePrefixGrows`): the counter only grows, the first
reservation takes over from the greatest row at or above it, and a new reservation follows the counter. `SentStaysAhead` says that of everything on its way,
whichever of librdkafka, the topic, the Job, the DLQ and an operator's replay holds it: it is what
a reader needs that was pushed a message before its row exists.

The same module has the theorems of `DirectAppend`, with any number of appenders beside that outbox:

| Theorem | Statement |
| --- | --- |
| `AppendsNeverCollide` | `DirectSpec => []NoCollision` |
| `AppendsKeepAccepted` | `DirectSpec => []AcceptedIsDurable` |
| `AppendsKeepNumbers` | `DirectSpec => []OneMessagePerSeq` |
| `AppendsKeepSentAhead` | `DirectSpec => []SentStaysAhead` |
| `AppendsStayAhead` | `Grace => (DirectSpec => []WritersStayAhead)` |
| `AppendsKeepStableLog` | `Grace => (DirectSpec => ImplementsStableLog)` |

An append writes its row while its reservation is still raw, so `RawHasNoRow` is lost and
`DirectInv` does without it: `DirectAgree` extends `Agree` by what the appenders hold, and
`AppendsAgree` says that an append past its insert has its row and, given `Grace`, that the
reservation of one before it is unsettled. The run `direct_append_late` shows that `Grace` is
needed; the other theorems but `AppendsStayAhead` do without it: a late append costs only its own
readers. `WritersStayAhead` adds to `SentStaysAhead` the appends that have a number and no row yet.
`DirectTypes`, the types of `DirectAppend`, is proved there for the others to rest on.

`DurableConsumer_proofs`, for any number of members, records, keys, lanes and any window, where
`IsDurable` is a deployment with a DLQ or one of the two loops that halt:

| Theorem | Statement |
| --- | --- |
| `ConsumerTypes` | `Spec => []TypeOK` |
| `DurableCommits` | `Spec => [](IsDurable => CommittedIsSettled)` |
| `TurnsStayInOrder` | `Spec => [](IsDurable => TurnsInOrder)` |
| `TopicIsOrdered` | `Spec => (IsDurable => ImplementsOrderedTopic)` |

The first invariant adds `NoGap`: what the holder of the partition has polled follows its offset
without a gap, and what is done in it is settled. The second, `OrderInv`, is about one member at a
time: a record runs at the front of the deque, or after the records of its key in front of it
(`Turns`), because a key has one lane while a batch is worked on (`SameLane`), and no window is
overrun (`Window`). What is in front of the polled records is settled by the first invariant.
The refinement of `OrderedTopic` puts the two together: a member's `Handled` is a `Settle` by
`TurnsInOrder`, its `Commit` a `CommitTo` by `CommittedIsSettled` of the next state, and polling,
lanes, halts, restarts and rebalances are invisible. The offset of the abstract topic may move
back, for a member that had the partition, lost it and has it again may commit what it polled
before.

`PushDelivery_proofs`, for any threads, topics, requests, attempts, tries, limits and faults allowed
by `PushAssumption`:

| Theorem | Statement |
| --- | --- |
| `PushTypes` | `Spec => []TypeOK` |
| `HandledWasProcessed` | `Spec => []HandledIsProcessed` |
| `AckedWasDelivered` | `Spec => []AckedIsDelivered` |
| `FanOutIsSingle` | `Spec => []FannedOutOnce` |
| `InFlightHasOneHandler` | `Spec => []InFlightIsBegun` |
| `RegisteredAreOwed` | `Spec => []RegisteredIsOwed` |

All rest on `Shape`, the types with what ties them together (a registered or written completion has
a try left; a thread that waits has a record). The first invariant, `Meaning`, follows a positive
answer through every place it passes: a reply on the stream or of a Unary call that says "done" is
of a processed request and one that names a client is of a delivered one (`Honest`), so is what the
reader took and what was settled "ok" (`SettledIsProcessed`), and a Unary call with a caller is the
call of that caller's present record (`CallsAreOwned`; without it an old answer could be taken for
the next record). The second, `Singly`, says that a request is under one handler or among the
remembered ones but not both. The third, `Attended`, is `RegisteredIsOwed` made inductive: a stream
that is up has a reader, and a reply counts only while its stream is up. Two relations carry the proofs across failures: whatever breaks, calls
are only passed on, lost or orphaned (`Loses`), and replies are only cut off at the end (`Carries`).

`DeliveredPosition_proofs`, for any numbers, bodies and page limit: `PositionTypes` (`TypeOK`),
`PositionIsHonest` (`DeliveredWasHanded`) and `ResyncHandsAll` (`ResyncIsComplete`). The invariant
adds `ResyncOwes`: of the rows that were there at the start, the ones not handed over yet are in
front of the resync, in its page or behind it. `PositionFact`, about Min and Max over the receipts,
says that AdvanceDelivered moves only over rows that have one. `Start` may skip to the position
because of `DeliveredWasHanded`: neither fact is inductive without the other.

`CursorSync_proofs`, for any number of messages and any limits: `CursorTypes` (`TypeOK`) and
`CursorIsSafe` (`CursorSkipsNothing`). The invariant: every number at or below the cursor is kept or
was settled without a row (`Covered`; a row that is not stored yet must be covered too, or it would
break the property when it appears); a "safe" position on the wire is within the prefix, and the
rows up to it are kept or are frames ahead of it (`Honest`); a request's prefix is not ahead of the
table's (`Early`). `StableLog` is what makes an old "safe" position stay true.

`RoomAccess_proofs` has first the routes, for any finite set of connections and any number of
registrations: `RouteTypes`, `NewestStaysRouted`, `RoutesHaveOwners`. `NewestIsRouted` follows from `NoticesAreOld` (no notice
under way names the generation of a connection that is open or may still open), which needs that
generations are never shared (`AsksOnce`) and that Comet's own credentials are at least as new as
its connections' and never those of an unread answer (`Credentials`).

Then the rooms, for any connections, threads and `MaxBumps`: `RoomImplementsRoute`
(`RoomSpec => Spec`), `RoomIsTyped`, `EvictionHolds`, `EvictionSilences`. The invariant adds to the
one of the routes that whatever was allowed before an eviction is stale (`Evicted`).

`Conversation_proofs` puts writers and readers together. `ReaderLimits` are the limits that the
readers' own modules assume of their constants, and `Grace` is that of DirectAppend:

| Theorem | Statement |
| --- | --- |
| `ConversationKeepsPosition` | `Grace => (ConversationSpec => Offline!Spec)` |
| `ConversationKeepsCursor` | `Grace /\ ReaderLimits => (ConversationSpec => Cursor!Spec)` |
| `ResyncsStayComplete` | `Grace /\ ReaderLimits => (ConversationSpec => []Offline!ResyncIsComplete)` |
| `NothingIsEverPassed` | `Grace /\ ReaderLimits => (ConversationSpec => []NothingIsPassed)` |
| `AcceptedReachesReaders` | `Grace /\ ReaderLimits => (ConversationSpec => []AcceptedIsNotMissed)` |

The readers' modules assume two things of the writers: a stable log, and that a pushed number has a
row or lies above the prefix. The first is `AppendsKeepStableLog` step by step (`WriteIsLog`), the
second `AppendsKeepSentAhead` (`SendableIsAhead`; without the guard of `LivePush` the proof fails,
as it should). So every step of the conversation is a step of each reader's module or invisible to
it, and their theorems hold of the composition. A page of an offline resync is pushed to the web
client as well, and is above its prefix or stored because of the invariant of DeliveredPosition:
that is why the second theorem needs `ReaderLimits`. The last two are about all parts at once.
`NothingIsPassed`: a message on its way is ahead of the safe prefix, the delivered position is not
above it, and the cursor has kept what it passed. `AcceptedIsNotMissed` adds `AcceptedIsDurable`: an
accepted message has a number, under which it is stored or on its way, and no position has passed
that number without it. They are safety: that the message does come is `PreparedIsSettled`,
`EveryRecordIsSettled` and `PositionCatchesUp`, each of its own module. `Grace` is not something
the code guarantees (`direct_append_late`); in a conversation without appends it costs nothing.

### What is proved, and what is only checked

The proofs cover the instances TLC checks, with the assumptions on constants named in each module
and the hypotheses written in the theorems. Every invariant and every refinement that a run checks
is proved. Only model-checked are the liveness properties, for liveness under fairness and ENABLED
are beyond TLAPS here. Only proved is `Conversation`: the product of its parts is too large for a
run that ends, although each part is the subject of runs of its own.

## 5. What is left

1. `AgentReply`: the bridge's reply cache, redelivery under DurableConsumer's controls loop,
   `ReservePublished`, and HandleHermesReply into `MessageOutbox`'s reservation.
2. The upstream MessageStream of Comet: its callback is claimed by the reader, the watchdog's
   expiry, a reconnection and the failed write; PushDelivery's completions are the pattern.
3. read_seq and the unread badge with their caches; offline pages over several conversations; the
   reports of joins and leaves to Logic's room counts.
4. Several users, rooms and Comets in one model; the composition of `RoomAccess` and `PushDelivery`
   with `Conversation`, whose live pushes are free to come or not.
5. The abstract promise of `PushDelivery` (a record answered once its fan-out is over, fanned out once,
   acknowledged only if somebody got it) as a module that it refines, as `OrderedTopic` is of the consumer.

## 6. Not modelled

Validation, permissions and rate limits in front of Submit; the Redis-only fallback without Kafka;
the fan-out to several Comets and HandleBroadcastTask's pages; Stop of a Job that has time to stop;
`use_push_stream = false` (its path is the Unary fallback alone); queries that only read; CRUD
services, media, attachments, HTTP, configuration, metrics and pools, whose interleavings are those
of a single MySQL transaction. Of the web client: older history pages, revoked rooms, conversations
that do not exist yet, and rendering. Of routes: the cache of routes in Logic, RevokeUserTokens, and
connections refused for being too many or too slow, which are closings like others. The other
clients, Python gateways, inference and deployment are other programs. A database that loses committed rows and a broker that loses acknowledged records are
outside the assumptions.

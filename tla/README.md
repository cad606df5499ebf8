# A TLA+ model of eventicle

eventicle is a TypeScript framework for event-driven services: streams of events, sagas, aggregates, commands and views over
interchangeable brokers, datastores and schedulers. These modules specify the parts of it whose correctness depends on the
order in which promises, timers, processes and brokers happen to act. TLC checks small instances; TLAPS proves the central
safety properties for every value of the constants. Paths below are relative to `src/src/` of the repository.

## The system

| component | state it keeps | operations | what is hard |
|---|---|---|---|
| saga scheduler (`events/saga/saga-scheduler.ts`) | a map from instance to the last promise of its chain | enqueue an event or a timer | chains of several callers, one failing; deleting the map entry at the right moment |
| saga steps (`events/saga/handlers.ts`, `events/saga/index.ts`) | saga-instance records, active timers | dispatch, start, step, timer, end | read-modify-write across awaits; starts outside the scheduler; timers of records that come and go |
| throttled producer (`events/core/kafka-throttle.ts`) | record queue, confirmed topics, flag, interval | send, connect, disconnect, flush | overlapping flushes, retries with a batch in hand, failed recoveries |
| outbox (`events/core/outbox/*`) | the outbox table, the flag of each sender | emit, notify, flush, connect, disconnect | two transactions around one send; crashes; several processes; the flag cleared before the commit |
| in-memory datastore (`datastore/*`) | tables of records | find, create, save, delete, transaction | commit event emitted even when the body failed; query semantics |
| local job runner (`local-schedule-job-runner.ts`) | timer and cron records, live handles | add, remove, fire, startup | record and handle updated apart; a crash between firing and handling |
| BullMQ job runner (`bullmq-schedule-job-runner.ts`) | queue jobs, in-context operations | add, remove, worker, startup | job ids reused; operations recorded in a context |
| datastore event client (`events/core/eventclient-datastore.ts`) | stream table, subscriptions and positions | emit, hot, cold, cold-hot | loops that overlap on one cursor; replay against concurrent emits; failing handlers |
| transactional client (`events/core/eventclient-transactional.ts`) | events buffered per transaction | emit, commit listener | emits after the commit point |
| Redis client (`events/core/eventclient-redis.ts`) | consumer groups, stream ids | emit, hot, cold, cold-hot, shutdown | acknowledgement, replay boundary, shutdown during reads |
| Kafka client (`events/core/eventclient-kafka.ts`) | consumers, health registry | emit, hot, cold, cold-hot, shutdown | end of a cold replay; topic creation; health of many consumers |
| idempotent client (`events/core/idempotent-event-client.ts`) | processed-event marks | wrap handlers | check, process, mark apart |
| clean starting proxy (`events/core/cleanStartingProxyEventClient.ts`) | the delegate, retry loop | try, retry, delegate | calls while not yet started |
| aggregates (`events/aggregate-root.ts`, `events/tenant-aggregate-root.ts`) | aggregate records, history, new events | load, raise, persist | lock and transaction do not end together |
| commands (`events/command/*`) | registered commands | dispatch | emit, persist and response in one transaction |
| aggregate observer (`events/adapter/AggregateObservationAdapter.ts`) | listeners | observe with timeout | the gap between loading and listening |
| views and adapters (`events/view`, `events/adapter`) | subscriptions | register | thin |
| codecs, registries, logging, metrics, helpers | configuration | - | data and wiring |

How they interact. A stream client calls the handlers of a saga's lanes, and the job runner calls its timer listener; both
look up records and hand over to the saga scheduler, whose tasks read, change and write the record and add or remove
schedules. Emitted events go out through one of three doors: directly to a client, through the throttled producer of the
Kafka client, or through the outbox table that senders of any number of processes drain.

What makes each part correct, in short: one handler per saga instance at a time and in order; no lost update and no
resurrected record; no schedule without its record; a promise settles, and resolves only for a stored record; committed
events are delivered at least once and uncommitted ones never; a subscription misses nothing it acknowledged, and takes its
stream in order however many loops share its cursor; an aggregate's
history is its events in order.

## Modules

`SerialExecutor` (abstract) and `SagaScheduler`. A *task* is one call of `sagaHandleEvent` or `handleTimer`. `enqueue` is
synchronous up to its return, so it is one action; each later hop of `existingChain.then(task).catch(rethrow).finally(cleanup)`
is a microtask and therefore an action of its own: `Run` or `Skip` (then), `Finish` (the body's promise), `Cleanup`
(finally). A chain is named by its task, so the map's identity test is an equation. `ahead` is history: what was unsettled when
the task was enqueued. `SerialExecutor` knows phases and predecessors and no promises; it drops a task whose predecessor
failed, because that is what `.then(task)` does on a rejected chain.

`SagaEngine` extends `SagaScheduler`, whose tasks are its calls (`Parameters`), with lanes, records and schedules. A lane follows `dispatchSagaEvent`:
lookup (`Dispatch`), one scheduler call per instance found with an await each (`HandOver`, `Settle`), or a start
(`StartHandler`, `StartCreate`, `StartEnd`) that does not go through the scheduler. A task's body follows
`processSagaInstanceWithExecutor`: read (`Begin`), handler and timers (`Handle`), write (`Save`), end (`End`). Handlers are
application code: a constant set of behaviours (throw, add timers, remove timers, end, end and preserve). Records keep the
events applied, the active timers and the two end flags. The job runner is the set of schedules it holds; a simple timer
leaves the set when it fires. One saga with one correlation value is modelled: every record matches every event.

`ThrottledProducer`. A record is one call of `send`. A flush invocation carries its batch through `sending`, `reconnect`
(code 59), `createTopic` (code 3) and `paused` back to `sending`; an error thrown inside the recovery leaves it `dead` with
the flag set. `Retry` slices the queue once more, as line 144 does for every call; `discarded` is the history of what that
loses. The broker is a sequence of batches, each with the topics it was stored for: a failed `sendBatch` stores any of its
topics. A flush of an empty queue sets and clears the flag without an await, so it is no step.

`EventDelivery` (abstract) and `Outbox`. An entry is one call of `emit`. A flush invocation walks through its transaction:
`reading`, `sending`, `removing`, `committing`, `closing`. `RemoveOutboxEntries` clears the flag before `CommitFlush` and
`Finally` clears it whoever has set it, so two invocations of one process overlap. `Crash` rolls back whatever the process
had open. The table and its transactions (read committed) are external. In the code 59 branch the nested `flush` either
returns at once, or, when another invocation has cleared the flag, takes the place of the one that awaits it (`awaited`).

`OrderedDelivery` (abstract) and `DatastoreClient`. A step goes from one await of `emit`, of a subscription's `process()` loop or
of `coldReplay` to the next. `process()` moves the cursor before it awaits the handler and looks for the next event when the
handler returns, in one step without an await (`Turn`); an `emit` wakes every listed subscription in the step that publishes its
last event (`TickSubs`). `loops` are the invocations that are inside their handler, each with the place of its event in what was
taken. There may be several: the early `return` of a wake-up that finds `processing` set (line 65) is inside the `try`, so its `finally` (81)
clears the flag of the loop that runs (`Woken`), and the next wake-up starts another loop on the same cursor. What still holds of the
cursor, the order in which events are taken and that none stays behind, are the properties; that handlers do not
overlap is not one (`OneAtATime`, see below). The table is the set of events that have a row. A closed hot subscription is tombstoned: its handler returns at once and its loop goes on.
A closed coldHot subscription takes its listener away, if it has one yet. `createEntity`, the codec and handlers may reject
(`EmitFails`, `Throws`); the process is taken to survive the rejection nobody handles.

`LocalTimers`. A timer lives in three places: its rows, the runner's map of handles, and what node holds. Schedules are numbered
by the `addScheduledTask` call, so that a row, a handle and a firing of an earlier setting can be told from those of the last.
`Add`, `Write` and `Arm` are `addScheduledTask` between its awaits; `Fire` sends the query of the timeout and calls the
listeners, `Forget` deletes what the query found. `asked` is history: what the callers were last told, or `Unknown` while a call
is under way or when the process ended too early to tell. `StartTimers` and `StartCrons` are the two queries of `startup`. The
calls for one timer follow one another, as the steps of a saga instance do. The finding of rows and the overwriting of a cron's
row, which no other action of that key can separate, are one step.

`RedisClient`. Calls of `hotStream`, `coldHotStream` and `coldStream`, of any number of processes, against one stream with its groups
and pending lists, which are external. An entry is its stream id. A subscription's poll loop goes from `reading` to `handling` slices
of `parallelEventCount` entries, each acknowledged after its handler has returned or thrown (`Handled`, `Ack`), and back; after
NOGROUP it creates the group again, after any other error it pauses. `conn` says whether the call's connection is still open: a
`shutdown` quits it under a call that is being made, whose loop then runs on a dead connection. `HotOnce` leaves out groups that a hot call
destroys and a coldHot call creates again at `0`: they are given everything once more, as asked. A replay reads `XLEN`, `XINFO` and then
pages; its end is a comparison of ids as strings (`AtOrAfter`: equally long ids compare as numbers, others digit by digit), written with a base
`Radix` so that small numbers show what digits do.

`KafkaClient`. The same calls of one process against partitions, committed offsets and groups, which are external, with the registry
of groups, the map of health objects, the connection with its one retry after topic creation (`connecting`, `creating`, `retrying`), and
the four things that end a replay: all offsets reached and a pause (`Replayed`, `PauseOver`), ten silent seconds (`TenSecondsPass`, `Tick`), nothing there
(`RunReturns`), an error (`RunFails`). `silent` is `lastActivity`: the replays in which no `eachMessage` has begun for over ten seconds;
`Deliver` ends the silence, and so does `Further`, an `eachMessage` which brings the replay no further, of a message behind those `MaxLog` counts
or of one that fails again. `Further` has no bound. A message is its offset; `hand` is the `eachMessage` of a partition. `emit` ends in the throttled
producer, which `ThrottledProducer` models; here its result is an append.

`JobRunner` holds what both runners have in common: timers, schedules, rows, the call in progress and the process.

`BullMQTimers`. A timer lives in its rows, in a job of the queue under `jobId` (for a cron: a repeatable job per crontab), and in the
handlers a worker runs. `flight` holds what the code starts and does not await. The queue
ignores a job whose id is taken (`Landed`), and a handler's end is not the end of its job (`Pick`, `Complete`, `HandlerEnds`). `dropped`
is history: rows whose job was refused, ignored, recorded in `"ops"`, cleared or met by no listener. Calls from a timer handler run with
`"in-context"` set and go to `"ops"`, as the code has it.

`Commands` composes `dispatchCommand`, the aggregate repository, the in-memory transaction and the transactional client. A dispatch waits
for its lock inside the transaction (`TakeLock`, `LockTimesOut`), loads by replaying the history (`Load`), raises, emits and persists in any
order the command chooses, returns or throws, and commits. `persist` is a transaction of its own with a lock of its own: `Persist` takes the
new events out of the instance and reads the stored history, `Save` writes both. An in-memory transaction rolls nothing back. `sending` is
the loop of the commit listener, which nobody awaits. An aggregate's state is the sequence of events applied to it. What a command
returns is what `persist` gave back and it has not emitted itself (`Returned`): all it raised, but for what is still new, which was raised last.

`ViewDelivery` composes the registration of views and adapters, the clean starting proxy, the idempotent client and an at-least-once
client, which is external. The proxy's interval calls `createClient` every thirty seconds whether or not the last call has
returned (`attempts`); each one that succeeds runs all queued subscriptions. A delivery is `check`, `exec`, `mark`, each an await, then the
acknowledgement. `ProcessEnds` loses everything but the marks and what the broker knows.

`MC*` modules give the constants their values. Operators whose name has a suffix (`ForgetChain_Unconditional`, ...) are
variants of the operator they precede, with a bug someone could write; each property is known to fail for one of them.

## Runs

| run | instance | properties | shows |
|---|---|---|---|
| `saga_scheduler` | four calls, three of them for one instance | `Serialized` `EverythingSettles` `ImplementsSerialExecutor` | serialization, order and settling survive every interleaving of enqueues, failures and cleanups |
| `saga_engine` | two lanes with three events, two instances, one timer firing once | `NoLostUpdate` `NoOrphanTimer` `NoResurrection` `EventsAreConsumed` | steps of one instance do not overwrite one another; ending removes record and schedules for good; lanes finish |
| `throttled_producer` | four records, two topics, batches of two, one failure | `ResolvedIsStored` `PendingIsHeld` `StoredInOrder` `PendingSettles` | a resolved send is stored, the order in which the records of a topic entered the queue survives retries, and the only records lost are those of line 144 |
| `outbox` | two emits, two processes, three flushes, one failure or crash | `NoLoss` `ImplementsDelivery` `CommittedIsDelivered` | at least once, never for a rollback, and one process delivers what another left |
| `datastore_client` | three emits, one of them of two events, a hot and a coldHot call of one group, one failure | `NoWakeUpIsLost` `ImplementsOrderedDelivery` `PublishedIsTaken` | though its loops overlap, a subscription takes its stream in order, without repetition or gap, and no wake-up is lost |
| `local_timers` | a simple timer and a cron, three settings, two stops | `LiveIsHandled` `AskedIsArmed` `AskedFires` | rows, handles and live timers agree with what the callers were told, and timers go off, restarts included |
| `bullmq_timers` | a simple timer and a cron, two settings, one stop, one refused command | `RemovedIsSilent` `NoneIsStranded` `SetTimersGoOff` | a simple timer that was removed stays silent; no row is left without a job, a handler or a load to come; what was set goes off, through restarts, but for the rows `dropped` names |
| `redis_client` | four plans: hot or coldHot in two processes, both in one, a replay | `PassedIsHandledOrPending` `HotOnce` `ReplayLeavesOutNothing` `OnePollerPerGroup` `EntriesAreHandled` | a group forgets nothing it has moved past, hot entries are handled once, a client polls a group once |
| `redis_replay_short` | a replay, decimal ids | `DoneIsComplete` (violated) | a replay can report its end with the last entry unread |
| `kafka_client` | three plans: two pairs of subscriptions of one group, a replay of two partitions | `CommittedIsHandled` `HealthyIsHeld` `OneConsumerPerGroup` `DoneIsEarned` `ReplaysEnd` | offsets cover handled messages only, a healthy group is held, `onDone` is earned or due to silence, and replays call back unless messages that bring them no further keep coming |
| `commands` | two dispatches of two events, a locked and an unlocked aggregate | `EmittedIsStored` `CheckpointIsReplay` `HistoryOnlyGrows` `StoredIsEmitted` | histories are append-only under concurrency, locked commands decide on all of it, and what succeeded leaves |
| `view_delivery` | a view and an adapter, one event, two overlapping attempts, one crash, one failure | `ConsumedIsHandled` `HandledOnce` `SubscriptionsOpen` | nothing is passed over; a view repeats an event only if its mark was lost or it was subscribed twice |

Nine more configurations state something a document says and TLC refutes (`tlc -config KafkaHealth.cfg MCKafkaClient`, and so on); they
are listed under "Where code and documentation differ". Each module also states a `TypeOK`, which no run lists: a proof module
proves it (that of `Commands`, the types its invariant needs), and it is a configuration line away elsewhere.

**Bounds.** Scheduler: with three calls of one instance a call has a predecessor and a successor, which is all `enqueue` can
tell apart; the second instance shows that instances do not interfere. Engine: two lanes let two starts, a start and a step,
or two steps overlap; three events and one firing (`MaxFires`) give an instance an earlier step, a step and a timer at once.
Start handlers in the passing run do not end the saga: a start that ends it can race a step (starts are not serialized), which
the hazard list names. Producer: batches of two and four records leave a queue behind a batch, so that a retry has something
to discard; `MaxErrors = 1` is one failure with one recovery or retry, and two overlapping invocations are allowed to exist so
that `OneFlush` is not true by construction. Outbox: two entries distinguish "what I sent" from "what is in the table"; two
invocations of one process overlap in every pair of places, and with one of another process; `MaxFailures = 1` is a failed send,
removal or commit, or a crash (the failed reconnection of a recovery is not counted, so it may come on top).
Datastore client: three emits are what two overlapping loops take (one starts a loop, one clears its flag, one starts the other) and
overlap at every await, and a batch of two shows the gap between the publication of its first event
and the wake-up behind its second; one failure is enough for a batch that stops half way and for a loop that throws. 104,000 states. Timers:
three settings give a timer a firing whose deletion is late, a second row, and one of each kind at once; two stops give a restart
after a restart. `LateReads` is `FALSE`: the in-memory datastore reads when it is asked. With `TRUE`, a datastore that reads later,
`AskedIsArmed` fails: the query of a fired timer then finds, and deletes, the row of the timer that was set anew.
Redis: a plan is
chosen at the start, so that one run covers the combinations of calls worth having; batches of one and of two, two
entries for subscriptions and five for a replay, whose ids then have one, two and three binary digits and span pages; one fault is a failed command, an
undecodable entry, a crash or a `clear`. 177,000 states. Kafka: two messages in each partition let a replay catch up in one and
be handling in the other; one fault is a rejection, a throwing handler, a restart or a `clear`; further messages, and further failures of a message
that has failed, are not bounded (`Further`). 290,000 states. BullMQ: two settings suffice for a row, an addition in flight and a job of
two schedules of one timer; a stop separates any two of them. 154,000 states. Commands: two dispatches are the writer and the one that read before; two events
show the order. 131,000 states. Views: one event, because deliveries of different events of one subscription follow one another; a crash, a failure and a second
attempt can each come between any two steps. 178,000 states. `CHECK_DEADLOCK FALSE` is set where the system may stop: callers need not call, streams end.

**Fairness.** Microtasks are drained and every awaited promise settles: weak fairness of each task's, lane's or flush
invocation's next step. Intervals keep ticking while they are set (`Tick`, `Flush`). The datastore, the codec and the handlers of the datastore
client answer or reject (`PublishedIsTaken` excepts what failed or was shut down). A live timer goes off and a stopped process is
started again (`AskedFires`); no fairness makes a caller set one. Callers, `connect`, `disconnect`, commits
of the application's transactions and failures have no fairness.
A replay's ten seconds pass (`TenSecondsPass`) at any time, as a handler or a join may take that long, but have to pass only while the consumer
has nothing to begin with (`NothingToBegin`), and the interval has to find them only if they are not interrupted; `ReplaysEnd` therefore excepts a
replay for which messages that bring it no further keep coming for ever.
Redis, Kafka and BullMQ answer, timeouts pass, handlers return: weak fairness of each call's next step (`Proceed`, `InPartition`), of each worker's
and of each addition in flight; closing, shutting down, crashing and emitting have none, and an answer may be an error while faults last. `EntriesAreHandled` asks only of a subscription that stays open and connected that it gets on. In `Commands` what is awaited goes on
(saving, committing, emitting), and nothing makes a command run, return or release its lock. The proxy's interval fires and attempts end. `CommittedIsDelivered` assumes that some process stays
connected for ever; `PendingSettles` excepts a stopped interval, a failed recovery and a discarded record.

## Proofs

Checked by TLAPS for every value of the constants, under the named assumptions of the modules (the outcomes `Ok` and `NoTask`
are not tasks; the batch size is positive; the failure bounds are naturals; emits and flushes belong to processes; a saga's events are
not its timers).

* `SagaProofs`: `TypeCorrect`, `Serialization`, `Ordering`, `NoStaleTail`, `Refinement`. Mutual exclusion is not
  inductive. The invariant `IInv` says that a chain's predecessor is the last of the calls ahead of it and covers all the others
  (`ChainCoversAhead`), that of two unsettled calls of an instance one is ahead of the other (`TotalOrder`), that the map holds
  the last unsettled chain (`TailIsLast`), and which outcomes can meet (`OutcomeOfChain`, `ErrorsAreGenuine`). Serialization then
  follows: of two running siblings one would be ahead of the other, hence settled. `Refinement` maps each step to a step of
  `SerialExecutor` or to a stutter.

  All that is for any tasks. For those of the engine (`Parameters`) the module then proves `EngineIsScheduled`: every step of the engine
  is one of the scheduler or leaves it alone, so `IInv` holds there, and `OthersAreIdle` is what it gives: while a body runs, no other
  of its instance does. Then `NothingIsOverwritten`, `SchedulesHaveRecords` and `DeletedStaysDeleted`. On `OthersAreIdle` rests
  `Updates`: one lane creates an instance (`Creators`); until it has, there is no record and nothing that has read one (`Untouched`);
  an event reported successful is in the record and in every body's copy (`Told`, `Remembered`), and one about to be saved is in its own
  (`InWork`). `Schedules`: a body works on what is stored until it saves (`OnRecord`), and an instance's schedules are those of the record
  that is stored or about to be (`Scheduling`). The last two theorems assume `StartsGoOn`, that a `startOn` handler does not end its
  saga, as the run does: a start goes past the scheduler, and its end can meet a step (see the hazard at `handlers.ts:119`).
* `ThrottledProducerProofs`: `TypeCorrect`, `SingleFlush`, `ResolvedMeansStored`, `NothingElseDropsRecords`, `StoredAsQueued`. The invariant adds
  `FlagHeld` (whoever holds a batch holds the flag) to the properties; the lemmas say that a slice and its remainder are the
  queue, that storing keeps what was stored, and what a return changes. For the order in the log, `Ordered`: every record is accepted
  once; queue, batch in hand and every batch of the log are in the order of acceptance; the batch in hand is before all of the queue; and
  of two batches of the log, or one and that in hand, the earlier is before the later or the very same, sent again.
* `DeliveryProofs`, of the two ends of an event's way. Of `Outbox`: `TypeCorrect`, `NothingIsLost`, `Refinement`. The invariant is that rows and batches are of committed emits
  (`OnlyCommitted`) and that a batch which may be removed is delivered (`RemovableIsDelivered`); the flag plays no part, which is
  why clearing it early costs duplicates and no loss. `Refinement` proves the whole of `ImplementsDelivery`.
  Of `ViewDelivery`: `NoneIsPassedOver`, `ViewsHandleOnce`. `Consuming` says that an event in a handler is at most one ahead of what the
  broker takes for handled (`TaskIsSound`), so that an acknowledgement adds that event and no other, and that whatever is marked was
  handled. `Handling`: a group that never had two subscriptions has no second handler at work (`Single`), and an event which a view has
  handled is marked, or about to be by that one handler, unless the mark was lost (`Once`); so the check lets nothing through again.
* `DatastoreClientProofs`: `TypeCorrect`, `StoredBeforePublished`, `GroupsAreExclusive`, `Refinement`, `NoneIsLeftBehind`.
  The invariant says that a flag which is set has a loop that runs (`FlagsHaveLoops`; not the other way round, as a refused wake-up clears
  it), that an event of an emit which is being
  published has its row, that open calls hold their group (until `shutdown` empties the set and lets nobody in), and, for the
  refinement, that what was taken is a prefix of the stream and the cursor is the id of its last event, whichever loop took it; then the first
  event with the cursor's id is the last one taken. That step needs `IdsAreUnique`, an assumption of the theorems and not of the module.
  `Refinement` is about the order in which events are taken and handed over, not the one in which handlers finish. `NoneIsLeftBehind` adds
  that a subscription without loops has been through its stream but for events whose emit has not come to its wake-up: a loop that ends has found
  nothing, and a wake-up that starts none met one that runs.
* `JobRunnerProofs`, of both runners. Of `LocalTimers`: `TypeCorrect`, `Cancellable`, and, for `LateReads = FALSE`, `RestartRestores` and `ArmedAsAsked`. A second live timeout is ruled
  out because a call clears the timeout before it first awaits (`ClearedFirst`). For the rows, the number of the schedule being
  set is in no query that was sent before (`NewIsFresh`), and what such a query found is no longer live (`QueriesAreOld`), so that
  a late deletion never hits the row of a live timer. `ArmedAsAsked` needs that this is also the row a restart will find: `AskedInv` says
  what a call under way has seen of the rows, that a timer which was removed or has gone off has none but those some query will delete, and
  that one which is set has its row, behind which no older one is left to be loaded in its place.
  Of `BullMQTimers`: `QueueTypeCorrect`, `RemovedStaysSilent`, `NoTimerIsStranded`. `Silence` says that between the removal of a job and that of its
  row nothing for the timer is in the queue or on its way (`CleanIsQuiet`: only `startup` could bring it back, and the process is up), and that a
  removed timer, without row and call, has nothing a call or a restart could go on with (`RemovedIsQuiet`). `Kept` strengthens `NoneIsStranded`: while
  a worker holds the job, which makes a removal reject, every row is served without counting on that removal, and the job is still there.
* `CommandsProofs`: `CheckpointsReplay`, `Exclusion`, `HistoriesOnlyGrow`, `EmittedWasStored`. Whoever saves holds the lock of `persist`, and whoever executes
  on a locked aggregate holds that of `dispatchCommand` (`PersistHeld`, `CommandHeld`). So what `persist` has read is still what is stored
  when it saves (`FoundIsStored`), which makes the save an append, with or without a command's lock; and under that lock the instance is the
  stored history and what was raised since (`StateIsReplay`), which makes the checkpoint a replay of the history. What leaves was stored
  because of `Away`: an event on its way out, raised, returned, buffered or being sent, is stored, or still new in the instance, or in the
  hands of `persist`, unless its command has failed; nothing is sent before the end, and at the end of a command that succeeded nothing is new.
* `KafkaClientProofs`: `TypeCorrect`, `ConsumersAreAlone`, `HealthIsTrue`, `DoneIsTrue`, `CommittedIsDone`. Three invariants. `GroupInv`: the
  calls that hold a group are registered and alone in it, a consumer that is connected holds its group, the status object of a
  call that was not connected is unhealthy, and only replays have intervals and timers. `ReplayInv`: of what a replay has passed or noted,
  and of all it began with once it pauses or calls `onDone` for any reason but silence, whatever is not deleted went through its
  handler; it needs `FreshInv`, that a call without a consumer is handling nothing. `OffsetsInv`: what a coldHot group has committed,
  and what each of its consumers has passed, went through a handler of the group. `EarnedStays` and `OneOffset` are the lemmas that
  deletions and further messages take nothing away.

* `RedisClientProofs`: `TypeCorrect`, `NothingPassedOver`, `PolledOnce`, `HandledHotOnce`, `ReplaysAreWhole`, each but the first
  from an invariant of its own. `Work` says who holds entries: only a call that is handling, no entry twice, none acknowledged before it was handled.
  `Passes`: a group is never ahead of the stream, and what it has passed since its beginning is handled or pending. `Pollers`: the group
  of every call that polls is in the registry of its client (`Noted`), so that nobody else is let in. `Hot`: what a hot call has had in hand is
  behind its group, or gone from the stream, or the group is gone and nobody will create it but at `$` (`SeenIsPast`), so that
  no read finds it again, and no two calls have seen one entry (`SeenOnce`). `Cursor`: a replay has handled everything before its cursor,
  and its page is the next there is; a short page is the end. `LeastExists` (a finite set of integers has a least member) is proved from the
  library's theorem that inclusion among finite sets is well-founded.

Only model-checked: all liveness (`EverythingSettles`, `EventsAreConsumed`, `PendingSettles`, `CommittedIsDelivered`,
`PublishedIsTaken`, `AskedFires`, `SetTimersGoOff`, `EntriesAreHandled`, `ReplaysEnd`, `StoredIsEmitted`, `SubscriptionsOpen`, the fairness
half of `ImplementsSerialExecutor`), which this prover cannot reach. `NoTimerIsStranded`
is the safety half of `SetTimersGoOff`. Every invariant of a run is stated by a theorem.

## Where code and documentation differ

Each of these has a configuration with which TLC finds it; the first is also a run.

* A replay from Redis ends when the id after the last one read equals the last id, which is then unread
  (`eventclient-redis.ts:419`; `event-client.ts:315-316`: "process all existing events"). `RedisReplayShort.cfg`
* A refused second subscription of a Kafka group shows the running one as unhealthy (`eventclient-kafka.ts:247`, `608`; `72-74`). `KafkaHealth.cfg`
* The in-memory transaction emits its commit event in `finally`, so a failed command's events leave (`inmem-data-store.ts:69`;
  `eventclient-transactional.ts:18`: "once the transaction commits"). `CommandsFailed.cfg`
* A call queued behind one that fails is never run (`saga-scheduler.ts:125`; the interface, lines 56-57, promises that events are processed). `SagaSchedulerSkips.cfg`
* An instance ended with `endSaga(true)` still receives events (`handlers.ts:77`; `index.ts:208-209` says it will not). `SagaEnded.cfg`
* A timer of a start handler can fire before the record exists (`handlers.ts:118`), and is lost although it stays active. `SagaTimerLost.cfg`
* A retried flush drops up to a batch of queued records (`kafka-throttle.ts:144`). `ThrottledProducerDiscards.cfg`
* The `return` of a wake-up that finds a datastore subscription in its handler runs the `finally` that clears the flag of the loop that runs
  (`eventclient-datastore.ts:65`, `81`); the next emit starts a second loop, and handlers of one subscription overlap (`event-client.ts:358`:
  "Concurrent event processing limit"; `docs/modules/book/pages/query.adoc:140`, under `src/`: "processed in order"). `DatastoreOverlap.cfg`
* A replay from Kafka that waits for a partition which was emptied, or meets a message that keeps failing, never ends while messages keep
  coming (`eventclient-kafka.ts:445`, `474`; `event-client.ts:318-319`: "process all existing events [...], then complete"). `KafkaReplayBusy.cfg`
* `close()` of a coldHot subscription whose lookup has not returned removes nothing, and the listener is added afterwards
  (`eventclient-datastore.ts:167`, `174`; `event-client.ts:249` promises that resources are released). `DatastoreClientClosed.cfg`

Seen while modelling, without a run of their own, because the model takes the code's side:

* A hot subscription starts with an undefined cursor, so the next emit gives it all earlier events of the in-memory stream
  (`eventclient-datastore.ts:34-36`; `event-client.ts:351-352`: "only receive new events published after the subscription").
* `coldHotStream` looks up the stored rows and replays none of them (`eventclient-datastore.ts:151-168`; `event-client.ts:408`).
* The cursor is an event id: an event without one, or one published again, sets the loop back and is delivered for ever
  (`eventclient-datastore.ts:35-36`, `72`). The properties of order are about events with ids of their own.
* `emit` of several events is not atomic (`eventclient-datastore.ts:225-263`; `event-client.ts:297`: "processed atomically"): when a
  later event fails, the earlier ones stay published, without the wake-up, until the next emit.
* `hotRawStream` passes `rawEvents = false` (`eventclient-datastore.ts:335`), so its handlers get decoded events; `onError` of a hot
  subscription is never called.
* `docs/modules/book/pages/scheduler.adoc:71` (under `src/`): "Timers are lost on application restart"; `startup` loads them (`local-schedule-job-runner.ts:10-14`, `163-183`).
* Redis: a dead consumer's pending entries are never delivered again, as every subscription takes a new consumer name, so that its first reads of
  id `0` find nothing; a hot loop leaves what it read after `close` pending. `emit` resolves though single `XADD`s of its pipeline failed.
  A failed `XLEN` counts as an empty stream, and `onDone` is called. A group creation or a `quit` that fails leaves the group in the registry; a failed
  re-creation ends the loop under an open subscription; NOGROUP on a hot subscription re-creates the group at `$`, behind what is there.
* Kafka: `onDone` may be called more than once (`event-client.ts:326`), and by the idle check while a handler or a join of over ten seconds is in progress.
  The interval of a replay that was closed, or failed, goes on. `deleteGroups` is asked while the consumer is connected, and refused. `shutdown`
  neither disconnects replays nor updates registry and health.
* BullMQ: timers set or removed inside a timer handler are pushed to `"ops"` and never executed (427-428, 470-471; lines 62-67 promise
  persistence) until a restart loads the row. `removeSchedule` of a cron looks under another name and job id (488-496), so the repeatable job goes on; a
  changed crontab leaves the old one. Setting a pending simple timer again keeps the old job, timeout and data. A removal that overtakes its addition
  leaves the job; one that meets an active job, or comes before `startup`, rejects and leaves the row.
* Commands: one failing batch on commit drops those behind it, and nobody hears of it. A `persist` or a dispatch whose lock times out resolves with
  nothing done. `newEvents` is cleared before a save that may fail. The checkpoint of a command without a lock may be stale, and two commands'
  events may leave in another order than they were stored, as the lock is freed before the commit.
* Views: overlapping connection attempts subscribe everything twice; one refused subscription is lost without a word; a `close` before the connection
  is a no-op; a `shutdown` while an attempt is in progress still connects. Adapters and hot streams are not idempotent.

## Not modelled

Failures of the datastore and of the job runner inside saga steps; `withLock`; the hot/cold lane predicate; duplicates and
order in the outbox (it promises neither); concurrent calls of `connect` or `disconnect` of one producer; a saga's error handler
that throws; the datastore client's `clear` and calls after its `shutdown`; concurrent calls for one timer of either runner, and calls of the local
runner while its process is not up; a control of a Kafka or Redis subscription that is closed a second time, after its group was taken again, which
would free the group; a command that catches the rejection of its own `persist` and goes on; several streams in one Redis or
Kafka subscription, and rebalancing of partitions between processes; transactions nested in a command's own; XState machines. The aggregate observer is a promise around one
listener and a timeout; codecs, logging, metrics, tracing and registries hold no state another component's correctness depends on, and
`object-query-util.ts` compares data.

## Plan

1. `SagaEngine` over `LocalTimers` in the place of its set of schedules, with firings told apart from settings; failing saves and `withLock`.
2. The composition of a detailed client with `ViewDelivery`, by a refinement of its at-least-once client.

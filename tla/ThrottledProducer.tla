------------------------- MODULE ThrottledProducer --------------------------
(***************************************************************************)
(* ThrottledProducer (src/src/events/core/kafka-throttle.ts): callers of   *)
(* send queue records; an interval calls flush, which cuts a batch off the *)
(* queue, sends it, and on two protocol errors recovers and calls itself   *)
(* again with the same batch.                                              *)
(*                                                                         *)
(* A flush invocation is in one of these places:                           *)
(*   idle         not called                                               *)
(*   sending      in producer.sendBatch                                    *)
(*   reconnect    code 59: replacing the producer                          *)
(*   createTopic  code 3: creating the batch's topics                      *)
(*   paused       in the retry's pause, the batch still in hand            *)
(*   dead         a recovery threw: the invocation is gone, its batch with *)
(*                it, and isFlushing is still set                          *)
(***************************************************************************)
EXTENDS Naturals, Sequences

CONSTANTS Records,      \* one record per call of send
          TopicOf,      \* [Records -> topic]
          BatchSize,    \* maxOutgoingBatchSize
          Flushes,      \* flush invocations that can overlap
          MaxErrors     \* bound: how often sendBatch fails

ASSUME BatchSizeAssumption == BatchSize \in Nat \ {0}
ASSUME MaxErrorsAssumption == MaxErrors \in Nat

Topics == {TopicOf[r] : r \in Records}

VARIABLES
    call,             \* [Records -> what the send call and its promise are up to]
    recordQueue,
    confirmedTopics,
    isConnected,
    ticking,          \* intervalTimeout is set: flush is called again and again
    isFlushing,
    flushes,          \* [Flushes -> [at, batch]]
    log,              \* what the broker holds: batches, each with the topics it was stored for
    errors,           \* failures of sendBatch so far
    accepted,         \* history: the records in the order they entered recordQueue
    discarded         \* history: records a retry sliced off the queue (line 144)

sendVars   == <<call, confirmedTopics>>
brokerVars == <<log, errors>>
connection == <<isConnected, ticking>>
vars == <<call, recordQueue, confirmedTopics, isConnected, ticking, isFlushing, flushes, log,
          errors, accepted, discarded>>

Places == {"idle", "sending", "reconnect", "createTopic", "paused", "dead"}
InHand(f) == flushes[f].at # "idle"
Busy(f) == flushes[f].at \notin {"idle", "dead"}

\* The elements of a sequence.
Elements(s) == {s[k] : k \in DOMAIN s}
Batch(f) == Elements(flushes[f].batch)

Init == /\ call = [r \in Records |-> "none"]
        /\ recordQueue = <<>>
        /\ confirmedTopics = {}
        /\ isConnected = FALSE /\ ticking = FALSE
        /\ isFlushing = FALSE
        /\ flushes = [f \in Flushes |-> [at |-> "idle", batch |-> <<>>]]
        /\ log = <<>>
        /\ errors = 0
        /\ accepted = <<>>
        /\ discarded = {}
-----------------------------------------------------------------------------
\* connect and disconnect are called one after the other (eventclient-kafka.ts connects the
\* producer before it hands it out, and disconnects it in shutdown).  The producer's own
\* connect is part of the step: nothing of the class changes before it.
Connect ==
    /\ ~isConnected
    /\ isConnected' = TRUE /\ ticking' = TRUE
    /\ UNCHANGED <<sendVars, recordQueue, isFlushing, flushes, brokerVars, accepted, discarded>>

\* disconnect stops the interval, and is disconnected only when the producer is: records sent
\* in between are queued.
StopInterval ==
    /\ isConnected /\ ticking
    /\ ticking' = FALSE
    /\ UNCHANGED <<sendVars, recordQueue, isConnected, isFlushing, flushes, brokerVars, accepted, discarded>>

Disconnected ==
    /\ isConnected /\ ~ticking
    /\ isConnected' = FALSE
    /\ UNCHANGED <<sendVars, recordQueue, ticking, isFlushing, flushes, brokerVars, accepted, discarded>>

\* The record enters the queue and the caller holds its promise.
Accept(r) == /\ call' = [call EXCEPT ![r] = "pending"]
             /\ recordQueue' = Append(recordQueue, r)
             /\ accepted' = Append(accepted, r)

\* send up to its first await.
Send(r) ==
    /\ call[r] = "none" /\ isConnected
    /\ IF TopicOf[r] \in confirmedTopics
       THEN Accept(r) /\ UNCHANGED confirmedTopics
       ELSE /\ confirmedTopics' = confirmedTopics \cup {TopicOf[r]}
            /\ call' = [call EXCEPT ![r] = "creating"]
            /\ UNCHANGED <<recordQueue, accepted>>
    /\ UNCHANGED <<connection, isFlushing, flushes, brokerVars, discarded>>

SendRefused(r) ==
    /\ call[r] = "none" /\ ~isConnected
    /\ call' = [call EXCEPT ![r] = "refused"]
    /\ UNCHANGED <<recordQueue, confirmedTopics, connection, isFlushing, flushes, brokerVars,
                   accepted, discarded>>

\* onTopicFailure and maybeCreateTopic are through, or one of them threw.
TopicCreated(r) ==
    /\ call[r] = "creating"
    /\ Accept(r)
    /\ UNCHANGED <<confirmedTopics, connection, isFlushing, flushes, brokerVars, discarded>>

TopicFailed(r) ==
    /\ call[r] = "creating"
    /\ call' = [call EXCEPT ![r] = "refused"]
    /\ UNCHANGED <<recordQueue, confirmedTopics, connection, isFlushing, flushes, brokerVars,
                   accepted, discarded>>
-----------------------------------------------------------------------------
Smaller(a, b) == IF a < b THEN a ELSE b
SliceEnd == Smaller(BatchSize, Len(recordQueue))

\* recordQueue.slice(0, batchSize) and recordQueue.slice(batchSize).
Slice == SubSeq(recordQueue, 1, SliceEnd)
Remainder == SubSeq(recordQueue, SliceEnd + 1, Len(recordQueue))

\* The guard at the top of a first call of flush.
MayFlush == ~isFlushing

\* The interval calls flush and there is something to send.
Flush(f) ==
    /\ ticking /\ MayFlush
    /\ flushes[f].at = "idle" /\ recordQueue # <<>>
    /\ isFlushing' = TRUE
    /\ flushes' = [flushes EXCEPT ![f] = [at |-> "sending", batch |-> Slice]]
    /\ recordQueue' = Remainder
    /\ UNCHANGED <<sendVars, connection, brokerVars, accepted, discarded>>

\* The invocation ends and its records' promises settle.
Return(f, result) ==
    /\ call' = [r \in Records |-> IF r \in Batch(f) THEN result ELSE call[r]]
    /\ flushes' = [flushes EXCEPT ![f] = [at |-> "idle", batch |-> <<>>]]
    /\ isFlushing' = FALSE

\* The broker appends the batch's records of some topics, in the batch's order.
Store(f, topics) == log' = Append(log, [batch |-> flushes[f].batch, topics |-> topics])

SendBatch_ResolvesFirst(f) ==
    /\ flushes[f].at = "sending"
    /\ Return(f, "resolved")
    /\ UNCHANGED <<recordQueue, confirmedTopics, connection, log, errors, accepted, discarded>>
SendBatch_LeavesFlag(f) ==
    /\ flushes[f].at = "sending"
    /\ Store(f, Topics)
    /\ call' = [r \in Records |-> IF r \in Batch(f) THEN "resolved" ELSE call[r]]
    /\ flushes' = [flushes EXCEPT ![f] = [at |-> "idle", batch |-> <<>>]]
    /\ UNCHANGED <<recordQueue, confirmedTopics, connection, isFlushing, errors, accepted, discarded>>
SendBatch(f) ==
    /\ flushes[f].at = "sending"
    /\ Store(f, Topics)
    /\ Return(f, "resolved")
    /\ UNCHANGED <<recordQueue, confirmedTopics, connection, errors, accepted, discarded>>

\* A failed sendBatch may have stored some of the topics.
SendFails(f) ==
    /\ flushes[f].at = "sending" /\ errors < MaxErrors
    /\ errors' = errors + 1
    /\ \E topics \in SUBSET {TopicOf[r] : r \in Batch(f)} : Store(f, topics)

\* Any other error rejects the batch.
SendRejected(f) ==
    /\ SendFails(f)
    /\ Return(f, "rejected")
    /\ UNCHANGED <<recordQueue, confirmedTopics, connection, accepted, discarded>>

\* Codes 59 and 3 are recovered from, with the batch in hand.
SendRecoverable(f) ==
    /\ SendFails(f)
    /\ \E place \in {"reconnect", "createTopic"} : flushes' = [flushes EXCEPT ![f].at = place]
    /\ UNCHANGED <<sendVars, recordQueue, connection, isFlushing, accepted, discarded>>

\* The producer was replaced or the topics created: flush(outgoingRecords, ...) pauses.
Recovered(f) ==
    /\ flushes[f].at \in {"reconnect", "createTopic"}
    /\ flushes' = [flushes EXCEPT ![f].at = "paused"]
    /\ UNCHANGED <<sendVars, recordQueue, connection, isFlushing, brokerVars, accepted, discarded>>

\* disconnect, connect, onTopicFailure or the admin client threw inside the catch block.
RecoveryFails(f) ==
    /\ flushes[f].at \in {"reconnect", "createTopic"}
    /\ flushes' = [flushes EXCEPT ![f].at = "dead"]
    /\ UNCHANGED <<sendVars, recordQueue, connection, isFlushing, brokerVars, accepted, discarded>>

\* After the pause the retry slices the queue again, although its batch is retryRecords.
Retry_NewBatch(f) ==
    /\ flushes[f].at = "paused"
    /\ isFlushing' = TRUE
    /\ flushes' = [flushes EXCEPT ![f] = [at |-> "sending", batch |-> Slice]]
    /\ recordQueue' = Remainder
    /\ UNCHANGED <<sendVars, connection, brokerVars, accepted, discarded>>
Retry_BatchBehindQueue(f) ==
    /\ flushes[f].at = "paused"
    /\ isFlushing' = FALSE
    /\ flushes' = [flushes EXCEPT ![f] = [at |-> "idle", batch |-> <<>>]]
    /\ recordQueue' = recordQueue \o flushes[f].batch
    /\ UNCHANGED <<sendVars, connection, brokerVars, accepted, discarded>>
Retry(f) ==
    /\ flushes[f].at = "paused"
    /\ isFlushing' = TRUE
    /\ flushes' = [flushes EXCEPT ![f].at = "sending"]
    /\ recordQueue' = Remainder
    /\ discarded' = discarded \cup Elements(Slice)
    /\ UNCHANGED <<sendVars, connection, brokerVars, accepted>>

FlushStep(f) == \/ SendBatch(f) \/ SendRejected(f) \/ SendRecoverable(f)
                \/ Recovered(f) \/ RecoveryFails(f) \/ Retry(f)

Next == \/ Connect \/ StopInterval \/ Disconnected
        \/ \E r \in Records : Send(r) \/ SendRefused(r) \/ TopicCreated(r) \/ TopicFailed(r)
        \/ \E f \in Flushes : Flush(f) \/ FlushStep(f)

\* The interval keeps ticking, and every await of flush and of send settles.
Fairness == /\ WF_vars(\E f \in Flushes : Flush(f))
            /\ \A f \in Flushes : WF_vars(FlushStep(f))
            /\ \A r \in Records : WF_vars(TopicCreated(r) \/ TopicFailed(r))

Spec == Init /\ [][Next]_vars /\ Fairness
-----------------------------------------------------------------------------
Calls == {"none", "refused", "creating", "pending", "resolved", "rejected"}

TypeOK == /\ call \in [Records -> Calls]
          /\ recordQueue \in Seq(Records)
          /\ confirmedTopics \subseteq Topics
          /\ isConnected \in BOOLEAN /\ ticking \in BOOLEAN
          /\ isFlushing \in BOOLEAN
          /\ flushes \in [Flushes -> [at: Places, batch: Seq(Records)]]
          /\ log \in Seq([batch: Seq(Records), topics: SUBSET Topics])
          /\ errors \in 0..MaxErrors
          /\ accepted \in Seq(Records)
          /\ discarded \subseteq Records

\* The flag admits one flush at a time, through retries and failed recoveries.
OneFlush == \A f, g \in Flushes : InHand(f) /\ InHand(g) => f = g

StoredAt(r, k) == TopicOf[r] \in log[k].topics /\ r \in Elements(log[k].batch)
Stored(r) == \E k \in DOMAIN log : StoredAt(r, k)

\* A caller is told its record was sent only if the broker has it.
ResolvedIsStored == \A r \in Records : call[r] = "resolved" => Stored(r)

\* No record is forgotten but by the retry's second slice: a caller that waits has its
\* record in the queue or in a batch, or discarded.
PendingIsHeld == \A r \in Records : call[r] = "pending" =>
    \/ r \in Elements(recordQueue) \cup discarded
    \/ \E f \in Flushes : InHand(f) /\ r \in Batch(f)

\* The class comment: messages are produced reliably, with retries on protocol errors.
\* So every accepted record is still to be sent until its promise settles.
NoRecordDiscarded == \A r \in Records : call[r] = "pending" =>
    \/ r \in Elements(recordQueue)
    \/ \E f \in Flushes : InHand(f) /\ r \in Batch(f)

\* Within a topic the broker first stores records in the order in which they entered the
\* queue, whatever failed and was retried in between.  (It need not be the order of the calls
\* of send: one passes another that is still creating the topic.)
Position(r, seq) == CHOOSE k \in DOMAIN seq : seq[k] = r /\ \A j \in DOMAIN seq : seq[j] = r => k <= j
FirstAppend(r) == CHOOSE k \in DOMAIN log : StoredAt(r, k) /\ \A j \in DOMAIN log : StoredAt(r, j) => k <= j
StoredBefore(r, s) ==
    \/ FirstAppend(r) < FirstAppend(s)
    \/ /\ FirstAppend(r) = FirstAppend(s)
       /\ LET batch == log[FirstAppend(r)].batch IN Position(r, batch) < Position(s, batch)
StoredInOrder == \A r, s \in Records :
    /\ TopicOf[r] = TopicOf[s] /\ Stored(r) /\ Stored(s)
    /\ Position(r, accepted) < Position(s, accepted)
    => StoredBefore(r, s)

\* A waiting caller hears of its record, unless the producer is closed, a recovery threw or
\* the record was discarded.
PendingSettles == \A r \in Records :
    call[r] = "pending" ~> \/ call[r] \in {"resolved", "rejected"}
                           \/ ~ticking \/ r \in discarded
                           \/ \E f \in Flushes : flushes[f].at = "dead"
=============================================================================

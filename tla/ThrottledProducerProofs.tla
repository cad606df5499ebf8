----------------------- MODULE ThrottledProducerProofs ----------------------
(***************************************************************************)
(* What holds of the throttled producer for every set of records, every    *)
(* batch size and every number of failures: type correctness, one flush at *)
(* a time, a resolved promise means a stored record, a waiting caller      *)
(* whose record is nowhere lost it to the retry's second slice, and the    *)
(* records of a topic are stored in the order they were queued.            *)
(***************************************************************************)
EXTENDS ThrottledProducer, SequenceTheorems, FiniteSetTheorems, WellFoundedInduction, TLAPS

\* Whoever holds a batch also holds isFlushing, and nobody else holds one.
FlagHeld == (\E f \in Flushes : InHand(f)) => isFlushing

IInv == TypeOK /\ FlagHeld /\ OneFlush /\ ResolvedIsStored /\ PendingIsHeld
-----------------------------------------------------------------------------
\* Appending adds one element.
LEMMA AppendElements ==
    ASSUME NEW S, NEW s \in Seq(S), NEW x \in S
    PROVE  /\ Append(s, x) \in Seq(S)
           /\ Elements(Append(s, x)) = Elements(s) \cup {x}
<1>1. Append(s, x) \in Seq(S)
  OBVIOUS
<1>2. DOMAIN Append(s, x) = (DOMAIN s) \cup {Len(s) + 1}
  OBVIOUS
<1>3. Append(s, x)[Len(s) + 1] = x /\ \A k \in DOMAIN s : Append(s, x)[k] = s[k]
  OBVIOUS
<1> QED BY <1>1, <1>2, <1>3 DEF Elements

\* The slice a flush takes and the remainder it leaves are the queue.
LEMMA SliceFacts ==
    ASSUME recordQueue \in Seq(Records)
    PROVE  /\ Slice \in Seq(Records) /\ Remainder \in Seq(Records)
           /\ Elements(recordQueue) = Elements(Slice) \cup Elements(Remainder)
<1> DEFINE n == Len(recordQueue)
<1>1. n \in Nat /\ BatchSize \in Nat
  BY BatchSizeAssumption
<1>2. SliceEnd \in 0..n
  BY <1>1 DEF SliceEnd, Smaller
<1>3. /\ Slice \in Seq(Records) /\ Len(Slice) = SliceEnd
      /\ \A k \in 1..SliceEnd : Slice[k] = recordQueue[k]
  BY <1>1, <1>2 DEF Slice
<1>4. /\ Remainder \in Seq(Records) /\ Len(Remainder) = n - SliceEnd
      /\ \A k \in 1..(n - SliceEnd) : Remainder[k] = recordQueue[SliceEnd + k]
  BY <1>1, <1>2 DEF Remainder
<1>5. Elements(recordQueue) \subseteq Elements(Slice) \cup Elements(Remainder)
  <2> SUFFICES ASSUME NEW k \in 1..n
               PROVE  recordQueue[k] \in Elements(Slice) \cup Elements(Remainder)
    BY DEF Elements
  <2>1. CASE k <= SliceEnd
    BY <1>2, <1>3, <2>1 DEF Elements
  <2>2. CASE k > SliceEnd
    <3>1. k - SliceEnd \in 1..(n - SliceEnd) /\ SliceEnd + (k - SliceEnd) = k
      BY <1>1, <1>2, <2>2
    <3>2. Remainder[k - SliceEnd] = recordQueue[k]
      BY <1>4, <3>1
    <3> QED BY <1>4, <3>1, <3>2 DEF Elements
  <2> QED BY <1>1, <1>2, <2>1, <2>2
<1>6. Elements(Slice) \subseteq Elements(recordQueue)
  BY <1>1, <1>2, <1>3 DEF Elements
<1>7. Elements(Remainder) \subseteq Elements(recordQueue)
  <2> SUFFICES ASSUME NEW k \in 1..(n - SliceEnd)
               PROVE  Remainder[k] \in Elements(recordQueue)
    BY <1>4 DEF Elements
  <2>1. SliceEnd + k \in 1..n
    BY <1>1, <1>2
  <2> QED BY <1>4, <2>1 DEF Elements
<1> QED BY <1>3, <1>4, <1>5, <1>6, <1>7

\* A broker append stores the batch for the topics named, and keeps what was stored.
LEMMA StoreFacts ==
    ASSUME TypeOK, NEW f \in Flushes, NEW topics \in SUBSET Topics, Store(f, topics)
    PROVE  /\ log' \in Seq([batch: Seq(Records), topics: SUBSET Topics])
           /\ \A r \in Records : Stored(r) => Stored(r)'
           /\ \A r \in Batch(f) : TopicOf[r] \in topics => Stored(r)'
<1> DEFINE entry == [batch |-> flushes[f].batch, topics |-> topics]
<1>1. entry \in [batch: Seq(Records), topics: SUBSET Topics]
  BY DEF TypeOK
<1>2. /\ log \in Seq([batch: Seq(Records), topics: SUBSET Topics])
      /\ log' = Append(log, entry)
  BY DEF TypeOK, Store
<1>3. log' \in Seq([batch: Seq(Records), topics: SUBSET Topics])
  BY <1>1, <1>2
<1>4. /\ DOMAIN log' = (DOMAIN log) \cup {Len(log) + 1}
      /\ log'[Len(log) + 1] = entry
      /\ \A k \in DOMAIN log : log'[k] = log[k]
  <2> HIDE DEF entry
  <2> QED BY <1>1, <1>2
<1>5. \A r \in Records : Stored(r) => Stored(r)'
  BY <1>4 DEF Stored, StoredAt
<1>6. \A r \in Batch(f) : TopicOf[r] \in topics => Stored(r)'
  <2> SUFFICES ASSUME NEW r \in Batch(f), TopicOf[r] \in topics
               PROVE  Stored(r)'
    OBVIOUS
  <2>1. entry.batch = flushes[f].batch /\ entry.topics = topics
    OBVIOUS
  <2>2. TopicOf[r] \in log'[Len(log) + 1].topics /\ r \in Elements(log'[Len(log) + 1].batch)
    BY <1>4, <2>1 DEF Batch
  <2> QED BY <1>4, <2>2 DEF Stored, StoredAt
<1> QED BY <1>3, <1>5, <1>6

\* What a returning invocation leaves of the shared facts: its flag, its batch and its
\* records' promises.
LEMMA ReturnFacts ==
    ASSUME TypeOK, NEW f \in Flushes, NEW result \in {"resolved", "rejected"}, Return(f, result)
    PROVE  /\ call' \in [Records -> Calls] /\ isFlushing' = FALSE
           /\ flushes' \in [Flushes -> [at: Places, batch: Seq(Records)]]
           /\ ~InHand(f)'
           /\ \A g \in Flushes : g # f => flushes'[g] = flushes[g]
           /\ \A r \in Records : call'[r] = IF r \in Batch(f) THEN result ELSE call[r]
<1>1. [at |-> "idle", batch |-> <<>>] \in [at: Places, batch: Seq(Records)]
  BY DEF Places
<1>2. flushes \in [Flushes -> [at: Places, batch: Seq(Records)]]
  BY DEF TypeOK
<1>3. flushes' = [flushes EXCEPT ![f] = [at |-> "idle", batch |-> <<>>]]
  BY DEF Return
<1>4. flushes' \in [Flushes -> [at: Places, batch: Seq(Records)]]
  BY <1>1, <1>2, <1>3
<1>5. flushes'[f] = [at |-> "idle", batch |-> <<>>] /\ \A g \in Flushes : g # f => flushes'[g] = flushes[g]
  BY <1>2, <1>3
<1>6. ~InHand(f)'
  BY <1>5 DEF InHand
<1>7. /\ call' \in [Records -> Calls] /\ isFlushing' = FALSE
      /\ \A r \in Records : call'[r] = IF r \in Batch(f) THEN result ELSE call[r]
  BY DEF Return, TypeOK, Calls
<1> QED BY <1>4, <1>5, <1>6, <1>7
-----------------------------------------------------------------------------
\* The producer starts with nothing to send.
LEMMA InitIInv == Init => IInv
<1> SUFFICES ASSUME Init PROVE IInv
  OBVIOUS
<1>1. TypeOK
  <2>1. <<>> \in Seq(Records) /\ <<>> \in Seq([batch: Seq(Records), topics: SUBSET Topics])
    OBVIOUS
  <2>2. flushes \in [Flushes -> [at: Places, batch: Seq(Records)]]
    BY <2>1 DEF Init, Places
  <2>3. call \in [Records -> Calls] /\ errors \in 0..MaxErrors
    BY MaxErrorsAssumption DEF Init, Calls
  <2> QED BY <2>1, <2>2, <2>3 DEF Init, TypeOK
<1>2. FlagHeld /\ OneFlush
  BY DEF Init, FlagHeld, OneFlush, InHand
<1>3. ResolvedIsStored /\ PendingIsHeld
  BY DEF Init, ResolvedIsStored, PendingIsHeld
<1> QED BY <1>1, <1>2, <1>3 DEF IInv

\* The steps of connect and disconnect, and a send that is refused or starts creating its
\* topic, leave queue, batches and log alone and settle no queued record.
LEMMA CallerStep ==
    ASSUME IInv,
           call' \in [Records -> Calls], confirmedTopics' \subseteq Topics,
           isConnected' \in BOOLEAN, ticking' \in BOOLEAN,
           \A r \in Records : call'[r] \in {"pending", "resolved"} => call'[r] = call[r],
           UNCHANGED <<recordQueue, isFlushing, flushes, brokerVars, accepted, discarded>>
    PROVE  IInv'
<1>1. TypeOK'
  BY DEF IInv, TypeOK, brokerVars
<1>2. FlagHeld' /\ OneFlush'
  BY DEF IInv, FlagHeld, OneFlush, InHand
<1>3. ResolvedIsStored'
  BY DEF IInv, ResolvedIsStored, Stored, StoredAt, brokerVars
<1>4. PendingIsHeld'
  BY DEF IInv, PendingIsHeld, InHand, Batch
<1> QED BY <1>1, <1>2, <1>3, <1>4 DEF IInv

\* A record that enters the queue is held there.
LEMMA AcceptStep ==
    ASSUME IInv, NEW r \in Records, Accept(r),
           UNCHANGED <<confirmedTopics, connection, isFlushing, flushes, brokerVars, discarded>>
    PROVE  IInv'
<1>1. /\ recordQueue' \in Seq(Records) /\ accepted' \in Seq(Records)
      /\ Elements(recordQueue)' = Elements(recordQueue) \cup {r}
  BY AppendElements DEF Accept, IInv, TypeOK
<1>2. TypeOK'
  BY <1>1 DEF IInv, TypeOK, Accept, Calls, brokerVars, connection
<1>3. FlagHeld' /\ OneFlush'
  BY DEF IInv, FlagHeld, OneFlush, InHand
<1>4. ResolvedIsStored'
  BY DEF IInv, TypeOK, ResolvedIsStored, Stored, StoredAt, Accept, brokerVars
<1>5. PendingIsHeld'
  BY <1>1 DEF IInv, TypeOK, PendingIsHeld, InHand, Batch, Accept
<1> QED BY <1>2, <1>3, <1>4, <1>5 DEF IInv

\* A flush takes the flag and a slice of the queue into its hand.
LEMMA FlushKeepsIInv == ASSUME IInv, NEW f \in Flushes, Flush(f) PROVE IInv'
<1>1. /\ Slice \in Seq(Records) /\ recordQueue' \in Seq(Records)
      /\ Elements(recordQueue) = Elements(Slice) \cup Elements(recordQueue)'
  BY SliceFacts DEF Flush, IInv, TypeOK
<1>2. /\ flushes' \in [Flushes -> [at: Places, batch: Seq(Records)]]
      /\ flushes'[f] = [at |-> "sending", batch |-> Slice]
      /\ \A g \in Flushes : g # f => flushes'[g] = flushes[g]
  BY <1>1 DEF Flush, IInv, TypeOK, Places
<1>3. TypeOK'
  BY <1>1, <1>2 DEF IInv, TypeOK, Flush, sendVars, brokerVars, connection
<1>4. \A g \in Flushes : ~InHand(g)
  BY DEF Flush, MayFlush, IInv, FlagHeld
<1>5. FlagHeld' /\ OneFlush'
  BY <1>2, <1>4 DEF Flush, FlagHeld, OneFlush, InHand
<1>6. ResolvedIsStored'
  BY DEF IInv, ResolvedIsStored, Stored, StoredAt, Flush, sendVars, brokerVars
<1>7. InHand(f)' /\ Batch(f)' = Elements(Slice)
  BY <1>2 DEF InHand, Batch, Elements
<1>8. PendingIsHeld'
  BY <1>1, <1>4, <1>7 DEF IInv, PendingIsHeld, Flush, sendVars
<1> QED BY <1>3, <1>5, <1>6, <1>8 DEF IInv

\* An invocation that has stored its batch for some topics and settles its records: with
\* "resolved" only when the topics are all of them.
LEMMA ReturnStep ==
    ASSUME IInv, NEW f \in Flushes, NEW result \in {"resolved", "rejected"}, Return(f, result),
           NEW topics \in SUBSET Topics, Store(f, topics),
           result = "resolved" => topics = Topics,
           errors' \in 0..MaxErrors, InHand(f),
           UNCHANGED <<recordQueue, confirmedTopics, connection, accepted, discarded>>
    PROVE  IInv'
<1>1. /\ log' \in Seq([batch: Seq(Records), topics: SUBSET Topics])
      /\ \A r \in Records : Stored(r) => Stored(r)'
      /\ \A r \in Batch(f) : TopicOf[r] \in topics => Stored(r)'
  BY StoreFacts DEF IInv
<1>2. /\ call' \in [Records -> Calls] /\ isFlushing' = FALSE
      /\ flushes' \in [Flushes -> [at: Places, batch: Seq(Records)]]
      /\ ~InHand(f)'
      /\ \A g \in Flushes : g # f => flushes'[g] = flushes[g]
      /\ \A r \in Records : call'[r] = IF r \in Batch(f) THEN result ELSE call[r]
  BY ReturnFacts DEF IInv
<1>3. TypeOK'
  BY <1>1, <1>2 DEF IInv, TypeOK, connection
<1>4. \A g \in Flushes : ~InHand(g)'
  BY <1>2 DEF IInv, OneFlush, InHand
<1>5. FlagHeld' /\ OneFlush'
  BY <1>4 DEF FlagHeld, OneFlush
<1>6. ResolvedIsStored'
  <2> SUFFICES ASSUME NEW r \in Records, call'[r] = "resolved" PROVE Stored(r)'
    BY DEF ResolvedIsStored
  <2>1. CASE r \in Batch(f)
    BY <1>1, <1>2, <2>1 DEF Topics
  <2>2. CASE r \notin Batch(f)
    BY <1>1, <1>2, <2>2 DEF IInv, ResolvedIsStored
  <2> QED BY <2>1, <2>2
<1>7. PendingIsHeld'
  <2> SUFFICES ASSUME NEW r \in Records, call'[r] = "pending"
               PROVE  r \in Elements(recordQueue)' \cup discarded'
    BY DEF PendingIsHeld
  <2>1. r \notin Batch(f) /\ call[r] = "pending"
    BY <1>2
  <2>2. \A g \in Flushes : InHand(g) => g = f
    BY DEF IInv, OneFlush
  <2> QED BY <2>1, <2>2 DEF IInv, PendingIsHeld, Elements
<1> QED BY <1>3, <1>5, <1>6, <1>7 DEF IInv

\* An invocation that moves on with its batch in hand.
LEMMA CarryStep ==
    ASSUME IInv, NEW f \in Flushes, InHand(f), NEW place \in Places \ {"idle"},
           flushes' = [flushes EXCEPT ![f].at = place],
           UNCHANGED <<sendVars, connection, isFlushing, accepted>>,
           log' \in Seq([batch: Seq(Records), topics: SUBSET Topics]), errors' \in 0..MaxErrors,
           \A r \in Records : Stored(r) => Stored(r)',
           recordQueue' \in Seq(Records), discarded \subseteq discarded', discarded' \subseteq Records,
           Elements(recordQueue) \subseteq Elements(recordQueue)' \cup discarded'
    PROVE  IInv'
<1>1. /\ flushes' \in [Flushes -> [at: Places, batch: Seq(Records)]]
      /\ \A g \in Flushes : InHand(g)' <=> InHand(g)
      /\ \A g \in Flushes : flushes'[g].batch = flushes[g].batch
  BY DEF IInv, TypeOK, InHand
<1>2. TypeOK'
  BY <1>1 DEF IInv, TypeOK, sendVars, connection
<1>3. FlagHeld' /\ OneFlush'
  BY <1>1 DEF IInv, FlagHeld, OneFlush
<1>4. ResolvedIsStored'
  BY DEF IInv, ResolvedIsStored, sendVars
<1>5. \A g \in Flushes : Batch(g)' = Batch(g)
  BY <1>1 DEF Batch, Elements
<1>6. PendingIsHeld'
  BY <1>1, <1>5 DEF IInv, PendingIsHeld, sendVars
<1> QED BY <1>2, <1>3, <1>4, <1>6 DEF IInv
-----------------------------------------------------------------------------
\* Every step of a flush invocation keeps the invariant.
LEMMA FlushStepKeepsIInv == ASSUME IInv, NEW f \in Flushes, FlushStep(f) PROVE IInv'
<1>1. CASE SendBatch(f)
  <2>1. InHand(f) /\ errors' \in 0..MaxErrors
    BY <1>1 DEF SendBatch, InHand, IInv, TypeOK
  <2>2. Return(f, "resolved") /\ Store(f, Topics)
    BY <1>1 DEF SendBatch
  <2>3. UNCHANGED <<recordQueue, confirmedTopics, connection, accepted, discarded>>
    BY <1>1 DEF SendBatch
  <2> QED BY <2>1, <2>2, <2>3, ReturnStep
<1>2. ASSUME SendFails(f)
      PROVE  /\ InHand(f) /\ errors' \in 0..MaxErrors
             /\ \E topics \in SUBSET Topics : Store(f, topics)
  <2>1. flushes[f].at = "sending" /\ errors < MaxErrors /\ errors' = errors + 1 /\ errors \in 0..MaxErrors
    BY <1>2 DEF SendFails, IInv, TypeOK
  <2>2. {TopicOf[r] : r \in Batch(f)} \subseteq Topics
    BY DEF IInv, TypeOK, Topics, Batch, Elements
  <2>3. \E topics \in SUBSET Topics : Store(f, topics)
    BY <1>2, <2>2 DEF SendFails
  <2> QED BY <2>1, <2>3, MaxErrorsAssumption DEF InHand
<1>3. CASE SendRejected(f)
  <2>1. PICK topics \in SUBSET Topics : Store(f, topics)
    BY <1>2, <1>3 DEF SendRejected
  <2>2. InHand(f) /\ errors' \in 0..MaxErrors /\ Return(f, "rejected")
    BY <1>2, <1>3 DEF SendRejected
  <2>3. UNCHANGED <<recordQueue, confirmedTopics, connection, accepted, discarded>>
    BY <1>3 DEF SendRejected
  <2> QED BY <2>1, <2>2, <2>3, ReturnStep
<1>4. CASE SendRecoverable(f)
  <2>1. PICK topics \in SUBSET Topics : Store(f, topics)
    BY <1>2, <1>4 DEF SendRecoverable
  <2>2. PICK place \in {"reconnect", "createTopic"} : flushes' = [flushes EXCEPT ![f].at = place]
    BY <1>4 DEF SendRecoverable
  <2>3. /\ log' \in Seq([batch: Seq(Records), topics: SUBSET Topics])
        /\ \A r \in Records : Stored(r) => Stored(r)'
    BY <2>1, StoreFacts DEF IInv
  <2>4. InHand(f) /\ errors' \in 0..MaxErrors /\ place \in Places \ {"idle"}
    BY <1>2, <1>4 DEF SendRecoverable, Places
  <2>5. /\ UNCHANGED <<sendVars, connection, isFlushing, accepted>>
        /\ recordQueue' = recordQueue /\ discarded' = discarded
    BY <1>4 DEF SendRecoverable
  <2>6. /\ recordQueue' \in Seq(Records) /\ discarded' \subseteq Records
        /\ Elements(recordQueue) \subseteq Elements(recordQueue)' \cup discarded'
    BY <2>5 DEF IInv, TypeOK, Elements
  <2> QED BY <2>2, <2>3, <2>4, <2>5, <2>6, CarryStep
<1>5. CASE Recovered(f) \/ RecoveryFails(f)
  <2>1. PICK place \in {"paused", "dead"} : flushes' = [flushes EXCEPT ![f].at = place]
    BY <1>5 DEF Recovered, RecoveryFails
  <2>2. InHand(f) /\ place \in Places \ {"idle"}
    BY <1>5 DEF Recovered, RecoveryFails, InHand, Places
  <2>3. /\ UNCHANGED <<sendVars, connection, isFlushing, accepted>>
        /\ recordQueue' = recordQueue /\ discarded' = discarded /\ log' = log /\ errors' = errors
    BY <1>5 DEF Recovered, RecoveryFails, brokerVars
  <2>4. /\ recordQueue' \in Seq(Records) /\ discarded' \subseteq Records /\ errors' \in 0..MaxErrors
        /\ log' \in Seq([batch: Seq(Records), topics: SUBSET Topics])
        /\ Elements(recordQueue) \subseteq Elements(recordQueue)' \cup discarded'
    BY <2>3 DEF IInv, TypeOK, Elements
  <2>5. \A r \in Records : Stored(r) => Stored(r)'
    BY <2>3 DEF Stored, StoredAt
  <2> QED BY <2>1, <2>2, <2>3, <2>4, <2>5, CarryStep
<1>6. CASE Retry(f)
  <2>1. /\ Slice \in Seq(Records) /\ Remainder \in Seq(Records)
        /\ Elements(recordQueue) = Elements(Slice) \cup Elements(Remainder)
    BY SliceFacts DEF IInv, TypeOK
  <2>2. /\ InHand(f) /\ isFlushing' = TRUE /\ flushes' = [flushes EXCEPT ![f].at = "sending"]
        /\ recordQueue' = Remainder /\ discarded' = discarded \cup Elements(Slice)
        /\ UNCHANGED <<sendVars, connection, accepted>> /\ log' = log /\ errors' = errors
    BY <1>6 DEF Retry, InHand, brokerVars
  <2>3. isFlushing' = isFlushing
    BY <2>2 DEF IInv, FlagHeld, TypeOK
  <2>4. Elements(Slice) \subseteq Records
    BY <2>1 DEF Elements
  <2>5. /\ recordQueue' \in Seq(Records) /\ discarded \subseteq discarded' /\ discarded' \subseteq Records
        /\ Elements(recordQueue) \subseteq Elements(recordQueue)' \cup discarded'
    BY <2>1, <2>2, <2>4 DEF IInv, TypeOK, Elements
  <2>6. /\ log' \in Seq([batch: Seq(Records), topics: SUBSET Topics]) /\ errors' \in 0..MaxErrors
        /\ \A r \in Records : Stored(r) => Stored(r)'
    BY <2>2 DEF IInv, TypeOK, Stored, StoredAt
  <2>7. "sending" \in Places \ {"idle"}
    BY DEF Places
  <2> QED BY <2>2, <2>3, <2>5, <2>6, <2>7, CarryStep
<1> QED BY <1>1, <1>3, <1>4, <1>5, <1>6 DEF FlushStep

\* Every step of the producer keeps the invariant, and so does a stutter.
LEMMA StepKeepsIInv == IInv /\ [Next]_vars => IInv'
<1> SUFFICES ASSUME IInv, [Next]_vars PROVE IInv'
  OBVIOUS
<1>1. CASE Connect \/ StopInterval \/ Disconnected
  <2>1. /\ call' = call /\ confirmedTopics' = confirmedTopics
        /\ isConnected' \in BOOLEAN /\ ticking' \in BOOLEAN
        /\ UNCHANGED <<recordQueue, isFlushing, flushes, brokerVars, accepted, discarded>>
    BY <1>1 DEF Connect, StopInterval, Disconnected, sendVars, IInv, TypeOK
  <2>2. call' \in [Records -> Calls] /\ confirmedTopics' \subseteq Topics
    BY <2>1 DEF IInv, TypeOK
  <2> QED BY <2>1, <2>2, CallerStep
<1>2. ASSUME NEW r \in Records, Send(r) \/ SendRefused(r) \/ TopicCreated(r) \/ TopicFailed(r)
      PROVE  IInv'
  <2>1. CASE Accept(r) /\ UNCHANGED <<confirmedTopics, connection, isFlushing, flushes, brokerVars, discarded>>
    BY <2>1, AcceptStep
  <2>2. CASE ~Accept(r)
    <3>1. PICK status \in {"creating", "refused"} : call' = [call EXCEPT ![r] = status]
      BY <1>2, <2>2 DEF Send, SendRefused, TopicCreated, TopicFailed
    <3>2. /\ UNCHANGED <<connection, recordQueue, isFlushing, flushes, brokerVars, accepted, discarded>>
          /\ confirmedTopics' \in {confirmedTopics, confirmedTopics \cup {TopicOf[r]}}
      BY <1>2, <2>2 DEF Send, SendRefused, TopicCreated, TopicFailed, connection
    <3>3. call' \in [Records -> Calls] /\ confirmedTopics' \subseteq Topics
      BY <3>1, <3>2 DEF IInv, TypeOK, Calls, Topics
    <3>4. \A q \in Records : call'[q] \in {"pending", "resolved"} => call'[q] = call[q]
      BY <3>1 DEF IInv, TypeOK
    <3>5. isConnected' \in BOOLEAN /\ ticking' \in BOOLEAN
      BY <3>2 DEF IInv, TypeOK, connection
    <3> QED BY <3>2, <3>3, <3>4, <3>5, CallerStep
  <2>3. Accept(r) => UNCHANGED <<confirmedTopics, connection, isFlushing, flushes, brokerVars, discarded>>
    <3> SUFFICES ASSUME Accept(r)
                 PROVE  UNCHANGED <<confirmedTopics, connection, isFlushing, flushes, brokerVars, discarded>>
      OBVIOUS
    <3>1. call'[r] = "pending"
      BY DEF Accept, IInv, TypeOK
    <3> QED BY <1>2, <3>1 DEF Send, SendRefused, TopicCreated, TopicFailed, connection, IInv, TypeOK
  <2> QED BY <2>1, <2>2, <2>3
<1>3. ASSUME NEW f \in Flushes, Flush(f) \/ FlushStep(f)
      PROVE  IInv'
  BY <1>3, FlushKeepsIInv, FlushStepKeepsIInv
<1>4. CASE UNCHANGED vars
  <2>1. /\ call' = call /\ confirmedTopics' = confirmedTopics
        /\ isConnected' = isConnected /\ ticking' = ticking
        /\ UNCHANGED <<recordQueue, isFlushing, flushes, brokerVars, accepted, discarded>>
    BY <1>4 DEF vars, brokerVars
  <2>2. /\ call' \in [Records -> Calls] /\ confirmedTopics' \subseteq Topics
        /\ isConnected' \in BOOLEAN /\ ticking' \in BOOLEAN
    BY <2>1 DEF IInv, TypeOK
  <2> QED BY <2>1, <2>2, CallerStep
<1> QED BY <1>1, <1>2, <1>3, <1>4 DEF Next

\* The inductive invariant holds throughout.
THEOREM Invariance == Spec => []IInv
<1> QED BY InitIInv, StepKeepsIInv, PTL DEF Spec

\* Every variable of the producer keeps its type, whatever the number of records.
THEOREM TypeCorrect == Spec => []TypeOK
<1>1. IInv => TypeOK
  BY DEF IInv
<1> QED BY <1>1, Invariance, PTL

\* One flush holds a batch at a time, through retries and failed recoveries.
THEOREM SingleFlush == Spec => []OneFlush
<1>1. IInv => OneFlush
  BY DEF IInv
<1> QED BY <1>1, Invariance, PTL

\* A promise that resolved is of a record the broker stored.
THEOREM ResolvedMeansStored == Spec => []ResolvedIsStored
<1>1. IInv => ResolvedIsStored
  BY DEF IInv
<1> QED BY <1>1, Invariance, PTL

\* A waiting caller's record is in the queue or in a flush's hand, or a retry dropped it.
THEOREM NothingElseDropsRecords == Spec => []PendingIsHeld
<1>1. IInv => PendingIsHeld
  BY DEF IInv
<1> QED BY <1>1, Invariance, PTL
-----------------------------------------------------------------------------
(* The order of what is stored *)

\* a was queued before b, and a sequence, or two sets, that keep to that order.
Before(a, b) == \E i, j \in DOMAIN accepted : i < j /\ accepted[i] = a /\ accepted[j] = b
InOrder(seq) == \A i, j \in DOMAIN seq : i < j => Before(seq[i], seq[j])
AllBefore(S, T) == \A a \in S, b \in T : Before(a, b)

\* Records are accepted once, and only accepted ones are queued, in hand or stored.
AcceptedOnce == /\ \A i, j \in DOMAIN accepted : accepted[i] = accepted[j] => i = j
                /\ \A r \in Elements(accepted) : call[r] \notin {"none", "creating"}
                /\ Elements(recordQueue) \subseteq Elements(accepted)
                /\ \A f \in Flushes : Batch(f) \subseteq Elements(accepted)
                /\ \A k \in DOMAIN log : Elements(log[k].batch) \subseteq Elements(accepted)

\* The broker's batches, the one in hand and the queue follow one another; what is sent again is the same batch.
Sent(k) == Elements(log[k].batch)
Precedes(k, f) == log[k].batch = flushes[f].batch \/ AllBefore(Sent(k), Batch(f))
QueueInOrder == InOrder(recordQueue)
HandInOrder == \A f \in Flushes : InOrder(flushes[f].batch) /\ AllBefore(Batch(f), Elements(recordQueue))
LogInOrder == /\ \A k \in DOMAIN log : InOrder(log[k].batch) /\ AllBefore(Sent(k), Elements(recordQueue))
              /\ \A k \in DOMAIN log, f \in Flushes : InHand(f) => Precedes(k, f)
              /\ \A k, l \in DOMAIN log : k < l => log[k].batch = log[l].batch \/ AllBefore(Sent(k), Sent(l))
Ordered == AcceptedOnce /\ QueueInOrder /\ HandInOrder /\ LogInOrder

\* What was before stays before, as records are accepted, and nothing is before what was before it.
LEMMA BeforeFacts ==
    ASSUME AcceptedOnce, accepted \in Seq(Records)
    PROVE  \A a, b : Before(a, b) => a # b /\ ~Before(b, a)
<1> SUFFICES ASSUME NEW a, NEW b, Before(a, b), a = b \/ Before(b, a) PROVE FALSE
  OBVIOUS
<1>1. PICK i, j \in DOMAIN accepted : i < j /\ accepted[i] = a /\ accepted[j] = b
  BY DEF Before
<1>2. i \in Nat /\ j \in Nat
  BY <1>1
<1>3. a # b
  BY <1>1, <1>2 DEF AcceptedOnce
<1>4. PICK m, n \in DOMAIN accepted : m < n /\ accepted[m] = b /\ accepted[n] = a
  BY <1>3 DEF Before
<1>5. m = j /\ n = i
  BY <1>1, <1>4 DEF AcceptedOnce
<1> QED BY <1>1, <1>2, <1>4, <1>5

\* A slice of an ordered queue, and what is left behind it.
LEMMA SliceOrder ==
    ASSUME recordQueue \in Seq(Records), QueueInOrder
    PROVE  /\ InOrder(Slice) /\ InOrder(Remainder) /\ AllBefore(Elements(Slice), Elements(Remainder))
           /\ Elements(Slice) \subseteq Elements(recordQueue) /\ Elements(Remainder) \subseteq Elements(recordQueue)
<1> DEFINE n == Len(recordQueue)
<1>1. n \in Nat /\ BatchSize \in Nat
  BY BatchSizeAssumption
<1>2. SliceEnd \in 0..n
  BY <1>1 DEF SliceEnd, Smaller
<1>3. /\ DOMAIN Slice = 1..SliceEnd
      /\ \A k \in 1..SliceEnd : Slice[k] = recordQueue[k] /\ k \in DOMAIN recordQueue
  BY <1>1, <1>2 DEF Slice
<1>4. /\ DOMAIN Remainder = 1..(n - SliceEnd)
      /\ \A k \in 1..(n - SliceEnd) : Remainder[k] = recordQueue[SliceEnd + k] /\ SliceEnd + k \in DOMAIN recordQueue
  BY <1>1, <1>2 DEF Remainder
<1>5. InOrder(Slice)
  BY <1>3 DEF InOrder, QueueInOrder
<1>6. InOrder(Remainder)
  <2> SUFFICES ASSUME NEW i \in 1..(n - SliceEnd), NEW j \in 1..(n - SliceEnd), i < j
               PROVE  Before(Remainder[i], Remainder[j])
    BY <1>4 DEF InOrder
  <2>1. SliceEnd + i < SliceEnd + j
    BY <1>1, <1>2
  <2> QED BY <1>4, <2>1 DEF InOrder, QueueInOrder
<1>7. AllBefore(Elements(Slice), Elements(Remainder))
  <2> SUFFICES ASSUME NEW i \in 1..SliceEnd, NEW j \in 1..(n - SliceEnd) PROVE Before(Slice[i], Remainder[j])
    BY <1>3, <1>4 DEF AllBefore, Elements
  <2>1. i < SliceEnd + j
    BY <1>1, <1>2
  <2> QED BY <1>3, <1>4, <2>1 DEF InOrder, QueueInOrder
<1> QED BY <1>3, <1>4, <1>5, <1>6, <1>7 DEF Elements

\* The order starts with nothing.
LEMMA InitOrdered == Init => Ordered
<1> SUFFICES ASSUME Init PROVE Ordered
  OBVIOUS
<1>1. /\ DOMAIN accepted = {} /\ DOMAIN recordQueue = {} /\ DOMAIN log = {}
      /\ \A f \in Flushes : DOMAIN flushes[f].batch = {}
  BY DEF Init
<1> QED BY <1>1 DEF Ordered, AcceptedOnce, QueueInOrder, HandInOrder, LogInOrder, InOrder, AllBefore, Elements, Batch

\* Calls change, and none that was accepted is taken back.
LEMMA CallerOrder ==
    ASSUME Ordered, \A r \in Elements(accepted) : call'[r] \notin {"none", "creating"},
           UNCHANGED <<recordQueue, flushes, log, accepted>>
    PROVE  Ordered'
<1>1. AcceptedOnce'
  <2>1. /\ Elements(accepted)' = Elements(accepted) /\ Elements(recordQueue)' = Elements(recordQueue)
        /\ \A f \in Flushes : Batch(f)' = Batch(f)
        /\ \A k \in DOMAIN log : Sent(k)' = Sent(k)
    BY DEF Elements, Batch, Sent
  <2> QED BY <2>1 DEF Ordered, AcceptedOnce, Sent
<1>2. QueueInOrder' /\ HandInOrder' /\ LogInOrder'
  BY DEF Ordered, QueueInOrder, HandInOrder, LogInOrder, InOrder, AllBefore, Before, Batch, Elements, Sent, Precedes, InHand
<1> QED BY <1>1, <1>2 DEF Ordered

\* A record enters the queue behind all that was accepted before.
LEMMA AcceptOrder ==
    ASSUME TypeOK, Ordered, NEW r \in Records, Accept(r), call[r] \in {"none", "creating"}, UNCHANGED <<flushes, log>>
    PROVE  Ordered'
<1>1. /\ accepted \in Seq(Records) /\ recordQueue \in Seq(Records) /\ accepted' = Append(accepted, r)
      /\ recordQueue' = Append(recordQueue, r) /\ call' = [call EXCEPT ![r] = "pending"] /\ call \in [Records -> Calls]
  BY DEF TypeOK, Accept
<1>2. r \notin Elements(accepted)
  BY DEF Ordered, AcceptedOnce
<1>3. /\ DOMAIN accepted' = (DOMAIN accepted) \cup {Len(accepted) + 1} /\ accepted'[Len(accepted) + 1] = r
      /\ \A k \in DOMAIN accepted : accepted'[k] = accepted[k] /\ k < Len(accepted) + 1
  BY <1>1
<1>4. Elements(accepted') = Elements(accepted) \cup {r} /\ Elements(recordQueue') = Elements(recordQueue) \cup {r}
  BY <1>1, AppendElements
<1>5. \A a, b : Before(a, b) => Before(a, b)'
  BY <1>3 DEF Before
<1>6. \A a \in Elements(accepted) : Before(a, r)'
  <2> SUFFICES ASSUME NEW a \in Elements(accepted) PROVE Before(a, r)'
    OBVIOUS
  <2>1. PICK k \in DOMAIN accepted : accepted[k] = a
    BY DEF Elements
  <2> QED BY <1>3, <2>1 DEF Before
<1>7. AcceptedOnce'
  <2>1. \A i, j \in DOMAIN accepted' : accepted'[i] = accepted'[j] => i = j
    BY <1>2, <1>3 DEF Ordered, AcceptedOnce, Elements
  <2>2. \A q \in Elements(accepted') : call'[q] \notin {"none", "creating"}
    <3>1. Elements(accepted) \subseteq Records
      BY <1>1 DEF Elements
    <3> QED BY <1>1, <1>4, <3>1 DEF Ordered, AcceptedOnce
  <2>3. Elements(recordQueue') \subseteq Elements(accepted')
    BY <1>4 DEF Ordered, AcceptedOnce
  <2>4. \A f \in Flushes : Batch(f)' = Batch(f)
    BY DEF Batch, Elements
  <2>5. \A k \in DOMAIN log : Elements(log[k].batch)' = Elements(log[k].batch)
    BY DEF Elements
  <2> QED BY <1>4, <2>1, <2>2, <2>3, <2>4, <2>5 DEF Ordered, AcceptedOnce, Elements
<1>8. \A seq : InOrder(seq) => InOrder(seq)'
  BY <1>5 DEF InOrder
<1>9. \A S, T : AllBefore(S, T) => AllBefore(S, T)'
  BY <1>5 DEF AllBefore
<1>10. \A S : S \subseteq Elements(accepted) /\ AllBefore(S, Elements(recordQueue)) => AllBefore(S, Elements(recordQueue))'
  BY <1>4, <1>5, <1>6 DEF AllBefore, Elements
<1>11. QueueInOrder'
  <2>1. /\ DOMAIN recordQueue' = (DOMAIN recordQueue) \cup {Len(recordQueue) + 1} /\ recordQueue'[Len(recordQueue) + 1] = r
        /\ \A k \in DOMAIN recordQueue : recordQueue'[k] = recordQueue[k] /\ k < Len(recordQueue) + 1 /\ k \in Nat
        /\ Len(recordQueue) + 1 \in Nat
    BY <1>1
  <2>2. \A k \in DOMAIN recordQueue : recordQueue[k] \in Elements(accepted)
    BY DEF Ordered, AcceptedOnce, Elements
  <2> SUFFICES ASSUME NEW i \in DOMAIN recordQueue', NEW j \in DOMAIN recordQueue', i < j
               PROVE  Before(recordQueue[i], recordQueue[j])'
    BY DEF QueueInOrder, InOrder
  <2>3. i \in DOMAIN recordQueue
    <3> SUFFICES ASSUME i = Len(recordQueue) + 1 PROVE FALSE
      BY <2>1
    <3> QED BY <2>1
  <2>4. CASE j \in DOMAIN recordQueue
    BY <1>5, <2>1, <2>3, <2>4 DEF Ordered, QueueInOrder, InOrder
  <2>5. CASE j = Len(recordQueue) + 1
    BY <1>6, <2>1, <2>2, <2>3, <2>5
  <2> QED BY <2>1, <2>4, <2>5
<1>12. HandInOrder'
  <2>1. \A f \in Flushes : Batch(f) \subseteq Elements(accepted) /\ InOrder(flushes[f].batch) /\ AllBefore(Batch(f), Elements(recordQueue))
    BY DEF Ordered, AcceptedOnce, HandInOrder
  <2>2. \A f \in Flushes : Batch(f)' = Batch(f) /\ flushes'[f] = flushes[f]
    BY DEF Batch, Elements
  <2> QED BY <1>8, <1>10, <2>1, <2>2 DEF HandInOrder, AllBefore, InOrder
<1>13. LogInOrder'
  <2>1. \A k \in DOMAIN log : Sent(k) \subseteq Elements(accepted) /\ InOrder(log[k].batch) /\ AllBefore(Sent(k), Elements(recordQueue))
    BY DEF Ordered, AcceptedOnce, LogInOrder, Sent
  <2>2. /\ \A k \in DOMAIN log : Sent(k)' = Sent(k)
        /\ \A f \in Flushes : Batch(f)' = Batch(f) /\ flushes'[f] = flushes[f] /\ (InHand(f)' <=> InHand(f))
    BY DEF Batch, Elements, Sent, InHand
  <2>3. \A k \in DOMAIN log : InOrder(log[k].batch)' /\ AllBefore(Sent(k), Elements(recordQueue))'
    BY <1>8, <1>10, <2>1, <2>2 DEF AllBefore, InOrder
  <2>4. \A k \in DOMAIN log, f \in Flushes : InHand(f)' => Precedes(k, f)'
    <3> SUFFICES ASSUME NEW k \in DOMAIN log, NEW f \in Flushes, InHand(f) PROVE Precedes(k, f)'
      BY <2>2
    <3>1. Precedes(k, f)
      BY DEF Ordered, LogInOrder
    <3> QED BY <1>9, <2>2, <3>1 DEF Precedes, AllBefore
  <2>5. \A k, l \in DOMAIN log : k < l => log'[k].batch = log'[l].batch \/ AllBefore(Sent(k), Sent(l))'
    BY <1>9, <2>2 DEF Ordered, LogInOrder, AllBefore
  <2> QED BY <2>3, <2>4, <2>5 DEF LogInOrder
<1> QED BY <1>7, <1>11, <1>12, <1>13 DEF Ordered

\* A flush takes the front of the queue into an empty hand.
LEMMA FlushOrder == ASSUME IInv, Ordered, NEW f \in Flushes, Flush(f) PROVE Ordered'
<1>1. /\ flushes \in [Flushes -> [at: Places, batch: Seq(Records)]] /\ recordQueue \in Seq(Records)
      /\ flushes' = [flushes EXCEPT ![f] = [at |-> "sending", batch |-> Slice]]
      /\ recordQueue' = Remainder /\ call' = call /\ log' = log /\ accepted' = accepted
  BY DEF Flush, IInv, TypeOK, sendVars, brokerVars
<1>2. /\ flushes'[f].batch = Slice /\ Batch(f)' = Elements(Slice)
      /\ \A g \in Flushes : g # f => flushes'[g] = flushes[g] /\ Batch(g)' = Batch(g)
  BY <1>1 DEF Batch, Elements
<1>3. \A g \in Flushes : ~InHand(g)
  BY DEF Flush, MayFlush, IInv, FlagHeld
<1>4. /\ InOrder(Slice) /\ InOrder(Remainder) /\ AllBefore(Elements(Slice), Elements(Remainder))
      /\ Elements(Slice) \subseteq Elements(recordQueue) /\ Elements(Remainder) \subseteq Elements(recordQueue)
  BY <1>1, SliceOrder DEF Ordered
<1>5. /\ \A seq : InOrder(seq)' <=> InOrder(seq)
      /\ \A S, T : AllBefore(S, T)' <=> AllBefore(S, T)
  BY <1>1 DEF InOrder, AllBefore, Before
<1>6. Elements(recordQueue)' = Elements(Remainder) /\ Elements(accepted)' = Elements(accepted)
  BY <1>1 DEF Elements
<1>7. \A k \in DOMAIN log : Sent(k)' = Sent(k)
  BY <1>1 DEF Sent, Elements
<1>8. AcceptedOnce'
  <2>1. \A k \in DOMAIN log' : Sent(k)' \subseteq Elements(accepted)'
    BY <1>1, <1>6, <1>7 DEF Ordered, AcceptedOnce, Sent
  <2>2. \A g \in Flushes : Batch(g)' \subseteq Elements(accepted)'
    BY <1>2, <1>4, <1>6 DEF Ordered, AcceptedOnce
  <2> QED BY <1>1, <1>4, <1>6, <2>1, <2>2 DEF Ordered, AcceptedOnce, Sent
<1>9. QueueInOrder'
  BY <1>1, <1>4 DEF QueueInOrder, InOrder, Before
<1>10. HandInOrder'
  <2> SUFFICES ASSUME NEW g \in Flushes PROVE InOrder(flushes[g].batch)' /\ AllBefore(Batch(g), Elements(recordQueue))'
    BY DEF HandInOrder
  <2>1. CASE g = f
    BY <1>1, <1>2, <1>4, <1>6, <2>1 DEF AllBefore, InOrder, Before
  <2>2. CASE g # f
    <3>1. InOrder(flushes[g].batch) /\ AllBefore(Batch(g), Elements(Remainder))
      BY <1>4 DEF Ordered, HandInOrder, AllBefore
    <3> QED BY <1>1, <1>2, <1>6, <2>2, <3>1 DEF AllBefore, InOrder, Before
  <2> QED BY <2>1, <2>2
<1>11. LogInOrder'
  <2>1. \A k \in DOMAIN log : InOrder(log[k].batch) /\ AllBefore(Sent(k), Elements(recordQueue))
    BY DEF Ordered, LogInOrder
  <2>2. \A k \in DOMAIN log : InOrder(log[k].batch)' /\ AllBefore(Sent(k), Elements(recordQueue))'
    BY <1>1, <1>4, <1>6, <1>7, <2>1 DEF AllBefore, InOrder, Before
  <2>3. \A k \in DOMAIN log, g \in Flushes : InHand(g)' => Precedes(k, g)'
    <3> SUFFICES ASSUME NEW k \in DOMAIN log PROVE Precedes(k, f)'
      BY <1>2, <1>3 DEF InHand
    <3>1. AllBefore(Sent(k), Elements(Slice))
      BY <1>4, <2>1 DEF AllBefore
    <3> QED BY <1>1, <1>2, <1>7, <3>1 DEF Precedes, AllBefore, Before
  <2>4. \A k, l \in DOMAIN log : k < l => log'[k].batch = log'[l].batch \/ AllBefore(Sent(k), Sent(l))'
    BY <1>1, <1>7 DEF Ordered, LogInOrder, AllBefore, Before
  <2> QED BY <1>1, <2>2, <2>3, <2>4 DEF LogInOrder
<1> QED BY <1>8, <1>9, <1>10, <1>11 DEF Ordered

\* A flush goes on with its batch or lets it go: the broker may get the batch, the queue may lose records.
LEMMA HandOrder ==
    ASSUME TypeOK, OneFlush, Ordered, NEW f \in Flushes, InHand(f), accepted' = accepted,
           \A r \in Elements(accepted) : call'[r] \notin {"none", "creating"},
           InOrder(recordQueue'), Elements(recordQueue') \subseteq Elements(recordQueue),
           \A k \in DOMAIN log' : /\ k \in Nat
                                  /\ \/ k \in DOMAIN log /\ log'[k] = log[k]
                                     \/ log'[k].batch = flushes[f].batch /\ \A j \in DOMAIN log' : j <= k,
           \A g \in Flushes : /\ flushes'[g].batch \in {<<>>, flushes[g].batch}
                              /\ InHand(g)' => InHand(g) /\ flushes'[g].batch = flushes[g].batch
    PROVE  Ordered'
<1>1. /\ \A seq : InOrder(seq)' <=> InOrder(seq)
      /\ \A S, T : AllBefore(S, T)' <=> AllBefore(S, T)
  BY DEF InOrder, AllBefore, Before
<1>2. /\ Elements(accepted)' = Elements(accepted)
      /\ \A g \in Flushes : Batch(g)' \subseteq Batch(g) /\ (InHand(g)' => Batch(g)' = Batch(g))
  BY DEF Elements, Batch
<1>3. \A k \in DOMAIN log' : \/ k \in DOMAIN log /\ log'[k] = log[k] /\ Sent(k)' = Sent(k)
                             \/ /\ log'[k].batch = flushes[f].batch /\ Sent(k)' = Batch(f)
                                /\ \A j \in DOMAIN log' : j <= k
  BY DEF Sent, Batch, Elements
<1>4. AcceptedOnce'
  <2>1. \A g \in Flushes : Batch(g)' \subseteq Elements(accepted)'
    BY <1>2 DEF Ordered, AcceptedOnce
  <2>2. \A k \in DOMAIN log' : Sent(k)' \subseteq Elements(accepted)'
    BY <1>2, <1>3 DEF Ordered, AcceptedOnce, Sent
  <2> QED BY <1>2, <2>1, <2>2 DEF Ordered, AcceptedOnce, Sent, Elements
<1>5. QueueInOrder'
  BY DEF QueueInOrder, InOrder, Before
<1>6. HandInOrder'
  <2> SUFFICES ASSUME NEW g \in Flushes PROVE InOrder(flushes[g].batch)' /\ AllBefore(Batch(g), Elements(recordQueue))'
    BY DEF HandInOrder
  <2>1. InOrder(flushes[g].batch) /\ AllBefore(Batch(g), Elements(recordQueue))
    BY DEF Ordered, HandInOrder
  <2>2. InOrder(<<>>)
    BY DEF InOrder
  <2>3. InOrder(flushes'[g].batch)
    BY <2>1, <2>2
  <2>4. AllBefore(Batch(g)', Elements(recordQueue'))
    BY <1>2, <2>1 DEF AllBefore
  <2> QED BY <2>3, <2>4 DEF InOrder, AllBefore, Before, Elements
<1>7. LogInOrder'
  <2>1. \A k \in DOMAIN log' : InOrder(log[k].batch)' /\ AllBefore(Sent(k), Elements(recordQueue))'
    <3> SUFFICES ASSUME NEW k \in DOMAIN log' PROVE InOrder(log[k].batch)' /\ AllBefore(Sent(k), Elements(recordQueue))'
      OBVIOUS
    <3>1. InOrder(log'[k].batch) /\ AllBefore(Sent(k)', Elements(recordQueue))
      BY <1>3 DEF Ordered, LogInOrder, HandInOrder
    <3>2. AllBefore(Sent(k)', Elements(recordQueue'))
      BY <3>1 DEF AllBefore
    <3> QED BY <3>1, <3>2 DEF InOrder, AllBefore, Before, Elements
  <2>2. \A k \in DOMAIN log', g \in Flushes : InHand(g)' => Precedes(k, g)'
    <3> SUFFICES ASSUME NEW k \in DOMAIN log', NEW g \in Flushes, InHand(g)' PROVE Precedes(k, g)'
      OBVIOUS
    <3>1. InHand(g) /\ flushes'[g].batch = flushes[g].batch /\ Batch(g)' = Batch(g) /\ g = f
      BY <1>2 DEF OneFlush
    <3>2. log'[k].batch = flushes[g].batch \/ AllBefore(Sent(k)', Batch(g))
      BY <1>3, <3>1 DEF Ordered, LogInOrder, Precedes
    <3> QED BY <3>1, <3>2 DEF Precedes, AllBefore, Before
  <2>3. \A k, l \in DOMAIN log' : k < l => log'[k].batch = log'[l].batch \/ AllBefore(Sent(k), Sent(l))'
    <3> SUFFICES ASSUME NEW k \in DOMAIN log', NEW l \in DOMAIN log', k < l
                 PROVE  log'[k].batch = log'[l].batch \/ AllBefore(Sent(k)', Sent(l)')
      BY DEF AllBefore, Before
    <3>1. k \in DOMAIN log /\ log'[k] = log[k] /\ Sent(k)' = Sent(k)
      <4>1. ~(l <= k)
        OBVIOUS
      <4> QED BY <1>3, <4>1
    <3>2. CASE l \in DOMAIN log /\ log'[l] = log[l] /\ Sent(l)' = Sent(l)
      BY <3>1, <3>2 DEF Ordered, LogInOrder
    <3>3. CASE log'[l].batch = flushes[f].batch /\ Sent(l)' = Batch(f)
      BY <3>1, <3>3 DEF Ordered, LogInOrder, Precedes
    <3> QED BY <1>3, <3>2, <3>3
  <2> QED BY <2>1, <2>2, <2>3 DEF LogInOrder
<1> QED BY <1>4, <1>5, <1>6, <1>7 DEF Ordered

\* Every step of a flush keeps the order.
LEMMA FlushStepOrder == ASSUME IInv, Ordered, NEW f \in Flushes, FlushStep(f) PROVE Ordered'
<1>1. /\ TypeOK /\ OneFlush /\ flushes \in [Flushes -> [at: Places, batch: Seq(Records)]] /\ recordQueue \in Seq(Records)
      /\ log \in Seq([batch: Seq(Records), topics: SUBSET Topics]) /\ call \in [Records -> Calls]
      /\ Elements(accepted) \subseteq Records
  BY DEF IInv, TypeOK, Elements
<1>2. InHand(f) /\ accepted' = accepted
  BY DEF FlushStep, SendBatch, SendRejected, SendRecoverable, SendFails, Recovered, RecoveryFails, Retry, InHand
<1>3. \A r \in Elements(accepted) : call'[r] \notin {"none", "creating"}
  <2>1. call' = call \/ \E result \in {"resolved", "rejected"} : call' = [r \in Records |-> IF r \in Batch(f) THEN result ELSE call[r]]
    BY DEF FlushStep, SendBatch, SendRejected, SendRecoverable, Recovered, RecoveryFails, Retry, Return, sendVars
  <2> QED BY <1>1, <2>1 DEF Ordered, AcceptedOnce
<1>4. recordQueue' = recordQueue \/ recordQueue' = Remainder
  BY DEF FlushStep, SendBatch, SendRejected, SendRecoverable, Recovered, RecoveryFails, Retry
<1>5. InOrder(recordQueue') /\ Elements(recordQueue') \subseteq Elements(recordQueue)
  BY <1>1, <1>4, SliceOrder DEF Ordered, QueueInOrder
<1>6. log' = log \/ \E topics \in SUBSET Topics : Store(f, topics)
  <2>1. {TopicOf[r] : r \in Batch(f)} \subseteq Topics
    BY <1>1 DEF Topics, Batch, Elements
  <2> QED BY <2>1 DEF FlushStep, SendBatch, SendRejected, SendRecoverable, SendFails, Recovered, RecoveryFails, Retry, brokerVars
<1>7. \A k \in DOMAIN log' : /\ k \in Nat
                             /\ \/ k \in DOMAIN log /\ log'[k] = log[k]
                                \/ log'[k].batch = flushes[f].batch /\ \A j \in DOMAIN log' : j <= k
  <2>1. CASE log' = log
    BY <1>1, <2>1
  <2>2. ASSUME NEW topics \in SUBSET Topics, Store(f, topics)
        PROVE  \A k \in DOMAIN log' : /\ k \in Nat
                                      /\ \/ k \in DOMAIN log /\ log'[k] = log[k]
                                         \/ log'[k].batch = flushes[f].batch /\ \A j \in DOMAIN log' : j <= k
    <3> DEFINE entry == [batch |-> flushes[f].batch, topics |-> topics]
    <3>1. entry \in [batch: Seq(Records), topics: SUBSET Topics] /\ entry.batch = flushes[f].batch /\ log' = Append(log, entry)
      BY <1>1, <2>2 DEF Store
    <3> HIDE DEF entry
    <3>2. /\ DOMAIN log' = 1..(Len(log) + 1) /\ DOMAIN log = 1..Len(log) /\ Len(log) \in Nat
          /\ log'[Len(log) + 1] = entry /\ \A k \in DOMAIN log : log'[k] = log[k]
      BY <1>1, <3>1
    <3> QED BY <3>1, <3>2
  <2> QED BY <1>6, <2>1, <2>2
<1>8. \A g \in Flushes : /\ flushes'[g].batch \in {<<>>, flushes[g].batch}
                         /\ InHand(g)' => InHand(g) /\ flushes'[g].batch = flushes[g].batch
  <2>1. \/ flushes' = [flushes EXCEPT ![f] = [at |-> "idle", batch |-> <<>>]]
        \/ \E place \in Places : flushes' = [flushes EXCEPT ![f].at = place]
    BY DEF FlushStep, SendBatch, SendRejected, SendRecoverable, Recovered, RecoveryFails, Retry, Return, Places
  <2>2. CASE flushes' = [flushes EXCEPT ![f] = [at |-> "idle", batch |-> <<>>]]
    <3>1. flushes'[f].batch = <<>> /\ flushes'[f].at = "idle" /\ \A g \in Flushes : g # f => flushes'[g] = flushes[g]
      BY <1>1, <2>2
    <3> QED BY <3>1 DEF InHand
  <2>3. ASSUME NEW place \in Places, flushes' = [flushes EXCEPT ![f].at = place]
        PROVE  \A g \in Flushes : flushes'[g].batch = flushes[g].batch /\ (InHand(g)' => InHand(g))
    BY <1>1, <1>2, <2>3 DEF InHand
  <2> QED BY <2>1, <2>2, <2>3
<1> QED BY <1>1, <1>2, <1>3, <1>5, <1>7, <1>8, HandOrder

\* Every step keeps the order.
LEMMA StepKeepsOrdered == IInv /\ Ordered /\ [Next]_vars => Ordered'
<1> SUFFICES ASSUME IInv, Ordered, [Next]_vars PROVE Ordered'
  OBVIOUS
<1>0. call \in [Records -> Calls] /\ Elements(accepted) \subseteq Records
  BY DEF IInv, TypeOK, Elements
<1>1. CASE Connect \/ StopInterval \/ Disconnected
  <2>1. call' = call /\ UNCHANGED <<recordQueue, flushes, log, accepted>>
    BY <1>1 DEF Connect, StopInterval, Disconnected, sendVars, brokerVars
  <2>2. \A r \in Elements(accepted) : call'[r] \notin {"none", "creating"}
    BY <2>1 DEF Ordered, AcceptedOnce
  <2> QED BY <2>1, <2>2, CallerOrder
<1>2. ASSUME NEW r \in Records, Send(r) \/ SendRefused(r) \/ TopicCreated(r) \/ TopicFailed(r) PROVE Ordered'
  <2>1. call[r] \in {"none", "creating"} /\ flushes' = flushes /\ log' = log
    BY <1>2 DEF Send, SendRefused, TopicCreated, TopicFailed, brokerVars
  <2>2. \/ Accept(r)
        \/ /\ recordQueue' = recordQueue /\ accepted' = accepted
           /\ \E status \in {"creating", "refused"} : call' = [call EXCEPT ![r] = status]
    BY <1>2 DEF Send, SendRefused, TopicCreated, TopicFailed
  <2>3. CASE Accept(r)
    BY <2>1, <2>3, AcceptOrder DEF IInv
  <2>4. ASSUME NEW status \in {"creating", "refused"}, call' = [call EXCEPT ![r] = status],
               recordQueue' = recordQueue, accepted' = accepted
        PROVE  Ordered'
    <3>1. r \notin Elements(accepted)
      BY <2>1 DEF Ordered, AcceptedOnce
    <3>2. \A q \in Elements(accepted) : call'[q] \notin {"none", "creating"}
      BY <1>0, <2>4, <3>1 DEF Ordered, AcceptedOnce
    <3> QED BY <2>1, <2>4, <3>2, CallerOrder
  <2> QED BY <2>2, <2>3, <2>4
<1>3. ASSUME NEW f \in Flushes, Flush(f) \/ FlushStep(f) PROVE Ordered'
  BY <1>3, FlushOrder, FlushStepOrder
<1>4. CASE UNCHANGED vars
  <2>1. call' = call /\ UNCHANGED <<recordQueue, flushes, log, accepted>>
    BY <1>4 DEF vars
  <2>2. \A r \in Elements(accepted) : call'[r] \notin {"none", "creating"}
    BY <2>1 DEF Ordered, AcceptedOnce
  <2> QED BY <2>1, <2>2, CallerOrder
<1> QED BY <1>1, <1>2, <1>3, <1>4 DEF Next

Below(S, i) == {j \in S : j <= i}

\* A finite set of integers has a least element.
LEMMA LeastExists ==
    ASSUME NEW S \in SUBSET Int, IsFiniteSet(S), NEW T \in SUBSET S, T # {}
    PROVE  \E i \in T : \A j \in T : i <= j
<1> DEFINE D == {Below(S, k) : k \in T}
<1>1. D \subseteq FiniteSubsetsOf(S) /\ D # {}
  <2>1. \A i \in T : Below(S, i) \in SUBSET S
    BY DEF Below
  <2>2. \A i \in T : IsFiniteSet(Below(S, i))
    BY <2>1, FS_Subset
  <2> QED
    BY <2>1, <2>2 DEF FiniteSubsetsOf
<1>2. PICK x \in D : \A y \in D : ~(<<y, x>> \in StrictSubsetOrdering(S))
  <2> HIDE DEF D
  <2> QED
    BY <1>1, FS_StrictSubsetOrderingWellFounded, WFMin
<1>3. PICK i \in T : x = Below(S, i)
  OBVIOUS
<1>4. ASSUME NEW j \in T, j < i PROVE FALSE
  <2>1. Below(S, j) \in D /\ Below(S, j) \subseteq Below(S, i) /\ i \in Below(S, i) /\ i \notin Below(S, j)
    <3>1. i \in S /\ j \in S /\ i \in Int /\ j \in Int /\ \A k \in S : k \in Int
      OBVIOUS
    <3>2. Below(S, j) \subseteq Below(S, i) /\ i \in Below(S, i) /\ i \notin Below(S, j)
      <4>1. j < i
        BY <1>4
      <4>2. \A k \in S : k <= j => k <= i
        BY <3>1, <4>1
      <4>3. i <= i /\ ~(i <= j)
        BY <3>1, <4>1
      <4> QED
        BY <3>1, <4>2, <4>3, Zenon DEF Below
    <3>3. Below(S, j) \in D
      OBVIOUS
    <3> QED
      BY <3>2, <3>3, Zenon
  <2> QED
    <3>1. <<Below(S, j), x>> \in StrictSubsetOrdering(S)
      <4>1. Below(S, j) \in SUBSET S /\ x \in SUBSET S
        BY <1>3 DEF Below
      <4> DEFINE ss == <<Below(S, j), x>>
      <4>2. ss \in (SUBSET S) \X (SUBSET S) /\ ss[1] \subseteq ss[2] /\ ss[1] # ss[2]
        BY <1>3, <2>1, <4>1
      <4> QED
        BY <4>2 DEF StrictSubsetOrdering
    <3> QED
      BY <1>2, <2>1, <3>1
<1> QED
  BY <1>4

\* Where a record is in a sequence that has it once.
LEMMA PositionIs ==
    ASSUME NEW S, NEW seq \in Seq(S), NEW i \in DOMAIN seq, \A j, k \in DOMAIN seq : seq[j] = seq[k] => j = k
    PROVE  Position(seq[i], seq) = i
<1> DEFINE IsAt(k) == seq[k] = seq[i] /\ \A j \in DOMAIN seq : seq[j] = seq[i] => k <= j
<1>1. i \in Nat /\ IsAt(i)
  BY DEF IsAt
<1>2. \A k \in DOMAIN seq : IsAt(k) => k = i
  BY DEF IsAt
<1>3. Position(seq[i], seq) = CHOOSE k \in DOMAIN seq : IsAt(k)
  BY DEF Position, IsAt
<1> QED
  <2> HIDE DEF IsAt
  <2> QED BY <1>1, <1>2, <1>3

\* A stored record has a first append.
LEMMA FirstAppendIs ==
    ASSUME TypeOK, NEW r \in Records, Stored(r)
    PROVE  /\ FirstAppend(r) \in DOMAIN log /\ StoredAt(r, FirstAppend(r))
           /\ \A j \in DOMAIN log : StoredAt(r, j) => FirstAppend(r) <= j
<1> DEFINE T == {k \in DOMAIN log : StoredAt(r, k)}
<1>1. Len(log) \in Nat /\ DOMAIN log = 1..Len(log)
  BY DEF TypeOK
<1>2. IsFiniteSet(DOMAIN log) /\ DOMAIN log \in SUBSET Int
  BY <1>1, FS_Interval
<1>3. T \in SUBSET (DOMAIN log) /\ T # {}
  BY DEF Stored
<1>4. \E k \in T : \A j \in T : k <= j
  <2> HIDE DEF T
  <2> QED BY <1>2, <1>3, LeastExists
<1>5. \E k \in DOMAIN log : StoredAt(r, k) /\ \A j \in DOMAIN log : StoredAt(r, j) => k <= j
  BY <1>4
<1> QED BY <1>5 DEF FirstAppend

\* The order of the log is the order of the queue.
LEMMA OrderedIsStoredInOrder == TypeOK /\ Ordered => StoredInOrder
<1> SUFFICES ASSUME TypeOK, Ordered, NEW r \in Records, NEW s \in Records, TopicOf[r] = TopicOf[s],
                    Stored(r), Stored(s), Position(r, accepted) < Position(s, accepted)
             PROVE  StoredBefore(r, s)
  BY DEF StoredInOrder
<1> DEFINE k == FirstAppend(r)
           l == FirstAppend(s)
<1>1. /\ k \in DOMAIN log /\ StoredAt(r, k) /\ l \in DOMAIN log /\ StoredAt(s, l)
      /\ \A j \in DOMAIN log : StoredAt(r, j) => k <= j
  BY FirstAppendIs
<1> HIDE DEF k, l
<1>2. /\ accepted \in Seq(Records) /\ log \in Seq([batch: Seq(Records), topics: SUBSET Topics]) /\ k \in Nat /\ l \in Nat
      /\ log[k].batch \in Seq(Records) /\ log[l].batch \in Seq(Records)
  <2>1. log \in Seq([batch: Seq(Records), topics: SUBSET Topics]) /\ accepted \in Seq(Records)
    BY DEF TypeOK
  <2>2. k \in 1..Len(log) /\ l \in 1..Len(log)
    BY <1>1, <2>1
  <2>3. log[k] \in [batch: Seq(Records), topics: SUBSET Topics] /\ log[l] \in [batch: Seq(Records), topics: SUBSET Topics]
    BY <2>1, <2>2, ElementOfSeq
  <2> QED BY <1>1, <2>1, <2>2, <2>3
<1>3. r \in Sent(k) /\ s \in Sent(l)
  BY <1>1 DEF StoredAt, Sent
<1>4. Before(r, s)
  <2>1. r \in Elements(accepted) /\ s \in Elements(accepted)
    BY <1>1, <1>3 DEF Ordered, AcceptedOnce, Sent
  <2>2. PICK i \in DOMAIN accepted, j \in DOMAIN accepted : accepted[i] = r /\ accepted[j] = s
    BY <2>1 DEF Elements
  <2>3. Position(r, accepted) = i /\ Position(s, accepted) = j
    BY <1>2, <2>2, PositionIs DEF Ordered, AcceptedOnce
  <2> QED BY <2>2, <2>3 DEF Before
<1>5. ~Before(s, r) /\ r # s
  BY <1>2, <1>4, BeforeFacts DEF Ordered
<1>6. CASE k < l
  BY <1>6 DEF StoredBefore, k, l
<1>7. CASE l < k
  <2>1. log[l].batch = log[k].batch \/ AllBefore(Sent(l), Sent(k))
    BY <1>1, <1>7 DEF Ordered, LogInOrder
  <2>2. log[l].batch = log[k].batch
    BY <1>3, <1>5, <2>1 DEF AllBefore
  <2>3. StoredAt(r, l)
    BY <1>1, <2>2 DEF StoredAt
  <2> QED BY <1>1, <1>2, <1>7, <2>3
<1>8. CASE k = l
  <2> DEFINE batch == log[k].batch
  <2>1. InOrder(batch) /\ batch \in Seq(Records)
    BY <1>1, <1>2 DEF Ordered, LogInOrder
  <2>2. PICK i \in DOMAIN batch, j \in DOMAIN batch : batch[i] = r /\ batch[j] = s
    BY <1>3, <1>8 DEF Sent, Elements
  <2> HIDE DEF batch
  <2>3. \A m, n \in DOMAIN batch : m < n => Before(batch[m], batch[n])
    BY <2>1 DEF InOrder
  <2>4. \A m, n \in DOMAIN batch : batch[m] = batch[n] => m = n
    <3> SUFFICES ASSUME NEW m \in DOMAIN batch, NEW n \in DOMAIN batch, m < n, batch[m] = batch[n] PROVE FALSE
      <4>1. \A m \in DOMAIN batch : m \in Nat
        BY <2>1
      <4> QED BY <4>1
    <3>1. Before(batch[m], batch[n])
      BY <2>3
    <3> QED BY <1>2, <3>1, BeforeFacts DEF Ordered
  <2>5. Position(r, batch) = i /\ Position(s, batch) = j
    BY <2>1, <2>2, <2>4, PositionIs
  <2>6. i < j
    <3>1. i \in Nat /\ j \in Nat /\ i # j
      BY <1>5, <2>1, <2>2
    <3>2. ~(j < i)
      BY <1>5, <2>2, <2>3
    <3> QED BY <3>1, <3>2
  <2> QED BY <1>8, <2>5, <2>6 DEF StoredBefore, k, l, batch
<1> QED BY <1>2, <1>6, <1>7, <1>8

\* Within a topic records are first stored in the order in which they entered the queue (flush and sendBatch,
\* kafka-throttle.ts 129-184), through failed sends, retries and overlapping flushes.  The calls of send may have come in
\* another order: one passes another that is still creating the topic (60).
THEOREM StoredAsQueued == Spec => []StoredInOrder
<1>1. Init => IInv /\ Ordered
  BY InitIInv, InitOrdered
<1>2. IInv /\ Ordered /\ [Next]_vars => IInv' /\ Ordered'
  BY StepKeepsIInv, StepKeepsOrdered
<1>3. IInv /\ Ordered => StoredInOrder
  BY OrderedIsStoredInOrder DEF IInv
<1> QED BY <1>1, <1>2, <1>3, PTL DEF Spec
=============================================================================

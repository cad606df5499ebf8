---------------------------- MODULE KafkaClient ----------------------------
(* EventclientKafka (events/core/eventclient-kafka.ts) in one process: group subscriptions (hot and coldHot) with the registry
   of groups and the health map, and cold replays, which end on offsets, on silence or on an error.

   One topic. `plan` says what each call asks for. The consumer and the broker are external: a consumer delivers the messages
   of a partition one at a time and in order, again if eachMessage rejects, and commits what eachMessage has returned from. *)
EXTENDS Integers, FiniteSets

CONSTANTS Calls, NoCall, Groups, Partitions,
          Plans,              \* a set of functions: what each call asks for
          MaxLog,             \* bound on the messages of a partition, for each plan
          MaxFaults           \* bound on failures, restarts and calls of clear

Requests == [kind : {"hot", "coldHot", "cold", "none"}, group : Groups, destroys : BOOLEAN]

ASSUME PlanAssumption == Plans \subseteq [Calls -> Requests]
ASSUME NoCallAssumption == NoCall \notin Calls
ASSUME BoundAssumption == MaxLog \in [Plans -> Nat] /\ MaxFaults \in Nat

VARIABLES plan,
          log, low,    \* of each partition: the messages ever added, and how many of them are deleted
          committed,   \* the broker's offsets of each group
          registry,    \* consumerGroups
          health,      \* consumerGroupHealth: whose status object each group shows
          call,        \* the state of each call
          handled,     \* history: messages eachMessage was through with, per call
          silent,      \* the replays in which no eachMessage has begun for over ten seconds: lastActivity
          up,          \* shutdown has not been called
          faults

vars == <<plan, log, low, committed, registry, health, call, handled, silent, up, faults>>

Unset == [p \in Partitions |-> -1]      \* a group without committed offsets
Start == [p \in Partitions |-> 0]

\* healthy: the status object; conn: the consumer is connected; next: its position; hand: eachMessage of each partition.
\* Of a replay: high (latestOffsets), consumed (consumedOffsets, plus one), the interval, timers that will disconnect,
\* and how often and why first onDone was called.
NewCall == [pc |-> "idle", healthy |-> FALSE, conn |-> FALSE, next |-> Start, hand |-> [p \in Partitions |-> "none"],
            high |-> Start, consumed |-> Start, interval |-> FALSE, timer |-> FALSE, done |-> 0, reason |-> "none"]

Init == /\ plan \in Plans
        /\ log \in [Partitions -> 0 .. MaxLog[plan]] /\ low = Start
        /\ committed = [g \in Groups |-> Unset]
        /\ registry = {} /\ health = [g \in Groups |-> NoCall]
        /\ call = [c \in Calls |-> NewCall]
        /\ handled = [c \in Calls |-> {}] /\ silent = {}
        /\ up = TRUE /\ faults = 0

Kind(c) == plan[c].kind
GroupOf(c) == plan[c].group
Subscriptions == {c \in Calls : Kind(c) \in {"hot", "coldHot"}}
Replays == {c \in Calls : Kind(c) = "cold"}

Fault == faults < MaxFaults /\ faults' = faults + 1
Set(c, r) == call' = [call EXCEPT ![c] = r]
Goto(c, pc) == Set(c, [call[c] EXCEPT !.pc = pc])

\* emit: all events are encoded, then handed to the throttled producer, which appends them in order.
Emit(p) == /\ up /\ log[p] < MaxLog[plan]
           /\ log' = [log EXCEPT ![p] = @ + 1]
           /\ UNCHANGED <<plan, low, committed, registry, health, call, handled, silent, up, faults>>

\* clear deletes the records of every partition, up to the offsets it has fetched.
Clear == /\ up /\ Fault
         /\ low' = log
         /\ UNCHANGED <<plan, log, committed, registry, health, call, handled, silent, up>>

---------------------------------------------------------------------------
(* Starting. coldHotStream replaces the group's health entry before it finds the group taken, hotStreamInternal after. *)

Shows(c) == [health EXCEPT ![GroupOf(c)] = c]

Subscribe(c) == /\ c \in Subscriptions /\ call[c].pc = "idle" /\ up
                /\ IF GroupOf(c) \in registry
                     THEN /\ Goto(c, "refused")
                          /\ health' = IF Kind(c) = "coldHot" THEN Shows(c) ELSE health
                          /\ UNCHANGED registry
                     ELSE /\ Goto(c, "connecting")
                          /\ health' = Shows(c)
                          /\ registry' = registry \cup {GroupOf(c)}
                /\ UNCHANGED <<plan, log, low, committed, handled, silent, up, faults>>

\* coldStream reads the high offsets first; a topic that is missing and stays so makes it reject.
Replay(c) == /\ c \in Replays /\ call[c].pc = "idle" /\ up
             /\ \/ Set(c, [NewCall EXCEPT !.pc = "connecting", !.high = log]) /\ UNCHANGED faults
                \/ Fault /\ Goto(c, "rejected")
             /\ UNCHANGED <<plan, log, low, committed, registry, health, handled, silent, up>>

\* Where the consumer of a group begins: at what is committed, else by fromBeginning.
Position(c) == [p \in Partitions |-> IF Kind(c) = "cold" THEN 0
                                     ELSE IF committed[GroupOf(c)][p] >= 0 THEN committed[GroupOf(c)][p]
                                     ELSE IF Kind(c) = "coldHot" THEN 0 ELSE log[p]]

\* connectConsumerWithOptionalCreation: connect and run the executor; after a failure create topics and run it once more.
Connected(c) == /\ call[c].pc \in {"connecting", "retrying"}
                /\ Set(c, [call[c] EXCEPT !.pc = "running", !.conn = TRUE, !.next = Position(c),
                                          !.healthy = c \in Subscriptions, !.interval = c \in Replays])
                /\ UNCHANGED <<plan, log, low, committed, registry, health, handled, silent, up, faults>>

ExecutorFails(c) == /\ call[c].pc = "connecting" /\ Fault
                    /\ Goto(c, "creating")
                    /\ UNCHANGED <<plan, log, low, committed, registry, health, handled, silent, up>>

TopicsCreated(c) == /\ call[c].pc = "creating"
                    /\ Goto(c, "retrying")
                    /\ UNCHANGED <<plan, log, low, committed, registry, health, handled, silent, up, faults>>

\* It rejects: a subscription stays in the registry and in the health map, a replay calls onError.
ConnectFails(c) == /\ call[c].pc \in {"connecting", "creating", "retrying"} /\ Fault
                   /\ Goto(c, "rejected")
                   /\ UNCHANGED <<plan, log, low, committed, registry, health, handled, silent, up>>

---------------------------------------------------------------------------
(* Messages *)

\* The next message that is still there.
Ahead(c, p) == IF call[c].next[p] < low[p] THEN low[p] ELSE call[c].next[p]

Deliver(c, p) == /\ call[c].conn /\ call[c].hand[p] = "none" /\ Ahead(c, p) < log[p]
                 /\ Set(c, [call[c] EXCEPT !.hand[p] = "handling", !.next[p] = Ahead(c, p)])
                 /\ silent' = silent \ {c}
                 /\ UNCHANGED <<plan, log, low, committed, registry, health, handled, up, faults>>

Through(c, p) == handled' = [handled EXCEPT ![c] = @ \cup {<<p, call[c].next[p]>>}]

\* A group's eachMessage: a message that is not decoded, or whose handler throws, is dropped.
Handled(c, p) == /\ c \in Subscriptions /\ call[c].hand[p] = "handling"
                 /\ Through(c, p)
                 /\ Set(c, [call[c] EXCEPT !.hand[p] = "none", !.next[p] = @ + 1])
                 /\ UNCHANGED <<plan, log, low, committed, registry, health, silent, up, faults>>

\* autoCommit: where messages have been consumed, the position behind the last one eachMessage has returned from.
Stored(c, p) == IF \E m \in handled[c] : m[1] = p THEN call[c].next[p] ELSE committed[GroupOf(c)][p]
Committable_OnDelivery(c) == [p \in Partitions |-> IF call[c].hand[p] = "none" THEN Stored(c, p) ELSE call[c].next[p] + 1]
Committable(c) == [p \in Partitions |-> Stored(c, p)]
Commit(c) == /\ c \in Subscriptions /\ call[c].conn /\ committed[GroupOf(c)] # Committable(c)
             /\ committed' = [committed EXCEPT ![GroupOf(c)] = Committable(c)]
             /\ UNCHANGED <<plan, log, low, registry, health, call, handled, silent, up, faults>>

\* allCaughtUp, over the offsets noted at the start: partitions that were empty do not count.
CaughtUp_OneShort(r) == \A p \in Partitions : r.high[p] = 0 \/ r.consumed[p] >= r.high[p] - 1
CaughtUp(r) == \A p \in Partitions : r.high[p] = 0 \/ r.consumed[p] >= r.high[p]

\* A replay's eachMessage notes the offset in `finally`, whether handler and codec succeeded or not. When all partitions have
\* caught up it clears the interval and waits before it calls onDone, still inside eachMessage.
Replayed(c, p) ==
    /\ c \in Replays /\ call[c].hand[p] = "handling"
    /\ Through(c, p)
    /\ \E threw \in BOOLEAN :
         LET r == [call[c] EXCEPT !.consumed[p] = call[c].next[p] + 1]
         IN  /\ IF threw THEN Fault ELSE UNCHANGED faults
             /\ Set(c, IF CaughtUp(r)
                         THEN [r EXCEPT !.interval = FALSE, !.hand[p] = IF threw THEN "rethrowing" ELSE "pausing"]
                         ELSE [r EXCEPT !.hand[p] = "none", !.next[p] = IF threw THEN @ ELSE @ + 1])
    /\ UNCHANGED <<plan, log, low, committed, registry, health, silent, up>>

\* onDone. (Calls after the second are not counted.)
Done(r, why) == [r EXCEPT !.done = IF @ = 2 THEN 2 ELSE @ + 1, !.reason = IF @ = "none" THEN why ELSE @]

PauseOver(c, p) == /\ call[c].hand[p] \in {"pausing", "rethrowing"}
                   /\ Set(c, [Done(call[c], "caughtUp") EXCEPT
                                !.hand[p] = "none", !.timer = TRUE,
                                !.next[p] = IF call[c].hand[p] = "pausing" THEN @ + 1 ELSE @])
                   /\ UNCHANGED <<plan, log, low, committed, registry, health, handled, silent, up, faults>>

---------------------------------------------------------------------------
(* The end of a replay *)

\* Ten seconds without a message: a slow handler, a slow join or an outage will do.
TenSecondsPass(c) == /\ call[c].interval /\ c \notin silent
                     /\ silent' = silent \cup {c}
                     /\ UNCHANGED <<plan, log, low, committed, registry, health, call, handled, up, faults>>

\* They must pass if the consumer has no message to begin with.
NothingToBegin(c) == \A p \in Partitions : call[c].conn /\ call[c].hand[p] = "none" => Ahead(c, p) = log[p]

\* The interval finds that they have.
Tick_OnceSeen(c) == /\ call[c].interval /\ c \in silent
                    /\ \A p \in Partitions : call[c].high[p] = 0 \/ call[c].consumed[p] > 0
                    /\ Set(c, [Done(call[c], "idle") EXCEPT !.interval = FALSE, !.timer = TRUE])
                    /\ UNCHANGED <<plan, log, low, committed, registry, health, handled, silent, up, faults>>
Tick(c) == /\ call[c].interval /\ c \in silent
           /\ Set(c, [Done(call[c], "idle") EXCEPT !.interval = FALSE, !.timer = TRUE])
           /\ UNCHANGED <<plan, log, low, committed, registry, health, handled, silent, up, faults>>

\* An eachMessage, from its start to its end, that changes nothing else here: of a message beyond those that are counted, in a
\* partition that has caught up, or of one that has failed and fails again. There is no bound on these.
Further(c, p) == /\ call[c].interval /\ call[c].conn /\ call[c].hand[p] = "none" /\ ~CaughtUp(call[c])
                 /\ \/ Ahead(c, p) = MaxLog[plan] /\ call[c].consumed[p] >= call[c].high[p]
                    \/ Ahead(c, p) < log[p] /\ call[c].consumed[p] = Ahead(c, p) + 1
                 /\ silent' = silent \ {c}
                 /\ UNCHANGED <<plan, log, low, committed, registry, health, call, handled, up, faults>>

\* run returns; nothing is to come if every partition was empty.
RunReturns(c) == /\ c \in Replays /\ call[c].pc = "running"
                 /\ Set(c, IF \A p \in Partitions : call[c].high[p] = 0
                             THEN [Done(call[c], "empty") EXCEPT !.pc = "over", !.interval = FALSE, !.conn = FALSE]
                             ELSE [call[c] EXCEPT !.pc = "replaying"])
                 /\ UNCHANGED <<plan, log, low, committed, registry, health, handled, silent, up, faults>>

\* run rejects: onError and disconnect; the interval goes on.
RunFails(c) == /\ c \in Replays /\ call[c].pc = "running" /\ Fault
               /\ Set(c, [call[c] EXCEPT !.pc = "rejected", !.conn = FALSE])
               /\ UNCHANGED <<plan, log, low, committed, registry, health, handled, silent, up>>

\* The timer set behind onDone.
Timeout(c) == /\ call[c].timer
              /\ Set(c, [call[c] EXCEPT !.timer = FALSE, !.conn = FALSE])
              /\ UNCHANGED <<plan, log, low, committed, registry, health, handled, silent, up, faults>>

---------------------------------------------------------------------------
(* Closing *)

\* close of a replay disconnects, and leaves the interval. A hot subscription may ask to delete its group first.
Close_FreesFirst(c) == /\ c \in Subscriptions /\ call[c].pc = "running"
                       /\ Goto(c, "disconnecting")
                       /\ registry' = registry \ {GroupOf(c)}
                       /\ UNCHANGED <<plan, log, low, committed, health, handled, silent, up, faults>>
Close(c) == /\ \/ /\ c \in Replays /\ call[c].pc = "replaying"
                  /\ Set(c, [call[c] EXCEPT !.pc = "over", !.conn = FALSE])
               \/ /\ c \in Subscriptions /\ call[c].pc = "running"
                  /\ Goto(c, IF Kind(c) = "hot" /\ plan[c].destroys THEN "deleting" ELSE "disconnecting")
            /\ up
            /\ UNCHANGED <<plan, log, low, committed, registry, health, handled, silent, up, faults>>

\* deleteGroups: the broker refuses while the group has a member, which is only logged.
GroupDeleted(c) == /\ call[c].pc = "deleting"
                   /\ committed' = IF \E d \in Subscriptions : GroupOf(d) = GroupOf(c) /\ call[d].conn
                                     THEN committed ELSE [committed EXCEPT ![GroupOf(c)] = Unset]
                   /\ Goto(c, "disconnecting")
                   /\ UNCHANGED <<plan, log, low, registry, health, handled, silent, up, faults>>

Disconnected_StaysHealthy(c) == /\ call[c].pc = "disconnecting"
                                /\ Set(c, [call[c] EXCEPT !.pc = "over", !.conn = FALSE])
                                /\ registry' = registry \ {GroupOf(c)}
                                /\ UNCHANGED <<plan, log, low, committed, health, handled, silent, up, faults>>
Disconnected(c) == /\ call[c].pc = "disconnecting"
                   /\ Set(c, [call[c] EXCEPT !.pc = "over", !.conn = FALSE, !.healthy = FALSE])
                   /\ registry' = registry \ {GroupOf(c)}
                   /\ UNCHANGED <<plan, log, low, committed, health, handled, silent, up, faults>>

\* disconnect rejects, and so does close.
DisconnectFails(c) == /\ call[c].pc = "disconnecting" /\ Fault
                      /\ Goto(c, "rejected")
                      /\ UNCHANGED <<plan, log, low, committed, registry, health, handled, silent, up>>

\* shutdown disconnects the consumers of groups, which are listed, and not those of replays, which are not.
Shutdown == /\ up /\ up' = FALSE
            /\ call' = [c \in Calls |-> IF c \in Subscriptions THEN [call[c] EXCEPT !.conn = FALSE] ELSE call[c]]
            /\ UNCHANGED <<plan, log, low, committed, registry, health, handled, silent, faults>>

\* The process ends and another one begins: calls not yet made may be made there.
Restart == /\ Fault
           /\ call' = [c \in Calls |-> IF call[c].pc = "idle" THEN NewCall ELSE [NewCall EXCEPT !.pc = "gone"]]
           /\ registry' = {} /\ health' = [g \in Groups |-> NoCall] /\ up' = TRUE
           /\ UNCHANGED <<plan, log, low, committed, handled, silent>>

---------------------------------------------------------------------------
\* What the broker, a handler or a timer will bring about.
Proceed(c) == \/ Connected(c) \/ TopicsCreated(c) \/ RunReturns(c) \/ Tick(c) \/ Timeout(c)
              \/ GroupDeleted(c) \/ Disconnected(c)
InPartition(c, p) == Deliver(c, p) \/ Handled(c, p) \/ Replayed(c, p) \/ PauseOver(c, p)

Next == \/ \E c \in Calls : \/ Subscribe(c) \/ Replay(c) \/ Proceed(c) \/ \E p \in Partitions : InPartition(c, p)
                            \/ Commit(c) \/ ExecutorFails(c) \/ ConnectFails(c) \/ RunFails(c)
                            \/ Close(c) \/ DisconnectFails(c)
                            \/ TenSecondsPass(c) \/ \E p \in Partitions : Further(c, p)
        \/ \E p \in Partitions : Emit(p)
        \/ Clear \/ Shutdown \/ Restart

Spec == /\ Init /\ [][Next]_vars
        /\ \A c \in Calls : /\ WF_vars(Proceed(c)) /\ \A p \in Partitions : WF_vars(InPartition(c, p))
                           /\ WF_vars(NothingToBegin(c) /\ TenSecondsPass(c))

---------------------------------------------------------------------------
Stages == {"idle", "refused", "connecting", "creating", "retrying", "running", "replaying", "deleting", "disconnecting",
           "over", "rejected", "gone"}
Hands == {"none", "handling", "pausing", "rethrowing"}
Reasons == {"none", "caughtUp", "idle", "empty"}
Records == [pc : Stages, healthy : BOOLEAN, conn : BOOLEAN, next : [Partitions -> Nat],
            hand : [Partitions -> Hands], high : [Partitions -> Nat], consumed : [Partitions -> Nat],
            interval : BOOLEAN, timer : BOOLEAN, done : 0 .. 2, reason : Reasons]
TypeOK == /\ plan \in Plans /\ log \in [Partitions -> 0 .. MaxLog[plan]]
          /\ \A p \in Partitions : low[p] \in 0 .. log[p]
          /\ committed \in [Groups -> [Partitions -> Nat \cup {-1}]]
          /\ registry \subseteq Groups /\ health \in [Groups -> Calls \cup {NoCall}]
          /\ call \in [Calls -> Records]
          /\ handled \in [Calls -> SUBSET (Partitions \X Nat)]
          /\ silent \subseteq Calls
          /\ up \in BOOLEAN /\ faults \in 0 .. MaxFaults

HandledIn(g) == UNION {handled[c] : c \in {d \in Subscriptions : GroupOf(d) = g}}

\* What a coldHot group has committed its handler has been through, in this process or an earlier one.
CommittedIsHandled ==
    \A g \in Groups : (\A c \in Subscriptions : GroupOf(c) = g => Kind(c) = "coldHot") =>
        \A p \in Partitions, o \in 0 .. MaxLog[plan] : low[p] <= o /\ o < committed[g][p] => <<p, o>> \in HandledIn(g)

\* The health map calls a group healthy only while a subscription holds it, connected or shut down.
HealthyIsHeld ==
    \A g \in Groups : health[g] # NoCall /\ call[health[g]].healthy =>
        g \in registry /\ (call[health[g]].conn \/ ~up \/ call[health[g]].pc = "rejected")

\* A process never has two consumers in one group.
OneConsumerPerGroup ==
    \A c, d \in Subscriptions : call[c].conn /\ call[d].conn /\ GroupOf(c) = GroupOf(d) => c = d

\* onDone of a replay means that its handler has been through every message there was when it started and still is, unless it was the
\* silence of the interval that ended it.
DoneIsEarned ==
    \A c \in Replays : call[c].done > 0 /\ call[c].reason # "idle" =>
        \A p \in Partitions, o \in 0 .. MaxLog[plan] : low[p] <= o /\ o < call[c].high[p] => <<p, o>> \in handled[c]

\* Every replay calls back: onDone, whatever is lost, or a rejection before it could run, unless messages that bring it no
\* further keep coming for ever. The one that was closed in a pause, or failed, still has its interval.
CallsBack(c) == (c \in Replays /\ call[c].pc \in {"connecting", "retrying"})
                    ~> (call[c].done > 0 \/ call[c].pc \in {"rejected", "gone"})
ReplaysEnd == \A c \in Calls : []<><<\E p \in Partitions : Further(c, p)>>_vars \/ CallsBack(c)

\* As documented of a cold stream: it processes all existing events, then completes, whatever else is sent to the topic.
\* This fails: see KafkaReplayBusy.cfg.
ReplaysAlwaysEnd == \A c \in Calls : CallsBack(c)

\* As documented of the health map: it is updated at startup and at an explicit close, so a group that runs is healthy.
\* This fails: see KafkaHealth.cfg.
RunningIsHealthy ==
    \A c \in Subscriptions : call[c].pc = "running" => health[GroupOf(c)] = c
=============================================================================

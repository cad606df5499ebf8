---------------------------- MODULE RedisClient ----------------------------
(* EventclientRedis (events/core/eventclient-redis.ts): subscriptions of any number of processes (clients) to one Redis stream.
   Hot and coldHot calls poll a consumer group that lives on the server; a cold call replays the stream by pages.

   An entry is its stream id. All ids share a millisecond, so an id is its sequence number; Radix is the base in which numbers
   are written, ten in the code, and matters where ids are compared as strings. `plan` says what each call asks for; it is
   chosen once. A step goes from one await to the next; what fails is counted in `faults`, a bound of the model.             *)
EXTENDS Integers, FiniteSets

CONSTANTS Calls,       \* calls of hotStream, coldHotStream and coldStream
          Groups, Clients,
          Plans,       \* a set of functions: what each call asks for
          BatchSize,   \* coldBatchSize of each client
          MaxLen,      \* maxStreamLength of each client; 0 for none
          Parallel,    \* parallelEventCount
          Radix,
          MaxEntries,  \* bound on the entries ever added, for each plan
          MaxFaults    \* bound on what fails

Requests == [kind : {"hot", "coldHot", "cold", "none"}, client : Clients, group : Groups, destroys : BOOLEAN]

ASSUME PlanAssumption == Plans \subseteq [Calls -> Requests]
ASSUME SizeAssumption == /\ BatchSize \in [Clients -> Nat \ {0}] /\ MaxLen \in [Clients -> Nat]
                         /\ Parallel \in Nat \ {0} /\ Radix \in Nat \ {0, 1}
                         /\ MaxEntries \in [Plans -> Nat] /\ MaxFaults \in Nat

VARIABLES plan,
          last, kept,      \* the stream: last-generated-id, and the entries that are there
          group,           \* on the server: last-delivered-id of each group, and the id it was created at
          pel,             \* on the server: pending entries of each call's consumer (its name is unique)
          registry,        \* consumerGroups of each client
          client,          \* the life of each client
          call,            \* the state of each call
          handled,         \* history: entries whose handler has returned, per call
          skipped,         \* history: entries some codec did not decode
          faults

vars == <<plan, last, kept, group, pel, registry, client, call, handled, skipped, faults>>
server == <<last, kept, group, pel>>

Absent == -1
NoGroup == [at |-> Absent, from |-> 0]
Ids == UNION {1 .. MaxEntries[p] : p \in Plans}

\* A call that has not been made. batch: read and waiting; inHand: at the handler; acking: at XACK;
\* next, end, short: cursor and lastId of a replay, and whether its page was the last.
NewCall == [pc |-> "idle", running |-> FALSE, conn |-> FALSE, pending |-> FALSE,
            batch |-> {}, inHand |-> {}, acking |-> {}, next |-> 0, end |-> 0, short |-> FALSE]

Init == /\ plan \in Plans
        /\ last = 0 /\ kept = {}
        /\ group = [g \in Groups |-> NoGroup]
        /\ pel = [c \in Calls |-> {}]
        /\ registry = [k \in Clients |-> {}]
        /\ client = [k \in Clients |-> "up"]
        /\ call = [c \in Calls |-> NewCall]
        /\ handled = [c \in Calls |-> {}] /\ skipped = {} /\ faults = 0

Kind(c) == plan[c].kind
GroupOf(c) == plan[c].group
ClientOf(c) == plan[c].client
Batch(c) == BatchSize[ClientOf(c)]
Subscriptions == {c \in Calls : Kind(c) \in {"hot", "coldHot"}}
Replays == {c \in Calls : Kind(c) = "cold"}

Fault == faults < MaxFaults /\ faults' = faults + 1

\* The k smallest members of S, and the largest one.
Least(S, k) == {i \in S : Cardinality({j \in S : j <= i}) <= k}
IsMax(m, S) == m \in S /\ \A j \in S : j <= m

---------------------------------------------------------------------------
(* The stream *)

\* emit: one pipeline of XADDs. The replies to single entries are not looked at: an emit of which n events are stored
\* resolves whatever became of the others. Trimming is approximate ("~"): it happens or not.
Emit(k, n) == /\ client[k] = "up"
              /\ last + n <= MaxEntries[plan]
              /\ last' = last + n
              /\ LET all == kept \cup (last + 1 .. last + n)
                 IN  \/ kept' = all
                     \/ MaxLen[k] > 0 /\ kept' = {i \in all : i > last + n - MaxLen[k]}
              /\ UNCHANGED <<plan, group, pel, registry, client, call, handled, skipped, faults>>

\* clear: DEL takes the stream's groups with it.
Clear(k) == /\ client[k] = "up" /\ Fault
            /\ kept' = {}
            /\ group' = [g \in Groups |-> NoGroup]
            /\ pel' = [c \in Calls |-> {}]
            /\ UNCHANGED <<plan, last, registry, client, call, handled, skipped>>

---------------------------------------------------------------------------
(* Groups: hotStreamInternal and coldHotStream *)

Set(c, r) == call' = [call EXCEPT ![c] = r]

\* The group is looked up and noted without an await in between.
Refused(c) == GroupOf(c) \in registry[ClientOf(c)]

Subscribe(c) == /\ c \in Subscriptions /\ call[c].pc = "idle" /\ client[ClientOf(c)] = "up"
                /\ IF Refused(c)
                     THEN /\ Set(c, [NewCall EXCEPT !.pc = "refused"])
                          /\ UNCHANGED registry
                     ELSE /\ Set(c, [NewCall EXCEPT !.pc = "creating", !.conn = TRUE])
                          /\ registry' = [registry EXCEPT ![ClientOf(c)] = @ \cup {GroupOf(c)}]
                /\ UNCHANGED <<plan, server, client, handled, skipped, faults>>

\* Where ensureConsumerGroup creates a group: "$" or "0".
StartId_Zero(c) == 0
StartId(c) == IF Kind(c) = "hot" THEN last ELSE 0

\* The loop's condition after an iteration.
Again(r) == [r EXCEPT !.pc = IF r.running THEN "reading" ELSE "stopped"]

\* ensureConsumerGroup, called first and after NOGROUP; BUSYGROUP is success. A shutdown may quit the connection while the
\* command is under way: the loop then starts on a dead connection, and nobody will stop it.
GroupCreated(c) ==
    /\ call[c].pc \in {"creating", "recreating"}
    /\ group' = IF group[GroupOf(c)] = NoGroup
                  THEN [group EXCEPT ![GroupOf(c)] = [at |-> StartId(c), from |-> StartId(c)]]
                  ELSE group
    /\ Set(c, IF call[c].pc = "creating"
                THEN [call[c] EXCEPT !.pc = "reading", !.running = TRUE, !.pending = (Kind(c) = "coldHot")]
                ELSE Again(call[c]))
    /\ UNCHANGED <<plan, last, kept, pel, registry, client, handled, skipped, faults>>

\* XGROUP CREATE fails: the call rejects and its group stays noted, or the loop ends under a subscription still open.
GroupFails(c) ==
    /\ call[c].pc \in {"creating", "recreating"}
    /\ IF call[c].conn THEN Fault ELSE UNCHANGED faults
    /\ Set(c, [call[c] EXCEPT !.pc = IF @ = "creating" THEN "failed" ELSE "stopped"])
    /\ UNCHANGED <<plan, server, registry, client, handled, skipped>>

\* What XREADGROUP finds: the consumer's own pending entries (id "0"), or the group's next (">").
Found(c) == IF call[c].pending
              THEN Least(pel[c], Batch(c))
              ELSE Least({i \in kept : i > group[GroupOf(c)].at}, Batch(c))

\* Entries read stay pending until they are acknowledged.
Delivered_NoAck(c, ids) == pel
Delivered(c, ids) == [pel EXCEPT ![c] = @ \cup ids]

TakeSlice(r, ids) == [r EXCEPT !.inHand = Least(ids, Parallel), !.batch = ids \ Least(ids, Parallel)]

\* A hot loop that was closed meanwhile leaves what it has read; a coldHot loop handles it.
Discards(c) == Kind(c) = "hot" /\ ~call[c].running

Read(c) ==
    LET g == GroupOf(c)  ids == Found(c)
    IN  /\ c \in Subscriptions /\ call[c].pc = "reading" /\ call[c].conn
        /\ group[g] # NoGroup
        /\ ids # {}
        /\ pel' = Delivered(c, ids)
        /\ \E m \in ids : IsMax(m, ids) /\ group' = IF call[c].pending THEN group ELSE [group EXCEPT ![g].at = m]
        /\ Set(c, IF Discards(c) THEN Again(call[c]) ELSE TakeSlice([call[c] EXCEPT !.pc = "handling"], ids))
        /\ UNCHANGED <<plan, last, kept, registry, client, handled, skipped, faults>>

ReadNothing_StaysPending(c) == /\ call[c].pc = "reading" /\ Found(c) = {} /\ ~call[c].running
                               /\ Set(c, Again(call[c]))
                               /\ UNCHANGED <<plan, server, registry, client, handled, skipped, faults>>

\* Nothing pending, or the BLOCK time is over.
ReadNothing(c) == /\ call[c].pc = "reading" /\ call[c].conn /\ group[GroupOf(c)] # NoGroup /\ Found(c) = {}
                  /\ call[c].pending \/ ~call[c].running    \* otherwise it asks again
                  /\ Set(c, Again([call[c] EXCEPT !.pending = FALSE]))
                  /\ UNCHANGED <<plan, server, registry, client, handled, skipped, faults>>

\* XREADGROUP rejects: NOGROUP, a dead connection, or any other error.
ReadFails(c) == /\ call[c].pc = "reading"
                /\ IF call[c].conn /\ group[GroupOf(c)] # NoGroup THEN Fault ELSE UNCHANGED faults
                /\ Set(c, [call[c] EXCEPT !.pc = IF ~call[c].running THEN "stopped"
                                                 ELSE IF call[c].conn /\ group[GroupOf(c)] = NoGroup THEN "recreating"
                                                 ELSE "pausing"])
                /\ UNCHANGED <<plan, server, registry, client, handled, skipped>>

Resume(c) == /\ call[c].pc = "pausing"
             /\ Set(c, Again(call[c]))
             /\ UNCHANGED <<plan, server, registry, client, handled, skipped, faults>>

\* processMessages: the next slice when this one is through, the loop when the batch is.
NextSlice(r) == IF r.inHand \cup r.acking # {} THEN r
                ELSE IF r.batch # {} THEN TakeSlice(r, r.batch) ELSE Again(r)

\* The handler returns or throws: both are followed by XACK.
Handled(c, i) == /\ call[c].pc = "handling" /\ c \in Subscriptions /\ i \in call[c].inHand
                 /\ handled' = [handled EXCEPT ![c] = @ \cup {i}]
                 /\ Set(c, [call[c] EXCEPT !.inHand = @ \ {i}, !.acking = @ \cup {i}])
                 /\ UNCHANGED <<plan, server, registry, client, skipped, faults>>

\* decode returns nothing: no handler and no XACK.
Undecoded(c, i) == /\ call[c].pc = "handling" /\ c \in Subscriptions /\ i \in call[c].inHand /\ Fault
                   /\ skipped' = skipped \cup {i}
                   /\ Set(c, NextSlice([call[c] EXCEPT !.inHand = @ \ {i}]))
                   /\ UNCHANGED <<plan, server, registry, client, handled>>

Ack(c, i) == /\ i \in call[c].acking
             /\ \/ /\ call[c].conn /\ pel' = [pel EXCEPT ![c] = @ \ {i}] /\ UNCHANGED faults
                \/ /\ UNCHANGED pel      \* "Failed to XACK message"
                   /\ IF call[c].conn THEN Fault ELSE UNCHANGED faults
             /\ Set(c, NextSlice([call[c] EXCEPT !.acking = @ \ {i}]))
             /\ UNCHANGED <<plan, last, kept, group, registry, client, handled, skipped>>

---------------------------------------------------------------------------
(* Replays: coldStream *)

Replay(c) == /\ c \in Replays /\ call[c].pc = "idle" /\ client[ClientOf(c)] = "up"
             /\ Set(c, [NewCall EXCEPT !.pc = "length", !.running = TRUE, !.conn = TRUE])
             /\ UNCHANGED <<plan, server, registry, client, handled, skipped, faults>>

\* XLEN; an error counts as an empty stream (getStreamLength), and onDone is called even if the replay was closed.
Length(c) == /\ call[c].pc = "length"
             /\ \/ kept # {} /\ Set(c, [call[c] EXCEPT !.pc = "lastId"]) /\ UNCHANGED faults
                \/ kept = {} /\ Set(c, [call[c] EXCEPT !.pc = "done"]) /\ UNCHANGED faults
                \/ Fault /\ Set(c, [call[c] EXCEPT !.pc = "done"])
             /\ UNCHANGED <<plan, server, registry, client, handled, skipped>>

Finish(r) == [r EXCEPT !.pc = IF r.running THEN "done" ELSE "closed"]
NextPage(r) == IF r.running THEN [r EXCEPT !.pc = "paging"] ELSE Finish(r)

\* XINFO; an error gives no last id.
LastId(c) == /\ call[c].pc = "lastId"
             /\ \/ Set(c, NextPage([call[c] EXCEPT !.end = last])) /\ UNCHANGED faults
                \/ Fault /\ Set(c, NextPage(call[c]))
             /\ UNCHANGED <<plan, server, registry, client, handled, skipped>>

\* XRANGE from the cursor. The entries of a page are handled one by one.
Page(c) == LET ids == Least({i \in kept : i >= call[c].next}, Batch(c))
           IN  /\ call[c].pc = "paging"
               /\ Set(c, IF ids = {} \/ ~call[c].running
                           THEN Finish(call[c])
                           ELSE [call[c] EXCEPT !.pc = "handling", !.batch = ids, !.short = Cardinality(ids) < Batch(c)])
               /\ UNCHANGED <<plan, server, registry, client, handled, skipped, faults>>

PageFails(c) == /\ call[c].pc = "paging" /\ Fault
                /\ Set(c, [call[c] EXCEPT !.pc = "failed"])
                /\ UNCHANGED <<plan, server, registry, client, handled, skipped>>

\* Ids are compared as strings.
Digits(n) == CHOOSE d \in 1 .. n + 1 : n < Radix ^ d /\ \A e \in 1 .. d - 1 : n >= Radix ^ e
Padded(n, d) == n * Radix ^ (d - Digits(n))
AtOrAfter(a, b) == IF Digits(a) = Digits(b) THEN a >= b
                   ELSE LET d == Digits(a) + Digits(b)
                        IN  \/ Padded(a, d) > Padded(b, d)
                            \/ Padded(a, d) = Padded(b, d) /\ Digits(a) > Digits(b)

PageEnd_OneMore(r) == IF r.short \/ (r.end > 0 /\ AtOrAfter(r.next + 1, r.end)) THEN Finish(r) ELSE NextPage(r)
PageEnd(r) == IF r.short \/ (r.end > 0 /\ AtOrAfter(r.next, r.end)) THEN Finish(r) ELSE NextPage(r)

\* One entry: a handler or codec that throws has its entry skipped. After close the rest of the page is left.
Replayed(c) == /\ call[c].pc = "handling" /\ c \in Replays
               /\ \E i \in call[c].batch :
                    LET r == [call[c] EXCEPT !.batch = IF call[c].running THEN @ \ {i} ELSE {}, !.next = i + 1]
                    IN  /\ \A j \in call[c].batch : i <= j
                        /\ handled' = [handled EXCEPT ![c] = @ \cup {i}]
                        /\ Set(c, IF r.batch = {} THEN PageEnd(r) ELSE r)
               /\ UNCHANGED <<plan, server, registry, client, skipped, faults>>

---------------------------------------------------------------------------
(* Ending *)

Settled == {"idle", "refused", "failed", "done", "closed", "crashed"}

\* In activeSubscriptions and not closed yet; being closed.
Open(c) == call[c].running /\ call[c].pc \notin Settled
Closing(c) == ~call[c].running /\ call[c].pc \notin Settled \cup {"creating"}

\* close: running is cleared; a replay's connection is quit at once, a subscription waits for its loop.
Closed(c) == [call[c] EXCEPT !.running = FALSE, !.conn = @ /\ c \in Subscriptions]

Close_FreesFirst(c) == /\ Open(c)
                       /\ Set(c, Closed(c))
                       /\ registry' = [registry EXCEPT ![ClientOf(c)] = @ \ {GroupOf(c)}]
                       /\ UNCHANGED <<plan, server, client, handled, skipped, faults>>

Close(c) == /\ Open(c) /\ client[ClientOf(c)] = "up"
            /\ Set(c, Closed(c))
            /\ UNCHANGED <<plan, server, registry, client, handled, skipped, faults>>

\* The loop has ended: the group is destroyed on request.
LoopEnded(c) == /\ call[c].pc = "stopped" /\ ~call[c].running
                /\ IF plan[c].destroys /\ Kind(c) = "hot" /\ call[c].conn
                     THEN \/ /\ group' = [group EXCEPT ![GroupOf(c)] = NoGroup]
                             /\ pel' = [d \in Calls |-> IF GroupOf(d) = GroupOf(c) THEN {} ELSE pel[d]]
                             /\ UNCHANGED faults
                          \/ Fault /\ UNCHANGED <<group, pel>>
                     ELSE UNCHANGED <<group, pel, faults>>
                /\ Set(c, [call[c] EXCEPT !.pc = "quitting"])
                /\ UNCHANGED <<plan, last, kept, registry, client, handled, skipped>>

\* quit, then the group is free again; if quit rejects, it is not.
Quit(c) == /\ call[c].pc = "quitting"
           /\ \/ /\ call[c].conn /\ UNCHANGED faults
                 /\ registry' = [registry EXCEPT ![ClientOf(c)] = @ \ {GroupOf(c)}]
              \/ /\ IF call[c].conn THEN Fault ELSE UNCHANGED faults
                 /\ UNCHANGED registry
           /\ Set(c, [call[c] EXCEPT !.pc = "closed", !.conn = FALSE])
           /\ UNCHANGED <<plan, server, client, handled, skipped>>

CallsOf(k) == {c \in Calls : ClientOf(c) = k}

\* (Without a call under way there is nothing to end.)
InUse(k) == \E c \in CallsOf(k) : call[c].pc \notin Settled

Shutdown(k) == /\ client[k] = "up" /\ InUse(k)
               /\ client' = [client EXCEPT ![k] = "stopping"]
               /\ UNCHANGED <<plan, server, registry, call, handled, skipped, faults>>

\* Subscriptions are closed one after the other.
ShutdownNext(k) == /\ client[k] = "stopping"
                   /\ \A c \in CallsOf(k) \cap Subscriptions : ~Closing(c)
                   /\ \E c \in CallsOf(k) : Open(c) /\ Set(c, Closed(c))
                   /\ UNCHANGED <<plan, server, registry, client, handled, skipped, faults>>

\* The lists are emptied and every connection of the pool is quit.
ShutdownEnd(k) == /\ client[k] = "stopping"
                  /\ \A c \in CallsOf(k) : ~Open(c) /\ ~(Closing(c) /\ c \in Subscriptions)
                  /\ registry' = [registry EXCEPT ![k] = {}]
                  /\ call' = [c \in Calls |-> IF ClientOf(c) = k THEN [call[c] EXCEPT !.conn = FALSE] ELSE call[c]]
                  /\ client' = [client EXCEPT ![k] = "down"]
                  /\ UNCHANGED <<plan, server, handled, skipped, faults>>

\* The process ends; what its consumers had pending stays pending.
Crash(k) == /\ client[k] # "crashed" /\ InUse(k) /\ Fault
            /\ client' = [client EXCEPT ![k] = "crashed"]
            /\ registry' = [registry EXCEPT ![k] = {}]
            /\ call' = [c \in Calls |-> IF ClientOf(c) = k /\ call[c].pc \notin Settled
                                          THEN [NewCall EXCEPT !.pc = "crashed"] ELSE call[c]]
            /\ UNCHANGED <<plan, server, handled, skipped>>

---------------------------------------------------------------------------
\* What an open connection, a handler or a timer will bring about.
Proceed(c) == \/ GroupCreated(c) \/ GroupFails(c) \/ Read(c) \/ ReadNothing(c) \/ ReadFails(c) \/ Resume(c)
              \/ \E i \in Ids : Handled(c, i) \/ Ack(c, i)
              \/ Length(c) \/ LastId(c) \/ Page(c) \/ Replayed(c)
              \/ LoopEnded(c) \/ Quit(c)

Next == \/ \E c \in Calls : \/ Subscribe(c) \/ Replay(c) \/ Proceed(c) \/ Close(c) \/ PageFails(c)
                            \/ \E i \in Ids : Undecoded(c, i)
        \/ \E k \in Clients : \/ \E n \in Ids : Emit(k, n)
                              \/ Clear(k) \/ Shutdown(k) \/ ShutdownNext(k) \/ ShutdownEnd(k) \/ Crash(k)

Spec == /\ Init /\ [][Next]_vars
        /\ \A c \in Calls : WF_vars(Proceed(c))

---------------------------------------------------------------------------
Stages == {"creating", "recreating", "reading", "pausing", "handling", "stopped", "quitting", "length", "lastId", "paging"} \cup Settled
Records == [pc : Stages, running : BOOLEAN, conn : BOOLEAN, pending : BOOLEAN, batch : SUBSET Ids, inHand : SUBSET Ids,
            acking : SUBSET Ids, next : Nat, end : Nat, short : BOOLEAN]

TypeOK == /\ plan \in Plans
          /\ last \in 0 .. MaxEntries[plan] /\ kept \subseteq 1 .. last
          /\ group \in [Groups -> [at : Nat \cup {Absent}, from : Nat]]
          /\ pel \in [Calls -> SUBSET Ids] /\ handled \in [Calls -> SUBSET Ids] /\ skipped \subseteq Ids
          /\ registry \in [Clients -> SUBSET Groups]
          /\ client \in [Clients -> {"up", "stopping", "down", "crashed"}]
          /\ call \in [Calls -> Records]
          /\ faults \in 0 .. MaxFaults

HandledIn(g) == UNION {handled[c] : c \in {d \in Subscriptions : GroupOf(d) = g}}
PendingIn(g) == UNION {pel[c] : c \in {d \in Subscriptions : GroupOf(d) = g}}

\* What a group has moved past is handled or still pending with one of its consumers: neither a crash, a failed
\* acknowledgement, a close in the middle of a read nor an undecodable entry makes the group forget an entry.
PassedIsHandledOrPending ==
    \A g \in Groups : \A i \in kept : group[g].from < i /\ i <= group[g].at => i \in HandledIn(g) \cup PendingIn(g)

\* No entry reaches the handlers of a group's hot calls twice, whichever of its consumers, in whatever process, it reaches:
\* unless the group restarts, one hot call destroying what a coldHot call creates again, at 0.
InHands(c) == call[c].batch \cup call[c].inHand
HotIn(g) == {c \in Subscriptions : GroupOf(c) = g /\ Kind(c) = "hot"}
ColdHotIn(g) == {c \in Subscriptions : GroupOf(c) = g /\ Kind(c) = "coldHot"}
Restarts(g) == (\E c \in HotIn(g) : plan[c].destroys) /\ ColdHotIn(g) # {}
HotOnce ==
    \A g \in Groups : ~Restarts(g) =>
        \A c, d \in HotIn(g) :
            /\ InHands(c) \cap handled[d] = {}
            /\ c # d => (InHands(c) \cup handled[c]) \cap (InHands(d) \cup handled[d]) = {}

\* A replay leaves out nothing on its way, and when it reports its end it has handled what the stream held when it looked,
\* up to the last entry: the cursor is compared with that entry's id before the entry is read. Where the numbers of digits
\* of the two differ, the comparison of strings may end it earlier.
ReplayLeavesOutNothing ==
    \A c \in Replays, i \in kept :
        \/ i \in handled[c]
        \/ i >= call[c].next /\ (call[c].pc = "done" /\ call[c].end > i => Digits(call[c].next) # Digits(call[c].end))

\* As documented of coldStream: all events that were there when it started are processed when it completes.
\* This fails: see RedisReplayShort.cfg.
DoneIsComplete ==
    \A c \in Replays : call[c].pc = "done" /\ call[c].end > 0 =>
        \A i \in kept : i <= call[c].end => i \in handled[c]

\* A client never polls one group twice, not even while a close, a failed subscription or a shutdown is under way.
Polls(c) == c \in Subscriptions /\ call[c].conn /\ call[c].pc \notin Settled
OnePollerPerGroup ==
    \A c, d \in Calls : Polls(c) /\ Polls(d) /\ ClientOf(c) = ClientOf(d) /\ GroupOf(c) = GroupOf(d) => c = d

\* As long as a subscription stays open and connected, every entry behind the start of its group gets handled, unless a
\* consumer has it pending and does not handle it any more, or no codec decodes it.
Serves(c) == c \in Subscriptions /\ Open(c) /\ call[c].conn /\ call[c].pc # "stopped"
Stuck(g, i) == \E c \in Subscriptions : GroupOf(c) = g /\ i \in pel[c] /\ i \notin InHands(c)
Owed(g, i) == i \in kept /\ group[g].from < i /\ i \notin HandledIn(g) /\ ~Stuck(g, i)
EntriesAreHandled == \A c \in Calls : []<>~(Serves(c) /\ \E i \in Ids : Owed(GroupOf(c), i))
=============================================================================

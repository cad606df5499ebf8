-------------------------- MODULE DatastoreClient --------------------------
(***************************************************************************)
(* EventclientDatastore (src/src/events/core/eventclient-datastore.ts):    *)
(* emit stores each event in the event-stream table, then publishes it in  *)
(* memory.  A hot subscription walks an in-memory stream with a cursor, in *)
(* process() loops that emits wake: every second wake-up under a running   *)
(* loop starts another one on the same cursor.  A coldHot subscription is  *)
(* a listener of the emitter, added once a lookup in the table returns.    *)
(*                                                                         *)
(* A step goes from one await to the next.  createEntity, the codec and    *)
(* the handlers may fail, MaxFailures times.                               *)
(***************************************************************************)
EXTENDS Naturals, Sequences, FiniteSets

CONSTANTS Events, Streams,
          Emits,        \* calls of emit
          Batch,        \* [Emits -> Seq(Events)]: an event is emitted once
          StreamOf,     \* [Emits -> Streams]
          IdOf,         \* [Events -> ids, or NoId for an event without one]
          Hots,         \* calls of hotStream and hotRawStream
          Crosses,      \* calls of coldHotStream
          Sources,      \* [Hots \cup Crosses -> SUBSET Streams]
          GroupOf,      \* [Hots \cup Crosses -> consumer groups]
          MaxFailures,  \* bound on failing calls and handlers
          NoId, None

ASSUME BatchAssumption ==
    /\ Batch \in [Emits -> Seq(Events) \ {<<>>}]
    /\ \A e, f \in Emits : \A m \in DOMAIN Batch[e], n \in DOMAIN Batch[f] :
          Batch[e][m] = Batch[f][n] => e = f /\ m = n
ASSUME StreamAssumption == StreamOf \in [Emits -> Streams]
                           /\ Sources \in [Hots \cup Crosses -> SUBSET Streams]
ASSUME NoneAssumption == None \notin Events
ASSUME MaxFailuresAssumption == MaxFailures \in Nat
ASSUME CallsAssumption == Hots \cap Crosses = {}

Calls == Hots \cup Crosses
\* A call on several streams makes one StreamSubscription for each.
Subs == {s \in Hots \X Streams : s[2] \in Sources[s[1]]}

VARIABLES
    table,      \* the events with a row in event-stream (which nothing here reads)
    items,      \* [Streams -> Seq(Events)]: the in-memory streams
    emits,      \* [Emits -> [at, n]]: where the call is, and with which event
    calls,      \* [Calls -> "none", "refused", "open" or "closed"]
    subs,       \* [Subs -> [listed, processing, cursor, loops, taken]]
    listener,   \* [Crosses -> "none", "lookup" or "on"]
    consumerGroups,
    failed,     \* the emits and subscriptions something failed in
    shut        \* shutdown was called

vars == <<table, items, emits, calls, subs, listener, consumerGroups, failed, shut>>

SubRecords == [listed: BOOLEAN, processing: BOOLEAN,
               cursor: {IdOf[ev] : ev \in Events} \cup {NoId},
               loops: SUBSET [n: Nat \ {0}, at: {"decoding", "handling"}],
               taken: Seq(Events)]

\* taken: every event the subscription ever took; loops: the process() invocations in
\* their handler, each with the place of its event in taken.
NewSub == [listed |-> FALSE, processing |-> FALSE, cursor |-> NoId, loops |-> {}, taken |-> <<>>]

Init == /\ table = {}
        /\ items = [str \in Streams |-> <<>>]
        /\ emits = [e \in Emits |-> [at |-> "idle", n |-> 1]]
        /\ calls = [c \in Calls |-> "none"]
        /\ subs = [s \in Subs |-> NewSub]
        /\ listener = [c \in Crosses |-> "none"]
        /\ consumerGroups = {}
        /\ failed = {}
        /\ shut = FALSE
-----------------------------------------------------------------------------
(* Stream and StreamSubscription. *)

\* getNextAfter: the event behind the first one with the cursor's id.
GetNextAfter_SameAgain(log, cursor) ==
    LET here == {n \in DOMAIN log : cursor = NoId \/ IdOf[log[n]] = cursor}
    IN  IF here = {} THEN None ELSE log[CHOOSE n \in here : \A m \in here : n <= m]
GetNextAfter(log, cursor) ==
    LET here == {n \in DOMAIN log : IdOf[log[n]] = cursor}
        next == IF cursor = NoId THEN 1
                ELSE IF here = {} THEN 0
                ELSE (CHOOSE n \in here : \A m \in here : n <= m) + 1
    IN  IF next \in DOMAIN log THEN log[next] ELSE None

\* The turn of a loop: the cursor moves before the handler is called, and a handler
\* whose subscription was closed returns at once.  A loop that finds nothing ends, and
\* clears the flag, whoever has set it; one that goes on leaves the flag alone.
Turn(s, sub, log) ==
    LET it == GetNextAfter(log, sub.cursor)
    IN  IF it = None
        THEN [sub EXCEPT !.processing = FALSE]
        ELSE [sub EXCEPT !.cursor = IdOf[it],
                         !.loops = @ \cup {[n |-> Len(sub.taken) + 1,
                                            at |-> IF calls[s[1]] = "closed"
                                                   THEN "handling" ELSE "decoding"]},
                         !.taken = Append(@, it)]

\* process(), up to its first await.  The return of a wake-up that finds the flag set is
\* inside the try, so its finally clears the flag of the loop that runs.
Woken(s, sub, log) == IF sub.processing THEN [sub EXCEPT !.processing = FALSE]
                      ELSE Turn(s, [sub EXCEPT !.processing = TRUE], log)
Process(s, sub, log) == IF sub.listed THEN Woken(s, sub, log) ELSE sub

\* tickSubs, which does not wait for the loops it starts.
TickSubs(logs) == subs' = [s \in Subs |-> Process(s, subs[s], logs[s[2]])]
-----------------------------------------------------------------------------
(* emit *)

Current(e) == Batch[e][emits[e].n]

Emit(e) == /\ emits[e].at = "idle"
           /\ emits' = [emits EXCEPT ![e].at = "storing"]
           /\ UNCHANGED <<table, items, calls, subs, listener, consumerGroups, failed, shut>>

Store(e) == /\ emits[e].at = "storing"
            /\ table' = table \cup {Current(e)}
            /\ emits' = [emits EXCEPT ![e].at = "encoding"]
            /\ UNCHANGED <<items, calls, subs, listener, consumerGroups, failed, shut>>

\* Once encoded, the event goes to the listeners and into its stream; behind the last
\* event of the batch the subscriptions are woken.  Streams made after a shutdown have
\* no subscription.
Published(e) == LET str == StreamOf[e]
                IN  IF shut THEN items ELSE [items EXCEPT ![str] = Append(@, Current(e))]

NextEvent(e) == IF emits[e].n = Len(Batch[e]) THEN [emits[e] EXCEPT !.at = "done"]
                ELSE [at |-> "storing", n |-> emits[e].n + 1]

Publish_WakesFirst(e) ==
    /\ emits[e].at = "encoding"
    /\ items' = Published(e)
    /\ emits' = [emits EXCEPT ![e] = NextEvent(e)]
    /\ IF emits[e].n = Len(Batch[e]) THEN TickSubs(items) ELSE UNCHANGED subs
    /\ UNCHANGED <<table, calls, listener, consumerGroups, failed, shut>>
Publish(e) ==
    /\ emits[e].at = "encoding"
    /\ items' = Published(e)
    /\ emits' = [emits EXCEPT ![e] = NextEvent(e)]
    /\ IF emits[e].n = Len(Batch[e]) THEN TickSubs(items') ELSE UNCHANGED subs
    /\ UNCHANGED <<table, calls, listener, consumerGroups, failed, shut>>

Fail(who) == /\ Cardinality(failed) < MaxFailures
             /\ failed' = failed \cup {who}

\* createEntity or the codec fails: emit rejects, and what it published stays published.
EmitFails(e) ==
    /\ emits[e].at \in {"storing", "encoding"} /\ Fail(e)
    /\ emits' = [emits EXCEPT ![e].at = "failed"]
    /\ UNCHANGED <<table, items, calls, subs, listener, consumerGroups, shut>>
-----------------------------------------------------------------------------
(* The subscriptions' loops. *)

Decode(s) ==
    /\ \E loop \in subs[s].loops :
          /\ loop.at = "decoding"
          /\ subs' = [subs EXCEPT ![s].loops = (@ \ {loop}) \cup {[loop EXCEPT !.at = "handling"]}]
    /\ UNCHANGED <<table, items, emits, calls, listener, consumerGroups, failed, shut>>

\* The handler is done, and the loop looks for the next event.
Left(s, loop) == [subs[s] EXCEPT !.loops = @ \ {loop}]

Handled_StopsAfterOne(s) ==
    /\ \E loop \in subs[s].loops :
          /\ loop.at = "handling"
          /\ subs' = [subs EXCEPT ![s].loops = @ \ {loop}, ![s].processing = FALSE]
    /\ UNCHANGED <<table, items, emits, calls, listener, consumerGroups, failed, shut>>
Handled(s) ==
    /\ \E loop \in subs[s].loops :
          /\ loop.at = "handling"
          /\ subs' = [subs EXCEPT ![s] = Turn(s, Left(s, loop), items[s[2]])]
    /\ UNCHANGED <<table, items, emits, calls, listener, consumerGroups, failed, shut>>

\* The codec or the handler throws: the loop ends, with the cursor past the event, and
\* clears the flag.
Throws(s) ==
    /\ Fail(s)
    /\ \E loop \in subs[s].loops :
          subs' = [subs EXCEPT ![s].loops = @ \ {loop}, ![s].processing = FALSE]
    /\ UNCHANGED <<table, items, emits, calls, listener, consumerGroups, shut>>
-----------------------------------------------------------------------------
(* hotStream, coldHotStream, close and shutdown. *)

Refuse(c) ==
    /\ calls[c] = "none" /\ ~shut /\ GroupOf[c] \in consumerGroups
    /\ calls' = [calls EXCEPT ![c] = "refused"]
    /\ UNCHANGED <<table, items, emits, subs, listener, consumerGroups, failed, shut>>

Admit(c) == calls[c] = "none" /\ ~shut /\ GroupOf[c] \notin consumerGroups

\* Nothing wakes the new subscriptions before the next emit.
HotStream(c) ==
    /\ Admit(c)
    /\ calls' = [calls EXCEPT ![c] = "open"]
    /\ consumerGroups' = consumerGroups \cup {GroupOf[c]}
    /\ subs' = [s \in Subs |-> IF s[1] = c THEN [subs[s] EXCEPT !.listed = TRUE] ELSE subs[s]]
    /\ UNCHANGED <<table, items, emits, listener, failed, shut>>

ColdHotStream(c) ==
    /\ Admit(c)
    /\ calls' = [calls EXCEPT ![c] = "open"]
    /\ consumerGroups' = consumerGroups \cup {GroupOf[c]}
    /\ listener' = [listener EXCEPT ![c] = "lookup"]
    /\ UNCHANGED <<table, items, emits, subs, failed, shut>>

\* coldReplay adds the listener; the rows it has looked up it does not use.
Listen(c) ==
    /\ listener[c] = "lookup"
    /\ listener' = [listener EXCEPT ![c] = "on"]
    /\ UNCHANGED <<table, items, emits, calls, subs, consumerGroups, failed, shut>>

\* A hot subscription is tombstoned and stays listed; a listener is removed if it was added.
\* A control is closed once.
Close(c) ==
    /\ calls[c] = "open"
    /\ calls' = [calls EXCEPT ![c] = "closed"]
    /\ consumerGroups' = consumerGroups \ {GroupOf[c]}
    /\ listener' = [x \in Crosses |-> IF x = c /\ listener[x] = "on" THEN "none" ELSE listener[x]]
    /\ UNCHANGED <<table, items, emits, subs, failed, shut>>

\* The loops that run keep their stream.
Shutdown ==
    /\ ~shut
    /\ shut' = TRUE
    /\ subs' = [s \in Subs |-> [subs[s] EXCEPT !.listed = FALSE]]
    /\ consumerGroups' = {}
    /\ listener' = [c \in Crosses |-> IF listener[c] = "on" THEN "none" ELSE listener[c]]
    /\ UNCHANGED <<table, items, emits, calls, failed>>

EmitStep(e) == Emit(e) \/ Store(e) \/ Publish(e) \/ EmitFails(e)
SubStep(s) == Decode(s) \/ Handled(s) \/ Throws(s)
CallStep(c) == Refuse(c) \/ Close(c) \/ (c \in Hots /\ HotStream(c))
               \/ (c \in Crosses /\ (ColdHotStream(c) \/ Listen(c)))

Next == \/ \E e \in Emits : EmitStep(e)
        \/ \E s \in Subs : SubStep(s)
        \/ \E c \in Calls : CallStep(c)
        \/ Shutdown

\* The table, the codec and the handlers answer.
Fairness == /\ \A e \in Emits : WF_vars(Store(e) \/ Publish(e) \/ EmitFails(e))
            /\ \A s \in Subs : WF_vars(SubStep(s))

Spec == Init /\ [][Next]_vars /\ Fairness
-----------------------------------------------------------------------------
TypeOK == /\ table \subseteq Events
          /\ items \in [Streams -> Seq(Events)]
          /\ emits \in [Emits -> [at: {"idle", "storing", "encoding", "done", "failed"}, n: Nat]]
          /\ \A e \in Emits : emits[e].n \in 1..Len(Batch[e])
          /\ calls \in [Calls -> {"none", "refused", "open", "closed"}]
          /\ subs \in [Subs -> SubRecords]
          /\ listener \in [Crosses -> {"none", "lookup", "on"}]
          /\ consumerGroups \subseteq {GroupOf[c] : c \in Calls}
          /\ failed \subseteq Emits \cup Subs
          /\ shut \in BOOLEAN

\* No wake-up is lost to the flag: where no loop runs, an event waits for the next emit only
\* because its own has not come to its last event, or never will.  (The subscription has been
\* woken before, as none is on being made, and no handler of it threw.)
Waiting(s) == {items[s[2]][n] : n \in Len(subs[s].taken) + 1..Len(items[s[2]])}
Unannounced(ev) == \E e \in Emits : /\ emits[e].at \in {"storing", "encoding", "failed"}
                                   /\ \E n \in 1..emits[e].n - 1 : Batch[e][n] = ev
NoWakeUpIsLost == \A s \in Subs \ failed :
    subs[s].listed /\ subs[s].taken # <<>> /\ subs[s].loops = {} =>
        \A ev \in Waiting(s) : Unannounced(ev)

\* Whatever a subscription reads in memory is in the table, for those who replay later.
PublishedIsStored == \A str \in Streams : \A n \in DOMAIN items[str] : items[str][n] \in table

\* One group has one open subscription, of either kind.
GroupIsExclusive == \A c, d \in Calls :
    calls[c] = "open" /\ calls[d] = "open" /\ GroupOf[c] = GroupOf[d] => c = d

\* Loops that overlap share a cursor: whatever wakes them, fails and ends, each subscription
\* takes its stream in order, without repetition or gap, when events have ids of their own.
Ordered == INSTANCE OrderedDelivery WITH
    StreamOfSub <- [s \in Subs |-> s[2]], log <- items, taken <- [s \in Subs |-> subs[s].taken]
ImplementsOrderedDelivery == Ordered!Spec

\* What is emitted to a listed subscription is taken, all of it, unless the emit or the
\* subscription failed, or the client was shut down.
TakesAll(s, e) == \A n \in DOMAIN Batch[e] :
    \E m \in DOMAIN subs[s].taken : subs[s].taken[m] = Batch[e][n]
PublishedIsTaken == \A s \in Subs, e \in Emits :
    (StreamOf[e] = s[2] /\ subs[s].listed /\ emits[e].at = "encoding")
        ~> (TakesAll(s, e) \/ shut \/ failed \cap {s, e} # {})

\* What the interface says of parallelEventCount, and the flag of process() is for: with a limit
\* of one, the next event waits for the handler of the last.  This fails: see DatastoreOverlap.cfg.
OneAtATime == \A s \in Subs : Cardinality(subs[s].loops) <= 1

\* What the interface says of close: it releases the resources of the subscription.
ClosedReleasesListener == \A c \in Crosses : calls[c] = "closed" => listener[c] # "on"
=============================================================================

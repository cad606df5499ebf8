--------------------------- MODULE ViewDelivery ---------------------------
(***************************************************************************)
(* Views and adapters (src/src/events/view, src/src/events/adapter) over   *)
(* the idempotent event client (idempotent-event-client.ts) over the proxy *)
(* that connects in the background (cleanStartingProxyEventClient.ts).     *)
(*                                                                         *)
(* The connected client is external here: it hands the events of a group   *)
(* to its subscriptions in order, at least once, and may go on after an    *)
(* event whose handler failed.  RedisClient, KafkaClient and               *)
(* DatastoreClient are the detailed ones.                                  *)
(***************************************************************************)
EXTENDS Naturals, FiniteSets

CONSTANTS Views, Adapters,
          MaxEvents,     \* bound: events on the stream
          MaxAttempts,   \* bound: calls of createClient in progress at a time
          MaxFaults,     \* bound: later attempts, subscriptions, handlers and marks that fail
          MaxCrashes     \* bound: process ends

ASSUME GroupsAssumption == Views \cap Adapters = {}
ASSUME BoundsAssumption == {MaxEvents, MaxAttempts, MaxFaults, MaxCrashes} \subseteq Nat

Groups == Views \cup Adapters
Events == 1..MaxEvents
Consumers == 1..2   \* subscriptions one group can come to have
NoTask == [at |-> "idle", event |-> 0]

VARIABLES
    phase,       \* "first" attempt to connect, "retrying", "connected", or "stopped"
    attempts,    \* calls of createClient the interval has in progress
    keepConnecting,
    asked,       \* groups whose registerView or registerAdapter returned
    queued,      \* subscriptionOps
    open,        \* [Groups -> subscriptions with a connected client]
    missed,      \* groups whose subscription was refused
    task,        \* [Groups -> [Consumers -> the event in its handler, and where]]
    consumed,    \* [Groups -> the last event the broker takes for handled]
    processed,   \* <<view, event>> pairs in the ProcessedEventRepo
    handled,     \* [Groups -> [Events -> how often the handler ended well, told up to 2]]
    failed,      \* pairs whose handler has failed
    excused,     \* pairs handled but not marked, because marking failed or came too late
    doubled,     \* groups that had two subscriptions
    faults, crashes

proxy == <<phase, attempts, keepConnecting>>
subscriptions == <<asked, queued, open, missed, doubled>>
record == <<consumed, processed, handled, failed, excused>>
viewVars == <<proxy, subscriptions, task, record, faults, crashes>>

ViewInit == /\ phase = "first" /\ attempts = 0 /\ keepConnecting = TRUE
            /\ asked = {} /\ queued = {} /\ missed = {} /\ doubled = {}
            /\ open = [g \in Groups |-> 0]
            /\ task = [g \in Groups |-> [c \in Consumers |-> NoTask]]
            /\ consumed = [g \in Groups |-> 0]
            /\ processed = {} /\ failed = {} /\ excused = {}
            /\ handled = [g \in Groups |-> [e \in Events |-> 0]]
            /\ faults = 0 /\ crashes = 0

Fault == faults < MaxFaults /\ faults' = faults + 1
-----------------------------------------------------------------------------
(* The proxy connects. *)

\* It is handed out only after the first attempt, whatever came of it.
FirstAttempt ==
    /\ phase = "first"
    /\ phase' \in {"connected", "retrying"}
    /\ UNCHANGED <<attempts, keepConnecting, subscriptions, task, record, faults, crashes>>

\* Every 30 s, also while an earlier attempt is still in progress.
Interval_ClearsFirst ==
    /\ phase = "retrying" /\ attempts < MaxAttempts
    /\ phase' = "stopped"
    /\ attempts' = IF keepConnecting THEN attempts + 1 ELSE attempts
    /\ UNCHANGED <<keepConnecting, subscriptions, task, record, faults, crashes>>
Interval ==
    /\ phase = "retrying" /\ attempts < MaxAttempts
    /\ IF keepConnecting THEN attempts' = attempts + 1 /\ UNCHANGED phase
                         ELSE phase' = "stopped" /\ UNCHANGED attempts
    /\ UNCHANGED <<keepConnecting, subscriptions, task, record, faults, crashes>>

\* Subscribe those groups: one of them may be refused.
Subscribed(groups) ==
    \E refused \in SUBSET groups :
       /\ IF refused = {} THEN UNCHANGED faults ELSE Fault /\ Cardinality(refused) = 1
       /\ missed' = missed \cup refused
       /\ open' = [g \in Groups |-> IF g \in groups \ refused /\ open[g] < 2
                                    THEN open[g] + 1 ELSE open[g]]
       /\ doubled' = doubled \cup {g \in Groups : open'[g] = 2}

\* The client takes the proxy's place, and all that was queued is subscribed; a second
\* attempt that succeeds does so again, with its own client.
AttemptSucceeds ==
    /\ attempts > 0 /\ attempts' = attempts - 1
    /\ phase' = "connected"
    /\ Subscribed(queued)
    /\ UNCHANGED <<keepConnecting, asked, queued, task, record, crashes>>

AttemptFails ==
    /\ attempts > 0 /\ attempts' = attempts - 1
    /\ Fault
    /\ UNCHANGED <<phase, keepConnecting, subscriptions, task, record, crashes>>

\* Before the connection, shutdown only stops the attempts; what is in progress goes on.
Shutdown ==
    /\ phase = "retrying" /\ keepConnecting
    /\ keepConnecting' = FALSE
    /\ UNCHANGED <<phase, attempts, subscriptions, task, record, faults, crashes>>

\* registerView (coldHotStream), registerAdapter (hotStream).  Without a connection the
\* call is queued; closing the control it got is a no-op until then.
Register(g) ==
    /\ phase # "first" /\ g \notin asked
    /\ asked' = asked \cup {g}
    /\ IF phase = "connected"
       THEN Subscribed({g}) /\ UNCHANGED queued
       ELSE queued' = queued \cup {g} /\ UNCHANGED <<open, missed, doubled, faults>>
    /\ UNCHANGED <<proxy, task, record, crashes>>
-----------------------------------------------------------------------------
(* An event is delivered: idempotentlyProcessEvent for views, a transaction for adapters. *)

At(g, c, where) == c \in Consumers /\ task[g][c].at = where
Goes(g, c, where) == task' = [task EXCEPT ![g][c].at = where]
Ends(g, c) == task' = [task EXCEPT ![g][c] = NoTask]

Deliver(g, c) ==
    /\ At(g, c, "idle") /\ c <= open[g] /\ consumed[g] < MaxEvents
    /\ task' = [task EXCEPT ![g][c] = [at |-> IF g \in Views THEN "check" ELSE "exec",
                                       event |-> consumed[g] + 1]]
    /\ UNCHANGED <<proxy, subscriptions, record, faults, crashes>>

IsProcessed_Forgotten(g, e) == FALSE
IsProcessed(g, e) == <<g, e>> \in processed

Check_MarksFirst(g, c) ==
    /\ At(g, c, "check")
    /\ processed' = processed \cup {<<g, task[g][c].event>>}
    /\ Goes(g, c, IF IsProcessed(g, task[g][c].event) THEN "done" ELSE "exec")
    /\ UNCHANGED <<proxy, subscriptions, consumed, handled, failed, excused, faults, crashes>>
Check(g, c) ==
    /\ At(g, c, "check")
    /\ Goes(g, c, IF IsProcessed(g, task[g][c].event) THEN "done" ELSE "exec")
    /\ UNCHANGED <<proxy, subscriptions, record, faults, crashes>>

Exec(g, c) ==
    /\ At(g, c, "exec")
    /\ handled' = [handled EXCEPT ![g][task[g][c].event] = IF @ < 2 THEN @ + 1 ELSE @]
    /\ Goes(g, c, IF g \in Views THEN "mark" ELSE "done")
    /\ UNCHANGED <<proxy, subscriptions, consumed, processed, failed, excused, faults, crashes>>

\* A view's error reaches the client, which goes on or delivers the event again; an
\* adapter's goes to its errorHandler.
ExecFails(g, c) ==
    /\ At(g, c, "exec")
    /\ Fault
    /\ failed' = failed \cup {<<g, task[g][c].event>>}
    /\ Goes(g, c, "done") \/ (g \in Views /\ Ends(g, c))
    /\ UNCHANGED <<proxy, subscriptions, consumed, processed, handled, excused, crashes>>

\* A mark that fails is only logged.
Mark(g, c) ==
    /\ At(g, c, "mark")
    /\ LET pair == <<g, task[g][c].event>> IN
       \/ processed' = processed \cup {pair} /\ UNCHANGED <<excused, faults>>
       \/ Fault /\ excused' = excused \cup {pair} /\ UNCHANGED processed
    /\ Goes(g, c, "done")
    /\ UNCHANGED <<proxy, subscriptions, consumed, handled, failed, crashes>>

\* The handler's promise has resolved: the broker takes the event for handled.
Acknowledge(g, c) ==
    /\ At(g, c, "done")
    /\ consumed' = [consumed EXCEPT ![g] = IF task[g][c].event > @ THEN task[g][c].event ELSE @]
    /\ Ends(g, c)
    /\ UNCHANGED <<proxy, subscriptions, processed, handled, failed, excused, faults, crashes>>

\* The process ends, and starts again without a connection.
ProcessEnds ==
    /\ crashes < MaxCrashes /\ crashes' = crashes + 1
    /\ phase' = "first" /\ attempts' = 0 /\ keepConnecting' = TRUE
    /\ asked' = {} /\ queued' = {} /\ missed' = {}
    /\ open' = [g \in Groups |-> 0]
    /\ task' = [g \in Groups |-> [c \in Consumers |-> NoTask]]
    /\ excused' = excused \cup {p \in Groups \X Events : \E c \in Consumers :
                                   task[p[1]][c] = [at |-> "mark", event |-> p[2]]}
    /\ UNCHANGED <<doubled, consumed, processed, handled, failed, faults>>
-----------------------------------------------------------------------------
ViewNext == \/ FirstAttempt \/ Interval \/ AttemptSucceeds \/ AttemptFails \/ Shutdown \/ ProcessEnds
            \/ \E g \in Groups : \/ Register(g)
                                 \/ \E c \in Consumers : \/ Deliver(g, c) \/ Check(g, c)
                                                         \/ Exec(g, c) \/ ExecFails(g, c)
                                                         \/ Mark(g, c) \/ Acknowledge(g, c)

\* Connection attempts end, the interval fires, and what runs is awaited.
ViewFairness == /\ WF_viewVars(FirstAttempt) /\ WF_viewVars(Interval)
                /\ WF_viewVars(AttemptSucceeds \/ AttemptFails)
                /\ \A g \in Groups, c \in Consumers :
                      WF_viewVars(Deliver(g, c) \/ Check(g, c) \/ Exec(g, c) \/ Mark(g, c)
                                  \/ Acknowledge(g, c))

ViewSpec == ViewInit /\ [][ViewNext]_viewVars /\ ViewFairness
-----------------------------------------------------------------------------
ViewTypeOK ==
    /\ phase \in {"first", "retrying", "connected", "stopped"}
    /\ attempts \in 0..MaxAttempts /\ keepConnecting \in BOOLEAN
    /\ queued \subseteq asked /\ asked \subseteq Groups /\ missed \subseteq asked
    /\ doubled \subseteq Groups
    /\ open \in [Groups -> 0..2]
    /\ task \in [Groups -> [Consumers -> [at: {"idle", "check", "exec", "mark", "done"},
                                          event: Events \cup {0}]]]
    /\ consumed \in [Groups -> Events \cup {0}]
    /\ UNION {processed, failed, excused} \subseteq Groups \X Events
    /\ handled \in [Groups -> [Events -> 0..2]]
    /\ faults \in 0..MaxFaults /\ crashes \in 0..MaxCrashes

\* No event is passed over, through crashes between handling and marking: what the broker
\* takes for handled was handled, or its handler failed.
ConsumedIsHandled == \A g \in Groups : \A e \in 1..consumed[g] :
    handled[g][e] > 0 \/ <<g, e>> \in failed

\* Nor is one handled twice by a view, through redelivery after crashes and failures, unless
\* its mark was lost or an overlapping attempt to connect subscribed the view twice.
HandledOnce == \A v \in Views, e \in Events :
    handled[v][e] = 2 => <<v, e>> \in excused \/ v \in doubled

\* What is registered before there is a connection gets its subscription, unless that is
\* refused or the proxy is told to give up.
SubscriptionsOpen == \A g \in Groups :
    g \in asked ~> (open[g] > 0 \/ g \in missed \/ ~keepConnecting \/ g \notin asked)
=============================================================================

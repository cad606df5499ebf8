----------------------------- MODULE Commands -----------------------------
(***************************************************************************)
(* Commands on aggregates, from dispatch to the events that leave:         *)
(* dispatchCommand and dispatchDirectCommand (src/src/events/command),     *)
(* the aggregate they load, change and persist (aggregate-root.ts,         *)
(* tenant-aggregate-root.ts), the transactions of the in-memory datastore  *)
(* (datastore/inmem-data-store.ts), which roll nothing back, and the       *)
(* transactional event client, which holds events back until the commit.   *)
(*                                                                         *)
(* What a command executes is the application's: it loads its aggregate,   *)
(* raises events, persists, emits or returns them, or throws, in any       *)
(* order, but it persists what it raised before it returns.  An event is   *)
(* named by its dispatch and a number.                                     *)
(***************************************************************************)
EXTENDS Naturals, Sequences, SequencesExt

CONSTANTS Dispatches, Aggregates,
          Nobody,      \* holds a lock that is free
          Locked,      \* aggregates whose commands are dispatched with a lock
          MaxEvents,   \* bound: events one command raises
          MaxFaults    \* bound: locks not obtained, saves and emits that fail

ASSUME NobodyAssumption == Nobody \notin Dispatches
ASSUME LockedAssumption == Locked \subseteq Aggregates
ASSUME BoundsAssumption == MaxEvents \in Nat /\ MaxFaults \in Nat

Events == Dispatches \X (1..MaxEvents)

VARIABLES
    at,          \* [Dispatches -> where the call is]
    target,      \* [Dispatches -> the aggregate its command is about]
    aggregate,   \* [Dispatches -> the instance in memory: state, as the events applied to it,
                 \*  and newEvents]
    raised,      \* [Dispatches -> how many events it raised]
    untold,      \* [Dispatches -> events raised and not emitted yet]
    found,       \* [Dispatches -> the history persist read, and the events it took]
    buffer,      \* [Dispatches -> the batches its transaction holds back]
    sending,     \* [Dispatches -> the batches its commit still has to emit]
    broken,      \* dispatches that threw, or went on without a lock they asked for
    refused,     \* dispatches one of whose batches was not emitted
    history, checkpoint,       \* [Aggregates -> events]: what the datastore holds
    commandLock, persistLock,  \* [Aggregates -> the dispatch that holds it]
    emitted,     \* events the delegate got
    faults

calls == <<at, target, aggregate, raised, untold, found>>
store == <<history, checkpoint>>
locks == <<commandLock, persistLock>>
outgoing == <<buffer, sending, emitted>>
vars == <<calls, broken, refused, store, locks, outgoing, faults>>

New(events) == [state |-> events, newEvents |-> <<>>]
Nothing == [history |-> <<>>, events |-> <<>>]

Init == /\ at = [d \in Dispatches |-> "new"]
        /\ target \in [Dispatches -> Aggregates]
        /\ aggregate = [d \in Dispatches |-> New(<<>>)]
        /\ raised = [d \in Dispatches |-> 0]
        /\ untold = [d \in Dispatches |-> <<>>]
        /\ found = [d \in Dispatches |-> Nothing]
        /\ buffer = [d \in Dispatches |-> <<>>]
        /\ sending = [d \in Dispatches |-> <<>>]
        /\ broken = {} /\ refused = {} /\ emitted = {} /\ faults = 0
        /\ history = [a \in Aggregates |-> <<>>]
        /\ checkpoint = [a \in Aggregates |-> <<>>]
        /\ commandLock = [a \in Aggregates |-> Nobody]
        /\ persistLock = [a \in Aggregates |-> Nobody]

Goes(d, from, to) == at[d] = from /\ at' = [at EXCEPT ![d] = to]
Fault == faults < MaxFaults /\ faults' = faults + 1
-----------------------------------------------------------------------------
(* The transaction starts, and the command's lock is waited for inside it. *)

Dispatch(d) ==
    /\ Goes(d, "new", IF target[d] \in Locked THEN "lock" ELSE "load")
    /\ UNCHANGED <<target, aggregate, raised, untold, found, broken, refused, store, locks,
                   outgoing, faults>>

TakeLock_Shared(d) ==
    /\ Goes(d, "lock", "load")
    /\ commandLock' = [commandLock EXCEPT ![target[d]] = d]
    /\ UNCHANGED <<target, aggregate, raised, untold, found, broken, refused, store,
                   persistLock, outgoing, faults>>
TakeLock(d) ==
    /\ Goes(d, "lock", "load")
    /\ commandLock[target[d]] = Nobody
    /\ commandLock' = [commandLock EXCEPT ![target[d]] = d]
    /\ UNCHANGED <<target, aggregate, raised, untold, found, broken, refused, store,
                   persistLock, outgoing, faults>>

\* The lock is not obtained in time: a warning, and the dispatch resolves with nothing done.
LockTimesOut(d) ==
    /\ Goes(d, "lock", "commit")
    /\ commandLock[target[d]] # Nobody
    /\ Fault
    /\ broken' = broken \cup {d}
    /\ UNCHANGED <<target, aggregate, raised, untold, found, refused, store, locks, outgoing>>
-----------------------------------------------------------------------------
(* The command *)

\* The history is replayed into an instance; without one there is a new instance.
Load(d) ==
    /\ Goes(d, "load", "run")
    /\ aggregate' = [aggregate EXCEPT ![d] = New(history[target[d]])]
    /\ UNCHANGED <<target, raised, untold, found, broken, refused, store, locks, outgoing, faults>>

RaiseEvent(d) ==
    /\ at[d] = "run" /\ raised[d] < MaxEvents
    /\ raised' = [raised EXCEPT ![d] = @ + 1]
    /\ LET event == <<d, raised[d] + 1>>
       IN  /\ aggregate' = [aggregate EXCEPT ![d].state = Append(@, event),
                                             ![d].newEvents = Append(@, event)]
           /\ untold' = [untold EXCEPT ![d] = Append(@, event)]
    /\ UNCHANGED <<at, target, found, broken, refused, store, locks, outgoing, faults>>

\* The transactional client keeps the batch in the data of the transaction.
Buffered_Emitted(d, events) ==
    /\ emitted' = emitted \cup ToSet(events)
    /\ UNCHANGED <<buffer, sending>>
Buffered(d, events) ==
    /\ buffer' = [buffer EXCEPT ![d] = IF events = <<>> THEN @ ELSE Append(@, events)]
    /\ UNCHANGED <<sending, emitted>>

\* The command itself emits what it raised, persisted or not.
Emit(d) ==
    /\ at[d] = "run" /\ untold[d] # <<>>
    /\ Buffered(d, untold[d])
    /\ untold' = [untold EXCEPT ![d] = <<>>]
    /\ UNCHANGED <<at, target, aggregate, raised, found, broken, refused, store, locks, faults>>

\* persist: a transaction of its own, with nothing to emit, and in it a lock, under which
\* the new events leave the instance and the history is read.
Persist_Unlocked(d) ==
    /\ Goes(d, "run", "save")
    /\ aggregate[d].newEvents # <<>>
    /\ found' = [found EXCEPT ![d] = [history |-> history[target[d]],
                                      events |-> aggregate[d].newEvents]]
    /\ aggregate' = [aggregate EXCEPT ![d].newEvents = <<>>]
    /\ UNCHANGED <<target, raised, untold, broken, refused, store, locks, outgoing, faults>>
Persist(d) ==
    /\ Goes(d, "run", "save")
    /\ aggregate[d].newEvents # <<>>
    /\ persistLock[target[d]] = Nobody
    /\ persistLock' = [persistLock EXCEPT ![target[d]] = d]
    /\ found' = [found EXCEPT ![d] = [history |-> history[target[d]],
                                      events |-> aggregate[d].newEvents]]
    /\ aggregate' = [aggregate EXCEPT ![d].newEvents = <<>>]
    /\ UNCHANGED <<target, raised, untold, broken, refused, store, commandLock, outgoing, faults>>

\* The lock is not obtained in time: a warning, and persist resolves with no events.
PersistTimesOut(d) ==
    /\ at[d] = "run" /\ aggregate[d].newEvents # <<>>
    /\ persistLock[target[d]] # Nobody
    /\ Fault
    /\ broken' = broken \cup {d}
    /\ UNCHANGED <<calls, refused, store, locks, outgoing>>

Unlocked(d) == persistLock' = [persistLock EXCEPT ![target[d]] = Nobody]

\* The whole record is written, with the checkpoint of this instance, and the lock is freed.
Saved(d) == found[d].history \o found[d].events

Save(d) ==
    /\ Goes(d, "save", "run")
    /\ history' = [history EXCEPT ![target[d]] = Saved(d)]
    /\ checkpoint' = [checkpoint EXCEPT ![target[d]] = aggregate[d].state]
    /\ found' = [found EXCEPT ![d] = Nothing]
    /\ Unlocked(d)
    /\ UNCHANGED <<target, aggregate, raised, untold, broken, refused, commandLock, outgoing,
                   faults>>

\* The command fails with it, and the events are neither stored nor in the instance.
SaveFails(d) ==
    /\ Goes(d, "save", "throw")
    /\ Fault
    /\ Unlocked(d)
    /\ found' = [found EXCEPT ![d] = Nothing]
    /\ UNCHANGED <<target, aggregate, raised, untold, broken, refused, store, commandLock,
                   outgoing>>
-----------------------------------------------------------------------------
(* The end of the dispatch *)

CommandUnlocked(d) ==
    commandLock' = IF commandLock[target[d]] = d
                   THEN [commandLock EXCEPT ![target[d]] = Nobody] ELSE commandLock

\* The events that persist gave back and that were not emitted yet.  It takes all there are:
\* what is still new was raised last.
Returned(d) == SubSeq(untold[d], 1, Len(untold[d]) - Len(aggregate[d].newEvents))

\* The events the command returns are emitted inside the transaction: those persist gave
\* back.  The lock is freed before the transaction ends.  A webError goes the same way.
Return(d) ==
    /\ Goes(d, "run", "commit")
    /\ aggregate[d].newEvents = <<>> \/ d \in broken
    /\ Buffered(d, Returned(d))
    /\ untold' = [untold EXCEPT ![d] = <<>>]
    /\ CommandUnlocked(d)
    /\ UNCHANGED <<target, aggregate, raised, found, broken, refused, store, persistLock, faults>>

\* The command throws, or is about to.
Throw(d) ==
    /\ at[d] \in {"run", "throw"} /\ at' = [at EXCEPT ![d] = "commit"]
    /\ broken' = broken \cup {d}
    /\ CommandUnlocked(d)
    /\ UNCHANGED <<target, aggregate, raised, untold, found, refused, store, persistLock,
                   outgoing, faults>>

\* transaction.commit is told in a finally, and nobody waits for its listener.
Commit_ClearsFirst(d) ==
    /\ Goes(d, "commit", "ended")
    /\ buffer' = [buffer EXCEPT ![d] = <<>>]
    /\ UNCHANGED <<target, aggregate, raised, untold, found, broken, refused, store, locks,
                   sending, emitted, faults>>
Commit(d) ==
    /\ Goes(d, "commit", "ended")
    /\ sending' = [sending EXCEPT ![d] = buffer[d]]
    /\ buffer' = [buffer EXCEPT ![d] = <<>>]
    /\ UNCHANGED <<target, aggregate, raised, untold, found, broken, refused, store, locks,
                   emitted, faults>>

EmitNext(d) ==
    /\ sending[d] # <<>>
    /\ emitted' = emitted \cup ToSet(Head(sending[d]))
    /\ sending' = [sending EXCEPT ![d] = Tail(@)]
    /\ UNCHANGED <<calls, broken, refused, store, locks, buffer, faults>>

\* One batch is refused: nobody hears of it, and those behind it are not emitted either.
EmitFails(d) ==
    /\ sending[d] # <<>>
    /\ Fault
    /\ sending' = [sending EXCEPT ![d] = <<>>]
    /\ refused' = refused \cup {d}
    /\ UNCHANGED <<calls, broken, store, locks, buffer, emitted>>
-----------------------------------------------------------------------------
Next == \E d \in Dispatches :
            \/ Dispatch(d) \/ TakeLock(d) \/ LockTimesOut(d)
            \/ Load(d) \/ RaiseEvent(d) \/ Emit(d)
            \/ Persist(d) \/ PersistTimesOut(d) \/ Save(d) \/ SaveFails(d)
            \/ Return(d) \/ Throw(d) \/ Commit(d) \/ EmitNext(d) \/ EmitFails(d)

\* Datastore and delegate answer, and what is awaited goes on.
Fairness == \A d \in Dispatches : /\ WF_vars(Save(d) \/ SaveFails(d))
                                  /\ WF_vars(Commit(d))
                                  /\ WF_vars(EmitNext(d) \/ EmitFails(d))

Spec == Init /\ [][Next]_vars /\ Fairness
-----------------------------------------------------------------------------
Batches == Seq(Seq(Events))
TypeOK ==
    /\ at \in [Dispatches -> {"new", "lock", "load", "run", "save", "throw", "commit", "ended"}]
    /\ target \in [Dispatches -> Aggregates]
    /\ aggregate \in [Dispatches -> [state: Seq(Events), newEvents: Seq(Events)]]
    /\ raised \in [Dispatches -> 0..MaxEvents]
    /\ untold \in [Dispatches -> Seq(Events)]
    /\ found \in [Dispatches -> [history: Seq(Events), events: Seq(Events)]]
    /\ buffer \in [Dispatches -> Batches] /\ sending \in [Dispatches -> Batches]
    /\ broken \subseteq Dispatches /\ refused \subseteq Dispatches
    /\ history \in [Aggregates -> Seq(Events)] /\ checkpoint \in [Aggregates -> Seq(Events)]
    /\ commandLock \in [Aggregates -> Dispatches \cup {Nobody}]
    /\ persistLock \in [Aggregates -> Dispatches \cup {Nobody}]
    /\ emitted \subseteq Events
    /\ faults \in 0..MaxFaults

Stored(e) == Contains(history[target[e[1]]], e)

\* What leaves was written before ("ensures that DB changes are written before the events
\* are sent"), also when a command emits before it persists.  Left out are commands that
\* failed and those that missed a lock.
EmittedIsStored == \A e \in emitted : Stored(e) \/ e[1] \in broken

\* What is stored stays, and in its place, whichever commands write at the same time.
HistoryOnlyGrows ==
    [][\A a \in Aggregates : IsPrefix(history[a], history'[a])]_history

\* Commands that take a lock decide on the whole history: their checkpoint is the state
\* that the stored history replays to.
CheckpointIsReplay == \A a \in Locked : checkpoint[a] = history[a]

\* What a command stored leaves in the end, if the command succeeded and no batch of it
\* was refused.
StoredIsEmitted == \A e \in Events :
    (at[e[1]] = "ended" /\ Stored(e)) ~> (e \in emitted \/ e[1] \in broken \cup refused)

\* What a dispatch that failed had emitted stays inside.
FailedEmitsNothing == \A e \in emitted : e[1] \notin broken
=============================================================================

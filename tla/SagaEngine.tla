----------------------------- MODULE SagaEngine -----------------------------
(***************************************************************************)
(* One registered saga: its subscription lanes (saga/index.ts              *)
(* dispatchSagaEvent), the lookup, start and step functions of             *)
(* saga/handlers.ts, the saga-instance records of the datastore, and the   *)
(* timers it asks the job runner for.  Steps of existing instances go      *)
(* through SagaScheduler, whose tasks are the engine's calls; starts do    *)
(* not.                                                                    *)
(*                                                                         *)
(* Every await that lets another lane, chain or timer run is a separate    *)
(* action.  The saga's handlers are application code: a handler does one   *)
(* of Behaviours.  The saga has one correlation value, which its start     *)
(* handlers store, so every record of the saga matches every event.        *)
(***************************************************************************)
EXTENDS SagaScheduler, Naturals, Sequences, FiniteSets

CONSTANTS Lanes,       \* concurrent subscriptions (hot and cold lane, ...)
          Stream,      \* [Lanes -> Seq(event)]: what each lane is given
          Starts,      \* events registered with startOn
          Handles,     \* events registered with on
          InstanceIds,   \* the instance ids uuid.v4() will return
          Timers,
          Crons,       \* the timers upserted with a crontab; the others fire once
          Behaviours,  \* what an on or onTimer handler may do, see Parameters
          StartBehaviours, \* what a startOn handler may do
          MaxFires,    \* bound: how often one timer of one instance fires
          Absent

Events == Starts \cup Handles

\* A call to the scheduler: an event, or the n-th firing of a timer, for an instance.
Calls == [inst: InstanceIds, of: Events, n: {1}] \cup [inst: InstanceIds, of: Timers, n: 1..MaxFires]

Records == [events: SUBSET Events, activeTimers: SUBSET Timers,
            ended: BOOLEAN, preserve: BOOLEAN]

\* The scheduler's tasks are these calls, and its instances are theirs.
Parameters ==
    /\ Tasks = Calls /\ InstanceOf = [c \in Calls |-> c.inst]
    /\ Stream \in [Lanes -> Seq(Events)]
    /\ Events \cap Timers = {} /\ Crons \subseteq Timers /\ MaxFires \in Nat
    /\ Absent \notin InstanceIds \cup Records
    /\ Behaviours \cup StartBehaviours \subseteq [throws: BOOLEAN, add: SUBSET Timers, remove: SUBSET Timers,
                                               end: {"no", "delete", "preserve"}]

VARIABLES store,   \* [InstanceIds -> record or Absent]: the saga-instance table
          used,    \* instance ids handed out
          armed,   \* schedules the job runner holds: subset of InstanceIds \X Timers
          fires,   \* [InstanceIds \X Timers -> 0..MaxFires]
          lane,    \* [Lanes -> where the lane's dispatchSagaEvent call is]
          body     \* [Calls -> where the call's sagaHandleEvent / handleTimerEvent is]

engineVars == <<store, used, armed, fires, lane, body, vars>>

NoBody == [at |-> "none", rec |-> Absent]
IdleLane(next) == [at |-> "idle", next |-> next, matches |-> {}, inst |-> Absent, rec |-> Absent]

EngineInit == /\ store = [i \in InstanceIds |-> Absent]
              /\ used = {}
              /\ armed = {}
              /\ fires = [x \in InstanceIds \X Timers |-> 0]
              /\ lane = [l \in Lanes |-> IdleLane(1)]
              /\ body = [c \in Calls |-> NoBody]
              /\ Init
-----------------------------------------------------------------------------
\* The record content after a handler did b: endSaga, and the bookkeeping half
\* of processTimersInSagaInstance (every add first, then every remove).
Applied(rec, b) ==
    [rec EXCEPT !.activeTimers = (@ \cup b.add) \ b.remove,
                !.ended = @ \/ b.end # "no",
                !.preserve = IF b.end = "no" THEN @ ELSE b.end = "preserve"]

\* The scheduling half of processTimersInSagaInstance.
Scheduled(schedules, i, b) == (schedules \cup ({i} \X b.add)) \ ({i} \X b.remove)

\* removeAllTimersForInstance and deleteEntity, for a record that was just stored.
HandleSagaInstanceEnd_KeepTimers(i, rec) ==
    /\ store' = IF rec.ended /\ ~rec.preserve THEN [store EXCEPT ![i] = Absent] ELSE store
    /\ UNCHANGED armed
HandleSagaInstanceEnd(i, rec) ==
    /\ armed' = IF rec.ended /\ store[i] # Absent
                THEN armed \ ({i} \X rec.activeTimers) ELSE armed
    /\ store' = IF rec.ended /\ ~rec.preserve THEN [store EXCEPT ![i] = Absent] ELSE store
-----------------------------------------------------------------------------
(* dispatchSagaEvent: a lane handles its events one after the other. *)

CurrentEvent(l) == Stream[l][lane[l].next]
CallFor(l, i) == [inst |-> i, of |-> CurrentEvent(l), n |-> 1]
NextEvent(l) == lane' = [lane EXCEPT ![l] = IdleLane(@.next + 1)]

\* checkSagaEventHandlers' query, or straight to startSagaInstance.
Dispatch(l) ==
    /\ lane[l].at = "idle" /\ lane[l].next <= Len(Stream[l])
    /\ LET found == IF CurrentEvent(l) \in Handles
                    THEN {i \in InstanceIds : store[i] # Absent} ELSE {}
       IN  IF found = {} /\ CurrentEvent(l) \notin Starts
           THEN NextEvent(l)
           ELSE lane' = [lane EXCEPT ![l].at = IF found = {} THEN "start" ELSE "loop",
                                     ![l].matches = found]
    /\ UNCHANGED <<store, used, armed, fires, body, vars>>

\* One turn of the loop over the instances found: hand the event to the scheduler...
HandOver(l) ==
    /\ lane[l].at = "loop"
    /\ \E i \in lane[l].matches :
          /\ Enqueue(CallFor(l, i))
          /\ lane' = [lane EXCEPT ![l].at = "await", ![l].inst = i]
    /\ UNCHANGED <<store, used, armed, fires, body>>

Settle_OkOnly(l) ==
    /\ lane[l].at = "await"
    /\ stage[CallFor(l, lane[l].inst)] = "settled" /\ outcome[CallFor(l, lane[l].inst)] = Ok
    /\ NextEvent(l)
    /\ UNCHANGED <<store, used, armed, fires, body, vars>>

\* ... and await its chain.  A rejection leaves the loop for saga.errorHandler,
\* which ends the event for the instances not yet reached.
Settle(l) ==
    /\ lane[l].at = "await"
    /\ LET call == CallFor(l, lane[l].inst)
           rest == lane[l].matches \ {lane[l].inst}
       IN  /\ stage[call] = "settled"
           /\ IF outcome[call] # Ok \/ rest = {} THEN NextEvent(l)
              ELSE lane' = [lane EXCEPT ![l].at = "loop", ![l].matches = rest,
                                        ![l].inst = Absent]
    /\ UNCHANGED <<store, used, armed, fires, body, vars>>

\* startSagaInstance: the handler runs on an instance that has no record yet, and its
\* timers are scheduled.
StartHandler(l, i, b) ==
    /\ lane[l].at = "start" /\ i \notin used
    /\ IF b.throws
       THEN NextEvent(l) /\ UNCHANGED armed
       ELSE /\ lane' = [lane EXCEPT ![l].at = "create", ![l].inst = i,
                           ![l].rec = Applied([events |-> {CurrentEvent(l)}, activeTimers |-> {},
                                               ended |-> FALSE, preserve |-> FALSE], b)]
            /\ armed' = Scheduled(armed, i, b)
    /\ used' = used \cup {i}
    /\ UNCHANGED <<store, fires, body, vars>>

\* config.matches rejected the event.
StartRefused(l) ==
    /\ lane[l].at = "start"
    /\ NextEvent(l)
    /\ UNCHANGED <<store, used, armed, fires, body, vars>>

\* createEntity.
StartCreate(l) ==
    /\ lane[l].at = "create"
    /\ store' = [store EXCEPT ![lane[l].inst] = lane[l].rec]
    /\ lane' = [lane EXCEPT ![l].at = "end"]
    /\ UNCHANGED <<used, armed, fires, body, vars>>

StartEnd(l) ==
    /\ lane[l].at = "end"
    /\ HandleSagaInstanceEnd(lane[l].inst, lane[l].rec)
    /\ NextEvent(l)
    /\ UNCHANGED <<used, fires, body, vars>>
-----------------------------------------------------------------------------
(* sagaHandleEvent and handleTimerEvent, as tasks of the scheduler. *)

\* The job runner calls the timer's listener, which hands over to the scheduler.
\* A simple timer is gone once it has fired, a cron stays.
Fire(i, tm) ==
    /\ <<i, tm>> \in armed /\ fires[<<i, tm>>] < MaxFires
    /\ fires' = [fires EXCEPT ![<<i, tm>>] = @ + 1]
    /\ armed' = IF tm \in Crons THEN armed ELSE armed \ {<<i, tm>>}
    /\ Enqueue([inst |-> i, of |-> tm, n |-> fires[<<i, tm>>] + 1])
    /\ UNCHANGED <<store, used, lane, body>>

\* The chain reaches the call; both functions begin by reading the record.
Begin(c) ==
    /\ Run(c)
    /\ body' = [body EXCEPT ![c] = [at |-> "handle", rec |-> store[c.inst]]]
    /\ UNCHANGED <<store, used, armed, fires, lane>>

\* No record: handleTimerEvent returns, sagaHandleEvent throws on currentInstance[0].
Missing(c) ==
    /\ body[c].at = "handle" /\ body[c].rec = Absent
    /\ Finish(c, IF c.of \in Timers THEN Ok ELSE c)
    /\ body' = [body EXCEPT ![c] = NoBody]
    /\ UNCHANGED <<store, used, armed, fires, lane>>

Throw(c, b) ==
    /\ body[c].at = "handle" /\ body[c].rec # Absent /\ b.throws
    /\ Finish(c, c)
    /\ body' = [body EXCEPT ![c] = NoBody]
    /\ UNCHANGED <<store, used, armed, fires, lane>>

\* What a step does to the record before the handler's own timer changes: an event is
\* pushed, a simple timer that fired is no longer active.
Received(rec, what) ==
    IF what \in Timers
    THEN [rec EXCEPT !.activeTimers = IF what \in Crons THEN @ ELSE @ \ {what}]
    ELSE [rec EXCEPT !.events = @ \cup {what}]

\* The schedule handleTimerEvent removes when its simple timer was active.
Spent(c) == IF c.of \in body[c].rec.activeTimers \ Crons THEN {<<c.inst, c.of>>} ELSE {}

\* The handler succeeds, and processTimersInSagaInstance runs.
Handle(c, b) ==
    /\ body[c].at = "handle" /\ body[c].rec # Absent /\ ~b.throws
    /\ body' = [body EXCEPT ![c] = [at |-> "save", rec |-> Applied(Received(@.rec, c.of), b)]]
    /\ armed' = Scheduled(armed \ Spent(c), c.inst, b)
    /\ UNCHANGED <<store, used, fires, lane, vars>>

\* saveEntity writes the whole record.
Save(c) ==
    /\ body[c].at = "save"
    /\ store' = [store EXCEPT ![c.inst] = body[c].rec]
    /\ body' = [body EXCEPT ![c].at = "end"]
    /\ UNCHANGED <<used, armed, fires, lane, vars>>

End(c) ==
    /\ body[c].at = "end"
    /\ HandleSagaInstanceEnd(c.inst, body[c].rec)
    /\ Finish(c, Ok)
    /\ body' = [body EXCEPT ![c] = NoBody]
    /\ UNCHANGED <<used, fires, lane>>

\* The rest of the promise chain.
Microtask(c) ==
    /\ Skip(c) \/ Cleanup(c)
    /\ UNCHANGED <<store, used, armed, fires, lane, body>>

LaneStep(l) == \/ Dispatch(l) \/ HandOver(l) \/ Settle(l)
               \/ \E i \in InstanceIds, b \in StartBehaviours : StartHandler(l, i, b)
               \/ StartRefused(l) \/ StartCreate(l) \/ StartEnd(l)

CallStep(c) == \/ Begin(c) \/ Missing(c)
               \/ \E b \in Behaviours : Throw(c, b) \/ Handle(c, b)
               \/ Save(c) \/ End(c) \/ Microtask(c)

EngineNext == \/ \E l \in Lanes : LaneStep(l)
              \/ \E c \in Calls : CallStep(c)
              \/ \E i \in InstanceIds, tm \in Timers : Fire(i, tm)

EngineFairness == /\ \A l \in Lanes : WF_engineVars(LaneStep(l))
                  /\ \A c \in Calls : WF_engineVars(CallStep(c))
                  /\ \A i \in InstanceIds, tm \in Timers : WF_engineVars(Fire(i, tm))

EngineSpec == EngineInit /\ [][EngineNext]_engineVars /\ EngineFairness
-----------------------------------------------------------------------------
Working(i) == \/ \E c \in Calls : c.inst = i /\ body[c] # NoBody
              \/ \E l \in Lanes : lane[l].inst = i /\ lane[l].at \in {"create", "end"}

EngineTypeOK == /\ store \in [InstanceIds -> Records \cup {Absent}]
                /\ used \subseteq InstanceIds
                /\ armed \subseteq InstanceIds \X Timers
                /\ fires \in [InstanceIds \X Timers -> 0..MaxFires]
                /\ \A l \in Lanes : lane[l].next \in 1..Len(Stream[l]) + 1
                /\ \A c \in Calls : body[c].at # "none" <=> stage[c] = "running"

\* Steps of one instance are read-modify-write on its record with awaits in between, yet
\* none is lost: an event whose step was reported successful is in the record.
NoLostUpdate == \A c \in Calls :
    stage[c] = "settled" /\ outcome[c] = Ok /\ c.of \in Events /\ store[c.inst] # Absent
        => c.of \in store[c.inst].events

\* A record that endSaga deleted never comes back: only startSagaInstance makes one.
NoResurrection == [][\A i \in InstanceIds : store[i] = Absent /\ store'[i] # Absent
                        => \E l \in Lanes : lane[l].at = "create" /\ lane[l].inst = i]_engineVars

\* A schedule the runner holds is known to the record, so ending the saga removes it;
\* an instance that is gone has none.
NoOrphanTimer == \A i \in used : ~Working(i) =>
    {tm \in Timers : <<i, tm>> \in armed}
        \subseteq (IF store[i] = Absent THEN {} ELSE store[i].activeTimers)

\* What saga/index.ts says of endSaga: the saga receives no more events or timers.
EndedIsFinal == \A c \in Calls :
    body[c].at = "handle" /\ body[c].rec # Absent => ~body[c].rec.ended

\* A simple timer a record counts as active will call its handler.
ActiveTimerFires == \A i \in used, tm \in Timers \ Crons :
    ~Working(i) /\ store[i] # Absent /\ ~store[i].ended /\ tm \in store[i].activeTimers
       => \/ <<i, tm>> \in armed
          \/ \E c \in Calls : c.inst = i /\ c.of = tm /\ stage[c] \notin {"idle", "settled"}

\* Every lane gets through its stream.
EventsAreConsumed == <>(\A l \in Lanes : lane[l].next > Len(Stream[l]))
=============================================================================

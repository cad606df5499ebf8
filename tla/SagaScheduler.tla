--------------------------- MODULE SagaScheduler ----------------------------
(***************************************************************************)
(* DefaultSagaScheduler (src/src/events/saga/saga-scheduler.ts): one chain *)
(* of promises per saga instance.  A task is one sagaHandleEvent or one    *)
(* handleTimer call; callers (stream lanes, timers) enqueue concurrently.  *)
(*                                                                         *)
(* The chain of a task is                                                  *)
(*     existingChain.then(task).catch(rethrow).finally(cleanup)            *)
(* and each of its hops is a microtask, so other callers run in between:   *)
(*   queued   existingChain has not settled, or its reaction has not run   *)
(*   running  the task's body has started                                  *)
(*   closing  then/catch have settled with an outcome, finally has not run *)
(*   settled  finally has run; the chain carries the outcome               *)
(***************************************************************************)
CONSTANTS Tasks,        \* the calls made to the scheduler
          InstanceOf,   \* [Tasks -> instance]: the instanceId of the call
          NoTask,       \* an absent map entry, Promise.resolve(), no outcome yet
          Ok            \* the outcome of a chain that resolved

ASSUME OutcomesAssumption == NoTask \notin Tasks /\ Ok \notin Tasks /\ Ok # NoTask

Instances == {InstanceOf[t] : t \in Tasks}

VARIABLES instanceQueues,  \* the map: instance -> last chain, named by its task
          existingChain,   \* the chain a task's own chain is appended to
          stage,
          outcome,         \* NoTask, Ok, or the task whose error rejects the chain
          ahead            \* history: unsettled tasks of the instance when enqueued

vars == <<instanceQueues, existingChain, stage, outcome, ahead>>

Stages == {"idle", "queued", "running", "closing", "settled"}

Unsettled == {t \in Tasks : stage[t] \in {"queued", "running", "closing"}}
Settled   == {t \in Tasks : stage[t] = "settled"}
Siblings(t) == {u \in Tasks : InstanceOf[u] = InstanceOf[t]}

Init == /\ instanceQueues = [i \in Instances |-> NoTask]
        /\ existingChain  = [t \in Tasks |-> NoTask]
        /\ stage   = [t \in Tasks |-> "idle"]
        /\ outcome = [t \in Tasks |-> NoTask]
        /\ ahead   = [t \in Tasks |-> {}]
-----------------------------------------------------------------------------
\* enqueue, up to its return: synchronous, so one step.
Enqueue(t) ==
    /\ stage[t] = "idle"
    /\ existingChain' = [existingChain EXCEPT ![t] = instanceQueues[InstanceOf[t]]]
    /\ instanceQueues' = [instanceQueues EXCEPT ![InstanceOf[t]] = t]
    /\ stage' = [stage EXCEPT ![t] = "queued"]
    /\ ahead' = [ahead EXCEPT ![t] = Siblings(t) \cap Unsettled]
    /\ UNCHANGED outcome

\* existingChain has settled; Promise.resolve() is settled from the start.
PreviousSettled_NotAwaited(t) == TRUE
PreviousSettled(t) == existingChain[t] # NoTask => existingChain[t] \in Settled

\* .then(task) propagates a rejection of existingChain without calling task.
PreviousRejected_Ignored(t) == FALSE
PreviousRejected(t) ==
    existingChain[t] # NoTask /\ outcome[existingChain[t]] # Ok

\* The task's body is called.
Run(t) ==
    /\ stage[t] = "queued"
    /\ PreviousSettled(t)
    /\ ~PreviousRejected(t)
    /\ stage' = [stage EXCEPT ![t] = "running"]
    /\ UNCHANGED <<instanceQueues, existingChain, outcome, ahead>>

\* The body is skipped, and the chain rejects with the earlier task's error.
Skip(t) ==
    /\ stage[t] = "queued"
    /\ PreviousSettled(t)
    /\ PreviousRejected(t)
    /\ stage' = [stage EXCEPT ![t] = "closing"]
    /\ outcome' = [outcome EXCEPT ![t] = outcome[existingChain[t]]]
    /\ UNCHANGED <<instanceQueues, existingChain, ahead>>

\* The body's promise resolves, or rejects with the task's own error.
Finish(t, result) ==
    /\ stage[t] = "running"
    /\ stage' = [stage EXCEPT ![t] = "closing"]
    /\ outcome' = [outcome EXCEPT ![t] = result]
    /\ UNCHANGED <<instanceQueues, existingChain, ahead>>

\* The entry the finally callback deletes: only while it is still this chain.
ForgetChain_Unconditional(t) ==
    instanceQueues' = [instanceQueues EXCEPT ![InstanceOf[t]] = NoTask]
ForgetChain(t) ==
    instanceQueues' = IF instanceQueues[InstanceOf[t]] = t
                      THEN [instanceQueues EXCEPT ![InstanceOf[t]] = NoTask]
                      ELSE instanceQueues

Cleanup_NeverOnError(t) ==
    /\ stage[t] = "closing"
    /\ outcome[t] = Ok
    /\ ForgetChain(t)
    /\ stage' = [stage EXCEPT ![t] = "settled"]
    /\ UNCHANGED <<existingChain, outcome, ahead>>
Cleanup(t) ==
    /\ stage[t] = "closing"
    /\ ForgetChain(t)
    /\ stage' = [stage EXCEPT ![t] = "settled"]
    /\ UNCHANGED <<existingChain, outcome, ahead>>

Next == \E t \in Tasks : \/ Enqueue(t)
                         \/ Run(t)
                         \/ Skip(t)
                         \/ \E result \in {Ok, t} : Finish(t, result)
                         \/ Cleanup(t)

\* The microtask queue is drained (Run, Skip, Cleanup), and every handler's
\* promise settles (Finish); callers need not call.
Progress(t) == \/ Run(t) \/ Skip(t) \/ Cleanup(t)
               \/ \E result \in {Ok, t} : Finish(t, result)

Fairness == \A t \in Tasks : WF_vars(Progress(t))

Spec == Init /\ [][Next]_vars /\ Fairness
-----------------------------------------------------------------------------
TypeOK == /\ instanceQueues \in [Instances -> Tasks \cup {NoTask}]
          /\ existingChain \in [Tasks -> Tasks \cup {NoTask}]
          /\ stage \in [Tasks -> Stages]
          /\ outcome \in [Tasks -> Tasks \cup {NoTask, Ok}]
          /\ ahead \in [Tasks -> SUBSET Tasks]

\* Serialization: an event handler and a timer handler of one instance never
\* run at the same time, whoever enqueued them.  (saga-scheduler.ts 13-17.)
Serialized == \A t \in Tasks : \A u \in Siblings(t) :
                 stage[t] = "running" /\ stage[u] = "running" => t = u

\* Order: a task's body starts only after everything that was enqueued for its
\* instance before it has settled.
InOrder == \A t \in Tasks : stage[t] \in {"running", "closing", "settled"}
                               => ahead[t] \subseteq Settled

\* The map holds an instance exactly while one of its chains is unsettled, and
\* then holds the last one: nothing leaks, and no caller chains on a stale tail.
TailIsLast ==
    \A i \in Instances :
      LET open == {t \in Unsettled : InstanceOf[t] = i}
          tail == instanceQueues[i]
      IN  IF tail = NoTask THEN open = {}
          ELSE tail \in open /\ open \ {tail} \subseteq ahead[tail]

\* Every call settles.
EverythingSettles == \A t \in Tasks : stage[t] = "queued" ~> stage[t] = "settled"

\* What the documentation says of the scheduler: the events and timers of an
\* instance are processed in order, so a call that settled ran its own handler
\* and reports its own result.  The code skips a handler after a failure.
EveryTaskRuns == \A t \in Settled : outcome[t] \in {Ok, t}

\* The chains implement the serial executor; a chain counts as finished when
\* its finally callback has run.
PhaseOf(t) ==
    CASE stage[t] = "idle"    -> "new"
      [] stage[t] = "queued"  -> "waiting"
      [] stage[t] = "running" -> "active"
      [] stage[t] = "closing" -> IF outcome[t] \in {Ok, t} THEN "active" ELSE "waiting"
      [] stage[t] = "settled" -> IF outcome[t] = Ok THEN "done"
                                 ELSE IF outcome[t] = t THEN "failed" ELSE "dropped"

Abstract == INSTANCE SerialExecutor WITH phase <- [t \in Tasks |-> PhaseOf(t)],
                                         before <- ahead

\* The scheduler implements SerialExecutor, its liveness included.
ImplementsSerialExecutor == Abstract!Spec
=============================================================================

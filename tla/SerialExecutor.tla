--------------------------- MODULE SerialExecutor ---------------------------
(***************************************************************************)
(* What the saga scheduler promises a saga, without its promise chains:    *)
(* the tasks of one saga instance (events and timers) run one at a time,   *)
(* in the order they were handed over.  A task that was handed over while  *)
(* an earlier task of the same instance was unfinished, and that earlier   *)
(* task did not complete, is dropped: it is finished without having run.   *)
(* The dropping is what the code does, not what its documentation says     *)
(* (see EveryTaskRuns in SagaScheduler).                                   *)
(***************************************************************************)
CONSTANTS Tasks, InstanceOf

VARIABLES phase,   \* [Tasks -> Phases]
          before   \* the tasks of the instance unfinished when a task was submitted

vars == <<phase, before>>

Phases   == {"new", "waiting", "active", "done", "failed", "dropped"}
Finished == {"done", "failed", "dropped"}

Init == /\ phase = [t \in Tasks |-> "new"]
        /\ before = [t \in Tasks |-> {}]

Submit(t) ==
    /\ phase[t] = "new"
    /\ phase' = [phase EXCEPT ![t] = "waiting"]
    /\ before' = [before EXCEPT ![t] =
                    {u \in Tasks : /\ InstanceOf[u] = InstanceOf[t]
                                   /\ phase[u] \in {"waiting", "active"}}]

Begin(t) ==
    /\ phase[t] = "waiting"
    /\ \A u \in before[t] : phase[u] = "done"
    /\ phase' = [phase EXCEPT ![t] = "active"]
    /\ UNCHANGED before

End(t) ==
    /\ phase[t] = "active"
    /\ \E p \in {"done", "failed"} : phase' = [phase EXCEPT ![t] = p]
    /\ UNCHANGED before

Drop(t) ==
    /\ phase[t] = "waiting"
    /\ \A u \in before[t] : phase[u] \in Finished
    /\ \E u \in before[t] : phase[u] # "done"
    /\ phase' = [phase EXCEPT ![t] = "dropped"]
    /\ UNCHANGED before

Next == \E t \in Tasks : Submit(t) \/ Begin(t) \/ End(t) \/ Drop(t)

Spec == /\ Init /\ [][Next]_vars
        /\ \A t \in Tasks : WF_vars(Begin(t) \/ End(t) \/ Drop(t))
=============================================================================

----------------------------- MODULE SagaProofs -----------------------------
(***************************************************************************)
(* The safety of SagaScheduler for every set of calls and every assignment *)
(* of calls to instances, that its steps are steps of SerialExecutor, and, *)
(* for the engine whose calls it orders, that no update of an instance is  *)
(* lost and that no schedule and no record outlives the end of its saga.   *)
(***************************************************************************)
EXTENDS SagaEngine, TLAPS

\* A chain is appended to the last unsettled chain of its instance, and that
\* one waits for every other chain that was unsettled.
ChainCoversAhead ==
    \A t \in Tasks :
       /\ stage[t] # "idle" /\ existingChain[t] = NoTask => ahead[t] = {}
       /\ stage[t] # "idle" /\ existingChain[t] # NoTask =>
             /\ existingChain[t] \in ahead[t]
             /\ ahead[t] \ {existingChain[t]} \subseteq ahead[existingChain[t]]

\* Only enqueued calls of the same instance are ahead of a call.
AheadAreSiblings ==
    \A t \in Tasks : /\ ahead[t] \subseteq Siblings(t)
                     /\ \A u \in ahead[t] : stage[u] # "idle"

\* Of two unsettled calls of an instance one was enqueued first.
TotalOrder == \A t \in Unsettled : \A u \in Siblings(t) \cap Unsettled :
                 t = u \/ t \in ahead[u] \/ u \in ahead[t]

\* A body runs only if everything ahead of it succeeded; a call is skipped
\* only if something ahead of it did not.
OutcomeOfChain ==
    \A t \in Tasks :
       /\ stage[t] \in {"idle", "queued", "running"} => outcome[t] = NoTask
       /\ stage[t] \in {"closing", "settled"} => outcome[t] # NoTask
       /\ stage[t] = "running" => \A u \in ahead[t] : outcome[u] = Ok
       /\ outcome[t] \in {Ok, t} => \A u \in ahead[t] : outcome[u] = Ok
       /\ outcome[t] \notin {NoTask, Ok, t} =>
             \E u \in ahead[t] : outcome[u] # Ok

\* The error a chain rejects with was thrown by the body of a sibling.
ErrorsAreGenuine ==
    \A t \in Tasks : outcome[t] \in Tasks =>
       outcome[t] \in Siblings(t) /\ outcome[outcome[t]] = outcome[t]

IInv == /\ TypeOK
        /\ TailIsLast
        /\ ChainCoversAhead
        /\ AheadAreSiblings
        /\ TotalOrder
        /\ InOrder
        /\ OutcomeOfChain
        /\ ErrorsAreGenuine
-----------------------------------------------------------------------------
\* A step keeps the types.
LEMMA TypeStep == TypeOK /\ [Next]_vars => TypeOK'
<1> USE DEF TypeOK, Instances
<1> SUFFICES ASSUME TypeOK, [Next]_vars PROVE TypeOK'
  OBVIOUS
<1>1. ASSUME NEW t \in Tasks, Enqueue(t) PROVE TypeOK'
  BY <1>1 DEF Enqueue, Stages, Siblings, Unsettled
<1>2. ASSUME NEW t \in Tasks, Run(t) PROVE TypeOK'
  BY <1>2 DEF Run, Stages
<1>3. ASSUME NEW t \in Tasks, Skip(t) PROVE TypeOK'
  BY <1>3 DEF Skip, PreviousRejected, Stages
<1>4. ASSUME NEW t \in Tasks, NEW result \in {Ok, t}, Finish(t, result) PROVE TypeOK'
  BY <1>4 DEF Finish, Stages
<1>5. ASSUME NEW t \in Tasks, Cleanup(t) PROVE TypeOK'
  BY <1>5 DEF Cleanup, ForgetChain, Stages
<1>6. CASE UNCHANGED vars
  BY <1>6 DEF vars
<1>7. QED
  BY <1>1, <1>2, <1>3, <1>4, <1>5, <1>6 DEF Next

\* The variables keep their types.
THEOREM TypeCorrect == Spec => []TypeOK
<1>1. Init => TypeOK
  BY DEF Init, TypeOK, Instances, Stages
<1>2. QED
  BY <1>1, TypeStep, PTL DEF Spec
-----------------------------------------------------------------------------
\* With no call made, there is no chain.
LEMMA InitIInv == Init => IInv
<1> SUFFICES ASSUME Init PROVE IInv
  OBVIOUS
<1> USE DEF Init
<1>1. Unsettled = {}
  BY DEF Unsettled
<1>2. TypeOK
  BY DEF TypeOK, Stages, Instances
<1>3. TailIsLast /\ TotalOrder
  BY <1>1 DEF TailIsLast, TotalOrder, Instances
<1>4. ChainCoversAhead /\ AheadAreSiblings /\ InOrder
  BY DEF ChainCoversAhead, AheadAreSiblings, InOrder
<1>5. OutcomeOfChain /\ ErrorsAreGenuine
  BY OutcomesAssumption DEF OutcomeOfChain, ErrorsAreGenuine
<1>6. QED
  BY <1>2, <1>3, <1>4, <1>5 DEF IInv

\* Enqueueing makes the call the tail, behind every unsettled call of its instance.
LEMMA EnqueueKeepsIInv == ASSUME IInv, TypeOK', NEW t \in Tasks, Enqueue(t) PROVE IInv'
<1> USE DEF IInv, Enqueue, TypeOK, Instances, Stages
<1>1. Unsettled' = Unsettled \cup {t} /\ Settled' = Settled
  BY DEF Unsettled, Settled
<1>2. /\ ahead'[t] = Siblings(t) \cap Unsettled
      /\ \A u \in Tasks \ {t} : /\ ahead'[u] = ahead[u]
                                /\ existingChain'[u] = existingChain[u]
                                /\ stage'[u] = stage[u]
      /\ existingChain'[t] = instanceQueues[InstanceOf[t]]
      /\ stage'[t] = "queued" /\ stage[t] = "idle"
      /\ t \notin Unsettled
  BY DEF Unsettled
<1>3. TailIsLast'
  BY <1>1, <1>2, OutcomesAssumption DEF TailIsLast, Siblings, Unsettled
<1>4. ChainCoversAhead'
  <2>1. instanceQueues[InstanceOf[t]] = NoTask => Siblings(t) \cap Unsettled = {}
    BY DEF TailIsLast, Siblings, Unsettled
  <2>2. instanceQueues[InstanceOf[t]] # NoTask =>
          /\ instanceQueues[InstanceOf[t]] \in Siblings(t) \cap Unsettled
          /\ (Siblings(t) \cap Unsettled) \ {instanceQueues[InstanceOf[t]]}
               \subseteq ahead[instanceQueues[InstanceOf[t]]]
    BY DEF TailIsLast, Siblings, Unsettled
  <2>3. \A u \in Tasks : t \notin ahead[u]
    BY <1>2 DEF AheadAreSiblings
  <2>4. SUFFICES ASSUME NEW u \in Tasks
                 PROVE  /\ stage'[u] # "idle" /\ existingChain'[u] = NoTask => ahead'[u] = {}
                        /\ stage'[u] # "idle" /\ existingChain'[u] # NoTask =>
                              /\ existingChain'[u] \in ahead'[u]
                              /\ ahead'[u] \ {existingChain'[u]} \subseteq ahead'[existingChain'[u]]
    BY DEF ChainCoversAhead
  <2>5. CASE u = t
    BY <1>2, <2>1, <2>2, <2>5 DEF Unsettled
  <2>6. CASE u # t
    <3>1. /\ ahead'[u] = ahead[u] /\ existingChain'[u] = existingChain[u] /\ stage'[u] = stage[u]
      BY <1>2, <2>6
    <3>2. existingChain[u] \in ahead[u] =>
             existingChain[u] \in Tasks /\ ahead'[existingChain[u]] = ahead[existingChain[u]]
      BY <1>2, <2>3
    <3>3. QED
      BY <3>1, <3>2 DEF ChainCoversAhead
  <2>7. QED
    BY <2>5, <2>6
<1>5. AheadAreSiblings'
  BY <1>2 DEF AheadAreSiblings, Siblings, Unsettled
<1>6. TotalOrder'
  <2> SUFFICES ASSUME NEW u \in Unsettled', NEW v \in Siblings(u) \cap Unsettled', u # v
               PROVE  u \in ahead'[v] \/ v \in ahead'[u]
    BY DEF TotalOrder, Siblings
  <2>1. u \in Tasks /\ v \in Tasks /\ InstanceOf[u] = InstanceOf[v]
    BY DEF Unsettled, Siblings
  <2>2. CASE u = t
    BY <1>1, <1>2, <2>1, <2>2 DEF Siblings
  <2>3. CASE v = t
    BY <1>1, <1>2, <2>1, <2>3 DEF Siblings
  <2>4. CASE u # t /\ v # t
    BY <1>1, <1>2, <2>1, <2>4 DEF TotalOrder, Siblings
  <2>5. QED
    BY <2>2, <2>3, <2>4
<1>7. InOrder'
  BY <1>1, <1>2 DEF InOrder
<1>8. OutcomeOfChain'
  BY <1>2, OutcomesAssumption DEF OutcomeOfChain
<1>9. ErrorsAreGenuine'
  BY DEF ErrorsAreGenuine, Siblings
<1> QED
  BY <1>3, <1>4, <1>5, <1>6, <1>7, <1>8, <1>9

\* A body starts once everything ahead of it has settled with success.
LEMMA RunKeepsIInv == ASSUME IInv, TypeOK', NEW t \in Tasks, Run(t) PROVE IInv'
<1> USE DEF IInv, Run, TypeOK, Stages
<1>1. Unsettled' = Unsettled /\ Settled' = Settled
  BY DEF Unsettled, Settled
<1>2. /\ \A u \in Tasks \ {t} : stage'[u] = stage[u]
      /\ stage[t] = "queued" /\ stage'[t] = "running"
      /\ ahead' = ahead /\ existingChain' = existingChain /\ outcome' = outcome
      /\ instanceQueues' = instanceQueues
  OBVIOUS
<1>3. /\ ahead[t] \subseteq Settled
      /\ \A u \in ahead[t] : outcome[u] = Ok
  <2>1. CASE existingChain[t] = NoTask
    BY <2>1, <1>2 DEF ChainCoversAhead
  <2>2. CASE existingChain[t] # NoTask
    <3>1. /\ existingChain[t] \in Settled /\ outcome[existingChain[t]] = Ok
      BY <2>2 DEF PreviousSettled, PreviousRejected
    <3>2. /\ ahead[existingChain[t]] \subseteq Settled
          /\ \A u \in ahead[existingChain[t]] : outcome[u] = Ok
      BY <3>1 DEF InOrder, OutcomeOfChain, Settled
    <3>3. ahead[t] \subseteq {existingChain[t]} \cup ahead[existingChain[t]]
      BY <2>2, <1>2 DEF ChainCoversAhead
    <3>4. QED
      BY <3>1, <3>2, <3>3
  <2>3. QED
    BY <2>1, <2>2
<1>4. TailIsLast' /\ TotalOrder'
  BY <1>1, <1>2 DEF TailIsLast, TotalOrder, Siblings
<1>5. ChainCoversAhead' /\ AheadAreSiblings'
  BY <1>2 DEF ChainCoversAhead, AheadAreSiblings, Siblings
<1>6. InOrder'
  BY <1>1, <1>2, <1>3 DEF InOrder
<1>7. OutcomeOfChain' /\ ErrorsAreGenuine'
  BY <1>2, <1>3 DEF OutcomeOfChain, ErrorsAreGenuine, Siblings
<1>8. QED
  BY <1>4, <1>5, <1>6, <1>7

\* A skipped call takes over a failure from ahead of it.
LEMMA SkipKeepsIInv == ASSUME IInv, TypeOK', NEW t \in Tasks, Skip(t) PROVE IInv'
<1> USE DEF IInv, Skip, TypeOK, Stages
<1> DEFINE p == existingChain[t]
<1>1. Unsettled' = Unsettled /\ Settled' = Settled
  BY DEF Unsettled, Settled
<1>2. /\ \A u \in Tasks \ {t} : stage'[u] = stage[u] /\ outcome'[u] = outcome[u]
      /\ stage[t] = "queued" /\ stage'[t] = "closing" /\ outcome'[t] = outcome[p]
      /\ ahead' = ahead /\ existingChain' = existingChain
      /\ instanceQueues' = instanceQueues
  OBVIOUS
<1>3. /\ p # NoTask /\ p \in Settled /\ p \in Tasks /\ outcome[p] # Ok
      /\ p \in ahead[t] /\ ahead[t] \subseteq {p} \cup ahead[p]
  BY <1>2 DEF PreviousSettled, PreviousRejected, ChainCoversAhead, Settled
<1>4. ahead[t] \subseteq Settled
  BY <1>3 DEF InOrder, Settled
<1>5. t \notin Settled /\ p # t
  BY <1>2, <1>3 DEF Settled
<1>6. outcome[t] = NoTask /\ outcome[p] \in Tasks /\ outcome[p] # t
  BY <1>2, <1>3, OutcomesAssumption DEF OutcomeOfChain, ErrorsAreGenuine, Settled
<1>7. TailIsLast' /\ TotalOrder'
  BY <1>1, <1>2 DEF TailIsLast, TotalOrder, Siblings
<1>8. ChainCoversAhead' /\ AheadAreSiblings'
  BY <1>2 DEF ChainCoversAhead, AheadAreSiblings, Siblings
<1>9. InOrder'
  BY <1>1, <1>2, <1>4 DEF InOrder
<1>10. OutcomeOfChain'
  <2> SUFFICES ASSUME NEW u \in Tasks
               PROVE  /\ stage'[u] \in {"idle", "queued", "running"} => outcome'[u] = NoTask
                      /\ stage'[u] \in {"closing", "settled"} => outcome'[u] # NoTask
                      /\ stage'[u] = "running" => \A v \in ahead'[u] : outcome'[v] = Ok
                      /\ outcome'[u] \in {Ok, u} => \A v \in ahead'[u] : outcome'[v] = Ok
                      /\ outcome'[u] \notin {NoTask, Ok, u} => \E v \in ahead'[u] : outcome'[v] # Ok
    BY DEF OutcomeOfChain
  <2>1. \A v \in Tasks : outcome[v] = Ok => outcome'[v] = Ok
    BY <1>2, <1>6, OutcomesAssumption
  <2>2. CASE u = t
    BY <1>2, <1>3, <1>5, <1>6, <2>2, OutcomesAssumption
  <2>3. CASE u # t
    <3>1. stage'[u] = stage[u] /\ outcome'[u] = outcome[u] /\ ahead'[u] = ahead[u]
      BY <1>2, <2>3
    <3>2. \A v \in Tasks : outcome[v] # Ok => outcome'[v] # Ok
      BY <1>2, <1>6, OutcomesAssumption
    <3>3. QED
      BY <2>1, <3>1, <3>2 DEF OutcomeOfChain
  <2>4. QED
    BY <2>2, <2>3
<1>11. ErrorsAreGenuine'
  <2>1. InstanceOf[p] = InstanceOf[t]
    BY <1>3 DEF AheadAreSiblings, Siblings
  <2>2. QED
    BY <1>2, <1>3, <1>6, <2>1, OutcomesAssumption DEF ErrorsAreGenuine, Siblings
<1>12. QED
  BY <1>7, <1>8, <1>9, <1>10, <1>11

\* A body ends with success or with its own error.
LEMMA FinishKeepsIInv ==
  ASSUME IInv, TypeOK', NEW t \in Tasks, NEW result \in {Ok, t}, Finish(t, result) PROVE IInv'
<1> USE DEF IInv, Finish, TypeOK, Stages
<1>1. Unsettled' = Unsettled /\ Settled' = Settled
  BY DEF Unsettled, Settled
<1>2. /\ \A u \in Tasks \ {t} : stage'[u] = stage[u] /\ outcome'[u] = outcome[u]
      /\ stage[t] = "running" /\ stage'[t] = "closing" /\ outcome'[t] = result
      /\ ahead' = ahead /\ existingChain' = existingChain
      /\ instanceQueues' = instanceQueues
  OBVIOUS
<1>3. /\ outcome[t] = NoTask /\ ahead[t] \subseteq Settled /\ t \notin Settled
      /\ \A u \in ahead[t] : outcome[u] = Ok
  BY <1>2 DEF InOrder, OutcomeOfChain, Settled
<1>4. TailIsLast' /\ TotalOrder'
  BY <1>1, <1>2 DEF TailIsLast, TotalOrder, Siblings
<1>5. ChainCoversAhead' /\ AheadAreSiblings'
  BY <1>2 DEF ChainCoversAhead, AheadAreSiblings, Siblings
<1>6. InOrder'
  BY <1>1, <1>2, <1>3 DEF InOrder
<1>7. OutcomeOfChain'
  <2> SUFFICES ASSUME NEW u \in Tasks
               PROVE  /\ stage'[u] \in {"idle", "queued", "running"} => outcome'[u] = NoTask
                      /\ stage'[u] \in {"closing", "settled"} => outcome'[u] # NoTask
                      /\ stage'[u] = "running" => \A v \in ahead'[u] : outcome'[v] = Ok
                      /\ outcome'[u] \in {Ok, u} => \A v \in ahead'[u] : outcome'[v] = Ok
                      /\ outcome'[u] \notin {NoTask, Ok, u} => \E v \in ahead'[u] : outcome'[v] # Ok
    BY DEF OutcomeOfChain
  <2>1. \A v \in Tasks : outcome[v] = Ok => outcome'[v] = Ok
    BY <1>2, <1>3, OutcomesAssumption
  <2>2. CASE u = t
    BY <1>2, <1>3, <2>1, <2>2, OutcomesAssumption DEF AheadAreSiblings, Siblings
  <2>3. CASE u # t
    <3>1. stage'[u] = stage[u] /\ outcome'[u] = outcome[u] /\ ahead'[u] = ahead[u]
      BY <1>2, <2>3
    <3>2. outcome[u] \notin {NoTask, Ok, u} => u \in Settled \/ stage[u] = "closing"
      BY DEF OutcomeOfChain, Settled
    <3>3. outcome[u] \notin {NoTask, Ok, u} => \E v \in ahead[u] : v # t /\ outcome[v] # Ok
      BY <1>3, <3>2 DEF OutcomeOfChain, InOrder, Settled
    <3>4. QED
      BY <1>2, <2>1, <3>1, <3>3 DEF OutcomeOfChain
  <2>4. QED
    BY <2>2, <2>3
<1>8. ErrorsAreGenuine'
  BY <1>2, <1>3, OutcomesAssumption DEF ErrorsAreGenuine, Siblings
<1>9. QED
  BY <1>4, <1>5, <1>6, <1>7, <1>8

\* The finally callback deletes the map entry only when no later chain exists.
LEMMA CleanupKeepsIInv == ASSUME IInv, TypeOK', NEW t \in Tasks, Cleanup(t) PROVE IInv'
<1> USE DEF IInv, Cleanup, TypeOK, Stages, Instances
<1>1. Unsettled' = Unsettled \ {t} /\ Settled' = Settled \cup {t} /\ t \in Unsettled
  BY DEF Unsettled, Settled
<1>2. /\ \A u \in Tasks \ {t} : stage'[u] = stage[u]
      /\ stage[t] = "closing" /\ stage'[t] = "settled"
      /\ ahead' = ahead /\ existingChain' = existingChain /\ outcome' = outcome
  OBVIOUS
<1>3. ahead[t] \subseteq Settled
  BY <1>2 DEF InOrder
<1>4. TailIsLast'
  <2> SUFFICES ASSUME NEW i \in Instances
               PROVE  LET open == {u \in Unsettled' : InstanceOf[u] = i}
                          tail == instanceQueues'[i]
                      IN  IF tail = NoTask THEN open = {}
                          ELSE tail \in open /\ open \ {tail} \subseteq ahead'[tail]
    BY DEF TailIsLast
  <2>1. Settled \cap Unsettled = {}
    BY DEF Settled, Unsettled
  <2>2. CASE i = InstanceOf[t] /\ instanceQueues[i] = t
    BY <1>1, <1>2, <1>3, <2>1, <2>2, OutcomesAssumption DEF TailIsLast, ForgetChain
  <2>3. CASE ~(i = InstanceOf[t] /\ instanceQueues[i] = t)
    <3>1. instanceQueues'[i] = instanceQueues[i] /\ instanceQueues[i] # t
      BY <2>3, <1>1, OutcomesAssumption DEF ForgetChain, TailIsLast
    <3>2. QED
      BY <1>1, <1>2, <3>1 DEF TailIsLast
  <2>4. QED
    BY <2>2, <2>3
<1>5. TotalOrder'
  BY <1>1, <1>2 DEF TotalOrder, Siblings
<1>6. ChainCoversAhead' /\ AheadAreSiblings'
  BY <1>2 DEF ChainCoversAhead, AheadAreSiblings, Siblings
<1>7. InOrder'
  BY <1>1, <1>2, <1>3 DEF InOrder
<1>8. OutcomeOfChain' /\ ErrorsAreGenuine'
  BY <1>2 DEF OutcomeOfChain, ErrorsAreGenuine, Siblings
<1>9. QED
  BY <1>4, <1>5, <1>6, <1>7, <1>8

\* Every step keeps the invariant.
LEMMA StepKeepsIInv == IInv /\ TypeOK' /\ [Next]_vars => IInv'
<1> SUFFICES ASSUME IInv, TypeOK', [Next]_vars PROVE IInv'
  OBVIOUS
<1>1. CASE UNCHANGED vars
  BY <1>1 DEF vars, IInv, TypeOK, TailIsLast, ChainCoversAhead, AheadAreSiblings, TotalOrder,
     InOrder, OutcomeOfChain, ErrorsAreGenuine, Unsettled, Settled, Siblings
<1>2. QED
  BY <1>1, EnqueueKeepsIInv, RunKeepsIInv, SkipKeepsIInv, FinishKeepsIInv, CleanupKeepsIInv
     DEF Next

\* The inductive invariant of the scheduler.
THEOREM Invariance == Spec => []IInv
<1>1. QED
  BY InitIInv, StepKeepsIInv, TypeCorrect, PTL DEF Spec

\* Two handlers of one saga instance never run at the same time.
THEOREM Serialization == Spec => []Serialized
<1>1. IInv => Serialized
  <2> SUFFICES ASSUME IInv, NEW t \in Tasks, NEW u \in Siblings(t),
                      stage[t] = "running", stage[u] = "running", t # u
               PROVE  FALSE
    BY DEF Serialized
  <2>1. u \in Tasks /\ t \in Unsettled /\ u \in Unsettled
    BY DEF Siblings, Unsettled
  <2>2. t \in ahead[u] \/ u \in ahead[t]
    BY <2>1 DEF IInv, TotalOrder
  <2>3. QED
    BY <2>1, <2>2 DEF IInv, InOrder, Settled
<1>2. QED
  BY <1>1, Invariance, PTL

\* Calls of one instance are taken in the order they were enqueued.
THEOREM Ordering == Spec => []InOrder
<1>1. IInv => InOrder
  BY DEF IInv
<1>2. QED
  BY <1>1, Invariance, PTL

\* The map's entry is the last unsettled chain, and is gone when there is none.
THEOREM NoStaleTail == Spec => []TailIsLast
<1>1. IInv => TailIsLast
  BY DEF IInv
<1>2. QED
  BY <1>1, Invariance, PTL
-----------------------------------------------------------------------------
\* How the phases of the serial executor read off the chains.
LEMMA PhaseFacts ==
  ASSUME IInv, NEW t \in Tasks
  PROVE  /\ (PhaseOf(t) = "new") <=> (stage[t] = "idle")
         /\ (PhaseOf(t) \in {"waiting", "active"}) <=> (t \in Unsettled)
         /\ (PhaseOf(t) \in {"done", "failed", "dropped"}) <=> (t \in Settled)
         /\ (PhaseOf(t) = "done") <=> (t \in Settled /\ outcome[t] = Ok)
<1>1. stage[t] \in Stages
  BY DEF IInv, TypeOK
<1>2. QED
  BY <1>1 DEF PhaseOf, Unsettled, Settled, Stages

\* Every step of a chain is a step of the serial executor or leaves it unchanged.
LEMMA StepSimulation ==
  ASSUME IInv, IInv', [Next]_vars
  PROVE  [Abstract!Next]_(Abstract!vars)
<1> USE DEF IInv, TypeOK
<1>1. ASSUME NEW t \in Tasks, Enqueue(t) PROVE Abstract!Submit(t)
  <2>1. \A u \in Tasks \ {t} : PhaseOf(u)' = PhaseOf(u)
    BY <1>1 DEF Enqueue, PhaseOf
  <2>2. PhaseOf(t) = "new" /\ PhaseOf(t)' = "waiting"
    BY <1>1 DEF Enqueue, PhaseOf
  <2>3. [u \in Tasks |-> PhaseOf(u)]' = [[u \in Tasks |-> PhaseOf(u)] EXCEPT ![t] = "waiting"]
    BY <2>1, <2>2
  <2>4. {u \in Tasks : InstanceOf[u] = InstanceOf[t] /\ PhaseOf(u) \in {"waiting", "active"}}
           = Siblings(t) \cap Unsettled
    BY PhaseFacts DEF Siblings
  <2>5. ahead' = [ahead EXCEPT ![t] = Siblings(t) \cap Unsettled]
    BY <1>1 DEF Enqueue
  <2>6. QED
    BY <2>2, <2>3, <2>4, <2>5 DEF Abstract!Submit
<1>2. ASSUME NEW t \in Tasks, Run(t) PROVE Abstract!Begin(t)
  <2>1. \A u \in Tasks \ {t} : PhaseOf(u)' = PhaseOf(u)
    BY <1>2 DEF Run, PhaseOf
  <2>2. PhaseOf(t) = "waiting" /\ PhaseOf(t)' = "active" /\ ahead' = ahead
    BY <1>2 DEF Run, PhaseOf
  <2>3. \A u \in ahead[t] : u \in Settled /\ outcome[u] = Ok
    BY <1>2 DEF Run, InOrder, OutcomeOfChain, Settled
  <2>4. \A u \in ahead[t] : PhaseOf(u) = "done"
    BY <2>3, PhaseFacts
  <2>5. [u \in Tasks |-> PhaseOf(u)]' = [[u \in Tasks |-> PhaseOf(u)] EXCEPT ![t] = "active"]
    BY <2>1, <2>2
  <2>6. QED
    BY <2>2, <2>4, <2>5 DEF Abstract!Begin
<1>3. ASSUME NEW t \in Tasks, Skip(t) PROVE UNCHANGED Abstract!vars
  <2>1. \A u \in Tasks \ {t} : PhaseOf(u)' = PhaseOf(u)
    BY <1>3 DEF Skip, PhaseOf
  <2>2. outcome[t] = NoTask /\ outcome[existingChain[t]] # Ok
    BY <1>3 DEF Skip, PreviousRejected, OutcomeOfChain
  <2>3. outcome[existingChain[t]] # t
    BY <1>3, <2>2, OutcomesAssumption DEF Skip, PreviousRejected, ErrorsAreGenuine
  <2>4. PhaseOf(t) = "waiting" /\ PhaseOf(t)' = "waiting" /\ ahead' = ahead
    BY <1>3, <2>2, <2>3 DEF Skip, PhaseOf
  <2>5. QED
    BY <2>1, <2>4 DEF Abstract!vars
<1>4. ASSUME NEW t \in Tasks, NEW result \in {Ok, t}, Finish(t, result)
      PROVE UNCHANGED Abstract!vars
  <2>1. \A u \in Tasks \ {t} : PhaseOf(u)' = PhaseOf(u)
    BY <1>4 DEF Finish, PhaseOf
  <2>2. PhaseOf(t) = "active" /\ PhaseOf(t)' = "active" /\ ahead' = ahead
    BY <1>4 DEF Finish, PhaseOf
  <2>3. QED
    BY <2>1, <2>2 DEF Abstract!vars
<1>5. ASSUME NEW t \in Tasks, Cleanup(t) PROVE Abstract!End(t) \/ Abstract!Drop(t)
  <2>1. \A u \in Tasks \ {t} : PhaseOf(u)' = PhaseOf(u)
    BY <1>5 DEF Cleanup, PhaseOf
  <2>2. ahead' = ahead
    BY <1>5 DEF Cleanup
  <2>3. CASE outcome[t] \in {Ok, t}
    <3>1. PhaseOf(t) = "active" /\ PhaseOf(t)' \in {"done", "failed"}
      BY <1>5, <2>3 DEF Cleanup, PhaseOf
    <3>2. [u \in Tasks |-> PhaseOf(u)]' = [[u \in Tasks |-> PhaseOf(u)] EXCEPT ![t] = PhaseOf(t)']
      BY <2>1
    <3>3. QED
      BY <2>2, <3>1, <3>2 DEF Abstract!End
  <2>4. CASE outcome[t] \notin {Ok, t}
    <3>1. PhaseOf(t) = "waiting" /\ PhaseOf(t)' = "dropped"
      BY <1>5, <2>4 DEF Cleanup, PhaseOf
    <3>2. [u \in Tasks |-> PhaseOf(u)]' = [[u \in Tasks |-> PhaseOf(u)] EXCEPT ![t] = "dropped"]
      BY <2>1, <3>1
    <3>3. ahead[t] \subseteq Settled /\ \E u \in ahead[t] : outcome[u] # Ok
      BY <1>5, <2>4 DEF Cleanup, InOrder, OutcomeOfChain
    <3>4. /\ \A u \in ahead[t] : PhaseOf(u) \in {"done", "failed", "dropped"}
          /\ \E u \in ahead[t] : PhaseOf(u) # "done"
      BY <3>3, PhaseFacts DEF Settled
    <3>5. QED
      BY <2>2, <3>1, <3>2, <3>4 DEF Abstract!Drop, Abstract!Finished
  <2>5. QED
    BY <2>3, <2>4
<1>6. CASE UNCHANGED vars
  BY <1>6 DEF vars, Abstract!vars, PhaseOf
<1>7. QED
  BY <1>1, <1>2, <1>3, <1>4, <1>5, <1>6 DEF Next, Abstract!Next

\* The promise chains implement the serial executor (its safety: the fairness
\* half of ImplementsSerialExecutor is checked by TLC).
THEOREM Refinement == Init /\ [][Next]_vars => Abstract!Init /\ [][Abstract!Next]_(Abstract!vars)
<1>1. Init => Abstract!Init
  BY DEF Init, Abstract!Init, PhaseOf
<1>2. IInv /\ IInv' /\ [Next]_vars => [Abstract!Next]_(Abstract!vars)
  BY StepSimulation
<1>3. Init /\ [][Next]_vars => []IInv
  <2>1. IInv /\ [Next]_vars => TypeOK'
    BY TypeStep DEF IInv
  <2>2. QED
    BY <2>1, InitIInv, StepKeepsIInv, PTL
<1>4. QED
  BY <1>1, <1>2, <1>3, PTL
-----------------------------------------------------------------------------
(* SagaEngine, whose calls are the tasks. *)

LEMMA CallFacts ==
    ASSUME Parameters
    PROVE  /\ \A c \in Tasks : c.inst \in InstanceIds /\ InstanceOf[c] = c.inst /\ c.of \in Events \cup Timers
           /\ \A i \in InstanceIds, e \in Events : [inst |-> i, of |-> e, n |-> 1] \in Tasks
           /\ \A i \in InstanceIds, tm \in Timers : \A n \in 1..MaxFires : [inst |-> i, of |-> tm, n |-> n] \in Tasks
           /\ \A c, d \in Tasks : d \in Siblings(c) <=> d.inst = c.inst
           /\ \A e \in Events : e \notin Timers
<1>1. \A c \in Tasks : c.inst \in InstanceIds /\ InstanceOf[c] = c.inst /\ c.of \in Events \cup Timers
  BY DEF Parameters, Calls
<1>2. \A i \in InstanceIds, e \in Events : [inst |-> i, of |-> e, n |-> 1] \in Tasks
  BY DEF Parameters, Calls
<1>3. \A i \in InstanceIds, tm \in Timers : \A n \in 1..MaxFires : [inst |-> i, of |-> tm, n |-> n] \in Tasks
  BY DEF Parameters, Calls
<1>4. \A e \in Events : e \notin Timers
  BY DEF Parameters
<1> QED
  BY <1>1, <1>2, <1>3, <1>4 DEF Siblings

Rows == Records \cup {Absent}
LaneStates == [at: {"idle", "loop", "await", "start", "create", "end"}, next: Nat, matches: SUBSET InstanceIds,
               inst: InstanceIds \cup {Absent}, rec: Rows]
BodyStates == [at: {"none", "handle", "save", "end"}, rec: Rows]

\* A lane is in the middle of an event of its stream, and a body is where its call is.
LaneIsAt(l) ==
    /\ lane[l].next \in 1..Len(Stream[l]) + 1
    /\ lane[l].at # "idle" => lane[l].next <= Len(Stream[l])
    /\ lane[l].at \in {"await", "create", "end"} => lane[l].inst \in InstanceIds
    /\ lane[l].at \in {"create", "end"} => lane[l].rec \in Records
BodyIsAt(c) ==
    /\ body[c].at # "none" <=> stage[c] = "running"
    /\ body[c].at = "none" => body[c].rec = Absent
    /\ body[c].at \in {"save", "end"} => body[c].rec # Absent

EngineTypes ==
    /\ store \in [InstanceIds -> Rows] /\ used \subseteq InstanceIds /\ armed \subseteq InstanceIds \X Timers
    /\ fires \in [InstanceIds \X Timers -> 0..MaxFires]
    /\ lane \in [Lanes -> LaneStates] /\ body \in [Tasks -> BodyStates]
    /\ \A l \in Lanes : LaneIsAt(l)
    /\ \A c \in Tasks : BodyIsAt(c)

\* A handler changes a record into a record.
LEMMA RecordFacts ==
    ASSUME Parameters
    PROVE  /\ Absent \notin Records /\ Absent \notin InstanceIds
           /\ \A rec \in Records, b \in Behaviours \cup StartBehaviours :
                 /\ Applied(rec, b) \in Records
                 /\ Applied(rec, b).events = rec.events
                 /\ Applied(rec, b).activeTimers = (rec.activeTimers \cup b.add) \ b.remove
                 /\ b.end = "no" => Applied(rec, b).ended = rec.ended
           /\ \A rec \in Records, what \in Events \cup Timers :
                 /\ Received(rec, what) \in Records
                 /\ what \in Events => Received(rec, what).events = rec.events \cup {what}
                 /\ what \in Timers => Received(rec, what).events = rec.events
                 /\ what \in Events \cup Crons => Received(rec, what).activeTimers = rec.activeTimers
                 /\ what \in Timers \ Crons => Received(rec, what).activeTimers = rec.activeTimers \ {what}
           /\ \A e \in Events : [events |-> {e}, activeTimers |-> {}, ended |-> FALSE, preserve |-> FALSE] \in Records
<1>1. Absent \notin Records /\ Absent \notin InstanceIds
  BY DEF Parameters
<1>2. ASSUME NEW rec \in Records, NEW b \in Behaviours \cup StartBehaviours
      PROVE  /\ Applied(rec, b) \in Records
             /\ Applied(rec, b).events = rec.events
             /\ Applied(rec, b).activeTimers = (rec.activeTimers \cup b.add) \ b.remove
             /\ b.end = "no" => Applied(rec, b).ended = rec.ended
  <2>1. b.add \in SUBSET Timers /\ b.remove \in SUBSET Timers
    BY DEF Parameters
  <2> DEFINE active == (rec.activeTimers \cup b.add) \ b.remove
             ended == rec.ended \/ b.end # "no"
             preserve == IF b.end = "no" THEN rec.preserve ELSE b.end = "preserve"
  <2>2. Applied(rec, b) = [rec EXCEPT !.activeTimers = active, !.ended = ended, !.preserve = preserve]
    BY DEF Applied
  <2>3. active \in SUBSET Timers /\ ended \in BOOLEAN /\ preserve \in BOOLEAN
    BY <2>1 DEF Records
  <2>4. b.end = "no" => ended = rec.ended
    BY DEF Records
  <2> HIDE DEF active, ended, preserve
  <2>5. Applied(rec, b) \in Records
    BY <2>2, <2>3 DEF Records
  <2> QED
    BY <2>2, <2>4, <2>5 DEF Records, active
<1>3. ASSUME NEW rec \in Records, NEW what \in Events \cup Timers
      PROVE  /\ Received(rec, what) \in Records
             /\ what \in Events => Received(rec, what).events = rec.events \cup {what}
             /\ what \in Timers => Received(rec, what).events = rec.events
             /\ what \in Events \cup Crons => Received(rec, what).activeTimers = rec.activeTimers
             /\ what \in Timers \ Crons => Received(rec, what).activeTimers = rec.activeTimers \ {what}
  BY CallFacts DEF Parameters, Records, Received
<1>4. \A e \in Events : [events |-> {e}, activeTimers |-> {}, ended |-> FALSE, preserve |-> FALSE] \in Records
  BY DEF Records
<1> QED
  BY <1>1, <1>2, <1>3, <1>4

\* The event a lane is in the middle of.
LEMMA EventFacts ==
    ASSUME Parameters, EngineTypes, NEW l \in Lanes, lane[l].next <= Len(Stream[l])
    PROVE  /\ CurrentEvent(l) \in Events
           /\ \A i \in InstanceIds : CallFor(l, i) \in Tasks /\ CallFor(l, i).inst = i
<1>1. CurrentEvent(l) \in Events
  <2>1. Stream[l] \in Seq(Events) /\ lane[l].next \in 1..Len(Stream[l]) + 1
    BY DEF Parameters, EngineTypes, LaneIsAt
  <2>2. lane[l].next \in 1..Len(Stream[l])
    BY <2>1
  <2> QED
    BY <2>1, <2>2 DEF CurrentEvent
<1> QED
  BY <1>1, CallFacts DEF CallFor

\* The calls that no step of a body touches stay where they are.
LEMMA BodiesStay ==
    ASSUME EngineTypes, body' = body, \A c \in Tasks : stage'[c] = "running" <=> stage[c] = "running"
    PROVE  body' \in [Tasks -> BodyStates] /\ \A c \in Tasks : BodyIsAt(c)'
BY DEF EngineTypes, BodyIsAt

LEMMA BodyMoves ==
    ASSUME Parameters, EngineTypes, NEW c \in Tasks, NEW r \in BodyStates, body' = [body EXCEPT ![c] = r],
           \A d \in Tasks : d # c => (stage'[d] = "running" <=> stage[d] = "running"),
           r.at # "none" <=> stage'[c] = "running",
           r.at = "none" => r.rec = Absent, r.at \in {"save", "end"} => r.rec # Absent
    PROVE  body' \in [Tasks -> BodyStates] /\ (\A d \in Tasks : BodyIsAt(d)') /\ body'[c] = r
BY DEF EngineTypes, BodyIsAt

LEMMA LaneMoves ==
    ASSUME EngineTypes, NEW l \in Lanes, NEW r \in LaneStates, lane' = [lane EXCEPT ![l] = r],
           r.next \in 1..Len(Stream[l]) + 1, r.at # "idle" => r.next <= Len(Stream[l]),
           r.at \in {"await", "create", "end"} => r.inst \in InstanceIds,
           r.at \in {"create", "end"} => r.rec \in Records
    PROVE  lane' \in [Lanes -> LaneStates] /\ (\A m \in Lanes : LaneIsAt(m)') /\ lane'[l] = r
BY DEF EngineTypes, LaneIsAt

LEMMA LanesStay == EngineTypes /\ lane' = lane => lane' \in [Lanes -> LaneStates] /\ \A m \in Lanes : LaneIsAt(m)'
BY DEF EngineTypes, LaneIsAt

\* The next event, or the end of the stream.
LEMMA LaneGoesOn ==
    ASSUME Parameters, EngineTypes, NEW l \in Lanes, lane[l].next <= Len(Stream[l]), NextEvent(l)
    PROVE  /\ lane' \in [Lanes -> LaneStates] /\ \A m \in Lanes : LaneIsAt(m)'
           /\ lane'[l].at = "idle" /\ \A m \in Lanes : m # l => lane'[m] = lane[m]
<1> DEFINE r == IdleLane(lane[l].next + 1)
<1>1. lane' = [lane EXCEPT ![l] = r]
  BY DEF NextEvent
<1>2. lane[l].next \in Nat /\ lane[l].next + 1 \in 1..Len(Stream[l]) + 1
  <2>1. Stream[l] \in Seq(Events) /\ lane[l].next \in 1..Len(Stream[l]) + 1
    BY DEF Parameters, EngineTypes, LaneIsAt
  <2> QED
    BY <2>1
<1>3. r \in LaneStates /\ r.at = "idle" /\ r.next = lane[l].next + 1
  BY <1>2 DEF IdleLane, LaneStates, Rows
<1> HIDE DEF r
<1>4. lane' \in [Lanes -> LaneStates] /\ (\A m \in Lanes : LaneIsAt(m)') /\ lane'[l] = r
  BY <1>1, <1>2, <1>3, LaneMoves
<1> QED
  BY <1>1, <1>3, <1>4 DEF EngineTypes

\* How the scheduler's steps change the stages.
LEMMA StageFacts ==
    ASSUME TypeOK, NEW c \in Tasks
    PROVE  /\ Enqueue(c) => /\ stage[c] = "idle" /\ stage'[c] = "queued" /\ outcome' = outcome
                            /\ \A d \in Tasks : d # c => stage'[d] = stage[d]
           /\ Run(c) => /\ stage[c] = "queued" /\ stage'[c] = "running" /\ outcome' = outcome
                        /\ \A d \in Tasks : d # c => stage'[d] = stage[d]
           /\ \A result : Finish(c, result) =>
                        /\ stage[c] = "running" /\ stage'[c] = "closing" /\ outcome'[c] = result
                        /\ \A d \in Tasks : d # c => stage'[d] = stage[d] /\ outcome'[d] = outcome[d]
           /\ Skip(c) => /\ stage[c] = "queued" /\ stage'[c] = "closing" /\ outcome'[c] # Ok
                         /\ \A d \in Tasks : d # c => stage'[d] = stage[d] /\ outcome'[d] = outcome[d]
           /\ Cleanup(c) => /\ stage[c] = "closing" /\ stage'[c] = "settled" /\ outcome' = outcome
                            /\ \A d \in Tasks : d # c => stage'[d] = stage[d]
BY DEF TypeOK, Enqueue, Run, Finish, Skip, PreviousRejected, Cleanup
-----------------------------------------------------------------------------
(* The engine keeps its types, and takes steps of the scheduler. *)

LEMMA LaneSteps ==
    ASSUME Parameters, EngineTypes, TypeOK, NEW l \in Lanes, LaneStep(l)
    PROVE  EngineTypes' /\ [Next]_vars
<1>t. /\ lane \in [Lanes -> LaneStates] /\ lane[l] \in LaneStates /\ LaneIsAt(l)
      /\ store \in [InstanceIds -> Rows] /\ used \subseteq InstanceIds /\ armed \subseteq InstanceIds \X Timers
      /\ fires \in [InstanceIds \X Timers -> 0..MaxFires]
  BY DEF EngineTypes
\* What all but HandOver have in common.
<1>s. ASSUME UNCHANGED <<fires, body, instanceQueues, existingChain, stage, outcome, ahead>>,
             store' \in [InstanceIds -> Rows], used' \subseteq InstanceIds, armed' \subseteq InstanceIds \X Timers,
             lane' \in [Lanes -> LaneStates], \A m \in Lanes : LaneIsAt(m)'
      PROVE  EngineTypes' /\ [Next]_vars
  <2>1. body' \in [Tasks -> BodyStates] /\ \A c \in Tasks : BodyIsAt(c)'
    BY <1>s, BodiesStay
  <2>2. fires' \in [InstanceIds \X Timers -> 0..MaxFires]
    BY <1>s, <1>t
  <2> QED
    BY <1>s, <2>1, <2>2 DEF EngineTypes, vars
<1>1. CASE Dispatch(l)
  <2> DEFINE found == IF CurrentEvent(l) \in Handles THEN {i \in InstanceIds : store[i] # Absent} ELSE {}
  <2>1. lane[l].next <= Len(Stream[l])
    BY <1>1 DEF Dispatch
  <2>2. UNCHANGED <<store, used, armed, fires, body, instanceQueues, existingChain, stage, outcome, ahead>>
    BY <1>1 DEF Dispatch, vars
  <2>3. \/ NextEvent(l)
        \/ lane' = [lane EXCEPT ![l] = [lane[l] EXCEPT !.at = IF found = {} THEN "start" ELSE "loop", !.matches = found]]
    BY <1>1, <1>t DEF Dispatch, LaneStates
  <2> HIDE DEF found
  <2>4. CASE NextEvent(l)
    BY <1>s, <1>t, <2>1, <2>2, <2>4, LaneGoesOn
  <2>5. CASE lane' = [lane EXCEPT ![l] = [lane[l] EXCEPT !.at = IF found = {} THEN "start" ELSE "loop", !.matches = found]]
    <3> DEFINE r == [lane[l] EXCEPT !.at = IF found = {} THEN "start" ELSE "loop", !.matches = found]
    <3>1. found \in SUBSET InstanceIds
      BY DEF found
    <3>2. r \in LaneStates /\ r.next = lane[l].next /\ r.at \in {"start", "loop"}
      BY <1>t, <3>1 DEF LaneStates
    <3>3. lane' = [lane EXCEPT ![l] = r]
      BY <2>5
    <3> HIDE DEF r
    <3>4. lane' \in [Lanes -> LaneStates] /\ \A m \in Lanes : LaneIsAt(m)'
      BY <1>t, <2>1, <3>2, <3>3, LaneMoves DEF LaneIsAt
    <3> QED
      BY <1>s, <1>t, <2>2, <3>4
  <2> QED
    BY <2>3, <2>4, <2>5
<1>2. CASE HandOver(l)
  <2>1. PICK i \in lane[l].matches : /\ Enqueue(CallFor(l, i))
                                     /\ lane' = [lane EXCEPT ![l].at = "await", ![l].inst = i]
    BY <1>2 DEF HandOver
  <2>2. lane[l].at = "loop" /\ UNCHANGED <<store, used, armed, fires, body>>
    BY <1>2 DEF HandOver
  <2>3. lane[l].next <= Len(Stream[l]) /\ i \in InstanceIds
    BY <1>t, <2>2 DEF LaneIsAt, LaneStates
  <2>4. PICK c \in Tasks : c = CallFor(l, i)
    BY <2>3, EventFacts
  <2>5. Enqueue(c)
    BY <2>1, <2>4
  <2>6. body' \in [Tasks -> BodyStates] /\ \A d \in Tasks : BodyIsAt(d)'
    BY <2>2, <2>5, BodiesStay, StageFacts
  <2> DEFINE r == [lane[l] EXCEPT !.at = "await", !.inst = i]
  <2>7. lane' = [lane EXCEPT ![l] = r] /\ r \in LaneStates /\ r.at = "await" /\ r.inst = i /\ r.next = lane[l].next
    BY <1>t, <2>1, <2>3 DEF LaneStates
  <2> HIDE DEF r
  <2>8. lane' \in [Lanes -> LaneStates] /\ \A m \in Lanes : LaneIsAt(m)'
    BY <1>t, <2>3, <2>7, LaneMoves DEF LaneIsAt
  <2>9. fires' \in [InstanceIds \X Timers -> 0..MaxFires]
    BY <1>t, <2>2
  <2> QED
    BY <1>t, <2>2, <2>5, <2>6, <2>8, <2>9 DEF EngineTypes, Next
<1>3. CASE Settle(l)
  <2> DEFINE rest == lane[l].matches \ {lane[l].inst}
             r == [lane[l] EXCEPT !.at = "loop", !.matches = rest, !.inst = Absent]
  <2>1. /\ lane[l].at = "await" /\ UNCHANGED <<store, used, armed, fires, body, instanceQueues, existingChain, stage, outcome, ahead>>
        /\ NextEvent(l) \/ lane' = [lane EXCEPT ![l] = r]
    BY <1>3, <1>t DEF Settle, vars, LaneStates
  <2>2. r \in LaneStates /\ r.next = lane[l].next /\ r.at = "loop"
    BY <1>t DEF LaneStates
  <2> HIDE DEF r
  <2>3. lane[l].next <= Len(Stream[l])
    BY <1>t, <2>1 DEF LaneIsAt
  <2>4. lane' \in [Lanes -> LaneStates] /\ \A m \in Lanes : LaneIsAt(m)'
    <3>1. CASE NextEvent(l)
      BY <2>3, <3>1, LaneGoesOn
    <3>2. CASE lane' = [lane EXCEPT ![l] = r]
      BY <1>t, <2>2, <2>3, <3>2, LaneMoves DEF LaneIsAt
    <3> QED
      BY <2>1, <3>1, <3>2
  <2> QED
    BY <1>s, <1>t, <2>1, <2>4
<1>4. ASSUME NEW i \in InstanceIds, NEW b \in StartBehaviours, StartHandler(l, i, b) PROVE EngineTypes' /\ [Next]_vars
  <2> DEFINE rec == Applied([events |-> {CurrentEvent(l)}, activeTimers |-> {}, ended |-> FALSE, preserve |-> FALSE], b)
             r == [lane[l] EXCEPT !.at = "create", !.inst = i, !.rec = rec]
  <2>1. /\ lane[l].at = "start" /\ used' = used \cup {i}
        /\ UNCHANGED <<store, fires, body, instanceQueues, existingChain, stage, outcome, ahead>>
        /\ \/ NextEvent(l) /\ armed' = armed
           \/ armed' = Scheduled(armed, i, b)
              /\ lane' = [lane EXCEPT ![l] = r]
    BY <1>4, <1>t DEF StartHandler, vars, LaneStates
  <2>2. lane[l].next <= Len(Stream[l])
    BY <1>t, <2>1 DEF LaneIsAt
  <2>3. rec \in Records
    BY <2>2, EventFacts, RecordFacts
  <2>4. r \in LaneStates /\ r.next = lane[l].next /\ r.at = "create" /\ r.rec = rec /\ r.inst = i
    BY <1>t, <2>3 DEF LaneStates, Rows
  <2> HIDE DEF rec, r
  <2>5. armed' \subseteq InstanceIds \X Timers
    BY <1>t, <2>1 DEF Scheduled, Parameters
  <2>6. lane' \in [Lanes -> LaneStates] /\ \A m \in Lanes : LaneIsAt(m)'
    <3>1. CASE NextEvent(l)
      BY <2>2, <3>1, LaneGoesOn
    <3>2. CASE lane' = [lane EXCEPT ![l] = r]
      BY <1>t, <2>2, <2>3, <2>4, <3>2, LaneMoves DEF LaneIsAt
    <3> QED
      BY <2>1, <3>1, <3>2
  <2> QED
    BY <1>s, <1>t, <2>1, <2>5, <2>6
<1>5. CASE StartRefused(l)
  <2>1. lane[l].at = "start" /\ NextEvent(l) /\ UNCHANGED <<store, used, armed, fires, body, instanceQueues, existingChain, stage, outcome, ahead>>
    BY <1>5 DEF StartRefused, vars
  <2>2. lane' \in [Lanes -> LaneStates] /\ \A m \in Lanes : LaneIsAt(m)'
    BY <1>t, <2>1, LaneGoesOn DEF LaneIsAt
  <2> QED
    BY <1>s, <1>t, <2>1, <2>2
<1>6. CASE StartCreate(l)
  <2> DEFINE r == [lane[l] EXCEPT !.at = "end"]
  <2>1. /\ lane[l].at = "create" /\ store' = [store EXCEPT ![lane[l].inst] = lane[l].rec] /\ lane' = [lane EXCEPT ![l] = r]
        /\ UNCHANGED <<used, armed, fires, body, instanceQueues, existingChain, stage, outcome, ahead>>
    BY <1>6, <1>t DEF StartCreate, vars, LaneStates
  <2>2. r \in LaneStates /\ r.next = lane[l].next /\ r.at = "end" /\ r.rec = lane[l].rec /\ r.inst = lane[l].inst
    BY <1>t DEF LaneStates
  <2> HIDE DEF r
  <2>3. lane' \in [Lanes -> LaneStates] /\ \A m \in Lanes : LaneIsAt(m)'
    BY <1>t, <2>1, <2>2, LaneMoves DEF LaneIsAt
  <2>4. store' \in [InstanceIds -> Rows]
    BY <1>t, <2>1 DEF LaneIsAt, Rows
  <2> QED
    BY <1>s, <1>t, <2>1, <2>3, <2>4
<1>7. CASE StartEnd(l)
  <2>1. /\ lane[l].at = "end" /\ NextEvent(l) /\ HandleSagaInstanceEnd(lane[l].inst, lane[l].rec)
        /\ UNCHANGED <<used, fires, body, instanceQueues, existingChain, stage, outcome, ahead>>
    BY <1>7 DEF StartEnd, vars
  <2>2. lane' \in [Lanes -> LaneStates] /\ \A m \in Lanes : LaneIsAt(m)'
    BY <1>t, <2>1, LaneGoesOn DEF LaneIsAt
  <2>3. store' \in [InstanceIds -> Rows] /\ armed' \subseteq InstanceIds \X Timers
    BY <1>t, <2>1 DEF HandleSagaInstanceEnd, Rows
  <2> QED
    BY <1>s, <1>t, <2>1, <2>2, <2>3
<1> QED
  BY <1>1, <1>2, <1>3, <1>4, <1>5, <1>6, <1>7 DEF LaneStep

LEMMA CallSteps ==
    ASSUME Parameters, EngineTypes, TypeOK, NEW c \in Tasks, CallStep(c)
    PROVE  EngineTypes' /\ [Next]_vars
<1>t. /\ body \in [Tasks -> BodyStates] /\ body[c] \in BodyStates /\ BodyIsAt(c) /\ c.inst \in InstanceIds
      /\ c.of \in Events \cup Timers /\ store[c.inst] \in Rows
      /\ store \in [InstanceIds -> Rows] /\ used \subseteq InstanceIds /\ armed \subseteq InstanceIds \X Timers
      /\ fires \in [InstanceIds \X Timers -> 0..MaxFires]
  BY CallFacts DEF EngineTypes
<1>n. NoBody \in BodyStates /\ NoBody.at = "none" /\ NoBody.rec = Absent
  BY DEF NoBody, BodyStates, Rows
<1>r. /\ \A s : s \in Rows /\ s # Absent => s \in Records
      /\ Records \subseteq Rows /\ Absent \notin Records
  BY RecordFacts DEF Rows
\* What all have in common.
<1>s. ASSUME UNCHANGED <<used, fires, lane>>, store' \in [InstanceIds -> Rows], armed' \subseteq InstanceIds \X Timers,
             body' \in [Tasks -> BodyStates], \A d \in Tasks : BodyIsAt(d)'
      PROVE  EngineTypes'
  <2>1. lane' \in [Lanes -> LaneStates] /\ \A m \in Lanes : LaneIsAt(m)'
    BY <1>s, LanesStay
  <2>2. fires' \in [InstanceIds \X Timers -> 0..MaxFires]
    BY <1>s, <1>t
  <2> QED
    BY <1>s, <1>t, <2>1, <2>2 DEF EngineTypes
\* The body ends.
<1>f. ASSUME NEW result \in {Ok, c}, Finish(c, result), body' = [body EXCEPT ![c] = NoBody],
             UNCHANGED <<used, fires, lane>>, store' \in [InstanceIds -> Rows], armed' \subseteq InstanceIds \X Timers
      PROVE  EngineTypes' /\ [Next]_vars
  <2>1. Finish(c, result)
    BY <1>f
  <2>2. body' \in [Tasks -> BodyStates] /\ \A d \in Tasks : BodyIsAt(d)'
    BY <1>f, <1>n, <2>1, BodyMoves, StageFacts
  <2> QED
    BY <1>f, <1>s, <2>1, <2>2 DEF Next
\* The body goes on.
<1>g. ASSUME NEW r \in BodyStates, r.at \in {"save", "end"}, r.rec # Absent, body' = [body EXCEPT ![c] = r], stage[c] = "running",
             UNCHANGED <<used, fires, lane, instanceQueues, existingChain, stage, outcome, ahead>>,
             store' \in [InstanceIds -> Rows], armed' \subseteq InstanceIds \X Timers
      PROVE  EngineTypes' /\ [Next]_vars
  <2>1. body' \in [Tasks -> BodyStates] /\ \A d \in Tasks : BodyIsAt(d)'
    BY <1>g, BodyMoves
  <2> QED
    BY <1>g, <1>s, <2>1 DEF vars
<1>1. CASE Begin(c)
  <2> DEFINE r == [at |-> "handle", rec |-> store[c.inst]]
  <2>1. Run(c) /\ body' = [body EXCEPT ![c] = r] /\ UNCHANGED <<store, used, armed, fires, lane>>
    BY <1>1 DEF Begin
  <2>2. Run(c)
    BY <2>1
  <2>3. r \in BodyStates /\ r.at = "handle"
    BY <1>t DEF BodyStates
  <2> HIDE DEF r
  <2>4. body' \in [Tasks -> BodyStates] /\ \A d \in Tasks : BodyIsAt(d)'
    BY <2>1, <2>2, <2>3, BodyMoves, StageFacts
  <2> QED
    BY <1>s, <1>t, <2>1, <2>2, <2>4 DEF Next
<1>2. CASE Missing(c)
  <2>1. PICK result \in {Ok, c} : Finish(c, result)
    BY <1>2 DEF Missing
  <2>2. body' = [body EXCEPT ![c] = NoBody] /\ UNCHANGED <<store, used, armed, fires, lane>>
    BY <1>2 DEF Missing
  <2> QED
    BY <1>f, <1>t, <2>1, <2>2
<1>3. ASSUME NEW b \in Behaviours, Throw(c, b) PROVE EngineTypes' /\ [Next]_vars
  <2>1. /\ Finish(c, c) /\ body' = [body EXCEPT ![c] = NoBody]
        /\ UNCHANGED <<store, used, armed, fires, lane>>
    BY <1>3 DEF Throw
  <2> QED
    BY <1>f, <1>t, <2>1
<1>4. ASSUME NEW b \in Behaviours, Handle(c, b) PROVE EngineTypes' /\ [Next]_vars
  <2> DEFINE rec == Applied(Received(body[c].rec, c.of), b)
             r == [at |-> "save", rec |-> rec]
  <2>1. /\ body[c].at = "handle" /\ body[c].rec # Absent /\ body' = [body EXCEPT ![c] = r]
        /\ armed' = Scheduled(armed \ Spent(c), c.inst, b)
        /\ UNCHANGED <<store, used, fires, lane, instanceQueues, existingChain, stage, outcome, ahead>>
    BY <1>4, <1>t DEF Handle, vars
  <2>2. body[c].rec \in Records
    BY <1>r, <1>t, <2>1 DEF BodyStates
  <2>3. rec \in Records
    BY <1>t, <2>2, RecordFacts
  <2>4. r \in BodyStates /\ r.at = "save" /\ r.rec = rec
    BY <1>r, <2>3 DEF BodyStates
  <2>5. armed' \subseteq InstanceIds \X Timers
    BY <1>t, <2>1 DEF Scheduled, Parameters
  <2> HIDE DEF rec, r
  <2> QED
    BY <1>g, <1>r, <1>t, <2>1, <2>3, <2>4, <2>5 DEF BodyIsAt
<1>5. CASE Save(c)
  <2> DEFINE r == [body[c] EXCEPT !.at = "end"]
  <2>1. /\ body[c].at = "save" /\ store' = [store EXCEPT ![c.inst] = body[c].rec] /\ body' = [body EXCEPT ![c] = r]
        /\ UNCHANGED <<used, armed, fires, lane, instanceQueues, existingChain, stage, outcome, ahead>>
    BY <1>5, <1>t DEF Save, vars
  <2>2. r \in BodyStates /\ r.at = "end" /\ r.rec = body[c].rec
    BY <1>t DEF BodyStates
  <2>3. store' \in [InstanceIds -> Rows]
    BY <1>t, <2>1 DEF BodyStates
  <2> HIDE DEF r
  <2> QED
    BY <1>g, <1>t, <2>1, <2>2, <2>3 DEF BodyIsAt
<1>6. CASE End(c)
  <2>1. /\ HandleSagaInstanceEnd(c.inst, body[c].rec) /\ Finish(c, Ok)
        /\ body' = [body EXCEPT ![c] = NoBody] /\ UNCHANGED <<used, fires, lane>>
    BY <1>6 DEF End
  <2>2. store' \in [InstanceIds -> Rows] /\ armed' \subseteq InstanceIds \X Timers
    BY <1>t, <2>1 DEF HandleSagaInstanceEnd, Rows
  <2> QED
    BY <1>f, <2>1, <2>2
<1>7. CASE Microtask(c)
  <2>1. (Skip(c) \/ Cleanup(c)) /\ UNCHANGED <<store, used, armed, fires, lane, body>>
    BY <1>7 DEF Microtask
  <2>2. body' \in [Tasks -> BodyStates] /\ \A d \in Tasks : BodyIsAt(d)'
    BY <2>1, BodiesStay, StageFacts
  <2> QED
    BY <1>s, <1>t, <2>1, <2>2 DEF Next
<1> QED
  BY <1>1, <1>2, <1>3, <1>4, <1>5, <1>6, <1>7 DEF CallStep

LEMMA FireSteps ==
    ASSUME Parameters, EngineTypes, TypeOK, NEW i \in InstanceIds, NEW tm \in Timers, Fire(i, tm)
    PROVE  EngineTypes' /\ [Next]_vars /\ \E c \in Tasks : c.inst = i /\ c.of = tm /\ Enqueue(c)
<1>1. /\ fires[<<i, tm>>] < MaxFires /\ fires' = [fires EXCEPT ![<<i, tm>>] = @ + 1]
      /\ armed' \subseteq armed /\ Enqueue([inst |-> i, of |-> tm, n |-> fires[<<i, tm>>] + 1])
      /\ UNCHANGED <<store, used, lane, body>>
  BY DEF Fire
<1>2. MaxFires \in Nat /\ fires \in [InstanceIds \X Timers -> 0..MaxFires] /\ <<i, tm>> \in InstanceIds \X Timers
  BY DEF Parameters, EngineTypes
<1>3. fires[<<i, tm>>] + 1 \in 1..MaxFires
  BY <1>1, <1>2
<1>4. PICK c \in Tasks : c = [inst |-> i, of |-> tm, n |-> fires[<<i, tm>>] + 1]
  BY <1>3, CallFacts
<1>5. Enqueue(c) /\ c.inst = i /\ c.of = tm
  BY <1>1, <1>4
<1>6. body' \in [Tasks -> BodyStates] /\ \A d \in Tasks : BodyIsAt(d)'
  BY <1>1, <1>5, BodiesStay, StageFacts
<1>7. fires' \in [InstanceIds \X Timers -> 0..MaxFires]
  BY <1>1, <1>2, <1>3
<1>8. lane' \in [Lanes -> LaneStates] /\ \A m \in Lanes : LaneIsAt(m)'
  BY <1>1, LanesStay
<1> QED
  BY <1>1, <1>5, <1>6, <1>7, <1>8 DEF EngineTypes, Next

LEMMA StepOfScheduler ==
    ASSUME Parameters, EngineTypes, TypeOK, [EngineNext]_engineVars
    PROVE  EngineTypes' /\ [Next]_vars
<1>1. CASE EngineNext
  BY <1>1, LaneSteps, CallSteps, FireSteps DEF EngineNext, Parameters
<1>2. CASE UNCHANGED engineVars
  <2>1. UNCHANGED <<store, used, armed, fires, lane, body, instanceQueues, existingChain, stage, outcome, ahead>>
    BY <1>2 DEF engineVars, vars
  <2>2. body' \in [Tasks -> BodyStates] /\ \A c \in Tasks : BodyIsAt(c)'
    BY <2>1, BodiesStay
  <2>3. lane' \in [Lanes -> LaneStates] /\ \A m \in Lanes : LaneIsAt(m)'
    BY <2>1, LanesStay
  <2> QED
    BY <2>1, <2>2, <2>3 DEF EngineTypes, vars
<1> QED
  BY <1>1, <1>2
-----------------------------------------------------------------------------
(* No update is lost. *)

\* An instance has no record before startSagaInstance has created it.
Creates(l, i) == lane[l].at = "create" /\ lane[l].inst = i
Uncreated(i) == i \notin used \/ \E l \in Lanes : Creates(l, i)
Creators == \A i \in InstanceIds : \A l, m \in Lanes : Creates(l, i) => i \in used /\ (Creates(m, i) => l = m)

\* Who reads the record then, finds none, so that no event is handled; only a timer takes that for a success.
Untouched(i) == /\ store[i] = Absent
                /\ \A c \in Tasks : c.inst = i => body[c].rec = Absent /\ (outcome[c] = Ok => c.of \in Timers)

\* An event reported successful is in the record and in every copy of it, and one about to be is in its own.
Told(c) == outcome[c] = Ok /\ c.of \in Events
Has(row, c) == row # Absent => c.of \in row.events
Remembered(c) == Has(store[c.inst], c) /\ \A d \in Tasks : d.inst = c.inst => Has(body[d].rec, c)
InWork(c) == /\ body[c].at \in {"save", "end"} => Has(body[c].rec, c)
             /\ body[c].at = "end" => Has(store[c.inst], c)

Updates == /\ Creators
           /\ \A i \in InstanceIds : Uncreated(i) => Untouched(i)
           /\ \A c \in Tasks : Told(c) => Remembered(c)
           /\ \A c \in Tasks : c.of \in Events => InWork(c)

\* What a lane's step does to the records.
LEMMA LaneUpdates ==
    ASSUME Parameters, EngineTypes, Creators, NEW l \in Lanes, LaneStep(l)
    PROVE  /\ body' = body /\ outcome' = outcome /\ Creators'
           /\ \A i \in InstanceIds : Uncreated(i)' => Uncreated(i)
           /\ \A i \in InstanceIds : \/ store'[i] = store[i] \/ store'[i] = Absent
                                     \/ Uncreated(i) /\ ~Uncreated(i)'
<1>t. /\ lane \in [Lanes -> LaneStates] /\ LaneIsAt(l) /\ store \in [InstanceIds -> Rows]
  BY DEF EngineTypes
<1>n. NextEvent(l) => \A m \in Lanes : lane'[m] = lane[m] \/ (m = l /\ lane'[m].at = "idle")
  BY <1>t DEF NextEvent, IdleLane
\* Nobody begins to create.
<1>s. ASSUME used \subseteq used', body' = body, outcome' = outcome,
             \A m \in Lanes : lane'[m] = lane[m] \/ (m = l /\ lane'[m].at # "create"),
             \A i \in InstanceIds : store'[i] = store[i] \/ store'[i] = Absent
      PROVE  /\ body' = body /\ outcome' = outcome /\ Creators'
             /\ \A i \in InstanceIds : Uncreated(i)' => Uncreated(i)
             /\ \A i \in InstanceIds : \/ store'[i] = store[i] \/ store'[i] = Absent
                                       \/ Uncreated(i) /\ ~Uncreated(i)'
  <2>1. \A i \in InstanceIds, m \in Lanes : Creates(m, i)' => Creates(m, i)
    BY <1>s DEF Creates
  <2>2. Creators'
    BY <1>s, <2>1 DEF Creators
  <2>3. \A i \in InstanceIds : Uncreated(i)' => Uncreated(i)
    BY <1>s, <2>1 DEF Uncreated
  <2> QED
    BY <1>s, <2>2, <2>3
<1>1. CASE Dispatch(l)
  <2>1. \/ NextEvent(l)
        \/ \A m \in Lanes : lane'[m] = lane[m] \/ (m = l /\ lane'[m].at \in {"start", "loop"})
    BY <1>1, <1>t DEF Dispatch, LaneStates
  <2>2. UNCHANGED <<store, used, body, outcome>>
    BY <1>1 DEF Dispatch, vars
  <2> QED
    BY <1>n, <1>s, <2>1, <2>2
<1>2. CASE HandOver(l)
  <2>1. \A m \in Lanes : lane'[m] = lane[m] \/ (m = l /\ lane'[m].at = "await")
    BY <1>2, <1>t DEF HandOver, LaneStates
  <2>2. UNCHANGED <<store, used, body, outcome>>
    BY <1>2 DEF HandOver, Enqueue
  <2> QED
    BY <1>s, <2>1, <2>2
<1>3. CASE Settle(l)
  <2>1. \/ NextEvent(l)
        \/ \A m \in Lanes : lane'[m] = lane[m] \/ (m = l /\ lane'[m].at = "loop")
    BY <1>3, <1>t DEF Settle, LaneStates
  <2>2. UNCHANGED <<store, used, body, outcome>>
    BY <1>3 DEF Settle, vars
  <2> QED
    BY <1>n, <1>s, <2>1, <2>2
<1>4. ASSUME NEW i \in InstanceIds, NEW b \in StartBehaviours, StartHandler(l, i, b)
      PROVE  /\ body' = body /\ outcome' = outcome /\ Creators' /\ store' = store
             /\ \A j \in InstanceIds : Uncreated(j)' => Uncreated(j)
  <2>1. /\ UNCHANGED <<store, body, outcome>> /\ used' = used \cup {i} /\ i \notin used /\ lane[l].at = "start"
        /\ \/ NextEvent(l)
           \/ \A m \in Lanes : lane'[m] = lane[m] \/ (m = l /\ lane'[m].at = "create" /\ lane'[m].inst = i)
    BY <1>4, <1>t DEF StartHandler, vars, LaneStates
  <2>2. CASE NextEvent(l)
    BY <1>n, <1>s, <2>1, <2>2
  <2>3. CASE \A m \in Lanes : lane'[m] = lane[m] \/ (m = l /\ lane'[m].at = "create" /\ lane'[m].inst = i)
    <3>1. \A j \in InstanceIds, m \in Lanes : Creates(m, j)' => Creates(m, j) \/ (m = l /\ j = i)
      BY <2>3 DEF Creates
    <3>2. \A m \in Lanes : ~Creates(m, i)
      BY <2>1 DEF Creators
    <3>3. Creators'
      BY <2>1, <3>1, <3>2 DEF Creators
    <3>4. \A j \in InstanceIds : Uncreated(j)' => Uncreated(j)
      BY <2>1, <3>1 DEF Uncreated
    <3> QED
      BY <2>1, <3>3, <3>4
  <2> QED
    BY <2>1, <2>2, <2>3
<1>5. CASE StartRefused(l)
  <2>1. NextEvent(l) /\ UNCHANGED <<store, used, body, outcome>>
    BY <1>5 DEF StartRefused, vars
  <2> QED
    BY <1>n, <1>s, <2>1
<1>6. CASE StartCreate(l)
  <2> PICK i \in InstanceIds : i = lane[l].inst
    BY <1>6, <1>t DEF StartCreate, LaneIsAt
  <2>1. /\ Creates(l, i) /\ store' = [store EXCEPT ![i] = lane[l].rec] /\ UNCHANGED <<used, body, outcome>>
        /\ \A m \in Lanes : m # l => lane'[m] = lane[m]
        /\ lane'[l].at = "end"
    BY <1>6, <1>t DEF StartCreate, vars, Creates, LaneStates
  <2>2. \A j \in InstanceIds, m \in Lanes : Creates(m, j)' => m # l /\ Creates(m, j)
    BY <2>1 DEF Creates
  <2>3. Creators'
    BY <2>1, <2>2 DEF Creators
  <2>4. \A j \in InstanceIds : Uncreated(j)' => Uncreated(j)
    BY <2>1, <2>2 DEF Uncreated
  <2>5. Uncreated(i) /\ ~Uncreated(i)'
    BY <2>1, <2>2 DEF Uncreated, Creators
  <2>6. \A j \in InstanceIds : j # i => store'[j] = store[j]
    BY <1>t, <2>1
  <2> QED
    BY <2>1, <2>3, <2>4, <2>5, <2>6
<1>7. CASE StartEnd(l)
  <2>1. NextEvent(l) /\ UNCHANGED <<used, body, outcome>> /\ HandleSagaInstanceEnd(lane[l].inst, lane[l].rec)
    BY <1>7 DEF StartEnd, vars
  <2>2. \A i \in InstanceIds : store'[i] = store[i] \/ store'[i] = Absent
    BY <1>t, <2>1 DEF HandleSagaInstanceEnd
  <2> QED
    BY <1>n, <1>s, <2>1, <2>2
<1> QED
  BY <1>1, <1>2, <1>3, <1>4, <1>5, <1>6, <1>7 DEF LaneStep

LEMMA LaneKeepsUpdates ==
    ASSUME Parameters, EngineTypes, Updates, NEW l \in Lanes, LaneStep(l)
    PROVE  Updates'
<1>1. /\ body' = body /\ outcome' = outcome /\ Creators'
      /\ \A i \in InstanceIds : Uncreated(i)' => Uncreated(i)
      /\ \A i \in InstanceIds : store'[i] = store[i] \/ store'[i] = Absent \/ (Uncreated(i) /\ ~Uncreated(i)')
  BY LaneUpdates DEF Updates
<1>2. \A i \in InstanceIds : Uncreated(i)' => Untouched(i)'
  BY <1>1 DEF Updates, Untouched
<1>3. ASSUME NEW c \in Tasks PROVE (Told(c)' => Remembered(c)') /\ (c.of \in Events => InWork(c)')
  <2>1. c.inst \in InstanceIds /\ (c.of \in Events => c.of \notin Timers)
    BY CallFacts
  <2>2. CASE store'[c.inst] = store[c.inst] \/ store'[c.inst] = Absent
    BY <1>1, <2>1, <2>2 DEF Updates, Told, Remembered, InWork, Has
  <2>3. CASE Uncreated(c.inst)
    <3>1. Untouched(c.inst)
      BY <2>1, <2>3 DEF Updates
    <3>2. c.of \in Events => outcome[c] # Ok /\ body[c].rec = Absent
      BY <2>1, <3>1 DEF Untouched
    <3>3. body[c].at \notin {"save", "end"} \/ c.of \notin Events
      BY <3>2 DEF EngineTypes, BodyIsAt
    <3> QED
      BY <1>1, <3>2, <3>3 DEF Told, InWork
  <2> QED
    BY <1>1, <2>1, <2>2, <2>3
<1> QED
  BY <1>1, <1>2, <1>3 DEF Updates

\* No two calls of one instance run at once.
LEMMA OneRuns == IInv => Serialized
<1> SUFFICES ASSUME IInv, NEW t \in Tasks, NEW u \in Siblings(t), stage[t] = "running", stage[u] = "running", t # u
             PROVE  FALSE
  BY DEF Serialized
<1>1. u \in Tasks /\ t \in Unsettled /\ u \in Unsettled
  BY DEF Siblings, Unsettled
<1>2. t \in ahead[u] \/ u \in ahead[t]
  BY <1>1 DEF IInv, TotalOrder
<1> QED
  BY <1>1, <1>2 DEF IInv, InOrder, Settled

LEMMA OthersAreIdle ==
    ASSUME Parameters, EngineTypes, IInv, NEW c \in Tasks, stage[c] = "running", NEW d \in Tasks, d # c, d.inst = c.inst
    PROVE  body[d].at = "none" /\ body[d].rec = Absent
<1>1. d \in Siblings(c)
  BY CallFacts
<1>2. stage[d] # "running"
  BY <1>1, OneRuns DEF Serialized
<1> QED
  BY <1>2 DEF EngineTypes, BodyIsAt

LEMMA CallKeepsUpdates ==
    ASSUME Parameters, EngineTypes, IInv, Updates, NEW c \in Tasks, CallStep(c)
    PROVE  Updates'
<1>t. /\ TypeOK /\ body \in [Tasks -> BodyStates] /\ BodyIsAt(c) /\ c.inst \in InstanceIds /\ c.of \in Events \cup Timers
      /\ store \in [InstanceIds -> Rows] /\ \A d \in Tasks : d.inst \in InstanceIds
      /\ \A e \in Events : e \notin Timers
  BY CallFacts DEF EngineTypes, IInv
<1>n. NoBody.at = "none" /\ NoBody.rec = Absent
  BY DEF NoBody
<1>k. c # Ok
  BY OutcomesAssumption
\* Nobody creates meanwhile.
<1>u. UNCHANGED <<used, lane>> => Creators' /\ \A i \in InstanceIds : Uncreated(i)' <=> Uncreated(i)
  BY DEF Updates, Creators, Uncreated, Creates
\* A body ends, and it was not of an event that succeeded.
<1>e. ASSUME NEW result, Finish(c, result), result = Ok => c.of \in Timers, body' = [body EXCEPT ![c] = NoBody],
             UNCHANGED <<store, used, lane>>
      PROVE  Updates'
  <2>1. /\ outcome'[c] = result /\ \A d \in Tasks : d # c => outcome'[d] = outcome[d]
    BY <1>e, <1>t, StageFacts
  <2>2. body'[c] = NoBody /\ \A d \in Tasks : d # c => body'[d] = body[d]
    BY <1>e, <1>t
  <2>3. \A d \in Tasks : Told(d)' => Told(d)
    BY <1>e, <1>t, <2>1 DEF Told
  <2>4. \A i \in InstanceIds : Untouched(i) => Untouched(i)'
    BY <1>e, <1>n, <2>1, <2>2 DEF Untouched
  <2>5. \A d \in Tasks : Remembered(d) => Remembered(d)'
    BY <1>e, <1>n, <2>2 DEF Remembered, Has
  <2>6. \A d \in Tasks : InWork(d) => InWork(d)'
    BY <1>e, <1>n, <2>2 DEF InWork
  <2> QED
    BY <1>e, <1>u, <2>3, <2>4, <2>5, <2>6 DEF Updates
<1>1. CASE Begin(c)
  <2>1. /\ Run(c) /\ body' = [body EXCEPT ![c] = [at |-> "handle", rec |-> store[c.inst]]] /\ UNCHANGED <<store, used, lane>>
    BY <1>1 DEF Begin
  <2>2. outcome' = outcome
    BY <2>1 DEF Run
  <2>3. body'[c].at = "handle" /\ body'[c].rec = store[c.inst] /\ \A d \in Tasks : d # c => body'[d] = body[d]
    BY <1>t, <2>1
  <2>4. \A i \in InstanceIds : Untouched(i) => Untouched(i)'
    BY <2>1, <2>2, <2>3 DEF Untouched
  <2>5. \A d \in Tasks : Remembered(d) => Remembered(d)'
    BY <2>1, <2>3 DEF Remembered, Has
  <2>6. \A d \in Tasks : InWork(d) => InWork(d)'
    BY <2>1, <2>3 DEF InWork
  <2> QED
    BY <1>u, <2>1, <2>2, <2>4, <2>5, <2>6 DEF Updates, Told
<1>2. CASE Missing(c)
  BY <1>2, <1>e, <1>k DEF Missing
<1>3. ASSUME NEW b \in Behaviours, Throw(c, b) PROVE Updates'
  BY <1>3, <1>e, <1>k DEF Throw
<1>4. ASSUME NEW b \in Behaviours, Handle(c, b) PROVE Updates'
  <2> DEFINE rec == Applied(Received(body[c].rec, c.of), b)
  <2>1. /\ body[c].at = "handle" /\ body[c].rec # Absent /\ body' = [body EXCEPT ![c] = [at |-> "save", rec |-> rec]]
        /\ UNCHANGED <<store, used, lane, outcome>>
    BY <1>4, <1>t DEF Handle, vars
  <2>2. body[c].rec \in Records
    BY <1>t, <2>1 DEF BodyStates, Rows
  <2>3. body[c].rec.events \subseteq rec.events /\ (c.of \in Events => c.of \in rec.events)
    <3>1. PICK was \in Records : /\ was = Received(body[c].rec, c.of)
                                 /\ body[c].rec.events \subseteq was.events
                                 /\ c.of \in Events => c.of \in was.events
      BY <1>t, <2>2, RecordFacts
    <3>2. Applied(was, b).events = was.events
      BY RecordFacts
    <3>3. rec = Applied(was, b)
      BY <3>1
    <3> HIDE DEF rec
    <3> QED
      BY <3>1, <3>2, <3>3
  <2> HIDE DEF rec
  <2>4. body'[c].at = "save" /\ body'[c].rec = rec /\ \A d \in Tasks : d # c => body'[d] = body[d]
    BY <1>t, <2>1
  <2>5. ~Uncreated(c.inst)
    BY <1>t, <2>1 DEF Updates, Untouched
  <2>6. \A i \in InstanceIds : Untouched(i) /\ i # c.inst => Untouched(i)'
    BY <2>1, <2>4 DEF Untouched
  <2>7. \A d \in Tasks : Remembered(d) => Remembered(d)'
    BY <2>1, <2>3, <2>4 DEF Remembered, Has
  <2>8. \A d \in Tasks : d.of \in Events /\ InWork(d) => InWork(d)'
    BY <2>1, <2>3, <2>4 DEF InWork, Has
  <2> QED
    BY <1>u, <2>1, <2>5, <2>6, <2>7, <2>8 DEF Updates, Told
<1>5. CASE Save(c)
  <2>1. /\ body[c].at = "save" /\ store' = [store EXCEPT ![c.inst] = body[c].rec] /\ body' = [body EXCEPT ![c] = [body[c] EXCEPT !.at = "end"]]
        /\ UNCHANGED <<used, lane, outcome, stage>>
    BY <1>5, <1>t DEF Save, vars
  <2>2. /\ body'[c].at = "end" /\ body'[c].rec = body[c].rec /\ \A d \in Tasks : d # c => body'[d] = body[d]
        /\ store'[c.inst] = body[c].rec /\ \A i \in InstanceIds : i # c.inst => store'[i] = store[i]
        /\ body[c].rec # Absent
    BY <1>t, <2>1 DEF BodyStates, BodyIsAt
  <2>3. \A d \in Tasks : d # c /\ d.inst = c.inst => body[d].at = "none"
    BY <1>t, <2>1, OthersAreIdle DEF BodyIsAt
  <2>5. ~Uncreated(c.inst)
    BY <1>t, <2>2 DEF Updates, Untouched
  <2>6. \A i \in InstanceIds : Untouched(i) /\ i # c.inst => Untouched(i)'
    BY <2>1, <2>2 DEF Untouched
  <2>7. \A d \in Tasks : Remembered(d) => Remembered(d)'
    BY <1>t, <2>2 DEF Remembered
  <2>8. \A d \in Tasks : InWork(d) => InWork(d)'
    BY <1>t, <2>1, <2>2, <2>3 DEF InWork
  <2> QED
    BY <1>u, <2>1, <2>5, <2>6, <2>7, <2>8 DEF Updates, Told
<1>6. CASE End(c)
  <2>1. /\ body[c].at = "end" /\ HandleSagaInstanceEnd(c.inst, body[c].rec) /\ Finish(c, Ok)
        /\ body' = [body EXCEPT ![c] = NoBody] /\ UNCHANGED <<used, lane>>
    BY <1>6 DEF End
  <2>2. /\ body'[c] = NoBody /\ \A d \in Tasks : d # c => body'[d] = body[d]
        /\ \A i \in InstanceIds : store'[i] = store[i] \/ store'[i] = Absent
    BY <1>t, <2>1 DEF HandleSagaInstanceEnd
  <2>3. stage[c] = "running" /\ outcome'[c] = Ok /\ \A d \in Tasks : d # c => outcome'[d] = outcome[d] /\ stage'[d] = stage[d]
    BY <1>t, <2>1, StageFacts
  <2>4. \A d \in Tasks : d # c /\ d.inst = c.inst => body[d].rec = Absent
    BY <2>3, OthersAreIdle
  <2>5. ~Uncreated(c.inst)
    BY <1>t, <2>1 DEF Updates, Untouched, BodyIsAt
  <2>6. \A i \in InstanceIds : Untouched(i) /\ i # c.inst => Untouched(i)'
    BY <2>2, <2>3 DEF Untouched
  <2>7. \A d \in Tasks : Remembered(d) => Remembered(d)'
    BY <1>n, <1>t, <2>2 DEF Remembered, Has
  <2>8. c.of \in Events => Remembered(c)'
    BY <1>n, <1>t, <2>1, <2>2, <2>4 DEF Updates, InWork, Remembered, Has
  <2>9. \A d \in Tasks : InWork(d) => InWork(d)'
    BY <1>n, <1>t, <2>2 DEF InWork, Has
  <2>10. \A d \in Tasks : Told(d)' => Told(d) \/ (d = c /\ c.of \in Events)
    BY <2>3 DEF Told
  <2> QED
    BY <1>u, <2>1, <2>5, <2>6, <2>7, <2>8, <2>9, <2>10 DEF Updates
<1>7. CASE Microtask(c)
  <2>1. (Skip(c) \/ Cleanup(c)) /\ UNCHANGED <<store, used, lane, body>>
    BY <1>7 DEF Microtask
  <2>2. \A d \in Tasks : outcome'[d] = Ok => outcome[d] = Ok
    BY <1>t, <2>1, StageFacts
  <2>3. \A d \in Tasks : (Told(d)' => Told(d)) /\ (Remembered(d) => Remembered(d)') /\ (InWork(d) => InWork(d)')
    BY <2>1, <2>2 DEF Told, Remembered, InWork
  <2>4. \A i \in InstanceIds : Untouched(i) => Untouched(i)'
    BY <2>1, <2>2 DEF Untouched
  <2> QED
    BY <1>u, <2>1, <2>3, <2>4 DEF Updates
<1> QED
  BY <1>1, <1>2, <1>3, <1>4, <1>5, <1>6, <1>7 DEF CallStep

LEMMA FireKeepsUpdates ==
    ASSUME Parameters, EngineTypes, TypeOK, Updates, NEW i \in InstanceIds, NEW tm \in Timers, Fire(i, tm)
    PROVE  Updates'
<1>1. UNCHANGED <<store, used, lane, body>>
  BY DEF Fire
<1>2. outcome' = outcome
  BY FireSteps DEF Enqueue
<1>3. Creators' /\ \A j \in InstanceIds : Uncreated(j)' <=> Uncreated(j)
  BY <1>1 DEF Updates, Creators, Uncreated, Creates
<1>4. \A c \in Tasks : (Told(c)' => Told(c)) /\ (Remembered(c) => Remembered(c)') /\ (InWork(c) => InWork(c)')
  BY <1>1, <1>2 DEF Told, Remembered, InWork
<1>5. \A j \in InstanceIds : Untouched(j) => Untouched(j)'
  BY <1>1, <1>2 DEF Untouched
<1> QED
  BY <1>3, <1>4, <1>5 DEF Updates

LEMMA InitEngine == ASSUME Parameters, EngineInit PROVE TypeOK /\ IInv /\ EngineTypes /\ Updates
<1>1. Init
  BY DEF EngineInit
<1>2. TypeOK /\ IInv /\ \A c \in Tasks : stage[c] = "idle" /\ outcome[c] = NoTask
  BY <1>1, InitIInv DEF IInv, Init
<1>3. /\ store = [i \in InstanceIds |-> Absent] /\ used = {} /\ armed = {} /\ fires = [x \in InstanceIds \X Timers |-> 0]
      /\ lane = [l \in Lanes |-> IdleLane(1)] /\ body = [c \in Tasks |-> NoBody]
  BY DEF EngineInit, Parameters
<1>4. /\ IdleLane(1) \in LaneStates /\ IdleLane(1).at = "idle" /\ IdleLane(1).next = 1
      /\ NoBody \in BodyStates /\ NoBody.at = "none" /\ NoBody.rec = Absent
  BY DEF IdleLane, NoBody, LaneStates, BodyStates, Rows
<1>5. \A l \in Lanes : 1 \in 1..Len(Stream[l]) + 1
  <2>1. \A l \in Lanes : Len(Stream[l]) \in Nat
    BY DEF Parameters
  <2> QED
    BY <2>1
<1>6. EngineTypes
  <2>1. MaxFires \in Nat
    BY DEF Parameters
  <2>2. fires \in [InstanceIds \X Timers -> 0..MaxFires]
    BY <1>3, <2>1
  <2>3. \A l \in Lanes : LaneIsAt(l)
    BY <1>3, <1>4, <1>5 DEF LaneIsAt
  <2>4. \A c \in Tasks : BodyIsAt(c)
    BY <1>2, <1>3, <1>4 DEF BodyIsAt
  <2> QED
    BY <1>3, <1>4, <2>2, <2>3, <2>4 DEF EngineTypes, Rows
<1>7. Updates
  <2>1. \A i \in InstanceIds, l \in Lanes : ~Creates(l, i)
    BY <1>3, <1>4 DEF Creates
  <2>2. \A i \in InstanceIds : Untouched(i)
    BY <1>2, <1>3, <1>4, OutcomesAssumption DEF Untouched
  <2>3. \A c \in Tasks : ~Told(c) /\ InWork(c)
    BY <1>2, <1>3, <1>4, OutcomesAssumption DEF Told, InWork
  <2> QED
    BY <2>1, <2>2, <2>3 DEF Updates, Creators
<1> QED
  BY <1>2, <1>6, <1>7

LEMMA StepOfEngine ==
    ASSUME Parameters, IInv, EngineTypes, Updates, [EngineNext]_engineVars
    PROVE  IInv' /\ EngineTypes' /\ Updates'
<1>1. EngineTypes' /\ [Next]_vars
  BY StepOfScheduler DEF IInv
<1>2. TypeOK' /\ IInv'
  BY <1>1, TypeStep, StepKeepsIInv DEF IInv
<1>3. CASE EngineNext
  <2>1. ASSUME NEW l \in Lanes, LaneStep(l) PROVE Updates'
    BY <2>1, LaneKeepsUpdates
  <2>2. ASSUME NEW c \in Calls, CallStep(c) PROVE Updates'
    <3>1. c \in Tasks
      BY DEF Parameters
    <3> QED
      BY <2>2, <3>1, CallKeepsUpdates
  <2>3. ASSUME NEW i \in InstanceIds, NEW tm \in Timers, Fire(i, tm) PROVE Updates'
    BY <2>3, FireKeepsUpdates DEF IInv
  <2> QED
    BY <1>1, <1>2, <1>3, <2>1, <2>2, <2>3 DEF EngineNext
<1>4. CASE UNCHANGED engineVars
  <2>1. UNCHANGED <<store, used, lane, body, outcome>>
    BY <1>4 DEF engineVars, vars
  <2>2. Creators' /\ \A i \in InstanceIds : Uncreated(i)' <=> Uncreated(i)
    BY <2>1 DEF Updates, Creators, Uncreated, Creates
  <2>3. \A c \in Tasks : (Told(c)' => Told(c)) /\ (Remembered(c) => Remembered(c)') /\ (InWork(c) => InWork(c)')
    BY <2>1 DEF Told, Remembered, InWork
  <2>4. \A i \in InstanceIds : Untouched(i) => Untouched(i)'
    BY <2>1 DEF Untouched
  <2>5. \A i \in InstanceIds : Uncreated(i)' => Untouched(i)'
    BY <2>2, <2>4 DEF Updates
  <2>6. \A c \in Tasks : (Told(c)' => Remembered(c)') /\ (c.of \in Events => InWork(c)')
    BY <2>3 DEF Updates
  <2> QED
    BY <1>1, <1>2, <2>2, <2>5, <2>6 DEF Updates
<1> QED
  BY <1>1, <1>2, <1>3, <1>4

\* An event whose step was reported successful is in the instance's record as long as there is one: for any lanes, streams,
\* handlers and timers, although every step reads, changes and writes the record with awaits in between, and starts go past
\* the scheduler.
THEOREM NothingIsOverwritten == ASSUME Parameters PROVE EngineSpec => []NoLostUpdate
<1>1. EngineInit => IInv /\ EngineTypes /\ Updates
  BY InitEngine
<1>2. IInv /\ EngineTypes /\ Updates /\ [EngineNext]_engineVars => IInv' /\ EngineTypes' /\ Updates'
  BY StepOfEngine
<1>3. Updates => NoLostUpdate
  <2> SUFFICES ASSUME Updates PROVE NoLostUpdate
    OBVIOUS
  <2>1. \A c \in Calls : c \in Tasks
    BY DEF Parameters
  <2> QED
    BY <2>1 DEF Updates, Told, Remembered, Has, NoLostUpdate
<1> QED
  BY <1>1, <1>2, <1>3, PTL DEF EngineSpec

\* Through its tables, lanes and bodies the engine takes the scheduler's steps and no others, so that all that is proved of the
\* scheduler holds of the saga's events and timers; and its own variables keep their types.
THEOREM EngineIsScheduled == ASSUME Parameters PROVE EngineSpec => Init /\ [][Next]_vars /\ []EngineTypeOK
<1>1. EngineInit => Init /\ IInv /\ EngineTypes /\ Updates
  BY InitEngine DEF EngineInit
<1>2. IInv /\ EngineTypes /\ Updates /\ [EngineNext]_engineVars => IInv' /\ EngineTypes' /\ Updates'
  BY StepOfEngine
<1>3. IInv /\ EngineTypes /\ [EngineNext]_engineVars => [Next]_vars
  BY StepOfScheduler DEF IInv
<1>4. EngineTypes => EngineTypeOK
  BY DEF EngineTypes, EngineTypeOK, LaneIsAt, BodyIsAt, Rows, Parameters
<1> QED
  BY <1>1, <1>2, <1>3, <1>4, PTL DEF EngineSpec
-----------------------------------------------------------------------------
(* No record comes back, and no schedule outlives its record, if the handlers that start an instance do not end it: starts *)
(* go past the scheduler, and the end of one could meet a step.                                                            *)

StartsGoOn == \A b \in StartBehaviours : b.end = "no"

ArmedOf(i) == {tm \in Timers : <<i, tm>> \in armed}
Active(row) == IF row = Absent THEN {} ELSE row.activeTimers
Saving(i) == \E c \in Tasks : c.inst = i /\ body[c].at = "save"

\* A body works on the record that is stored, until it saves its own.
OnRecord(c) == /\ body[c].rec # Absent => store[c.inst] # Absent
               /\ body[c].at \in {"handle", "end"} /\ body[c].rec # Absent => store[c.inst] = body[c].rec

\* The schedules of an instance are those of its record: of the one that is about to be created or saved, if there is one.
Scheduling(i) ==
    /\ i \notin used => ArmedOf(i) = {}
    /\ \A l \in Lanes : Creates(l, i) => ArmedOf(i) \subseteq lane[l].rec.activeTimers
    /\ \A c \in Tasks : c.inst = i /\ body[c].at = "save" => ArmedOf(i) \subseteq body[c].rec.activeTimers
    /\ ~Uncreated(i) /\ ~Saving(i) => ArmedOf(i) \subseteq Active(store[i])

Schedules == /\ \A l \in Lanes : lane[l].at \in {"create", "end"} => lane[l].rec.ended = FALSE
             /\ \A c \in Tasks : OnRecord(c)
             /\ \A i \in InstanceIds : Scheduling(i)

\* Where nothing but a lane that does not create moves.
LEMMA SchedulesStay ==
    ASSUME Parameters, EngineTypes, Updates, Schedules, UNCHANGED <<store, used>>, armed' \subseteq armed,
           \A m \in Lanes : lane'[m] = lane[m] \/ (lane'[m].at \notin {"create", "end"} /\ lane[m].at # "create"),
           \A c \in Tasks : body'[c] = body[c] \/ (body[c].at # "save" /\ body'[c].at # "save" /\ OnRecord(c)')
    PROVE  Schedules'
<1>1. \A i \in InstanceIds, m \in Lanes : Creates(m, i)' <=> Creates(m, i)
  BY DEF Creates
<1>2. \A i \in InstanceIds : /\ Uncreated(i)' <=> Uncreated(i)
                             /\ ArmedOf(i)' \subseteq ArmedOf(i)
  BY <1>1 DEF Uncreated, ArmedOf
<1>3. \A c \in Tasks : /\ body'[c].at = "save" <=> body[c].at = "save"
                       /\ body'[c].at = "save" => body'[c] = body[c]
  OBVIOUS
<1>4. \A i \in InstanceIds : Saving(i)' <=> Saving(i)
  BY <1>3 DEF Saving
<1>5. \A l \in Lanes : lane'[l].at \in {"create", "end"} => lane'[l].rec.ended = FALSE
  BY DEF Schedules
<1>6. \A c \in Tasks : OnRecord(c)'
  BY DEF Schedules, OnRecord
<1>7. \A i \in InstanceIds : Active(store[i])' = Active(store[i])
  BY DEF Active
<1>8. ASSUME NEW i \in InstanceIds PROVE Scheduling(i)'
  <2>1. Scheduling(i) /\ ArmedOf(i)' \subseteq ArmedOf(i)
    BY <1>2 DEF Schedules
  <2>2. \A l \in Lanes : Creates(l, i)' => ArmedOf(i)' \subseteq lane'[l].rec.activeTimers
    BY <1>1, <2>1 DEF Scheduling, Creates
  <2>3. \A c \in Tasks : c.inst = i /\ body'[c].at = "save" => ArmedOf(i)' \subseteq body'[c].rec.activeTimers
    BY <1>3, <2>1 DEF Scheduling
  <2> QED
    BY <1>2, <1>4, <1>7, <2>1, <2>2, <2>3 DEF Scheduling
<1> QED
  BY <1>5, <1>6, <1>8 DEF Schedules

LEMMA LaneKeepsSchedules ==
    ASSUME Parameters, StartsGoOn, EngineTypes, Updates, Schedules, NEW l \in Lanes, LaneStep(l)
    PROVE  /\ Schedules'
           /\ \A i \in InstanceIds : store[i] = Absent /\ store'[i] # Absent => Creates(l, i)
<1>t. /\ lane \in [Lanes -> LaneStates] /\ LaneIsAt(l) /\ store \in [InstanceIds -> Rows]
  BY DEF EngineTypes
<1>n. NextEvent(l) => \A m \in Lanes : lane'[m] = lane[m] \/ (m = l /\ lane'[m].at = "idle")
  BY <1>t DEF NextEvent, IdleLane
<1>1. CASE Dispatch(l)
  <2>1. \/ NextEvent(l)
        \/ \A m \in Lanes : lane'[m] = lane[m] \/ (m = l /\ lane'[m].at \in {"start", "loop"})
    BY <1>1, <1>t DEF Dispatch, LaneStates
  <2>2. lane[l].at = "idle" /\ UNCHANGED <<store, used, armed, body>>
    BY <1>1 DEF Dispatch
  <2> QED
    BY <1>n, <2>1, <2>2, SchedulesStay
<1>2. CASE HandOver(l)
  <2>1. \A m \in Lanes : lane'[m] = lane[m] \/ (m = l /\ lane'[m].at = "await")
    BY <1>2, <1>t DEF HandOver, LaneStates
  <2>2. lane[l].at = "loop" /\ UNCHANGED <<store, used, armed, body>>
    BY <1>2 DEF HandOver
  <2> QED
    BY <2>1, <2>2, SchedulesStay
<1>3. CASE Settle(l)
  <2>1. \/ NextEvent(l)
        \/ \A m \in Lanes : lane'[m] = lane[m] \/ (m = l /\ lane'[m].at = "loop")
    BY <1>3, <1>t DEF Settle, LaneStates
  <2>2. lane[l].at = "await" /\ UNCHANGED <<store, used, armed, body>>
    BY <1>3 DEF Settle
  <2> QED
    BY <1>n, <2>1, <2>2, SchedulesStay
<1>4. ASSUME NEW i \in InstanceIds, NEW b \in StartBehaviours, StartHandler(l, i, b) PROVE Schedules' /\ store' = store
  <2> DEFINE new == [events |-> {CurrentEvent(l)}, activeTimers |-> {}, ended |-> FALSE, preserve |-> FALSE]
             rec == Applied(new, b)
  <2>1. /\ UNCHANGED <<store, body>> /\ used' = used \cup {i} /\ i \notin used /\ lane[l].at = "start"
        /\ \/ NextEvent(l) /\ armed' = armed
           \/ /\ armed' = Scheduled(armed, i, b)
              /\ \A m \in Lanes : m # l => lane'[m] = lane[m]
              /\ lane'[l].at = "create" /\ lane'[l].inst = i /\ lane'[l].rec = rec
    BY <1>4, <1>t DEF StartHandler, LaneStates
  <2>2. /\ ArmedOf(i) = {} /\ Uncreated(i) /\ Untouched(i) /\ \A m \in Lanes : ~Creates(m, i)
    BY <2>1 DEF Schedules, Scheduling, Updates, Uncreated, Creators
  <2>3. ~Saving(i)
    BY <2>2 DEF Untouched, Saving, EngineTypes, BodyIsAt
  <2>4. /\ \A c \in Tasks : OnRecord(c)' /\ c.inst \in InstanceIds
        /\ \A j \in InstanceIds : (Saving(j)' <=> Saving(j)) /\ Active(store[j])' = Active(store[j])
    BY <2>1, CallFacts DEF Schedules, OnRecord, Saving, Active
  <2>5. CASE NextEvent(l) /\ armed' = armed
    <3>1. \A j \in InstanceIds, m \in Lanes : Creates(m, j)' <=> Creates(m, j)
      BY <1>n, <2>1, <2>5 DEF Creates
    <3>2. \A j \in InstanceIds : ArmedOf(j)' = ArmedOf(j) /\ (j # i => (Uncreated(j)' <=> Uncreated(j)))
      BY <2>1, <2>5, <3>1 DEF ArmedOf, Uncreated
    <3>3. ASSUME NEW j \in InstanceIds PROVE Scheduling(j)'
      <4>1. Scheduling(j) /\ \A m \in Lanes : Creates(m, j)' => lane'[m] = lane[m]
        BY <1>n, <2>1, <2>5 DEF Schedules, Creates
      <4>2. CASE j = i
        BY <2>1, <2>2, <3>2, <4>2 DEF Scheduling
      <4>3. CASE j # i
        BY <2>1, <2>4, <3>1, <3>2, <4>1, <4>3 DEF Scheduling
      <4> QED
        BY <4>2, <4>3
    <3>4. \A m \in Lanes : lane'[m].at \in {"create", "end"} => lane'[m].rec.ended = FALSE
      BY <1>n, <2>5 DEF Schedules
    <3> QED
      BY <2>1, <2>4, <3>3, <3>4 DEF Schedules
  <2>6. CASE ~(NextEvent(l) /\ armed' = armed)
    <3>1. /\ \A m \in Lanes : m # l => lane'[m] = lane[m]
          /\ lane'[l].at = "create" /\ lane'[l].inst = i /\ lane'[l].rec = rec /\ armed' = Scheduled(armed, i, b)
      BY <2>1, <2>6
    <3>2. new \in Records
      BY <1>t, <2>1, EventFacts, RecordFacts DEF LaneIsAt
    <3>3. rec.activeTimers = b.add \ b.remove /\ rec.ended = FALSE
      BY <3>2, RecordFacts DEF StartsGoOn
    <3> HIDE DEF rec, new
    <3>4. ArmedOf(i)' \subseteq b.add \ b.remove /\ \A j \in InstanceIds : j # i => ArmedOf(j)' = ArmedOf(j)
      BY <2>2, <3>1 DEF ArmedOf, Scheduled
    <3>5. /\ \A j \in InstanceIds, m \in Lanes : j # i => (Creates(m, j)' <=> Creates(m, j))
          /\ \A m \in Lanes : Creates(m, i)' <=> m = l
      BY <2>1, <2>2, <3>1 DEF Creates
    <3>6. Uncreated(i)' /\ \A j \in InstanceIds : j # i => (Uncreated(j)' <=> Uncreated(j))
      BY <2>1, <3>5 DEF Uncreated
    <3>7. ASSUME NEW j \in InstanceIds PROVE Scheduling(j)'
      <4>1. CASE j = i
        <5>1. \A m \in Lanes : Creates(m, i)' => ArmedOf(i)' \subseteq lane'[m].rec.activeTimers
          BY <3>1, <3>3, <3>4, <3>5
        <5>2. \A c \in Tasks : c.inst = i => body'[c].at # "save"
          BY <2>1, <2>3 DEF Saving
        <5> QED
          BY <2>1, <3>6, <4>1, <5>1, <5>2 DEF Scheduling
      <4>2. CASE j # i
        <5>1. Scheduling(j) /\ \A m \in Lanes : Creates(m, j)' => lane'[m] = lane[m]
          BY <2>1, <3>1, <4>2 DEF Schedules, Creates
        <5> QED
          BY <2>1, <2>4, <3>4, <3>5, <3>6, <4>2, <5>1 DEF Scheduling
      <4> QED
        BY <4>1, <4>2
    <3>8. \A m \in Lanes : lane'[m].at \in {"create", "end"} => lane'[m].rec.ended = FALSE
      BY <3>1, <3>3 DEF Schedules
    <3> QED
      BY <2>1, <2>4, <3>7, <3>8 DEF Schedules
  <2> QED
    BY <2>5, <2>6
<1>5. CASE StartRefused(l)
  <2>1. lane[l].at = "start" /\ NextEvent(l) /\ UNCHANGED <<store, used, armed, body>>
    BY <1>5 DEF StartRefused
  <2> QED
    BY <1>n, <2>1, SchedulesStay
<1>6. CASE StartCreate(l)
  <2> PICK i \in InstanceIds : i = lane[l].inst
    BY <1>6, <1>t DEF StartCreate, LaneIsAt
  <2>1. /\ Creates(l, i) /\ store' = [store EXCEPT ![i] = lane[l].rec] /\ UNCHANGED <<used, armed, body>>
        /\ \A m \in Lanes : m # l => lane'[m] = lane[m]
        /\ lane'[l].at = "end" /\ lane'[l].rec = lane[l].rec /\ lane[l].rec \in Records
    BY <1>6, <1>t DEF StartCreate, Creates, LaneStates, LaneIsAt
  <2>2. store'[i] = lane[l].rec /\ \A j \in InstanceIds : j # i => store'[j] = store[j]
    BY <1>t, <2>1
  <2>3. Untouched(i)
    BY <2>1 DEF Updates, Uncreated
  <2>4. \A c \in Tasks : c.inst \in InstanceIds /\ OnRecord(c)'
    BY <2>1, <2>2, <2>3, CallFacts DEF Schedules, OnRecord, Untouched
  <2>5. \A m \in Lanes : lane'[m].at \in {"create", "end"} => lane'[m].rec.ended = FALSE
    BY <2>1 DEF Schedules, Creates
  <2>6. /\ \A j \in InstanceIds, m \in Lanes : Creates(m, j)' => Creates(m, j) /\ m # l
        /\ \A j \in InstanceIds : ArmedOf(j)' = ArmedOf(j) /\ (Saving(j)' <=> Saving(j))
        /\ \A j \in InstanceIds, m \in Lanes : j # i => (Creates(m, j)' <=> Creates(m, j))
    BY <2>1 DEF Creates, ArmedOf, Saving
  <2>7. \A j \in InstanceIds : j # i => (Uncreated(j)' <=> Uncreated(j))
    BY <2>1, <2>6 DEF Uncreated
  <2>8. ASSUME NEW j \in InstanceIds PROVE Scheduling(j)'
    <3>1. Scheduling(j) /\ \A m \in Lanes : Creates(m, j)' => lane'[m] = lane[m]
      BY <2>1, <2>6 DEF Schedules
    <3>2. CASE j = i
      <4>1. ArmedOf(i) \subseteq Active(store[i])'
        BY <2>1, <2>2, <3>1, <3>2, RecordFacts DEF Scheduling, Active
      <4> QED
        BY <2>1, <2>6, <3>1, <3>2, <4>1 DEF Scheduling
    <3>3. CASE j # i
      <4>1. Active(store[j])' = Active(store[j])
        BY <2>2, <3>3 DEF Active
      <4> QED
        BY <2>1, <2>6, <2>7, <3>1, <3>3, <4>1 DEF Scheduling
    <3> QED
      BY <3>2, <3>3
  <2>9. \A j \in InstanceIds : store[j] = Absent /\ store'[j] # Absent => Creates(l, j)
    BY <2>1, <2>2
  <2> QED
    BY <2>4, <2>5, <2>8, <2>9 DEF Schedules
<1>7. CASE StartEnd(l)
  <2>1. /\ lane[l].at = "end" /\ NextEvent(l) /\ UNCHANGED <<used, body>>
        /\ HandleSagaInstanceEnd(lane[l].inst, lane[l].rec)
    BY <1>7 DEF StartEnd
  <2>2. lane[l].rec.ended = FALSE
    BY <2>1 DEF Schedules
  <2>3. UNCHANGED <<store, armed>>
    BY <2>1, <2>2 DEF HandleSagaInstanceEnd
  <2> QED
    BY <1>n, <2>1, <2>3, SchedulesStay
<1> QED
  BY <1>1, <1>2, <1>3, <1>4, <1>5, <1>6, <1>7 DEF LaneStep

LEMMA CallKeepsSchedules ==
    ASSUME Parameters, EngineTypes, IInv, Updates, Schedules, NEW c \in Tasks, CallStep(c)
    PROVE  /\ Schedules'
           /\ \A i \in InstanceIds : store[i] = Absent => store'[i] = Absent
<1>t. /\ TypeOK /\ body \in [Tasks -> BodyStates] /\ BodyIsAt(c) /\ c.inst \in InstanceIds /\ c.of \in Events \cup Timers
      /\ store \in [InstanceIds -> Rows] /\ \A d \in Tasks : d.inst \in InstanceIds
      /\ OnRecord(c) /\ Scheduling(c.inst) /\ Absent \notin Records
  BY CallFacts, RecordFacts DEF EngineTypes, IInv, Schedules
<1>n. NoBody.at = "none" /\ NoBody.rec = Absent
  BY DEF NoBody
<1>i. stage[c] = "running" => \A d \in Tasks : d # c /\ d.inst = c.inst => body[d].at = "none" /\ body[d].rec = Absent
  BY OthersAreIdle
<1>w. body[c].rec # Absent => body[c].rec \in Records /\ ~Uncreated(c.inst) /\ c.inst \in used /\ \A l \in Lanes : ~Creates(l, c.inst)
  BY <1>t DEF BodyStates, Rows, Updates, Untouched, Uncreated
\* A body that is not about to save goes elsewhere, and no record changes.
<1>s. ASSUME NEW r, body' = [body EXCEPT ![c] = r], r.at # "save", body[c].at # "save", UNCHANGED <<store, used, armed, lane>>,
             r.rec # Absent => r.rec = store[c.inst] /\ store[c.inst] # Absent
      PROVE  Schedules' /\ \A i \in InstanceIds : store[i] = Absent => store'[i] = Absent
  <2>1. body'[c] = r /\ \A d \in Tasks : d # c => body'[d] = body[d]
    BY <1>s, <1>t
  <2>2. OnRecord(c)'
    BY <1>s, <2>1 DEF OnRecord
  <2>3. Schedules'
    BY <1>s, <2>1, <2>2, SchedulesStay
  <2> QED
    BY <1>s, <2>3
<1>1. CASE Begin(c)
  <2>1. /\ Run(c) /\ body' = [body EXCEPT ![c] = [at |-> "handle", rec |-> store[c.inst]]]
        /\ UNCHANGED <<store, used, armed, lane>>
    BY <1>1 DEF Begin
  <2>2. body[c].at = "none"
    BY <1>t, <2>1, StageFacts DEF BodyIsAt
  <2> DEFINE r == [at |-> "handle", rec |-> store[c.inst]]
  <2>3. r.at = "handle" /\ r.rec = store[c.inst]
    OBVIOUS
  <2>4. body' = [body EXCEPT ![c] = r]
    BY <2>1
  <2> HIDE DEF r
  <2>5. r.at # "save" /\ body[c].at # "save" /\ (r.rec # Absent => r.rec = store[c.inst] /\ store[c.inst] # Absent)
    BY <2>2, <2>3
  <2> QED
    BY <1>s, <2>1, <2>4, <2>5
<1>2. CASE Missing(c)
  BY <1>2, <1>n, <1>s DEF Missing
<1>3. ASSUME NEW b \in Behaviours, Throw(c, b) PROVE Schedules' /\ \A i \in InstanceIds : store[i] = Absent => store'[i] = Absent
  BY <1>3, <1>n, <1>s DEF Throw
<1>4. ASSUME NEW b \in Behaviours, Handle(c, b) PROVE Schedules' /\ \A i \in InstanceIds : store[i] = Absent => store'[i] = Absent
  <2> DEFINE rec == Applied(Received(body[c].rec, c.of), b)
  <2>1. /\ body[c].at = "handle" /\ body[c].rec # Absent /\ body' = [body EXCEPT ![c] = [at |-> "save", rec |-> rec]]
        /\ armed' = Scheduled(armed \ Spent(c), c.inst, b) /\ UNCHANGED <<store, used, lane>>
    BY <1>4 DEF Handle
  <2>2. PICK was \in Records : was = Received(body[c].rec, c.of)
    BY <1>t, <1>w, <2>1, RecordFacts
  <2>3. rec.activeTimers = (was.activeTimers \cup b.add) \ b.remove
    BY <2>2, RecordFacts
  <2> HIDE DEF rec
  <2>4. body'[c].at = "save" /\ body'[c].rec = rec /\ \A d \in Tasks : d # c => body'[d] = body[d]
    BY <1>t, <2>1
  <2>5. \A d \in Tasks : d # c /\ d.inst = c.inst => body[d].at = "none"
    BY <1>i, <1>t, <2>1 DEF BodyIsAt
  <2>6. ArmedOf(c.inst) \subseteq body[c].rec.activeTimers
    <3>1. ~Saving(c.inst)
      BY <2>1, <2>5 DEF Saving
    <3>2. Active(store[c.inst]) = body[c].rec.activeTimers
      BY <1>t, <2>1 DEF OnRecord, Active
    <3> QED
      BY <1>t, <1>w, <2>1, <3>1, <3>2 DEF Scheduling
  <2>7. \A tm \in ArmedOf(c.inst) : <<c.inst, tm>> \in armed \ Spent(c) => tm \in was.activeTimers
    <3>1. CASE c.of \in Timers \ Crons
      <4>1. was.activeTimers = body[c].rec.activeTimers \ {c.of}
        BY <1>w, <2>1, <2>2, <3>1, RecordFacts
      <4>2. c.of \in body[c].rec.activeTimers => Spent(c) = {<<c.inst, c.of>>}
        BY <3>1 DEF Spent
      <4> QED
        BY <2>6, <4>1, <4>2
    <3>2. CASE c.of \notin Timers \ Crons
      <4>1. c.of \in Events \cup Crons
        BY <1>t, <3>2
      <4>2. was.activeTimers = body[c].rec.activeTimers
        BY <1>t, <1>w, <2>1, <2>2, <4>1, RecordFacts
      <4> QED
        BY <2>6, <4>2
    <3> QED
      BY <3>1, <3>2
  <2>8. ArmedOf(c.inst)' \subseteq rec.activeTimers
    <3> SUFFICES ASSUME NEW tm \in Timers, <<c.inst, tm>> \in armed' PROVE tm \in rec.activeTimers
      BY DEF ArmedOf
    <3>1. /\ <<c.inst, tm>> \in armed \ Spent(c) \/ tm \in b.add
          /\ tm \notin b.remove
      BY <2>1 DEF Scheduled
    <3>2. <<c.inst, tm>> \in armed \ Spent(c) => tm \in was.activeTimers
      BY <2>7 DEF ArmedOf
    <3> QED
      BY <2>3, <3>1, <3>2
  <2>9. \A i \in InstanceIds : i # c.inst => ArmedOf(i)' = ArmedOf(i)
    BY <2>1 DEF ArmedOf, Scheduled, Spent
  <2>10. /\ \A i \in InstanceIds : (Uncreated(i)' <=> Uncreated(i)) /\ Active(store[i])' = Active(store[i])
         /\ \A i \in InstanceIds, m \in Lanes : Creates(m, i)' <=> Creates(m, i)
    BY <2>1 DEF Uncreated, Creates, Active
  <2>11. \A d \in Tasks : OnRecord(d)'
    BY <1>t, <2>1, <2>4 DEF Schedules, OnRecord
  <2>12. ASSUME NEW i \in InstanceIds PROVE Scheduling(i)'
    <3>1. CASE i = c.inst
      <4>1. Saving(i)'
        BY <2>4, <3>1 DEF Saving
      <4>2. \A d \in Tasks : d.inst = i /\ body'[d].at = "save" => d = c
        BY <2>4, <2>5, <3>1
      <4>3. i \in used' /\ \A l \in Lanes : ~Creates(l, i)'
        BY <1>w, <2>1, <2>10, <3>1
      <4> QED
        BY <2>4, <2>8, <3>1, <4>1, <4>2, <4>3 DEF Scheduling
    <3>2. CASE i # c.inst
      <4>1. Scheduling(i)
        BY DEF Schedules
      <4>2. \A d \in Tasks : d.inst = i => body'[d] = body[d]
        BY <2>4, <3>2
      <4>3. Saving(i)' <=> Saving(i)
        BY <4>2 DEF Saving
      <4> QED
        BY <2>1, <2>9, <2>10, <3>2, <4>1, <4>2, <4>3 DEF Scheduling
    <3> QED
      BY <3>1, <3>2
  <2> QED
    BY <2>1, <2>11, <2>12 DEF Schedules
<1>5. CASE Save(c)
  <2>1. /\ body[c].at = "save" /\ store' = [store EXCEPT ![c.inst] = body[c].rec]
        /\ body' = [body EXCEPT ![c] = [body[c] EXCEPT !.at = "end"]] /\ UNCHANGED <<used, armed, lane>>
    BY <1>5, <1>t DEF Save
  <2>2. /\ body'[c].at = "end" /\ body'[c].rec = body[c].rec /\ \A d \in Tasks : d # c => body'[d] = body[d]
        /\ store'[c.inst] = body[c].rec /\ \A i \in InstanceIds : i # c.inst => store'[i] = store[i]
        /\ body[c].rec # Absent
    BY <1>t, <2>1 DEF BodyStates, BodyIsAt
  <2>3. \A d \in Tasks : d # c /\ d.inst = c.inst => body[d].at = "none" /\ body[d].rec = Absent
    BY <1>i, <1>t, <2>1 DEF BodyIsAt
  <2>4. \A d \in Tasks : OnRecord(d)'
    BY <1>t, <2>2, <2>3 DEF Schedules, OnRecord
  <2>5. /\ \A i \in InstanceIds : (Uncreated(i)' <=> Uncreated(i)) /\ ArmedOf(i)' = ArmedOf(i)
        /\ \A i \in InstanceIds, m \in Lanes : Creates(m, i)' <=> Creates(m, i)
    BY <2>1 DEF Uncreated, Creates, ArmedOf
  <2>6. ASSUME NEW i \in InstanceIds PROVE Scheduling(i)'
    <3>1. Scheduling(i)
      BY DEF Schedules
    <3>2. CASE i = c.inst
      <4>1. Active(store[i])' = body[c].rec.activeTimers
        BY <2>2, <3>2 DEF Active
      <4>2. ArmedOf(i)' \subseteq body[c].rec.activeTimers
        BY <2>1, <2>5, <3>1, <3>2 DEF Scheduling
      <4>3. \A d \in Tasks : d.inst = i => body'[d].at # "save"
        BY <2>2, <2>3, <3>2
      <4> QED
        BY <1>w, <2>1, <2>2, <2>5, <3>2, <4>1, <4>2, <4>3 DEF Scheduling
    <3>3. CASE i # c.inst
      <4>1. Active(store[i])' = Active(store[i])
        BY <2>2, <3>3 DEF Active
      <4>2. \A d \in Tasks : d.inst = i => body'[d] = body[d]
        BY <2>2, <3>3
      <4>3. Saving(i)' <=> Saving(i)
        BY <4>2 DEF Saving
      <4> QED
        BY <2>1, <2>5, <3>1, <3>3, <4>1, <4>2, <4>3 DEF Scheduling
    <3> QED
      BY <3>2, <3>3
  <2>7. \A i \in InstanceIds : store[i] = Absent => store'[i] = Absent
    BY <1>t, <2>2 DEF OnRecord
  <2> QED
    BY <2>1, <2>4, <2>6, <2>7 DEF Schedules
<1>6. CASE End(c)
  <2>1. /\ body[c].at = "end" /\ HandleSagaInstanceEnd(c.inst, body[c].rec)
        /\ body' = [body EXCEPT ![c] = NoBody] /\ UNCHANGED <<used, lane>>
    BY <1>6 DEF End
  <2>2. body[c].rec # Absent /\ store[c.inst] = body[c].rec
    BY <1>t, <2>1 DEF BodyIsAt, OnRecord
  <2>3. body'[c] = NoBody /\ \A d \in Tasks : d # c => body'[d] = body[d]
    BY <1>t, <2>1
  <2>4. \A d \in Tasks : d # c /\ d.inst = c.inst => body[d].at = "none" /\ body[d].rec = Absent
    BY <1>i, <1>t, <2>1 DEF BodyIsAt
  <2>5. /\ store'[c.inst] \in {store[c.inst], Absent} /\ \A i \in InstanceIds : i # c.inst => store'[i] = store[i]
        /\ store'[c.inst] = Absent => body[c].rec.ended
        /\ armed' = IF body[c].rec.ended THEN armed \ ({c.inst} \X body[c].rec.activeTimers) ELSE armed
    BY <1>t, <2>1, <2>2 DEF HandleSagaInstanceEnd
  <2>6. \A d \in Tasks : OnRecord(d)'
    BY <1>n, <1>t, <2>3, <2>4, <2>5 DEF Schedules, OnRecord
  <2>7. /\ \A i \in InstanceIds : (Uncreated(i)' <=> Uncreated(i)) /\ (i # c.inst => ArmedOf(i)' = ArmedOf(i))
        /\ \A i \in InstanceIds, m \in Lanes : Creates(m, i)' <=> Creates(m, i)
    BY <2>1, <2>5 DEF Uncreated, Creates, ArmedOf
  <2>8. \A d \in Tasks : d.inst = c.inst => body[d].at # "save" /\ body'[d].at # "save"
    BY <1>n, <2>1, <2>3, <2>4
  <2>9. ArmedOf(c.inst) \subseteq body[c].rec.activeTimers
    BY <1>t, <1>w, <2>2, <2>8 DEF Scheduling, Saving, Active
  <2>10. ArmedOf(c.inst)' \subseteq Active(store[c.inst])'
    <3>1. CASE body[c].rec.ended
      BY <2>5, <2>9, <3>1 DEF ArmedOf
    <3>2. CASE ~body[c].rec.ended
      BY <2>2, <2>5, <2>9, <3>2 DEF ArmedOf, Active
    <3> QED
      BY <3>1, <3>2
  <2>11. ASSUME NEW i \in InstanceIds PROVE Scheduling(i)'
    <3>1. Scheduling(i)
      BY DEF Schedules
    <3>2. CASE i = c.inst
      BY <1>w, <2>1, <2>2, <2>7, <2>8, <2>10, <3>2 DEF Scheduling
    <3>3. CASE i # c.inst
      <4>1. Active(store[i])' = Active(store[i])
        BY <2>5, <3>3 DEF Active
      <4>2. \A d \in Tasks : d.inst = i => body'[d] = body[d]
        BY <2>3, <3>3
      <4>3. Saving(i)' <=> Saving(i)
        BY <4>2 DEF Saving
      <4> QED
        BY <2>1, <2>7, <3>1, <3>3, <4>1, <4>2, <4>3 DEF Scheduling
    <3> QED
      BY <3>2, <3>3
  <2>12. \A i \in InstanceIds : store[i] = Absent => store'[i] = Absent
    BY <2>5
  <2> QED
    BY <2>1, <2>6, <2>11, <2>12 DEF Schedules
<1>7. CASE Microtask(c)
  <2>1. UNCHANGED <<store, used, armed, lane, body>>
    BY <1>7 DEF Microtask
  <2> QED
    BY <2>1, SchedulesStay
<1> QED
  BY <1>1, <1>2, <1>3, <1>4, <1>5, <1>6, <1>7 DEF CallStep

LEMMA StepOfSchedules ==
    ASSUME Parameters, StartsGoOn, EngineTypes, IInv, Updates, Schedules, [EngineNext]_engineVars
    PROVE  /\ Schedules'
           /\ \A i \in InstanceIds : store[i] = Absent /\ store'[i] # Absent => \E l \in Lanes : Creates(l, i)
<1>1. CASE EngineNext
  <2>1. CASE \E l \in Lanes : LaneStep(l)
    BY <2>1, LaneKeepsSchedules
  <2>2. CASE \E c \in Calls : CallStep(c)
    <3>1. PICK c \in Tasks : CallStep(c)
      BY <2>2 DEF Parameters
    <3> QED
      BY <3>1, CallKeepsSchedules
  <2>3. CASE \E i \in InstanceIds, tm \in Timers : Fire(i, tm)
    <3>1. UNCHANGED <<store, used, lane, body>> /\ armed' \subseteq armed
      BY <2>3 DEF Fire
    <3> QED
      BY <3>1, SchedulesStay
  <2> QED
    BY <1>1, <2>1, <2>2, <2>3 DEF EngineNext
<1>2. CASE UNCHANGED engineVars
  <2>1. UNCHANGED <<store, used, armed, lane, body>>
    BY <1>2 DEF engineVars
  <2> QED
    BY <2>1, SchedulesStay
<1> QED
  BY <1>1, <1>2

LEMMA InitSchedules == ASSUME Parameters, EngineInit PROVE Schedules
<1>1. /\ store = [i \in InstanceIds |-> Absent] /\ used = {} /\ armed = {}
      /\ lane = [l \in Lanes |-> IdleLane(1)] /\ body = [c \in Tasks |-> NoBody]
  BY DEF EngineInit, Parameters
<1>2. IdleLane(1).at = "idle" /\ NoBody.at = "none" /\ NoBody.rec = Absent
  BY DEF IdleLane, NoBody
<1>3. \A i \in InstanceIds : ArmedOf(i) = {}
  BY <1>1 DEF ArmedOf
<1> QED
  BY <1>1, <1>2, <1>3 DEF Schedules, OnRecord, Scheduling

\* A schedule that the job runner holds between two steps is of a timer its instance's record counts as active, and an instance
\* without a record has none: no timer goes off for an instance that has ended, whatever its handlers added and removed.
THEOREM SchedulesHaveRecords == ASSUME Parameters, StartsGoOn PROVE EngineSpec => []NoOrphanTimer
<1>1. EngineInit => IInv /\ EngineTypes /\ Updates /\ Schedules
  BY InitEngine, InitSchedules
<1>2. IInv /\ EngineTypes /\ Updates /\ Schedules /\ [EngineNext]_engineVars => IInv' /\ EngineTypes' /\ Updates' /\ Schedules'
  BY StepOfEngine, StepOfSchedules
<1>3. EngineTypes /\ Schedules => NoOrphanTimer
  <2> SUFFICES ASSUME EngineTypes, Schedules, NEW i \in used, ~Working(i) PROVE ArmedOf(i) \subseteq Active(store[i])
    BY DEF NoOrphanTimer, ArmedOf, Active
  <2>1. i \in InstanceIds /\ \A l \in Lanes : ~Creates(l, i)
    BY DEF Working, Creates, EngineTypes
  <2>2. \A c \in Tasks : c.inst = i => body[c].at # "save"
    BY DEF Working, NoBody, Parameters
  <2> QED
    BY <2>1, <2>2 DEF Schedules, Scheduling, Uncreated, Saving
<1> QED
  BY <1>1, <1>2, <1>3, PTL DEF EngineSpec

\* A record that endSaga deleted never comes back, although a step writes what it read some awaits earlier.
THEOREM DeletedStaysDeleted == ASSUME Parameters, StartsGoOn PROVE EngineSpec => NoResurrection
<1>1. EngineInit => IInv /\ EngineTypes /\ Updates /\ Schedules
  BY InitEngine, InitSchedules
<1>2. IInv /\ EngineTypes /\ Updates /\ Schedules /\ [EngineNext]_engineVars => IInv' /\ EngineTypes' /\ Updates' /\ Schedules'
  BY StepOfEngine, StepOfSchedules
<1>3. IInv /\ EngineTypes /\ Updates /\ Schedules /\ [EngineNext]_engineVars =>
          [\A i \in InstanceIds : store[i] = Absent /\ store'[i] # Absent => \E l \in Lanes : lane[l].at = "create" /\ lane[l].inst = i]_engineVars
  BY StepOfSchedules DEF Creates
<1> QED
  BY <1>1, <1>2, <1>3, PTL DEF EngineSpec, NoResurrection
=============================================================================

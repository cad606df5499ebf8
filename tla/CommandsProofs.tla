--------------------------- MODULE CommandsProofs ---------------------------
(***************************************************************************)
(* Proofs about Commands for any dispatches, aggregates, locks and         *)
(* failures: what two locks, one around a command and one around its       *)
(* persist, keep true of the stored record, and that what leaves is stored.*)
(***************************************************************************)
EXTENDS Commands, SequenceTheorems, TLAPS

Wheres == {"new", "lock", "load", "run", "save", "throw", "commit", "ended"}
Instances == [state: Seq(Events), newEvents: Seq(Events)]
Reads == [history: Seq(Events), events: Seq(Events)]

\* The types of what is in memory and in the datastore; the rest is on its way out.
StoreTypes ==
    /\ at \in [Dispatches -> Wheres]
    /\ target \in [Dispatches -> Aggregates]
    /\ aggregate \in [Dispatches -> Instances]
    /\ raised \in [Dispatches -> 0..MaxEvents]
    /\ found \in [Dispatches -> Reads]
    /\ history \in [Aggregates -> Seq(Events)]
    /\ checkpoint \in [Aggregates -> Seq(Events)]
    /\ commandLock \in [Aggregates -> Dispatches \cup {Nobody}]
    /\ persistLock \in [Aggregates -> Dispatches \cup {Nobody}]

Executing == {"load", "run", "save", "throw"}

\* Whoever is between the read and the write of persist has the aggregate's lock, and
\* whoever executes a command that asked for a lock has that one.
PersistHeld == \A d \in Dispatches : at[d] = "save" => persistLock[target[d]] = d
CommandHeld == \A d \in Dispatches :
    at[d] \in Executing /\ target[d] \in Locked => commandLock[target[d]] = d

\* What persist has read is still what is stored, and what it has taken is not new any more.
FoundIsStored == \A d \in Dispatches :
    at[d] = "save" => /\ found[d].history = history[target[d]]
                      /\ aggregate[d].newEvents = <<>>

\* A locked command's instance is what is stored and what it has raised since.
StateIsReplay == \A d \in Dispatches :
    target[d] \in Locked =>
        /\ at[d] = "run" => aggregate[d].state = history[target[d]] \o aggregate[d].newEvents
        /\ at[d] = "save" => aggregate[d].state = history[target[d]] \o found[d].events

IInv == /\ StoreTypes /\ PersistHeld /\ CommandHeld
        /\ FoundIsStored /\ StateIsReplay /\ CheckpointIsReplay
-----------------------------------------------------------------------------
(* Operators *)

LEMMA ConcatExtends ==
    ASSUME NEW S, NEW s \in Seq(S), NEW t \in Seq(S)
    PROVE  s \o t \in Seq(S) /\ IsPrefix(s, s \o t)
<1>1. /\ s \o t \in Seq(S) /\ Len(s) \in Nat /\ Len(s) <= Len(s \o t)
      /\ \A n \in 1..Len(s) : (s \o t)[n] = s[n]
  OBVIOUS
<1>2. SubSeq(s, 1, Len(s)) = SubSeq(s \o t, 1, Len(s))
  <2> DEFINE u == SubSeq(s, 1, Len(s))
             v == SubSeq(s \o t, 1, Len(s))
  <2>1. u \in Seq(S) /\ Len(u) = Len(s) /\ \A n \in 1..Len(s) : u[n] = s[n]
    BY <1>1
  <2>2. v \in Seq(S) /\ Len(v) = Len(s) /\ \A n \in 1..Len(s) : v[n] = (s \o t)[n]
    BY <1>1
  <2> HIDE DEF u, v
  <2>3. u = v
    BY <1>1, <2>1, <2>2, SeqEqual
  <2> QED
    BY <2>3 DEF u, v
<1> QED
  BY <1>1, <1>2 DEF IsPrefix

LEMMA ItselfIsPrefix ==
    ASSUME NEW S, NEW s \in Seq(S)
    PROVE  IsPrefix(s, s)
BY DEF IsPrefix

\* An event that is raised goes to the end of both sequences.
LEMMA RaisedAtBothEnds ==
    ASSUME NEW s \in Seq(Events), NEW t \in Seq(Events), NEW e \in Events
    PROVE  Append(s \o t, e) = s \o Append(t, e)
<1> DEFINE u == Append(s \o t, e)
           v == s \o Append(t, e)
<1>1. /\ u \in Seq(Events) /\ v \in Seq(Events)
      /\ Len(u) = Len(s) + Len(t) + 1 /\ Len(v) = Len(u)
      /\ Len(s) \in Nat /\ Len(t) \in Nat
  OBVIOUS
<1>2. ASSUME NEW n \in 1..Len(u) PROVE u[n] = v[n]
  BY <1>1
<1> HIDE DEF u, v
<1>3. u = v
  BY <1>1, <1>2, SeqEqual
<1> QED
  BY <1>3 DEF u, v

LEMMA NothingToAdd ==
    ASSUME NEW S, NEW s \in Seq(S)
    PROVE  s \o <<>> = s
OBVIOUS
-----------------------------------------------------------------------------
(* Types *)

LEMMA InitTypes == Init => StoreTypes
BY BoundsAssumption DEF Init, StoreTypes, Wheres, Instances, Reads, New, Nothing

LEMMA NothingRead == Nothing \in Reads
BY DEF Nothing, Reads

LEMMA EventsNamed ==
    ASSUME NEW d \in Dispatches, StoreTypes, raised[d] < MaxEvents
    PROVE  <<d, raised[d] + 1>> \in Events /\ raised[d] + 1 \in 0..MaxEvents
BY BoundsAssumption DEF StoreTypes, Events

LEMMA StepTypes == StoreTypes /\ [Next]_vars => StoreTypes'
<1> SUFFICES ASSUME StoreTypes, [Next]_vars PROVE StoreTypes'
  OBVIOUS
<1> USE DEF StoreTypes
<1>1. CASE UNCHANGED vars
  BY <1>1 DEF vars, calls, store, locks
<1>2. ASSUME NEW d \in Dispatches, Dispatch(d) PROVE StoreTypes'
  BY <1>2 DEF Dispatch, Goes, store, locks, Wheres
<1>3. ASSUME NEW d \in Dispatches, TakeLock(d) PROVE StoreTypes'
  BY <1>3 DEF TakeLock, Goes, store, Wheres
<1>4. ASSUME NEW d \in Dispatches, LockTimesOut(d) PROVE StoreTypes'
  BY <1>4 DEF LockTimesOut, Goes, store, locks, Wheres
<1>5. ASSUME NEW d \in Dispatches, Load(d) PROVE StoreTypes'
  <2>1. New(history[target[d]]) \in Instances
    BY DEF New, Instances
  <2> QED
    BY <1>5, <2>1 DEF Load, Goes, store, locks, Wheres
<1>6. ASSUME NEW d \in Dispatches, RaiseEvent(d) PROVE StoreTypes'
  <2> DEFINE event == <<d, raised[d] + 1>>
  <2>1. event \in Events /\ raised[d] + 1 \in 0..MaxEvents
    BY <1>6, EventsNamed DEF RaiseEvent
  <2>2. aggregate' = [aggregate EXCEPT ![d].state = Append(@, event),
                                       ![d].newEvents = Append(@, event)]
    BY <1>6 DEF RaiseEvent
  <2> HIDE DEF event
  <2>3. /\ Append(aggregate[d].state, event) \in Seq(Events)
        /\ Append(aggregate[d].newEvents, event) \in Seq(Events)
    BY <2>1 DEF Instances
  <2>4. aggregate' \in [Dispatches -> Instances]
    BY <2>2, <2>3 DEF Instances
  <2> QED
    BY <1>6, <2>1, <2>4 DEF RaiseEvent, store, locks
<1>7. ASSUME NEW d \in Dispatches, Emit(d) PROVE StoreTypes'
  BY <1>7 DEF Emit, store, locks
<1>8. ASSUME NEW d \in Dispatches, Persist(d) PROVE StoreTypes'
  <2>1. [history |-> history[target[d]], events |-> aggregate[d].newEvents] \in Reads
    BY DEF Reads, Instances
  <2>2. [aggregate EXCEPT ![d].newEvents = <<>>] \in [Dispatches -> Instances]
    <3>1. aggregate \in [Dispatches -> Instances] /\ <<>> \in Seq(Events)
      OBVIOUS
    <3> QED
      BY <3>1 DEF Instances
  <2> QED
    BY <1>8, <2>1, <2>2 DEF Persist, Goes, store, Wheres
<1>9. ASSUME NEW d \in Dispatches, PersistTimesOut(d) PROVE StoreTypes'
  BY <1>9 DEF PersistTimesOut, calls, store, locks
<1>10. ASSUME NEW d \in Dispatches, Save(d) PROVE StoreTypes'
  <2>1. Saved(d) \in Seq(Events) /\ aggregate[d].state \in Seq(Events)
    BY DEF Saved, Reads, Instances
  <2> QED
    BY <1>10, <2>1, NothingRead DEF Save, Unlocked, Goes, Wheres
<1>11. ASSUME NEW d \in Dispatches, SaveFails(d) PROVE StoreTypes'
  BY <1>11, NothingRead DEF SaveFails, Unlocked, Goes, store, Wheres
<1>12. ASSUME NEW d \in Dispatches, Return(d) PROVE StoreTypes'
  BY <1>12 DEF Return, CommandUnlocked, Goes, store, Wheres
<1>13. ASSUME NEW d \in Dispatches, Throw(d) PROVE StoreTypes'
  BY <1>13 DEF Throw, CommandUnlocked, store, Wheres
<1>14. ASSUME NEW d \in Dispatches, Commit(d) PROVE StoreTypes'
  BY <1>14 DEF Commit, Goes, store, locks, Wheres
<1>15. ASSUME NEW d \in Dispatches, EmitNext(d) PROVE StoreTypes'
  BY <1>15 DEF EmitNext, calls, store, locks
<1>16. ASSUME NEW d \in Dispatches, EmitFails(d) PROVE StoreTypes'
  BY <1>16 DEF EmitFails, calls, store, locks
<1> QED
  BY <1>1, <1>2, <1>3, <1>4, <1>5, <1>6, <1>7, <1>8, <1>9, <1>10, <1>11, <1>12, <1>13, <1>14,
     <1>15, <1>16 DEF Next
-----------------------------------------------------------------------------
(* Locks *)

LEMMA StepLocks == StoreTypes /\ PersistHeld /\ CommandHeld /\ [Next]_vars => PersistHeld' /\ CommandHeld'
<1> SUFFICES ASSUME StoreTypes, PersistHeld, CommandHeld, [Next]_vars PROVE PersistHeld' /\ CommandHeld'
  OBVIOUS
<1> USE DEF PersistHeld, CommandHeld, Executing
<1>t. /\ at \in [Dispatches -> Wheres] /\ target \in [Dispatches -> Aggregates]
      /\ DOMAIN commandLock = Aggregates /\ DOMAIN persistLock = Aggregates
      /\ Nobody \notin Dispatches
  BY NobodyAssumption DEF StoreTypes
<1>1. CASE UNCHANGED vars
  BY <1>1 DEF vars, calls, locks
<1>2. ASSUME NEW d \in Dispatches, Dispatch(d) PROVE PersistHeld' /\ CommandHeld'
  BY <1>2, <1>t DEF Dispatch, Goes, locks
<1>3. ASSUME NEW d \in Dispatches, TakeLock(d) PROVE PersistHeld' /\ CommandHeld'
  BY <1>3, <1>t DEF TakeLock, Goes
<1>4. ASSUME NEW d \in Dispatches, LockTimesOut(d) PROVE PersistHeld' /\ CommandHeld'
  BY <1>4, <1>t DEF LockTimesOut, Goes, locks
<1>5. ASSUME NEW d \in Dispatches, Load(d) PROVE PersistHeld' /\ CommandHeld'
  BY <1>5, <1>t DEF Load, Goes, locks
<1>6. ASSUME NEW d \in Dispatches, RaiseEvent(d) PROVE PersistHeld' /\ CommandHeld'
  BY <1>6 DEF RaiseEvent, locks
<1>7. ASSUME NEW d \in Dispatches, Emit(d) PROVE PersistHeld' /\ CommandHeld'
  BY <1>7 DEF Emit, locks
<1>8. ASSUME NEW d \in Dispatches, Persist(d) PROVE PersistHeld' /\ CommandHeld'
  BY <1>8, <1>t DEF Persist, Goes
<1>9. ASSUME NEW d \in Dispatches, PersistTimesOut(d) PROVE PersistHeld' /\ CommandHeld'
  BY <1>9 DEF PersistTimesOut, calls, locks
<1>10. ASSUME NEW d \in Dispatches, Save(d) PROVE PersistHeld' /\ CommandHeld'
  BY <1>10, <1>t DEF Save, Unlocked, Goes
<1>11. ASSUME NEW d \in Dispatches, SaveFails(d) PROVE PersistHeld' /\ CommandHeld'
  BY <1>11, <1>t DEF SaveFails, Unlocked, Goes
<1>12. ASSUME NEW d \in Dispatches, Return(d) PROVE PersistHeld' /\ CommandHeld'
  BY <1>12, <1>t DEF Return, CommandUnlocked, Goes
<1>13. ASSUME NEW d \in Dispatches, Throw(d) PROVE PersistHeld' /\ CommandHeld'
  BY <1>13, <1>t DEF Throw, CommandUnlocked
<1>14. ASSUME NEW d \in Dispatches, Commit(d) PROVE PersistHeld' /\ CommandHeld'
  BY <1>14, <1>t DEF Commit, Goes, locks
<1>15. ASSUME NEW d \in Dispatches, EmitNext(d) PROVE PersistHeld' /\ CommandHeld'
  BY <1>15 DEF EmitNext, calls, locks
<1>16. ASSUME NEW d \in Dispatches, EmitFails(d) PROVE PersistHeld' /\ CommandHeld'
  BY <1>16 DEF EmitFails, calls, locks
<1> HIDE DEF PersistHeld, CommandHeld
<1> QED
  BY <1>1, <1>2, <1>3, <1>4, <1>5, <1>6, <1>7, <1>8, <1>9, <1>10, <1>11, <1>12, <1>13, <1>14,
     <1>15, <1>16 DEF Next

\* Two dispatches are never between the read and the write of one aggregate, and two
\* locked commands never execute on one.
LEMMA OneAtATime ==
    ASSUME PersistHeld, CommandHeld, NEW d \in Dispatches, NEW e \in Dispatches,
           target[d] = target[e], d # e
    PROVE  /\ ~(at[d] = "save" /\ at[e] = "save")
           /\ target[d] \in Locked => ~(at[d] \in Executing /\ at[e] \in Executing)
BY DEF PersistHeld, CommandHeld
-----------------------------------------------------------------------------
(* The record *)

Record == FoundIsStored /\ StateIsReplay /\ CheckpointIsReplay

LEMMA StepRecord == IInv /\ [Next]_vars => Record'
<1> SUFFICES ASSUME IInv, [Next]_vars PROVE Record'
  OBVIOUS
<1> USE DEF Record, FoundIsStored, StateIsReplay, CheckpointIsReplay
<1>t. /\ at \in [Dispatches -> Wheres] /\ target \in [Dispatches -> Aggregates]
      /\ aggregate \in [Dispatches -> Instances] /\ found \in [Dispatches -> Reads]
      /\ history \in [Aggregates -> Seq(Events)] /\ checkpoint \in [Aggregates -> Seq(Events)]
  BY DEF IInv, StoreTypes
<1>i. Record /\ Locked \subseteq Aggregates
  BY LockedAssumption DEF IInv
\* What leaves the records and the instances alone, and moves nobody into run or save.
<1>f. ASSUME UNCHANGED <<target, aggregate, found, store>>,
             \A d \in Dispatches : /\ at'[d] = "run" => at[d] = "run"
                                   /\ at'[d] = "save" => at[d] = "save"
      PROVE  Record'
  BY <1>f, <1>i DEF store
<1>1. CASE UNCHANGED vars
  BY <1>1, <1>f DEF vars, calls
<1>2. ASSUME NEW d \in Dispatches, Dispatch(d) PROVE Record'
  BY <1>2, <1>f, <1>t DEF Dispatch, Goes
<1>3. ASSUME NEW d \in Dispatches, TakeLock(d) PROVE Record'
  BY <1>3, <1>f, <1>t DEF TakeLock, Goes
<1>4. ASSUME NEW d \in Dispatches, LockTimesOut(d) PROVE Record'
  BY <1>4, <1>f, <1>t DEF LockTimesOut, Goes
<1>5. ASSUME NEW d \in Dispatches, Load(d) PROVE Record'
  <2>1. /\ at' = [at EXCEPT ![d] = "run"]
        /\ aggregate' = [aggregate EXCEPT ![d] = New(history[target[d]])]
        /\ UNCHANGED <<target, found, history, checkpoint>>
    BY <1>5 DEF Load, Goes, store
  <2>2. /\ aggregate'[d].state = history[target[d]] /\ aggregate'[d].newEvents = <<>>
        /\ history[target[d]] \o <<>> = history[target[d]]
    BY <2>1, <1>t, NothingToAdd DEF New
  <2>3. \A e \in Dispatches : e # d => aggregate'[e] = aggregate[e] /\ at'[e] = at[e]
    BY <2>1, <1>t
  <2>4. at'[d] = "run"
    BY <2>1, <1>t
  <2>5. FoundIsStored' /\ CheckpointIsReplay'
    BY <2>1, <2>3, <2>4, <1>i
  <2>6. StateIsReplay'
    <3> SUFFICES ASSUME NEW e \in Dispatches, target[e] \in Locked
                 PROVE  /\ at'[e] = "run" => aggregate'[e].state
                                               = history[target[e]] \o aggregate'[e].newEvents
                        /\ at'[e] = "save" => aggregate'[e].state
                                                = history[target[e]] \o found[e].events
      BY <2>1, Zenon
    <3>1. CASE e = d
      BY <3>1, <2>2, <2>4
    <3>2. CASE e # d
      BY <3>2, <2>3, <1>i
    <3> QED
      BY <3>1, <3>2
  <2> QED
    BY <2>5, <2>6
<1>6. ASSUME NEW d \in Dispatches, RaiseEvent(d) PROVE Record'
  <2> DEFINE event == <<d, raised[d] + 1>>
  <2>1. event \in Events
    BY <1>6, EventsNamed DEF RaiseEvent, IInv
  <2>2. /\ aggregate' = [aggregate EXCEPT ![d].state = Append(@, event),
                                          ![d].newEvents = Append(@, event)]
        /\ UNCHANGED <<at, target, found, history, checkpoint>> /\ at[d] = "run"
    BY <1>6 DEF RaiseEvent, store
  <2> HIDE DEF event
  <2>3. /\ aggregate'[d].state = Append(aggregate[d].state, event)
        /\ aggregate'[d].newEvents = Append(aggregate[d].newEvents, event)
        /\ \A e \in Dispatches : e # d => aggregate'[e] = aggregate[e]
    BY <2>2, <1>t DEF Instances
  <2>4. ASSUME target[d] \in Locked
        PROVE  aggregate'[d].state = history[target[d]] \o aggregate'[d].newEvents
    <3>1. /\ history[target[d]] \in Seq(Events) /\ aggregate[d].newEvents \in Seq(Events)
          /\ aggregate[d].state = history[target[d]] \o aggregate[d].newEvents
      BY <2>2, <2>4, <1>t, <1>i DEF Instances
    <3>2. Append(history[target[d]] \o aggregate[d].newEvents, event)
            = history[target[d]] \o Append(aggregate[d].newEvents, event)
      BY <3>1, <2>1, RaisedAtBothEnds, Zenon
    <3> QED
      <4>1. aggregate'[d].state = Append(history[target[d]] \o aggregate[d].newEvents, event)
        BY <2>3, <3>1, Zenon
      <4>2. history[target[d]] \o Append(aggregate[d].newEvents, event)
              = history[target[d]] \o aggregate'[d].newEvents
        BY <2>3, Zenon
      <4> QED
        BY <4>1, <4>2, <3>2, Zenon
  <2> QED
    BY <2>2, <2>3, <2>4, <1>i
<1>7. ASSUME NEW d \in Dispatches, Emit(d) PROVE Record'
  BY <1>7, <1>f DEF Emit
<1>8. ASSUME NEW d \in Dispatches, Persist(d) PROVE Record'
  <2>1. /\ at[d] = "run" /\ at' = [at EXCEPT ![d] = "save"]
        /\ found' = [found EXCEPT ![d] = [history |-> history[target[d]],
                                          events |-> aggregate[d].newEvents]]
        /\ aggregate' = [aggregate EXCEPT ![d].newEvents = <<>>]
        /\ UNCHANGED <<target, history, checkpoint>>
    BY <1>8 DEF Persist, Goes, store
  <2>2. /\ at'[d] = "save" /\ aggregate'[d].state = aggregate[d].state
        /\ found'[d].history = history[target[d]] /\ found'[d].events = aggregate[d].newEvents
        /\ aggregate'[d].newEvents = <<>>
    BY <2>1, <1>t DEF Instances
  <2>3. \A e \in Dispatches : e # d => /\ aggregate'[e] = aggregate[e] /\ at'[e] = at[e]
                                       /\ found'[e] = found[e]
    BY <2>1, <1>t
  <2>4. FoundIsStored' /\ CheckpointIsReplay'
    BY <2>1, <2>2, <2>3, <1>i
  <2>5. StateIsReplay'
    <3> SUFFICES ASSUME NEW e \in Dispatches, target[e] \in Locked
                 PROVE  /\ at'[e] = "run" => aggregate'[e].state
                                               = history[target[e]] \o aggregate'[e].newEvents
                        /\ at'[e] = "save" => aggregate'[e].state
                                                = history[target[e]] \o found'[e].events
      BY <2>1, Zenon
    <3>1. CASE e = d
      BY <3>1, <2>1, <2>2, <1>i
    <3>2. CASE e # d
      BY <3>2, <2>3, <1>i
    <3> QED
      BY <3>1, <3>2
  <2> QED
    BY <2>4, <2>5
<1>9. ASSUME NEW d \in Dispatches, PersistTimesOut(d) PROVE Record'
  BY <1>9, <1>f DEF PersistTimesOut, calls
<1>10. ASSUME NEW d \in Dispatches, Save(d) PROVE Record'
  <2>1. /\ at[d] = "save" /\ at' = [at EXCEPT ![d] = "run"]
        /\ history' = [history EXCEPT ![target[d]] = found[d].history \o found[d].events]
        /\ checkpoint' = [checkpoint EXCEPT ![target[d]] = aggregate[d].state]
        /\ found' = [found EXCEPT ![d] = Nothing]
        /\ UNCHANGED <<target, aggregate>>
    BY <1>10 DEF Save, Goes, Saved
  <2>2. found[d].history = history[target[d]]
    BY <2>1, <1>i
  <2>3. /\ at'[d] = "run" /\ \A e \in Dispatches : e # d => at'[e] = at[e] /\ found'[e] = found[e]
        /\ history'[target[d]] = history[target[d]] \o found[d].events
        /\ checkpoint'[target[d]] = aggregate[d].state
        /\ \A a \in Aggregates : a # target[d] => history'[a] = history[a] /\ checkpoint'[a] = checkpoint[a]
    BY <2>1, <2>2, <1>t
  <2>4. \A e \in Dispatches : e # d /\ target[e] = target[d] =>
            /\ at[e] # "save"
            /\ target[e] \in Locked => at[e] # "run"
    BY <2>1, OneAtATime DEF IInv, Executing
  <2>5. FoundIsStored'
    BY <2>1, <2>3, <2>4, <1>i, <1>t
  <2>6. CheckpointIsReplay'
    BY <2>1, <2>3, <1>i, <1>t
  <2>7. /\ aggregate[d].newEvents = <<>>
        /\ target[d] \in Locked => aggregate[d].state = history'[target[d]] \o <<>>
    <3>1. /\ found[d].events \in Seq(Events) /\ history[target[d]] \in Seq(Events)
          /\ history[target[d]] \o found[d].events \in Seq(Events)
      BY <1>t DEF Reads
    <3>2. history'[target[d]] \o <<>> = history'[target[d]]
      BY <3>1, <2>3, NothingToAdd
    <3> QED
      BY <3>2, <2>1, <2>3, <1>i
  <2>8. StateIsReplay'
    <3> SUFFICES ASSUME NEW e \in Dispatches, target[e] \in Locked
                 PROVE  /\ at'[e] = "run" => aggregate[e].state
                                               = history'[target[e]] \o aggregate[e].newEvents
                        /\ at'[e] = "save" => aggregate[e].state
                                                = history'[target[e]] \o found'[e].events
      BY <2>1, Zenon
    <3>1. CASE e = d
      BY <3>1, <2>3, <2>7
    <3>2. CASE e # d /\ target[e] = target[d]
      BY <3>2, <2>3, <2>4
    <3>3. CASE target[e] # target[d]
      BY <3>3, <2>3, <1>i, <1>t
    <3> QED
      BY <3>1, <3>2, <3>3
  <2> QED
    BY <2>5, <2>6, <2>8
<1>11. ASSUME NEW d \in Dispatches, SaveFails(d) PROVE Record'
  <2>1. /\ at' = [at EXCEPT ![d] = "throw"] /\ found' = [found EXCEPT ![d] = Nothing]
        /\ UNCHANGED <<target, aggregate, history, checkpoint>>
    BY <1>11 DEF SaveFails, Goes, store
  <2>2. at'[d] = "throw" /\ \A e \in Dispatches : e # d => at'[e] = at[e] /\ found'[e] = found[e]
    BY <2>1, <1>t
  <2>3. \A e \in Dispatches : at'[e] \in {"run", "save"} => at'[e] = at[e] /\ found'[e] = found[e]
    BY <2>2
  <2>4. FoundIsStored'
    BY <2>1, <2>3, <1>i
  <2>5. StateIsReplay'
    BY <2>1, <2>3, <1>i
  <2>6. CheckpointIsReplay'
    BY <2>1, <1>i
  <2> QED
    BY <2>4, <2>5, <2>6
<1>12. ASSUME NEW d \in Dispatches, Return(d) PROVE Record'
  BY <1>12, <1>f, <1>t DEF Return, Goes
<1>13. ASSUME NEW d \in Dispatches, Throw(d) PROVE Record'
  BY <1>13, <1>f, <1>t DEF Throw
<1>14. ASSUME NEW d \in Dispatches, Commit(d) PROVE Record'
  BY <1>14, <1>f, <1>t DEF Commit, Goes
<1>15. ASSUME NEW d \in Dispatches, EmitNext(d) PROVE Record'
  BY <1>15, <1>f DEF EmitNext, calls
<1>16. ASSUME NEW d \in Dispatches, EmitFails(d) PROVE Record'
  BY <1>16, <1>f DEF EmitFails, calls
<1> HIDE DEF Record
<1> QED
  BY <1>1, <1>2, <1>3, <1>4, <1>5, <1>6, <1>7, <1>8, <1>9, <1>10, <1>11, <1>12, <1>13, <1>14,
     <1>15, <1>16 DEF Next
-----------------------------------------------------------------------------
(* The invariant, and what follows from it *)

LEMMA InitInvariant == Init => IInv
BY InitTypes, LockedAssumption DEF Init, IInv, PersistHeld, CommandHeld, Executing, FoundIsStored,
   StateIsReplay, CheckpointIsReplay

LEMMA StepInvariant == IInv /\ [Next]_vars => IInv'
BY StepTypes, StepLocks, StepRecord DEF IInv, Record

LEMMA Invariance == Spec => []IInv
<1> QED
  BY InitInvariant, StepInvariant, PTL DEF Spec

\* The checkpoint of an aggregate whose commands are dispatched with a lock is the state its
\* stored history replays to (persist in tenant-aggregate-root.ts, under dispatchCommand).
THEOREM CheckpointsReplay == Spec => []CheckpointIsReplay
<1>1. IInv => CheckpointIsReplay
  BY DEF IInv
<1> QED
  BY <1>1, Invariance, PTL

\* The dispatches that the two locks keep apart.
Exclusive == \A d, e \in Dispatches : target[d] = target[e] /\ d # e =>
    /\ ~(at[d] = "save" /\ at[e] = "save")
    /\ target[d] \in Locked => ~(at[d] \in Executing /\ at[e] \in Executing)

\* Between its read and its write of a history, persist is alone with the aggregate; and a
\* locked command is alone with it from its load to its return.
THEOREM Exclusion == Spec => []Exclusive
<1>1. IInv => Exclusive
  BY OneAtATime DEF IInv, Exclusive
<1> QED
  BY <1>1, Invariance, PTL

LEMMA StepHistory ==
    IInv /\ Next => \A a \in Aggregates : IsPrefix(history[a], history'[a])
<1> SUFFICES ASSUME IInv, Next PROVE \A a \in Aggregates : IsPrefix(history[a], history'[a])
  OBVIOUS
<1>t. /\ history \in [Aggregates -> Seq(Events)] /\ target \in [Dispatches -> Aggregates]
      /\ found \in [Dispatches -> Reads]
  BY DEF IInv, StoreTypes
<1>1. ASSUME UNCHANGED history PROVE \A a \in Aggregates : IsPrefix(history[a], history'[a])
  BY <1>1, <1>t, ItselfIsPrefix
<1>2. ASSUME NEW d \in Dispatches, Save(d)
      PROVE  \A a \in Aggregates : IsPrefix(history[a], history'[a])
  <2>1. /\ found[d].history = history[target[d]]
        /\ history' = [history EXCEPT ![target[d]] = found[d].history \o found[d].events]
    BY <1>2 DEF Save, Goes, Saved, IInv, FoundIsStored
  <2>2. history[target[d]] \in Seq(Events) /\ found[d].events \in Seq(Events)
    BY <1>t DEF Reads
  <2>3. IsPrefix(history[target[d]], history[target[d]] \o found[d].events)
    BY <2>2, ConcatExtends
  <2>4. ASSUME NEW a \in Aggregates PROVE IsPrefix(history[a], history'[a])
    <3>1. CASE a = target[d]
      BY <3>1, <2>1, <2>3, <1>t
    <3>2. CASE a # target[d]
      <4>1. history'[a] = history[a] /\ history[a] \in Seq(Events)
        BY <3>2, <2>1, <1>t
      <4> QED
        BY <4>1, ItselfIsPrefix
    <3> QED
      BY <3>1, <3>2
  <2> QED
    BY <2>4
<1>3. ASSUME \A d \in Dispatches : ~Save(d)
      PROVE  UNCHANGED history
  BY <1>3 DEF Next, Dispatch, TakeLock, LockTimesOut, Load, RaiseEvent, Emit, Persist, PersistTimesOut,
              SaveFails, Return, Throw, Commit, EmitNext, EmitFails, store
<1> QED
  BY <1>1, <1>2, <1>3

\* What is stored of an aggregate is only ever added to, whatever commands, with or without
\* locks, persist at the same time.
THEOREM HistoriesOnlyGrow == Spec => HistoryOnlyGrows
<1>1. IInv /\ [Next]_vars => [\A a \in Aggregates : IsPrefix(history[a], history'[a])]_history
  BY StepHistory DEF vars, store
<1> QED
  BY <1>1, Invariance, PTL DEF Spec, HistoryOnlyGrows
-----------------------------------------------------------------------------
(* What leaves *)

\* The events of a dispatch that are on their way out, in whatever batch.
EventsOf(batches) == UNION {ToSet(batches[n]) : n \in DOMAIN batches}
Outgoing(d) == ToSet(untold[d]) \cup EventsOf(buffer[d]) \cup EventsOf(sending[d])

\* An event that is stored, or that persist will take or has taken to store it.
Kept(d, e) == \/ Stored(e)
              \/ e \in ToSet(aggregate[d].newEvents)
              \/ at[d] = "save" /\ e \in ToSet(found[d].events)

\* What a dispatch sends out is its own, and kept until the command fails; there is nothing new before the command runs, nor
\* after it has returned; and batches are sent after the end.
Away(d) ==
    /\ \A e \in Outgoing(d) : e[1] = d
    /\ d \notin broken /\ at[d] # "throw" => \A e \in Outgoing(d) : Kept(d, e)
    /\ at[d] \in {"new", "lock", "load"} => aggregate[d].newEvents = <<>>
    /\ at[d] \in {"commit", "ended"} /\ d \notin broken => aggregate[d].newEvents = <<>>
    /\ sending[d] # <<>> => at[d] = "ended"

OutTypes == /\ untold \in [Dispatches -> Seq(Events)] /\ emitted \subseteq Events
            /\ buffer \in [Dispatches -> Batches] /\ sending \in [Dispatches -> Batches]
OutInv == OutTypes /\ (\A d \in Dispatches : Away(d)) /\ EmittedIsStored

LEMMA BatchAdded ==
    ASSUME NEW batches \in Batches, NEW events \in Seq(Events)
    PROVE  Append(batches, events) \in Batches /\ EventsOf(Append(batches, events)) = EventsOf(batches) \cup ToSet(events)
<1>1. batches \in Seq(Seq(Events))
  BY DEF Batches
<1>2. Append(batches, events) \in Seq(Seq(Events))
  BY <1>1
<1>3. /\ DOMAIN Append(batches, events) = (DOMAIN batches) \cup {Len(batches) + 1}
      /\ Append(batches, events)[Len(batches) + 1] = events
      /\ \A n \in DOMAIN batches : Append(batches, events)[n] = batches[n]
  BY <1>1
<1> QED
  BY <1>2, <1>3 DEF Batches, EventsOf

LEMMA HeadAndTail ==
    ASSUME NEW batches \in Batches, batches # <<>>
    PROVE  /\ Tail(batches) \in Batches /\ Head(batches) \in Seq(Events)
           /\ ToSet(Head(batches)) \subseteq EventsOf(batches) /\ EventsOf(Tail(batches)) \subseteq EventsOf(batches)
<1>1. batches \in Seq(Seq(Events))
  BY DEF Batches
<1>2. /\ Tail(batches) \in Seq(Seq(Events)) /\ 1 \in DOMAIN batches /\ Head(batches) = batches[1]
      /\ \A n \in DOMAIN Tail(batches) : n + 1 \in DOMAIN batches /\ Tail(batches)[n] = batches[n + 1]
  BY <1>1
<1>3. Head(batches) \in Seq(Events)
  BY <1>1, <1>2
<1> QED
  BY <1>2, <1>3 DEF Batches, EventsOf

LEMMA NothingOut == /\ <<>> \in Batches /\ EventsOf(<<>>) = {}
                    /\ <<>> \in Seq(Events) /\ ToSet(<<>>) = {}
BY DEF Batches, EventsOf, ToSet

LEMMA EventAdded ==
    ASSUME NEW s \in Seq(Events), NEW e \in Events
    PROVE  Append(s, e) \in Seq(Events) /\ ToSet(Append(s, e)) = ToSet(s) \cup {e}
<1>1. /\ DOMAIN Append(s, e) = (DOMAIN s) \cup {Len(s) + 1}
      /\ Append(s, e)[Len(s) + 1] = e /\ \A n \in DOMAIN s : Append(s, e)[n] = s[n]
  OBVIOUS
<1> QED
  BY <1>1 DEF ToSet

\* A command returns events it has raised and not emitted.
LEMMA ReturnedIsUntold ==
    ASSUME NEW d \in Dispatches, untold[d] \in Seq(Events), aggregate[d].newEvents \in Seq(Events)
    PROVE  Returned(d) \in Seq(Events) /\ ToSet(Returned(d)) \subseteq ToSet(untold[d])
<1> DEFINE s == untold[d]
           n == Len(s) - Len(aggregate[d].newEvents)
<1>0. s \in Seq(Events) /\ Len(s) \in Nat /\ Len(aggregate[d].newEvents) \in Nat
  <2>1. \A t \in Seq(Events) : Len(t) \in Nat
    OBVIOUS
  <2> QED
    BY <2>1
<1>1. s \in Seq(Events) /\ Len(s) \in Nat /\ n \in Int /\ n <= Len(s)
  <2>1. \A k, m \in Nat : k - m \in Int /\ k - m <= k
    OBVIOUS
  <2> HIDE DEF s
  <2> QED
    BY <1>0, <2>1
<1>2. Returned(d) = SubSeq(s, 1, n)
  BY DEF Returned
<1> HIDE DEF s, n
<1>3. /\ SubSeq(s, 1, n) \in Seq(Events)
      /\ \A k \in DOMAIN SubSeq(s, 1, n) : k \in DOMAIN s /\ SubSeq(s, 1, n)[k] = s[k]
  BY <1>1
<1> QED
  BY <1>2, <1>3 DEF ToSet, s

\* What is stored stays stored, and a save stores what persist took.
LEMMA StoredStays ==
    ASSUME IInv, Next
    PROVE  /\ \A e \in Events : Stored(e) => Stored(e)'
           /\ \A d \in Dispatches : Save(d) => \A e \in Events : e[1] = d /\ e \in ToSet(found[d].events) => Stored(e)'
<1>t. /\ history \in [Aggregates -> Seq(Events)] /\ target \in [Dispatches -> Aggregates]
      /\ found \in [Dispatches -> Reads] /\ \A e \in Events : e[1] \in Dispatches
  BY DEF IInv, StoreTypes, Events
<1>1. target' = target
  BY DEF Next, Dispatch, TakeLock, LockTimesOut, Load, RaiseEvent, Emit, Persist, PersistTimesOut,
         Save, SaveFails, Return, Throw, Commit, EmitNext, EmitFails, calls
<1>2. ASSUME UNCHANGED history PROVE \A e \in Events : Stored(e) => Stored(e)'
  BY <1>1, <1>2 DEF Stored, Contains
<1>3. ASSUME NEW d \in Dispatches, Save(d)
      PROVE  /\ \A e \in Events : Stored(e) => Stored(e)'
             /\ \A e \in Events : e[1] = d /\ e \in ToSet(found[d].events) => Stored(e)'
  <2> DEFINE h == history[target[d]]
             t == found[d].events
  <2>1. h \in Seq(Events) /\ t \in Seq(Events)
    BY <1>t DEF Reads
  <2>2. history' = [history EXCEPT ![target[d]] = h \o t]
    BY <1>3 DEF Save, Goes, Saved, IInv, FoundIsStored
  <2>3. history'[target[d]] = h \o t /\ \A a \in Aggregates : a # target[d] => history'[a] = history[a]
    BY <2>2, <1>t
  <2> HIDE DEF h, t
  <2>4. /\ \A n \in 1 .. Len(h) : n \in 1 .. Len(h \o t) /\ (h \o t)[n] = h[n]
        /\ \A n \in 1 .. Len(t) : Len(h) + n \in 1 .. Len(h \o t) /\ (h \o t)[Len(h) + n] = t[n]
    BY <2>1
  <2>5. \A e : Contains(h, e) => Contains(h \o t, e)
    BY <2>4 DEF Contains
  <2>6. \A e : e \in ToSet(t) => Contains(h \o t, e)
    <3>1. DOMAIN t = 1 .. Len(t)
      BY <2>1
    <3> QED
      BY <2>4, <3>1 DEF ToSet, Contains
  <2>7. ASSUME NEW e \in Events, Stored(e) PROVE Stored(e)'
    <3>1. CASE target[e[1]] = target[d]
      BY <1>1, <2>3, <2>5, <2>7, <3>1 DEF Stored, h
    <3>2. CASE target[e[1]] # target[d]
      <4>1. history'[target[e[1]]] = history[target[e[1]]]
        BY <1>t, <2>3, <3>2
      <4> QED
        BY <1>1, <2>7, <4>1 DEF Stored
    <3> QED
      BY <3>1, <3>2
  <2>8. ASSUME NEW e \in Events, e[1] = d, e \in ToSet(t) PROVE Stored(e)'
    BY <1>1, <2>3, <2>6, <2>8 DEF Stored
  <2> QED
    BY <2>7, <2>8 DEF t
<1>4. ASSUME \A d \in Dispatches : ~Save(d) PROVE UNCHANGED history
  BY <1>4 DEF Next, Dispatch, TakeLock, LockTimesOut, Load, RaiseEvent, Emit, Persist, PersistTimesOut,
              SaveFails, Return, Throw, Commit, EmitNext, EmitFails, store
<1> QED
  BY <1>2, <1>3, <1>4

\* A dispatch whose events stay where they are.
LEMMA AwayStays ==
    ASSUME NEW d \in Dispatches, Away(d), \A e \in Outgoing(d) : Stored(e) => Stored(e)',
           Outgoing(d)' \subseteq Outgoing(d), aggregate'[d].newEvents = aggregate[d].newEvents, sending'[d] = sending[d],
           found'[d] = found[d], at'[d] = at[d], d \in broken' <=> d \in broken
    PROVE  Away(d)'
BY DEF Away, Kept

\* A dispatch that goes on, or fails, with its events where they are.
LEMMA AwayMoves ==
    ASSUME NEW d \in Dispatches, Away(d), \A e \in Outgoing(d) : Stored(e) => Stored(e)',
           Outgoing(d)' \subseteq Outgoing(d), sending'[d] = <<>>,
           \/ d \in broken' \/ at'[d] = "throw"
           \/ at[d] \notin {"save", "throw"} /\ d \notin broken /\ aggregate'[d].newEvents = aggregate[d].newEvents,
           at'[d] \in {"new", "lock", "load"} => aggregate'[d].newEvents = <<>>,
           at'[d] \in {"commit", "ended"} /\ d \notin broken' => aggregate'[d].newEvents = <<>>
    PROVE  Away(d)'
<1>1. \A e \in Outgoing(d)' : e[1] = d
  BY DEF Away
<1>2. ASSUME d \notin broken', at'[d] # "throw", NEW e \in Outgoing(d)' PROVE Kept(d, e)'
  BY <1>2 DEF Away, Kept
<1> QED
  BY <1>1, <1>2 DEF Away

LEMMA OutgoingIs ==
    /\ \A d : untold'[d] = untold[d] /\ buffer'[d] = buffer[d] /\ sending'[d] = sending[d] => Outgoing(d)' = Outgoing(d)
    /\ \A d : Outgoing(d)' = ToSet(untold'[d]) \cup EventsOf(buffer'[d]) \cup EventsOf(sending'[d])
BY DEF Outgoing, EventsOf, ToSet

LEMMA KeptNext ==
    ASSUME NEW d, NEW e
    PROVE  Kept(d, e)' <=> \/ Stored(e)'
                           \/ e \in ToSet(aggregate'[d].newEvents)
                           \/ at'[d] = "save" /\ e \in ToSet(found'[d].events)
<1>1. /\ (e \in ToSet(aggregate[d].newEvents))' <=> e \in ToSet(aggregate'[d].newEvents)
      /\ (e \in ToSet(found[d].events))' <=> e \in ToSet(found'[d].events)
  BY DEF ToSet
<1>2. Kept(d, e)' <=> \/ Stored(e)'
                      \/ (e \in ToSet(aggregate[d].newEvents))'
                      \/ (at[d] = "save" /\ e \in ToSet(found[d].events))'
  BY DEF Kept
<1> QED
  BY <1>1, <1>2

LEMMA InitOut == Init => OutInv
<1> SUFFICES ASSUME Init PROVE OutInv
  OBVIOUS
<1>1. OutTypes
  BY NothingOut DEF Init, OutTypes
<1>2. \A d \in Dispatches : Outgoing(d) = {}
  BY NothingOut DEF Init, Outgoing
<1>3. \A d \in Dispatches : at[d] = "new" /\ aggregate[d].newEvents = <<>> /\ sending[d] = <<>>
  BY DEF Init, New
<1>4. EmittedIsStored
  BY DEF Init, EmittedIsStored
<1> QED
  BY <1>1, <1>2, <1>3, <1>4 DEF OutInv, Away

\* Nothing but its own steps touches a dispatch.
LEMMA OnlyIts ==
    ASSUME IInv, OutTypes, NEW d \in Dispatches, NEW c \in Dispatches, c # d,
           \/ Dispatch(d) \/ TakeLock(d) \/ LockTimesOut(d) \/ Load(d) \/ RaiseEvent(d) \/ Emit(d)
           \/ Persist(d) \/ PersistTimesOut(d) \/ Save(d) \/ SaveFails(d)
           \/ Return(d) \/ Throw(d) \/ Commit(d) \/ EmitNext(d) \/ EmitFails(d)
    PROVE  /\ untold'[c] = untold[c] /\ buffer'[c] = buffer[c] /\ sending'[c] = sending[c]
           /\ at'[c] = at[c] /\ aggregate'[c] = aggregate[c] /\ found'[c] = found[c] /\ (c \in broken' <=> c \in broken)
<1>1. /\ at \in [Dispatches -> Wheres] /\ aggregate \in [Dispatches -> Instances] /\ found \in [Dispatches -> Reads]
      /\ untold \in [Dispatches -> Seq(Events)] /\ buffer \in [Dispatches -> Batches] /\ sending \in [Dispatches -> Batches]
  BY DEF IInv, StoreTypes, OutTypes
<1>2. CASE Dispatch(d) \/ TakeLock(d) \/ LockTimesOut(d) \/ Load(d)
  BY <1>1, <1>2 DEF Dispatch, TakeLock, LockTimesOut, Load, Goes, outgoing
<1>3. CASE RaiseEvent(d) \/ Emit(d)
  BY <1>1, <1>3 DEF RaiseEvent, Emit, Buffered, outgoing
<1>4. CASE Persist(d) \/ PersistTimesOut(d) \/ Save(d) \/ SaveFails(d)
  BY <1>1, <1>4 DEF Persist, PersistTimesOut, Save, SaveFails, Goes, outgoing, calls
<1>5. CASE Return(d) \/ Throw(d) \/ Commit(d)
  BY <1>1, <1>5 DEF Return, Throw, Commit, Buffered, Goes, outgoing
<1>6. CASE EmitNext(d) \/ EmitFails(d)
  BY <1>1, <1>6 DEF EmitNext, EmitFails, calls
<1> QED
  BY <1>2, <1>3, <1>4, <1>5, <1>6

\* What was emitted is stored, or its command failed, and remains so; what is emitted now is of this dispatch.
LEMMA StillEmitted ==
    ASSUME IInv, OutInv, Next, broken \subseteq broken', NEW d \in Dispatches,
           \A e \in emitted' \ emitted : e \in Events /\ (Stored(e)' \/ e[1] \in broken')
    PROVE  EmittedIsStored' /\ emitted' \subseteq Events
<1>1. \A e \in Events : Stored(e) => Stored(e)'
  BY StoredStays
<1>2. \A e \in emitted : e \in Events /\ (Stored(e) \/ e[1] \in broken)
  BY DEF OutInv, OutTypes, EmittedIsStored
<1>3. \A e \in emitted' : e \in Events /\ (Stored(e)' \/ e[1] \in broken')
  BY <1>1, <1>2
<1> QED
  BY <1>3 DEF EmittedIsStored

LEMMA StepOut ==
    ASSUME IInv, OutInv, Next, NEW d \in Dispatches,
           \/ Dispatch(d) \/ TakeLock(d) \/ LockTimesOut(d) \/ Load(d) \/ RaiseEvent(d) \/ Emit(d)
           \/ Persist(d) \/ PersistTimesOut(d) \/ Save(d) \/ SaveFails(d)
           \/ Return(d) \/ Throw(d) \/ Commit(d) \/ EmitNext(d) \/ EmitFails(d)
    PROVE  OutInv'
<1>t. /\ at \in [Dispatches -> Wheres] /\ aggregate \in [Dispatches -> Instances] /\ found \in [Dispatches -> Reads]
      /\ untold \in [Dispatches -> Seq(Events)] /\ buffer \in [Dispatches -> Batches] /\ sending \in [Dispatches -> Batches]
      /\ emitted \subseteq Events /\ Away(d) /\ untold[d] \in Seq(Events) /\ buffer[d] \in Batches /\ sending[d] \in Batches
      /\ aggregate[d] \in Instances /\ aggregate[d].newEvents \in Seq(Events) /\ aggregate[d].state \in Seq(Events)
  BY DEF IInv, StoreTypes, OutInv, OutTypes, Instances
<1>s. Outgoing(d) \subseteq Events /\ \A e \in Outgoing(d) : Stored(e) => Stored(e)'
  <2>1. \A s \in Seq(Events) : ToSet(s) \subseteq Events
    BY DEF ToSet
  <2>2. \A batches \in Batches : EventsOf(batches) \subseteq Events
    BY <2>1 DEF Batches, EventsOf
  <2> QED
    BY <1>t, <2>1, <2>2, StoredStays DEF Outgoing
<1>o. \A c \in Dispatches \ {d} : Away(c)'
  <2> SUFFICES ASSUME NEW c \in Dispatches, c # d PROVE Away(c)'
    OBVIOUS
  <2>1. /\ untold'[c] = untold[c] /\ buffer'[c] = buffer[c] /\ sending'[c] = sending[c]
        /\ at'[c] = at[c] /\ aggregate'[c] = aggregate[c] /\ found'[c] = found[c] /\ (c \in broken' <=> c \in broken)
    BY OnlyIts DEF OutInv
  <2>2. Outgoing(c)' = Outgoing(c)
    BY <2>1, OutgoingIs
  <2>3. Away(c) /\ untold[c] \in Seq(Events) /\ buffer[c] \in Batches /\ sending[c] \in Batches
    BY DEF OutInv, OutTypes
  <2>4. Outgoing(c) \subseteq Events
    <3>1. \A s \in Seq(Events) : ToSet(s) \subseteq Events
      BY DEF ToSet
    <3>2. \A batches \in Batches : EventsOf(batches) \subseteq Events
      BY <3>1 DEF Batches, EventsOf
    <3> QED
      BY <2>3, <3>1, <3>2 DEF Outgoing
  <2> QED
    BY <2>1, <2>2, <2>3, <2>4, StoredStays, AwayStays
\* It is enough that the dispatch's own events are in their places.
<1>q. ASSUME OutTypes', Away(d)', emitted' = emitted, broken \subseteq broken' PROVE OutInv'
  <2>1. EmittedIsStored'
    BY <1>q, StillEmitted
  <2> QED
    BY <1>o, <1>q, <2>1 DEF OutInv
\* And most steps leave them there.
<1>u. ASSUME UNCHANGED <<untold, outgoing>>, broken \subseteq broken', at[d] # "ended",
             \/ d \in broken' \/ at'[d] = "throw"
             \/ at[d] \notin {"save", "throw"} /\ d \notin broken /\ aggregate'[d].newEvents = aggregate[d].newEvents,
             at'[d] \in {"new", "lock", "load"} => aggregate'[d].newEvents = <<>>,
             at'[d] \in {"commit", "ended"} /\ d \notin broken' => aggregate'[d].newEvents = <<>>
      PROVE  OutInv'
  <2>1. /\ untold' = untold /\ buffer' = buffer /\ sending' = sending /\ emitted' = emitted
    BY <1>u DEF outgoing
  <2>2. Outgoing(d)' = Outgoing(d) /\ sending'[d] = <<>>
    BY <1>t, <1>u, <2>1, OutgoingIs DEF Away
  <2>3. Away(d)'
    BY <1>s, <1>t, <1>u, <2>2, AwayMoves
  <2>4. OutTypes'
    BY <1>t, <2>1 DEF OutTypes
  <2> QED
    BY <1>q, <1>u, <2>1, <2>3, <2>4
<1>1. CASE Dispatch(d) \/ TakeLock(d)
  <2>1. /\ at[d] \in {"new", "lock"} /\ at'[d] \in {"lock", "load"} /\ UNCHANGED <<aggregate, broken, untold, outgoing>>
    BY <1>1, <1>t DEF Dispatch, TakeLock, Goes
  <2>2. aggregate[d].newEvents = <<>>
    BY <1>t, <2>1 DEF Away
  <2> QED
    BY <1>u, <2>1, <2>2
<1>2. CASE LockTimesOut(d)
  <2>1. at[d] = "lock" /\ at'[d] = "commit" /\ broken' = broken \cup {d} /\ UNCHANGED <<untold, outgoing>>
    BY <1>2, <1>t DEF LockTimesOut, Goes
  <2> QED
    BY <1>u, <2>1
<1>3. CASE Load(d)
  <2>1. at[d] = "load" /\ at'[d] = "run" /\ aggregate'[d].newEvents = <<>> /\ UNCHANGED <<broken, untold, outgoing>>
    BY <1>3, <1>t DEF Load, Goes, New
  <2>2. aggregate[d].newEvents = <<>>
    BY <1>t, <2>1 DEF Away
  <2> QED
    BY <1>u, <2>1, <2>2
<1>4. CASE RaiseEvent(d)
  <2>0. <<d, raised[d] + 1>> \in Events
    BY <1>4, EventsNamed DEF RaiseEvent, IInv
  <2> PICK event \in Events : event = <<d, raised[d] + 1>>
    BY <2>0
  <2>1. event \in Events /\ event[1] = d
    OBVIOUS
  <2>2. /\ aggregate' = [aggregate EXCEPT ![d].state = Append(@, event), ![d].newEvents = Append(@, event)]
        /\ untold' = [untold EXCEPT ![d] = Append(@, event)]
        /\ at' = at /\ at[d] = "run" /\ broken' = broken /\ buffer' = buffer /\ sending' = sending /\ emitted' = emitted
    BY <1>4 DEF RaiseEvent, outgoing
  <2>3. aggregate'[d].newEvents = Append(aggregate[d].newEvents, event) /\ untold'[d] = Append(untold[d], event)
    BY <1>t, <2>2 DEF Instances
  <2>4. /\ ToSet(aggregate'[d].newEvents) = ToSet(aggregate[d].newEvents) \cup {event}
        /\ ToSet(untold'[d]) = ToSet(untold[d]) \cup {event} /\ Append(untold[d], event) \in Seq(Events)
    BY <1>t, <2>1, <2>3, EventAdded
  <2>5. OutTypes'
    BY <1>t, <2>2, <2>4 DEF OutTypes
  <2>6. Outgoing(d)' = Outgoing(d) \cup {event}
    BY <2>2, <2>4, OutgoingIs DEF Outgoing
  <2>7. Kept(d, event)' /\ \A e \in Outgoing(d) : Kept(d, e) => Kept(d, e)'
    <3>1. event \in ToSet(aggregate'[d].newEvents) /\ \A e \in ToSet(aggregate[d].newEvents) : e \in ToSet(aggregate'[d].newEvents)
      BY <2>4
    <3> QED
      BY <1>s, <2>2, <3>1, KeptNext DEF Kept
  <2>8. Away(d)'
    BY <1>t, <2>1, <2>2, <2>6, <2>7 DEF Away
  <2> QED
    BY <1>q, <2>2, <2>5, <2>8
<1>5. CASE Emit(d)
  <2>1. /\ buffer' = [buffer EXCEPT ![d] = Append(buffer[d], untold[d])] /\ untold' = [untold EXCEPT ![d] = <<>>]
        /\ at[d] = "run" /\ UNCHANGED <<at, aggregate, found, broken, sending, emitted>>
    BY <1>5 DEF Emit, Buffered
  <2>2. /\ Append(buffer[d], untold[d]) \in Batches
        /\ EventsOf(Append(buffer[d], untold[d])) = EventsOf(buffer[d]) \cup ToSet(untold[d])
    BY <1>t, BatchAdded
  <2>3. buffer'[d] = Append(buffer[d], untold[d]) /\ untold'[d] = <<>>
    BY <1>t, <2>1
  <2>4. OutTypes'
    BY <1>t, <2>1, <2>2, NothingOut DEF OutTypes
  <2>5. Outgoing(d)' \subseteq Outgoing(d)
    BY <2>1, <2>2, <2>3, NothingOut, OutgoingIs DEF Outgoing
  <2>6. Away(d)'
    BY <1>s, <1>t, <2>1, <2>5, AwayStays
  <2> QED
    BY <1>q, <2>1, <2>4, <2>6
<1>6. CASE Persist(d)
  <2>1. /\ at[d] = "run" /\ at' = [at EXCEPT ![d] = "save"]
        /\ found' = [found EXCEPT ![d] = [history |-> history[target[d]], events |-> aggregate[d].newEvents]]
        /\ UNCHANGED <<broken, untold, buffer, sending, emitted>>
    BY <1>6 DEF Persist, Goes, outgoing
  <2>2. at'[d] = "save" /\ found'[d].events = aggregate[d].newEvents
    BY <1>t, <2>1
  <2>3. Outgoing(d)' = Outgoing(d)
    BY <2>1, OutgoingIs
  <2>4. \A e \in Outgoing(d) : Kept(d, e) => Kept(d, e)'
    BY <1>s, <2>1, <2>2 DEF Kept, ToSet
  <2>5. Away(d)'
    BY <1>t, <2>1, <2>2, <2>3, <2>4 DEF Away
  <2>6. OutTypes'
    BY <1>t, <2>1 DEF OutTypes
  <2> QED
    BY <1>q, <2>1, <2>5, <2>6
<1>7. CASE PersistTimesOut(d)
  <2>1. at[d] = "run" /\ at' = at /\ broken' = broken \cup {d} /\ UNCHANGED <<untold, outgoing>>
    BY <1>7 DEF PersistTimesOut, calls
  <2> QED
    BY <1>u, <2>1
<1>8. CASE Save(d)
  <2>1. /\ at[d] = "save" /\ at' = [at EXCEPT ![d] = "run"]
        /\ UNCHANGED <<aggregate, broken, untold, buffer, sending, emitted>>
    BY <1>8 DEF Save, Goes, outgoing
  <2>2. at'[d] = "run"
    BY <1>t, <2>1
  <2>3. Outgoing(d)' = Outgoing(d)
    BY <2>1, OutgoingIs
  <2>4. \A e \in Outgoing(d) : e[1] = d
    BY <1>t DEF Away
  <2>5. \A e \in Outgoing(d) : Kept(d, e) => Kept(d, e)'
    <3> SUFFICES ASSUME NEW e \in Outgoing(d), Kept(d, e) PROVE Kept(d, e)'
      OBVIOUS
    <3>1. CASE Stored(e)
      BY <1>s, <3>1 DEF Kept
    <3>2. CASE e \in ToSet(aggregate[d].newEvents)
      BY <2>1, <3>2 DEF Kept, ToSet
    <3>3. CASE e \in ToSet(found[d].events)
      <4>1. Stored(e)'
        BY <1>8, <1>s, <2>4, <3>3, StoredStays
      <4> QED
        BY <4>1 DEF Kept
    <3> QED
      BY <3>1, <3>2, <3>3 DEF Kept
  <2>6. Away(d)'
    BY <1>t, <2>1, <2>2, <2>3, <2>5 DEF Away
  <2>7. OutTypes'
    BY <1>t, <2>1 DEF OutTypes
  <2> QED
    BY <1>q, <2>1, <2>6, <2>7
<1>9. CASE SaveFails(d)
  <2>1. at[d] = "save" /\ at'[d] = "throw" /\ UNCHANGED <<broken, untold, outgoing>>
    BY <1>9, <1>t DEF SaveFails, Goes
  <2> QED
    BY <1>u, <2>1
<1>10. CASE Return(d)
  <2>1. /\ at[d] = "run" /\ at' = [at EXCEPT ![d] = "commit"] /\ untold' = [untold EXCEPT ![d] = <<>>]
        /\ buffer' = [buffer EXCEPT ![d] = IF Returned(d) = <<>> THEN @ ELSE Append(@, Returned(d))]
        /\ aggregate[d].newEvents = <<>> \/ d \in broken
        /\ UNCHANGED <<aggregate, broken, sending, emitted>>
    BY <1>10 DEF Return, Buffered, Goes
  <2>2. Returned(d) \in Seq(Events) /\ ToSet(Returned(d)) \subseteq ToSet(untold[d])
    BY <1>t, ReturnedIsUntold
  <2>3. /\ Append(buffer[d], Returned(d)) \in Batches
        /\ EventsOf(Append(buffer[d], Returned(d))) = EventsOf(buffer[d]) \cup ToSet(Returned(d))
    BY <1>t, <2>2, BatchAdded
  <2>4. buffer'[d] \in {buffer[d], Append(buffer[d], Returned(d))} /\ untold'[d] = <<>> /\ at'[d] = "commit"
    BY <1>t, <2>1
  <2>5. OutTypes'
    BY <1>t, <2>1, <2>3, NothingOut DEF OutTypes
  <2>6. Outgoing(d)' \subseteq Outgoing(d)
    BY <2>1, <2>2, <2>3, <2>4, NothingOut, OutgoingIs DEF Outgoing
  <2>7. sending'[d] = <<>>
    BY <1>t, <2>1 DEF Away
  <2>8. Away(d)'
    BY <1>s, <1>t, <2>1, <2>4, <2>6, <2>7, AwayMoves
  <2> QED
    BY <1>q, <2>1, <2>5, <2>8
<1>11. CASE Throw(d)
  <2>1. at[d] \in {"run", "throw"} /\ at'[d] = "commit" /\ broken' = broken \cup {d} /\ UNCHANGED <<untold, outgoing>>
    BY <1>11, <1>t DEF Throw
  <2> QED
    BY <1>u, <2>1
<1>12. CASE Commit(d)
  <2>1. /\ at[d] = "commit" /\ at' = [at EXCEPT ![d] = "ended"] /\ sending' = [sending EXCEPT ![d] = buffer[d]]
        /\ buffer' = [buffer EXCEPT ![d] = <<>>] /\ UNCHANGED <<aggregate, broken, untold, emitted>>
    BY <1>12 DEF Commit, Goes
  <2>2. at'[d] = "ended" /\ sending'[d] = buffer[d] /\ buffer'[d] = <<>>
    BY <1>t, <2>1
  <2>3. OutTypes'
    BY <1>t, <2>1, NothingOut DEF OutTypes
  <2>4. Outgoing(d)' \subseteq Outgoing(d)
    BY <2>1, <2>2, NothingOut, OutgoingIs DEF Outgoing
  <2>5. \A e \in Outgoing(d) : Kept(d, e) => Kept(d, e)'
    BY <1>s, <2>1, <2>2 DEF Kept, ToSet
  <2>6. Away(d)'
    BY <1>t, <2>1, <2>2, <2>4, <2>5 DEF Away
  <2> QED
    BY <1>q, <2>1, <2>3, <2>6
<1>13. CASE EmitNext(d)
  <2>1. /\ sending[d] # <<>> /\ emitted' = emitted \cup ToSet(Head(sending[d])) /\ sending' = [sending EXCEPT ![d] = Tail(@)]
        /\ UNCHANGED <<at, aggregate, found, broken, untold, buffer>>
    BY <1>13 DEF EmitNext, calls
  <2>2. sending'[d] = Tail(sending[d]) /\ at[d] = "ended"
    BY <1>t, <2>1 DEF Away
  <2>3. /\ Tail(sending[d]) \in Batches /\ ToSet(Head(sending[d])) \subseteq EventsOf(sending[d])
        /\ EventsOf(Tail(sending[d])) \subseteq EventsOf(sending[d])
    BY <1>t, <2>1, HeadAndTail
  <2>4. Outgoing(d)' \subseteq Outgoing(d) /\ ToSet(Head(sending[d])) \subseteq Outgoing(d)
    BY <2>1, <2>2, <2>3, OutgoingIs DEF Outgoing
  <2>5. Away(d)'
    <3>1. \A e \in Outgoing(d) : Kept(d, e) => Kept(d, e)'
      BY <1>s, <2>1 DEF Kept, ToSet
    <3> QED
      BY <1>t, <2>1, <2>2, <2>4, <3>1 DEF Away
  <2>6. \A e \in ToSet(Head(sending[d])) : e \in Events /\ (Stored(e)' \/ e[1] \in broken')
    <3> SUFFICES ASSUME NEW e \in ToSet(Head(sending[d])) PROVE e \in Events /\ (Stored(e)' \/ e[1] \in broken')
      OBVIOUS
    <3>1. e \in Outgoing(d) /\ e \in Events /\ e[1] = d
      BY <1>s, <1>t, <2>4 DEF Away
    <3>2. d \notin broken => Kept(d, e) /\ aggregate[d].newEvents = <<>>
      BY <1>t, <2>2, <3>1 DEF Away
    <3>3. d \notin broken => Stored(e)
      BY <2>2, <3>2, NothingOut DEF Kept
    <3> QED
      BY <1>s, <2>1, <3>1, <3>3
  <2>7. EmittedIsStored' /\ emitted' \subseteq Events
    BY <2>1, <2>6, StillEmitted
  <2>8. OutTypes'
    BY <1>t, <2>1, <2>3, <2>7 DEF OutTypes
  <2> QED
    BY <1>o, <2>5, <2>7, <2>8 DEF OutInv
<1>14. CASE EmitFails(d)
  <2>1. /\ sending[d] # <<>> /\ sending' = [sending EXCEPT ![d] = <<>>]
        /\ UNCHANGED <<at, aggregate, found, broken, untold, buffer, emitted>>
    BY <1>14 DEF EmitFails, calls
  <2>2. sending'[d] = <<>> /\ at[d] = "ended"
    BY <1>t, <2>1 DEF Away
  <2>3. OutTypes'
    BY <1>t, <2>1, NothingOut DEF OutTypes
  <2>4. Outgoing(d)' \subseteq Outgoing(d)
    BY <2>1, <2>2, NothingOut, OutgoingIs DEF Outgoing
  <2>5. Away(d)'
    <3>1. \A e \in Outgoing(d) : Kept(d, e) => Kept(d, e)'
      BY <1>s, <2>1 DEF Kept, ToSet
    <3> QED
      BY <1>t, <2>1, <2>2, <2>4, <3>1 DEF Away
  <2> QED
    BY <1>q, <2>1, <2>3, <2>5
<1> QED
  BY <1>1, <1>2, <1>3, <1>4, <1>5, <1>6, <1>7, <1>8, <1>9, <1>10, <1>11, <1>12, <1>13, <1>14

LEMMA StutterOut == OutInv /\ UNCHANGED vars => OutInv'
<1> SUFFICES ASSUME OutInv, UNCHANGED vars PROVE OutInv'
  OBVIOUS
<1>1. UNCHANGED <<at, target, aggregate, found, broken, untold, buffer, sending, emitted, history>>
  BY DEF vars, calls, outgoing, store
<1>2. \A e : Stored(e)' <=> Stored(e)
  BY <1>1 DEF Stored, Contains
<1>3. OutTypes' /\ EmittedIsStored'
  BY <1>1, <1>2 DEF OutInv, OutTypes, EmittedIsStored
<1>4. \A d \in Dispatches : Away(d)'
  <2> SUFFICES ASSUME NEW d \in Dispatches PROVE Away(d)'
    OBVIOUS
  <2>1. Away(d) /\ Outgoing(d)' = Outgoing(d)
    BY <1>1, OutgoingIs DEF OutInv
  <2> QED
    BY <1>1, <1>2, <2>1, AwayStays
<1> QED
  BY <1>3, <1>4 DEF OutInv

\* What reached the delegate was stored before, unless its command failed or went on without a lock: whatever order the command
\* emits and persists in, and whatever other commands, saves and batches fail.
THEOREM EmittedWasStored == Spec => []EmittedIsStored
<1>1. Init => IInv /\ OutInv
  BY InitInvariant, InitOut
<1>2. IInv /\ OutInv /\ [Next]_vars => IInv' /\ OutInv'
  <2> SUFFICES ASSUME IInv, OutInv, [Next]_vars PROVE OutInv'
    BY StepInvariant
  <2>1. CASE Next
    BY <2>1, StepOut DEF Next
  <2>2. CASE UNCHANGED vars
    BY <2>2, StutterOut
  <2> QED
    BY <2>1, <2>2
<1>3. OutInv => EmittedIsStored
  BY DEF OutInv
<1> QED
  BY <1>1, <1>2, <1>3, PTL DEF Spec
=============================================================================

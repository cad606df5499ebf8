-------------------------- MODULE JobRunnerProofs --------------------------
(***************************************************************************)
(* Proofs about the two runners of scheduled tasks, for any timers and any *)
(* number of calls and restarts.  First LocalTimers: that what is live is  *)
(* stored, and what the callers rely on is live, needs a datastore that    *)
(* reads at once; the rest holds for any.  Then BullMQTimers: a removed    *)
(* timer stays silent.                                                     *)
(***************************************************************************)
EXTENDS LocalTimers, BullMQTimers, TLAPS

\* While a simple timer is set, its timeout has been cleared.
ClearedFirst == \A k \in Keys \ CronKeys : op[k].at \in {"write", "arm"} => live[k] = {}

\* The call that sets a timer has a number for it.
NewIsNumbered == \A k \in Keys : op[k].at \in {"write", "arm"} => op[k].new \in Schedules

IInv == TypeOK /\ LiveIsHandled /\ ClearedFirst /\ NewIsNumbered

\* Nothing goes off that a restart would not bring back, outside of a call.
LiveIsStored == \A k \in Keys : op[k].at = "idle" => live[k] \subseteq rows[k]

\* Until a timer is armed no query has found its row, which is there once it is written.
NewIsFresh == \A k \in Keys :
    /\ op[k].at \in {"write", "arm"} =>
          /\ op[k].new \in 1..adds
          /\ \A query \in cleanups : query.key = k => op[k].new \notin query.found
    /\ op[k].at = "arm" => op[k].new \in rows[k]
    /\ rows[k] \subseteq 1..adds

\* What a fired timer's query found is not live.
QueriesAreOld == \A query \in cleanups :
    /\ query.key \notin CronKeys
    /\ query.found \subseteq 1..adds
    /\ query.found \cap live[query.key] = {}

DownAsksNothing == process = "down" => cleanups = {}

\* A cron that is replaced stays live between the two writes.
CronsAreStored == \A k \in CronKeys : op[k].at # "arm" => live[k] \subseteq rows[k]
SimpleAreStored == \A k \in Keys \ CronKeys : live[k] \subseteq rows[k]

RowsInv == /\ NewIsFresh /\ QueriesAreOld /\ DownAsksNothing
           /\ CronsAreStored /\ SimpleAreStored
StoredInv == IInv /\ RowsInv
-----------------------------------------------------------------------------
LEMMA ConstantFacts == /\ None \notin Schedules
                       /\ MaxAdds \in Nat
                       /\ Schedules \subseteq Nat
BY BoundsAssumption DEF None, Schedules

\* Loading gives each key of the group one handle, that of one of its rows.
LEMMA LoadFacts ==
    ASSUME TypeOK, NEW keys \in SUBSET Keys, Load(keys)
    PROVE  /\ handle' \in [Keys -> Schedules \cup {None}]
           /\ live' \in [Keys -> SUBSET Schedules]
           /\ \A k \in keys : live'[k] \subseteq {handle'[k]} /\ live'[k] \subseteq rows[k]
           /\ \A k \in Keys \ keys : live'[k] = live[k] /\ handle'[k] = handle[k]
<1>1. PICK last \in [keys -> Schedules \cup {None}] :
          /\ \A k \in keys : last[k] \in (IF rows[k] = {} THEN {None} ELSE LoadedLast(k))
          /\ handle' = [k \in Keys |-> IF k \in keys THEN last[k] ELSE handle[k]]
          /\ live' = [k \in Keys |-> IF k \in keys THEN {last[k]} \ {None} ELSE live[k]]
  BY DEF Load
<1>2. handle \in [Keys -> Schedules \cup {None}] /\ live \in [Keys -> SUBSET Schedules]
  BY DEF TypeOK
<1>3. \A k \in keys : last[k] \in rows[k] \cup {None}
  BY <1>1 DEF LoadedLast
<1>4. \A k \in keys : {last[k]} \ {None} \subseteq Schedules
  BY <1>1
<1>5. \A k \in keys : k \in Keys
  OBVIOUS
<1> QED
  BY <1>1, <1>2, <1>3, <1>4, <1>5

LEMMA InitIInv == Init => IInv
<1> SUFFICES ASSUME Init PROVE IInv
  OBVIOUS
<1>1. Idle \in [at: {"idle", "write", "arm", "remove"},
                new: Schedules \cup {None}, found: SUBSET Schedules]
  BY DEF Idle
<1>2. 0 \in 0..MaxAdds /\ 0 \in 0..MaxStops
  BY BoundsAssumption
<1> QED
  BY <1>1, <1>2, KeysAssumption
     DEF Init, IInv, TypeOK, LiveIsHandled, ClearedFirst, NewIsNumbered, Idle

LEMMA NextIInv == IInv /\ [Next]_vars => IInv'
<1> SUFFICES ASSUME IInv, [Next]_vars PROVE IInv'
  OBVIOUS
<1> DEFINE Ops == [at: {"idle", "write", "arm", "remove"},
                   new: Schedules \cup {None}, found: SUBSET Schedules]
<1>1. /\ TypeOK /\ LiveIsHandled /\ ClearedFirst /\ NewIsNumbered
      /\ rows \in [Keys -> SUBSET Schedules] /\ handle \in [Keys -> Schedules \cup {None}]
      /\ live \in [Keys -> SUBSET Schedules] /\ op \in [Keys -> Ops]
      /\ adds \in 0..MaxAdds /\ stops \in 0..MaxStops
      /\ CronKeys \subseteq Keys
  BY KeysAssumption DEF IInv, TypeOK
<1>2. ASSUME NEW k \in Keys, Add(k) PROVE IInv'
  <2>1. adds' \in 0..MaxAdds /\ adds + 1 \in Schedules
    BY <1>1, <1>2, BoundsAssumption DEF Add, Schedules
  <2>2. [Idle EXCEPT !.at = "write", !.new = adds + 1] \in Ops
    BY <2>1 DEF Idle
  <2>3. live' \in [Keys -> SUBSET Schedules] /\ \A j \in Keys : live'[j] \subseteq live[j]
    BY <1>1, <1>2 DEF Add
  <2>4. k \notin CronKeys => live'[k] = {}
    BY <1>1, <1>2 DEF Add, LiveIsHandled
  <2>5. op' \in [Keys -> Ops] /\ \A j \in Keys : j # k => op'[j] = op[j]
    BY <1>1, <1>2, <2>2 DEF Add
  <2>6. TypeOK'
    BY <1>1, <1>2, <2>1, <2>3, <2>5 DEF Add, TypeOK
  <2>7. LiveIsHandled' /\ ClearedFirst'
    BY <1>1, <1>2, <2>3, <2>4, <2>5 DEF Add, LiveIsHandled, ClearedFirst
  <2>8. op'[k].new = adds + 1
    BY <1>1, <1>2 DEF Add, Idle
  <2>9. NewIsNumbered'
    BY <1>1, <2>1, <2>5, <2>8 DEF NewIsNumbered
  <2> QED
    BY <2>6, <2>7, <2>9 DEF IInv
<1>3. ASSUME NEW k \in Keys, Write(k) PROVE IInv'
  <2>1. op[k].new \in Schedules /\ op[k].at = "write" /\ op[k] \in Ops
    BY <1>1, <1>3 DEF Write, NewIsNumbered
  <2>2. rows' \in [Keys -> SUBSET Schedules]
    BY <1>1, <1>3, <2>1 DEF Write
  <2>3. op' = [op EXCEPT ![k] = [op[k] EXCEPT !.at = "arm"]]
    BY <1>1, <1>3 DEF Write
  <2>4. [op[k] EXCEPT !.at = "arm"] \in Ops
    BY <2>1
  <2>5. op' \in [Keys -> Ops] /\ \A j \in Keys : j # k => op'[j] = op[j]
    BY <1>1, <2>3, <2>4
  <2>6. op'[k].at = "arm" /\ op'[k].new = op[k].new
    BY <1>1, <2>1, <2>3
  <2>7. process # "down"
    BY <1>1, <2>1 DEF TypeOK, Idle
  <2>8. TypeOK'
    BY <1>1, <1>3, <2>2, <2>5, <2>7 DEF Write, TypeOK
  <2>9. LiveIsHandled' /\ ClearedFirst' /\ NewIsNumbered'
    BY <1>1, <1>3, <2>1, <2>5, <2>6 DEF Write, LiveIsHandled, ClearedFirst, NewIsNumbered
  <2> QED
    BY <2>8, <2>9 DEF IInv
<1>4. ASSUME NEW k \in Keys, Arm(k) PROVE IInv'
  <2>1. op[k].new \in Schedules /\ op[k].at = "arm"
    BY <1>1, <1>4 DEF Arm, NewIsNumbered
  <2>2. Armed(k, op[k].new) = {op[k].new}
    BY <1>1, <2>1 DEF Armed, LiveIsHandled, ClearedFirst
  <2>3. live' = [live EXCEPT ![k] = {op[k].new}] /\ live' \in [Keys -> SUBSET Schedules]
    BY <1>1, <1>4, <2>1, <2>2 DEF Arm
  <2>4. handle' = [handle EXCEPT ![k] = op[k].new]
        /\ handle' \in [Keys -> Schedules \cup {None}]
    BY <1>1, <1>4, <2>1 DEF Arm
  <2>5. Idle \in Ops
    BY DEF Idle
  <2>6. op' = [op EXCEPT ![k] = Idle] /\ op' \in [Keys -> Ops]
    BY <1>1, <1>4, <2>5 DEF Arm
  <2>7. process # "down"
    BY <1>1, <2>1 DEF TypeOK, Idle
  <2>8. asked' \in [Keys -> Schedules \cup {None, Unknown}]
    BY <1>1, <1>4, <2>1 DEF Arm, TypeOK
  <2>9. TypeOK'
    BY <1>1, <1>4, <2>3, <2>4, <2>6, <2>7, <2>8 DEF Arm, TypeOK
  <2>10. LiveIsHandled'
    BY <1>1, <2>3, <2>4 DEF LiveIsHandled
  <2>11. ClearedFirst' /\ NewIsNumbered'
    BY <1>1, <2>3, <2>6 DEF ClearedFirst, NewIsNumbered, Idle
  <2> QED
    BY <2>9, <2>10, <2>11 DEF IInv
<1>5. ASSUME NEW k \in Keys, Remove(k) PROVE IInv'
  <2>1. [Idle EXCEPT !.at = "remove", !.found = rows[k]] \in Ops
    BY <1>1 DEF Idle
  <2>2. op' \in [Keys -> Ops] /\ \A j \in Keys : j # k => op'[j] = op[j]
    BY <1>1, <1>5, <2>1 DEF Remove
  <2>3. op'[k].at = "remove" /\ process = "up"
    BY <1>1, <1>5 DEF Remove, Idle
  <2>4. TypeOK'
    BY <1>1, <1>5, <2>2, <2>3 DEF Remove, TypeOK
  <2>5. LiveIsHandled' /\ ClearedFirst' /\ NewIsNumbered'
    BY <1>1, <1>5, <2>2, <2>3 DEF Remove, LiveIsHandled, ClearedFirst, NewIsNumbered
  <2> QED
    BY <2>4, <2>5 DEF IInv
<1>6. ASSUME NEW k \in Keys, RemoveRows(k) PROVE IInv'
  <2>1. rows' \in [Keys -> SUBSET Schedules] /\ op[k].at = "remove"
    BY <1>1, <1>6 DEF RemoveRows
  <2>2. /\ live' \in [Keys -> SUBSET Schedules]
        /\ handle' \in [Keys -> Schedules \cup {None}]
        /\ \A j \in Keys : live'[j] \subseteq live[j]
        /\ \A j \in Keys : j # k => handle'[j] = handle[j]
        /\ handle'[k] = handle[k] \/ live'[k] = live[k] \ {handle[k]}
    BY <1>1, <1>6 DEF RemoveRows
  <2>3. Idle \in Ops
    BY DEF Idle
  <2>4. op' = [op EXCEPT ![k] = Idle] /\ op' \in [Keys -> Ops]
    BY <1>1, <1>6, <2>3 DEF RemoveRows
  <2>5. process # "down"
    BY <1>1, <2>1 DEF TypeOK, Idle
  <2>6. TypeOK'
    BY <1>1, <1>6, <2>1, <2>2, <2>4, <2>5 DEF RemoveRows, TypeOK
  <2>7. LiveIsHandled'
    BY <1>1, <2>2 DEF LiveIsHandled
  <2>8. ClearedFirst' /\ NewIsNumbered'
    BY <1>1, <2>2, <2>4 DEF ClearedFirst, NewIsNumbered, Idle
  <2> QED
    BY <2>6, <2>7, <2>8 DEF IInv
<1>7. ASSUME NEW k \in Keys, NEW n \in Schedules, Fire(k, n) PROVE IInv'
  <2>1. process # "down"
    BY <1>1, <1>7 DEF Fire, TypeOK
  <2>2. live' \in [Keys -> SUBSET Schedules] /\ \A j \in Keys : live'[j] \subseteq live[j]
    BY <1>1, <1>7 DEF Fire
  <2>3. cleanups' \subseteq [key: Keys, found: SUBSET Schedules]
    BY <1>1, <1>7 DEF Fire, TypeOK
  <2>4. asked' \in [Keys -> Schedules \cup {None, Unknown}]
    BY <1>1, <1>7 DEF Fire, TypeOK
  <2>5. fired' \in [Keys -> SUBSET Schedules]
    BY <1>1, <1>7 DEF Fire, TypeOK
  <2>6. TypeOK'
    BY <1>1, <1>7, <2>1, <2>2, <2>3, <2>4, <2>5 DEF Fire, TypeOK
  <2>7. LiveIsHandled' /\ ClearedFirst' /\ NewIsNumbered'
    BY <1>1, <1>7, <2>2 DEF Fire, LiveIsHandled, ClearedFirst, NewIsNumbered
  <2> QED
    BY <2>6, <2>7 DEF IInv
<1>8. ASSUME NEW query \in cleanups, Forget(query) PROVE IInv'
  <2>1. rows' \in [Keys -> SUBSET Schedules]
    BY <1>1, <1>8 DEF Forget
  <2>2. TypeOK'
    BY <1>1, <1>8, <2>1 DEF Forget, TypeOK
  <2>3. LiveIsHandled' /\ ClearedFirst' /\ NewIsNumbered'
    BY <1>1, <1>8 DEF Forget, LiveIsHandled, ClearedFirst, NewIsNumbered
  <2> QED
    BY <2>2, <2>3 DEF IInv
<1>9. ASSUME Stop PROVE IInv'
  <2>1. op' = [k \in Keys |-> Idle] /\ op' \in [Keys -> Ops]
    BY <1>9 DEF Stop, Idle
  <2>2. stops' \in 0..MaxStops
    BY <1>1, <1>9, BoundsAssumption DEF Stop
  <2>3. live' = [k \in Keys |-> {}]
    BY <1>9 DEF Stop
  <2>4. TypeOK'
    BY <1>1, <1>9, <2>1, <2>2, <2>3 DEF Stop, TypeOK
  <2>5. LiveIsHandled' /\ ClearedFirst' /\ NewIsNumbered'
    BY <1>1, <2>1, <2>3 DEF LiveIsHandled, ClearedFirst, NewIsNumbered, Idle
  <2> QED
    BY <2>4, <2>5 DEF IInv
<1>10. ASSUME StartTimers PROVE IInv'
  <2>1. \A k \in Keys : op[k] = Idle /\ op'[k] = Idle
    BY <1>1, <1>10 DEF StartTimers, TypeOK
  <2>2. /\ handle' \in [Keys -> Schedules \cup {None}]
        /\ live' \in [Keys -> SUBSET Schedules]
        /\ \A k \in Keys \ CronKeys : live'[k] \subseteq {handle'[k]}
        /\ \A k \in CronKeys : live'[k] = live[k] /\ handle'[k] = handle[k]
    BY <1>1, <1>10, LoadFacts DEF StartTimers, Simple
  <2>3. TypeOK'
    BY <1>1, <1>10, <2>2 DEF StartTimers, TypeOK
  <2>4. LiveIsHandled'
    BY <1>1, <2>2 DEF LiveIsHandled
  <2>5. ClearedFirst' /\ NewIsNumbered'
    BY <1>1, <2>1 DEF ClearedFirst, NewIsNumbered, Idle
  <2> QED
    BY <2>3, <2>4, <2>5 DEF IInv
<1>11. ASSUME StartCrons PROVE IInv'
  <2>1. /\ handle' \in [Keys -> Schedules \cup {None}]
        /\ live' \in [Keys -> SUBSET Schedules]
        /\ \A k \in CronKeys : live'[k] \subseteq {handle'[k]}
        /\ \A k \in Keys \ CronKeys : live'[k] = live[k] /\ handle'[k] = handle[k]
    BY <1>1, <1>11, LoadFacts DEF StartCrons
  <2>2. TypeOK'
    BY <1>1, <1>11, <2>1 DEF StartCrons, TypeOK
  <2>3. LiveIsHandled' /\ ClearedFirst' /\ NewIsNumbered'
    BY <1>1, <1>11, <2>1 DEF StartCrons, LiveIsHandled, ClearedFirst, NewIsNumbered
  <2> QED
    BY <2>2, <2>3 DEF IInv
<1>12. CASE UNCHANGED vars
  BY <1>1, <1>12 DEF vars, IInv, TypeOK, LiveIsHandled, ClearedFirst, NewIsNumbered
<1> QED
  BY <1>2, <1>3, <1>4, <1>5, <1>6, <1>7, <1>8, <1>9, <1>10, <1>11, <1>12 DEF Next

LEMMA Invariant == Spec => []IInv
BY InitIInv, NextIInv, PTL DEF Spec

\* The variables keep their types, and a process that is down holds no timer and no call
\* (startup, local-schedule-job-runner.ts:163-183, loads everything from the rows).
THEOREM TypeCorrect == Spec => []TypeOK
<1>1. IInv => TypeOK
  BY DEF IInv
<1> QED
  BY <1>1, Invariant, PTL

\* Every timeout and cron task that is live is the one the maps hold, so that clearTimeout
\* and destroy reach it: no replacement, removal or restart leaves a second one behind.
THEOREM Cancellable == Spec => []LiveIsHandled
<1>1. IInv => LiveIsHandled
  BY DEF IInv
<1> QED
  BY <1>1, Invariant, PTL
-----------------------------------------------------------------------------
(* A datastore that reads at once *)

LEMMA InitStored == Init => StoredInv
<1> SUFFICES ASSUME Init PROVE StoredInv
  OBVIOUS
<1>1. IInv
  BY InitIInv
<1>2. CronKeys \subseteq Keys
  BY KeysAssumption
<1> QED
  BY <1>1, <1>2 DEF Init, StoredInv, RowsInv, NewIsFresh, QueriesAreOld, DownAsksNothing,
                    CronsAreStored, SimpleAreStored, Idle

LEMMA NextStored == LateReads = FALSE /\ StoredInv /\ [Next]_vars => StoredInv'
<1> SUFFICES ASSUME LateReads = FALSE, StoredInv, [Next]_vars PROVE StoredInv'
  OBVIOUS
<1>1. /\ TypeOK /\ LiveIsHandled /\ ClearedFirst /\ NewIsNumbered
      /\ NewIsFresh /\ QueriesAreOld /\ DownAsksNothing /\ CronsAreStored /\ SimpleAreStored
      /\ rows \in [Keys -> SUBSET Schedules] /\ live \in [Keys -> SUBSET Schedules]
      /\ op \in [Keys -> [at: {"idle", "write", "arm", "remove"},
                          new: Schedules \cup {None}, found: SUBSET Schedules]]
      /\ cleanups \subseteq [key: Keys, found: SUBSET Schedules]
      /\ adds \in Nat /\ CronKeys \subseteq Keys
  BY KeysAssumption, BoundsAssumption DEF StoredInv, RowsInv, IInv, TypeOK
<1>2. IInv'
  BY NextIInv DEF StoredInv
<1>3. SUFFICES RowsInv'
  BY <1>2 DEF StoredInv
<1>4. \A k \in Keys : \A found : Answer(k, found) = found
  BY DEF Answer
<1>5. ASSUME NEW k \in Keys, Add(k) PROVE RowsInv'
  <2>1. adds' = adds + 1 /\ 1..adds \subseteq 1..adds' /\ adds' \in 1..adds'
        /\ adds' \notin 1..adds
    BY <1>1, <1>5 DEF Add
  <2>2. \A j \in Keys : live'[j] \subseteq live[j]
    BY <1>1, <1>5 DEF Add
  <2>3. op'[k].at = "write" /\ op'[k].new = adds' /\ op[k].at = "idle"
    BY <1>1, <1>5 DEF Add, Idle
  <2>4. \A j \in Keys : j # k => op'[j] = op[j]
    BY <1>1, <1>5 DEF Add
  <2>5. rows' = rows /\ cleanups' = cleanups /\ process' = process /\ process = "up"
    BY <1>5 DEF Add
  <2>6. \A query \in cleanups : query.key \in Keys
    BY <1>1
  <2>7. NewIsFresh'
    <3> SUFFICES ASSUME NEW j \in Keys
                 PROVE  /\ op'[j].at \in {"write", "arm"} =>
                             /\ op'[j].new \in 1..adds'
                             /\ \A query \in cleanups :
                                   query.key = j => op'[j].new \notin query.found
                        /\ op'[j].at = "arm" => op'[j].new \in rows[j]
                        /\ rows[j] \subseteq 1..adds'
      BY <2>5 DEF NewIsFresh
    <3>1. CASE j = k
      BY <1>1, <2>1, <2>3, <3>1 DEF NewIsFresh, QueriesAreOld
    <3>2. CASE j # k
      BY <1>1, <2>1, <2>4, <3>2 DEF NewIsFresh
    <3> QED
      BY <3>1, <3>2
  <2>8. QueriesAreOld'
    BY <1>1, <2>1, <2>2, <2>5, <2>6 DEF QueriesAreOld
  <2>9. CronsAreStored' /\ SimpleAreStored' /\ DownAsksNothing'
    BY <1>1, <2>2, <2>3, <2>4, <2>5 DEF CronsAreStored, SimpleAreStored, DownAsksNothing
  <2> QED
    BY <2>7, <2>8, <2>9 DEF RowsInv
<1>6. ASSUME NEW k \in Keys, Write(k) PROVE RowsInv'
  <2>1. op[k].at = "write" /\ op'[k].at = "arm" /\ op'[k].new = op[k].new
    BY <1>1, <1>6 DEF Write
  <2>2. \A j \in Keys : j # k => op'[j] = op[j] /\ rows'[j] = rows[j]
    BY <1>1, <1>6 DEF Write
  <2>3. /\ op[k].new \in rows'[k] /\ rows'[k] \subseteq rows[k] \cup {op[k].new}
        /\ k \notin CronKeys => rows[k] \subseteq rows'[k]
    BY <1>1, <1>6 DEF Write
  <2>4. UNCHANGED <<live, cleanups, process, adds>>
    BY <1>6 DEF Write
  <2>5. NewIsFresh'
    BY <1>1, <2>1, <2>2, <2>3, <2>4 DEF NewIsFresh
  <2>6. QueriesAreOld' /\ DownAsksNothing'
    BY <1>1, <2>4 DEF QueriesAreOld, DownAsksNothing
  <2>7. CronsAreStored' /\ SimpleAreStored'
    BY <1>1, <2>1, <2>2, <2>3, <2>4 DEF CronsAreStored, SimpleAreStored
  <2> QED
    BY <2>5, <2>6, <2>7 DEF RowsInv
<1>7. ASSUME NEW k \in Keys, Arm(k) PROVE RowsInv'
  <2>1. op[k].at = "arm" /\ op'[k].at = "idle"
    BY <1>1, <1>7 DEF Arm, Idle
  <2>2. \A j \in Keys : j # k => op'[j] = op[j] /\ live'[j] = live[j]
    BY <1>1, <1>7 DEF Arm
  <2>3. live'[k] = {op[k].new}
    BY <1>1, <1>7, <2>1 DEF Arm, Armed, LiveIsHandled, ClearedFirst
  <2>4. UNCHANGED <<rows, cleanups, process, adds>>
    BY <1>7 DEF Arm
  <2>5. NewIsFresh' /\ DownAsksNothing'
    BY <1>1, <2>1, <2>2, <2>4 DEF NewIsFresh, DownAsksNothing
  <2>6. QueriesAreOld'
    <3> SUFFICES ASSUME NEW query \in cleanups
                 PROVE  query.found \cap live'[query.key] = {}
      BY <1>1, <2>4 DEF QueriesAreOld
    <3>1. CASE query.key = k
      BY <1>1, <2>1, <2>3, <3>1 DEF NewIsFresh
    <3>2. CASE query.key # k
      BY <1>1, <2>2, <3>2 DEF QueriesAreOld
    <3> QED
      BY <3>1, <3>2
  <2>7. live'[k] \subseteq rows[k]
    BY <1>1, <2>1, <2>3 DEF NewIsFresh
  <2>8. CronsAreStored' /\ SimpleAreStored'
    BY <1>1, <2>2, <2>4, <2>7 DEF CronsAreStored, SimpleAreStored
  <2> QED
    BY <2>5, <2>6, <2>8 DEF RowsInv
<1>8. ASSUME NEW k \in Keys, Remove(k) PROVE RowsInv'
  <2>1. op[k].at = "idle" /\ op'[k].at = "remove"
    BY <1>1, <1>8 DEF Remove, Idle
  <2>2. \A j \in Keys : j # k => op'[j] = op[j]
    BY <1>1, <1>8 DEF Remove
  <2>3. UNCHANGED <<rows, live, cleanups, process, adds>>
    BY <1>8 DEF Remove
  <2> QED
    BY <1>1, <2>1, <2>2, <2>3 DEF RowsInv, NewIsFresh, QueriesAreOld, DownAsksNothing,
                                  CronsAreStored, SimpleAreStored
<1>9. ASSUME NEW k \in Keys, RemoveRows(k) PROVE RowsInv'
  <2>1. op[k].at = "remove" /\ op'[k].at = "idle"
    BY <1>1, <1>9 DEF RemoveRows, Idle
  <2>2. \A j \in Keys : j # k => op'[j] = op[j] /\ live'[j] = live[j] /\ rows'[j] = rows[j]
    BY <1>1, <1>9 DEF RemoveRows
  <2>3. rows'[k] \subseteq rows[k] /\ live'[k] \subseteq live[k]
    BY <1>1, <1>9 DEF RemoveRows
  <2>6. live'[k] \subseteq rows'[k]
    <3>1. op[k].found = {} => rows'[k] = rows[k]
      BY <1>1, <1>4, <1>9 DEF RemoveRows
    <3>2. op[k].found # {} => live'[k] = {}
      BY <1>1, <1>4, <1>9 DEF RemoveRows, LiveIsHandled
    <3>3. live[k] \subseteq rows[k]
      BY <1>1, <2>1 DEF CronsAreStored, SimpleAreStored
    <3> QED
      BY <2>3, <3>1, <3>2, <3>3
  <2>7. UNCHANGED <<cleanups, process, adds>>
    BY <1>9 DEF RemoveRows
  <2>8. NewIsFresh' /\ DownAsksNothing'
    BY <1>1, <2>1, <2>2, <2>3, <2>7 DEF NewIsFresh, DownAsksNothing
  <2>9. QueriesAreOld'
    BY <1>1, <2>2, <2>3, <2>7 DEF QueriesAreOld
  <2>10. CronsAreStored' /\ SimpleAreStored'
    BY <1>1, <2>2, <2>6 DEF CronsAreStored, SimpleAreStored
  <2> QED
    BY <2>8, <2>9, <2>10 DEF RowsInv
<1>10. ASSUME NEW k \in Keys, NEW n \in Schedules, Fire(k, n) PROVE RowsInv'
  <2>1. UNCHANGED <<rows, op, process, adds>> /\ process # "down" /\ n \in live[k]
    BY <1>1, <1>10 DEF Fire, TypeOK
  <2>2. \A j \in Keys : live'[j] \subseteq live[j]
    BY <1>1, <1>10 DEF Fire
  <2>3. CronsAreStored' /\ SimpleAreStored' /\ DownAsksNothing'
    BY <1>1, <2>1, <2>2 DEF CronsAreStored, SimpleAreStored, DownAsksNothing
  <2>4. CASE k \in CronKeys
    <3>1. cleanups' = cleanups
      BY <1>10, <2>4 DEF Fire
    <3> QED
      BY <1>1, <2>1, <2>2, <2>3, <3>1 DEF RowsInv, NewIsFresh, QueriesAreOld
  <2>5. CASE k \notin CronKeys
    <3> DEFINE mine == [key |-> k, found |-> rows[k]]
    <3>1. cleanups' = cleanups \cup {mine} /\ live'[k] = {}
      BY <1>1, <1>10, <2>5 DEF Fire, LiveIsHandled
    <3>2. op[k].at \notin {"write", "arm"}
      BY <1>1, <2>1, <2>5 DEF ClearedFirst
    <3>3. NewIsFresh'
      <4> SUFFICES ASSUME NEW j \in Keys, op[j].at \in {"write", "arm"},
                          NEW query \in cleanups', query.key = j
                   PROVE  op[j].new \notin query.found
        BY <1>1, <2>1 DEF NewIsFresh
      <4> QED
        BY <1>1, <3>1, <3>2 DEF NewIsFresh
    <3>4. rows[k] \subseteq 1..adds
      BY <1>1 DEF NewIsFresh
    <3>5. QueriesAreOld'
      BY <1>1, <2>1, <2>2, <2>5, <3>1, <3>4 DEF QueriesAreOld
    <3> QED
      BY <2>3, <3>3, <3>5 DEF RowsInv
  <2> QED
    BY <2>4, <2>5 DEF RowsInv
<1>11. ASSUME NEW query \in cleanups, Forget(query) PROVE RowsInv'
  <2>1. /\ rows'[query.key] = rows[query.key] \ query.found /\ query.key \in Keys
        /\ \A j \in Keys : j # query.key => rows'[j] = rows[j]
    BY <1>1, <1>4, <1>11 DEF Forget
  <2>2. UNCHANGED <<live, op, process, adds>> /\ cleanups' = cleanups \ {query}
    BY <1>11 DEF Forget
  <2>3. NewIsFresh'
    BY <1>1, <2>1, <2>2 DEF NewIsFresh
  <2>4. QueriesAreOld' /\ DownAsksNothing'
    BY <1>1, <2>2 DEF QueriesAreOld, DownAsksNothing
  <2>5. CronsAreStored' /\ SimpleAreStored'
    BY <1>1, <2>1, <2>2 DEF CronsAreStored, SimpleAreStored, QueriesAreOld
  <2> QED
    BY <2>3, <2>4, <2>5 DEF RowsInv
<1>12. ASSUME Stop PROVE RowsInv'
  <2>1. /\ \A k \in Keys : live'[k] = {} /\ op'[k].at = "idle"
        /\ cleanups' = {} /\ rows' = rows /\ adds' = adds
    BY <1>12 DEF Stop, Idle
  <2> QED
    BY <1>1, <2>1 DEF RowsInv, NewIsFresh, QueriesAreOld, DownAsksNothing, CronsAreStored,
                      SimpleAreStored
<1>13. ASSUME StartTimers PROVE RowsInv'
  <2>1. UNCHANGED <<rows, op, cleanups, adds>> /\ cleanups = {} /\ process' # "down"
    BY <1>1, <1>13 DEF StartTimers, DownAsksNothing
  <2>2. /\ \A k \in Keys \ CronKeys : live'[k] \subseteq rows[k]
        /\ \A k \in CronKeys : live'[k] = live[k]
    BY <1>1, <1>13, LoadFacts DEF StartTimers, Simple
  <2> QED
    BY <1>1, <2>1, <2>2 DEF RowsInv, NewIsFresh, QueriesAreOld, DownAsksNothing, CronsAreStored,
                            SimpleAreStored
<1>14. ASSUME StartCrons PROVE RowsInv'
  <2>1. UNCHANGED <<rows, op, cleanups, adds>> /\ process' # "down"
    BY <1>14 DEF StartCrons
  <2>2. /\ \A k \in CronKeys : live'[k] \subseteq rows[k]
        /\ \A k \in Keys \ CronKeys : live'[k] = live[k]
    BY <1>1, <1>14, LoadFacts DEF StartCrons
  <2> QED
    BY <1>1, <2>1, <2>2 DEF RowsInv, NewIsFresh, QueriesAreOld, DownAsksNothing, CronsAreStored,
                            SimpleAreStored
<1>15. CASE UNCHANGED vars
  BY <1>1, <1>15 DEF vars, RowsInv, NewIsFresh, QueriesAreOld, DownAsksNothing, CronsAreStored,
                     SimpleAreStored
<1> QED
  BY <1>5, <1>6, <1>7, <1>8, <1>9, <1>10, <1>11, <1>12, <1>13, <1>14, <1>15 DEF Next

\* With a datastore that reads at once, a timer that can go off outside of a call is one a
\* restart would load: the rows a fired timer deletes are never those of a later schedule.
THEOREM RestartRestores == LateReads = FALSE /\ Spec => []LiveIsStored
<1>1. StoredInv => LiveIsStored
  <2> SUFFICES ASSUME StoredInv, NEW k \in Keys, op[k].at = "idle"
               PROVE  live[k] \subseteq rows[k]
    BY DEF LiveIsStored
  <2> QED
    BY DEF StoredInv, RowsInv, CronsAreStored, SimpleAreStored
<1>2. LateReads = FALSE => (Spec => []StoredInv)
  <2> SUFFICES ASSUME LateReads = FALSE PROVE Spec => []StoredInv
    OBVIOUS
  <2>1. StoredInv /\ [Next]_vars => StoredInv'
    BY NextStored
  <2> QED
    BY <2>1, InitStored, PTL DEF Spec
<1> QED
  BY <1>1, <1>2, PTL
-----------------------------------------------------------------------------
(* What the callers rely on *)

\* A call leaves the schedule it sets the last of its rows, and a removal has found every row there is.
CallSeesRows(k) ==
    /\ op[k].at \in {"write", "arm"} => \A m \in rows[k] : m <= op[k].new
    /\ op[k].at = "remove" => rows[k] \subseteq op[k].found

\* The schedule the callers rely on is the last of its rows; where they rely on none, every row left has been found by the
\* query of a timer that fired, and is on its way out.
Found(k, m) == \E query \in cleanups : query.key = k /\ m \in query.found
RowsAsAsked(k) == asked[k] # Unknown =>
    /\ op[k].at = "idle"
    /\ asked[k] # None => asked[k] \in rows[k] /\ \A m \in rows[k] : m <= asked[k]
    /\ asked[k] = None => \A m \in rows[k] : Found(k, m)

\* Timers that are loaded are armed as asked, the simple ones before the crons.
Loaded(k) == process = "up" \/ (process = "starting" /\ k \notin CronKeys)
LiveAsAsked(k) == Loaded(k) /\ asked[k] # Unknown => live[k] = {asked[k]} \ {None}

Relied(k) == CallSeesRows(k) /\ RowsAsAsked(k) /\ LiveAsAsked(k)
AskedInv == \A k \in Keys : Relied(k)

LEMMA InitAsked == Init => AskedInv
<1> SUFFICES ASSUME Init, NEW k \in Keys PROVE Relied(k)
  BY DEF AskedInv
<1>1. op[k].at = "idle" /\ rows[k] = {} /\ live[k] = {} /\ asked[k] = None
  BY DEF Init, Idle
<1> QED
  BY <1>1 DEF Relied, CallSeesRows, RowsAsAsked, LiveAsAsked

\* A key that a step leaves alone.
LEMMA KeyStays ==
    ASSUME NEW k \in Keys, Relied(k), op'[k] = op[k], rows'[k] = rows[k], asked'[k] = asked[k], live'[k] = live[k],
           \A query \in cleanups : query.key = k => query \in cleanups', process' = process
    PROVE  Relied(k)'
<1>1. \A m : Found(k, m) => Found(k, m)'
  BY DEF Found
<1> QED
  BY <1>1 DEF Relied, CallSeesRows, RowsAsAsked, LiveAsAsked, Loaded

\* A datastore that reads at once loads the last row of each key.
LEMMA LastIsLoaded ==
    ASSUME LateReads = FALSE, TypeOK, NEW keys \in SUBSET Keys, Load(keys), NEW k \in keys
    PROVE  /\ rows[k] = {} => live'[k] = {}
           /\ rows[k] # {} => \E n \in rows[k] : live'[k] = {n} /\ \A m \in rows[k] : m <= n
<1>1. PICK last \in [keys -> Schedules \cup {None}] :
          /\ \A j \in keys : last[j] \in (IF rows[j] = {} THEN {None} ELSE LoadedLast(j))
          /\ live' = [j \in Keys |-> IF j \in keys THEN {last[j]} \ {None} ELSE live[j]]
  BY DEF Load
<1>2. live'[k] = {last[k]} \ {None} /\ k \in Keys
  BY <1>1
<1>3. CASE rows[k] = {}
  BY <1>1, <1>2, <1>3
<1>4. CASE rows[k] # {}
  <2>1. last[k] \in rows[k] /\ \A m \in rows[k] : m <= last[k]
    BY <1>1, <1>4 DEF LoadedLast
  <2>2. last[k] # None
    BY <2>1, ConstantFacts DEF TypeOK
  <2> QED
    BY <1>2, <1>4, <2>1, <2>2
<1> QED
  BY <1>3, <1>4

\* A key that is loaded is armed as asked, when no query of it is out.
LEMMA KeyLoads ==
    ASSUME LateReads = FALSE, TypeOK, NEW keys \in SUBSET Keys, Load(keys), NEW k \in keys, Relied(k),
           \A query \in cleanups : query.key # k, UNCHANGED <<op, rows, asked, cleanups>>
    PROVE  Relied(k)'
<1>1. CallSeesRows(k)' /\ RowsAsAsked(k)'
  BY DEF Relied, CallSeesRows, RowsAsAsked, Found
<1>2. ASSUME asked[k] # Unknown PROVE live'[k] = {asked[k]} \ {None}
  <2>1. /\ asked[k] # None => asked[k] \in rows[k] /\ \A m \in rows[k] : m <= asked[k]
        /\ asked[k] = None => rows[k] = {}
    BY <1>2 DEF Relied, RowsAsAsked, Found
  <2>2. CASE asked[k] = None
    BY <2>1, <2>2, LastIsLoaded
  <2>3. CASE asked[k] # None
    <3>1. PICK n \in rows[k] : live'[k] = {n} /\ \A m \in rows[k] : m <= n
      BY <2>1, <2>3, LastIsLoaded
    <3>2. \A m \in rows[k] : m \in Nat
      BY ConstantFacts DEF TypeOK
    <3>3. n = asked[k]
      BY <2>1, <2>3, <3>1, <3>2
    <3> QED
      BY <2>3, <3>1, <3>3
  <2> QED
    BY <2>2, <2>3
<1> QED
  BY <1>1, <1>2 DEF Relied, LiveAsAsked

LEMMA NextAsked == LateReads = FALSE /\ StoredInv /\ AskedInv /\ [Next]_vars => AskedInv'
<1> SUFFICES ASSUME LateReads = FALSE, StoredInv, AskedInv, [Next]_vars PROVE AskedInv'
  OBVIOUS
<1>1. /\ TypeOK /\ LiveIsHandled /\ NewIsFresh /\ QueriesAreOld /\ DownAsksNothing
      /\ CronsAreStored /\ SimpleAreStored
      /\ rows \in [Keys -> SUBSET Schedules] /\ live \in [Keys -> SUBSET Schedules]
      /\ op \in [Keys -> [at: {"idle", "write", "arm", "remove"},
                          new: Schedules \cup {None}, found: SUBSET Schedules]]
      /\ asked \in [Keys -> Schedules \cup {None, Unknown}]
      /\ cleanups \subseteq [key: Keys, found: SUBSET Schedules]
      /\ adds \in Nat /\ CronKeys \subseteq Keys
  BY KeysAssumption, BoundsAssumption DEF StoredInv, RowsInv, IInv, TypeOK
<1>2. None # Unknown /\ None \notin Schedules /\ Unknown \notin Schedules /\ Schedules \subseteq Nat
  BY BoundsAssumption DEF None, Unknown, Schedules
<1>3. \A k \in Keys : \A found : Answer(k, found) = found
  BY DEF Answer
<1>4. \A k \in Keys : Relied(k)
  BY DEF AskedInv
<1>5. ASSUME NEW k \in Keys, Add(k) PROVE AskedInv'
  <2> SUFFICES ASSUME NEW j \in Keys PROVE Relied(j)'
    BY DEF AskedInv
  <2>1. UNCHANGED <<rows, cleanups, process>>
    BY <1>5 DEF Add
  <2>2. CASE j = k
    <3>1. op'[k].at = "write" /\ op'[k].new = adds + 1 /\ asked'[k] = Unknown
      BY <1>1, <1>5 DEF Add, Idle
    <3>2. \A m \in rows[k] : m <= adds + 1
      BY <1>1 DEF NewIsFresh
    <3> QED
      BY <2>1, <2>2, <3>1, <3>2 DEF Relied, CallSeesRows, RowsAsAsked, LiveAsAsked
  <2>3. CASE j # k
    <3>1. op'[j] = op[j] /\ asked'[j] = asked[j] /\ live'[j] = live[j]
      BY <1>1, <1>5, <2>3 DEF Add
    <3> QED
      BY <1>4, <2>1, <3>1, KeyStays
  <2> QED
    BY <2>2, <2>3
<1>6. ASSUME NEW k \in Keys, Write(k) PROVE AskedInv'
  <2> SUFFICES ASSUME NEW j \in Keys PROVE Relied(j)'
    BY DEF AskedInv
  <2>1. UNCHANGED <<live, cleanups, process, asked>>
    BY <1>6 DEF Write
  <2>2. CASE j = k
    <3>1. /\ op[k].at = "write" /\ op'[k].at = "arm" /\ op'[k].new = op[k].new /\ op[k].new \in 1 .. adds
          /\ rows'[k] \subseteq rows[k] \cup {op[k].new}
      BY <1>1, <1>6 DEF Write, NewIsFresh
    <3>2. asked[k] = Unknown
      BY <1>4, <3>1 DEF Relied, RowsAsAsked
    <3>3. \A m \in rows'[k] : m <= op[k].new
      BY <1>4, <3>1 DEF Relied, CallSeesRows
    <3> QED
      BY <2>1, <2>2, <3>1, <3>2, <3>3 DEF Relied, CallSeesRows, RowsAsAsked, LiveAsAsked
  <2>3. CASE j # k
    <3>1. op'[j] = op[j] /\ rows'[j] = rows[j]
      BY <1>1, <1>6, <2>3 DEF Write
    <3> QED
      BY <1>4, <2>1, <3>1, KeyStays
  <2> QED
    BY <2>2, <2>3
<1>7. ASSUME NEW k \in Keys, Arm(k) PROVE AskedInv'
  <2> SUFFICES ASSUME NEW j \in Keys PROVE Relied(j)'
    BY DEF AskedInv
  <2>1. UNCHANGED <<rows, cleanups, process>>
    BY <1>7 DEF Arm
  <2>2. CASE j = k
    <3>1. /\ op[k].at = "arm" /\ op'[k].at = "idle" /\ asked'[k] = op[k].new
          /\ op[k].new \in rows[k] /\ op[k].new \in Schedules
      BY <1>1, <1>7 DEF Arm, Idle, NewIsFresh
    <3>2. live'[k] = {op[k].new}
      BY <1>1, <1>7, <3>1 DEF Arm, Armed, LiveIsHandled, StoredInv, IInv, ClearedFirst
    <3>3. \A m \in rows[k] : m <= op[k].new
      BY <1>4, <3>1 DEF Relied, CallSeesRows
    <3>4. CallSeesRows(k)' /\ RowsAsAsked(k)'
      BY <1>2, <2>1, <3>1, <3>3 DEF CallSeesRows, RowsAsAsked
    <3>5. LiveAsAsked(k)'
      BY <1>2, <3>1, <3>2 DEF LiveAsAsked
    <3> QED
      BY <2>2, <3>4, <3>5 DEF Relied
  <2>3. CASE j # k
    <3>1. op'[j] = op[j] /\ asked'[j] = asked[j] /\ live'[j] = live[j]
      BY <1>1, <1>7, <2>3 DEF Arm
    <3> QED
      BY <1>4, <2>1, <3>1, KeyStays
  <2> QED
    BY <2>2, <2>3
<1>8. ASSUME NEW k \in Keys, Remove(k) PROVE AskedInv'
  <2> SUFFICES ASSUME NEW j \in Keys PROVE Relied(j)'
    BY DEF AskedInv
  <2>1. UNCHANGED <<rows, live, cleanups, process>>
    BY <1>8 DEF Remove
  <2>2. CASE j = k
    <3>1. op'[k].at = "remove" /\ op'[k].found = rows[k] /\ asked'[k] = Unknown
      BY <1>1, <1>8 DEF Remove, Idle
    <3> QED
      BY <2>1, <2>2, <3>1 DEF Relied, CallSeesRows, RowsAsAsked, LiveAsAsked
  <2>3. CASE j # k
    <3>1. op'[j] = op[j] /\ asked'[j] = asked[j]
      BY <1>1, <1>8, <2>3 DEF Remove
    <3> QED
      BY <1>4, <2>1, <3>1, KeyStays
  <2> QED
    BY <2>2, <2>3
<1>9. ASSUME NEW k \in Keys, RemoveRows(k) PROVE AskedInv'
  <2> SUFFICES ASSUME NEW j \in Keys PROVE Relied(j)'
    BY DEF AskedInv
  <2>1. UNCHANGED <<cleanups, process>>
    BY <1>9 DEF RemoveRows
  <2>2. CASE j = k
    <3>1. op[k].at = "remove" /\ op'[k].at = "idle" /\ asked'[k] = None /\ rows'[k] = rows[k] \ op[k].found
      BY <1>1, <1>3, <1>9 DEF RemoveRows, Idle
    <3>2. rows'[k] = {}
      BY <1>4, <3>1 DEF Relied, CallSeesRows
    <3>3. live'[k] = {}
      <4>1. CASE op[k].found = {}
        <5>1. live' = live
          BY <1>3, <1>9, <4>1 DEF RemoveRows
        <5>2. rows[k] = {}
          BY <1>4, <3>1, <4>1 DEF Relied, CallSeesRows
        <5> QED
          BY <1>1, <3>1, <5>1, <5>2 DEF CronsAreStored, SimpleAreStored
      <4>2. CASE op[k].found # {}
        <5>1. live'[k] = live[k] \ {handle[k]}
          BY <1>1, <1>3, <1>9, <4>2 DEF RemoveRows
        <5> QED
          BY <1>1, <5>1 DEF LiveIsHandled
      <4> QED
        BY <4>1, <4>2
    <3> QED
      BY <2>2, <3>1, <3>2, <3>3 DEF Relied, CallSeesRows, RowsAsAsked, LiveAsAsked
  <2>3. CASE j # k
    <3>1. op'[j] = op[j] /\ asked'[j] = asked[j] /\ live'[j] = live[j] /\ rows'[j] = rows[j]
      BY <1>1, <1>9, <2>3 DEF RemoveRows
    <3> QED
      BY <1>4, <2>1, <3>1, KeyStays
  <2> QED
    BY <2>2, <2>3
<1>10. ASSUME NEW k \in Keys, NEW n \in Schedules, Fire(k, n) PROVE AskedInv'
  <2> SUFFICES ASSUME NEW j \in Keys PROVE Relied(j)'
    BY DEF AskedInv
  <2>1. UNCHANGED <<rows, op, process>> /\ process # "down" /\ n \in live[k]
    BY <1>1, <1>10 DEF Fire, TypeOK
  <2>2. CASE k \in CronKeys
    <3>1. UNCHANGED <<live, cleanups, asked>>
      BY <1>10, <2>2 DEF Fire
    <3> QED
      BY <1>4, <2>1, <3>1, KeyStays
  <2>3. CASE k \notin CronKeys /\ j # k
    <3>1. live'[j] = live[j] /\ asked'[j] = asked[j] /\ cleanups \subseteq cleanups'
      BY <1>1, <1>10, <2>3 DEF Fire
    <3> QED
      BY <1>4, <2>1, <3>1, KeyStays
  <2>4. CASE k \notin CronKeys /\ j = k
    <3>1. /\ live'[k] = live[k] \ {n} /\ asked'[k] = (IF asked[k] = n THEN None ELSE asked[k])
          /\ [key |-> k, found |-> rows[k]] \in cleanups'
      BY <1>1, <1>10, <2>4 DEF Fire
    <3>2. Loaded(k)
      BY <1>1, <2>1, <2>4 DEF Loaded, TypeOK
    <3>3. asked[k] # Unknown => live[k] = {n} /\ asked[k] = n
      BY <1>4, <2>1, <3>2 DEF Relied, LiveAsAsked
    <3>4. asked[k] = Unknown => asked'[k] = Unknown
      BY <1>2, <3>1
    <3>5. asked[k] # Unknown => asked'[k] = None /\ live'[k] = {} /\ op[k].at = "idle"
      BY <1>4, <3>1, <3>3 DEF Relied, RowsAsAsked
    <3>6. \A m \in rows[k] : Found(k, m)'
      <4> SUFFICES ASSUME NEW m \in rows[k] PROVE \E query \in cleanups' : query.key = k /\ m \in query.found
        BY DEF Found
      <4> QED
        BY <3>1
    <3>7. CallSeesRows(k)'
      BY <1>4, <2>1 DEF Relied, CallSeesRows
    <3>8. RowsAsAsked(k)'
      BY <2>1, <3>4, <3>5, <3>6 DEF RowsAsAsked
    <3>9. LiveAsAsked(k)'
      BY <3>4, <3>5 DEF LiveAsAsked
    <3> QED
      BY <2>4, <3>7, <3>8, <3>9 DEF Relied
  <2> QED
    BY <2>2, <2>3, <2>4
<1>11. ASSUME NEW query \in cleanups, Forget(query) PROVE AskedInv'
  <2> SUFFICES ASSUME NEW j \in Keys PROVE Relied(j)'
    BY DEF AskedInv
  <2>1. UNCHANGED <<live, op, process, asked>> /\ cleanups' = cleanups \ {query} /\ query.key \in Keys
    BY <1>1, <1>11 DEF Forget
  <2>2. CASE j # query.key
    <3>1. rows'[j] = rows[j] /\ \A other \in cleanups : other.key = j => other \in cleanups'
      BY <1>1, <1>11, <2>1, <2>2 DEF Forget
    <3> QED
      BY <1>4, <2>1, <3>1, KeyStays
  <2>3. CASE j = query.key
    <3>1. rows'[j] = rows[j] \ query.found
      BY <1>1, <1>3, <1>11, <2>3 DEF Forget
    <3>2. j \notin CronKeys /\ process # "down" /\ Loaded(j)
      BY <1>1, <2>3 DEF QueriesAreOld, DownAsksNothing, Loaded, TypeOK
    <3>3. asked[j] # Unknown /\ asked[j] # None => asked[j] \in rows'[j]
      <4> SUFFICES ASSUME asked[j] # Unknown, asked[j] # None PROVE asked[j] \in rows'[j]
        OBVIOUS
      <4>1. asked[j] \in live[j]
        BY <1>4, <3>2 DEF Relied, LiveAsAsked
      <4>2. asked[j] \notin query.found
        BY <1>1, <2>3, <4>1 DEF QueriesAreOld
      <4>3. asked[j] \in rows[j]
        BY <1>4 DEF Relied, RowsAsAsked
      <4> QED
        BY <3>1, <4>2, <4>3
    <3>4. \A m \in rows'[j] : Found(j, m) => Found(j, m)'
      <4> SUFFICES ASSUME NEW m \in rows'[j], Found(j, m) PROVE Found(j, m)'
        OBVIOUS
      <4>1. PICK other \in cleanups : other.key = j /\ m \in other.found
        BY DEF Found
      <4>2. other # query
        BY <3>1, <4>1
      <4>3. other \in cleanups'
        BY <2>1, <4>2
      <4> QED
        BY <4>1, <4>3 DEF Found
    <3>5. CallSeesRows(j)' /\ LiveAsAsked(j)'
      BY <1>4, <2>1, <3>1 DEF Relied, CallSeesRows, LiveAsAsked, Loaded
    <3>6. RowsAsAsked(j)'
      BY <1>4, <2>1, <3>1, <3>3, <3>4 DEF Relied, RowsAsAsked
    <3> QED
      BY <3>5, <3>6 DEF Relied
  <2> QED
    BY <2>2, <2>3
<1>12. ASSUME Stop PROVE AskedInv'
  <2> SUFFICES ASSUME NEW j \in Keys PROVE Relied(j)'
    BY DEF AskedInv
  <2>1. /\ op'[j].at = "idle" /\ process' = "down" /\ rows' = rows
        /\ asked'[j] = (IF \E query \in cleanups : query.key = j THEN Unknown ELSE asked[j])
    BY <1>12 DEF Stop, Idle
  <2>2. CASE asked'[j] = Unknown
    BY <2>1, <2>2 DEF Relied, CallSeesRows, RowsAsAsked, LiveAsAsked
  <2>3. CASE asked'[j] # Unknown
    <3>1. asked'[j] = asked[j] /\ \A query \in cleanups : query.key # j
      BY <2>1, <2>3
    <3>2. asked[j] = None => rows[j] = {}
      BY <1>2, <1>4, <3>1 DEF Relied, RowsAsAsked, Found
    <3>3. asked[j] # None => asked[j] \in rows[j] /\ \A m \in rows[j] : m <= asked[j]
      BY <1>4, <2>3, <3>1 DEF Relied, RowsAsAsked
    <3>4. RowsAsAsked(j)'
      BY <2>1, <3>1, <3>2, <3>3 DEF RowsAsAsked
    <3> QED
      BY <2>1, <3>4 DEF Relied, CallSeesRows, LiveAsAsked, Loaded
  <2> QED
    BY <2>2, <2>3
<1>13. ASSUME StartTimers PROVE AskedInv'
  <2> SUFFICES ASSUME NEW j \in Keys PROVE Relied(j)'
    BY DEF AskedInv
  <2>1. /\ UNCHANGED <<rows, op, cleanups, asked>> /\ cleanups = {} /\ process' = "starting"
        /\ Load(Keys \ CronKeys)
    BY <1>1, <1>13 DEF StartTimers, DownAsksNothing, Simple
  <2>2. CASE j \notin CronKeys
    <3>1. Keys \ CronKeys \in SUBSET Keys /\ j \in Keys \ CronKeys /\ \A query \in cleanups : query.key # j
      BY <2>1, <2>2
    <3> QED
      BY <1>1, <1>4, <2>1, <3>1, KeyLoads
  <2>3. CASE j \in CronKeys
    BY <1>4, <2>1, <2>3 DEF Relied, CallSeesRows, RowsAsAsked, LiveAsAsked, Loaded, Found
  <2> QED
    BY <2>2, <2>3
<1>14. ASSUME StartCrons PROVE AskedInv'
  <2> SUFFICES ASSUME NEW j \in Keys PROVE Relied(j)'
    BY DEF AskedInv
  <2>1. /\ UNCHANGED <<rows, op, cleanups, asked>> /\ process = "starting" /\ process' = "up" /\ Load(CronKeys)
    BY <1>14 DEF StartCrons
  <2>2. CASE j \in CronKeys
    <3>1. \A query \in cleanups : query.key # j
      BY <1>1, <2>2 DEF QueriesAreOld
    <3> QED
      BY <1>1, <1>4, <2>1, <2>2, <3>1, KeyLoads
  <2>3. CASE j \notin CronKeys
    <3>1. live'[j] = live[j]
      BY <1>1, <2>1, <2>3, LoadFacts
    <3> QED
      BY <1>4, <2>1, <2>3, <3>1 DEF Relied, CallSeesRows, RowsAsAsked, LiveAsAsked, Loaded, Found
  <2> QED
    BY <2>2, <2>3
<1>15. CASE UNCHANGED vars
  BY <1>4, <1>15, KeyStays DEF vars, AskedInv
<1> QED
  BY <1>5, <1>6, <1>7, <1>8, <1>9, <1>10, <1>11, <1>12, <1>13, <1>14, <1>15 DEF Next

\* With a datastore that reads at once, what the callers were told of a timer is what node holds: the schedule they set last,
\* or none, through restarts and the late deletions of timers that fired.
THEOREM ArmedAsAsked == LateReads = FALSE /\ Spec => []AskedIsArmed
<1>1. AskedInv => AskedIsArmed
  <2> SUFFICES ASSUME AskedInv, process = "up", NEW k \in Keys
               PROVE  CASE asked[k] = Unknown -> TRUE
                        [] asked[k] = None -> live[k] = {}
                        [] OTHER -> live[k] = {asked[k]}
    BY DEF AskedIsArmed
  <2>1. asked[k] # Unknown => live[k] = {asked[k]} \ {None}
    BY DEF AskedInv, Relied, LiveAsAsked, Loaded
  <2>2. None # Unknown
    BY BoundsAssumption DEF None, Unknown
  <2> QED
    BY <2>1, <2>2
<1>2. LateReads = FALSE => (Spec => [](StoredInv /\ AskedInv))
  <2> SUFFICES ASSUME LateReads = FALSE PROVE Spec => [](StoredInv /\ AskedInv)
    OBVIOUS
  <2>1. StoredInv /\ AskedInv /\ [Next]_vars => StoredInv' /\ AskedInv'
    BY NextStored, NextAsked
  <2> QED
    BY <2>1, InitStored, InitAsked, PTL DEF Spec
<1> QED
  BY <1>1, <1>2, PTL
-----------------------------------------------------------------------------
(* BullMQTimers *)

Calls == [at: {"idle", "write", "repeat", "job", "row"},
          new: Schedules \cup {None}, inContext: BOOLEAN, clean: BOOLEAN]
Flights == [does: {"add", "delete"}, key: Keys, n: Schedules \cup {None}]

\* Whatever sets a timer, a call or an addition on its way, has a number for it.
SettingIsNumbered ==
    /\ \A k \in Keys : op[k].at \in {"write", "repeat"} => op[k].new \in Schedules
    /\ \A f \in flight : f.does = "add" => f.n \in Schedules

\* Nothing for the timer is in the queue or on its way there.
Quiet(k) == job[k] = None /\ \A f \in flight : f.key # k

\* Between the removal of the job and that of the row nothing brings the job back: a load
\* would, but the process is up.
CleanIsQuiet == \A k \in Keys :
    op[k].at = "row" /\ op[k].clean => process = "up" /\ Quiet(k)

\* Without a row there is nothing that a call or a restart could go on with.
RemovedIsQuiet == \A k \in removed : op[k] = NoCall /\ rows[k] = {} /\ Quiet(k)

QueueTyped == QueueTypeOK /\ SettingIsNumbered
Silence == CleanIsQuiet /\ RemovedIsQuiet
-----------------------------------------------------------------------------
LEMMA NoCallIsCall == NoCall \in Calls /\ NoCall.at = "idle"
BY DEF NoCall, Calls

LEMMA InitQueueTyped == QueueInit => QueueTyped
<1> SUFFICES ASSUME QueueInit PROVE QueueTyped
  OBVIOUS
<1>1. 0 \in 0..MaxAdds /\ 0 \in 0..MaxStops /\ 0 \in 0..MaxFaults
  BY BoundsAssumption, FaultsAssumption
<1>2. op \in [Keys -> Calls] /\ \A k \in Keys : op[k].at = "idle"
  BY NoCallIsCall DEF QueueInit
<1>3. QueueTypeOK
  BY <1>1, <1>2 DEF QueueInit, QueueTypeOK, Calls
<1>4. SettingIsNumbered
  BY <1>2 DEF QueueInit, SettingIsNumbered
<1> QED
  BY <1>3, <1>4 DEF QueueTyped

\* A change of one call which keeps the others.
LEMMA CallChanges ==
    ASSUME QueueTyped, NEW k \in Keys, NEW call \in Calls,
           call.at \in {"write", "repeat"} => call.new \in Schedules,
           op' = [op EXCEPT ![k] = call], flight' \in SUBSET Flights,
           \A f \in flight' : f.does = "add" => f.n \in Schedules
    PROVE  op' \in [Keys -> Calls] /\ op'[k] = call /\ SettingIsNumbered'
           /\ \A j \in Keys : j # k => op'[j] = op[j]
<1>1. op \in [Keys -> Calls]
  BY DEF QueueTyped, QueueTypeOK, Calls
<1>2. op' \in [Keys -> Calls] /\ op'[k] = call /\ \A j \in Keys : j # k => op'[j] = op[j]
  BY <1>1
<1>3. \A j \in Keys : op'[j].at \in {"write", "repeat"} => op'[j].new \in Schedules
  BY <1>2 DEF QueueTyped, SettingIsNumbered
<1> QED
  BY <1>2, <1>3 DEF SettingIsNumbered

\* What is lost are rows.
LEMMA LostFacts ==
    ASSUME QueueTyped, NEW k \in Keys, NEW S \in SUBSET (Schedules \cup {None}), Lost(k, S)
    PROVE  /\ dropped' \in [Keys -> SUBSET Schedules]
           /\ dropped'[k] = dropped[k] \cup ((S \cap rows[k]) \ wentOff[k])
           /\ \A j \in Keys : j # k => dropped'[j] = dropped[j]
BY DEF QueueTyped, QueueTypeOK, Lost

LEMMA RowsFacts ==
    ASSUME QueueTyped, NEW k \in Keys, NEW S \in SUBSET Schedules, RowsAre(k, S)
    PROVE  /\ rows' \in [Keys -> SUBSET Schedules] /\ wentOff' \in [Keys -> SUBSET Schedules]
           /\ rows'[k] = S /\ wentOff'[k] = wentOff[k] \cap S
           /\ \A j \in Keys : j # k => rows'[j] = rows[j] /\ wentOff'[j] = wentOff[j]
BY DEF QueueTyped, QueueTypeOK, RowsAre

LEMMA NextQueueTyped == QueueTyped /\ [QueueNext]_queueVars => QueueTyped'
<1> SUFFICES ASSUME QueueTyped, [QueueNext]_queueVars PROVE QueueTyped'
  OBVIOUS
<1> USE DEF queue, worker, served, history, counters
<1>1. /\ QueueTypeOK /\ SettingIsNumbered
      /\ rows \in [Keys -> SUBSET Schedules] /\ op \in [Keys -> Calls]
      /\ flight \in SUBSET Flights
      /\ dropped \in [Keys -> SUBSET Schedules] /\ wentOff \in [Keys -> SUBSET Schedules]
      /\ repeats \in [Keys -> SUBSET Schedules] /\ job \in [Keys -> Schedules \cup {None}]
      /\ adds \in 0..MaxAdds /\ stops \in 0..MaxStops /\ faults \in 0..MaxFaults
      /\ removed \subseteq Keys /\ active \subseteq Keys
      /\ CronKeys \subseteq Keys /\ Simple \subseteq Keys
      /\ MaxAdds \in Nat /\ MaxStops \in Nat /\ MaxFaults \in Nat
  BY KeysAssumption, BoundsAssumption, FaultsAssumption
     DEF QueueTyped, QueueTypeOK, Calls, Flights, Simple
<1>2. \A f \in flight : f.key \in Keys /\ f.n \in Schedules \cup {None}
  BY <1>1 DEF Flights
<1>3. ASSUME NEW k \in Keys, NEW inContext \in BOOLEAN, AddScheduledTask(k, inContext)
      PROVE  QueueTyped'
  <2>1. adds' \in 0..MaxAdds /\ adds + 1 \in Schedules
    BY <1>1, <1>3 DEF AddScheduledTask, Schedules
  <2> DEFINE call == [NoCall EXCEPT !.at = "write", !.new = adds + 1, !.inContext = inContext]
  <2>2. call \in Calls /\ call.new = adds + 1
    BY <2>1 DEF NoCall, Calls
  <2>3. op' = [op EXCEPT ![k] = call] /\ flight' = flight
    BY <1>3 DEF AddScheduledTask
  <2>4. op' \in [Keys -> Calls] /\ SettingIsNumbered'
    <3> HIDE DEF call
    <3> QED
      BY <1>1, <2>1, <2>2, <2>3, CallChanges DEF SettingIsNumbered
  <2>5. QueueTypeOK'
    BY <1>1, <1>3, <2>1, <2>4 DEF AddScheduledTask, QueueTypeOK, Calls
  <2> QED
    BY <2>4, <2>5 DEF QueueTyped
<1>4. ASSUME NEW k \in Keys, NEW inContext \in BOOLEAN, RemoveSchedule(k, inContext)
      PROVE  QueueTyped'
  <2>1. CASE k \in CronKeys
    <3>1. flight' = flight \cup {Deleting(k)} /\ op' = op
      BY <1>4, <2>1 DEF RemoveSchedule
    <3>2. Deleting(k) \in Flights /\ Deleting(k).does = "delete"
      BY DEF Deleting, Flights
    <3>3. flight' \in SUBSET Flights /\ SettingIsNumbered'
      BY <1>1, <3>1, <3>2 DEF SettingIsNumbered
    <3>4. QueueTypeOK'
      BY <1>1, <1>4, <3>1, <3>3 DEF RemoveSchedule, QueueTypeOK, Flights
    <3> QED
      BY <3>3, <3>4 DEF QueueTyped
  <2>2. CASE k \notin CronKeys
    <3> DEFINE call == [NoCall EXCEPT !.at = "job", !.inContext = inContext]
    <3>1. call \in Calls /\ call.at = "job"
      BY DEF NoCall, Calls
    <3>2. op' = [op EXCEPT ![k] = call] /\ flight' = flight
      BY <1>4, <2>2 DEF RemoveSchedule
    <3>3. op' \in [Keys -> Calls] /\ SettingIsNumbered'
      <4> HIDE DEF call
      <4> QED
        BY <1>1, <3>1, <3>2, CallChanges DEF SettingIsNumbered
    <3>4. QueueTypeOK'
      BY <1>1, <1>4, <3>2, <3>3 DEF RemoveSchedule, QueueTypeOK, Calls
    <3> QED
      BY <3>3, <3>4 DEF QueueTyped
  <2> QED
    BY <2>1, <2>2
<1>5. ASSUME NEW k \in Keys, WriteRow(k) PROVE QueueTyped'
  <2> DEFINE n == op[k].new
             call == IF k \in CronKeys /\ HasQueue THEN [op[k] EXCEPT !.at = "repeat"] ELSE NoCall
             S == IF k \in CronKeys THEN {n} ELSE rows[k] \cup {n}
  <2>1. n \in Schedules /\ op[k] \in Calls
    BY <1>1, <1>5 DEF WriteRow, SettingIsNumbered
  <2>2. call \in Calls /\ (call.at \in {"write", "repeat"} => call.new \in Schedules)
    BY <2>1, NoCallIsCall DEF Calls
  <2>3. op' = [op EXCEPT ![k] = call] /\ RowsAre(k, S)
    BY <1>1, <1>5 DEF WriteRow
  <2>4. flight' \in SUBSET (flight \cup {Adding(k, n)})
    BY <1>5 DEF WriteRow
  <2>5. Adding(k, n) \in Flights /\ Adding(k, n).n = n
    BY <2>1 DEF Adding, Flights
  <2>6. flight' \in SUBSET Flights /\ \A f \in flight' : f.does = "add" => f.n \in Schedules
    <3> HIDE DEF n
    <3> QED
      BY <1>1, <2>1, <2>4, <2>5 DEF SettingIsNumbered
  <2>7. op' \in [Keys -> Calls] /\ SettingIsNumbered'
    <3> HIDE DEF call
    <3> QED
      BY <2>2, <2>3, <2>6, CallChanges
  <2>8. rows' \in [Keys -> SUBSET Schedules] /\ wentOff' \in [Keys -> SUBSET Schedules]
    <3>1. S \in SUBSET Schedules
      BY <1>1, <2>1
    <3> QED
      BY <2>3, <3>1, RowsFacts
  <2>9. dropped' \in [Keys -> SUBSET Schedules]
    BY <1>1, <1>5, <2>1 DEF WriteRow
  <2>10. QueueTypeOK'
    BY <1>1, <1>5, <2>6, <2>7, <2>8, <2>9 DEF WriteRow, QueueTypeOK, Calls, Flights
  <2> QED
    BY <2>7, <2>10 DEF QueueTyped
<1>6. ASSUME NEW k \in Keys, Repeat(k) PROVE QueueTyped'
  <2>1. op[k].new \in Schedules
    BY <1>1, <1>6 DEF Repeat, SettingIsNumbered
  <2>2. op' = [op EXCEPT ![k] = NoCall] /\ flight' = flight
    BY <1>6 DEF Repeat
  <2>3. op' \in [Keys -> Calls] /\ SettingIsNumbered'
    BY <1>1, <2>2, CallChanges, NoCallIsCall DEF SettingIsNumbered
  <2>4. repeats' \in [Keys -> SUBSET Schedules]
    BY <1>1, <1>6, <2>1 DEF Repeat
  <2>5. QueueTypeOK'
    BY <1>1, <1>6, <2>3, <2>4 DEF Repeat, QueueTypeOK, Calls
  <2> QED
    BY <2>3, <2>5 DEF QueueTyped
<1>7. ASSUME NEW k \in Keys, DropJob(k) PROVE QueueTyped'
  <2> DEFINE call == [op[k] EXCEPT !.at = "row", !.clean = Clean(k)]
  <2>1. Clean(k) \in BOOLEAN
    BY DEF Clean
  <2>2. op[k] \in Calls /\ call \in Calls /\ call.at = "row"
    BY <1>1, <2>1 DEF Calls
  <2>3. op' = [op EXCEPT ![k] = call] \/ op' = [op EXCEPT ![k] = NoCall]
    BY <1>1, <1>7 DEF DropJob
  <2>4. flight' = flight /\ \A f \in flight' : f.does = "add" => f.n \in Schedules
    BY <1>1, <1>7 DEF DropJob, SettingIsNumbered
  <2>5. op' \in [Keys -> Calls] /\ SettingIsNumbered'
    <3> HIDE DEF call
    <3>1. CASE op' = [op EXCEPT ![k] = call]
      BY <1>1, <2>2, <2>4, <3>1, CallChanges
    <3>2. CASE op' = [op EXCEPT ![k] = NoCall]
      BY <1>1, <2>4, <3>2, CallChanges, NoCallIsCall
    <3> QED
      BY <2>3, <3>1, <3>2
  <2>6. job' \in [Keys -> Schedules \cup {None}]
    BY <1>1, <1>7 DEF DropJob
  <2>7. QueueTypeOK'
    BY <1>1, <1>7, <2>5, <2>6 DEF DropJob, QueueTypeOK, Calls
  <2> QED
    BY <2>5, <2>7 DEF QueueTyped
<1>8. ASSUME NEW k \in Keys, DropRow(k) PROVE QueueTyped'
  <2> DEFINE n == LastOf(rows[k])
             call == IF rows[k] = {n} THEN NoCall ELSE [op[k] EXCEPT !.at = "job"]
  <2>1. op[k] \in Calls /\ call \in Calls /\ call.at \in {"idle", "job"}
    BY <1>1, NoCallIsCall DEF Calls
  <2>2. op' = [op EXCEPT ![k] = call] /\ flight' = flight /\ RowsAre(k, rows[k] \ {n})
    BY <1>1, <1>8 DEF DropRow
  <2>3. op' \in [Keys -> Calls] /\ SettingIsNumbered'
    <3> HIDE DEF call
    <3> QED
      BY <1>1, <2>1, <2>2, CallChanges DEF SettingIsNumbered
  <2>4. rows' \in [Keys -> SUBSET Schedules] /\ wentOff' \in [Keys -> SUBSET Schedules]
    <3>1. rows[k] \ {n} \in SUBSET Schedules
      BY <1>1
    <3> QED
      BY <2>2, <3>1, RowsFacts
  <2>5. dropped' \in [Keys -> SUBSET Schedules] /\ removed' \subseteq Keys
    BY <1>1, <1>8 DEF DropRow
  <2>6. QueueTypeOK'
    BY <1>1, <1>8, <2>2, <2>3, <2>4, <2>5 DEF DropRow, QueueTypeOK, Calls
  <2> QED
    BY <2>3, <2>6 DEF QueueTyped
<1>9. ASSUME NEW k \in Keys, NEW due \in SUBSET Schedules, Starts(k, due)
      PROVE  /\ running' \subseteq [key: Keys, due: SUBSET Schedules]
             /\ dropped' \in [Keys -> SUBSET Schedules]
  <2>1. CASE listening
    BY <1>1, <1>9, <2>1 DEF Starts, QueueTypeOK
  <2>2. CASE ~listening
    <3>1. due \in SUBSET (Schedules \cup {None}) /\ Lost(k, due) /\ running' = running
      BY <1>9, <2>2 DEF Starts
    <3> QED
      BY <1>1, <3>1, LostFacts DEF QueueTypeOK
  <2> QED
    BY <2>1, <2>2
<1>10. ASSUME NEW k \in Keys, Pick(k) PROVE QueueTyped'
  <2>1. rows[k] \cup {job[k]} \in SUBSET Schedules /\ Starts(k, rows[k] \cup {job[k]})
    BY <1>1, <1>10 DEF Pick
  <2>2. QueueTypeOK'
    BY <1>1, <1>9, <1>10, <2>1 DEF Pick, QueueTypeOK
  <2>3. SettingIsNumbered'
    BY <1>1, <1>10 DEF Pick, SettingIsNumbered
  <2> QED
    BY <2>2, <2>3 DEF QueueTyped
<1>11. ASSUME NEW k \in Keys, Complete(k) PROVE QueueTyped'
  <2>1. job' \in [Keys -> Schedules \cup {None}]
    BY <1>1, <1>11 DEF Complete
  <2>2. QueueTypeOK'
    BY <1>1, <1>11, <2>1 DEF Complete, QueueTypeOK
  <2>3. SettingIsNumbered'
    BY <1>1, <1>11 DEF Complete, SettingIsNumbered
  <2> QED
    BY <2>2, <2>3 DEF QueueTyped
<1>12. ASSUME NEW k \in Keys, NEW n \in Schedules, PickCron(k, n) PROVE QueueTyped'
  <2>1. {n} \in SUBSET Schedules /\ Starts(k, {n})
    BY <1>12 DEF PickCron
  <2>2. QueueTypeOK'
    BY <1>1, <1>9, <1>12, <2>1 DEF PickCron, QueueTypeOK
  <2>3. SettingIsNumbered'
    BY <1>1, <1>12 DEF PickCron, SettingIsNumbered
  <2> QED
    BY <2>2, <2>3 DEF QueueTyped
<1>13. ASSUME NEW f \in flight, Land(f) PROVE QueueTyped'
  <2>1. f.n \in Schedules /\ f.key \in Keys
    BY <1>1, <1>2, <1>13 DEF Land, SettingIsNumbered
  <2>2. /\ job' \in [Keys -> Schedules \cup {None}] /\ repeats' \in [Keys -> SUBSET Schedules]
        /\ dropped' \in [Keys -> SUBSET Schedules]
    <3>1. CASE f.key \in CronKeys
      BY <1>1, <1>13, <2>1, <3>1 DEF Land, Landed
    <3>2. CASE f.key \notin CronKeys /\ f.key \in Simple /\ job[f.key] = None
      BY <1>1, <1>13, <2>1, <3>2 DEF Land, Landed
    <3>3. CASE f.key \notin CronKeys /\ ~(f.key \in Simple /\ job[f.key] = None)
      <4>1. /\ Lost(f.key, IF f.key \in active THEN {f.n} ELSE {})
            /\ job' = job /\ repeats' = repeats
        BY <1>13, <3>3 DEF Land, Landed
      <4>2. (IF f.key \in active THEN {f.n} ELSE {}) \in SUBSET (Schedules \cup {None})
        BY <2>1
      <4> QED
        BY <1>1, <2>1, <4>1, <4>2, LostFacts
    <3> QED
      BY <3>1, <3>2, <3>3
  <2>3. QueueTypeOK'
    BY <1>1, <1>13, <2>2 DEF Land, QueueTypeOK
  <2>4. SettingIsNumbered'
    BY <1>1, <1>13 DEF Land, SettingIsNumbered
  <2> QED
    BY <2>3, <2>4 DEF QueueTyped
<1>14. ASSUME NEW f \in flight, DeleteRow(f) PROVE QueueTyped'
  <2>1. f.key \in Keys /\ {} \in SUBSET Schedules /\ RowsAre(f.key, {})
    BY <1>2, <1>14 DEF DeleteRow
  <2>2. rows' \in [Keys -> SUBSET Schedules] /\ wentOff' \in [Keys -> SUBSET Schedules]
    BY <2>1, RowsFacts
  <2>3. dropped' \in [Keys -> SUBSET Schedules]
    BY <1>1, <1>14 DEF DeleteRow
  <2>4. QueueTypeOK'
    BY <1>1, <1>14, <2>2, <2>3 DEF DeleteRow, QueueTypeOK
  <2>5. SettingIsNumbered'
    BY <1>1, <1>14 DEF DeleteRow, SettingIsNumbered
  <2> QED
    BY <2>4, <2>5 DEF QueueTyped
<1>15. ASSUME NEW r \in running, HandlerEnds(r) PROVE QueueTyped'
  <2>1. wentOff' \in [Keys -> SUBSET Schedules] /\ dropped' \in [Keys -> SUBSET Schedules]
    BY <1>1, <1>15 DEF HandlerEnds
  <2>2. QueueTypeOK'
    BY <1>1, <1>15, <2>1 DEF HandlerEnds, QueueTypeOK
  <2>3. SettingIsNumbered'
    BY <1>1, <1>15 DEF HandlerEnds, SettingIsNumbered
  <2> QED
    BY <2>2, <2>3 DEF QueueTyped
<1>16. ASSUME AddFails PROVE QueueTyped'
  <2>1. faults' \in 0..MaxFaults
    BY <1>1, <1>16 DEF AddFails
  <2>2. ASSUME NEW f \in flight, flight' = flight \ {f}, Lost(f.key, {f.n}), op' = op
        PROVE  QueueTyped'
    <3>1. dropped' \in [Keys -> SUBSET Schedules]
      BY <1>2, <2>2, LostFacts
    <3>2. QueueTypeOK'
      BY <1>1, <1>16, <2>1, <2>2, <3>1 DEF AddFails, QueueTypeOK
    <3>3. SettingIsNumbered'
      BY <1>1, <2>2 DEF SettingIsNumbered
    <3> QED
      BY <3>2, <3>3 DEF QueueTyped
  <2>3. ASSUME NEW k \in CronKeys, op[k].at = "repeat", op' = [op EXCEPT ![k] = NoCall],
               Lost(k, {op[k].new}), flight' = flight
        PROVE  QueueTyped'
    <3>1. k \in Keys /\ op[k].new \in Schedules \cup {None}
      BY <1>1 DEF Calls
    <3>2. dropped' \in [Keys -> SUBSET Schedules]
      BY <2>3, <3>1, LostFacts
    <3>3. op' \in [Keys -> Calls] /\ SettingIsNumbered'
      BY <1>1, <2>3, <3>1, CallChanges, NoCallIsCall DEF SettingIsNumbered
    <3>4. QueueTypeOK'
      BY <1>1, <1>16, <2>1, <2>3, <3>2, <3>3 DEF AddFails, QueueTypeOK, Calls
    <3> QED
      BY <3>3, <3>4 DEF QueueTyped
  <2> QED
    BY <1>16, <2>2, <2>3 DEF AddFails
<1>17. ASSUME ClearAllTimers PROVE QueueTyped'
  <2>1. /\ faults' \in 0..MaxFaults
        /\ job' \in [Keys -> Schedules \cup {None}] /\ repeats' \in [Keys -> SUBSET Schedules]
        /\ dropped' \in [Keys -> SUBSET Schedules]
    BY <1>1, <1>17 DEF ClearAllTimers
  <2>2. QueueTypeOK'
    BY <1>1, <1>17, <2>1 DEF ClearAllTimers, QueueTypeOK
  <2>3. SettingIsNumbered'
    BY <1>1, <1>17 DEF ClearAllTimers, SettingIsNumbered
  <2> QED
    BY <2>2, <2>3 DEF QueueTyped
<1>18. ASSUME ProcessEnds PROVE QueueTyped'
  <2>1. stops' \in 0..MaxStops
    BY <1>1, <1>18 DEF ProcessEnds
  <2>2. op' \in [Keys -> Calls] /\ \A k \in Keys : op'[k].at = "idle"
    BY <1>18, NoCallIsCall DEF ProcessEnds
  <2>3. QueueTypeOK'
    BY <1>1, <1>18, <2>1, <2>2 DEF ProcessEnds, QueueTypeOK, Calls
  <2>4. SettingIsNumbered'
    BY <1>18, <2>2 DEF ProcessEnds, SettingIsNumbered
  <2> QED
    BY <2>3, <2>4 DEF QueueTyped
<1>19. ASSUME NEW keys \in SUBSET Keys, LoadRows(keys), process' \in {"crons", "up"}
       PROVE  QueueTyped'
  <2>1. /\ flight' \in SUBSET Flights
        /\ \A f \in flight' : f \in flight \/ f.n \in Schedules
    BY <1>1, <1>19 DEF LoadRows, Flights
  <2>2. dropped' \in [Keys -> SUBSET Schedules]
    BY <1>1, <1>19 DEF LoadRows
  <2>3. QueueTypeOK'
    BY <1>1, <1>19, <2>1, <2>2 DEF LoadRows, QueueTypeOK, Flights
  <2>4. SettingIsNumbered'
    BY <1>1, <1>19, <2>1 DEF LoadRows, SettingIsNumbered
  <2> QED
    BY <2>3, <2>4 DEF QueueTyped
<1>20. ASSUME LoadTimers \/ LoadCrons PROVE QueueTyped'
  BY <1>1, <1>19, <1>20 DEF LoadTimers, LoadCrons
<1>21. ASSUME Listen \/ Boot \/ UNCHANGED queueVars PROVE QueueTyped'
  <2>1. QueueTypeOK'
    BY <1>1, <1>21 DEF Listen, Boot, queueVars, QueueTypeOK
  <2>2. SettingIsNumbered'
    BY <1>1, <1>21 DEF Listen, Boot, queueVars, SettingIsNumbered
  <2> QED
    BY <2>1, <2>2 DEF QueueTyped
<1> QED
  BY <1>3, <1>4, <1>5, <1>6, <1>7, <1>8, <1>10, <1>11, <1>12, <1>13, <1>14, <1>15,
     <1>16, <1>17, <1>18, <1>20, <1>21 DEF QueueNext

LEMMA QueueTypes == QueueSpec => []QueueTyped
BY InitQueueTyped, NextQueueTyped, PTL DEF QueueSpec

\* The variables of the runner, and what it does not await, keep their types.
THEOREM QueueTypeCorrect == QueueSpec => []QueueTypeOK
<1>1. QueueTyped => QueueTypeOK
  BY DEF QueueTyped
<1> QED
  BY <1>1, QueueTypes, PTL
-----------------------------------------------------------------------------
(* A removed timer stays silent. *)

LEMMA InitSilence == QueueInit => Silence
BY NoCallIsCall DEF QueueInit, Silence, CleanIsQuiet, RemovedIsQuiet

\* A key that a step leaves alone, or makes quieter.
LEMMA QuietStays ==
    ASSUME Silence, NEW k \in Keys,
           op'[k] = op[k], process' = process, rows'[k] = rows[k],
           job'[k] = None \/ job'[k] = job[k],
           \A f \in flight' : f.key = k => f \in flight
    PROVE  /\ op'[k].at = "row" /\ op'[k].clean => process' = "up" /\ Quiet(k)'
           /\ k \in removed => op'[k] = NoCall /\ rows'[k] = {} /\ Quiet(k)'
<1>1. Quiet(k) => Quiet(k)'
  BY DEF Quiet
<1> QED
  BY <1>1 DEF Silence, CleanIsQuiet, RemovedIsQuiet

LEMMA NextSilence == QueueTyped /\ Silence /\ [QueueNext]_queueVars => Silence'
<1> SUFFICES ASSUME QueueTyped, Silence, [QueueNext]_queueVars PROVE Silence'
  OBVIOUS
<1> USE DEF queue, worker, served, history, counters
<1>1. /\ op \in [Keys -> Calls] /\ job \in [Keys -> Schedules \cup {None}]
      /\ rows \in [Keys -> SUBSET Schedules] /\ removed \subseteq Keys
      /\ flight \in SUBSET Flights
      /\ CronKeys \subseteq Keys /\ Simple \subseteq Keys
      /\ CleanIsQuiet /\ RemovedIsQuiet
  BY KeysAssumption DEF QueueTyped, QueueTypeOK, Calls, Flights, Simple, Silence
<1>2. \A f \in flight : f.key \in Keys
  BY <1>1 DEF Flights
<1> DEFINE Stays(k) ==
      /\ op'[k].at = "row" /\ op'[k].clean => process' = "up" /\ Quiet(k)'
      /\ k \in removed' => op'[k] = NoCall /\ rows'[k] = {} /\ Quiet(k)'
<1>3. SUFFICES /\ removed' \subseteq Keys
               /\ \A k \in Keys : Stays(k)
  BY DEF Silence, CleanIsQuiet, RemovedIsQuiet
<1>4. removed' \subseteq Keys
  BY NextQueueTyped DEF QueueTyped, QueueTypeOK
<1>5. ASSUME NEW k \in Keys, NEW inContext \in BOOLEAN, AddScheduledTask(k, inContext)
      PROVE  \A j \in Keys : Stays(j)
  <2> SUFFICES ASSUME NEW j \in Keys PROVE Stays(j)
    OBVIOUS
  <2>1. CASE j = k
    <3>1. op'[k].at = "write" /\ k \notin removed'
      BY <1>1, <1>5 DEF AddScheduledTask, NoCall
    <3> QED
      BY <2>1, <3>1
  <2>2. CASE j # k
    BY <1>1, <1>5, <2>2, QuietStays DEF AddScheduledTask
  <2> QED
    BY <2>1, <2>2
<1>6. ASSUME NEW k \in Keys, NEW inContext \in BOOLEAN, RemoveSchedule(k, inContext)
      PROVE  \A j \in Keys : Stays(j)
  <2> SUFFICES ASSUME NEW j \in Keys PROVE Stays(j)
    OBVIOUS
  <2>1. CASE j = k
    <3>1. k \notin removed'
      BY <1>1, <1>6 DEF RemoveSchedule, RemovedIsQuiet
    <3>2. op'[k].at \in {"idle", "job"}
      BY <1>1, <1>6, NoCallIsCall DEF RemoveSchedule, NoCall
    <3> QED
      BY <2>1, <3>1, <3>2
  <2>2. CASE j # k
    <3>1. op'[j] = op[j]
      BY <1>1, <1>6, <2>2 DEF RemoveSchedule
    <3>2. flight' \subseteq flight \cup {Deleting(k)} /\ Deleting(k).key = k
      BY <1>6 DEF RemoveSchedule, Deleting
    <3> QED
      BY <1>6, <2>2, <3>1, <3>2, QuietStays DEF RemoveSchedule
  <2> QED
    BY <2>1, <2>2
<1>7. ASSUME NEW k \in Keys, WriteRow(k) PROVE \A j \in Keys : Stays(j)
  <2> SUFFICES ASSUME NEW j \in Keys PROVE Stays(j)
    OBVIOUS
  <2>1. op[k].at = "write" /\ removed' = removed
    BY <1>7 DEF WriteRow
  <2>2. CASE j = k
    <3>1. k \notin removed'
      BY <1>1, <2>1, NoCallIsCall DEF RemovedIsQuiet
    <3>2. op'[k].at \in {"idle", "repeat"}
      BY <1>1, <1>7, NoCallIsCall DEF WriteRow, Calls
    <3> QED
      BY <2>2, <3>1, <3>2
  <2>3. CASE j # k
    <3>1. op'[j] = op[j] /\ rows'[j] = rows[j]
      BY <1>1, <1>7, <2>3 DEF WriteRow, RowsAre
    <3>2. flight' \subseteq flight \cup {Adding(k, op[k].new)} /\ Adding(k, op[k].new).key = k
      BY <1>7 DEF WriteRow, Adding
    <3> QED
      BY <1>7, <2>1, <2>3, <3>1, <3>2, QuietStays DEF WriteRow
  <2> QED
    BY <2>2, <2>3
<1>8. ASSUME NEW k \in Keys, Repeat(k) PROVE \A j \in Keys : Stays(j)
  <2> SUFFICES ASSUME NEW j \in Keys PROVE Stays(j)
    OBVIOUS
  <2>1. CASE j = k
    <3>1. k \notin removed' /\ op'[k].at = "idle"
      BY <1>1, <1>8, NoCallIsCall DEF Repeat, RemovedIsQuiet
    <3> QED
      BY <2>1, <3>1
  <2>2. CASE j # k
    <3>1. op'[j] = op[j]
      BY <1>1, <1>8, <2>2 DEF Repeat
    <3> QED
      BY <1>8, <3>1, QuietStays DEF Repeat
  <2> QED
    BY <2>1, <2>2
<1>9. ASSUME NEW k \in Keys, DropJob(k) PROVE \A j \in Keys : Stays(j)
  <2> SUFFICES ASSUME NEW j \in Keys PROVE Stays(j)
    OBVIOUS
  <2>1. /\ op[k].at = "job"
        /\ removed' = removed /\ flight' = flight /\ process' = process /\ rows' = rows
    BY <1>9 DEF DropJob
  <2>2. CASE j = k
    <3>1. k \notin removed'
      BY <1>1, <2>1, NoCallIsCall DEF RemovedIsQuiet
    <3>2. op'[k].at = "row" /\ op'[k].clean => Clean(k) /\ job' = [job EXCEPT ![k] = None]
      <4>1. CASE op' = [op EXCEPT ![k] = [op[k] EXCEPT !.at = "row", !.clean = Clean(k)]]
                 /\ job' = IF op[k].inContext THEN job ELSE [job EXCEPT ![k] = None]
        <5>1. op'[k].clean = Clean(k)
          BY <1>1, <4>1 DEF Calls
        <5> QED
          BY <4>1, <5>1 DEF Clean
      <4>2. CASE op' = [op EXCEPT ![k] = NoCall]
        BY <1>1, <4>2, NoCallIsCall
      <4> QED
        BY <1>1, <1>9, <4>1, <4>2 DEF DropJob
    <3>3. op'[k].at = "row" /\ op'[k].clean => process' = "up" /\ Quiet(k)'
      BY <1>1, <2>1, <3>2 DEF Clean, Quiet
    <3> QED
      BY <2>2, <3>1, <3>3
  <2>3. CASE j # k
    <3>1. op'[j] = op[j] /\ job'[j] = job[j]
      BY <1>1, <1>9, <2>3 DEF DropJob
    <3> QED
      BY <2>1, <3>1, QuietStays
  <2> QED
    BY <2>2, <2>3
<1>10. ASSUME NEW k \in Keys, DropRow(k) PROVE \A j \in Keys : Stays(j)
  <2> SUFFICES ASSUME NEW j \in Keys PROVE Stays(j)
    OBVIOUS
  <2> DEFINE n == LastOf(rows[k])
             last == rows[k] = {n}
  <2>1. /\ op[k].at = "row" /\ job' = job /\ flight' = flight /\ process' = process
        /\ rows' = [rows EXCEPT ![k] = rows[k] \ {n}]
        /\ op' = [op EXCEPT ![k] = IF last THEN NoCall ELSE [op[k] EXCEPT !.at = "job"]]
        /\ removed' = IF last /\ op[k].clean THEN removed \cup {k} ELSE removed
    BY <1>1, <1>10 DEF DropRow, RowsAre
  <2>2. CASE j = k
    <3>1. k \notin removed
      BY <1>1, <2>1, NoCallIsCall DEF RemovedIsQuiet
    <3>2. op'[k].at \in {"idle", "job"}
      BY <1>1, <2>1, NoCallIsCall DEF Calls
    <3>3. last /\ op[k].clean => op'[k] = NoCall /\ rows'[k] = {} /\ Quiet(k)'
      BY <1>1, <2>1 DEF CleanIsQuiet, Quiet
    <3> QED
      BY <2>1, <2>2, <3>1, <3>2, <3>3
  <2>3. CASE j # k
    <3>1. op'[j] = op[j] /\ rows'[j] = rows[j] /\ (j \in removed' => j \in removed)
      BY <1>1, <2>1, <2>3
    <3> QED
      BY <2>1, <3>1, QuietStays
  <2> QED
    BY <2>2, <2>3
<1>11. ASSUME NEW f \in flight, Land(f) PROVE \A j \in Keys : Stays(j)
  <2> SUFFICES ASSUME NEW j \in Keys PROVE Stays(j)
    OBVIOUS
  <2>1. /\ op' = op /\ rows' = rows /\ process' = process /\ removed' = removed
        /\ flight' \subseteq flight
    BY <1>11 DEF Land
  <2>2. CASE j = f.key
    <3>1. ~Quiet(j)
      BY <2>2 DEF Quiet
    <3> QED
      BY <1>1, <2>1, <3>1 DEF CleanIsQuiet, RemovedIsQuiet
  <2>3. CASE j # f.key
    <3>1. job'[j] = job[j]
      BY <1>1, <1>11, <2>3 DEF Land, Landed
    <3> QED
      BY <2>1, <3>1, QuietStays
  <2> QED
    BY <2>2, <2>3
<1>12. ASSUME NEW f \in flight, DeleteRow(f) PROVE \A j \in Keys : Stays(j)
  <2> SUFFICES ASSUME NEW j \in Keys PROVE Stays(j)
    OBVIOUS
  <2>1. /\ op' = op /\ job' = job /\ process' = process /\ removed' = removed
        /\ flight' \subseteq flight
    BY <1>12 DEF DeleteRow
  <2>2. CASE j = f.key
    <3>1. ~Quiet(j)
      BY <2>2 DEF Quiet
    <3> QED
      BY <1>1, <2>1, <3>1 DEF CleanIsQuiet, RemovedIsQuiet
  <2>3. CASE j # f.key
    <3>1. rows'[j] = rows[j]
      BY <1>1, <1>12, <2>3 DEF DeleteRow, RowsAre
    <3> QED
      BY <2>1, <3>1, QuietStays
  <2> QED
    BY <2>2, <2>3
<1>13. ASSUME AddFails PROVE \A j \in Keys : Stays(j)
  <2> SUFFICES ASSUME NEW j \in Keys PROVE Stays(j)
    OBVIOUS
  <2>1. /\ rows' = rows /\ job' = job /\ process' = process /\ removed' = removed
        /\ flight' \subseteq flight
    BY <1>13 DEF AddFails
  <2>2. CASE op' = op
    BY <2>1, <2>2, QuietStays
  <2>3. ASSUME NEW k \in CronKeys, op[k].at = "repeat", op' = [op EXCEPT ![k] = NoCall]
        PROVE  Stays(j)
    <3>1. CASE j = k
      <4>1. op'[j].at = "idle" /\ j \notin removed
        BY <1>1, <2>3, <3>1, NoCallIsCall DEF RemovedIsQuiet
      <4> QED
        BY <2>1, <4>1
    <3>2. CASE j # k
      <4>1. op'[j] = op[j]
        BY <1>1, <2>3, <3>2
      <4> QED
        BY <2>1, <4>1, QuietStays
    <3> QED
      BY <3>1, <3>2
  <2> QED
    BY <1>13, <2>2, <2>3 DEF AddFails
<1>14. ASSUME ProcessEnds PROVE \A j \in Keys : Stays(j)
  <2> SUFFICES ASSUME NEW j \in Keys PROVE Stays(j)
    OBVIOUS
  <2>1. /\ op'[j] = NoCall /\ flight' = {} /\ job' = job /\ rows' = rows /\ removed' = removed
    BY <1>14 DEF ProcessEnds
  <2> QED
    BY <1>1, <2>1, NoCallIsCall DEF RemovedIsQuiet, Quiet
<1>15. ASSUME NEW keys \in SUBSET Keys, LoadRows(keys), process # "up"
       PROVE  \A j \in Keys : Stays(j)
  <2> SUFFICES ASSUME NEW j \in Keys PROVE Stays(j)
    OBVIOUS
  <2>1. /\ op' = op /\ job' = job /\ rows' = rows /\ removed' = removed
        /\ \A f \in flight' : f \in flight \/ f.n \in rows[f.key]
    BY <1>15 DEF LoadRows
  <2>2. ~(op[j].at = "row" /\ op[j].clean)
    BY <1>1, <1>15 DEF CleanIsQuiet
  <2>3. ASSUME j \in removed PROVE rows[j] = {} /\ op[j] = NoCall /\ Quiet(j)'
    <3>1. rows[j] = {} /\ op[j] = NoCall /\ Quiet(j)
      BY <1>1, <2>3 DEF RemovedIsQuiet
    <3> QED
      BY <2>1, <3>1 DEF Quiet
  <2> QED
    BY <2>1, <2>2, <2>3
<1>16. ASSUME LoadTimers \/ LoadCrons PROVE \A j \in Keys : Stays(j)
  BY <1>1, <1>15, <1>16 DEF LoadTimers, LoadCrons
<1>17. ASSUME Boot PROVE \A j \in Keys : Stays(j)
  <2>1. /\ op' = op /\ job' = job /\ rows' = rows /\ removed' = removed /\ flight' = flight
        /\ process # "up"
    BY <1>17 DEF Boot
  <2> QED
    BY <1>1, <2>1 DEF CleanIsQuiet, RemovedIsQuiet, Quiet
<1>18. ASSUME \/ \E k \in Keys : Pick(k) \/ Complete(k) \/ \E n \in Schedules : PickCron(k, n)
              \/ \E r \in running : HandlerEnds(r)
              \/ ClearAllTimers \/ Listen \/ UNCHANGED queueVars
       PROVE  \A j \in Keys : Stays(j)
  <2>1. /\ op' = op /\ rows' = rows /\ flight' = flight /\ process' = process
        /\ removed' = removed
        /\ \A j \in Keys : job'[j] = None \/ job'[j] = job[j]
    BY <1>1, <1>18 DEF Pick, Complete, PickCron, HandlerEnds, ClearAllTimers, Listen, queueVars
  <2> QED
    BY <2>1, QuietStays
<1> QED
  BY <1>4, <1>5, <1>6, <1>7, <1>8, <1>9, <1>10, <1>11, <1>12, <1>13, <1>14, <1>16, <1>17, <1>18
     DEF QueueNext

\* A simple timer that removeSchedule has removed from an event handler, while no addition of
\* it was on its way (bullmq-schedule-job-runner.ts:465-476), has no job and no row and gets
\* none, whatever faults, restarts and other calls come, until it is set again.
THEOREM RemovedStaysSilent == QueueSpec => []RemovedIsSilent
<1>1. Silence => RemovedIsSilent
  BY DEF Silence, RemovedIsQuiet, Quiet, RemovedIsSilent
<1>2. QueueSpec => []Silence
  BY QueueTypes, InitSilence, NextSilence, PTL DEF QueueSpec
<1> QED
  BY <1>1, <1>2, PTL
-----------------------------------------------------------------------------
(* No timer is stranded. *)

\* The handler of n has run, or will, or is known not to, without any call in progress.
Served(k, n) ==
    \/ n \in wentOff[k] \cup dropped[k]
    \/ Waits(k, n) \/ Adding(k, n) \in flight \/ ToBeLoaded(k)
    \/ \E r \in running : r.key = k /\ n \in r.due

\* Every row of a timer is served, or about to be, or about to be removed; those that a
\* worker's job is for are served whatever comes of a removal, which that job refuses.
RowsKept(k) == \A n \in rows[k] :
    \/ Served(k, n)
    \/ op[k].at = "repeat" /\ op[k].new = n
    \/ op[k].at \in {"job", "row"} /\ k \notin active
Kept(k) == /\ RowsKept(k)
           /\ k \in active => job[k] # None
           /\ op[k].at = "repeat" => k \in CronKeys
KeptInv == \A k \in Keys : Kept(k)

\* A step that takes nothing away by which a row of k may be served.
Undisturbed(k) ==
    /\ \A n \in rows[k] \cap rows'[k] :
          n \in wentOff[k] \cup dropped[k] => n \in wentOff'[k] \cup dropped'[k]
    /\ repeats[k] \subseteq repeats'[k]
    /\ k \notin CronKeys /\ job[k] # None /\ k \notin active => job'[k] # None /\ k \notin active'
    /\ \A f \in flight : f.key = k => f \in flight'
    /\ ToBeLoaded(k) => ToBeLoaded(k)'
    /\ \A r \in running : r.key = k => r \in running'

LEMMA ServedStays ==
    ASSUME NEW k \in Keys, Undisturbed(k), NEW n \in rows[k] \cap rows'[k], Served(k, n)
    PROVE  Served(k, n)'
<1>1. CASE n \in wentOff[k] \cup dropped[k]
  BY <1>1 DEF Undisturbed, Served
<1>2. CASE Waits(k, n)
  <2>1. Waits(k, n)'
    BY <1>2 DEF Undisturbed, Waits
  <2> QED
    BY <2>1 DEF Served
<1>3. CASE Adding(k, n) \in flight
  <2>1. Adding(k, n).key = k /\ Adding(k, n)' = Adding(k, n)
    BY DEF Adding
  <2>2. Adding(k, n)' \in flight'
    BY <1>3, <2>1 DEF Undisturbed
  <2> QED
    BY <2>2 DEF Served
<1>4. CASE ToBeLoaded(k)
  BY <1>4 DEF Undisturbed, Served
<1>5. CASE \E r \in running : r.key = k /\ n \in r.due
  BY <1>5 DEF Undisturbed, Served
<1> QED
  BY <1>1, <1>2, <1>3, <1>4, <1>5 DEF Served

LEMMA KeptStays ==
    ASSUME NEW k \in Keys, Kept(k), Undisturbed(k), rows'[k] \subseteq rows[k],
           op'[k] = op[k], job'[k] = job[k], (k \in active') = (k \in active)
    PROVE  Kept(k)'
<1>1. \A n \in rows'[k] : Served(k, n) => Served(k, n)'
  BY ServedStays
<1>2. RowsKept(k)'
  BY <1>1 DEF Kept, RowsKept
<1> QED
  BY <1>2 DEF Kept

LEMMA InitKept == QueueInit => KeptInv
BY NoCallIsCall DEF QueueInit, KeptInv, Kept, RowsKept

LEMMA NextKept == QueueTyped /\ KeptInv /\ [QueueNext]_queueVars => KeptInv'
<1> SUFFICES ASSUME QueueTyped, KeptInv, [QueueNext]_queueVars PROVE KeptInv'
  OBVIOUS
<1> USE DEF queue, worker, served, history, counters
<1>1. /\ op \in [Keys -> Calls] /\ job \in [Keys -> Schedules \cup {None}]
      /\ rows \in [Keys -> SUBSET Schedules] /\ repeats \in [Keys -> SUBSET Schedules]
      /\ dropped \in [Keys -> SUBSET Schedules] /\ wentOff \in [Keys -> SUBSET Schedules]
      /\ flight \in SUBSET Flights /\ active \subseteq Keys
      /\ CronKeys \subseteq Keys /\ Simple \subseteq Keys
      /\ \A k \in Keys : Kept(k)
  BY KeysAssumption DEF QueueTyped, QueueTypeOK, Calls, Flights, Simple, KeptInv
<1>2. \A f \in flight : f.key \in Keys
  BY <1>1 DEF Flights
<1>3. SUFFICES ASSUME NEW j \in Keys PROVE Kept(j)'
  BY DEF KeptInv
<1>4. Kept(j)
  BY <1>1
<1>5. process' = process => (ToBeLoaded(j) => ToBeLoaded(j)')
  BY DEF ToBeLoaded
<1>6. ASSUME NEW k \in Keys, NEW inContext \in BOOLEAN, AddScheduledTask(k, inContext)
      PROVE  Kept(j)'
  <2>1. Undisturbed(j) /\ rows' = rows /\ job' = job /\ active' = active
    BY <1>5, <1>6 DEF AddScheduledTask, Undisturbed
  <2>2. CASE j # k
    <3>1. op'[j] = op[j]
      BY <1>1, <1>6, <2>2 DEF AddScheduledTask
    <3> QED
      BY <1>4, <2>1, <3>1, KeptStays
  <2>3. CASE j = k
    <3>1. op[j].at = "idle" /\ op'[j].at = "write"
      BY <1>1, <1>6, <2>3, NoCallIsCall DEF AddScheduledTask, NoCall
    <3>2. \A n \in rows'[j] : Served(j, n)'
      BY <1>4, <2>1, <3>1, ServedStays DEF Kept, RowsKept
    <3> QED
      BY <1>4, <2>1, <3>1, <3>2 DEF Kept, RowsKept
  <2> QED
    BY <2>2, <2>3
<1>7. ASSUME NEW k \in Keys, NEW inContext \in BOOLEAN, RemoveSchedule(k, inContext)
      PROVE  Kept(j)'
  <2>1. /\ Undisturbed(j) /\ rows' = rows /\ job' = job /\ active' = active
    BY <1>5, <1>7 DEF RemoveSchedule, Undisturbed
  <2>2. CASE op'[j] = op[j]
    BY <1>4, <2>1, <2>2, KeptStays
  <2>3. CASE op'[j] # op[j]
    <3>1. op[j].at = "idle" /\ op'[j].at = "job"
      BY <1>1, <1>7, <2>3, NoCallIsCall DEF RemoveSchedule, NoCall
    <3>2. \A n \in rows'[j] : Served(j, n)'
      BY <1>4, <2>1, <3>1, ServedStays DEF Kept, RowsKept
    <3> QED
      BY <1>4, <2>1, <3>1, <3>2 DEF Kept, RowsKept
  <2> QED
    BY <2>2, <2>3
<1>8. ASSUME NEW k \in Keys, WriteRow(k) PROVE Kept(j)'
  <2>0. PICK n : n = op[k].new
    OBVIOUS
  <2> DEFINE S == IF k \in CronKeys THEN {n} ELSE rows[k] \cup {n}
  <2>1. /\ job' = job /\ active' = active /\ repeats' = repeats /\ process' = process
        /\ running' = running /\ flight \subseteq flight'
    BY <1>8 DEF WriteRow
  <2>2. n \in Schedules /\ op[k].at = "write" /\ S \in SUBSET Schedules
    BY <1>1, <1>8, <2>0 DEF WriteRow, QueueTyped, SettingIsNumbered
  <2>3. /\ rows'[k] = S /\ wentOff'[k] = wentOff[k] \cap S
        /\ \A i \in Keys : i # k => rows'[i] = rows[i] /\ wentOff'[i] = wentOff[i]
    <3>1. RowsAre(k, S)
      BY <1>8, <2>0 DEF WriteRow
    <3> QED
      BY <2>2, <3>1, RowsFacts
  <2>4. /\ k \notin CronKeys => dropped[k] \subseteq dropped'[k]
        /\ \A i \in Keys : i # k => dropped'[i] = dropped[i]
    BY <1>1, <1>8 DEF WriteRow
  <2>5. CASE j # k
    <3>1. Undisturbed(j) /\ rows'[j] = rows[j]
      BY <1>5, <2>1, <2>3, <2>4, <2>5 DEF Undisturbed
    <3>2. op'[j] = op[j]
      BY <1>1, <1>8, <2>5 DEF WriteRow
    <3> QED
      BY <1>4, <2>1, <3>1, <3>2, KeptStays
  <2>6. CASE j = k
    <3>1. op'[k].at = "repeat" => k \in CronKeys
      BY <1>1, <1>8, NoCallIsCall DEF WriteRow
    <3>2. Served(k, n)' \/ (op'[k].at = "repeat" /\ op'[k].new = n)
      <4>1. CASE ~HasQueue
        <5>1. ToBeLoaded(k)'
          BY <2>1, <4>1 DEF HasQueue, ToBeLoaded
        <5> QED
          BY <5>1 DEF Served
      <4>2. CASE HasQueue /\ k \in CronKeys
        <5>1. op' = [op EXCEPT ![k] = [op[k] EXCEPT !.at = "repeat"]]
          BY <1>8, <4>2 DEF WriteRow
        <5> QED
          BY <1>1, <2>0, <5>1 DEF Calls
      <4>3. CASE HasQueue /\ k \notin CronKeys /\ op[k].inContext
        <5>1. dropped' = [dropped EXCEPT ![k] = dropped[k] \cup {n}]
          BY <1>8, <2>0, <4>3 DEF WriteRow
        <5>2. n \in dropped'[k]
          BY <1>1, <5>1
        <5> QED
          BY <5>2 DEF Served
      <4>4. CASE HasQueue /\ k \notin CronKeys /\ ~op[k].inContext
        <5>1. Adding(k, n) \in flight'
          BY <1>8, <2>0, <4>4 DEF WriteRow
        <5> QED
          BY <5>1 DEF Served, Adding
      <4> QED
        BY <4>1, <4>2, <4>3, <4>4
    <3>3. CASE k \in CronKeys
      BY <1>4, <2>1, <2>3, <2>6, <3>1, <3>2, <3>3 DEF Kept, RowsKept
    <3>4. CASE k \notin CronKeys
      <4>1. Undisturbed(k)
        BY <1>5, <2>1, <2>3, <2>4, <2>6, <3>4 DEF Undisturbed
      <4>2. \A m \in rows[k] : Served(k, m) /\ m \in rows'[k]
        BY <1>4, <2>2, <2>3, <2>6, <3>4 DEF Kept, RowsKept
      <4>3. \A m \in rows[k] : Served(k, m)'
        BY <4>1, <4>2, ServedStays
      <4> QED
        BY <1>4, <2>1, <2>3, <2>6, <3>1, <3>2, <3>4, <4>3 DEF Kept, RowsKept
    <3> QED
      BY <3>3, <3>4
  <2> QED
    BY <2>5, <2>6
<1>9. ASSUME NEW k \in Keys, Repeat(k) PROVE Kept(j)'
  <2>1. /\ rows' = rows /\ job' = job /\ active' = active /\ Undisturbed(j)
    BY <1>1, <1>5, <1>9 DEF Repeat, Undisturbed
  <2>2. CASE j # k
    <3>1. op'[j] = op[j]
      BY <1>1, <1>9, <2>2 DEF Repeat
    <3> QED
      BY <1>4, <2>1, <3>1, KeptStays
  <2>3. CASE j = k
    <3>1. op[k].at = "repeat" /\ op'[k].at = "idle" /\ k \in CronKeys
      BY <1>1, <1>9, NoCallIsCall DEF Repeat, Kept
    <3>2. op[k].new \in repeats'[k]
      BY <1>1, <1>9 DEF Repeat
    <3>3. \A n \in rows'[k] : Served(k, n)'
      <4> SUFFICES ASSUME NEW n \in rows'[k] PROVE Served(k, n)'
        OBVIOUS
      <4>1. CASE Served(k, n)
        BY <2>1, <2>3, <4>1, ServedStays
      <4>2. CASE op[k].new = n
        BY <3>1, <3>2, <4>2 DEF Served, Waits
      <4> QED
        BY <1>4, <2>1, <2>3, <3>1, <4>1, <4>2 DEF Kept, RowsKept
    <3> QED
      BY <1>4, <2>1, <2>3, <3>1, <3>3 DEF Kept, RowsKept
  <2> QED
    BY <2>2, <2>3
<1>10. ASSUME NEW k \in Keys, DropJob(k) PROVE Kept(j)'
  <2>1. /\ op[k].at = "job" /\ rows' = rows /\ active' = active /\ repeats' = repeats
        /\ flight' = flight /\ process' = process /\ running' = running
        /\ wentOff' = wentOff /\ dropped' = dropped
    BY <1>10 DEF DropJob
  <2>2. CASE j # k
    <3>1. op'[j] = op[j] /\ job'[j] = job[j]
      BY <1>1, <1>10, <2>2 DEF DropJob
    <3>2. Undisturbed(j)
      BY <1>5, <2>1, <3>1 DEF Undisturbed
    <3> QED
      BY <1>4, <2>1, <3>1, <3>2, KeptStays
  <2>3. CASE j = k /\ k \in active
    <3>1. job'[k] = job[k]
      BY <1>1, <1>10, <2>3 DEF DropJob
    <3>2. op'[k].at \in {"idle", "row"}
      BY <1>1, <1>10, NoCallIsCall DEF DropJob, Calls
    <3>3. Undisturbed(k)
      BY <1>5, <2>1, <2>3, <3>1 DEF Undisturbed
    <3>4. \A n \in rows'[k] : Served(k, n)'
      BY <1>4, <2>1, <2>3, <3>3, ServedStays DEF Kept, RowsKept
    <3> QED
      BY <1>4, <2>1, <2>3, <3>1, <3>2, <3>4 DEF Kept, RowsKept
  <2>4. CASE j = k /\ k \notin active
    <3>1. CASE op'[k].at = "row"
      BY <1>4, <2>1, <2>4, <3>1 DEF Kept, RowsKept
    <3>2. CASE op'[k].at # "row"
      <4>1. ~HasQueue /\ op'[k].at = "idle"
        <5>1. CASE op' = [op EXCEPT ![k] = [op[k] EXCEPT !.at = "row", !.clean = Clean(k)]]
          BY <1>1, <3>2, <5>1 DEF Calls
        <5>2. CASE op' = [op EXCEPT ![k] = NoCall] /\ (~HasQueue \/ k \in active)
          BY <1>1, <2>4, <5>2, NoCallIsCall
        <5> QED
          BY <1>1, <1>10, <5>1, <5>2 DEF DropJob
      <4>2. ToBeLoaded(k)'
        BY <2>1, <4>1 DEF HasQueue, ToBeLoaded
      <4> QED
        BY <2>1, <2>4, <4>1, <4>2 DEF Kept, RowsKept, Served
    <3> QED
      BY <3>1, <3>2
  <2> QED
    BY <2>2, <2>3, <2>4
<1>11. ASSUME NEW k \in Keys, DropRow(k) PROVE Kept(j)'
  <2> DEFINE n == LastOf(rows[k])
             S == rows[k] \ {n}
  <2>1. /\ op[k].at = "row" /\ job' = job /\ active' = active /\ repeats' = repeats
        /\ flight' = flight /\ process' = process /\ running' = running
        /\ op' = [op EXCEPT ![k] = IF rows[k] = {n} THEN NoCall ELSE [op[k] EXCEPT !.at = "job"]]
        /\ dropped' = [dropped EXCEPT ![k] = dropped[k] \ {n}]
        /\ RowsAre(k, S)
    BY <1>1, <1>11 DEF DropRow
  <2>2. /\ rows'[k] = S /\ wentOff'[k] = wentOff[k] \cap S
        /\ \A i \in Keys : i # k => rows'[i] = rows[i] /\ wentOff'[i] = wentOff[i]
    <3>1. S \in SUBSET Schedules
      BY <1>1
    <3> QED
      BY <2>1, <3>1, RowsFacts
  <2>3. rows'[j] \subseteq rows[j] /\ Undisturbed(j)
    BY <1>1, <1>5, <2>1, <2>2 DEF Undisturbed
  <2>4. CASE j # k
    <3>1. op'[j] = op[j]
      BY <1>1, <2>1, <2>4
    <3> QED
      BY <1>4, <2>1, <2>3, <3>1, KeptStays
  <2>5. CASE j = k /\ rows[k] = {n}
    <3>1. op'[k] = NoCall /\ rows'[k] = {}
      BY <1>1, <2>1, <2>2, <2>5
    <3> QED
      BY <1>4, <2>1, <2>5, <3>1, NoCallIsCall DEF Kept, RowsKept
  <2>6. CASE j = k /\ rows[k] # {n}
    <3>1. op'[k].at = "job"
      BY <1>1, <2>1, <2>6 DEF Calls
    <3>2. \A m \in rows'[k] : Served(k, m) => Served(k, m)'
      BY <2>3, <2>6, ServedStays
    <3> QED
      BY <1>4, <2>1, <2>3, <2>6, <3>1, <3>2 DEF Kept, RowsKept
  <2> QED
    BY <2>4, <2>5, <2>6
<1>12. ASSUME NEW k \in Keys, NEW due, Starts(k, due), due \subseteq Schedules
       PROVE  /\ \A i \in Keys : dropped[i] \subseteq dropped'[i]
              /\ running \subseteq running'
              /\ \A n \in due \cap rows[k] :
                    \/ n \in wentOff[k] \cup dropped'[k]
                    \/ \E r \in running' : r.key = k /\ n \in r.due
  <2>1. CASE listening
    <3>1. running' = running \cup {[key |-> k, due |-> due]} /\ dropped' = dropped
      BY <1>12, <2>1 DEF Starts
    <3>2. [key |-> k, due |-> due] \in running'
      BY <3>1
    <3>3. \A n \in due : \E r \in running' : r.key = k /\ n \in r.due
      BY <3>2
    <3> QED
      BY <3>1, <3>3
  <2>2. CASE ~listening
    <3>1. Lost(k, due) /\ running' = running /\ due \in SUBSET (Schedules \cup {None})
      BY <1>12, <2>2 DEF Starts
    <3>2. /\ dropped'[k] = dropped[k] \cup ((due \cap rows[k]) \ wentOff[k])
          /\ \A i \in Keys : i # k => dropped'[i] = dropped[i]
      BY <3>1, LostFacts
    <3> QED
      BY <3>1, <3>2
  <2> QED
    BY <2>1, <2>2
<1>13. ASSUME NEW k \in Keys, Pick(k) PROVE Kept(j)'
  <2> DEFINE due == rows[k] \cup {job[k]}
  <2>1. /\ job[k] # None /\ active' = active \cup {k} /\ Starts(k, due) /\ due \subseteq Schedules
        /\ rows' = rows /\ job' = job /\ repeats' = repeats /\ flight' = flight /\ op' = op
        /\ process' = process /\ wentOff' = wentOff
    BY <1>1, <1>13 DEF Pick
  <2>2. /\ \A i \in Keys : dropped[i] \subseteq dropped'[i]
        /\ running \subseteq running'
        /\ \A n \in rows[k] : \/ n \in wentOff[k] \cup dropped'[k]
                              \/ \E r \in running' : r.key = k /\ n \in r.due
    BY <1>12, <2>1
  <2>3. CASE j # k
    <3>1. Undisturbed(j)
      BY <1>5, <2>1, <2>2, <2>3 DEF Undisturbed
    <3> QED
      BY <1>4, <2>1, <2>3, <3>1, KeptStays
  <2>4. CASE j = k
    BY <1>4, <2>1, <2>2, <2>4 DEF Kept, RowsKept, Served
  <2> QED
    BY <2>3, <2>4
<1>14. ASSUME NEW k \in Keys, Complete(k) PROVE Kept(j)'
  <2>1. /\ k \in active /\ active' = active \ {k} /\ job' = [job EXCEPT ![k] = None]
        /\ rows' = rows /\ repeats' = repeats /\ flight' = flight /\ op' = op
        /\ process' = process /\ wentOff' = wentOff /\ dropped' = dropped /\ running' = running
    BY <1>14 DEF Complete
  <2>2. Undisturbed(j)
    BY <1>1, <1>5, <2>1 DEF Undisturbed
  <2>3. CASE j # k
    <3>1. job'[j] = job[j] /\ (j \in active') = (j \in active)
      BY <1>1, <2>1, <2>3
    <3> QED
      BY <1>4, <2>1, <2>2, <3>1, KeptStays
  <2>4. CASE j = k
    <3>1. \A n \in rows'[k] : Served(k, n) => Served(k, n)'
      BY <2>1, <2>2, <2>4, ServedStays
    <3> QED
      BY <1>4, <2>1, <2>4, <3>1 DEF Kept, RowsKept
  <2> QED
    BY <2>3, <2>4
<1>15. ASSUME NEW k \in Keys, NEW n \in Schedules, PickCron(k, n) PROVE Kept(j)'
  <2>1. /\ Starts(k, {n}) /\ {n} \subseteq Schedules
        /\ rows' = rows /\ job' = job /\ active' = active /\ repeats' = repeats
        /\ flight' = flight /\ op' = op /\ process' = process /\ wentOff' = wentOff
    BY <1>15 DEF PickCron
  <2>2. \A i \in Keys : dropped[i] \subseteq dropped'[i]
    BY <1>12, <2>1
  <2>3. running \subseteq running'
    BY <1>12, <2>1
  <2>4. Undisturbed(j)
    BY <1>5, <2>1, <2>2, <2>3 DEF Undisturbed
  <2> QED
    BY <1>4, <2>1, <2>4, KeptStays
<1>16. ASSUME NEW f \in flight, Land(f) PROVE Kept(j)'
  <2>1. /\ rows' = rows /\ active' = active /\ op' = op /\ process' = process
        /\ wentOff' = wentOff /\ running' = running /\ flight' = flight \ {f}
        /\ f.does = "add" /\ Landed(f) /\ f.key \in Keys /\ f \in Flights
    BY <1>1, <1>2, <1>16 DEF Land
  <2>2. f.n \in Schedules
    BY <2>1 DEF QueueTyped, SettingIsNumbered
  <2>3. /\ \A i \in Keys : dropped[i] \subseteq dropped'[i] /\ repeats[i] \subseteq repeats'[i]
        /\ \A i \in Keys : job'[i] = job[i] \/ (job[i] = None /\ job'[i] # None)
        /\ \A i \in Keys : i # f.key => job'[i] = job[i]
        /\ f.n \in rows[f.key] =>
              f.n \in wentOff[f.key] \cup dropped'[f.key] \/ Waits(f.key, f.n)'
    <3>1. CASE f.key \in CronKeys
      <4>1. repeats' = [repeats EXCEPT ![f.key] = repeats[f.key] \cup {f.n}]
            /\ job' = job /\ dropped' = dropped
        BY <2>1, <3>1 DEF Landed, Simple
      <4> QED
        BY <1>1, <2>1, <3>1, <4>1 DEF Waits
    <3>2. CASE f.key \notin CronKeys /\ job[f.key] = None
      <4>1. job' = [job EXCEPT ![f.key] = f.n] /\ repeats' = repeats /\ dropped' = dropped
        BY <2>1, <3>2 DEF Landed, Simple
      <4>2. f.key \notin active /\ f.n # None
        BY <1>1, <2>1, <2>2, <3>2, BoundsAssumption DEF Kept, None, Schedules
      <4> QED
        BY <1>1, <2>1, <3>2, <4>1, <4>2 DEF Waits
    <3>3. CASE f.key \notin CronKeys /\ job[f.key] # None
      <4> DEFINE S == IF f.key \in active THEN {f.n} ELSE {}
      <4>1. Lost(f.key, S) /\ S \in SUBSET (Schedules \cup {None}) /\ job' = job /\ repeats' = repeats
        BY <2>1, <2>2, <3>3 DEF Landed
      <4>2. /\ dropped'[f.key] = dropped[f.key] \cup ((S \cap rows[f.key]) \ wentOff[f.key])
            /\ \A i \in Keys : i # f.key => dropped'[i] = dropped[i]
        BY <2>1, <4>1, LostFacts
      <4> QED
        BY <2>1, <3>3, <4>1, <4>2 DEF Waits
    <3> QED
      BY <3>1, <3>2, <3>3
  <2>4. CASE j # f.key
    <3>1. Undisturbed(j) /\ job'[j] = job[j]
      BY <1>5, <2>1, <2>3, <2>4 DEF Undisturbed
    <3> QED
      BY <1>4, <2>1, <3>1, KeptStays
  <2>5. CASE j = f.key
    <3>1. \A n \in rows[j] : Served(j, n) => Served(j, n)'
      <4> SUFFICES ASSUME NEW n \in rows[j], Served(j, n) PROVE Served(j, n)'
        OBVIOUS
      <4>1. CASE Adding(j, n) = f
        <5>1. f.n = n
          BY <4>1 DEF Adding
        <5> QED
          BY <2>1, <2>3, <2>5, <5>1 DEF Served
      <4>2. CASE Adding(j, n) # f
        <5>1. Adding(j, n) \in flight => (Adding(j, n) \in flight)'
          BY <2>1, <4>2 DEF Adding
        <5>2. Waits(j, n) => Waits(j, n)'
          BY <2>1, <2>3 DEF Waits
        <5> QED
          BY <1>5, <2>1, <2>3, <5>1, <5>2 DEF Served
      <4> QED
        BY <4>1, <4>2
    <3> QED
      BY <1>4, <2>1, <2>3, <3>1 DEF Kept, RowsKept
  <2> QED
    BY <2>4, <2>5
<1>17. ASSUME NEW f \in flight, DeleteRow(f) PROVE Kept(j)'
  <2>1. /\ job' = job /\ active' = active /\ repeats' = repeats /\ op' = op
        /\ process' = process /\ running' = running /\ flight' = flight \ {f}
        /\ f.does = "delete" /\ f.key \in Keys /\ RowsAre(f.key, {})
        /\ dropped' = [dropped EXCEPT ![f.key] = {}]
    BY <1>2, <1>17 DEF DeleteRow
  <2>2. /\ rows'[f.key] = {}
        /\ \A i \in Keys : i # f.key => rows'[i] = rows[i] /\ wentOff'[i] = wentOff[i]
    <3>1. {} \in SUBSET Schedules
      OBVIOUS
    <3> QED
      BY <2>1, <3>1, RowsFacts
  <2>3. CASE j = f.key
    BY <1>4, <2>1, <2>2, <2>3 DEF Kept, RowsKept
  <2>4. CASE j # f.key
    <3>1. Undisturbed(j) /\ rows'[j] = rows[j]
      BY <1>1, <1>5, <2>1, <2>2, <2>4 DEF Undisturbed
    <3> QED
      BY <1>4, <2>1, <3>1, KeptStays
  <2> QED
    BY <2>3, <2>4
<1>18. ASSUME NEW r \in running, HandlerEnds(r) PROVE Kept(j)'
  <2>1. /\ rows' = rows /\ job' = job /\ active' = active /\ repeats' = repeats
        /\ flight' = flight /\ op' = op /\ process' = process /\ running' = running \ {r}
        /\ wentOff' = [wentOff EXCEPT ![r.key] = wentOff[r.key] \cup (r.due \cap rows[r.key])]
        /\ dropped' = [dropped EXCEPT ![r.key] = dropped[r.key] \ r.due]
    BY <1>1, <1>18 DEF HandlerEnds
  <2>2. CASE j # r.key
    <3>1. Undisturbed(j)
      BY <1>1, <1>5, <2>1, <2>2 DEF Undisturbed
    <3> QED
      BY <1>4, <2>1, <3>1, KeptStays
  <2>3. CASE j = r.key
    <3>1. /\ wentOff'[j] = wentOff[j] \cup (r.due \cap rows[j])
          /\ dropped'[j] = dropped[j] \ r.due
      BY <1>1, <2>1, <2>3
    <3>2. \A n \in rows[j] : Served(j, n) => Served(j, n)'
      <4> SUFFICES ASSUME NEW n \in rows[j], Served(j, n) PROVE Served(j, n)'
        OBVIOUS
      <4>1. CASE n \in r.due
        BY <3>1, <4>1 DEF Served
      <4>2. CASE n \notin r.due
        <5>1. (\E q \in running : q.key = j /\ n \in q.due)
                 => \E q \in running' : q.key = j /\ n \in q.due
          BY <2>1, <4>2
        <5>2. Waits(j, n) => Waits(j, n)'
          BY <2>1 DEF Waits
        <5>3. Adding(j, n) \in flight => (Adding(j, n) \in flight)'
          BY <2>1 DEF Adding
        <5> QED
          BY <1>5, <2>1, <3>1, <4>2, <5>1, <5>2, <5>3 DEF Served
      <4> QED
        BY <4>1, <4>2
    <3> QED
      BY <1>4, <2>1, <3>2 DEF Kept, RowsKept
  <2> QED
    BY <2>2, <2>3
<1>19. ASSUME AddFails PROVE Kept(j)'
  <2>1. /\ rows' = rows /\ job' = job /\ active' = active /\ repeats' = repeats
        /\ process' = process /\ running' = running /\ wentOff' = wentOff
    BY <1>19 DEF AddFails
  <2>2. ASSUME NEW f \in flight, f.does = "add", flight' = flight \ {f}, Lost(f.key, {f.n}), op' = op
        PROVE  Kept(j)'
    <3>1. f.key \in Keys /\ {f.n} \in SUBSET (Schedules \cup {None})
      BY <1>1, <1>2 DEF Flights
    <3>2. /\ dropped'[f.key] = dropped[f.key] \cup (({f.n} \cap rows[f.key]) \ wentOff[f.key])
          /\ \A i \in Keys : i # f.key => dropped'[i] = dropped[i]
      BY <2>2, <3>1, LostFacts
    <3>3. \A n \in rows[j] : Served(j, n) => Served(j, n)'
      <4> SUFFICES ASSUME NEW n \in rows[j], Served(j, n) PROVE Served(j, n)'
        OBVIOUS
      <4>1. CASE Adding(j, n) = f
        <5>1. f.n = n /\ f.key = j
          BY <4>1 DEF Adding
        <5> QED
          BY <2>1, <3>2, <5>1 DEF Served
      <4>2. CASE Adding(j, n) # f
        <5>1. Adding(j, n) \in flight => (Adding(j, n) \in flight)'
          BY <2>2, <4>2 DEF Adding
        <5>2. Waits(j, n) => Waits(j, n)'
          BY <2>1 DEF Waits
        <5>3. dropped[j] \subseteq dropped'[j]
          BY <3>2
        <5> QED
          BY <1>5, <2>1, <5>1, <5>2, <5>3 DEF Served
      <4> QED
        BY <4>1, <4>2
    <3> QED
      BY <1>4, <2>1, <2>2, <3>3 DEF Kept, RowsKept
  <2>3. ASSUME NEW k \in CronKeys, op[k].at = "repeat", op' = [op EXCEPT ![k] = NoCall],
               Lost(k, {op[k].new}), flight' = flight
        PROVE  Kept(j)'
    <3>1. k \in Keys /\ {op[k].new} \in SUBSET (Schedules \cup {None})
      BY <1>1 DEF Calls
    <3>2. /\ dropped'[k] = dropped[k] \cup (({op[k].new} \cap rows[k]) \ wentOff[k])
          /\ \A i \in Keys : i # k => dropped'[i] = dropped[i]
      BY <2>3, <3>1, LostFacts
    <3>3. Undisturbed(j)
      BY <1>5, <2>1, <2>3, <3>2 DEF Undisturbed
    <3>4. CASE j # k
      <4>1. op'[j] = op[j]
        BY <1>1, <2>3, <3>4
      <4> QED
        BY <1>4, <2>1, <3>3, <4>1, KeptStays
    <3>5. CASE j = k
      <4>1. op'[k].at = "idle"
        BY <1>1, <2>3, <3>1, NoCallIsCall
      <4>2. \A n \in rows[k] : Served(k, n)'
        <5> SUFFICES ASSUME NEW n \in rows[k] PROVE Served(k, n)'
          OBVIOUS
        <5>1. CASE Served(k, n)
          BY <2>1, <3>1, <3>3, <3>5, <5>1, ServedStays
        <5>2. CASE op[k].new = n
          BY <2>1, <3>2, <5>2 DEF Served
        <5> QED
          BY <1>4, <2>3, <3>5, <5>1, <5>2 DEF Kept, RowsKept
      <4> QED
        BY <1>4, <2>1, <3>5, <4>1, <4>2 DEF Kept, RowsKept
    <3> QED
      BY <3>4, <3>5
  <2> QED
    BY <1>19, <2>2, <2>3 DEF AddFails
<1>20. ASSUME ClearAllTimers PROVE Kept(j)'
  <2>1. /\ rows' = rows /\ active' = active /\ op' = op /\ wentOff' = wentOff
        /\ dropped'[j] = rows[j] \ wentOff[j]
        /\ job'[j] = IF j \in active THEN job[j] ELSE None
    BY <1>20 DEF ClearAllTimers
  <2>2. \A n \in rows'[j] : Served(j, n)'
    BY <2>1 DEF Served
  <2> QED
    BY <1>4, <2>1, <2>2 DEF Kept, RowsKept
<1>21. ASSUME ProcessEnds PROVE Kept(j)'
  <2>1. process' = "new" /\ active' = {} /\ op'[j] = NoCall
    BY <1>21 DEF ProcessEnds
  <2>2. \A n \in rows'[j] : Served(j, n)'
    BY <2>1 DEF Served, ToBeLoaded
  <2> QED
    BY <2>1, <2>2, NoCallIsCall DEF Kept, RowsKept
<1>22. ASSUME NEW keys \in SUBSET Keys, LoadRows(keys), ~(j \in keys) => (ToBeLoaded(j) => ToBeLoaded(j)')
       PROVE  Kept(j)'
  <2>1. /\ rows' = rows /\ job' = job /\ active' = active /\ repeats' = repeats /\ op' = op
        /\ wentOff' = wentOff /\ running' = running /\ flight \subseteq flight'
        /\ dropped'[j] = IF j \in keys THEN {} ELSE dropped[j]
    BY <1>22 DEF LoadRows
  <2>2. CASE j \in keys
    <3>1. \A n \in rows[j] : Adding(j, n) \in flight'
      <4> SUFFICES ASSUME NEW n \in rows[j] PROVE Adding(j, n) \in flight'
        OBVIOUS
      <4>1. Adding(j, n) \in [does: {"add"}, key: keys, n: Schedules]
            /\ Adding(j, n).n \in rows[Adding(j, n).key]
        BY <1>1, <2>2 DEF Adding
      <4> QED
        BY <1>22, <4>1 DEF LoadRows
    <3>2. \A n \in rows'[j] : Served(j, n)'
      BY <2>1, <3>1 DEF Served, Adding
    <3> QED
      BY <1>4, <2>1, <3>2 DEF Kept, RowsKept
  <2>3. CASE j \notin keys
    <3>1. Undisturbed(j)
      BY <1>22, <2>1, <2>3 DEF Undisturbed
    <3> QED
      BY <1>4, <2>1, <3>1, KeptStays
  <2> QED
    BY <2>2, <2>3
<1>23. ASSUME LoadTimers PROVE Kept(j)'
  <2>1. j \notin Simple => ToBeLoaded(j)'
    BY <1>23 DEF LoadTimers, ToBeLoaded, Simple
  <2> QED
    BY <1>1, <1>22, <1>23, <2>1 DEF LoadTimers
<1>24. ASSUME LoadCrons PROVE Kept(j)'
  <2>1. j \notin CronKeys => ~ToBeLoaded(j)
    BY <1>24 DEF LoadCrons, ToBeLoaded
  <2> QED
    BY <1>1, <1>22, <1>24, <2>1 DEF LoadCrons
<1>25. ASSUME Listen \/ Boot \/ UNCHANGED queueVars PROVE Kept(j)'
  <2>1. /\ rows' = rows /\ job' = job /\ active' = active /\ repeats' = repeats /\ op' = op
        /\ wentOff' = wentOff /\ dropped' = dropped /\ running' = running /\ flight' = flight
    BY <1>25 DEF Listen, Boot, queueVars
  <2>2. ToBeLoaded(j) => ToBeLoaded(j)'
    BY <1>25 DEF Listen, Boot, queueVars, ToBeLoaded
  <2>3. Undisturbed(j)
    BY <2>1, <2>2 DEF Undisturbed
  <2> QED
    BY <1>4, <2>1, <2>3, KeptStays
<1> QED
  BY <1>6, <1>7, <1>8, <1>9, <1>10, <1>11, <1>13, <1>14, <1>15, <1>16, <1>17, <1>18, <1>19,
     <1>20, <1>21, <1>23, <1>24, <1>25 DEF QueueNext

\* Whatever overlaps, ends or fails, a row whose handler has not run is waiting for it, running
\* it, being removed or going to be loaded, unless its job was lost in one of the ways that
\* dropped records (bullmq-schedule-job-runner.ts:384-431, 503-577).
THEOREM NoTimerIsStranded == QueueSpec => []NoneIsStranded
<1>1. KeptInv => NoneIsStranded
  BY DEF KeptInv, Kept, RowsKept, Served, NoneIsStranded
<1>2. QueueSpec => []KeptInv
  BY QueueTypes, InitKept, NextKept, PTL DEF QueueSpec
<1> QED
  BY <1>1, <1>2, PTL
=============================================================================

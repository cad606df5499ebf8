------------------------- MODULE KafkaClientProofs -------------------------
(* The consumers of KafkaClient, for any calls, groups, partitions and bounds: at most one per group, each of them registered,
   a health map that calls no group healthy but one a connected consumer holds, replays that are done when they say so,
   and coldHot groups whose offsets leave nothing unhandled behind. *)
EXTENDS KafkaClient, TLAPS

---------------------------------------------------------------------------
(* Types *)

LEMMA PlanFacts ==
    ASSUME plan \in Plans
    PROVE  /\ MaxLog[plan] \in Nat /\ MaxFaults \in Nat
           /\ \A c \in Calls : plan[c] \in Requests
           /\ \A c \in Calls : GroupOf(c) \in Groups /\ Kind(c) \in {"hot", "coldHot", "cold", "none"}
           /\ Subscriptions \subseteq Calls /\ Replays \subseteq Calls
           /\ \A c \in Subscriptions : c \notin Replays
BY PlanAssumption, BoundAssumption DEF Requests, GroupOf, Kind, Subscriptions, Replays

LEMMA NewCallIsRecord ==
    /\ NewCall \in Records
    /\ [NewCall EXCEPT !.pc = "gone"] \in Records
    /\ \A high \in [Partitions -> Nat] : [NewCall EXCEPT !.pc = "connecting", !.high = high] \in Records
<1>1. Start \in [Partitions -> Nat]
  BY DEF Start
<1>2. [p \in Partitions |-> "none"] \in [Partitions -> Hands]
  BY DEF Hands
<1>3. 0 \in 0 .. 2
  OBVIOUS
<1>4. NewCall \in Records
  BY <1>1, <1>2, <1>3, Zenon DEF NewCall, Records, Stages, Reasons
<1> QED
  BY <1>4, Zenon DEF Records, Stages

\* The records that steps put in the place of a call's.
LEMMA RecordUpdates ==
    ASSUME NEW r \in Records, NEW pc \in Stages
    PROVE  /\ [r EXCEPT !.pc = pc] \in Records
           /\ [r EXCEPT !.conn = FALSE] \in Records
           /\ [r EXCEPT !.pc = pc, !.conn = FALSE] \in Records
           /\ [r EXCEPT !.pc = pc, !.conn = FALSE, !.healthy = FALSE] \in Records
           /\ [r EXCEPT !.pc = pc, !.interval = FALSE, !.conn = FALSE] \in Records
           /\ [r EXCEPT !.timer = FALSE, !.conn = FALSE] \in Records
           /\ [r EXCEPT !.interval = FALSE, !.timer = TRUE] \in Records
BY Zenon DEF Records

LEMMA ConnectedIsRecord ==
    ASSUME NEW r \in Records, NEW next \in [Partitions -> Nat], NEW healthy \in BOOLEAN, NEW interval \in BOOLEAN
    PROVE  [r EXCEPT !.pc = "running", !.conn = TRUE, !.next = next, !.healthy = healthy, !.interval = interval] \in Records
BY Zenon DEF Records, Stages

LEMMA MessageIsRecord ==
    ASSUME NEW r \in Records, NEW p \in Partitions, NEW hand \in Hands, NEW n \in Nat
    PROVE  /\ [r EXCEPT !.hand[p] = hand] \in Records
           /\ [r EXCEPT !.hand[p] = hand, !.next[p] = n] \in Records
           /\ [r EXCEPT !.consumed[p] = n] \in Records
           /\ [r EXCEPT !.interval = FALSE, !.hand[p] = hand] \in Records
           /\ [r EXCEPT !.hand[p] = hand, !.timer = TRUE, !.next[p] = n] \in Records
BY Zenon DEF Records

LEMMA DoneIsRecord ==
    ASSUME NEW r \in Records, NEW why \in Reasons
    PROVE  Done(r, why) \in Records /\ Done(r, why).next = r.next
<1>1. (IF r.done = 2 THEN 2 ELSE r.done + 1) \in 0 .. 2
  BY DEF Records
<1> QED
  BY <1>1, Zenon DEF Records, Done

\* Setting one call's record sets it, and leaves the others.
LEMMA SetCall ==
    ASSUME call \in [Calls -> Records], NEW c \in Calls, NEW r \in Records, call' = [call EXCEPT ![c] = r]
    PROVE  /\ call' \in [Calls -> Records]
           /\ call'[c] = r
           /\ \A d \in Calls : d # c => call'[d] = call[d]
BY Zenon

LEMMA InitTypeOK == Init => TypeOK
<1> SUFFICES ASSUME Init PROVE TypeOK
  OBVIOUS
<1>1. MaxLog[plan] \in Nat /\ MaxFaults \in Nat
  BY PlanFacts DEF Init
<1>2. log \in [Partitions -> 0 .. MaxLog[plan]] /\ \A p \in Partitions : low[p] \in 0 .. log[p]
  BY <1>1 DEF Init, Start
<1>3. call \in [Calls -> Records]
  BY NewCallIsRecord, Zenon DEF Init
<1> QED
  BY <1>1, <1>2, <1>3 DEF Init, TypeOK, Unset

\* The types, with what the plan says of them.
Typed == /\ plan \in Plans /\ MaxLog[plan] \in Nat /\ MaxFaults \in Nat
         /\ \A c \in Calls : GroupOf(c) \in Groups
         /\ Subscriptions \subseteq Calls /\ Replays \subseteq Calls
         /\ log \in [Partitions -> 0 .. MaxLog[plan]] /\ log \in [Partitions -> Nat]
         /\ \A p \in Partitions : low[p] \in 0 .. log[p]
         /\ committed \in [Groups -> [Partitions -> Nat \cup {-1}]]
         /\ registry \subseteq Groups /\ health \in [Groups -> Calls \cup {NoCall}]
         /\ call \in [Calls -> Records] /\ \A c \in Calls : call[c] \in Records
         /\ \A c \in Calls, p \in Partitions : call[c].next[p] \in Nat /\ call[c].next[p] + 1 \in Nat
         /\ handled \in [Calls -> SUBSET (Partitions \X Nat)]
         /\ up \in BOOLEAN /\ faults \in 0 .. MaxFaults

LEMMA TypedFacts == TypeOK => Typed
BY PlanFacts DEF TypeOK, Typed, Records

\* The steps of a replay's clock, which change nothing else.
OnlySilence(c) == TenSecondsPass(c) \/ \E p \in Partitions : Further(c, p)

\* What a step that leaves the rest alone makes of the calls.
Others == <<plan, log, low, committed, registry, health, handled, silent, up>>

LEMMA OnlyCallChanges ==
    ASSUME TypeOK, call' \in [Calls -> Records], UNCHANGED Others, faults' \in 0 .. MaxFaults
    PROVE  TypeOK'
BY DEF TypeOK, Others

LEMMA FaultInRange ==
    ASSUME Typed, Fault \/ UNCHANGED faults
    PROVE  faults' \in 0 .. MaxFaults
BY DEF Typed, Fault

LEMMA NextTypeOK == TypeOK /\ [Next]_vars => TypeOK'
<1> SUFFICES ASSUME TypeOK, [Next]_vars PROVE TypeOK'
  OBVIOUS
<1>t. Typed
  BY TypedFacts
<1>r. call \in [Calls -> Records] /\ \A c \in Calls : call[c] \in Records
  BY <1>t DEF Typed
<1>1. ASSUME NEW p \in Partitions, Emit(p) PROVE TypeOK'
  <2>1. log' \in [Partitions -> 0 .. MaxLog[plan]] /\ \A q \in Partitions : low[q] \in 0 .. log'[q]
    BY <1>t, <1>1 DEF Typed, Emit
  <2> QED
    BY <1>1, <2>1 DEF Emit, TypeOK
<1>2. CASE Clear
  <2>1. faults' \in 0 .. MaxFaults /\ \A q \in Partitions : low'[q] \in 0 .. log[q]
    BY <1>t, <1>2 DEF Typed, Clear, Fault
  <2> QED
    BY <1>2, <2>1 DEF Clear, TypeOK
<1>3. CASE Shutdown
  <2>1. call' = [c \in Calls |-> IF c \in Subscriptions THEN [call[c] EXCEPT !.conn = FALSE] ELSE call[c]]
    BY <1>3 DEF Shutdown
  <2>2. \A c \in Calls : [call[c] EXCEPT !.conn = FALSE] \in Records
    BY <1>r, Zenon DEF Records
  <2>3. call' \in [Calls -> Records]
    BY <1>r, <2>1, <2>2, Zenon
  <2> QED
    BY <1>3, <2>3 DEF Shutdown, TypeOK
<1>4. CASE Restart
  <2>1. call' = [c \in Calls |-> IF call[c].pc = "idle" THEN NewCall ELSE [NewCall EXCEPT !.pc = "gone"]]
    BY <1>4 DEF Restart
  <2>2. call' \in [Calls -> Records]
    BY <2>1, NewCallIsRecord, Zenon
  <2>3. faults' \in 0 .. MaxFaults
    BY <1>t, <1>4, FaultInRange DEF Restart
  <2> QED
    BY <1>4, <2>2, <2>3 DEF Restart, TypeOK
<1>5. ASSUME NEW c \in Calls, Subscribe(c) PROVE TypeOK'
  <2>1. [call[c] EXCEPT !.pc = "refused"] \in Records /\ [call[c] EXCEPT !.pc = "connecting"] \in Records
    BY <1>r, Zenon DEF Records, Stages
  <2>2. \/ call' = [call EXCEPT ![c] = [call[c] EXCEPT !.pc = "refused"]]
        \/ call' = [call EXCEPT ![c] = [call[c] EXCEPT !.pc = "connecting"]]
    BY <1>5, Zenon DEF Subscribe, Goto, Set
  <2>3. call' \in [Calls -> Records]
    BY <1>r, <2>1, <2>2, SetCall, Zenon
  <2>4. health' \in [Groups -> Calls \cup {NoCall}] /\ registry' \subseteq Groups
    BY <1>t, <1>5, Zenon DEF Typed, Subscribe, Shows
  <2> QED
    BY <1>5, <2>3, <2>4 DEF Subscribe, TypeOK
<1>6. ASSUME NEW c \in Calls, Replay(c) PROVE TypeOK'
  <2>1. [NewCall EXCEPT !.pc = "connecting", !.high = log] \in Records
    BY <1>t, NewCallIsRecord, Zenon DEF Typed
  <2>2. [call[c] EXCEPT !.pc = "rejected"] \in Records
    BY <1>r, Zenon DEF Records, Stages
  <2>3. \/ call' = [call EXCEPT ![c] = [NewCall EXCEPT !.pc = "connecting", !.high = log]]
        \/ call' = [call EXCEPT ![c] = [call[c] EXCEPT !.pc = "rejected"]]
    BY <1>6, Zenon DEF Replay, Goto, Set
  <2>4. call' \in [Calls -> Records]
    BY <1>r, <2>1, <2>2, <2>3, SetCall, Zenon
  <2>5. UNCHANGED Others /\ faults' \in 0 .. MaxFaults
    BY <1>6, <1>t, FaultInRange DEF Replay, Others
  <2> QED
    BY <2>4, <2>5, OnlyCallChanges
<1>7. ASSUME NEW c \in Calls, Connected(c) PROVE TypeOK'
  <2>1. Position(c) \in [Partitions -> Nat]
    BY <1>t DEF Typed, Position
  <2> DEFINE r == [call[c] EXCEPT !.pc = "running", !.conn = TRUE, !.next = Position(c),
                                  !.healthy = c \in Subscriptions, !.interval = c \in Replays]
  <2>2. r \in Records
    <3>1. (c \in Subscriptions) \in BOOLEAN /\ (c \in Replays) \in BOOLEAN
      OBVIOUS
    <3>2. \A healthy, interval \in BOOLEAN :
            [call[c] EXCEPT !.pc = "running", !.conn = TRUE, !.next = Position(c),
                            !.healthy = healthy, !.interval = interval] \in Records
      BY <1>r, <2>1, ConnectedIsRecord, Zenon
    <3> QED
      BY <3>1, <3>2, Zenon
  <2>3. call' = [call EXCEPT ![c] = r]
    BY <1>7, Zenon DEF Connected, Set
  <2> HIDE DEF r
  <2>4. call' \in [Calls -> Records]
    BY <1>r, <2>2, <2>3, SetCall, Zenon
  <2>5. UNCHANGED Others /\ faults' \in 0 .. MaxFaults
    BY <1>7, <1>t, FaultInRange DEF Connected, Others
  <2> QED
    BY <2>4, <2>5, OnlyCallChanges
<1>8. ASSUME NEW c \in Calls, NEW pc \in Stages, Goto(c, pc), UNCHANGED Others, Fault \/ UNCHANGED faults
      PROVE  TypeOK'
  <2>1. [call[c] EXCEPT !.pc = pc] \in Records
    BY <1>r, RecordUpdates, Zenon
  <2>2. call' \in [Calls -> Records]
    BY <1>r, <1>8, <2>1, SetCall, Zenon DEF Goto, Set
  <2> QED
    BY <1>8, <1>t, <2>2, FaultInRange, OnlyCallChanges
<1>9. ASSUME NEW c \in Calls, ExecutorFails(c) \/ ConnectFails(c) \/ TopicsCreated(c) \/ DisconnectFails(c) PROVE TypeOK'
  <2>1. \E pc \in Stages : Goto(c, pc)
    BY <1>9, Zenon DEF ExecutorFails, ConnectFails, TopicsCreated, DisconnectFails, Stages
  <2>2. UNCHANGED Others /\ (Fault \/ UNCHANGED faults)
    BY <1>9 DEF ExecutorFails, ConnectFails, TopicsCreated, DisconnectFails, Others
  <2> QED
    BY <1>8, <2>1, <2>2
<1>10. ASSUME NEW c \in Calls, RunFails(c) \/ Timeout(c) \/ Close(c) \/ Disconnected(c) \/ GroupDeleted(c) PROVE TypeOK'
  <2>1. /\ [call[c] EXCEPT !.pc = "rejected", !.conn = FALSE] \in Records
        /\ [call[c] EXCEPT !.timer = FALSE, !.conn = FALSE] \in Records
        /\ [call[c] EXCEPT !.pc = "over", !.conn = FALSE] \in Records
        /\ [call[c] EXCEPT !.pc = "deleting"] \in Records /\ [call[c] EXCEPT !.pc = "disconnecting"] \in Records
        /\ [call[c] EXCEPT !.pc = "over", !.conn = FALSE, !.healthy = FALSE] \in Records
    BY <1>r, Zenon DEF Records, Stages
  <2>2. \/ call' = [call EXCEPT ![c] = [call[c] EXCEPT !.pc = "rejected", !.conn = FALSE]]
        \/ call' = [call EXCEPT ![c] = [call[c] EXCEPT !.timer = FALSE, !.conn = FALSE]]
        \/ call' = [call EXCEPT ![c] = [call[c] EXCEPT !.pc = "over", !.conn = FALSE]]
        \/ call' = [call EXCEPT ![c] = [call[c] EXCEPT !.pc = "deleting"]]
        \/ call' = [call EXCEPT ![c] = [call[c] EXCEPT !.pc = "disconnecting"]]
        \/ call' = [call EXCEPT ![c] = [call[c] EXCEPT !.pc = "over", !.conn = FALSE, !.healthy = FALSE]]
    BY <1>10, Zenon DEF RunFails, Timeout, Close, Disconnected, GroupDeleted, Goto, Set
  <2>3. call' \in [Calls -> Records]
    BY <1>r, <2>1, <2>2, SetCall, Zenon
  <2>4. committed' \in [Groups -> [Partitions -> Nat \cup {-1}]] /\ registry' \subseteq Groups
    BY <1>t, <1>10 DEF Typed, RunFails, Timeout, Close, Disconnected, GroupDeleted, Unset
  <2>5. UNCHANGED <<plan, log, low, health, handled, silent, up>> /\ (Fault \/ UNCHANGED faults)
    BY <1>10 DEF RunFails, Timeout, Close, Disconnected, GroupDeleted
  <2>6. faults' \in 0 .. MaxFaults
    BY <1>t, <2>5, FaultInRange
  <2> QED
    BY <2>3, <2>4, <2>5, <2>6 DEF TypeOK
<1>11. ASSUME NEW c \in Calls, NEW p \in Partitions, Deliver(c, p) PROVE TypeOK'
  <2>1. Ahead(c, p) \in Nat
    BY <1>t DEF Typed, Ahead
  <2>2. [call[c] EXCEPT !.hand[p] = "handling", !.next[p] = Ahead(c, p)] \in Records
    BY <1>r, <2>1, MessageIsRecord, Zenon DEF Hands
  <2>3. call' \in [Calls -> Records]
    BY <1>r, <1>11, <2>2, SetCall, Zenon DEF Deliver, Set
  <2> QED
    BY <1>11, <2>3 DEF Deliver, TypeOK
<1>h. ASSUME NEW c \in Calls, NEW p \in Partitions, Through(c, p) PROVE handled' \in [Calls -> SUBSET (Partitions \X Nat)]
  BY <1>t, <1>h DEF Typed, Through
<1>12. ASSUME NEW c \in Calls, NEW p \in Partitions, Handled(c, p) PROVE TypeOK'
  <2>1. call[c].next[p] + 1 \in Nat
    BY <1>t DEF Typed
  <2>2. [call[c] EXCEPT !.hand[p] = "none", !.next[p] = @ + 1] \in Records
    BY <1>r, <2>1, Zenon DEF Records, Hands
  <2>3. call' \in [Calls -> Records]
    BY <1>r, <1>12, <2>2, SetCall, Zenon DEF Handled, Set
  <2> QED
    BY <1>12, <1>h, <2>3 DEF Handled, TypeOK
<1>13. ASSUME NEW c \in Calls, Commit(c) PROVE TypeOK'
  <2>1. Committable(c) \in [Partitions -> Nat \cup {-1}]
    BY <1>t DEF Typed, Committable, Stored
  <2>2. committed' \in [Groups -> [Partitions -> Nat \cup {-1}]]
    BY <1>t, <1>13, <2>1 DEF Typed, Commit
  <2> QED
    BY <1>13, <2>2 DEF Commit, TypeOK
<1>14. ASSUME NEW c \in Calls, NEW p \in Partitions, Replayed(c, p) PROVE TypeOK'
  <2> DEFINE r == [call[c] EXCEPT !.consumed[p] = call[c].next[p] + 1]
             paused(threw) == [r EXCEPT !.interval = FALSE, !.hand[p] = IF threw THEN "rethrowing" ELSE "pausing"]
             on(threw) == [r EXCEPT !.hand[p] = "none", !.next[p] = IF threw THEN @ ELSE @ + 1]
  <2>1. PICK threw \in BOOLEAN : /\ IF threw THEN Fault ELSE UNCHANGED faults
                                 /\ call' = [call EXCEPT ![c] = IF CaughtUp(r) THEN paused(threw) ELSE on(threw)]
    BY <1>14, Zenon DEF Replayed, Set
  <2>2. call[c].next[p] + 1 \in Nat /\ call[c].next[p] \in Nat
    BY <1>t DEF Typed
  <2>3. r \in Records /\ r.next = call[c].next
    BY <1>r, <2>2, Zenon DEF Records
  <2> HIDE DEF r
  <2>4. paused(threw) \in Records
    BY <2>3, Zenon DEF Records, Hands
  <2>5. on(threw) \in Records
    BY <2>2, <2>3, Zenon DEF Records, Hands
  <2> HIDE DEF paused, on
  <2>6. call' \in [Calls -> Records]
    BY <1>r, <2>1, <2>4, <2>5, SetCall, Zenon
  <2>7. faults' \in 0 .. MaxFaults
    BY <1>t, <2>1, FaultInRange
  <2> QED
    BY <1>14, <1>h, <2>6, <2>7 DEF Replayed, TypeOK
<1>15. ASSUME NEW c \in Calls, NEW p \in Partitions, PauseOver(c, p) PROVE TypeOK'
  <2> DEFINE r == Done(call[c], "caughtUp")
             next == [r EXCEPT !.hand[p] = "none", !.timer = TRUE,
                               !.next[p] = IF call[c].hand[p] = "pausing" THEN @ + 1 ELSE @]
  <2>1. r \in Records /\ r.next = call[c].next
    BY <1>r, DoneIsRecord, Zenon DEF Reasons
  <2>2. call[c].next[p] + 1 \in Nat /\ call[c].next[p] \in Nat
    BY <1>t DEF Typed
  <2>3. call' = [call EXCEPT ![c] = next]
    BY <1>15, Zenon DEF PauseOver, Set
  <2> HIDE DEF r
  <2>4. next \in Records
    BY <2>1, <2>2, Zenon DEF Records, Hands
  <2> HIDE DEF next
  <2>5. call' \in [Calls -> Records]
    BY <1>r, <2>3, <2>4, SetCall, Zenon
  <2>6. UNCHANGED Others /\ faults' \in 0 .. MaxFaults
    BY <1>15, <1>t, FaultInRange DEF PauseOver, Others
  <2> QED
    BY <2>5, <2>6, OnlyCallChanges
<1>16. ASSUME NEW c \in Calls, Tick(c) \/ RunReturns(c) PROVE TypeOK'
  <2> DEFINE idle == Done(call[c], "idle")
             empty == Done(call[c], "empty")
  <2>1. idle \in Records /\ empty \in Records
    BY <1>r, DoneIsRecord, Zenon DEF Reasons
  <2>2. \/ call' = [call EXCEPT ![c] = [idle EXCEPT !.interval = FALSE, !.timer = TRUE]]
        \/ call' = [call EXCEPT ![c] = [empty EXCEPT !.pc = "over", !.interval = FALSE, !.conn = FALSE]]
        \/ call' = [call EXCEPT ![c] = [call[c] EXCEPT !.pc = "replaying"]]
    BY <1>16, Zenon DEF Tick, RunReturns, Set
  <2> HIDE DEF idle, empty
  <2>3. /\ [idle EXCEPT !.interval = FALSE, !.timer = TRUE] \in Records
        /\ [empty EXCEPT !.pc = "over", !.interval = FALSE, !.conn = FALSE] \in Records
        /\ [call[c] EXCEPT !.pc = "replaying"] \in Records
    BY <1>r, <2>1, Zenon DEF Records, Stages
  <2>4. call' \in [Calls -> Records]
    BY <1>r, <2>2, <2>3, SetCall, Zenon
  <2>5. UNCHANGED Others /\ faults' \in 0 .. MaxFaults
    BY <1>16, <1>t, FaultInRange DEF Tick, RunReturns, Others
  <2> QED
    BY <2>4, <2>5, OnlyCallChanges
<1>17. CASE UNCHANGED vars
  BY <1>17 DEF vars, TypeOK
<1>18. ASSUME NEW c \in Calls, OnlySilence(c) PROVE TypeOK'
  BY <1>18 DEF OnlySilence, TenSecondsPass, Further, TypeOK
<1> QED
  BY <1>1, <1>2, <1>3, <1>4, <1>5, <1>6, <1>7, <1>9, <1>10, <1>11, <1>12, <1>13, <1>14, <1>15, <1>16, <1>17, <1>18
  DEF Next, Proceed, InPartition, OnlySilence

\* Every variable of the client keeps its type, for any plan and any bounds (eventclient-kafka.ts).
THEOREM TypeCorrect == Spec => []TypeOK
<1> QED
  BY InitTypeOK, NextTypeOK, PTL DEF Spec

---------------------------------------------------------------------------
(* Groups and health *)

\* A call that has its group from the registry, and one whose consumer was connected.
Holds(c) == call[c].pc \in {"connecting", "creating", "retrying", "running", "deleting", "disconnecting", "rejected"}
WasConnected(c) == call[c].pc \in {"running", "deleting", "disconnecting", "rejected"}

HoldersAreRegistered == \A c \in Subscriptions : Holds(c) => GroupOf(c) \in registry
HoldersAreAlone == \A c, d \in Subscriptions : Holds(c) /\ Holds(d) /\ GroupOf(c) = GroupOf(d) => c = d
ConnectedHold == \A c \in Subscriptions : call[c].conn => WasConnected(c)

\* What ends a replay concerns no subscription, and what closes a subscription no replay.
Ending(c) == call[c].interval \/ call[c].timer \/ \E p \in Partitions : call[c].hand[p] \in {"pausing", "rethrowing"}
OnlyReplaysEnd == \A c \in Calls : Ending(c) => c \in Replays
OnlySubscriptionsLeave == \A c \in Calls : call[c].pc \in {"deleting", "disconnecting"} => c \in Subscriptions

HealthyAreAlive == \A c \in Calls : call[c].healthy =>
    c \in Subscriptions /\ WasConnected(c) /\ (call[c].conn \/ ~up \/ call[c].pc = "rejected")
HealthShowsTheGroup == \A g \in Groups : health[g] # NoCall => health[g] \in Subscriptions /\ GroupOf(health[g]) = g

GroupInv == /\ HoldersAreRegistered /\ HoldersAreAlone /\ ConnectedHold
            /\ OnlyReplaysEnd /\ OnlySubscriptionsLeave
            /\ HealthyAreAlive /\ HealthShowsTheGroup

LEMMA InitGroups == Init => GroupInv
<1> SUFFICES ASSUME Init PROVE GroupInv
  OBVIOUS
<1>1. \A c \in Calls : call[c] = NewCall
  BY Zenon DEF Init
<1>2. \A c \in Calls : /\ call[c].pc = "idle" /\ call[c].healthy = FALSE /\ call[c].conn = FALSE
                       /\ call[c].interval = FALSE /\ call[c].timer = FALSE
                       /\ \A p \in Partitions : call[c].hand[p] = "none"
  <2>1. /\ NewCall.pc = "idle" /\ NewCall.healthy = FALSE /\ NewCall.conn = FALSE
        /\ NewCall.interval = FALSE /\ NewCall.timer = FALSE
        /\ NewCall.hand = [p \in Partitions |-> "none"]
    BY Zenon DEF NewCall
  <2> QED
    BY <1>1, <2>1, Zenon
<1>3. Subscriptions \subseteq Calls /\ health = [g \in Groups |-> NoCall]
  BY DEF Subscriptions, Init
<1>4. \A c \in Calls : ~Holds(c) /\ ~WasConnected(c) /\ ~Ending(c) /\ ~call[c].healthy /\ ~call[c].conn
                       /\ call[c].pc \notin {"deleting", "disconnecting"}
  BY <1>2, Zenon DEF Holds, WasConnected, Ending
<1> QED
  BY <1>3, <1>4 DEF GroupInv, HoldersAreRegistered, HoldersAreAlone, ConnectedHold, OnlyReplaysEnd, OnlySubscriptionsLeave,
                    HealthyAreAlive, HealthShowsTheGroup

\* The parts of a call's record that this invariant is about.
SameStage(c) == /\ call'[c].pc = call[c].pc /\ call'[c].conn = call[c].conn /\ call'[c].healthy = call[c].healthy
                /\ Ending(c)' => Ending(c) \/ c \in Replays

\* A step that moves no call from one stage to another.
LEMMA StagesStay ==
    ASSUME GroupInv, UNCHANGED <<plan, registry, health, up>>, \A c \in Calls : SameStage(c)
    PROVE  GroupInv'
<1>1. UNCHANGED <<Subscriptions, Replays>> /\ \A c \in Calls : GroupOf(c)' = GroupOf(c)
  BY DEF Subscriptions, Replays, GroupOf, Kind
<1>2. Subscriptions \subseteq Calls
  BY DEF Subscriptions
<1>3. \A c \in Calls : (Holds(c)' <=> Holds(c)) /\ (WasConnected(c)' <=> WasConnected(c))
  BY DEF SameStage, Holds, WasConnected
<1> QED
  BY <1>1, <1>2, <1>3 DEF GroupInv, HoldersAreRegistered, HoldersAreAlone, ConnectedHold, OnlyReplaysEnd, OnlySubscriptionsLeave,
                    HealthyAreAlive, HealthShowsTheGroup, SameStage

\* A step that moves one call to another stage: what it has to see to.
MovesWell(c) ==
    /\ \A d \in Calls : d # c => call'[d] = call[d]
    /\ Ending(c)' => c \in Replays
    /\ call'[c].pc \in {"deleting", "disconnecting"} => c \in Subscriptions
    /\ c \in Subscriptions /\ call'[c].conn => WasConnected(c)'
    /\ call'[c].healthy => c \in Subscriptions /\ WasConnected(c)' /\ (call'[c].conn \/ ~up \/ call'[c].pc = "rejected")
    /\ health' = health \/ (c \in Subscriptions /\ health' = Shows(c))
    /\ \/ registry' = registry /\ (c \in Subscriptions /\ Holds(c)' => Holds(c))
       \/ c \in Subscriptions /\ GroupOf(c) \notin registry /\ registry' = registry \cup {GroupOf(c)}
       \/ c \in Subscriptions /\ Holds(c) /\ ~Holds(c)' /\ registry' = registry \ {GroupOf(c)}

LEMMA OneMoves ==
    ASSUME TypeOK, GroupInv, UNCHANGED <<plan, up>>, NEW c \in Calls, MovesWell(c)
    PROVE  GroupInv'
<1>1. UNCHANGED <<Subscriptions, Replays>> /\ (\A d \in Calls : GroupOf(d)' = GroupOf(d)) /\ Subscriptions \subseteq Calls
  BY DEF Subscriptions, Replays, GroupOf, Kind
<1>2. \A d \in Calls : d # c => /\ call'[d] = call[d] /\ (Ending(d)' <=> Ending(d))
                                /\ (Holds(d)' <=> Holds(d)) /\ (WasConnected(d)' <=> WasConnected(d))
  BY DEF MovesWell, Ending, Holds, WasConnected
<1>3. HoldersAreRegistered' /\ HoldersAreAlone'
  BY <1>1, <1>2 DEF MovesWell, GroupInv, HoldersAreRegistered, HoldersAreAlone
<1>4. ConnectedHold' /\ OnlyReplaysEnd' /\ OnlySubscriptionsLeave'
  <2>1. ConnectedHold'
    BY <1>1, <1>2, Zenon DEF MovesWell, GroupInv, ConnectedHold
  <2>2. OnlyReplaysEnd'
    BY <1>1, <1>2, Zenon DEF MovesWell, GroupInv, OnlyReplaysEnd
  <2>3. OnlySubscriptionsLeave'
    BY <1>1, <1>2, Zenon DEF MovesWell, GroupInv, OnlySubscriptionsLeave
  <2> QED
    BY <2>1, <2>2, <2>3
<1>5. HealthyAreAlive'
  BY <1>1, <1>2, Zenon DEF MovesWell, GroupInv, HealthyAreAlive
<1>6. HealthShowsTheGroup'
  <2>1. health \in [Groups -> Calls \cup {NoCall}]
    BY DEF TypeOK
  <2>2. health' = health \/ (c \in Subscriptions /\ health' = [health EXCEPT ![GroupOf(c)] = c])
    BY DEF MovesWell, Shows
  <2> QED
    BY <1>1, <2>1, <2>2 DEF GroupInv, HealthShowsTheGroup
<1> QED
  BY <1>3, <1>4, <1>5, <1>6 DEF GroupInv

LEMMA GotoFields ==
    ASSUME call \in [Calls -> Records], NEW c \in Calls, NEW pc \in Stages, Goto(c, pc)
    PROVE  /\ \A d \in Calls : d # c => call'[d] = call[d]
           /\ call'[c].pc = pc /\ call'[c].conn = call[c].conn /\ call'[c].healthy = call[c].healthy
           /\ Ending(c)' => Ending(c)
<1>1. call' = [call EXCEPT ![c] = [call[c] EXCEPT !.pc = pc]] /\ call[c] \in Records
  BY Zenon DEF Goto, Set
<1>2. /\ \A d \in Calls : d # c => call'[d] = call[d]
      /\ call'[c] = [call[c] EXCEPT !.pc = pc]
  BY <1>1, Zenon
<1>3. /\ call'[c].pc = pc /\ call'[c].conn = call[c].conn /\ call'[c].healthy = call[c].healthy
      /\ call'[c].interval = call[c].interval /\ call'[c].timer = call[c].timer /\ call'[c].hand = call[c].hand
  BY <1>1, <1>2, Zenon DEF Records
<1> QED
  BY <1>2, <1>3, Zenon DEF Ending

LEMMA SubscribeMoves ==
    ASSUME TypeOK, GroupInv, NEW c \in Calls, Subscribe(c)
    PROVE  GroupInv'
<1>r. call \in [Calls -> Records]
  BY DEF TypeOK
<1>1. c \in Subscriptions /\ call[c].pc = "idle" /\ UNCHANGED <<plan, up>>
  BY Zenon DEF Subscribe
<1>2. ~Holds(c) /\ ~WasConnected(c)
  BY <1>1 DEF Holds, WasConnected
<1>3. ~call[c].conn /\ ~call[c].healthy /\ (Ending(c) => c \in Replays)
  BY <1>1, <1>2, Zenon DEF GroupInv, ConnectedHold, HealthyAreAlive, OnlyReplaysEnd
<1>4. CASE GroupOf(c) \in registry
  <2>1. Goto(c, "refused") /\ (health' = health \/ health' = Shows(c)) /\ registry' = registry
    BY <1>4, Zenon DEF Subscribe
  <2>2. /\ \A d \in Calls : d # c => call'[d] = call[d]
        /\ call'[c].pc = "refused" /\ call'[c].conn = call[c].conn /\ call'[c].healthy = call[c].healthy
        /\ Ending(c)' => Ending(c)
    BY <1>r, <2>1, GotoFields, Zenon DEF Stages
  <2>3. ~Holds(c)'
    BY <2>2 DEF Holds
  <2> QED
    <3>1. MovesWell(c)
      BY <1>1, <1>3, <2>1, <2>2, <2>3, Zenon DEF MovesWell
    <3> QED
      BY <1>1, <3>1, OneMoves
<1>5. CASE GroupOf(c) \notin registry
  <2>1. Goto(c, "connecting") /\ health' = Shows(c) /\ registry' = registry \cup {GroupOf(c)}
    BY <1>5, Zenon DEF Subscribe
  <2>2. /\ \A d \in Calls : d # c => call'[d] = call[d]
        /\ call'[c].pc = "connecting" /\ call'[c].conn = call[c].conn /\ call'[c].healthy = call[c].healthy
        /\ Ending(c)' => Ending(c)
    BY <1>r, <2>1, GotoFields, Zenon DEF Stages
  <2>3. MovesWell(c)
    BY <1>1, <1>3, <1>5, <2>1, <2>2, Zenon DEF MovesWell
  <2> QED
    BY <1>1, <2>3, OneMoves
<1> QED
  BY <1>4, <1>5

\* A replay concerns neither groups nor health, whatever becomes of it.
LEMMA ReplayMoves ==
    ASSUME TypeOK, GroupInv, UNCHANGED <<plan, registry, health, up>>, NEW c \in Replays, NEW r,
           call' = [call EXCEPT ![c] = r], r.pc \notin {"deleting", "disconnecting"}, r.healthy = call[c].healthy
    PROVE  GroupInv'
<1>1. c \in Calls /\ c \notin Subscriptions
  BY PlanFacts DEF TypeOK
<1>2. call'[c] = r /\ \A d \in Calls : d # c => call'[d] = call[d]
  BY <1>1, Zenon DEF TypeOK
<1>3. ~call[c].healthy
  BY <1>1, Zenon DEF GroupInv, HealthyAreAlive
<1>4. MovesWell(c)
  BY <1>1, <1>2, <1>3, Zenon DEF MovesWell
<1> QED
  BY <1>1, <1>4, OneMoves

\* A subscription goes from one place to the next while it holds its group.
LEMMA HolderMoves ==
    ASSUME TypeOK, GroupInv, UNCHANGED <<plan, registry, health, up>>, NEW c \in Calls, NEW pc \in Stages, Goto(c, pc),
           Holds(c), call[c].pc # "rejected",
           WasConnected(c) => pc \in {"deleting", "disconnecting", "rejected"},
           pc \in {"deleting", "disconnecting"} => c \in Subscriptions
    PROVE  GroupInv'
<1>1. call \in [Calls -> Records]
  BY DEF TypeOK
<1>2. /\ \A d \in Calls : d # c => call'[d] = call[d]
      /\ call'[c].pc = pc /\ call'[c].conn = call[c].conn /\ call'[c].healthy = call[c].healthy
      /\ Ending(c)' => Ending(c)
  BY <1>1, GotoFields, Zenon
<1>3. WasConnected(c) => WasConnected(c)'
  BY <1>2 DEF WasConnected
<1>4. /\ Ending(c) => c \in Replays
      /\ c \in Subscriptions /\ call[c].conn => WasConnected(c)
      /\ call[c].healthy => c \in Subscriptions /\ WasConnected(c) /\ (call[c].conn \/ ~up)
  BY Zenon DEF GroupInv, OnlyReplaysEnd, ConnectedHold, HealthyAreAlive
<1>5. MovesWell(c)
  BY <1>2, <1>3, <1>4, Zenon DEF MovesWell
<1> QED
  BY <1>5, OneMoves

LEMMA ConnectedMoves ==
    ASSUME TypeOK, GroupInv, NEW c \in Calls, Connected(c)
    PROVE  GroupInv'
<1>r. call \in [Calls -> Records] /\ call[c] \in Records
  BY DEF TypeOK
<1> DEFINE r == [call[c] EXCEPT !.pc = "running", !.conn = TRUE, !.next = Position(c),
                                !.healthy = c \in Subscriptions, !.interval = c \in Replays]
<1>1. /\ call[c].pc \in {"connecting", "retrying"} /\ call' = [call EXCEPT ![c] = r]
      /\ UNCHANGED <<plan, registry, health, up>>
  BY Zenon DEF Connected, Set
<1>2. /\ r.pc = "running" /\ r.conn = TRUE /\ (r.healthy <=> c \in Subscriptions) /\ (r.interval <=> c \in Replays)
      /\ r.timer = call[c].timer /\ r.hand = call[c].hand
  BY <1>r, Zenon DEF Records
<1> HIDE DEF r
<1>3. call'[c] = r /\ \A d \in Calls : d # c => call'[d] = call[d]
  BY <1>r, <1>1, Zenon
<1>4. Ending(c)' => c \in Replays
  <2>1. Ending(c)' => Ending(c) \/ c \in Replays
    BY <1>2, <1>3, Zenon DEF Ending
  <2> QED
    BY <2>1, Zenon DEF GroupInv, OnlyReplaysEnd
<1>5. Holds(c) /\ WasConnected(c)' /\ call'[c].pc \notin {"deleting", "disconnecting"}
  BY <1>1, <1>2, <1>3 DEF Holds, WasConnected
<1>6. MovesWell(c)
  BY <1>1, <1>2, <1>3, <1>4, <1>5, Zenon DEF MovesWell
<1> QED
  BY <1>1, <1>6, OneMoves

LEMMA DisconnectedMoves ==
    ASSUME TypeOK, GroupInv, NEW c \in Calls, Disconnected(c)
    PROVE  GroupInv'
<1>r. call \in [Calls -> Records] /\ call[c] \in Records
  BY DEF TypeOK
<1> DEFINE r == [call[c] EXCEPT !.pc = "over", !.conn = FALSE, !.healthy = FALSE]
<1>1. /\ call[c].pc = "disconnecting" /\ call' = [call EXCEPT ![c] = r]
      /\ registry' = registry \ {GroupOf(c)} /\ UNCHANGED <<plan, health, up>>
  BY Zenon DEF Disconnected, Set
<1>2. /\ r.pc = "over" /\ r.conn = FALSE /\ r.healthy = FALSE
      /\ r.interval = call[c].interval /\ r.timer = call[c].timer /\ r.hand = call[c].hand
  BY <1>r, Zenon DEF Records
<1> HIDE DEF r
<1>3. call'[c] = r /\ \A d \in Calls : d # c => call'[d] = call[d]
  BY <1>r, <1>1, Zenon
<1>4. Ending(c)' => c \in Replays
  <2>1. Ending(c)' => Ending(c)
    BY <1>2, <1>3, Zenon DEF Ending
  <2> QED
    BY <2>1, Zenon DEF GroupInv, OnlyReplaysEnd
<1>5. Holds(c) /\ ~Holds(c)' /\ c \in Subscriptions
  BY <1>1, <1>2, <1>3 DEF Holds, GroupInv, OnlySubscriptionsLeave
<1>6. MovesWell(c)
  BY <1>1, <1>2, <1>3, <1>4, <1>5, Zenon DEF MovesWell
<1> QED
  BY <1>1, <1>6, OneMoves

LEMMA ShutdownMoves ==
    ASSUME TypeOK, GroupInv, Shutdown
    PROVE  GroupInv'
<1>r. call \in [Calls -> Records] /\ \A c \in Calls : call[c] \in Records
  BY DEF TypeOK
<1>1. /\ call' = [c \in Calls |-> IF c \in Subscriptions THEN [call[c] EXCEPT !.conn = FALSE] ELSE call[c]]
      /\ up' = FALSE /\ UNCHANGED <<plan, registry, health>>
  BY DEF Shutdown
<1>2. \A c \in Calls : LET r == [call[c] EXCEPT !.conn = FALSE]
                       IN  /\ r.pc = call[c].pc /\ r.healthy = call[c].healthy /\ r.conn = FALSE
                           /\ r.interval = call[c].interval /\ r.timer = call[c].timer /\ r.hand = call[c].hand
  BY <1>r, Zenon DEF Records
<1>3. \A c \in Calls : /\ call'[c].pc = call[c].pc /\ call'[c].healthy = call[c].healthy
                       /\ call'[c].interval = call[c].interval /\ call'[c].timer = call[c].timer
                       /\ call'[c].hand = call[c].hand
                       /\ c \in Subscriptions => call'[c].conn = FALSE
  BY <1>1, <1>2, Zenon
<1>4. UNCHANGED <<Subscriptions, Replays>> /\ (\A d \in Calls : GroupOf(d)' = GroupOf(d)) /\ Subscriptions \subseteq Calls
  BY <1>1 DEF Subscriptions, Replays, GroupOf, Kind
<1>5. \A c \in Calls : /\ (Holds(c)' <=> Holds(c)) /\ (WasConnected(c)' <=> WasConnected(c)) /\ (Ending(c)' <=> Ending(c))
  BY <1>3, Zenon DEF Holds, WasConnected, Ending
<1>6. HoldersAreRegistered' /\ HoldersAreAlone' /\ HealthShowsTheGroup'
  BY <1>1, <1>4, <1>5 DEF GroupInv, HoldersAreRegistered, HoldersAreAlone, HealthShowsTheGroup
<1>7. ConnectedHold' /\ HealthyAreAlive'
  BY <1>1, <1>3, <1>4, <1>5, Zenon DEF GroupInv, ConnectedHold, HealthyAreAlive
<1>8. OnlyReplaysEnd' /\ OnlySubscriptionsLeave'
  BY <1>3, <1>4, <1>5, Zenon DEF GroupInv, OnlyReplaysEnd, OnlySubscriptionsLeave
<1> QED
  BY <1>6, <1>7, <1>8 DEF GroupInv

LEMMA NewFields ==
    \A r : r = NewCall \/ r = [NewCall EXCEPT !.pc = "gone"] =>
        /\ r.pc \in {"idle", "gone"} /\ r.healthy = FALSE /\ r.conn = FALSE
        /\ r.interval = FALSE /\ r.timer = FALSE /\ \A p \in Partitions : r.hand[p] = "none"
<1>1. /\ NewCall.pc = "idle" /\ NewCall.healthy = FALSE /\ NewCall.conn = FALSE
      /\ NewCall.interval = FALSE /\ NewCall.timer = FALSE
      /\ NewCall.hand = [p \in Partitions |-> "none"]
  BY Zenon DEF NewCall
<1>2. LET r == [NewCall EXCEPT !.pc = "gone"]
      IN  /\ r.pc = "gone" /\ r.healthy = NewCall.healthy /\ r.conn = NewCall.conn
          /\ r.interval = NewCall.interval /\ r.timer = NewCall.timer /\ r.hand = NewCall.hand
  BY NewCallIsRecord, Zenon DEF Records
<1> QED
  BY <1>1, <1>2, Zenon

LEMMA RestartMoves ==
    ASSUME TypeOK, GroupInv, Restart
    PROVE  GroupInv'
<1>1. /\ call' = [c \in Calls |-> IF call[c].pc = "idle" THEN NewCall ELSE [NewCall EXCEPT !.pc = "gone"]]
      /\ health' = [g \in Groups |-> NoCall] /\ UNCHANGED plan
  BY DEF Restart
<1>2. \A c \in Calls : call'[c] = NewCall \/ call'[c] = [NewCall EXCEPT !.pc = "gone"]
  BY <1>1, Zenon
<1>3. \A c \in Calls : /\ call'[c].pc \in {"idle", "gone"} /\ call'[c].healthy = FALSE /\ call'[c].conn = FALSE
                       /\ call'[c].interval = FALSE /\ call'[c].timer = FALSE
                       /\ \A p \in Partitions : call'[c].hand[p] = "none"
  BY <1>2, NewFields, Zenon
<1>4. \A c \in Calls : ~Holds(c)' /\ ~Ending(c)' /\ call'[c].pc \notin {"deleting", "disconnecting"}
  BY <1>3, Zenon DEF Holds, Ending
<1>5. UNCHANGED Subscriptions /\ Subscriptions \subseteq Calls
  BY <1>1 DEF Subscriptions, Kind
<1>6. HealthShowsTheGroup'
  BY <1>1 DEF HealthShowsTheGroup
<1> QED
  BY <1>3, <1>4, <1>5, <1>6, Zenon DEF GroupInv, HoldersAreRegistered, HoldersAreAlone, ConnectedHold, OnlyReplaysEnd,
     OnlySubscriptionsLeave, HealthyAreAlive

\* The hand of a partition takes a message, or is through with it.
LEMMA HandMoves ==
    ASSUME TypeOK, GroupInv, UNCHANGED <<plan, registry, health, up>>, NEW c \in Calls, NEW p \in Partitions,
           NEW hand \in {"none", "handling"}, NEW n \in Nat,
           call' = [call EXCEPT ![c] = [call[c] EXCEPT !.hand[p] = hand, !.next[p] = n]]
    PROVE  GroupInv'
<1>r. call \in [Calls -> Records] /\ call[c] \in Records
  BY DEF TypeOK
<1> DEFINE r == [call[c] EXCEPT !.hand[p] = hand, !.next[p] = n]
<1>1. /\ r.pc = call[c].pc /\ r.conn = call[c].conn /\ r.healthy = call[c].healthy
      /\ r.interval = call[c].interval /\ r.timer = call[c].timer
      /\ r.hand = [call[c].hand EXCEPT ![p] = hand] /\ call[c].hand \in [Partitions -> Hands]
  BY <1>r, Zenon DEF Records
<1> HIDE DEF r
<1>2. call'[c] = r /\ \A d \in Calls : d # c => call'[d] = call[d]
  BY <1>r, Zenon DEF r
<1>3. \A q \in Partitions : call'[c].hand[q] \in {"pausing", "rethrowing"} => call[c].hand[q] \in {"pausing", "rethrowing"}
  BY <1>1, <1>2
<1>4. \A d \in Calls : SameStage(d)
  <2>1. SameStage(c)
    BY <1>1, <1>2, <1>3, Zenon DEF SameStage, Ending
  <2>2. ASSUME NEW d \in Calls, d # c PROVE SameStage(d)
    BY <1>2, <2>2, Zenon DEF SameStage, Ending
  <2> QED
    BY <2>1, <2>2
<1> QED
  BY <1>4, StagesStay

LEMMA NextGroups == TypeOK /\ GroupInv /\ [Next]_vars => GroupInv'
<1> SUFFICES ASSUME TypeOK, GroupInv, [Next]_vars PROVE GroupInv'
  OBVIOUS
<1>t. Typed
  BY TypedFacts
<1>r. call \in [Calls -> Records] /\ \A c \in Calls : call[c] \in Records
  BY DEF TypeOK
<1>1. ASSUME UNCHANGED <<plan, registry, health, up, call>> PROVE GroupInv'
  <2>1. \A c \in Calls : SameStage(c)
    BY <1>1, Zenon DEF SameStage, Ending
  <2> QED
    BY <1>1, <2>1, StagesStay
<1>2. ASSUME NEW p \in Partitions, Emit(p) PROVE GroupInv'
  BY <1>1, <1>2 DEF Emit
<1>3. CASE Clear
  BY <1>1, <1>3 DEF Clear
<1>4. ASSUME NEW c \in Calls, Commit(c) PROVE GroupInv'
  BY <1>1, <1>4 DEF Commit
<1>5. CASE UNCHANGED vars \/ \E c \in Calls : OnlySilence(c)
  BY <1>1, <1>5 DEF vars, OnlySilence, TenSecondsPass, Further
<1>6. ASSUME NEW c \in Calls, NEW p \in Partitions, Deliver(c, p) PROVE GroupInv'
  <2>1. Ahead(c, p) \in Nat
    BY <1>t DEF Typed, Ahead
  <2>2. call' = [call EXCEPT ![c] = [call[c] EXCEPT !.hand[p] = "handling", !.next[p] = Ahead(c, p)]]
    BY <1>6, Zenon DEF Deliver, Set
  <2>3. UNCHANGED <<plan, registry, health, up>>
    BY <1>6 DEF Deliver
  <2> QED
    BY <2>1, <2>2, <2>3, HandMoves
<1>7. ASSUME NEW c \in Calls, NEW p \in Partitions, Handled(c, p) PROVE GroupInv'
  <2>1. call[c].next[p] + 1 \in Nat
    BY <1>t DEF Typed
  <2>2. call' = [call EXCEPT ![c] = [call[c] EXCEPT !.hand[p] = "none", !.next[p] = call[c].next[p] + 1]]
    BY <1>7, Zenon DEF Handled, Set
  <2>3. UNCHANGED <<plan, registry, health, up>>
    BY <1>7 DEF Handled
  <2> QED
    BY <2>1, <2>2, <2>3, HandMoves
<1>8. ASSUME NEW c \in Calls, ExecutorFails(c) \/ TopicsCreated(c) \/ ConnectFails(c) \/ DisconnectFails(c) PROVE GroupInv'
  <2>1. /\ UNCHANGED <<plan, registry, health, up>>
        /\ \/ call[c].pc = "connecting" /\ Goto(c, "creating")
           \/ call[c].pc = "creating" /\ Goto(c, "retrying")
           \/ call[c].pc \in {"connecting", "creating", "retrying", "disconnecting"} /\ Goto(c, "rejected")
    BY <1>8 DEF ExecutorFails, TopicsCreated, ConnectFails, DisconnectFails
  <2>2. Holds(c) /\ call[c].pc # "rejected" /\ (WasConnected(c) => call[c].pc = "disconnecting")
    BY <2>1 DEF Holds, WasConnected
  <2>3. \E pc \in Stages : /\ Goto(c, pc) /\ pc \notin {"deleting", "disconnecting"}
                           /\ WasConnected(c) => pc \in {"deleting", "disconnecting", "rejected"}
    BY <2>1, <2>2, Zenon DEF Stages
  <2> QED
    BY <2>1, <2>2, <2>3, HolderMoves
<1>9. ASSUME NEW c \in Calls, c \in Subscriptions, Close(c) PROVE GroupInv'
  <2>1. /\ UNCHANGED <<plan, registry, health, up>> /\ call[c].pc = "running"
        /\ \E pc \in {"deleting", "disconnecting"} : Goto(c, pc)
    <3>1. c \notin Replays
      BY <1>9, PlanFacts DEF TypeOK
    <3> QED
      BY <1>9, <3>1, Zenon DEF Close
  <2>2. Holds(c) /\ call[c].pc # "rejected" /\ {"deleting", "disconnecting"} \subseteq Stages
    BY <2>1 DEF Holds, Stages
  <2> QED
    BY <1>9, <2>1, <2>2, HolderMoves
<1>10. ASSUME NEW c \in Calls, GroupDeleted(c) PROVE GroupInv'
  <2>1. UNCHANGED <<plan, registry, health, up>> /\ call[c].pc = "deleting" /\ Goto(c, "disconnecting")
    BY <1>10 DEF GroupDeleted
  <2>2. Holds(c) /\ call[c].pc # "rejected" /\ "disconnecting" \in Stages /\ c \in Subscriptions
    BY <2>1 DEF Holds, Stages, GroupInv, OnlySubscriptionsLeave
  <2> QED
    BY <2>1, <2>2, HolderMoves
\* What a replay does.
<1>11. ASSUME NEW c \in Replays, Replay(c) \/ Close(c) \/ RunFails(c) PROVE GroupInv'
  <2>1. c \in Calls /\ c \notin Subscriptions
    BY PlanFacts DEF TypeOK
  <2>2. UNCHANGED <<plan, registry, health, up>>
    BY <1>11 DEF Replay, Close, RunFails
  <2>3. \/ call' = [call EXCEPT ![c] = [NewCall EXCEPT !.pc = "connecting", !.high = log]]
        \/ call' = [call EXCEPT ![c] = [call[c] EXCEPT !.pc = "rejected"]]
        \/ call' = [call EXCEPT ![c] = [call[c] EXCEPT !.pc = "over", !.conn = FALSE]]
        \/ call' = [call EXCEPT ![c] = [call[c] EXCEPT !.pc = "rejected", !.conn = FALSE]]
    BY <1>11, <2>1, Zenon DEF Replay, Close, RunFails, Goto, Set
  <2>4. call[c].healthy = FALSE
    <3>1. ~call[c].healthy
      BY <2>1, Zenon DEF GroupInv, HealthyAreAlive
    <3>2. call[c].healthy \in BOOLEAN
      BY <1>r, <2>1, Zenon DEF Records
    <3> QED
      BY <3>1, <3>2, Zenon
  <2>5. /\ LET r == [NewCall EXCEPT !.pc = "connecting", !.high = log]
           IN  r.pc = "connecting" /\ r.healthy = FALSE
        /\ LET r == [call[c] EXCEPT !.pc = "rejected"] IN r.pc = "rejected" /\ r.healthy = call[c].healthy
        /\ LET r == [call[c] EXCEPT !.pc = "over", !.conn = FALSE] IN r.pc = "over" /\ r.healthy = call[c].healthy
        /\ LET r == [call[c] EXCEPT !.pc = "rejected", !.conn = FALSE] IN r.pc = "rejected" /\ r.healthy = call[c].healthy
    <3>1. LET r == [NewCall EXCEPT !.pc = "connecting", !.high = log] IN r.pc = "connecting" /\ r.healthy = FALSE
      BY Zenon DEF NewCall
    <3>2. call[c] \in Records
      BY <1>r, <2>1
    <3> QED
      BY <3>1, <3>2, Zenon DEF Records
  <2>6. \E r : call' = [call EXCEPT ![c] = r] /\ r.pc \in {"connecting", "rejected", "over"} /\ r.healthy = call[c].healthy
    BY <2>3, <2>4, <2>5, Zenon
  <2>7. \E r : call' = [call EXCEPT ![c] = r] /\ r.pc \notin {"deleting", "disconnecting"} /\ r.healthy = call[c].healthy
    BY <2>6
  <2> QED
    BY <2>2, <2>7, ReplayMoves
<1>12. ASSUME NEW c \in Calls, Timeout(c) \/ Tick(c) \/ RunReturns(c) \/ \E p \in Partitions : Replayed(c, p) \/ PauseOver(c, p)
       PROVE  GroupInv'
  <2>1. c \in Replays /\ c \notin Subscriptions
    <3>1. c \in Replays \/ Ending(c)
      BY <1>12, Zenon DEF Timeout, Tick, RunReturns, Replayed, PauseOver, Ending
    <3>2. c \in Replays
      BY <3>1 DEF GroupInv, OnlyReplaysEnd
    <3> QED
      BY <3>2, PlanFacts DEF TypeOK
  <2>2. UNCHANGED <<plan, registry, health, up>>
    BY <1>12 DEF Timeout, Tick, RunReturns, Replayed, PauseOver
  <2>3. \E r : call' = [call EXCEPT ![c] = r] /\ r.pc \in {call[c].pc, "over", "replaying"} /\ r.healthy = call[c].healthy
    <3>1. call[c] \in Records
      BY <1>r
    <3>2. \A why \in Reasons : /\ Done(call[c], why) \in Records
                               /\ Done(call[c], why).pc = call[c].pc /\ Done(call[c], why).healthy = call[c].healthy
      BY <3>1, DoneIsRecord, Zenon DEF Records, Done
    <3>3. {"idle", "empty", "caughtUp"} \subseteq Reasons
      BY DEF Reasons
    <3>4. CASE Timeout(c)
      <4> DEFINE r == [call[c] EXCEPT !.timer = FALSE, !.conn = FALSE]
      <4>1. call' = [call EXCEPT ![c] = r]
        BY <3>4, Zenon DEF Timeout, Set
      <4>2. r.pc = call[c].pc /\ r.healthy = call[c].healthy
        BY <3>1, Zenon DEF Records
      <4> QED
        BY <4>1, <4>2, Zenon
    <3>5. CASE Tick(c)
      <4> DEFINE d == Done(call[c], "idle")
                 r == [d EXCEPT !.interval = FALSE, !.timer = TRUE]
      <4>1. call' = [call EXCEPT ![c] = r]
        BY <3>5, Zenon DEF Tick, Set
      <4>2. d \in Records /\ d.pc = call[c].pc /\ d.healthy = call[c].healthy
        BY <3>2, <3>3
      <4> HIDE DEF d
      <4>3. r.pc = d.pc /\ r.healthy = d.healthy
        BY <4>2, Zenon DEF Records
      <4> QED
        BY <4>1, <4>2, <4>3, Zenon
    <3>6. CASE RunReturns(c)
      <4> DEFINE d == Done(call[c], "empty")
                 r == [d EXCEPT !.pc = "over", !.interval = FALSE, !.conn = FALSE]
                 s == [call[c] EXCEPT !.pc = "replaying"]
      <4>1. call' = [call EXCEPT ![c] = r] \/ call' = [call EXCEPT ![c] = s]
        BY <3>6, Zenon DEF RunReturns, Set
      <4>2. d \in Records /\ d.healthy = call[c].healthy
        BY <3>2, <3>3
      <4> HIDE DEF d
      <4>3. r.pc = "over" /\ r.healthy = d.healthy /\ s.pc = "replaying" /\ s.healthy = call[c].healthy
        BY <3>1, <4>2, Zenon DEF Records
      <4> QED
        BY <4>1, <4>2, <4>3, Zenon
    <3>7. ASSUME NEW p \in Partitions, Replayed(c, p)
          PROVE  \E r : call' = [call EXCEPT ![c] = r] /\ r.pc = call[c].pc /\ r.healthy = call[c].healthy
      <4> DEFINE d == [call[c] EXCEPT !.consumed[p] = call[c].next[p] + 1]
                 r(threw) == [d EXCEPT !.interval = FALSE, !.hand[p] = IF threw THEN "rethrowing" ELSE "pausing"]
                 s(threw) == [d EXCEPT !.hand[p] = "none", !.next[p] = IF threw THEN @ ELSE @ + 1]
      <4>1. PICK threw \in BOOLEAN : call' = [call EXCEPT ![c] = IF CaughtUp(d) THEN r(threw) ELSE s(threw)]
        BY <3>7, Zenon DEF Replayed, Set
      <4>2. call[c].next[p] + 1 \in Nat
        BY <1>t DEF Typed
      <4>3. d \in Records /\ d.pc = call[c].pc /\ d.healthy = call[c].healthy
        BY <3>1, <4>2, Zenon DEF Records
      <4> HIDE DEF d
      <4>4. /\ r(threw).pc = d.pc /\ r(threw).healthy = d.healthy
            /\ s(threw).pc = d.pc /\ s(threw).healthy = d.healthy
        BY <4>3, Zenon DEF Records
      <4> HIDE DEF r, s
      <4> QED
        BY <4>1, <4>3, <4>4, Zenon
    <3>8. ASSUME NEW p \in Partitions, PauseOver(c, p)
          PROVE  \E r : call' = [call EXCEPT ![c] = r] /\ r.pc = call[c].pc /\ r.healthy = call[c].healthy
      <4> DEFINE d == Done(call[c], "caughtUp")
                 r == [d EXCEPT !.hand[p] = "none", !.timer = TRUE,
                                !.next[p] = IF call[c].hand[p] = "pausing" THEN @ + 1 ELSE @]
      <4>1. call' = [call EXCEPT ![c] = r]
        BY <3>8, Zenon DEF PauseOver, Set
      <4>2. d \in Records /\ d.pc = call[c].pc /\ d.healthy = call[c].healthy
        BY <3>2, <3>3
      <4> HIDE DEF d
      <4>3. r.pc = d.pc /\ r.healthy = d.healthy
        BY <4>2, Zenon DEF Records
      <4> QED
        BY <4>1, <4>2, <4>3, Zenon
    <3> QED
      BY <1>12, <3>4, <3>5, <3>6, <3>7, <3>8, Zenon
  <2>4. call[c].pc \notin {"deleting", "disconnecting"}
    BY <2>1 DEF GroupInv, OnlySubscriptionsLeave
  <2>5. \E r : call' = [call EXCEPT ![c] = r] /\ r.pc \notin {"deleting", "disconnecting"} /\ r.healthy = call[c].healthy
    BY <2>3, <2>4
  <2> QED
    BY <2>1, <2>2, <2>5, ReplayMoves
<1>13. ASSUME NEW c \in Calls, Replay(c) \/ Close(c) \/ RunFails(c) PROVE GroupInv'
  <2>1. c \in Replays \/ (c \in Subscriptions /\ Close(c))
    BY <1>13 DEF Replay, Close, RunFails
  <2> QED
    BY <1>9, <1>11, <1>13, <2>1
<1> QED
  BY <1>2, <1>3, <1>4, <1>5, <1>6, <1>7, <1>8, <1>10, <1>12, <1>13, SubscribeMoves, ConnectedMoves, DisconnectedMoves,
     ShutdownMoves, RestartMoves DEF Next, Proceed, InPartition, OnlySilence
---------------------------------------------------------------------------
LEMMA GroupInvariance == Spec => [](TypeOK /\ GroupInv)
<1> QED
  BY InitTypeOK, NextTypeOK, InitGroups, NextGroups, PTL DEF Spec

\* Whatever is subscribed, refused, rejected, closed or shut down, a process has at most one consumer in a group
\* (consumerGroups, eventclient-kafka.ts 28, 238-250).
THEOREM ConsumersAreAlone == Spec => []OneConsumerPerGroup
<1>1. TypeOK /\ GroupInv => OneConsumerPerGroup
  BY DEF GroupInv, OneConsumerPerGroup, ConnectedHold, HoldersAreAlone, Holds, WasConnected
<1> QED
  BY <1>1, GroupInvariance, PTL

\* The health map calls no group healthy that nobody holds (consumerGroupHealth, eventclient-kafka.ts 31-37).
THEOREM HealthIsTrue == Spec => []HealthyIsHeld
<1>1. TypeOK /\ GroupInv => HealthyIsHeld
  <2> SUFFICES ASSUME TypeOK, GroupInv, NEW g \in Groups, health[g] # NoCall, call[health[g]].healthy
               PROVE  g \in registry /\ (call[health[g]].conn \/ ~up \/ call[health[g]].pc = "rejected")
    BY Zenon DEF HealthyIsHeld
  <2>1. health[g] \in Subscriptions /\ GroupOf(health[g]) = g /\ health[g] \in Calls
    BY DEF GroupInv, HealthShowsTheGroup, Subscriptions
  <2>2. WasConnected(health[g]) /\ (call[health[g]].conn \/ ~up \/ call[health[g]].pc = "rejected")
    BY <2>1, Zenon DEF GroupInv, HealthyAreAlive
  <2>3. Holds(health[g])
    BY <2>2 DEF Holds, WasConnected
  <2> QED
    BY <2>1, <2>2, <2>3, Zenon DEF GroupInv, HoldersAreRegistered
<1> QED
  BY <1>1, GroupInvariance, PTL

---------------------------------------------------------------------------
(* Replays. Earned: of the messages a replay's record `r` has passed, and of all it began with once it says it is done, those
   that are still there (from `lo` on) are among the messages `h` its handler was through with. *)

AllBelow(lo, p, end, h) == \A o \in Nat : lo[p] <= o /\ o < end => <<p, o>> \in h
Complete(lo, r, h) == \A p \in Partitions : AllBelow(lo, p, r.high[p], h)
Waits(r, p) == r.hand[p] \in {"pausing", "rethrowing"}
Passed(lo, r, h) == \A p \in Partitions : /\ AllBelow(lo, p, r.next[p], h) /\ AllBelow(lo, p, r.consumed[p], h)
                                          /\ Waits(r, p) => <<p, r.next[p]>> \in h
Earned(lo, r, h) == /\ Passed(lo, r, h)
                    /\ (\E p \in Partitions : Waits(r, p)) \/ r.reason \in {"caughtUp", "empty"} => Complete(lo, r, h)
                    /\ r.done > 0 => r.reason # "none"

ReplayInv == \A c \in Replays : Earned(low, call[c], handled[c])

Same(r, r2) == /\ r2.next = r.next /\ r2.consumed = r.consumed /\ r2.hand = r.hand
               /\ r2.high = r.high /\ r2.reason = r.reason /\ r2.done = r.done

IsOffsets(lo) == \A p \in Partitions : lo[p] \in Nat

\* Deleting messages takes nothing away, and neither does handling more.
LEMMA EarnedStays ==
    ASSUME NEW lo, NEW lo2, IsOffsets(lo), IsOffsets(lo2), \A p \in Partitions : lo[p] <= lo2[p],
           NEW h, NEW h2, h \subseteq h2, NEW r \in Records, NEW r2 \in Records, Same(r, r2),
           Earned(lo, r, h)
    PROVE  Earned(lo2, r2, h2)
<1>1. \A p \in Partitions, end \in Nat : AllBelow(lo, p, end, h) => AllBelow(lo2, p, end, h2)
  BY DEF AllBelow, IsOffsets
<1>2. \A p \in Partitions : r.next[p] \in Nat /\ r.consumed[p] \in Nat /\ r.high[p] \in Nat
  BY DEF Records
<1>3. Passed(lo2, r2, h2)
  BY <1>1, <1>2, Zenon DEF Earned, Passed, Waits, Same
<1>4. Complete(lo, r, h) => Complete(lo2, r2, h2)
  BY <1>1, <1>2, Zenon DEF Complete, Same
<1> QED
  BY <1>3, <1>4, Zenon DEF Earned, Waits, Same

LEMMA NewIsEarned ==
    ASSUME NEW lo, IsOffsets(lo), NEW h, NEW r \in Records,
           \A p \in Partitions : r.next[p] = 0 /\ r.consumed[p] = 0 /\ r.hand[p] = "none",
           r.reason = "none", r.done = 0
    PROVE  Earned(lo, r, h)
<1>1. \A p \in Partitions : AllBelow(lo, p, 0, h)
  BY DEF AllBelow, IsOffsets
<1> QED
  BY <1>1 DEF Earned, Passed, Waits

LEMMA LowFacts ==
    ASSUME TypeOK
    PROVE  IsOffsets(low) /\ \A p \in Partitions : log[p] \in Nat /\ low[p] <= log[p]
BY PlanFacts DEF TypeOK, IsOffsets

\* It is enough to see to the call that moves.
LEMMA OneEarns ==
    ASSUME TypeOK, TypeOK', ReplayInv, plan' = plan, low' = low,
           \A d \in Calls : handled[d] \subseteq handled'[d],
           NEW c \in Calls, NEW r \in Records, call' = [call EXCEPT ![c] = r],
           c \in Replays => Earned(low, r, handled'[c])
    PROVE  ReplayInv'
<1>1. Replays' = Replays /\ Replays \subseteq Calls
  BY Zenon DEF Replays, Kind
<1> SUFFICES ASSUME NEW d \in Replays PROVE Earned(low, call'[d], handled'[d])
  BY <1>1, Zenon DEF ReplayInv
<1>2. CASE d = c
  BY <1>2, Zenon, SetCall DEF TypeOK
<1>3. CASE d # c
  <2>1. d \in Calls /\ call'[d] = call[d]
    BY <1>1, <1>3, SetCall DEF TypeOK
  <2>2. call[d] \in Records /\ IsOffsets(low) /\ Earned(low, call[d], handled[d]) /\ handled[d] \subseteq handled'[d]
    BY <2>1, LowFacts, Zenon DEF TypeOK, ReplayInv
  <2>3. \A p \in Partitions : low[p] <= low[p]
    BY <2>2 DEF IsOffsets
  <2> QED
    BY <2>1, <2>2, <2>3, EarnedStays, Zenon DEF Same
<1> QED
  BY <1>2, <1>3

\* Before its consumer is connected a call handles nothing.
Before == {"idle", "connecting", "creating", "retrying"}
Begun(r) == r.pc \notin Before
Fresh(r) == ~Begun(r) => ~r.conn /\ \A p \in Partitions : r.hand[p] = "none"
FreshInv == \A c \in Calls : Fresh(call[c])

LEMMA InitFresh == Init => FreshInv
BY DEF Init, FreshInv, Fresh, NewCall

\* A step of one call keeps it fresh if it begins, stays, or adds nothing.
LEMMA OneFresh ==
    ASSUME call \in [Calls -> Records], FreshInv, NEW c \in Calls, NEW r \in Records, call' = [call EXCEPT ![c] = r],
           \/ Begun(r)
           \/ ~Begun(call[c]) /\ (r.conn => call[c].conn) /\ r.hand = call[c].hand
           \/ ~r.conn /\ \A p \in Partitions : r.hand[p] = "none"
    PROVE  FreshInv'
<1>1. Fresh(r)
  <2>1. Fresh(call[c])
    BY DEF FreshInv
  <2> QED
    BY <2>1 DEF Fresh
<1> SUFFICES ASSUME NEW d \in Calls PROVE Fresh(call'[d])
  BY Zenon DEF FreshInv
<1>2. CASE d = c
  BY <1>1, <1>2, SetCall
<1>3. CASE d # c
  BY <1>3, SetCall DEF FreshInv
<1> QED
  BY <1>2, <1>3

LEMMA InitReplays == Init => ReplayInv
<1> SUFFICES ASSUME Init, NEW c \in Replays PROVE Earned(low, call[c], handled[c])
  BY DEF ReplayInv
<1>1. c \in Calls /\ call[c] = NewCall /\ NewCall \in Records
  BY NewCallIsRecord, Zenon DEF Init, Replays
<1>2. IsOffsets(low)
  BY InitTypeOK, LowFacts
<1>3. (\A p \in Partitions : NewCall.next[p] = 0 /\ NewCall.consumed[p] = 0 /\ NewCall.hand[p] = "none")
      /\ NewCall.reason = "none" /\ NewCall.done = 0
  BY DEF NewCall, Start
<1> QED
  BY <1>1, <1>2, <1>3, NewIsEarned

\* The steps that neither deliver, handle nor call back.
Quiet(c) == \/ Subscribe(c) \/ ExecutorFails(c) \/ TopicsCreated(c) \/ ConnectFails(c) \/ RunFails(c) \/ Timeout(c)
            \/ Close(c) \/ GroupDeleted(c) \/ Disconnected(c) \/ DisconnectFails(c)

LEMMA QuietKeeps ==
    ASSUME TypeOK, NEW c \in Calls, Quiet(c)
    PROVE  \E r \in Records : /\ call' = [call EXCEPT ![c] = r] /\ Same(call[c], r)
                              /\ Begun(r) \/ (~Begun(call[c]) /\ (r.conn => call[c].conn))
<1>1. call[c] \in Records
  BY Zenon DEF TypeOK
<1> DEFINE Later == {s \in Stages : s \notin Before \/ call[c].pc \in Before}
<1>2. \/ \E pc \in Later : Goto(c, pc)
      \/ \E pc \in Later : Set(c, [call[c] EXCEPT !.pc = pc, !.conn = FALSE])
      \/ Set(c, [call[c] EXCEPT !.timer = FALSE, !.conn = FALSE])
      \/ Set(c, [call[c] EXCEPT !.pc = "over", !.conn = FALSE, !.healthy = FALSE])
  <2>1. CASE Timeout(c) \/ Disconnected(c) \/ RunFails(c)
    BY <2>1, Zenon DEF Timeout, Disconnected, RunFails, Stages, Before
  <2>2. CASE Subscribe(c) \/ ExecutorFails(c) \/ TopicsCreated(c) \/ ConnectFails(c)
    BY <2>2, Zenon DEF Subscribe, ExecutorFails, TopicsCreated, ConnectFails, Stages, Before
  <2>3. CASE Close(c) \/ GroupDeleted(c) \/ DisconnectFails(c)
    BY <2>3, Zenon DEF Close, GroupDeleted, DisconnectFails, Stages, Before, Goto
  <2> QED
    BY <2>1, <2>2, <2>3, Zenon DEF Quiet
<1>3. ASSUME NEW pc \in Later
      PROVE  /\ [call[c] EXCEPT !.pc = pc] \in Records /\ Same(call[c], [call[c] EXCEPT !.pc = pc])
             /\ pc \notin Before \/ call[c].pc \in Before
             /\ [call[c] EXCEPT !.pc = pc].pc = pc /\ [call[c] EXCEPT !.pc = pc].conn = call[c].conn
             /\ [call[c] EXCEPT !.pc = pc, !.conn = FALSE] \in Records
             /\ Same(call[c], [call[c] EXCEPT !.pc = pc, !.conn = FALSE])
             /\ [call[c] EXCEPT !.pc = pc, !.conn = FALSE].pc = pc /\ ~[call[c] EXCEPT !.pc = pc, !.conn = FALSE].conn
  BY <1>1, Zenon DEF Records, Same
<1>4. /\ [call[c] EXCEPT !.timer = FALSE, !.conn = FALSE] \in Records
      /\ Same(call[c], [call[c] EXCEPT !.timer = FALSE, !.conn = FALSE])
      /\ [call[c] EXCEPT !.timer = FALSE, !.conn = FALSE].pc = call[c].pc
      /\ ~[call[c] EXCEPT !.timer = FALSE, !.conn = FALSE].conn
  BY <1>1, Zenon DEF Records, Same
<1>5. /\ [call[c] EXCEPT !.pc = "over", !.conn = FALSE, !.healthy = FALSE] \in Records
      /\ Same(call[c], [call[c] EXCEPT !.pc = "over", !.conn = FALSE, !.healthy = FALSE])
      /\ [call[c] EXCEPT !.pc = "over", !.conn = FALSE, !.healthy = FALSE].pc = "over"
  BY <1>1, Zenon DEF Records, Same, Stages
<1>6. "over" \notin Before
  BY DEF Before
<1> HIDE DEF Later
<1>7. CASE \E pc \in Later : Goto(c, pc)
  <2>1. PICK pc \in Later : Goto(c, pc)
    BY <1>7, Zenon
  <2> DEFINE r == [call[c] EXCEPT !.pc = pc]
  <2>2. r \in Records /\ Same(call[c], r) /\ r.pc = pc /\ r.conn = call[c].conn /\ (pc \notin Before \/ call[c].pc \in Before)
    BY <1>3, <2>1, Zenon
  <2> QED
    BY <2>1, <2>2, Zenon DEF Goto, Set, Begun
<1>8. CASE \E pc \in Later : Set(c, [call[c] EXCEPT !.pc = pc, !.conn = FALSE])
  <2>1. PICK pc \in Later : Set(c, [call[c] EXCEPT !.pc = pc, !.conn = FALSE])
    BY <1>8, Zenon
  <2> DEFINE r == [call[c] EXCEPT !.pc = pc, !.conn = FALSE]
  <2>2. r \in Records /\ Same(call[c], r) /\ r.pc = pc /\ ~r.conn /\ (pc \notin Before \/ call[c].pc \in Before)
    BY <1>3, <2>1, Zenon
  <2> QED
    BY <2>1, <2>2, Zenon DEF Set, Begun
<1>9. CASE Set(c, [call[c] EXCEPT !.timer = FALSE, !.conn = FALSE])
  BY <1>4, <1>9, Zenon DEF Set, Begun
<1>10. CASE Set(c, [call[c] EXCEPT !.pc = "over", !.conn = FALSE, !.healthy = FALSE])
  BY <1>5, <1>6, <1>10, Zenon DEF Set, Begun
<1> QED
  BY <1>2, <1>7, <1>8, <1>9, <1>10, Zenon

LEMMA QuietReplays ==
    ASSUME TypeOK, TypeOK', ReplayInv, NEW c \in Calls, Quiet(c)
    PROVE  ReplayInv'
<1>1. PICK r \in Records : call' = [call EXCEPT ![c] = r] /\ Same(call[c], r)
  BY QuietKeeps
<1>2. UNCHANGED <<plan, low, handled>>
  BY DEF Quiet, Subscribe, ExecutorFails, TopicsCreated, ConnectFails, RunFails, Timeout, Close, GroupDeleted,
         Disconnected, DisconnectFails
<1>3. c \in Replays => Earned(low, r, handled[c])
  <2>1. IsOffsets(low) /\ call[c] \in Records /\ \A p \in Partitions : low[p] <= low[p]
    BY LowFacts DEF TypeOK, IsOffsets
  <2> QED
    BY <1>1, <2>1, EarnedStays, Zenon DEF ReplayInv
<1> QED
  BY <1>1, <1>2, <1>3, OneEarns

\* onDone gives the first reason it was called with.
LEMMA DoneEarned ==
    ASSUME NEW lo, NEW h, NEW r \in Records, Earned(lo, r, h), NEW why \in Reasons \ {"none"},
           why \in {"caughtUp", "empty"} => Complete(lo, r, h)
    PROVE  Earned(lo, Done(r, why), h) /\ Done(r, why) \in Records
<1> DEFINE d == Done(r, why)
<1>1. d \in Records
  BY DoneIsRecord
<1>2. d.next = r.next /\ d.consumed = r.consumed /\ d.hand = r.hand /\ d.high = r.high
      /\ d.reason = IF r.reason = "none" THEN why ELSE r.reason
  BY Zenon DEF Done, Records
<1>3. Passed(lo, d, h) /\ (Complete(lo, r, h) => Complete(lo, d, h))
  BY <1>2, Zenon DEF Earned, Passed, Complete, Waits
<1>4. d.reason # "none"
  BY <1>2
<1> HIDE DEF d
<1>5. Earned(lo, d, h)
  BY <1>2, <1>3, <1>4, Zenon DEF Earned, Waits
<1> QED
  BY <1>1, <1>5 DEF d

LEMMA NextFresh == TypeOK /\ FreshInv /\ [Next]_vars => FreshInv'
<1> SUFFICES ASSUME TypeOK, FreshInv, [Next]_vars PROVE FreshInv'
  OBVIOUS
<1>r. call \in [Calls -> Records] /\ \A c \in Calls : call[c] \in Records
  BY DEF TypeOK
<1>1. ASSUME UNCHANGED call PROVE FreshInv'
  BY <1>1 DEF FreshInv, Fresh, Begun
<1>2. CASE Shutdown
  <2> SUFFICES ASSUME NEW c \in Calls PROVE Fresh(call'[c])
    BY Zenon DEF FreshInv
  <2>1. Fresh(call[c]) /\ call'[c] = IF c \in Subscriptions THEN [call[c] EXCEPT !.conn = FALSE] ELSE call[c]
    BY <1>2, Zenon DEF Shutdown, FreshInv
  <2>2. call'[c].pc = call[c].pc /\ call'[c].hand = call[c].hand /\ (call'[c].conn => call[c].conn)
    BY <1>r, <2>1, Zenon DEF Records
  <2> QED
    BY <2>1, <2>2, Zenon DEF Fresh, Begun
<1>3. CASE Restart
  <2> SUFFICES ASSUME NEW c \in Calls PROVE Fresh(call'[c])
    BY Zenon DEF FreshInv
  <2>1. call'[c] = IF call[c].pc = "idle" THEN NewCall ELSE [NewCall EXCEPT !.pc = "gone"]
    BY <1>3, Zenon DEF Restart
  <2> QED
    BY <2>1 DEF NewCall, Fresh
<1>4. ASSUME NEW c \in Calls, Quiet(c) PROVE FreshInv'
  <2>1. PICK r \in Records : /\ call' = [call EXCEPT ![c] = r] /\ Same(call[c], r)
                             /\ Begun(r) \/ (~Begun(call[c]) /\ (r.conn => call[c].conn))
    BY <1>4, QuietKeeps
  <2> QED
    BY <1>r, <2>1, OneFresh, Zenon DEF Same
<1>5. ASSUME NEW c \in Calls, NEW r \in Records, call' = [call EXCEPT ![c] = r], r.pc = call[c].pc, Begun(call[c])
      PROVE  FreshInv'
  BY <1>r, <1>5, OneFresh, Zenon DEF Begun
<1>6. ASSUME NEW c \in Calls, NEW p \in Partitions, InPartition(c, p) PROVE FreshInv'
  <2>1. Begun(call[c])
    <3>1. call[c].conn \/ call[c].hand[p] \in {"handling", "pausing", "rethrowing"}
      BY <1>6, Zenon DEF InPartition, Deliver, Handled, Replayed, PauseOver
    <3>2. Fresh(call[c])
      BY DEF FreshInv
    <3> QED
      BY <3>1, <3>2 DEF Fresh
  <2>2. Ahead(c, p) \in Nat /\ call[c].next[p] \in Nat /\ call[c].next[p] + 1 \in Nat
    BY TypedFacts, LowFacts DEF Typed, Ahead, IsOffsets
  <2>3. CASE Deliver(c, p)
    <3> DEFINE r == [call[c] EXCEPT !.hand[p] = "handling", !.next[p] = Ahead(c, p)]
    <3>1. r \in Records
      BY <1>r, <2>2, MessageIsRecord, Zenon DEF Hands
    <3>2. r.pc = call[c].pc
      BY <1>r, Zenon DEF Records
    <3>3. call' = [call EXCEPT ![c] = r]
      BY <2>3, Zenon DEF Deliver, Set
    <3> QED
      BY <1>5, <2>1, <3>1, <3>2, <3>3, Zenon
  <2>4. CASE Handled(c, p)
    <3> DEFINE r == [call[c] EXCEPT !.hand[p] = "none", !.next[p] = @ + 1]
    <3>1. r \in Records
      BY <1>r, <2>2, MessageIsRecord, Zenon DEF Hands
    <3>2. r.pc = call[c].pc
      BY <1>r, Zenon DEF Records
    <3>3. call' = [call EXCEPT ![c] = r]
      BY <2>4, Zenon DEF Handled, Set
    <3> QED
      BY <1>5, <2>1, <3>1, <3>2, <3>3, Zenon
  <2>5. CASE PauseOver(c, p)
    <3> DEFINE d == Done(call[c], "caughtUp")
               next == IF call[c].hand[p] = "pausing" THEN call[c].next[p] + 1 ELSE call[c].next[p]
               r == [d EXCEPT !.hand[p] = "none", !.timer = TRUE, !.next[p] = next]
    <3>1. d \in Records /\ d.pc = call[c].pc /\ d.next = call[c].next
      BY <1>r, DoneIsRecord, Zenon DEF Reasons, Done, Records
    <3>2. call' = [call EXCEPT ![c] = r]
      <4>1. call' = [call EXCEPT ![c] = [d EXCEPT !.hand[p] = "none", !.timer = TRUE,
                                          !.next[p] = IF call[c].hand[p] = "pausing" THEN d.next[p] + 1 ELSE d.next[p]]]
        BY <2>5, Zenon DEF PauseOver, Set
      <4> QED
        BY <3>1, <4>1, Zenon
    <3>3. next \in Nat
      BY <2>2
    <3> HIDE DEF d, next
    <3>4. r \in Records
      BY <3>1, <3>3, MessageIsRecord, Zenon DEF Hands
    <3>5. r.pc = d.pc
      BY <3>1, Zenon DEF Records
    <3> HIDE DEF r
    <3> QED
      BY <1>5, <2>1, <3>1, <3>2, <3>4, <3>5, Zenon
  <2>6. CASE Replayed(c, p)
    <3> DEFINE m == [call[c] EXCEPT !.consumed[p] = call[c].next[p] + 1]
               paused(threw) == [m EXCEPT !.interval = FALSE, !.hand[p] = IF threw THEN "rethrowing" ELSE "pausing"]
               on(threw) == [m EXCEPT !.hand[p] = "none", !.next[p] = IF threw THEN @ ELSE @ + 1]
    <3>1. PICK threw \in BOOLEAN : call' = [call EXCEPT ![c] = IF CaughtUp(m) THEN paused(threw) ELSE on(threw)]
      BY <2>6, Zenon DEF Replayed, Set
    <3>2. m \in Records /\ m.pc = call[c].pc /\ m.next = call[c].next
      BY <1>r, <2>2, Zenon DEF Records
    <3> HIDE DEF m
    <3>3. paused(threw) \in Records /\ paused(threw).pc = m.pc
      BY <3>2, Zenon DEF Records, Hands
    <3>4. on(threw) \in Records /\ on(threw).pc = m.pc
      BY <2>2, <3>2, Zenon DEF Records, Hands
    <3> HIDE DEF paused, on
    <3> QED
      BY <1>5, <2>1, <3>1, <3>2, <3>3, <3>4, Zenon
  <2> QED
    BY <1>6, <2>3, <2>4, <2>5, <2>6 DEF InPartition
<1>7. ASSUME NEW c \in Calls, Replay(c) PROVE FreshInv'
  <2> DEFINE r == [NewCall EXCEPT !.pc = "connecting", !.high = log]
             s == [call[c] EXCEPT !.pc = "rejected"]
  <2>1. r \in Records /\ s \in Records
    BY <1>r, TypedFacts, NewCallIsRecord, Zenon DEF Typed, Records, Stages
  <2>2. Begun(s) /\ ~r.conn /\ \A p \in Partitions : r.hand[p] = "none"
    BY <1>r DEF Begun, Before, NewCall, Records
  <2>3. call' = [call EXCEPT ![c] = r] \/ call' = [call EXCEPT ![c] = s]
    BY <1>7, Zenon DEF Replay, Goto, Set
  <2> HIDE DEF r, s
  <2> QED
    BY <1>r, <2>1, <2>2, <2>3, OneFresh, Zenon
<1>8. ASSUME NEW c \in Calls, Connected(c) PROVE FreshInv'
  <2> DEFINE r == [call[c] EXCEPT !.pc = "running", !.conn = TRUE, !.next = Position(c),
                                  !.healthy = c \in Subscriptions, !.interval = c \in Replays]
  <2>1. Position(c) \in [Partitions -> Nat]
    BY TypedFacts DEF Typed, Position
  <2>2. (c \in Subscriptions) \in BOOLEAN /\ (c \in Replays) \in BOOLEAN
    OBVIOUS
  <2>3. r \in Records
    BY <1>r, <2>1, <2>2, ConnectedIsRecord, Zenon
  <2>4. r.pc = "running"
    BY <1>r, Zenon DEF Records
  <2>5. call' = [call EXCEPT ![c] = r]
    BY <1>8, Zenon DEF Connected, Set
  <2> HIDE DEF r
  <2>6. Begun(r)
    BY <2>4 DEF Begun, Before
  <2> QED
    BY <1>r, <2>3, <2>5, <2>6, OneFresh, Zenon
<1>9. ASSUME NEW c \in Calls, Tick(c) \/ RunReturns(c) PROVE FreshInv'
  <2> DEFINE idle == Done(call[c], "idle")
             empty == Done(call[c], "empty")
             ticked == [idle EXCEPT !.interval = FALSE, !.timer = TRUE]
             over == [empty EXCEPT !.pc = "over", !.interval = FALSE, !.conn = FALSE]
             running == [call[c] EXCEPT !.pc = "replaying"]
  <2>1. /\ idle \in Records /\ empty \in Records
        /\ idle.pc = call[c].pc /\ idle.conn = call[c].conn /\ idle.hand = call[c].hand
    <3>1. idle \in Records /\ empty \in Records
      BY <1>r, DoneIsRecord, Zenon DEF Reasons
    <3>2. idle.pc = call[c].pc /\ idle.conn = call[c].conn /\ idle.hand = call[c].hand
      BY <1>r, Zenon DEF Done, Records
    <3> QED
      BY <3>1, <3>2
  <2>2. call' = [call EXCEPT ![c] = ticked] \/ call' = [call EXCEPT ![c] = over] \/ call' = [call EXCEPT ![c] = running]
    BY <1>9, Zenon DEF Tick, RunReturns, Set
  <2> HIDE DEF idle, empty
  <2>3. ticked \in Records /\ ticked.pc = idle.pc /\ ticked.conn = idle.conn /\ ticked.hand = idle.hand
    BY <2>1, Zenon DEF Records
  <2>4. over \in Records /\ running \in Records /\ over.pc = "over" /\ running.pc = "replaying"
    BY <1>r, <2>1, Zenon DEF Records, Stages
  <2> HIDE DEF ticked, over, running
  <2>5. Begun(over) /\ Begun(running)
    BY <2>4 DEF Begun, Before
  <2>6. Begun(ticked) \/ (~Begun(call[c]) /\ (ticked.conn => call[c].conn) /\ ticked.hand = call[c].hand)
    BY <2>1, <2>3, Zenon DEF Begun
  <2> QED
    BY <1>r, <2>2, <2>3, <2>4, <2>5, <2>6, OneFresh, Zenon
<1> QED
  BY <1>1, <1>2, <1>3, <1>4, <1>6, <1>7, <1>8, <1>9 DEF Next, Proceed, Quiet, vars, Emit, Clear, Commit,
     TenSecondsPass, Further

LEMMA EndReplays ==
    ASSUME TypeOK, TypeOK', ReplayInv, NEW c \in Calls, Tick(c) \/ RunReturns(c)
    PROVE  ReplayInv'
<1> DEFINE idle == Done(call[c], "idle")
           empty == Done(call[c], "empty")
<1>1. call[c] \in Records /\ IsOffsets(low) /\ \A p \in Partitions : low[p] <= low[p]
  BY LowFacts DEF TypeOK, IsOffsets
<1>2. UNCHANGED <<plan, low, handled>>
  BY DEF Tick, RunReturns
<1>3. ASSUME c \in Replays PROVE Earned(low, call[c], handled[c])
  BY <1>3 DEF ReplayInv
<1>4. idle \in Records /\ empty \in Records
  BY <1>1, DoneIsRecord, Zenon DEF Reasons
<1>5. CASE Tick(c)
  <2>1. c \in Replays => Earned(low, idle, handled[c])
    BY <1>1, <1>3, DoneEarned, Zenon DEF Reasons
  <2> HIDE DEF idle
  <2> DEFINE r == [idle EXCEPT !.interval = FALSE, !.timer = TRUE]
  <2>2. r \in Records /\ Same(idle, r)
    BY <1>4, Zenon DEF Records, Same
  <2>3. call' = [call EXCEPT ![c] = r]
    BY <1>5, Zenon DEF Tick, Set, idle
  <2> HIDE DEF r
  <2>4. c \in Replays => Earned(low, r, handled[c])
    BY <1>1, <1>4, <2>1, <2>2, EarnedStays, Zenon
  <2> QED
    BY <1>2, <2>2, <2>3, <2>4, OneEarns
<1>6. CASE RunReturns(c) /\ \A p \in Partitions : call[c].high[p] = 0
  <2>1. c \in Replays
    BY <1>6 DEF RunReturns
  <2>2. Complete(low, call[c], handled[c])
    BY <1>1, <1>6 DEF Complete, AllBelow, IsOffsets
  <2>3. Earned(low, empty, handled[c])
    BY <1>1, <1>3, <2>1, <2>2, DoneEarned, Zenon DEF Reasons
  <2> HIDE DEF empty
  <2> DEFINE r == [empty EXCEPT !.pc = "over", !.interval = FALSE, !.conn = FALSE]
  <2>4. r \in Records /\ Same(empty, r)
    BY <1>4, Zenon DEF Records, Same, Stages
  <2>5. call' = [call EXCEPT ![c] = r]
    BY <1>6, Zenon DEF RunReturns, Set, empty
  <2> HIDE DEF r
  <2>6. Earned(low, r, handled[c])
    BY <1>1, <1>4, <2>3, <2>4, EarnedStays, Zenon
  <2> QED
    BY <1>2, <2>4, <2>5, <2>6, OneEarns
<1>7. CASE RunReturns(c) /\ ~\A p \in Partitions : call[c].high[p] = 0
  <2> DEFINE r == [call[c] EXCEPT !.pc = "replaying"]
  <2>1. r \in Records /\ Same(call[c], r)
    BY <1>1, Zenon DEF Records, Same, Stages
  <2>2. call' = [call EXCEPT ![c] = r]
    BY <1>7, Zenon DEF RunReturns, Set
  <2> HIDE DEF r
  <2>3. c \in Replays => Earned(low, r, handled[c])
    BY <1>1, <1>3, <2>1, EarnedStays, Zenon
  <2> QED
    BY <1>2, <2>1, <2>2, <2>3, OneEarns
<1> QED
  BY <1>5, <1>6, <1>7

\* onDone from inside eachMessage: all partitions have caught up, and the message that found it has been handled.
LEMMA PauseReplays ==
    ASSUME TypeOK, TypeOK', ReplayInv, NEW c \in Calls, NEW p \in Partitions, PauseOver(c, p)
    PROVE  ReplayInv'
<1> DEFINE d == Done(call[c], "caughtUp")
           next == IF call[c].hand[p] = "pausing" THEN call[c].next[p] + 1 ELSE call[c].next[p]
           r == [d EXCEPT !.hand[p] = "none", !.timer = TRUE, !.next[p] = next]
<1>1. call[c] \in Records /\ IsOffsets(low)
  BY LowFacts, Zenon DEF TypeOK
<1>2. UNCHANGED <<plan, low, handled>> /\ Waits(call[c], p)
  BY DEF PauseOver, Waits
<1>3. d \in Records /\ d.next = call[c].next /\ d.hand = call[c].hand
  BY <1>1, DoneIsRecord, Zenon DEF Reasons, Done, Records
<1>4. call[c].next[p] \in Nat /\ next \in Nat
  BY <1>1 DEF Records
<1>5. call' = [call EXCEPT ![c] = r]
  <2>1. call' = [call EXCEPT ![c] = [d EXCEPT !.hand[p] = "none", !.timer = TRUE,
                                              !.next[p] = IF call[c].hand[p] = "pausing" THEN d.next[p] + 1 ELSE d.next[p]]]
    BY Zenon DEF PauseOver, Set
  <2> QED
    BY <1>3, <2>1, Zenon
<1>6. ASSUME c \in Replays PROVE Earned(low, r, handled[c])
  <2>1. Earned(low, call[c], handled[c]) /\ Complete(low, call[c], handled[c])
    BY <1>2, <1>6, Zenon DEF ReplayInv, Earned
  <2>2. Earned(low, d, handled[c])
    BY <1>1, <2>1, DoneEarned, Zenon DEF Reasons
  <2>3. Complete(low, d, handled[c])
    BY <1>1, <2>1, Zenon DEF Complete, Done, Records
  <2>4. AllBelow(low, p, next, handled[c])
    <3>1. AllBelow(low, p, call[c].next[p], handled[c]) /\ <<p, call[c].next[p]>> \in handled[c]
      BY <1>2, <2>1, Zenon DEF Earned, Passed
    <3> QED
      BY <1>1, <1>4, <3>1 DEF AllBelow, IsOffsets
  <2> HIDE DEF d, next
  <2>5. /\ r.consumed = d.consumed /\ r.high = d.high /\ r.reason = d.reason /\ r.done = d.done
        /\ \A q \in Partitions : /\ r.next[q] = IF q = p THEN next ELSE d.next[q]
                                 /\ r.hand[q] = IF q = p THEN "none" ELSE d.hand[q]
    BY <1>3, Zenon DEF Records
  <2> HIDE DEF r
  <2>6. Passed(low, r, handled[c])
    BY <2>2, <2>4, <2>5 DEF Earned, Passed, Waits
  <2>7. Complete(low, r, handled[c])
    BY <2>3, <2>5, Zenon DEF Complete
  <2> QED
    BY <2>2, <2>5, <2>6, <2>7, Zenon DEF Earned
<1>7. r \in Records
  <2> HIDE DEF d, next
  <2> QED
    BY <1>3, <1>4, MessageIsRecord, Zenon DEF Hands
<1> HIDE DEF r
<1> QED
  BY <1>2, <1>5, <1>6, <1>7, OneEarns

LEMMA DeliverReplays ==
    ASSUME TypeOK, TypeOK', ReplayInv, NEW c \in Calls, NEW p \in Partitions, Deliver(c, p)
    PROVE  ReplayInv'
<1> DEFINE r == [call[c] EXCEPT !.hand[p] = "handling", !.next[p] = Ahead(c, p)]
<1>1. call[c] \in Records /\ IsOffsets(low) /\ call[c].next[p] \in Nat
  BY LowFacts, TypedFacts, Zenon DEF TypeOK, Typed
<1>2. UNCHANGED <<plan, low, handled>> /\ call' = [call EXCEPT ![c] = r]
  BY Zenon DEF Deliver, Set
<1>3. Ahead(c, p) \in Nat
  BY <1>1 DEF Ahead, IsOffsets
<1>4. r \in Records
  BY <1>1, <1>3, MessageIsRecord, Zenon DEF Hands
<1>5. /\ r.consumed = call[c].consumed /\ r.high = call[c].high /\ r.reason = call[c].reason /\ r.done = call[c].done
      /\ \A q \in Partitions : /\ r.next[q] = IF q = p THEN Ahead(c, p) ELSE call[c].next[q]
                               /\ r.hand[q] = IF q = p THEN "handling" ELSE call[c].hand[q]
  BY <1>1, Zenon DEF Records
<1> HIDE DEF r
<1>6. ASSUME c \in Replays PROVE Earned(low, r, handled[c])
  <2>1. Earned(low, call[c], handled[c])
    BY <1>6, Zenon DEF ReplayInv
  <2>2. AllBelow(low, p, call[c].next[p], handled[c])
    BY <2>1, Zenon DEF Earned, Passed
  <2>3. AllBelow(low, p, Ahead(c, p), handled[c])
    BY <1>1, <2>2 DEF AllBelow, Ahead, IsOffsets
  <2>4. Passed(low, r, handled[c])
    BY <1>5, <2>1, <2>3 DEF Earned, Passed, Waits
  <2>5. Complete(low, call[c], handled[c]) => Complete(low, r, handled[c])
    BY <1>5, Zenon DEF Complete
  <2>6. \A q \in Partitions : Waits(r, q) => Waits(call[c], q)
    BY <1>5 DEF Waits
  <2> QED
    BY <1>5, <2>1, <2>4, <2>5, <2>6, Zenon DEF Earned
<1> QED
  BY <1>2, <1>4, <1>6, OneEarns

\* What eachMessage of a replay makes of the record: the message is handled, its offset noted, and if that was the last one
\* the pause begins.
LEMMA ReplayedReplays ==
    ASSUME TypeOK, TypeOK', ReplayInv, NEW c \in Calls, NEW p \in Partitions, Replayed(c, p)
    PROVE  ReplayInv'
<1> DEFINE n == call[c].next[p]
           m == [call[c] EXCEPT !.consumed[p] = n + 1]
           paused(threw) == [m EXCEPT !.interval = FALSE, !.hand[p] = IF threw THEN "rethrowing" ELSE "pausing"]
           on(threw) == [m EXCEPT !.hand[p] = "none", !.next[p] = IF threw THEN @ ELSE @ + 1]
<1>1. call[c] \in Records /\ IsOffsets(low) /\ n \in Nat /\ n + 1 \in Nat
  BY LowFacts, TypedFacts, Zenon DEF TypeOK, Typed
<1>2. UNCHANGED <<plan, low>> /\ c \in Replays /\ Through(c, p)
  BY Zenon DEF Replayed
<1>3. handled \in [Calls -> SUBSET (Partitions \X Nat)] /\ handled' = [handled EXCEPT ![c] = @ \cup {<<p, n>>}]
  BY <1>2, Zenon DEF TypeOK, Through
<1>4. /\ handled'[c] = handled[c] \cup {<<p, n>>}
      /\ \A d \in Calls : handled[d] \subseteq handled'[d]
  BY <1>3
<1>5. PICK threw \in BOOLEAN : call' = [call EXCEPT ![c] = IF CaughtUp(m) THEN paused(threw) ELSE on(threw)]
  BY Zenon DEF Replayed, Set
<1>6. m \in Records /\ \A q \in Partitions : m.consumed[q] = IF q = p THEN n + 1 ELSE call[c].consumed[q]
  BY <1>1, Zenon DEF Records
<1>7. /\ m.next = call[c].next /\ m.hand = call[c].hand /\ m.high = call[c].high
      /\ m.reason = call[c].reason /\ m.done = call[c].done
  BY <1>1, Zenon DEF Records
<1>8. Earned(low, call[c], handled[c])
  BY <1>2, Zenon DEF ReplayInv
<1>9. \A q \in Partitions : /\ AllBelow(low, q, call[c].next[q], handled'[c]) /\ AllBelow(low, q, call[c].consumed[q], handled'[c])
                            /\ AllBelow(low, q, call[c].high[q], handled[c]) => AllBelow(low, q, call[c].high[q], handled'[c])
                            /\ Waits(call[c], q) => <<q, call[c].next[q]>> \in handled'[c]
  BY <1>4, <1>8 DEF Earned, Passed, AllBelow
<1>10. AllBelow(low, p, n + 1, handled'[c]) /\ <<p, n>> \in handled'[c]
  <2> DEFINE h == handled'[c]
  <2>1. <<p, n>> \in h /\ AllBelow(low, p, n, h)
    BY <1>4, <1>9
  <2>2. n \in Nat /\ low[p] \in Nat
    BY <1>1 DEF IsOffsets
  <2> HIDE DEF h, n
  <2>3. AllBelow(low, p, n + 1, h)
    BY <2>1, <2>2 DEF AllBelow
  <2> QED
    BY <2>1, <2>3 DEF h
<1>11. Complete(low, call[c], handled[c]) => Complete(low, call[c], handled'[c])
  BY <1>9, Zenon DEF Complete
<1>12. \A q \in Partitions : AllBelow(low, q, m.next[q], handled'[c]) /\ AllBelow(low, q, m.consumed[q], handled'[c])
  BY <1>6, <1>7, <1>9, <1>10
<1> HIDE DEF m
<1>13. CASE CaughtUp(m)
  <2> DEFINE r == paused(threw)
  <2>1. r \in Records
    BY <1>6, MessageIsRecord, Zenon DEF Hands
  <2>2. call' = [call EXCEPT ![c] = r]
    BY <1>5, <1>13
  <2>3. /\ r.next = m.next /\ r.consumed = m.consumed /\ r.high = m.high /\ r.reason = m.reason /\ r.done = m.done
        /\ \A q \in Partitions : q # p => r.hand[q] = m.hand[q]
    BY <1>6, Zenon DEF Records
  <2> HIDE DEF r
  <2>4. \A q \in Partitions : m.high[q] \in Nat /\ m.consumed[q] \in Nat /\ low[q] \in Nat
    BY <1>1, <1>6 DEF Records, IsOffsets
  <2>5. Complete(low, r, handled'[c])
    BY <1>12, <1>13, <2>3, <2>4 DEF Complete, CaughtUp, AllBelow
  <2>6. Passed(low, r, handled'[c])
    <3>1. \A q \in Partitions : Waits(r, q) => <<q, r.next[q]>> \in handled'[c]
      BY <1>7, <1>9, <1>10, <2>3 DEF Waits
    <3> QED
      BY <1>12, <2>3, <3>1, Zenon DEF Passed
  <2>7. Earned(low, r, handled'[c])
    BY <1>7, <1>8, <2>3, <2>5, <2>6, Zenon DEF Earned
  <2> QED
    BY <1>2, <1>4, <2>1, <2>2, <2>7, OneEarns
<1>14. CASE ~CaughtUp(m)
  <2> DEFINE next == IF threw THEN n ELSE n + 1
             r == [m EXCEPT !.hand[p] = "none", !.next[p] = next]
  <2>1. next \in Nat
    BY <1>1
  <2>2. on(threw) = r
    BY <1>7, Zenon
  <2>3. r \in Records
    <3> HIDE DEF next
    <3> QED
      BY <1>6, <2>1, MessageIsRecord, Zenon DEF Hands
  <2>4. call' = [call EXCEPT ![c] = r]
    BY <1>5, <1>14, <2>2
  <2>5. /\ r.consumed = m.consumed /\ r.high = m.high /\ r.reason = m.reason /\ r.done = m.done
        /\ \A q \in Partitions : /\ r.next[q] = IF q = p THEN next ELSE m.next[q]
                                 /\ r.hand[q] = IF q = p THEN "none" ELSE m.hand[q]
    BY <1>6, Zenon DEF Records
  <2>6. AllBelow(low, p, next, handled'[c])
    BY <1>9, <1>10
  <2> HIDE DEF r, next
  <2>7. Passed(low, r, handled'[c])
    BY <1>7, <1>9, <1>12, <2>5, <2>6 DEF Passed, Waits
  <2>8. Complete(low, call[c], handled'[c]) => Complete(low, r, handled'[c])
    BY <1>7, <2>5, Zenon DEF Complete
  <2>9. \A q \in Partitions : Waits(r, q) => Waits(call[c], q)
    BY <1>7, <2>5 DEF Waits
  <2>10. Earned(low, r, handled'[c])
    BY <1>7, <1>8, <1>11, <2>5, <2>7, <2>8, <2>9, Zenon DEF Earned
  <2> QED
    BY <1>2, <1>4, <2>3, <2>4, <2>10, OneEarns
<1> QED
  BY <1>13, <1>14

LEMMA NextReplays == TypeOK /\ TypeOK' /\ FreshInv /\ ReplayInv /\ [Next]_vars => ReplayInv'
<1> SUFFICES ASSUME TypeOK, TypeOK', FreshInv, ReplayInv, [Next]_vars PROVE ReplayInv'
  OBVIOUS
<1>r. /\ call \in [Calls -> Records] /\ \A c \in Calls : call[c] \in Records
      /\ IsOffsets(low) /\ IsOffsets(low)' /\ \A p \in Partitions : low[p] <= low[p]
  BY LowFacts DEF TypeOK, IsOffsets
<1>1. ASSUME UNCHANGED <<plan, call, handled>>, \A p \in Partitions : low[p] <= low'[p] PROVE ReplayInv'
  <2>1. Replays' = Replays /\ Replays \subseteq Calls
    BY <1>1, Zenon DEF Replays, Kind
  <2> SUFFICES ASSUME NEW c \in Replays PROVE Earned(low', call[c], handled[c])
    BY <1>1, <2>1, Zenon DEF ReplayInv
  <2>2. call[c] \in Records /\ Earned(low, call[c], handled[c]) /\ IsOffsets(low')
    BY <1>r, <2>1, Zenon DEF ReplayInv, IsOffsets
  <2> QED
    BY <1>1, <1>r, <2>2, EarnedStays, Zenon DEF Same
<1>2. ASSUME UNCHANGED vars \/ (\E p \in Partitions : Emit(p)) \/ (\E c \in Calls : Commit(c) \/ OnlySilence(c)) PROVE ReplayInv'
  <2>1. UNCHANGED <<plan, low, call, handled>>
    BY <1>2 DEF vars, Emit, Commit, OnlySilence, TenSecondsPass, Further
  <2> QED
    BY <1>1, <1>r, <2>1
<1>3. CASE Clear
  <2>1. UNCHANGED <<plan, call, handled>> /\ \A p \in Partitions : low[p] <= low'[p]
    BY <1>3, LowFacts DEF Clear
  <2> QED
    BY <1>1, <2>1
<1>4. CASE Shutdown
  <2>1. Replays' = Replays /\ Replays \subseteq Calls /\ UNCHANGED <<low, handled>>
    BY <1>4, Zenon DEF Shutdown, Replays, Kind
  <2> SUFFICES ASSUME NEW c \in Replays PROVE Earned(low, call'[c], handled[c])
    BY <2>1, Zenon DEF ReplayInv
  <2>2. c \in Calls /\ c \notin Subscriptions
    BY <2>1, PlanFacts DEF TypeOK
  <2>3. call'[c] = call[c]
    BY <1>4, <2>2, Zenon DEF Shutdown
  <2> QED
    BY <2>3, Zenon DEF ReplayInv
<1>5. CASE Restart
  <2>1. Replays' = Replays /\ Replays \subseteq Calls /\ UNCHANGED <<low, handled>>
    BY <1>5, Zenon DEF Restart, Replays, Kind
  <2> SUFFICES ASSUME NEW c \in Replays PROVE Earned(low, call'[c], handled[c])
    BY <2>1, Zenon DEF ReplayInv
  <2>2. call'[c] = IF call[c].pc = "idle" THEN NewCall ELSE [NewCall EXCEPT !.pc = "gone"]
    BY <1>5, <2>1, Zenon DEF Restart
  <2>3. call'[c] \in Records
    BY <2>2, NewCallIsRecord, Zenon
  <2>4. /\ \A p \in Partitions : call'[c].next[p] = 0 /\ call'[c].consumed[p] = 0 /\ call'[c].hand[p] = "none"
        /\ call'[c].reason = "none" /\ call'[c].done = 0
    BY <2>2 DEF NewCall, Start
  <2> QED
    BY <1>r, <2>3, <2>4, NewIsEarned
<1>6. ASSUME NEW c \in Calls, NEW p \in Partitions, Handled(c, p) PROVE ReplayInv'
  <2> DEFINE r == [call[c] EXCEPT !.hand[p] = "none", !.next[p] = @ + 1]
  <2>1. r \in Records
    BY <1>r, TypedFacts, MessageIsRecord, Zenon DEF Typed, Hands
  <2>2. call' = [call EXCEPT ![c] = r] /\ c \notin Replays /\ UNCHANGED <<plan, low>>
    BY <1>6, PlanFacts, Zenon DEF Handled, Set, TypeOK
  <2>3. \A d \in Calls : handled[d] \subseteq handled'[d]
    BY <1>6 DEF Handled, Through, TypeOK
  <2> HIDE DEF r
  <2> QED
    BY <2>1, <2>2, <2>3, OneEarns
<1>7. ASSUME NEW c \in Calls, Replay(c) PROVE ReplayInv'
  <2> DEFINE r == [NewCall EXCEPT !.pc = "connecting", !.high = log]
             s == [call[c] EXCEPT !.pc = "rejected"]
  <2>1. UNCHANGED <<plan, low, handled>> /\ c \in Replays
    BY <1>7 DEF Replay
  <2>2. CASE Set(c, r)
    <3>1. r \in Records
      BY <1>r, TypedFacts, NewCallIsRecord, Zenon DEF Typed
    <3>2. /\ \A p \in Partitions : r.next[p] = 0 /\ r.consumed[p] = 0 /\ r.hand[p] = "none"
          /\ r.reason = "none" /\ r.done = 0
      BY DEF NewCall, Start
    <3> HIDE DEF r
    <3>3. Earned(low, r, handled'[c])
      BY <1>r, <3>1, <3>2, NewIsEarned
    <3> QED
      BY <2>1, <2>2, <3>1, <3>3, OneEarns DEF Set
  <2>3. CASE Set(c, s)
    <3>1. s \in Records /\ Same(call[c], s)
      BY <1>r, Zenon DEF Records, Same, Stages
    <3> HIDE DEF s
    <3>2. Earned(low, s, handled[c])
      BY <1>r, <2>1, <3>1, EarnedStays, Zenon DEF ReplayInv
    <3> QED
      BY <2>1, <2>3, <3>1, <3>2, OneEarns DEF Set
  <2> QED
    BY <1>7, <2>2, <2>3, Zenon DEF Replay, Goto
<1>8. ASSUME NEW c \in Calls, Connected(c) PROVE ReplayInv'
  <2> DEFINE r == [call[c] EXCEPT !.pc = "running", !.conn = TRUE, !.next = Position(c),
                                  !.healthy = c \in Subscriptions, !.interval = c \in Replays]
  <2>1. UNCHANGED <<plan, low, handled>> /\ call' = [call EXCEPT ![c] = r]
    BY <1>8, Zenon DEF Connected, Set
  <2>2. r \in Records
    <3>1. Position(c) \in [Partitions -> Nat]
      BY TypedFacts DEF Typed, Position
    <3>2. (c \in Subscriptions) \in BOOLEAN /\ (c \in Replays) \in BOOLEAN
      OBVIOUS
    <3> QED
      BY <1>r, <3>1, <3>2, ConnectedIsRecord, Zenon
  <2>3. /\ r.consumed = call[c].consumed /\ r.high = call[c].high /\ r.hand = call[c].hand
        /\ r.reason = call[c].reason /\ r.done = call[c].done /\ r.next = Position(c)
    BY <1>r, Zenon DEF Records
  <2> HIDE DEF r
  <2>4. ASSUME c \in Replays PROVE Earned(low, r, handled[c])
    <3>1. \A p \in Partitions : r.next[p] = 0
      BY <2>3, <2>4 DEF Position, Replays
    <3>2. Earned(low, call[c], handled[c])
      BY <2>4, Zenon DEF ReplayInv
    <3>3. \A p \in Partitions : ~Waits(r, p)
      <4>1. Fresh(call[c]) /\ ~Begun(call[c])
        BY <1>8 DEF FreshInv, Connected, Begun, Before
      <4> QED
        BY <2>3, <4>1 DEF Fresh, Waits
    <3>4. Passed(low, r, handled[c])
      <4>1. \A p \in Partitions : AllBelow(low, p, 0, handled[c])
        BY <1>r DEF AllBelow, IsOffsets
      <4> QED
        BY <2>3, <3>1, <3>2, <3>3, <4>1, Zenon DEF Earned, Passed
    <3> QED
      BY <2>3, <3>2, <3>3, <3>4, Zenon DEF Earned, Complete
  <2> QED
    BY <2>1, <2>2, <2>4, OneEarns
<1> QED
  BY <1>2, <1>3, <1>4, <1>5, <1>6, <1>7, <1>8, QuietReplays, EndReplays, PauseReplays, DeliverReplays, ReplayedReplays
  DEF Next, Proceed, InPartition, Quiet, OnlySilence

\* A replay that says it has caught up, or that there was nothing to replay, has handed its handler every message it began
\* with that is still there, whatever fails, is trimmed or is closed meanwhile (allCaughtUp, eventclient-kafka.ts 478-540).
THEOREM DoneIsTrue == Spec => []DoneIsEarned
<1>1. TypeOK /\ ReplayInv => DoneIsEarned
  <2> SUFFICES ASSUME TypeOK, ReplayInv, NEW c \in Replays, call[c].done > 0 /\ call[c].reason # "idle"
               PROVE  Complete(low, call[c], handled[c])
    BY PlanFacts DEF DoneIsEarned, Complete, AllBelow, TypeOK
  <2>1. call[c].reason \in Reasons
    BY Zenon DEF TypeOK, Records, Replays
  <2> QED
    BY <2>1 DEF ReplayInv, Earned, Reasons
<1> QED
  BY <1>1, InitTypeOK, NextTypeOK, InitFresh, NextFresh, InitReplays, NextReplays, PTL DEF Spec

---------------------------------------------------------------------------
(* Offsets of groups whose subscriptions are all coldHot. *)

OnlyColdHot(g) == \A c \in Subscriptions : GroupOf(c) = g => Kind(c) = "coldHot"
CommittedAreHandled == \A g \in Groups : OnlyColdHot(g) =>
                           \A p \in Partitions : AllBelow(low, p, committed[g][p], HandledIn(g))
Behind(c) == \A p \in Partitions : AllBelow(low, p, call[c].next[p], HandledIn(GroupOf(c)))
PassedAreHandled == \A c \in Subscriptions : OnlyColdHot(GroupOf(c)) => Behind(c)
OffsetsInv == CommittedAreHandled /\ PassedAreHandled

LEMMA HandledInGroup ==
    \A g, m : m \in HandledIn(g) <=> \E c \in Subscriptions : GroupOf(c) = g /\ m \in handled[c]
BY DEF HandledIn

LEMMA GroupsKept ==
    ASSUME plan' = plan, TypeOK, \A c \in Calls : handled[c] \subseteq handled'[c]
    PROVE  /\ Subscriptions' = Subscriptions /\ Subscriptions \subseteq Calls
           /\ \A c \in Calls : GroupOf(c)' = GroupOf(c) /\ Kind(c)' = Kind(c)
           /\ \A g : OnlyColdHot(g)' = OnlyColdHot(g)
           /\ \A g : HandledIn(g) \subseteq HandledIn(g)'
<1>1. Subscriptions' = Subscriptions /\ Subscriptions \subseteq Calls
  BY Zenon DEF Subscriptions, Kind
<1>2. \A c \in Calls : GroupOf(c)' = GroupOf(c) /\ Kind(c)' = Kind(c)
  BY Zenon DEF GroupOf, Kind
<1>3. \A g : OnlyColdHot(g)' = OnlyColdHot(g)
  BY <1>1, <1>2 DEF OnlyColdHot
<1>4. \A g : HandledIn(g)' = UNION {handled'[c] : c \in {d \in Subscriptions : GroupOf(d) = g}}
  BY <1>1, Zenon DEF HandledIn, GroupOf
<1>5. \A g : HandledIn(g) \subseteq HandledIn(g)'
  <2> SUFFICES ASSUME NEW g, NEW m \in HandledIn(g) PROVE m \in HandledIn(g)'
    OBVIOUS
  <2>1. PICK c \in Subscriptions : GroupOf(c) = g /\ m \in handled[c]
    BY HandledInGroup
  <2>2. m \in handled'[c]
    BY <1>1, <2>1
  <2> QED
    BY <1>4, <2>1, <2>2, Zenon
<1> QED
  BY <1>1, <1>2, <1>3, <1>5

\* It is enough to see to the call that moves, and to the offsets that are committed.
LEMMA OneOffset ==
    ASSUME TypeOK, TypeOK', OffsetsInv, plan' = plan, \A p \in Partitions : low[p] <= low'[p],
           \A d \in Calls : handled[d] \subseteq handled'[d],
           \A g \in Groups : OnlyColdHot(g) => \A p \in Partitions :
               committed'[g][p] = committed[g][p] \/ AllBelow(low, p, committed'[g][p], HandledIn(g)),
           \A c \in Subscriptions : OnlyColdHot(GroupOf(c)) =>
               call'[c].next = call[c].next \/ \A p \in Partitions : AllBelow(low', p, call'[c].next[p], HandledIn(GroupOf(c))')
    PROVE  OffsetsInv'
<1>k. /\ Subscriptions' = Subscriptions /\ Subscriptions \subseteq Calls
      /\ \A c \in Calls : GroupOf(c)' = GroupOf(c)
      /\ \A g : OnlyColdHot(g)' = OnlyColdHot(g)
      /\ \A g : HandledIn(g) \subseteq HandledIn(g)'
  BY GroupsKept
<1>n. IsOffsets(low) /\ IsOffsets(low)'
  BY LowFacts DEF TypeOK, IsOffsets
<1>1. \A p \in Partitions, end \in Nat \cup {-1} : \A h, h2 :
        h \subseteq h2 /\ AllBelow(low, p, end, h) => AllBelow(low', p, end, h2)
  BY <1>n DEF AllBelow, IsOffsets
<1>2. CommittedAreHandled'
  <2> SUFFICES ASSUME NEW g \in Groups, OnlyColdHot(g), NEW p \in Partitions
               PROVE  AllBelow(low', p, committed'[g][p], HandledIn(g)')
    BY <1>k, Zenon DEF CommittedAreHandled
  <2>1. committed'[g][p] \in Nat \cup {-1}
    BY DEF TypeOK
  <2>2. AllBelow(low, p, committed'[g][p], HandledIn(g))
    BY Zenon DEF OffsetsInv, CommittedAreHandled
  <2> QED
    BY <1>1, <1>k, <2>1, <2>2, Zenon
<1>3. PassedAreHandled'
  <2> SUFFICES ASSUME NEW c \in Subscriptions, OnlyColdHot(GroupOf(c)), NEW p \in Partitions
               PROVE  AllBelow(low', p, call'[c].next[p], HandledIn(GroupOf(c))')
    BY <1>k, Zenon DEF PassedAreHandled, Behind
  <2>1. CASE call'[c].next = call[c].next
    <3>1. call[c].next[p] \in Nat
      BY <1>k, TypedFacts DEF Typed
    <3>2. AllBelow(low, p, call[c].next[p], HandledIn(GroupOf(c)))
      BY Zenon DEF OffsetsInv, PassedAreHandled, Behind
    <3>3. AllBelow(low', p, call[c].next[p], HandledIn(GroupOf(c))')
      <4>1. call[c].next[p] \in Nat \cup {-1}
        BY <3>1
      <4> QED
        BY <1>1, <1>k, <3>2, <4>1, Zenon
    <3> QED
      BY <2>1, <3>3
  <2>2. CASE \A q \in Partitions : AllBelow(low', q, call'[c].next[q], HandledIn(GroupOf(c))')
    BY <2>2
  <2> QED
    BY <2>1, <2>2
<1> QED
  BY <1>2, <1>3 DEF OffsetsInv

LEMMA InitOffsets == Init => OffsetsInv
<1> SUFFICES ASSUME Init PROVE OffsetsInv
  OBVIOUS
<1>1. \A p \in Partitions : \A h : AllBelow(low, p, 0, h) /\ AllBelow(low, p, -1, h)
  BY DEF Init, Start, AllBelow
<1>2. \A c \in Subscriptions, p \in Partitions : call[c].next[p] = 0
  BY DEF Init, NewCall, Start, Subscriptions
<1>3. \A g \in Groups, p \in Partitions : committed[g][p] = -1
  BY DEF Init, Unset
<1> QED
  BY <1>1, <1>2, <1>3 DEF OffsetsInv, CommittedAreHandled, PassedAreHandled, Behind

LEMMA NextOffsets == TypeOK /\ TypeOK' /\ GroupInv /\ OffsetsInv /\ [Next]_vars => OffsetsInv'
<1> SUFFICES ASSUME TypeOK, TypeOK', GroupInv, OffsetsInv, [Next]_vars PROVE OffsetsInv'
  OBVIOUS
<1>r. /\ call \in [Calls -> Records] /\ \A c \in Calls : call[c] \in Records
      /\ IsOffsets(low) /\ \A p \in Partitions : low[p] <= low[p]
  BY LowFacts DEF TypeOK, IsOffsets
<1>s. /\ Subscriptions \subseteq Calls /\ \A c \in Subscriptions : c \notin Replays
      /\ \A c \in Calls : GroupOf(c) \in Groups
  BY PlanFacts DEF TypeOK
<1>h. ASSUME handled' = handled PROVE \A d \in Calls : handled[d] \subseteq handled'[d]
  BY <1>h
<1>1. ASSUME UNCHANGED <<plan, committed, handled>>, \A p \in Partitions : low[p] <= low'[p],
             \A c \in Subscriptions : call'[c].next = call[c].next
      PROVE  OffsetsInv'
  BY <1>1, <1>h, OneOffset, Zenon
<1>2. ASSUME UNCHANGED <<plan, committed, low, handled>>, NEW c \in Calls, NEW r \in Records,
             call' = [call EXCEPT ![c] = r], c \in Replays \/ r.next = call[c].next
      PROVE  OffsetsInv'
  <2>1. \A d \in Subscriptions : call'[d].next = call[d].next
    BY <1>r, <1>s, <1>2, SetCall
  <2> QED
    BY <1>1, <1>2, <1>r, <2>1
<1>3. ASSUME UNCHANGED vars \/ (\E p \in Partitions : Emit(p)) \/ (\E c \in Calls : OnlySilence(c)) PROVE OffsetsInv'
  <2>1. UNCHANGED <<plan, committed, low, call, handled>>
    BY <1>3 DEF vars, Emit, OnlySilence, TenSecondsPass, Further
  <2> QED
    BY <1>1, <1>r, <2>1
<1>4. CASE Clear
  <2>1. UNCHANGED <<plan, committed, call, handled>> /\ \A p \in Partitions : low[p] <= low'[p]
    BY <1>4, LowFacts DEF Clear
  <2> QED
    BY <1>1, <2>1
<1>5. CASE Shutdown
  <2>1. UNCHANGED <<plan, committed, low, handled>>
    BY <1>5 DEF Shutdown
  <2>2. \A c \in Subscriptions : call'[c] = [call[c] EXCEPT !.conn = FALSE]
    BY <1>5, <1>s, Zenon DEF Shutdown
  <2>3. \A c \in Subscriptions : call'[c].next = call[c].next
    BY <1>r, <1>s, <2>2, Zenon DEF Records
  <2> QED
    BY <1>1, <1>r, <2>1, <2>3
<1>6. CASE Restart
  <2>1. UNCHANGED <<plan, committed, low, handled>>
    BY <1>6 DEF Restart
  <2>2. \A c \in Subscriptions : call'[c] = IF call[c].pc = "idle" THEN NewCall ELSE [NewCall EXCEPT !.pc = "gone"]
    BY <1>6, <1>s, Zenon DEF Restart
  <2>3. \A c \in Subscriptions, p \in Partitions : call'[c].next[p] = 0
    BY <2>2 DEF NewCall, Start
  <2>4. \A c \in Subscriptions, p \in Partitions : AllBelow(low', p, call'[c].next[p], HandledIn(GroupOf(c))')
    BY <1>r, <2>1, <2>3 DEF AllBelow, IsOffsets
  <2> QED
    BY <1>h, <1>r, <2>1, <2>4, OneOffset
<1>7. ASSUME NEW c \in Calls, NEW p \in Partitions, Deliver(c, p) PROVE OffsetsInv'
  <2> DEFINE r == [call[c] EXCEPT !.hand[p] = "handling", !.next[p] = Ahead(c, p)]
  <2>1. UNCHANGED <<plan, committed, low, handled>> /\ call' = [call EXCEPT ![c] = r]
    BY <1>7, Zenon DEF Deliver, Set
  <2>2. Ahead(c, p) \in Nat /\ call[c].next[p] \in Nat
    BY <1>r, TypedFacts DEF Ahead, IsOffsets, Typed
  <2>3. r \in Records /\ \A q \in Partitions : r.next[q] = IF q = p THEN Ahead(c, p) ELSE call[c].next[q]
    <3>1. r \in Records
      BY <1>r, <2>2, MessageIsRecord, Zenon DEF Hands
    <3> QED
      BY <1>r, <3>1, Zenon DEF Records
  <2> HIDE DEF r
  <2>4. call'[c] = r /\ \A d \in Calls : d # c => call'[d] = call[d]
    BY <1>r, <2>1, <2>3, SetCall
  <2>5. ASSUME NEW d \in Subscriptions, OnlyColdHot(GroupOf(d)), d = c, NEW q \in Partitions
        PROVE  AllBelow(low', q, call'[d].next[q], HandledIn(GroupOf(d))')
    <3>1. HandledIn(GroupOf(d))' = HandledIn(GroupOf(d)) /\ low' = low
      BY <1>s, <2>1, Zenon DEF HandledIn, GroupOf, Subscriptions, Kind
    <3>2. AllBelow(low, q, call[c].next[q], HandledIn(GroupOf(d)))
      BY <2>5, Zenon DEF OffsetsInv, PassedAreHandled, Behind
    <3> DEFINE h == HandledIn(GroupOf(d))
    <3> HIDE DEF h
    <3>3. AllBelow(low, q, call[c].next[q], h)
      BY <3>2 DEF h
    <3>4. AllBelow(low, q, r.next[q], h)
      BY <1>r, <2>2, <2>3, <3>3 DEF AllBelow, Ahead, IsOffsets
    <3> QED
      BY <2>4, <2>5, <3>1, <3>4, Zenon DEF h
  <2>6. \A d \in Subscriptions : OnlyColdHot(GroupOf(d)) =>
          call'[d].next = call[d].next \/ \A q \in Partitions : AllBelow(low', q, call'[d].next[q], HandledIn(GroupOf(d))')
    BY <1>s, <2>4, <2>5
  <2> QED
    BY <1>h, <1>r, <2>1, <2>6, OneOffset
<1>8. ASSUME NEW c \in Calls, NEW p \in Partitions, Handled(c, p) PROVE OffsetsInv'
  <2> DEFINE n == call[c].next[p]
             r == [call[c] EXCEPT !.hand[p] = "none", !.next[p] = n + 1]
  <2>1. UNCHANGED <<plan, committed, low>> /\ c \in Subscriptions /\ call' = [call EXCEPT ![c] = r]
    BY <1>8, Zenon DEF Handled, Set
  <2>2. n \in Nat /\ n + 1 \in Nat
    BY TypedFacts DEF Typed
  <2>3. r \in Records /\ \A q \in Partitions : r.next[q] = IF q = p THEN n + 1 ELSE call[c].next[q]
    <3>1. r \in Records
      BY <1>r, <2>2, MessageIsRecord, Zenon DEF Hands
    <3> QED
      BY <1>r, <3>1, Zenon DEF Records
  <2> HIDE DEF r
  <2>4. call'[c] = r /\ \A d \in Calls : d # c => call'[d] = call[d]
    BY <1>r, <2>1, <2>3, SetCall
  <2>5. <<p, n>> \in handled'[c] /\ \A d \in Calls : handled[d] \subseteq handled'[d]
    BY <1>8 DEF Handled, Through, TypeOK
  <2>6. ASSUME OnlyColdHot(GroupOf(c)), NEW q \in Partitions
        PROVE  AllBelow(low', q, call'[c].next[q], HandledIn(GroupOf(c))')
    <3> DEFINE h == HandledIn(GroupOf(c))'
    <3>1. AllBelow(low, q, call[c].next[q], HandledIn(GroupOf(c))) /\ HandledIn(GroupOf(c)) \subseteq h
      BY <2>1, <2>5, <2>6, GroupsKept, Zenon DEF OffsetsInv, PassedAreHandled, Behind
    <3>2. <<p, n>> \in h
      <4>1. h = UNION {handled'[d] : d \in {e \in Subscriptions : GroupOf(e) = GroupOf(c)}}
        BY <2>1, Zenon DEF HandledIn, GroupOf, Subscriptions, Kind
      <4> QED
        BY <2>1, <2>5, <4>1, Zenon
    <3> HIDE DEF h
    <3>3. AllBelow(low, q, call[c].next[q], h)
      BY <3>1 DEF AllBelow
    <3>4. AllBelow(low, p, n, h) => AllBelow(low, p, n + 1, h)
      <4> HIDE DEF n
      <4> QED
        BY <1>r, <2>2, <3>2 DEF AllBelow, IsOffsets
    <3>5. AllBelow(low, q, r.next[q], h)
      BY <2>3, <3>3, <3>4
    <3> QED
      BY <2>1, <2>4, <3>5, Zenon DEF h
  <2>7. \A d \in Subscriptions : OnlyColdHot(GroupOf(d)) =>
          call'[d].next = call[d].next \/ \A q \in Partitions : AllBelow(low', q, call'[d].next[q], HandledIn(GroupOf(d))')
    <3> SUFFICES ASSUME NEW d \in Subscriptions, OnlyColdHot(GroupOf(d))
                 PROVE  call'[d].next = call[d].next \/ \A q \in Partitions : AllBelow(low', q, call'[d].next[q], HandledIn(GroupOf(d))')
      BY Zenon
    <3>1. CASE d = c
      BY <2>6, <3>1, Zenon
    <3>2. CASE d # c
      BY <1>s, <2>4, <3>2
    <3> QED
      BY <3>1, <3>2
  <2> QED
    BY <1>r, <2>1, <2>5, <2>7, OneOffset
<1>9. ASSUME NEW c \in Calls, Commit(c) PROVE OffsetsInv'
  <2>1. UNCHANGED <<plan, low, call, handled>> /\ c \in Subscriptions
        /\ committed' = [committed EXCEPT ![GroupOf(c)] = Committable(c)]
    BY <1>9, Zenon DEF Commit
  <2>2. ASSUME NEW g \in Groups, OnlyColdHot(g), NEW p \in Partitions
        PROVE  committed'[g][p] = committed[g][p] \/ AllBelow(low, p, committed'[g][p], HandledIn(g))
    <3>1. CASE g # GroupOf(c)
      BY <2>1, <3>1 DEF TypeOK
    <3>2. CASE g = GroupOf(c)
      <4>1. committed'[g] = Committable(c)
        BY <2>1, <3>2 DEF TypeOK
      <4>2. committed'[g][p] \in {call[c].next[p], committed[g][p]}
        BY <3>2, <4>1, Zenon DEF Committable, Stored
      <4>3. AllBelow(low, p, call[c].next[p], HandledIn(g))
        BY <2>1, <2>2, <3>2, Zenon DEF OffsetsInv, PassedAreHandled, Behind
      <4> QED
        BY <4>2, <4>3, Zenon
    <3> QED
      BY <3>1, <3>2
  <2> QED
    BY <1>h, <1>r, <2>1, <2>2, OneOffset
<1>10. ASSUME NEW c \in Calls, Quiet(c) PROVE OffsetsInv'
  <2>1. PICK r \in Records : call' = [call EXCEPT ![c] = r] /\ Same(call[c], r)
    BY <1>10, QuietKeeps
  <2>2. UNCHANGED <<plan, low, handled>> /\ (committed' = committed \/ committed' = [committed EXCEPT ![GroupOf(c)] = Unset])
    BY <1>10, Zenon DEF Quiet, Subscribe, ExecutorFails, TopicsCreated, ConnectFails, RunFails, Timeout, Close, GroupDeleted,
                        Disconnected, DisconnectFails
  <2>3. \A d \in Subscriptions : call'[d].next = call[d].next
    BY <1>r, <1>s, <2>1, SetCall DEF Same
  <2>4. ASSUME NEW g \in Groups, NEW p \in Partitions
        PROVE  committed'[g][p] = committed[g][p] \/ AllBelow(low, p, committed'[g][p], HandledIn(g))
    <3>1. committed'[g][p] = committed[g][p] \/ committed'[g][p] = -1
      BY <2>2 DEF TypeOK, Unset
    <3> QED
      BY <1>r, <3>1 DEF AllBelow, IsOffsets
  <2> QED
    BY <1>h, <1>r, <2>2, <2>3, <2>4, OneOffset, Zenon
<1>11. ASSUME NEW c \in Calls, Connected(c) PROVE OffsetsInv'
  <2> DEFINE r == [call[c] EXCEPT !.pc = "running", !.conn = TRUE, !.next = Position(c),
                                  !.healthy = c \in Subscriptions, !.interval = c \in Replays]
  <2>1. UNCHANGED <<plan, committed, low, handled>> /\ call' = [call EXCEPT ![c] = r]
    BY <1>11, Zenon DEF Connected, Set
  <2>2. r \in Records
    <3>1. Position(c) \in [Partitions -> Nat]
      BY TypedFacts DEF Typed, Position
    <3>2. (c \in Subscriptions) \in BOOLEAN /\ (c \in Replays) \in BOOLEAN
      OBVIOUS
    <3> QED
      BY <1>r, <3>1, <3>2, ConnectedIsRecord, Zenon
  <2>3. r.next = Position(c)
    BY <1>r, Zenon DEF Records
  <2> HIDE DEF r
  <2>4. call'[c] = r /\ \A d \in Calls : d # c => call'[d] = call[d]
    BY <1>r, <2>1, <2>2, SetCall
  <2>5. ASSUME c \in Subscriptions, OnlyColdHot(GroupOf(c)), NEW p \in Partitions
        PROVE  AllBelow(low', p, call'[c].next[p], HandledIn(GroupOf(c))')
    <3>1. Kind(c) = "coldHot"
      BY <2>5 DEF OnlyColdHot
    <3>2. call'[c].next[p] \in {0, committed[GroupOf(c)][p]}
      BY <2>3, <2>4, <3>1 DEF Position
    <3>3. AllBelow(low, p, 0, HandledIn(GroupOf(c)))
      BY <1>r DEF AllBelow, IsOffsets
    <3>4. AllBelow(low, p, committed[GroupOf(c)][p], HandledIn(GroupOf(c)))
      BY <1>s, <2>5, Zenon DEF OffsetsInv, CommittedAreHandled
    <3>5. HandledIn(GroupOf(c))' = HandledIn(GroupOf(c))
      BY <2>1, Zenon DEF HandledIn, GroupOf, Subscriptions, Kind
    <3> QED
      BY <2>1, <3>2, <3>3, <3>4, <3>5, Zenon
  <2>6. \A d \in Subscriptions : OnlyColdHot(GroupOf(d)) =>
          call'[d].next = call[d].next \/ \A q \in Partitions : AllBelow(low', q, call'[d].next[q], HandledIn(GroupOf(d))')
    <3> SUFFICES ASSUME NEW d \in Subscriptions, OnlyColdHot(GroupOf(d))
                 PROVE  call'[d].next = call[d].next \/ \A q \in Partitions : AllBelow(low', q, call'[d].next[q], HandledIn(GroupOf(d))')
      BY Zenon
    <3>1. CASE d = c
      BY <2>5, <3>1, Zenon
    <3>2. CASE d # c
      BY <1>s, <2>4, <3>2
    <3> QED
      BY <3>1, <3>2
  <2> QED
    BY <1>h, <1>r, <2>1, <2>6, OneOffset
\* What is left are steps of replays.
<1>12. ASSUME NEW c \in Calls, Replay(c) \/ Tick(c) \/ RunReturns(c) \/ \E p \in Partitions : Replayed(c, p) \/ PauseOver(c, p)
       PROVE  OffsetsInv'
  <2>1. c \in Replays /\ \A d \in Subscriptions : d # c
    <3>1. c \in Replays \/ Ending(c)
      BY <1>12, Zenon DEF Replay, Tick, RunReturns, Replayed, PauseOver, Ending
    <3> QED
      BY <1>s, <3>1 DEF GroupInv, OnlyReplaysEnd
  <2>2. UNCHANGED <<plan, committed, low>> /\ \E r : call' = [call EXCEPT ![c] = r]
    BY <1>12, Zenon DEF Replay, Tick, RunReturns, Replayed, PauseOver, Set, Goto
  <2>3. \A d \in Calls : handled[d] \subseteq handled'[d]
    <3>1. UNCHANGED handled \/ \E p \in Partitions : Through(c, p)
      BY <1>12, Zenon DEF Replay, Tick, RunReturns, Replayed, PauseOver
    <3> QED
      BY <3>1 DEF Through, TypeOK
  <2>4. \A d \in Subscriptions : call'[d] = call[d]
    BY <1>r, <1>s, <2>1, <2>2, Zenon
  <2> QED
    BY <1>r, <2>2, <2>3, <2>4, OneOffset
<1> QED
  BY <1>3, <1>4, <1>5, <1>6, <1>7, <1>8, <1>9, <1>10, <1>11, <1>12 DEF Next, Proceed, InPartition, Quiet, OnlySilence

\* What a coldHot group's offsets say is behind it, some handler of the group was through with (autoCommit and eachMessage,
\* eventclient-kafka.ts 257-305), whoever subscribes, fails, closes or restarts.
THEOREM CommittedIsDone == Spec => []CommittedIsHandled
<1>1. TypeOK /\ OffsetsInv => CommittedIsHandled
  <2> SUFFICES ASSUME TypeOK, OffsetsInv PROVE CommittedIsHandled
    OBVIOUS
  <2>1. 0 .. MaxLog[plan] \subseteq Nat
    BY PlanFacts DEF TypeOK
  <2> QED
    BY <2>1 DEF OffsetsInv, CommittedAreHandled, CommittedIsHandled, OnlyColdHot, AllBelow
<1> QED
  BY <1>1, GroupInvariance, NextTypeOK, InitOffsets, NextOffsets, PTL DEF Spec
=============================================================================

------------------------- MODULE RedisClientProofs -------------------------
(* The calls of RedisClient, for any plan, stream, groups, clients and bounds: no group moves past an entry that nobody handled
   or has pending, no client polls a group twice, no hot entry is handled twice unless its group restarts, and no replay leaves
   out what lies before its cursor. *)
EXTENDS RedisClient, FiniteSetTheorems, WellFoundedInduction, TLAPS

---------------------------------------------------------------------------
(* The smallest members of a finite set *)

Below(S, i) == {j \in S : j <= i}
LEMMA LeastExists ==
    ASSUME NEW S \in SUBSET Int, IsFiniteSet(S), NEW T \in SUBSET S, T # {}
    PROVE  \E i \in T : \A j \in T : i <= j
<1> DEFINE D == {Below(S, k) : k \in T}
<1>1. D \subseteq FiniteSubsetsOf(S) /\ D # {}
  <2>1. \A i \in T : Below(S, i) \in SUBSET S
    BY DEF Below
  <2>2. \A i \in T : IsFiniteSet(Below(S, i))
    BY <2>1, FS_Subset
  <2> QED
    BY <2>1, <2>2 DEF FiniteSubsetsOf
<1>2. PICK x \in D : \A y \in D : ~(<<y, x>> \in StrictSubsetOrdering(S))
  <2> HIDE DEF D
  <2> QED
    BY <1>1, FS_StrictSubsetOrderingWellFounded, WFMin
<1>3. PICK i \in T : x = Below(S, i)
  OBVIOUS
<1>4. ASSUME NEW j \in T, j < i PROVE FALSE
  <2>1. Below(S, j) \in D /\ Below(S, j) \subseteq Below(S, i) /\ i \in Below(S, i) /\ i \notin Below(S, j)
    <3>1. i \in S /\ j \in S /\ i \in Int /\ j \in Int /\ \A k \in S : k \in Int
      OBVIOUS
    <3>2. Below(S, j) \subseteq Below(S, i) /\ i \in Below(S, i) /\ i \notin Below(S, j)
      <4>1. j < i
        BY <1>4
      <4>2. \A k \in S : k <= j => k <= i
        BY <3>1, <4>1
      <4>3. i <= i /\ ~(i <= j)
        BY <3>1, <4>1
      <4> QED
        BY <3>1, <4>2, <4>3, Zenon DEF Below
    <3>3. Below(S, j) \in D
      OBVIOUS
    <3> QED
      BY <3>2, <3>3, Zenon
  <2> QED
    <3>1. <<Below(S, j), x>> \in StrictSubsetOrdering(S)
      <4>1. Below(S, j) \in SUBSET S /\ x \in SUBSET S
        BY <1>3 DEF Below
      <4> DEFINE ss == <<Below(S, j), x>>
      <4>2. ss \in (SUBSET S) \X (SUBSET S) /\ ss[1] \subseteq ss[2] /\ ss[1] # ss[2]
        BY <1>3, <2>1, <4>1
      <4> QED
        BY <4>2 DEF StrictSubsetOrdering
    <3> QED
      BY <1>2, <2>1, <3>1
<1> QED
  BY <1>4

LEMMA LeastIsLow ==
    ASSUME NEW S \in SUBSET Int, IsFiniteSet(S), NEW k \in Int, NEW i \in Least(S, k), NEW j \in S, j <= i
    PROVE  j \in Least(S, k)
<1>1. {m \in S : m <= j} \subseteq {m \in S : m <= i} /\ {m \in S : m <= i} \subseteq S
  <2> SUFFICES ASSUME NEW m \in S, m <= j PROVE m <= i
    OBVIOUS
  <2> m \in Int /\ j \in Int /\ i \in Int
    BY DEF Least
  <2> QED
    OBVIOUS
<1>2. IsFiniteSet({m \in S : m <= i}) 
  BY <1>1, FS_Subset
<1>3. Cardinality({m \in S : m <= j}) <= Cardinality({m \in S : m <= i})
  BY <1>1, <1>2, FS_Subset
<1>4. IsFiniteSet({m \in S : m <= j}) /\ Cardinality({m \in S : m <= j}) \in Nat /\ Cardinality({m \in S : m <= i}) \in Nat 
  BY <1>1, <1>2, FS_Subset, FS_CardinalityType
<1> QED
  BY <1>3, <1>4 DEF Least

LEMMA LeastIsAll ==
    ASSUME NEW S \in SUBSET Int, IsFiniteSet(S), NEW k \in Nat, Cardinality(Least(S, k)) < k
    PROVE  Least(S, k) = S
<1> SUFFICES ASSUME Least(S, k) # S PROVE FALSE
  OBVIOUS
<1> DEFINE L == Least(S, k)
<1>1. L \subseteq S /\ S \ L # {}
  BY DEF Least
<1>2. PICK i \in S \ L : \A j \in S \ L : i <= j
  BY <1>1, LeastExists
<1>3. {j \in S : j <= i} = L \cup {i}
  <2>1. \A j \in L : j \in S /\ j <= i
    <3> SUFFICES ASSUME NEW j \in L, ~(j <= i) PROVE FALSE
      BY <1>1
    <3>1. i \in S /\ j \in S /\ i \in Int /\ j \in Int
      BY <1>1, <1>2
    <3>2. i <= j
      BY <3>1
    <3>3. i \in L
      BY <3>1, <3>2, LeastIsLow
    <3> QED
      BY <1>2, <3>3
  <2>2. \A j \in S : j <= i => j \in L \cup {i}
    BY <1>2
  <2> QED
    BY <1>2, <2>1, <2>2
<1>4. IsFiniteSet(L) /\ Cardinality(L) \in Nat
  BY <1>1, FS_Subset, FS_CardinalityType
<1>5. Cardinality(L \cup {i}) <= k
  <2>1. Cardinality(L \cup {i}) = Cardinality(L) + 1
    BY <1>2, <1>4, FS_AddElement
  <2> QED
    BY <1>4, <2>1
<1> QED
  BY <1>2, <1>3, <1>5 DEF Least

---------------------------------------------------------------------------
(* Types *)

LEMMA PlanFacts ==
    ASSUME plan \in Plans
    PROVE  /\ MaxEntries[plan] \in Nat /\ MaxFaults \in Nat /\ 1 .. MaxEntries[plan] \subseteq Ids
           /\ \A c \in Calls : GroupOf(c) \in Groups /\ ClientOf(c) \in Clients /\ Batch(c) \in Nat \ {0}
           /\ Subscriptions \subseteq Calls /\ Replays \subseteq Calls
           /\ \A c \in Subscriptions : c \notin Replays
           /\ \A c \in Calls : Kind(c) = "hot" => c \in Subscriptions
           /\ \A c \in Subscriptions : Kind(c) = "hot" \/ Kind(c) = "coldHot"
           /\ Parallel \in Nat \ {0}
BY PlanAssumption, SizeAssumption DEF Requests, GroupOf, ClientOf, Batch, Kind, Subscriptions, Replays, Ids

LEMMA NewCallIsRecord ==
    /\ NewCall \in Records
    /\ \A pc \in Stages : \A b1, b2 \in BOOLEAN : /\ [NewCall EXCEPT !.pc = pc] \in Records
                                                  /\ [NewCall EXCEPT !.pc = pc, !.conn = b1] \in Records
                                                  /\ [NewCall EXCEPT !.pc = pc, !.running = b1, !.conn = b2] \in Records
<1>1. "idle" \in Stages /\ FALSE \in BOOLEAN /\ {} \in SUBSET Ids /\ 0 \in Nat
  BY DEF Stages, Settled
<1>2. NewCall \in Records
  BY <1>1, Zenon DEF NewCall, Records
<1> QED
  BY <1>2, Zenon DEF Records

\* s is r but for its stage: as far as it goes, and as to what it has read.
SameLife(r, s) == s.running = r.running /\ s.conn = r.conn /\ s.pending = r.pending
SameWork(r, s) == s.batch = r.batch /\ s.inHand = r.inHand /\ s.acking = r.acking /\ s.next = r.next /\ s.short = r.short

LEMMA SetsStage ==
    ASSUME NEW r \in Records, NEW pc \in Stages, NEW s, s = [r EXCEPT !.pc = pc]
    PROVE  s \in Records /\ s.pc = pc /\ SameLife(r, s) /\ SameWork(r, s) /\ s.end = r.end
<1>1. s \in Records
  BY Zenon DEF Records
<1> QED
  BY <1>1, Zenon DEF Records, SameLife, SameWork

LEMMA AgainIs ==
    ASSUME NEW r \in Records
    PROVE  /\ Again(r) \in Records /\ SameLife(r, Again(r)) /\ SameWork(r, Again(r)) /\ Again(r).end = r.end
           /\ Again(r).pc = "reading" \/ Again(r).pc = "stopped"
<1> DEFINE pc == IF r.running THEN "reading" ELSE "stopped"
<1>1. pc \in Stages /\ (pc = "reading" \/ pc = "stopped")
  BY DEF Stages
<1>2. Again(r) = [r EXCEPT !.pc = pc]
  BY DEF Again
<1> HIDE DEF pc
<1> QED
  BY <1>1, <1>2, SetsStage

LEMMA FinishIs ==
    ASSUME NEW r \in Records
    PROVE  /\ Finish(r) \in Records /\ SameLife(r, Finish(r)) /\ SameWork(r, Finish(r)) /\ Finish(r).end = r.end
           /\ (Finish(r).pc = "done" /\ r.running) \/ (Finish(r).pc = "closed" /\ ~r.running)
<1> DEFINE pc == IF r.running THEN "done" ELSE "closed"
<1>1. pc \in Stages /\ ((pc = "done" /\ r.running) \/ (pc = "closed" /\ ~r.running))
  <2>1. "done" \in Stages /\ "closed" \in Stages
    BY DEF Stages, Settled
  <2>2. (r.running => pc = "done") /\ (~r.running => pc = "closed")
    OBVIOUS
  <2> HIDE DEF pc
  <2> QED
    BY <2>1, <2>2
<1>2. Finish(r) = [r EXCEPT !.pc = pc]
  BY DEF Finish
<1> HIDE DEF pc
<1> QED
  BY <1>1, <1>2, SetsStage

LEMMA NextPageIs ==
    ASSUME NEW r \in Records
    PROVE  /\ NextPage(r) \in Records /\ SameLife(r, NextPage(r)) /\ SameWork(r, NextPage(r)) /\ NextPage(r).end = r.end
           /\ NextPage(r).pc = "paging" \/ NextPage(r).pc = "closed"
<1>1. CASE r.running
  <2>1. NextPage(r) = [r EXCEPT !.pc = "paging"] /\ "paging" \in Stages
    BY <1>1 DEF NextPage, Stages
  <2> QED
    BY <2>1, SetsStage
<1>2. CASE ~r.running
  BY <1>2, FinishIs, Zenon DEF NextPage
<1> QED
  BY <1>1, <1>2

LEMMA TakeSliceIs ==
    ASSUME NEW r \in Records, NEW ids \in SUBSET Ids
    PROVE  LET s == TakeSlice(r, ids)
           IN  /\ s \in Records /\ s.pc = r.pc /\ SameLife(r, s) /\ s.end = r.end
               /\ s.inHand \cup s.batch = ids /\ s.inHand \cap s.batch = {} /\ s.acking = r.acking /\ s.next = r.next
<1>1. Least(ids, Parallel) \in SUBSET Ids /\ ids \ Least(ids, Parallel) \in SUBSET Ids /\ Least(ids, Parallel) \subseteq ids
  BY DEF Least
<1> DEFINE a == Least(ids, Parallel)
           b == ids \ a
           s == [r EXCEPT !.inHand = a, !.batch = b]
<1>2. a \in SUBSET Ids /\ b \in SUBSET Ids /\ a \cup b = ids /\ a \cap b = {} /\ s = TakeSlice(r, ids)
  BY <1>1 DEF TakeSlice
<1> HIDE DEF a, b
<1>3. s \in Records
  BY <1>2, Zenon DEF Records
<1>4. s.pc = r.pc /\ SameLife(r, s) /\ s.end = r.end /\ s.inHand = a /\ s.batch = b /\ s.acking = r.acking /\ s.next = r.next
  BY <1>2, Zenon DEF Records, SameLife
<1> QED
  BY <1>2, <1>3, <1>4

LEMMA NextSliceIs ==
    ASSUME NEW r \in Records, r.batch \cap r.inHand = {}
    PROVE  LET s == NextSlice(r)
           IN  /\ s \in Records /\ SameLife(r, s) /\ s.end = r.end /\ s.acking = r.acking /\ s.next = r.next
               /\ s.inHand \cup s.batch = r.inHand \cup r.batch /\ s.inHand \cap s.batch = {}
               /\ \/ s.pc = r.pc
                  \/ (s.pc = "reading" \/ s.pc = "stopped") /\ s.inHand = {} /\ s.batch = {} /\ s.acking = {}
<1>1. CASE r.inHand \cup r.acking # {}
  <2>1. NextSlice(r) = r
    BY <1>1 DEF NextSlice
  <2> QED
    BY <2>1 DEF SameLife
<1>2. CASE r.inHand \cup r.acking = {} /\ r.batch # {}
  <2>1. NextSlice(r) = TakeSlice(r, r.batch) /\ r.inHand = {} /\ r.batch \in SUBSET Ids
    BY <1>2 DEF NextSlice, Records
  <2>2. r.inHand \cup r.batch = r.batch
    BY <2>1
  <2> QED
    BY <2>1, <2>2, TakeSliceIs
<1>3. CASE r.inHand \cup r.acking = {} /\ r.batch = {}
  <2>1. NextSlice(r) = Again(r) /\ r.inHand = {} /\ r.batch = {} /\ r.acking = {}
    BY <1>3 DEF NextSlice
  <2> QED
    BY <2>1, AgainIs DEF SameWork
<1> QED
  BY <1>1, <1>2, <1>3

\* The stages only a subscription's loop has, and those of a replay between pages.
Looping == {"creating", "recreating", "reading", "pausing", "stopped", "quitting"}
Paging == {"length", "lastId", "paging"}

\* A step that moves a call on, to s, and leaves what it has read as it is.
Quiet(c, s) ==
    /\ s \in Records /\ call' = [call EXCEPT ![c] = s]
    /\ call[c].pc \notin Settled /\ s.pc # "idle" /\ (s.pc = "handling" <=> call[c].pc = "handling")
    /\ SameWork(call[c], s)
    /\ s.pc \in Looping => call[c].pc \in Looping
    /\ s.pc \in Paging => call[c].pc \in Paging
    /\ s.conn => call[c].conn
    /\ s.pending => call[c].pending \/ Kind(c) # "hot"
    /\ \/ s.end = call[c].end /\ s.pc \notin {"length", "lastId", "done"}
       \/ s.end = call[c].end /\ s.pc = call[c].pc
       \/ Length(c) \/ LastId(c) \/ Page(c)
Moves(c) == \/ GroupCreated(c) \/ GroupFails(c) \/ ReadNothing(c) \/ ReadFails(c) \/ Resume(c)
            \/ Length(c) \/ LastId(c) \/ PageFails(c) \/ LoopEnded(c) \/ Quit(c) \/ Close(c)

LEMMA StageFacts ==
    /\ {"idle", "creating", "recreating", "reading", "pausing", "handling", "stopped", "quitting", "length", "lastId",
        "paging", "refused", "failed", "done", "closed", "crashed"} = Stages
    /\ \A pc \in {"creating", "recreating", "reading", "pausing", "handling", "stopped", "quitting", "length", "lastId",
        "paging"} : pc \notin Settled
BY DEF Stages, Settled

\* What makes a step to another stage quiet.
LEMMA MoveIsQuiet ==
    ASSUME NEW c \in Calls, call[c] \in Records, NEW s \in Records, call' = [call EXCEPT ![c] = s],
           SameLife(call[c], s), SameWork(call[c], s), s.end = call[c].end,
           s.pc \in {"recreating", "reading", "pausing", "stopped", "quitting", "closed", "failed"},
           call[c].pc \in Looping \/ (call[c].pc = "paging" /\ s.pc = "failed")
    PROVE  Quiet(c, s)
BY StageFacts DEF Quiet, Looping, Paging, SameLife

LEMMA StageIsQuiet ==
    ASSUME NEW c \in Calls, call[c] \in Records, NEW pc, call' = [call EXCEPT ![c] = [call[c] EXCEPT !.pc = pc]],
           pc \in {"recreating", "reading", "pausing", "stopped", "quitting", "closed", "failed"},
           call[c].pc \in Looping \/ (call[c].pc = "paging" /\ pc = "failed")
    PROVE  \E s \in Records : Quiet(c, s)
<1> DEFINE s == [call[c] EXCEPT !.pc = pc]
<1>1. pc \in Stages
  BY StageFacts
<1>2. s \in Records /\ s.pc = pc /\ SameLife(call[c], s) /\ SameWork(call[c], s) /\ s.end = call[c].end
  BY <1>1, SetsStage
<1> HIDE DEF s
<1>3. call' = [call EXCEPT ![c] = s]
  BY DEF s
<1> QED
  BY <1>2, <1>3, MoveIsQuiet

LEMMA ClosedIs ==
    ASSUME NEW c \in Calls, call[c] \in Records
    PROVE  LET s == Closed(c)
           IN  /\ s \in Records /\ s.pc = call[c].pc /\ SameWork(call[c], s) /\ s.end = call[c].end /\ ~s.running
               /\ s.pending = call[c].pending
               /\ s.conn => call[c].conn
<1> DEFINE b == call[c].conn /\ c \in Subscriptions
           s == [call[c] EXCEPT !.running = FALSE, !.conn = b]
<1>1. Closed(c) = s
  BY Zenon DEF Closed, Records
<1>2. b \in BOOLEAN /\ (b => call[c].conn) /\ FALSE \in BOOLEAN
  OBVIOUS
<1> HIDE DEF b
<1>3. s \in Records /\ s.pc = call[c].pc /\ SameWork(call[c], s) /\ s.end = call[c].end /\ s.running = FALSE
      /\ s.pending = call[c].pending /\ s.conn = b
  BY <1>2, Zenon DEF Records, SameWork
<1> HIDE DEF s
<1> QED
  BY <1>1, <1>2, <1>3

LEMMA CloseIsQuiet ==
    ASSUME NEW c \in Calls, call[c] \in Records, call[c].pc \notin Settled, call' = [call EXCEPT ![c] = Closed(c)]
    PROVE  Quiet(c, Closed(c))
BY ClosedIs, StageFacts DEF Quiet, Looping, Paging, Settled

LEMMA MovesAreQuiet ==
    ASSUME NEW c \in Calls, call[c] \in Records, last \in Nat, Moves(c)
    PROVE  \E s \in Records : Quiet(c, s)
<1>1. CASE GroupCreated(c)
  <2>1. CASE call[c].pc = "creating"
    <3> DEFINE s == [call[c] EXCEPT !.pc = "reading", !.running = TRUE, !.pending = (Kind(c) = "coldHot")]
    <3>1. "reading" \in Stages /\ TRUE \in BOOLEAN /\ (Kind(c) = "coldHot") \in BOOLEAN
      BY DEF Stages
    <3>2. /\ s \in Records /\ s.pc = "reading" /\ s.conn = call[c].conn /\ SameWork(call[c], s) /\ s.end = call[c].end
          /\ s.pending = (Kind(c) = "coldHot")
      BY <3>1, Zenon DEF Records, SameWork
    <3>3. call' = [call EXCEPT ![c] = s]
      BY <1>1, <2>1 DEF GroupCreated, Set
    <3> HIDE DEF s
    <3>4. s.pending => Kind(c) # "hot"
      BY <3>2
    <3> QED
      BY <2>1, <3>2, <3>3, <3>4, StageFacts DEF Quiet, Looping, Paging
  <2>2. CASE call[c].pc = "recreating"
    <3>1. call' = [call EXCEPT ![c] = Again(call[c])]
      BY <1>1, <2>2 DEF GroupCreated, Set
    <3> QED
      BY <2>2, <3>1, AgainIs, MoveIsQuiet DEF Looping
  <2> QED
    BY <1>1, <2>1, <2>2 DEF GroupCreated
<1>2. CASE GroupFails(c)
  <2>1. PICK pc \in {"failed", "stopped"} : call' = [call EXCEPT ![c] = [call[c] EXCEPT !.pc = pc]]
    BY <1>2 DEF GroupFails, Set
  <2>2. pc \in Stages /\ call[c].pc \in {"creating", "recreating"}
    BY <1>2 DEF GroupFails, Stages, Settled
  <2> QED
    BY <2>1, <2>2, StageIsQuiet DEF Looping
<1>3. CASE ReadNothing(c)
  <2> DEFINE r == [call[c] EXCEPT !.pending = FALSE]
  <2>1. call' = [call EXCEPT ![c] = Again(r)] /\ call[c].pc = "reading"
    BY <1>3 DEF ReadNothing, Set
  <2>2. FALSE \in BOOLEAN /\ "reading" \in Stages
    BY DEF Stages
  <2>3. /\ r \in Records /\ r.pc = "reading" /\ r.conn = call[c].conn /\ r.pending = FALSE /\ SameWork(call[c], r)
        /\ r.end = call[c].end
    BY <2>1, <2>2, Zenon DEF Records, SameWork
  <2> HIDE DEF r
  <2>4. Again(r) \in Records /\ SameLife(r, Again(r)) /\ SameWork(r, Again(r)) /\ Again(r).end = r.end
        /\ Again(r).pc \in {"reading", "stopped"}
    BY <2>3, AgainIs
  <2> QED
    BY <2>1, <2>3, <2>4, StageFacts DEF Quiet, Looping, Paging, SameLife, SameWork
<1>4. CASE ReadFails(c)
  <2>1. PICK pc \in {"stopped", "recreating", "pausing"} : call' = [call EXCEPT ![c] = [call[c] EXCEPT !.pc = pc]]
    BY <1>4 DEF ReadFails, Set
  <2>2. pc \in Stages /\ call[c].pc = "reading"
    BY <1>4 DEF ReadFails, Stages
  <2> QED
    BY <2>1, <2>2, StageIsQuiet DEF Looping
<1>5. CASE Resume(c)
  <2>1. call' = [call EXCEPT ![c] = Again(call[c])] /\ call[c].pc = "pausing"
    BY <1>5 DEF Resume, Set
  <2> QED
    BY <2>1, AgainIs, MoveIsQuiet DEF Looping
<1>6. CASE Length(c)
  <2>1. PICK pc \in {"lastId", "done"} : call' = [call EXCEPT ![c] = [call[c] EXCEPT !.pc = pc]]
    BY <1>6 DEF Length, Set
  <2>2. pc \in Stages /\ call[c].pc = "length"
    BY <1>6 DEF Length, Stages, Settled
  <2>3. SameLife(call[c], [call[c] EXCEPT !.pc = pc]) /\ SameWork(call[c], [call[c] EXCEPT !.pc = pc])
        /\ [call[c] EXCEPT !.pc = pc].pc = pc /\ [call[c] EXCEPT !.pc = pc] \in Records
    BY <2>2, SetsStage
  <2> QED
    BY <1>6, <2>1, <2>2, <2>3, StageFacts DEF Quiet, Looping, Paging, SameLife
<1>7. CASE LastId(c)
  <2>1. PICK r \in {call[c], [call[c] EXCEPT !.end = last]} : call' = [call EXCEPT ![c] = NextPage(r)]
    BY <1>7 DEF LastId, Set
  <2>2. r \in Records /\ SameLife(call[c], r) /\ SameWork(call[c], r)
    <3>1. CASE r = call[c]
      BY <3>1 DEF SameLife, SameWork
    <3>2. CASE r = [call[c] EXCEPT !.end = last]
      BY <3>2, Zenon DEF Records, SameLife, SameWork
    <3> QED
      BY <3>1, <3>2
  <2>3. NextPage(r) \in Records /\ SameLife(r, NextPage(r)) /\ SameWork(r, NextPage(r))
        /\ NextPage(r).pc \in {"paging", "closed"}
    BY <2>2, NextPageIs
  <2>4. call[c].pc = "lastId"
    BY <1>7 DEF LastId
  <2> QED
    BY <1>7, <2>1, <2>2, <2>3, <2>4, StageFacts DEF Quiet, Looping, Paging, SameLife, SameWork
<1>8. CASE PageFails(c)
  <2>1. call' = [call EXCEPT ![c] = [call[c] EXCEPT !.pc = "failed"]] /\ call[c].pc = "paging" /\ "failed" \in Stages
    BY <1>8 DEF PageFails, Set, Stages, Settled
  <2> QED
    BY <2>1, StageIsQuiet DEF Looping
<1>9. CASE LoopEnded(c)
  <2>1. call' = [call EXCEPT ![c] = [call[c] EXCEPT !.pc = "quitting"]] /\ call[c].pc = "stopped" /\ "quitting" \in Stages
    BY <1>9 DEF LoopEnded, Set, Stages
  <2> QED
    BY <2>1, StageIsQuiet DEF Looping
<1>10. CASE Quit(c)
  <2> DEFINE s == [call[c] EXCEPT !.pc = "closed", !.conn = FALSE]
  <2>1. call' = [call EXCEPT ![c] = s] /\ call[c].pc = "quitting" /\ "closed" \in Stages /\ FALSE \in BOOLEAN
    BY <1>10 DEF Quit, Set, Stages, Settled
  <2>2. /\ s \in Records /\ s.pc = "closed" /\ s.conn = FALSE /\ s.pending = call[c].pending /\ SameWork(call[c], s)
        /\ s.end = call[c].end
    BY <2>1, Zenon DEF Records, SameWork
  <2> HIDE DEF s
  <2> QED
    BY <2>1, <2>2, StageFacts DEF Quiet, Looping, Paging
<1>11. CASE Close(c)
  <2>1. call' = [call EXCEPT ![c] = Closed(c)] /\ call[c].pc \notin Settled
    BY <1>11 DEF Close, Open, Set
  <2> QED
    BY <2>1, ClosedIs, CloseIsQuiet
<1> QED
  BY <1>1, <1>2, <1>3, <1>4, <1>5, <1>6, <1>7, <1>8, <1>9, <1>10, <1>11 DEF Moves

\* Setting one call's record sets it, and leaves the others.
LEMMA SetCall ==
    ASSUME call \in [Calls -> Records], NEW c \in Calls, NEW s \in Records, call' = [call EXCEPT ![c] = s]
    PROVE  /\ call' \in [Calls -> Records]
           /\ call'[c] = s
           /\ \A d \in Calls : d # c => call'[d] = call[d]
BY Zenon

\* The types, with what the plan says of them.
Typed == /\ plan \in Plans /\ MaxEntries[plan] \in Nat /\ MaxFaults \in Nat /\ 1 .. MaxEntries[plan] \subseteq Ids
         /\ \A c \in Calls : GroupOf(c) \in Groups /\ ClientOf(c) \in Clients
         /\ last \in Nat /\ last <= MaxEntries[plan] /\ kept \subseteq 1 .. last /\ kept \subseteq Ids /\ kept \subseteq Int
         /\ group \in [Groups -> [at : Nat \cup {Absent}, from : Nat]]
         /\ pel \in [Calls -> SUBSET Ids] /\ handled \in [Calls -> SUBSET Ids] /\ skipped \subseteq Ids
         /\ registry \in [Clients -> SUBSET Groups]
         /\ client \in [Clients -> {"up", "stopping", "down", "crashed"}]
         /\ call \in [Calls -> Records] /\ \A c \in Calls : call[c] \in Records
         /\ faults \in 0 .. MaxFaults

LEMMA TypedFacts == TypeOK => Typed
<1> SUFFICES ASSUME TypeOK PROVE Typed
  OBVIOUS
<1>1. plan \in Plans
  BY DEF TypeOK
<1>2. MaxEntries[plan] \in Nat /\ MaxFaults \in Nat /\ 1 .. MaxEntries[plan] \subseteq Ids
  BY <1>1, PlanFacts
<1>3. last \in 0 .. MaxEntries[plan] /\ kept \subseteq 1 .. last
  BY DEF TypeOK
<1>4. last \in Nat /\ last <= MaxEntries[plan] /\ kept \subseteq Ids /\ kept \subseteq Int
  BY <1>2, <1>3
<1> QED
  BY <1>1, <1>2, <1>3, <1>4, PlanFacts DEF TypeOK, Typed

LEMMA FoundFacts ==
    ASSUME Typed, NEW c \in Calls
    PROVE  /\ Found(c) \in SUBSET Ids
           /\ call[c].pending => Found(c) \subseteq pel[c]
           /\ ~call[c].pending => Found(c) \subseteq {i \in kept : i > group[GroupOf(c)].at}
BY DEF Typed, Found, Least

LEMMA ReadIs ==
    ASSUME Typed, NEW c \in Calls, Read(c)
    PROVE  \E s \in Records :
              \/ Discards(c) /\ Quiet(c, s)
              \/ /\ ~Discards(c) /\ call' = [call EXCEPT ![c] = s] /\ s.pc = "handling" /\ SameLife(call[c], s)
                 /\ s.inHand \cup s.batch = Found(c) /\ s.inHand \cap s.batch = {}
                 /\ s.acking = call[c].acking /\ s.next = call[c].next /\ s.end = call[c].end
<1>1. call[c] \in Records /\ call[c].pc = "reading" /\ Found(c) \in SUBSET Ids
  BY FoundFacts DEF Typed, Read
<1>2. CASE Discards(c)
  <2>1. call' = [call EXCEPT ![c] = Again(call[c])]
    BY <1>2 DEF Read, Set
  <2>2. Quiet(c, Again(call[c])) /\ Again(call[c]) \in Records
    BY <1>1, <2>1, AgainIs, MoveIsQuiet DEF Looping
  <2> QED
    BY <1>2, <2>2
<1>3. CASE ~Discards(c)
  <2> DEFINE r == [call[c] EXCEPT !.pc = "handling"]
             s == TakeSlice(r, Found(c))
  <2>1. call' = [call EXCEPT ![c] = s]
    BY <1>3 DEF Read, Set
  <2>2. r \in Records /\ r.pc = "handling" /\ SameLife(call[c], r) /\ SameWork(call[c], r) /\ r.end = call[c].end
    BY <1>1, StageFacts, SetsStage
  <2> HIDE DEF r
  <2>3. /\ s \in Records /\ s.pc = r.pc /\ SameLife(r, s) /\ s.end = r.end
        /\ s.inHand \cup s.batch = Found(c) /\ s.inHand \cap s.batch = {} /\ s.acking = r.acking /\ s.next = r.next
    BY <1>1, <2>2, TakeSliceIs
  <2> HIDE DEF s
  <2> QED
    BY <1>3, <2>1, <2>2, <2>3 DEF SameLife, SameWork
<1> QED
  BY <1>2, <1>3

LEMMA HandledIs ==
    ASSUME Typed, NEW c \in Calls, NEW i \in Ids, Handled(c, i)
    PROVE  \E s \in Records :
              /\ call' = [call EXCEPT ![c] = s] /\ s.pc = call[c].pc /\ SameLife(call[c], s)
              /\ s.batch = call[c].batch /\ s.inHand = call[c].inHand \ {i} /\ s.acking = call[c].acking \cup {i}
              /\ s.next = call[c].next /\ s.end = call[c].end
<1>1. call[c] \in Records
  BY DEF Typed
<1> DEFINE a == call[c].inHand \ {i}
           b == call[c].acking \cup {i}
           s == [call[c] EXCEPT !.inHand = a, !.acking = b]
<1>2. call' = [call EXCEPT ![c] = s]
  BY DEF Handled, Set
<1>3. a \in SUBSET Ids /\ b \in SUBSET Ids
  BY <1>1 DEF Records
<1> HIDE DEF a, b
<1>4. /\ s \in Records /\ s.pc = call[c].pc /\ SameLife(call[c], s) /\ s.batch = call[c].batch
      /\ s.inHand = a /\ s.acking = b /\ s.next = call[c].next /\ s.end = call[c].end
  BY <1>1, <1>3, Zenon DEF Records, SameLife
<1> HIDE DEF s
<1> QED
  BY <1>2, <1>4 DEF a, b

\* The end of an entry: what is in hand and waiting is what it was, but for the entry.
Ends(c, s) ==
    /\ call' = [call EXCEPT ![c] = s] /\ SameLife(call[c], s) /\ s.next = call[c].next /\ s.end = call[c].end
    /\ s.inHand \cap s.batch = {} /\ s.inHand \cup s.batch \subseteq call[c].inHand \cup call[c].batch
    /\ s.acking \subseteq call[c].acking
    /\ \/ s.pc = call[c].pc
       \/ (s.pc = "reading" \/ s.pc = "stopped") /\ s.inHand = {} /\ s.batch = {} /\ s.acking = {}

LEMMA UndecodedIs ==
    ASSUME Typed, NEW c \in Calls, NEW i \in Ids, Undecoded(c, i), call[c].batch \cap call[c].inHand = {}
    PROVE  \E s \in Records : Ends(c, s)
<1>1. call[c] \in Records
  BY DEF Typed
<1> DEFINE a == call[c].inHand \ {i}
           r == [call[c] EXCEPT !.inHand = a]
<1>2. call' = [call EXCEPT ![c] = NextSlice(r)] /\ i \in call[c].inHand
  BY DEF Undecoded, Set
<1>3. a \in SUBSET Ids /\ a \subseteq call[c].inHand
  BY <1>1 DEF Records
<1> HIDE DEF a
<1>4. /\ r \in Records /\ r.pc = call[c].pc /\ SameLife(call[c], r) /\ r.batch = call[c].batch
      /\ r.inHand = a /\ r.acking = call[c].acking /\ r.next = call[c].next /\ r.end = call[c].end
  BY <1>1, <1>3, Zenon DEF Records, SameLife
<1> HIDE DEF r
<1>5. r.batch \cap r.inHand = {}
  BY <1>3, <1>4
<1> DEFINE s == NextSlice(r)
<1>6. /\ s \in Records /\ SameLife(r, s) /\ s.end = r.end /\ s.acking = r.acking /\ s.next = r.next
      /\ s.inHand \cup s.batch = r.inHand \cup r.batch /\ s.inHand \cap s.batch = {}
      /\ \/ s.pc = r.pc
         \/ (s.pc = "reading" \/ s.pc = "stopped") /\ s.inHand = {} /\ s.batch = {} /\ s.acking = {}
  BY <1>4, <1>5, NextSliceIs
<1> HIDE DEF s
<1>7. call' = [call EXCEPT ![c] = s]
  BY <1>2 DEF s
<1> QED
  BY <1>2, <1>3, <1>4, <1>6, <1>7 DEF Ends, SameLife

LEMMA AckIs ==
    ASSUME Typed, NEW c \in Calls, NEW i \in Ids, Ack(c, i), call[c].batch \cap call[c].inHand = {}
    PROVE  \E s \in Records : Ends(c, s)
<1>1. call[c] \in Records
  BY DEF Typed
<1> DEFINE a == call[c].acking \ {i}
           r == [call[c] EXCEPT !.acking = a]
<1>2. call' = [call EXCEPT ![c] = NextSlice(r)]
  BY DEF Ack, Set
<1>3. a \in SUBSET Ids
  BY <1>1 DEF Records
<1> HIDE DEF a
<1>4. /\ r \in Records /\ r.pc = call[c].pc /\ SameLife(call[c], r) /\ r.batch = call[c].batch
      /\ r.inHand = call[c].inHand /\ r.acking = a /\ r.next = call[c].next /\ r.end = call[c].end
  BY <1>1, <1>3, Zenon DEF Records, SameLife
<1> HIDE DEF r
<1> DEFINE s == NextSlice(r)
<1>6. /\ s \in Records /\ SameLife(r, s) /\ s.end = r.end /\ s.acking = r.acking /\ s.next = r.next
      /\ s.inHand \cup s.batch = r.inHand \cup r.batch /\ s.inHand \cap s.batch = {}
      /\ \/ s.pc = r.pc
         \/ (s.pc = "reading" \/ s.pc = "stopped") /\ s.inHand = {} /\ s.batch = {} /\ s.acking = {}
  BY <1>4, NextSliceIs
<1> HIDE DEF s
<1>7. call' = [call EXCEPT ![c] = s]
  BY <1>2 DEF s
<1> QED
  BY <1>4, <1>6, <1>7 DEF Ends, SameLife, a

LEMMA SubscribeIs ==
    ASSUME Typed, NEW c \in Calls, Subscribe(c)
    PROVE  \E s \in Records :
              /\ call' = [call EXCEPT ![c] = s] /\ s.batch = {} /\ s.inHand = {} /\ s.acking = {} /\ s.pending = FALSE
              /\ s.next = 0 /\ s.end = 0
              /\ \/ Refused(c) /\ s.pc = "refused" /\ s.conn = FALSE /\ UNCHANGED registry
                 \/ ~Refused(c) /\ s.pc = "creating" /\ registry' = [registry EXCEPT ![ClientOf(c)] = @ \cup {GroupOf(c)}]
<1>1. CASE Refused(c)
  <2> DEFINE s == [NewCall EXCEPT !.pc = "refused"]
  <2>1. call' = [call EXCEPT ![c] = s] /\ UNCHANGED registry /\ s \in Records
    BY <1>1, NewCallIsRecord, StageFacts DEF Subscribe, Set
  <2>2. s.batch = {} /\ s.inHand = {} /\ s.acking = {} /\ s.pc = "refused" /\ s.conn = FALSE /\ s.pending = FALSE
        /\ s.next = 0 /\ s.end = 0
    BY DEF NewCall
  <2> HIDE DEF s
  <2> QED
    BY <1>1, <2>1, <2>2
<1>2. CASE ~Refused(c)
  <2> DEFINE s == [NewCall EXCEPT !.pc = "creating", !.conn = TRUE]
  <2>1. call' = [call EXCEPT ![c] = s] /\ registry' = [registry EXCEPT ![ClientOf(c)] = @ \cup {GroupOf(c)}]
        /\ s \in Records
    BY <1>2, NewCallIsRecord, StageFacts DEF Subscribe, Set
  <2>2. s.batch = {} /\ s.inHand = {} /\ s.acking = {} /\ s.pc = "creating" /\ s.pending = FALSE /\ s.next = 0 /\ s.end = 0
    BY DEF NewCall
  <2> HIDE DEF s
  <2> QED
    BY <1>2, <2>1, <2>2
<1> QED
  BY <1>1, <1>2

LEMMA ReplayIs ==
    ASSUME Typed, NEW c \in Calls, Replay(c)
    PROVE  \E s \in Records :
              /\ call' = [call EXCEPT ![c] = s] /\ s.pc = "length" /\ s.batch = {} /\ s.inHand = {} /\ s.acking = {}
              /\ s.pending = FALSE /\ s.next = 0 /\ s.end = 0
<1> DEFINE s == [NewCall EXCEPT !.pc = "length", !.running = TRUE, !.conn = TRUE]
<1>1. call' = [call EXCEPT ![c] = s] /\ s \in Records
  BY NewCallIsRecord, StageFacts DEF Replay, Set
<1>2. s.batch = {} /\ s.inHand = {} /\ s.acking = {} /\ s.pc = "length" /\ s.pending = FALSE /\ s.next = 0 /\ s.end = 0
  BY DEF NewCall
<1> HIDE DEF s
<1> QED
  BY <1>1, <1>2

\* What a page holds.
OfPage(c) == Least({i \in kept : i >= call[c].next}, Batch(c))

LEMMA PageIs ==
    ASSUME Typed, NEW c \in Calls, Page(c)
    PROVE  \E s \in Records :
              /\ SameLife(call[c], s) /\ s.inHand = call[c].inHand /\ s.acking = call[c].acking
              /\ s.next = call[c].next /\ s.end = call[c].end
              /\ \/ /\ Quiet(c, s)
                    /\ s.pc = "closed" \/ (s.pc = "done" /\ OfPage(c) = {})
                 \/ /\ call' = [call EXCEPT ![c] = s] /\ s.pc = "handling" /\ s.batch = OfPage(c)
                    /\ s.short = (Cardinality(OfPage(c)) < Batch(c))
<1>1. call[c] \in Records /\ call[c].pc = "paging" /\ OfPage(c) \in SUBSET Ids
  BY DEF Typed, Page, OfPage, Least
<1>2. CASE OfPage(c) = {} \/ ~call[c].running
  <2> DEFINE s == Finish(call[c])
  <2>1. call' = [call EXCEPT ![c] = s]
    BY <1>2, Zenon DEF Page, OfPage, Set
  <2>2. s \in Records /\ SameLife(call[c], s) /\ SameWork(call[c], s) /\ s.end = call[c].end
        /\ ((s.pc = "done" /\ call[c].running) \/ (s.pc = "closed" /\ ~call[c].running))
    BY <1>1, FinishIs
  <2> HIDE DEF s
  <2>3. Quiet(c, s)
    BY <1>1, <2>1, <2>2, StageFacts DEF Quiet, Looping, Paging, SameLife
  <2> QED
    BY <1>2, <2>2, <2>3 DEF SameWork
<1>3. CASE ~(OfPage(c) = {} \/ ~call[c].running)
  <2> DEFINE short == Cardinality(OfPage(c)) < Batch(c)
             s == [call[c] EXCEPT !.pc = "handling", !.batch = OfPage(c), !.short = short]
  <2>1. call' = [call EXCEPT ![c] = s]
    BY <1>3, Zenon DEF Page, OfPage, Set
  <2>2. short \in BOOLEAN /\ "handling" \in Stages
    BY StageFacts
  <2> HIDE DEF short
  <2>3. /\ s \in Records /\ s.pc = "handling" /\ s.batch = OfPage(c) /\ s.short = short /\ SameLife(call[c], s)
        /\ s.inHand = call[c].inHand /\ s.acking = call[c].acking /\ s.next = call[c].next /\ s.end = call[c].end
    BY <1>1, <2>2, Zenon DEF Records, SameLife
  <2> HIDE DEF s
  <2> QED
    BY <2>1, <2>3 DEF short
<1> QED
  BY <1>2, <1>3

LEMMA PageEndIs ==
    ASSUME NEW r \in Records
    PROVE  LET s == PageEnd(r)
           IN  /\ s \in Records /\ SameLife(r, s) /\ SameWork(r, s) /\ s.end = r.end
               /\ \/ s.pc = "paging" \/ s.pc = "closed"
                  \/ s.pc = "done" /\ r.running /\ (r.short \/ (r.end > 0 /\ AtOrAfter(r.next, r.end)))
<1> DEFINE e == r.short \/ (r.end > 0 /\ AtOrAfter(r.next, r.end))
<1>1. CASE e
  BY <1>1, FinishIs DEF PageEnd
<1>2. CASE ~e
  BY <1>2, NextPageIs DEF PageEnd
<1> QED
  BY <1>1, <1>2

LEMMA IdsAreNumbers == \A i \in Ids : i \in Nat /\ i >= 1
BY SizeAssumption DEF Ids

LEMMA ReplayedIs ==
    ASSUME Typed, NEW c \in Calls, Replayed(c)
    PROVE  \E s \in Records : \E i \in call[c].batch :
              /\ \A j \in call[c].batch : i <= j
              /\ handled' = [handled EXCEPT ![c] = @ \cup {i}]
              /\ call' = [call EXCEPT ![c] = s] /\ SameLife(call[c], s) /\ s.end = call[c].end
              /\ s.inHand = call[c].inHand /\ s.acking = call[c].acking /\ s.short = call[c].short
              /\ s.next = i + 1
              /\ \/ s.pc = call[c].pc /\ s.batch = call[c].batch \ {i}
                 \/ (s.pc = "paging" \/ s.pc = "closed") /\ s.batch = {}
                 \/ /\ s.pc = "done" /\ s.batch = {} /\ call[c].batch \ {i} = {}
                    /\ s.short \/ (s.end > 0 /\ AtOrAfter(s.next, s.end))
<1>1. call[c] \in Records
  BY DEF Typed
<1>2. PICK i \in call[c].batch :
         LET r == [call[c] EXCEPT !.batch = IF call[c].running THEN @ \ {i} ELSE {}, !.next = i + 1]
         IN  /\ \A j \in call[c].batch : i <= j
             /\ handled' = [handled EXCEPT ![c] = @ \cup {i}]
             /\ Set(c, IF r.batch = {} THEN PageEnd(r) ELSE r)
  BY Zenon DEF Replayed
<1> DEFINE b == IF call[c].running THEN call[c].batch \ {i} ELSE {}
           n == i + 1
           r == [call[c] EXCEPT !.batch = b, !.next = n]
           s == IF r.batch = {} THEN PageEnd(r) ELSE r
<1>3. (\A j \in call[c].batch : i <= j) /\ handled' = [handled EXCEPT ![c] = @ \cup {i}]
  BY <1>2
<1>4. call' = [call EXCEPT ![c] = s]
  BY <1>2 DEF Set
<1>5. b \in SUBSET Ids /\ i \in Ids
  BY <1>1 DEF Records
<1>6. n \in Nat
  BY <1>5, IdsAreNumbers
<1>7. call[c].running => b = call[c].batch \ {i}
  OBVIOUS
<1>8. b = call[c].batch \ {i} \/ b = {}
  OBVIOUS
<1> HIDE DEF b
<1>9. n = i + 1
  OBVIOUS
<1> HIDE DEF n
<1>10. /\ r \in Records /\ r.pc = call[c].pc /\ SameLife(call[c], r) /\ r.batch = b /\ r.next = n
       /\ r.inHand = call[c].inHand /\ r.acking = call[c].acking /\ r.end = call[c].end /\ r.short = call[c].short
  BY <1>1, <1>5, <1>6, Zenon DEF Records, SameLife
<1> HIDE DEF r
<1>11. CASE b # {}
  <2>1. s = r
    BY <1>10, <1>11
  <2> HIDE DEF s
  <2> QED
    BY <1>3, <1>4, <1>8, <1>9, <1>10, <1>11, <2>1 DEF SameLife
<1>12. CASE b = {}
  <2>1. s = PageEnd(r)
    BY <1>10, <1>12
  <2> HIDE DEF s
  <2>2. /\ s \in Records /\ SameLife(r, s) /\ SameWork(r, s) /\ s.end = r.end
        /\ \/ s.pc = "paging" \/ s.pc = "closed"
           \/ s.pc = "done" /\ r.running /\ (r.short \/ (r.end > 0 /\ AtOrAfter(r.next, r.end)))
    BY <1>10, <2>1, PageEndIs
  <2>3. s.batch = {} /\ s.inHand = call[c].inHand /\ s.acking = call[c].acking /\ s.short = call[c].short /\ s.next = i + 1
        /\ s.end = call[c].end /\ SameLife(call[c], s)
    BY <1>9, <1>10, <1>12, <2>2 DEF SameLife, SameWork
  <2>4. s.pc = "done" => /\ call[c].batch \ {i} = {}
                         /\ s.short \/ (s.end > 0 /\ AtOrAfter(s.next, s.end))
    BY <1>7, <1>10, <1>12, <2>2 DEF SameLife, SameWork
  <2> QED
    BY <1>3, <1>4, <2>2, <2>3, <2>4
<1> QED
  BY <1>11, <1>12

LEMMA ShutdownNextIs ==
    ASSUME Typed, NEW k \in Clients, ShutdownNext(k)
    PROVE  \E c \in Calls : \E s \in Records : Quiet(c, s)
<1>1. PICK c \in CallsOf(k) : Open(c) /\ Set(c, Closed(c))
  BY DEF ShutdownNext
<1>2. c \in Calls /\ call[c] \in Records /\ call[c].pc \notin Settled /\ call' = [call EXCEPT ![c] = Closed(c)]
  BY <1>1 DEF CallsOf, Typed, Open, Set
<1> QED
  BY <1>2, ClosedIs, CloseIsQuiet

\* What becomes of every call when its client ends.
LEMMA ShutdownEndIs ==
    ASSUME Typed, NEW k \in Clients, ShutdownEnd(k)
    PROVE  /\ call' \in [Calls -> Records]
           /\ \A c \in Calls : /\ call'[c].pc = call[c].pc /\ SameWork(call[c], call'[c]) /\ call'[c].end = call[c].end
                               /\ call'[c].pending = call[c].pending
                               /\ call'[c].conn => call[c].conn /\ ClientOf(c) # k
<1>1. call' = [c \in Calls |-> IF ClientOf(c) = k THEN [call[c] EXCEPT !.conn = FALSE] ELSE call[c]]
  BY DEF ShutdownEnd
<1>2. ASSUME NEW c \in Calls
      PROVE  /\ [call[c] EXCEPT !.conn = FALSE] \in Records /\ [call[c] EXCEPT !.conn = FALSE].conn = FALSE
             /\ [call[c] EXCEPT !.conn = FALSE].pc = call[c].pc /\ SameWork(call[c], [call[c] EXCEPT !.conn = FALSE])
             /\ [call[c] EXCEPT !.conn = FALSE].end = call[c].end
             /\ [call[c] EXCEPT !.conn = FALSE].pending = call[c].pending
  <2>1. call[c] \in Records /\ FALSE \in BOOLEAN
    BY DEF Typed
  <2> QED
    BY <2>1, Zenon DEF Records, SameWork
<1>3. ASSUME NEW c \in Calls
      PROVE  /\ call'[c] \in Records /\ call'[c].pc = call[c].pc /\ SameWork(call[c], call'[c]) /\ call'[c].end = call[c].end
             /\ call'[c].pending = call[c].pending
             /\ call'[c].conn => call[c].conn /\ ClientOf(c) # k
  <2>1. call[c] \in Records
    BY DEF Typed
  <2>2. CASE ClientOf(c) = k
    <3>1. call'[c] = [call[c] EXCEPT !.conn = FALSE]
      BY <1>1, <2>2
    <3> QED
      BY <1>2, <3>1
  <2>3. CASE ClientOf(c) # k
    <3>1. call'[c] = call[c]
      BY <1>1, <2>3
    <3> QED
      BY <2>1, <2>3, <3>1 DEF SameWork
  <2> QED
    BY <2>2, <2>3
<1> QED
  BY <1>1, <1>3

LEMMA CrashIs ==
    ASSUME Typed, NEW k \in Clients, Crash(k)
    PROVE  /\ call' \in [Calls -> Records]
           /\ \A c \in Calls : /\ ClientOf(c) = k => call'[c].pc \in Settled
                               /\ \/ call'[c] = call[c]
                                  \/ /\ call'[c].pc = "crashed" /\ call'[c].batch = {} /\ call'[c].inHand = {}
                                     /\ call'[c].acking = {} /\ call'[c].pending = FALSE /\ call'[c].next = 0
                                     /\ call'[c].end = 0
<1> DEFINE s == [NewCall EXCEPT !.pc = "crashed"]
<1>1. call' = [c \in Calls |-> IF ClientOf(c) = k /\ call[c].pc \notin Settled THEN s ELSE call[c]]
  BY DEF Crash
<1>2. s \in Records
  BY NewCallIsRecord, StageFacts
<1>3. s.pc = "crashed" /\ s.batch = {} /\ s.inHand = {} /\ s.acking = {} /\ s.pending = FALSE /\ s.next = 0 /\ s.end = 0
  BY DEF NewCall
<1>4. \A c \in Calls : call[c] \in Records
  BY DEF Typed
<1> HIDE DEF s
<1> QED
  BY <1>1, <1>2, <1>3, <1>4 DEF Settled


---------------------------------------------------------------------------
(* Types, and what calls hold when *)

\* Only a call that is handling holds entries, none twice; what is to be acknowledged has been handled; a hot call reads new
\* entries only. Only a subscription has a loop, and only a replay reads pages.
Holds(c) == /\ call[c].pc # "handling" => call[c].batch = {} /\ call[c].inHand = {} /\ call[c].acking = {}
            /\ call[c].batch \cap call[c].inHand = {}
            /\ call[c].acking \subseteq handled[c]
            /\ c \notin Subscriptions => call[c].inHand = {} /\ call[c].acking = {}
            /\ Kind(c) = "hot" => call[c].pending = FALSE
            /\ call[c].pc \in Looping => c \in Subscriptions
            /\ call[c].pc \in Paging => c \notin Subscriptions
Work == \A c \in Calls : Holds(c)

LEMMA InitTypeOK == Init => TypeOK /\ Work
<1> SUFFICES ASSUME Init PROVE TypeOK /\ Work
  OBVIOUS
<1>1. MaxEntries[plan] \in Nat /\ MaxFaults \in Nat
  BY PlanFacts DEF Init
<1>2. call \in [Calls -> Records] /\ \A c \in Calls : call[c] = NewCall
  BY NewCallIsRecord, Zenon DEF Init
<1>3. last \in 0 .. MaxEntries[plan] /\ kept \subseteq 1 .. last
  BY <1>1 DEF Init
<1>4. NewCall.pc = "idle" /\ NewCall.batch = {} /\ NewCall.inHand = {} /\ NewCall.acking = {} /\ NewCall.pending = FALSE
  BY DEF NewCall
<1> QED
  BY <1>1, <1>2, <1>3, <1>4 DEF Init, TypeOK, Work, Holds, NoGroup, Absent, Looping, Paging

LEMMA PlanStays ==
    ASSUME plan' = plan
    PROVE  /\ Subscriptions' = Subscriptions /\ Replays' = Replays
           /\ \A c : Kind(c)' = Kind(c) /\ GroupOf(c)' = GroupOf(c) /\ ClientOf(c)' = ClientOf(c)
           /\ \A g : HotIn(g)' = HotIn(g) /\ ColdHotIn(g)' = ColdHotIn(g) /\ Restarts(g)' = Restarts(g)
BY DEF Subscriptions, Replays, Kind, GroupOf, ClientOf, HotIn, ColdHotIn, Restarts

\* Enough to see to the call that moves.
LEMMA OneHolds ==
    ASSUME Typed, Work, plan' = plan, \A d \in Calls : handled[d] \subseteq handled'[d],
           NEW c \in Calls, NEW s \in Records, call' = [call EXCEPT ![c] = s],
           s.pc # "handling" => s.batch = {} /\ s.inHand = {} /\ s.acking = {},
           s.batch \cap s.inHand = {}, s.acking \subseteq handled'[c],
           c \notin Subscriptions => s.inHand = {} /\ s.acking = {},
           Kind(c) = "hot" => s.pending = FALSE, s.pc \in Looping => c \in Subscriptions,
           s.pc \in Paging => c \notin Subscriptions
    PROVE  call' \in [Calls -> Records] /\ Work'
<1>1. call' \in [Calls -> Records] /\ call'[c] = s /\ \A d \in Calls : d # c => call'[d] = call[d]
  BY SetCall DEF Typed
<1>2. ASSUME NEW d \in Calls, d # c PROVE Holds(d)'
  BY <1>1, <1>2, PlanStays DEF Work, Holds
<1>3. Holds(c)'
  BY <1>1, PlanStays DEF Holds
<1> QED
  BY <1>1, <1>2, <1>3 DEF Work

LEMMA QuietHolds ==
    ASSUME Typed, Work, plan' = plan, handled' = handled, NEW c \in Calls, NEW s \in Records, Quiet(c, s)
    PROVE  call' \in [Calls -> Records] /\ Work'
<1>1. Holds(c) /\ call[c] \in Records
  BY DEF Work, Typed
<1>2. Kind(c) = "hot" => s.pending = FALSE
  BY <1>1 DEF Quiet, Holds, Records
<1> QED
  BY <1>1, <1>2, OneHolds DEF Quiet, SameWork, Holds

LEMMA EndHolds ==
    ASSUME Typed, Work, plan' = plan, handled' = handled, NEW c \in Calls, c \in Subscriptions, NEW s \in Records, Ends(c, s)
    PROVE  call' \in [Calls -> Records] /\ Work'
<1>1. Holds(c)
  BY DEF Work
<1> QED
  BY <1>1, OneHolds DEF Ends, SameLife, Holds, Looping, Paging

\* The rest of a step that leaves plan, stream, groups and history alone.
LEMMA OnlyCallsChange ==
    ASSUME TypeOK, Typed, call' \in [Calls -> Records], UNCHANGED <<plan, server, client, handled, skipped>>,
           registry' \in [Clients -> SUBSET Groups], Fault \/ UNCHANGED faults
    PROVE  TypeOK'
BY DEF TypeOK, Typed, server, Fault

LEMMA CallStepTyped ==
    ASSUME TypeOK, Work, NEW c \in Calls,
           \/ Subscribe(c) \/ Replay(c) \/ Moves(c) \/ Read(c) \/ Page(c) \/ Replayed(c)
           \/ \E i \in Ids : Handled(c, i) \/ Ack(c, i) \/ Undecoded(c, i)
    PROVE  TypeOK' /\ Work'
<1>t. Typed
  BY TypedFacts
<1>h. Holds(c) /\ call[c] \in Records /\ pel[c] \in SUBSET Ids /\ handled[c] \in SUBSET Ids
      /\ GroupOf(c) \in Groups /\ ClientOf(c) \in Clients /\ last \in Nat
  BY <1>t DEF Work, Typed
<1>1. CASE Subscribe(c)
  <2>1. PICK s \in Records :
              /\ call' = [call EXCEPT ![c] = s] /\ s.batch = {} /\ s.inHand = {} /\ s.acking = {} /\ s.pending = FALSE
              /\ s.pc \notin Paging
    BY <1>t, <1>1, SubscribeIs DEF Paging
  <2>2. UNCHANGED <<plan, server, client, handled, skipped, faults>> /\ registry' \in [Clients -> SUBSET Groups]
        /\ c \in Subscriptions
    BY <1>t, <1>h, <1>1 DEF Subscribe, Typed
  <2>3. call' \in [Calls -> Records] /\ Work'
    BY <1>t, <2>1, <2>2, OneHolds
  <2> QED
    BY <1>t, <2>2, <2>3, OnlyCallsChange
<1>2. CASE Replay(c)
  <2>1. PICK s \in Records :
              /\ call' = [call EXCEPT ![c] = s] /\ s.batch = {} /\ s.inHand = {} /\ s.acking = {} /\ s.pending = FALSE
              /\ s.pc \notin Looping
    BY <1>t, <1>2, ReplayIs DEF Looping
  <2>2. UNCHANGED <<plan, server, client, handled, skipped, faults>> /\ registry' \in [Clients -> SUBSET Groups]
        /\ c \notin Subscriptions
    BY <1>t, <1>2, PlanFacts DEF Replay, Typed
  <2>3. call' \in [Calls -> Records] /\ Work'
    BY <1>t, <2>1, <2>2, OneHolds
  <2> QED
    BY <1>t, <2>2, <2>3, OnlyCallsChange
<1>3. CASE Moves(c)
  <2>1. PICK s \in Records : Quiet(c, s)
    BY <1>h, <1>3, MovesAreQuiet
  <2>2. UNCHANGED <<plan, last, kept, client, handled, skipped>> /\ (Fault \/ UNCHANGED faults)
    BY <1>3 DEF Moves, GroupCreated, GroupFails, ReadNothing, ReadFails, Resume, Length, LastId, PageFails, LoopEnded, Quit,
                Close, server
  <2>3. call' \in [Calls -> Records] /\ Work'
    BY <1>t, <2>1, <2>2, QuietHolds
  <2>4. registry' \in [Clients -> SUBSET Groups]
    <3>1. UNCHANGED registry \/ registry' = [registry EXCEPT ![ClientOf(c)] = @ \ {GroupOf(c)}]
      BY <1>3 DEF Moves, GroupCreated, GroupFails, ReadNothing, ReadFails, Resume, Length, LastId, PageFails, LoopEnded, Quit,
                  Close
    <3> QED
      BY <1>t, <1>h, <3>1 DEF Typed
  <2>5. group' \in [Groups -> [at : Nat \cup {Absent}, from : Nat]] /\ pel' \in [Calls -> SUBSET Ids]
    <3>1. CASE GroupCreated(c)
      <4>1. StartId(c) \in Nat
        BY <1>h DEF StartId
      <4>2. [at |-> StartId(c), from |-> StartId(c)] \in [at : Nat \cup {Absent}, from : Nat]
        BY <4>1
      <4> QED
        BY <1>t, <1>h, <3>1, <4>2 DEF GroupCreated, Typed
    <3>2. CASE LoopEnded(c)
      <4>1. \/ UNCHANGED <<group, pel>>
            \/ /\ group' = [group EXCEPT ![GroupOf(c)] = NoGroup]
               /\ pel' = [d \in Calls |-> IF GroupOf(d) = GroupOf(c) THEN {} ELSE pel[d]]
        BY <3>2 DEF LoopEnded
      <4>2. NoGroup \in [at : Nat \cup {Absent}, from : Nat]
        BY DEF NoGroup
      <4>3. group' \in [Groups -> [at : Nat \cup {Absent}, from : Nat]]
        BY <1>t, <4>1, <4>2, Zenon DEF Typed
      <4>4. pel' \in [Calls -> SUBSET Ids]
        BY <1>t, <4>1 DEF Typed
      <4> QED
        BY <4>3, <4>4
    <3>3. CASE ~GroupCreated(c) /\ ~LoopEnded(c)
      <4>1. UNCHANGED <<group, pel>>
        BY <1>3, <3>3 DEF Moves, GroupFails, ReadNothing, ReadFails, Resume, Length, LastId, PageFails, Quit, Close, server
      <4> QED
        BY <1>t, <4>1 DEF Typed
    <3> QED
      BY <3>1, <3>2, <3>3
  <2>6. faults' \in 0 .. MaxFaults
    BY <1>t, <2>2 DEF Typed, Fault
  <2> QED
    BY <2>2, <2>3, <2>4, <2>5, <2>6 DEF TypeOK
<1>4. CASE Read(c)
  <2>1. UNCHANGED <<plan, last, kept, registry, client, handled, skipped, faults>> /\ c \in Subscriptions
        /\ pel' = [pel EXCEPT ![c] = @ \cup Found(c)]
        /\ call[c].pc = "reading"
        /\ \E m \in Found(c) : group' = group \/ group' = [group EXCEPT ![GroupOf(c)].at = m]
    BY <1>4 DEF Read, Delivered
  <2>2. PICK s \in Records :
              \/ Discards(c) /\ Quiet(c, s)
              \/ /\ ~Discards(c) /\ call' = [call EXCEPT ![c] = s] /\ s.pc = "handling" /\ SameLife(call[c], s)
                 /\ s.inHand \cup s.batch = Found(c) /\ s.inHand \cap s.batch = {}
                 /\ s.acking = call[c].acking /\ s.next = call[c].next /\ s.end = call[c].end
    BY <1>t, <1>4, ReadIs
  <2>3. Found(c) \in SUBSET Ids
    BY <1>t, FoundFacts
  <2>4. call' \in [Calls -> Records] /\ Work'
    <3>1. CASE Quiet(c, s)
      BY <1>t, <2>1, <3>1, QuietHolds
    <3>2. CASE ~Quiet(c, s)
      <4>1. call' = [call EXCEPT ![c] = s] /\ s.pc = "handling" /\ s.inHand \cap s.batch = {} /\ s.acking = {}
            /\ s.pending = call[c].pending
        BY <1>h, <2>1, <2>2, <3>2 DEF Holds, SameLife
      <4> QED
        BY <1>t, <1>h, <2>1, <4>1, OneHolds DEF Holds, Paging
    <3> QED
      BY <3>1, <3>2
  <2>5. pel' \in [Calls -> SUBSET Ids]
    BY <1>t, <1>h, <2>1, <2>3 DEF Typed
  <2>6. group' \in [Groups -> [at : Nat \cup {Absent}, from : Nat]]
    <3>1. PICK m \in Found(c) : group' = group \/ group' = [group EXCEPT ![GroupOf(c)].at = m]
      BY <2>1
    <3>2. m \in Nat
      BY <2>3, IdsAreNumbers
    <3> QED
      BY <1>t, <3>1, <3>2, Zenon DEF Typed
  <2> QED
    BY <2>1, <2>4, <2>5, <2>6 DEF TypeOK
<1>5. CASE Page(c)
  <2>1. PICK s \in Records :
              /\ SameLife(call[c], s) /\ s.inHand = call[c].inHand /\ s.acking = call[c].acking
              /\ \/ Quiet(c, s)
                 \/ call' = [call EXCEPT ![c] = s] /\ s.pc = "handling"
    BY <1>t, <1>5, PageIs
  <2>2. UNCHANGED <<plan, server, registry, client, handled, skipped, faults>> /\ call[c].pc = "paging"
    BY <1>5 DEF Page
  <2>3. call' \in [Calls -> Records] /\ Work'
    <3>1. CASE Quiet(c, s)
      BY <1>t, <2>2, <3>1, QuietHolds
    <3>2. CASE ~Quiet(c, s)
      <4>1. call' = [call EXCEPT ![c] = s] /\ s.pc = "handling" /\ s.inHand = {} /\ s.acking = {}
            /\ s.pending = call[c].pending
        BY <1>h, <2>1, <2>2, <3>2 DEF Holds, SameLife
      <4> QED
        BY <1>t, <1>h, <2>2, <4>1, OneHolds DEF Holds, Looping, Paging
    <3> QED
      BY <3>1, <3>2
  <2> QED
    BY <1>t, <2>2, <2>3, OnlyCallsChange DEF Typed
<1>6. CASE Replayed(c)
  <2>1. PICK s \in Records, i \in call[c].batch :
              /\ handled' = [handled EXCEPT ![c] = @ \cup {i}]
              /\ call' = [call EXCEPT ![c] = s] /\ SameLife(call[c], s)
              /\ s.inHand = call[c].inHand /\ s.acking = call[c].acking
              /\ \/ s.pc = call[c].pc
                 \/ (s.pc = "paging" \/ s.pc = "closed" \/ s.pc = "done") /\ s.batch = {}
    BY <1>t, <1>6, ReplayedIs
  <2>2. UNCHANGED <<plan, server, registry, client, skipped, faults>> /\ call[c].pc = "handling" /\ c \notin Subscriptions
    <3>1. c \in Replays /\ plan \in Plans
      BY <1>t, <1>6 DEF Replayed, Typed
    <3> QED
      BY <1>6, <3>1, PlanFacts DEF Replayed
  <2>3. handled' \in [Calls -> SUBSET Ids] /\ \A d \in Calls : handled[d] \subseteq handled'[d]
    <3>1. i \in Ids
      BY <1>h DEF Records
    <3> QED
      BY <1>t, <1>h, <2>1, <3>1 DEF Typed
  <2>4. call' \in [Calls -> Records] /\ Work'
    <3>1. s.inHand = {} /\ s.acking = {} /\ s.pending = call[c].pending
      BY <1>h, <2>1, <2>2 DEF Holds, SameLife
    <3>2. s.pc # "handling" => s.batch = {}
      BY <2>1, <2>2
    <3> QED
      BY <1>t, <1>h, <2>1, <2>2, <2>3, <3>1, <3>2, OneHolds DEF Holds, Looping, Paging
  <2> QED
    BY <2>2, <2>3, <2>4 DEF TypeOK, server
<1>7. ASSUME NEW i \in Ids, Handled(c, i) PROVE TypeOK' /\ Work'
  <2>1. PICK s \in Records :
              /\ call' = [call EXCEPT ![c] = s] /\ s.pc = call[c].pc /\ SameLife(call[c], s)
              /\ s.batch = call[c].batch /\ s.inHand = call[c].inHand \ {i} /\ s.acking = call[c].acking \cup {i}
    BY <1>t, <1>7, HandledIs
  <2>2. UNCHANGED <<plan, server, registry, client, skipped, faults>> /\ call[c].pc = "handling" /\ c \in Subscriptions
        /\ handled' = [handled EXCEPT ![c] = @ \cup {i}]
    BY <1>7 DEF Handled
  <2>3. handled' \in [Calls -> SUBSET Ids] /\ handled'[c] = handled[c] \cup {i}
        /\ \A d \in Calls : handled[d] \subseteq handled'[d]
    BY <1>t, <1>h, <2>2 DEF Typed
  <2>4. call' \in [Calls -> Records] /\ Work'
    <3>1. s.batch \cap s.inHand = {} /\ s.acking \subseteq handled'[c] /\ s.pending = call[c].pending
      BY <1>h, <2>1, <2>3 DEF Holds, SameLife
    <3> QED
      BY <1>t, <1>h, <2>1, <2>2, <2>3, <3>1, OneHolds DEF Holds
  <2> QED
    BY <2>2, <2>3, <2>4 DEF TypeOK, server
<1>8. ASSUME NEW i \in Ids, Undecoded(c, i) PROVE TypeOK' /\ Work'
  <2>1. PICK s \in Records : Ends(c, s)
    BY <1>t, <1>h, <1>8, UndecodedIs DEF Holds
  <2>2. UNCHANGED <<plan, server, registry, client, handled>> /\ c \in Subscriptions /\ Fault /\ skipped' = skipped \cup {i}
    BY <1>8 DEF Undecoded
  <2>3. call' \in [Calls -> Records] /\ Work'
    BY <1>t, <2>1, <2>2, EndHolds
  <2>4. faults' \in 0 .. MaxFaults
    BY <1>t, <2>2 DEF Typed, Fault
  <2> QED
    BY <2>2, <2>3, <2>4 DEF TypeOK, server
<1>9. ASSUME NEW i \in Ids, Ack(c, i) PROVE TypeOK' /\ Work'
  <2>1. PICK s \in Records : Ends(c, s)
    BY <1>t, <1>h, <1>9, AckIs DEF Holds
  <2>2. UNCHANGED <<plan, last, kept, group, registry, client, handled, skipped>> /\ (Fault \/ UNCHANGED faults)
        /\ (UNCHANGED pel \/ pel' = [pel EXCEPT ![c] = @ \ {i}]) /\ c \in Subscriptions
    BY <1>h, <1>9 DEF Ack, Holds
  <2>3. call' \in [Calls -> Records] /\ Work'
    BY <1>t, <2>1, <2>2, EndHolds
  <2>4. faults' \in 0 .. MaxFaults /\ pel' \in [Calls -> SUBSET Ids]
    BY <1>t, <1>h, <2>2 DEF Typed, Fault
  <2> QED
    BY <2>2, <2>3, <2>4 DEF TypeOK
<1> QED
  BY <1>1, <1>2, <1>3, <1>4, <1>5, <1>6, <1>7, <1>8, <1>9

LEMMA NextTypeOK == TypeOK /\ Work /\ [Next]_vars => TypeOK' /\ Work'
<1> SUFFICES ASSUME TypeOK, Work, [Next]_vars PROVE TypeOK' /\ Work'
  OBVIOUS
<1>t. Typed
  BY TypedFacts
<1>1. ASSUME NEW c \in Calls,
             \/ Subscribe(c) \/ Replay(c) \/ Moves(c) \/ Read(c) \/ Page(c) \/ Replayed(c)
             \/ \E i \in Ids : Handled(c, i) \/ Ack(c, i) \/ Undecoded(c, i)
      PROVE  TypeOK' /\ Work'
  BY <1>1, CallStepTyped
<1>2. ASSUME NEW k \in Clients, NEW n \in Ids, Emit(k, n) PROVE TypeOK' /\ Work'
  <2>1. n \in Nat
    BY IdsAreNumbers
  <2>2. last' \in 0 .. MaxEntries[plan] /\ kept' \subseteq 1 .. last'
    <3>1. last' = last + n /\ last + n <= MaxEntries[plan] /\ kept' \subseteq kept \cup (last + 1 .. last + n)
      BY <1>2 DEF Emit
    <3>2. last \in Nat /\ MaxEntries[plan] \in Nat /\ kept \subseteq 1 .. last
      BY <1>t DEF Typed
    <3>3. kept \cup (last + 1 .. last + n) \subseteq 1 .. last + n
      BY <2>1, <3>2
    <3> QED
      BY <2>1, <3>1, <3>2, <3>3
  <2>3. UNCHANGED <<plan, group, pel, registry, client, call, handled, skipped, faults>>
    BY <1>2 DEF Emit
  <2>4. Work'
    BY <2>3, PlanStays DEF Work, Holds
  <2> QED
    BY <2>2, <2>3, <2>4 DEF TypeOK
<1>3. ASSUME NEW k \in Clients, Clear(k) PROVE TypeOK' /\ Work'
  <2>1. UNCHANGED <<plan, last, registry, client, call, handled, skipped>> /\ Fault /\ kept' = {}
        /\ group' = [g \in Groups |-> NoGroup] /\ pel' = [c \in Calls |-> {}]
    BY <1>3 DEF Clear
  <2>2. NoGroup \in [at : Nat \cup {Absent}, from : Nat] /\ faults' \in 0 .. MaxFaults
    BY <1>t, <2>1 DEF NoGroup, Fault, Typed
  <2>3. Work'
    BY <2>1, PlanStays DEF Work, Holds
  <2> QED
    BY <2>1, <2>2, <2>3 DEF TypeOK
<1>4. ASSUME NEW k \in Clients, Shutdown(k) PROVE TypeOK' /\ Work'
  <2>1. UNCHANGED <<plan, server, registry, call, handled, skipped, faults>>
        /\ client' = [client EXCEPT ![k] = "stopping"]
    BY <1>4 DEF Shutdown
  <2>2. Work'
    BY <2>1, PlanStays DEF Work, Holds
  <2> QED
    BY <2>1, <2>2 DEF TypeOK, server
<1>5. ASSUME NEW k \in Clients, ShutdownNext(k) PROVE TypeOK' /\ Work'
  <2>1. UNCHANGED <<plan, server, registry, client, handled, skipped, faults>>
    BY <1>5 DEF ShutdownNext
  <2>2. PICK c \in Calls, s \in Records : Quiet(c, s)
    BY <1>t, <1>5, ShutdownNextIs
  <2>3. call' \in [Calls -> Records] /\ Work'
    BY <1>t, <2>1, <2>2, QuietHolds
  <2> QED
    BY <1>t, <2>1, <2>3, OnlyCallsChange DEF Typed
<1>6. ASSUME NEW k \in Clients, ShutdownEnd(k) PROVE TypeOK' /\ Work'
  <2>1. UNCHANGED <<plan, server, handled, skipped, faults>> /\ registry' = [registry EXCEPT ![k] = {}]
        /\ client' = [client EXCEPT ![k] = "down"]
    BY <1>6 DEF ShutdownEnd
  <2>2. call' \in [Calls -> Records]
        /\ \A c \in Calls : call'[c].pc = call[c].pc /\ SameWork(call[c], call'[c]) /\ call'[c].pending = call[c].pending
    <3>1. /\ call' \in [Calls -> Records]
          /\ \A c \in Calls : /\ call'[c].pc = call[c].pc /\ SameWork(call[c], call'[c]) /\ call'[c].end = call[c].end
                              /\ call'[c].pending = call[c].pending
                              /\ call'[c].conn => call[c].conn /\ ClientOf(c) # k
      BY <1>t, <1>6, ShutdownEndIs, Zenon
    <3> QED
      BY <3>1, Zenon
  <2>3. Work'
    BY <2>1, <2>2, PlanStays DEF Work, Holds, SameWork
  <2>4. registry' \in [Clients -> SUBSET Groups] /\ client' \in [Clients -> {"up", "stopping", "down", "crashed"}]
    BY <1>t, <2>1 DEF Typed
  <2> QED
    BY <2>1, <2>2, <2>3, <2>4 DEF TypeOK, server
<1>7. ASSUME NEW k \in Clients, Crash(k) PROVE TypeOK' /\ Work'
  <2>1. UNCHANGED <<plan, server, handled, skipped>> /\ registry' = [registry EXCEPT ![k] = {}] /\ Fault
        /\ client' = [client EXCEPT ![k] = "crashed"]
    BY <1>7 DEF Crash
  <2>2. call' \in [Calls -> Records]
        /\ \A c \in Calls : \/ call'[c] = call[c]
                            \/ /\ call'[c].pc = "crashed" /\ call'[c].batch = {} /\ call'[c].inHand = {}
                               /\ call'[c].acking = {} /\ call'[c].pending = FALSE
    BY <1>t, <1>7, CrashIs
  <2>3. Work'
    BY <2>1, <2>2, PlanStays DEF Work, Holds, Looping, Paging
  <2>4. registry' \in [Clients -> SUBSET Groups] /\ client' \in [Clients -> {"up", "stopping", "down", "crashed"}]
        /\ faults' \in 0 .. MaxFaults
    BY <1>t, <2>1 DEF Typed, Fault
  <2> QED
    BY <2>1, <2>2, <2>3, <2>4 DEF TypeOK, server
<1>8. CASE UNCHANGED vars
  <2>1. TypeOK'
    BY <1>8 DEF TypeOK, vars
  <2>2. Work'
    BY <1>8, PlanStays DEF Work, Holds, vars
  <2> QED
    BY <2>1, <2>2
<1> QED
  BY <1>1, <1>2, <1>3, <1>4, <1>5, <1>6, <1>7, <1>8 DEF Next, Proceed, Moves

\* The types of the client, its calls, the stream and the groups.
THEOREM TypeCorrect == Spec => []TypeOK
<1>1. Init => TypeOK /\ Work
  BY InitTypeOK
<1>2. TypeOK /\ Work /\ [Next]_vars => TypeOK' /\ Work'
  BY NextTypeOK
<1> QED
  BY <1>1, <1>2, PTL DEF Spec

---------------------------------------------------------------------------
(* Groups: what one has moved past *)

Passed(g) == \A i \in kept : group[g].from < i /\ i <= group[g].at => i \in HandledIn(g) \cup PendingIn(g)
Passes == \A g \in Groups : group[g].at <= last /\ Passed(g)

LEMMA Members ==
    \A g, i : /\ i \in HandledIn(g) \cup PendingIn(g) <=>
                    \E d \in Subscriptions : GroupOf(d) = g /\ i \in handled[d] \cup pel[d]
              /\ (i \in HandledIn(g) \cup PendingIn(g))' <=>
                    \E d \in Subscriptions' : GroupOf(d)' = g /\ i \in handled'[d] \cup pel'[d]
BY DEF HandledIn, PendingIn

\* A step that leaves the groups where they are, forgets no entry that was handled and drops none that was not.
LEMMA PassesStay ==
    ASSUME Typed, Passes, plan' = plan, group' = group, last' >= last, last' \in Nat,
           \A i \in kept' : i \in Nat /\ (i <= last => i \in kept),
           \A d \in Calls : handled[d] \subseteq handled'[d] /\ pel[d] \subseteq pel'[d] \cup handled'[d]
    PROVE  Passes'
<1> SUFFICES ASSUME NEW g \in Groups PROVE (group[g].at <= last /\ Passed(g))'
  BY DEF Passes
<1>1. group[g].at <= last /\ Passed(g) /\ group[g].at \in Int /\ group[g].from \in Nat /\ last \in Nat
  BY DEF Passes, Typed, Absent
<1>2. group'[g].at <= last'
  BY <1>1
<1>3. ASSUME NEW i \in kept', group[g].from < i, i <= group[g].at PROVE (i \in HandledIn(g) \cup PendingIn(g))'
  <2>1. i \in kept
    BY <1>1, <1>3
  <2>2. i \in HandledIn(g) \cup PendingIn(g)
    BY <1>1, <1>3, <2>1 DEF Passed
  <2>3. PICK d \in Subscriptions : GroupOf(d) = g /\ i \in handled[d] \cup pel[d]
    BY <2>2, Members
  <2>4. d \in Subscriptions' /\ GroupOf(d)' = g /\ i \in handled'[d] \cup pel'[d]
    BY <2>3, PlanStays DEF Subscriptions
  <2> QED
    BY <2>4, Members
<1> QED
  BY <1>2, <1>3 DEF Passed

\* A group that is new, or gone, has moved past nothing.
LEMMA FreshPasses ==
    ASSUME NEW g \in Groups, group'[g].at = group'[g].from \/ group'[g] = NoGroup, group'[g].from \in Nat, last' \in Nat,
           group'[g].at <= last', \A i \in kept' : i \in Nat
    PROVE  (group[g].at <= last /\ Passed(g))'
<1>1. ASSUME NEW i \in kept' PROVE ~(group'[g].from < i /\ i <= group'[g].at)
  BY <1>1 DEF NoGroup, Absent
<1> QED
  BY <1>1 DEF Passed

\* A step that makes or destroys one group, h, and leaves the others where they are.
LEMMA OneFresh ==
    ASSUME Typed, Passes, NEW h \in Groups, UNCHANGED <<plan, last, kept, handled>>,
           group'[h].at = group'[h].from \/ group'[h] = NoGroup, group'[h].from \in Nat, group'[h].at <= last',
           \A g \in Groups : g # h => group'[g] = group[g],
           \A d \in Calls : GroupOf(d) # h => pel'[d] = pel[d]
    PROVE  Passes'
<1>1. last \in Nat /\ \A i \in kept : i \in Nat
  BY DEF Typed
<1>2. (group[h].at <= last /\ Passed(h))'
  BY <1>1, FreshPasses
<1>3. ASSUME NEW g \in Groups, g # h PROVE (group[g].at <= last /\ Passed(g))'
  <2>1. group'[g] = group[g] /\ group[g].at <= last /\ Passed(g)
    BY <1>3 DEF Passes
  <2>2. ASSUME NEW i \in kept', group[g].from < i, i <= group[g].at PROVE (i \in HandledIn(g) \cup PendingIn(g))'
    <3>1. i \in HandledIn(g) \cup PendingIn(g)
      BY <2>1, <2>2 DEF Passed
    <3>2. PICK d \in Subscriptions : GroupOf(d) = g /\ i \in handled[d] \cup pel[d]
      BY <3>1, Members
    <3>3. d \in Subscriptions' /\ GroupOf(d)' = g /\ i \in handled'[d] \cup pel'[d]
      BY <1>3, <3>2, PlanStays DEF Subscriptions
    <3> QED
      BY <3>3, Members
  <2> QED
    BY <2>1, <2>2 DEF Passed
<1> QED
  BY <1>2, <1>3 DEF Passes

LEMMA ReadPasses ==
    ASSUME Typed, Passes, NEW c \in Calls, Read(c)
    PROVE  Passes'
<1>g. PICK g \in Groups : g = GroupOf(c)
  BY DEF Typed
<1>1. /\ UNCHANGED <<plan, last, kept, handled>> /\ c \in Subscriptions
      /\ pel' = [pel EXCEPT ![c] = @ \cup Found(c)]
      /\ \E m \in Found(c) : IsMax(m, Found(c)) /\ group' = IF call[c].pending THEN group ELSE [group EXCEPT ![g].at = m]
  BY <1>g DEF Read, Delivered
<1>2. \A d \in Calls : pel[d] \subseteq pel'[d]
  BY <1>1 DEF Typed
<1>3. CASE call[c].pending
  <2>1. group' = group
    BY <1>1, <1>3
  <2> QED
    BY <1>1, <1>2, <2>1, PassesStay DEF Typed
<1>4. CASE ~call[c].pending
  <2>1. PICK m \in Found(c) : IsMax(m, Found(c)) /\ group' = [group EXCEPT ![g].at = m]
    BY <1>1, <1>4
  <2> DEFINE new == {i \in kept : i > group[g].at}
  <2>2. Found(c) = Least(new, Batch(c)) /\ Found(c) \subseteq new
    BY <1>4, <1>g DEF Found, Least
  <2>3. g \in Groups /\ new \subseteq 1 .. last /\ new \in SUBSET Int /\ IsFiniteSet(new) /\ last \in Nat /\ Batch(c) \in Int
    <3>1. g \in Groups /\ new \subseteq 1 .. last /\ last \in Nat /\ Batch(c) \in Int
      <4>1. last \in Nat /\ kept \subseteq 1 .. last /\ plan \in Plans
        BY DEF Typed
      <4>2. Batch(c) \in Int
        BY <4>1, PlanFacts
      <4>3. new \subseteq kept
        OBVIOUS
      <4> QED
        BY <4>1, <4>2, <4>3
    <3>2. IsFiniteSet(1 .. last)
      BY <3>1, FS_Interval
    <3>3. IsFiniteSet(new) /\ new \in SUBSET Int
      BY <3>1, <3>2, FS_Subset
    <3> QED
      BY <3>1, <3>3
  <2>4. \A i \in new : i <= m => i \in Found(c)
    BY <2>1, <2>2, <2>3, LeastIsLow
  <2>5. m \in 1 .. last
    BY <2>2, <2>3
  <2>6. group'[g].at = m /\ group'[g].from = group[g].from /\ \A h \in Groups : h # g => group'[h] = group[h]
    BY <2>1, <2>3, Zenon DEF Typed
  <2>7. ASSUME NEW i \in kept', group'[g].from < i, i <= group'[g].at PROVE (i \in HandledIn(g) \cup PendingIn(g))'
    <3>1. i \in kept /\ i \in Int /\ group[g].at \in Int
      BY <1>1, <2>3 DEF Typed, Absent
    <3>2. CASE i <= group[g].at
      <4>1. i \in HandledIn(g) \cup PendingIn(g)
        BY <2>3, <2>6, <2>7, <3>1, <3>2 DEF Passes, Passed
      <4>2. PICK d \in Subscriptions : GroupOf(d) = g /\ i \in handled[d] \cup pel[d]
        BY <4>1, Members
      <4>3. d \in Subscriptions' /\ GroupOf(d)' = g /\ i \in handled'[d] \cup pel'[d]
        BY <1>1, <1>2, <4>2, PlanStays DEF Subscriptions
      <4> QED
        BY <4>3, Members
    <3>3. CASE ~(i <= group[g].at)
      <4>1. i \in Found(c)
        BY <2>4, <2>6, <2>7, <3>1, <3>3
      <4>2. c \in Subscriptions' /\ GroupOf(c)' = g /\ i \in pel'[c]
        BY <1>g, <1>1, <4>1, PlanStays DEF Typed
      <4> QED
        BY <4>2, Members
    <3> QED
      BY <3>2, <3>3
  <2>8. (group[g].at <= last /\ Passed(g))'
    BY <1>1, <2>3, <2>5, <2>6, <2>7 DEF Passed
  <2>9. ASSUME NEW h \in Groups, h # g PROVE (group[h].at <= last /\ Passed(h))'
    <3>1. group'[h] = group[h] /\ group[h].at <= last /\ Passed(h)
      BY <2>6, <2>9 DEF Passes
    <3>2. ASSUME NEW i \in kept', group[h].from < i, i <= group[h].at PROVE (i \in HandledIn(h) \cup PendingIn(h))'
      <4>1. i \in HandledIn(h) \cup PendingIn(h)
        BY <1>1, <3>1, <3>2 DEF Passed
      <4>2. PICK d \in Subscriptions : GroupOf(d) = h /\ i \in handled[d] \cup pel[d]
        BY <4>1, Members
      <4>3. d \in Subscriptions' /\ GroupOf(d)' = h /\ i \in handled'[d] \cup pel'[d]
        BY <1>1, <1>2, <4>2, PlanStays DEF Subscriptions
      <4> QED
        BY <4>3, Members
    <3> QED
      BY <1>1, <3>1, <3>2 DEF Passed
  <2> QED
    BY <2>8, <2>9 DEF Passes
<1> QED
  BY <1>3, <1>4

LEMMA NextPasses == TypeOK /\ Work /\ Passes /\ [Next]_vars => Passes'
<1> SUFFICES ASSUME TypeOK, Work, Passes, [Next]_vars PROVE Passes'
  OBVIOUS
<1>t. Typed
  BY TypedFacts
<1>n. last \in Nat /\ \A i \in kept : i \in Nat
  BY <1>t DEF Typed
<1>1. ASSUME UNCHANGED <<plan, server>>, \A d \in Calls : handled[d] \subseteq handled'[d] PROVE Passes'
  <2>1. UNCHANGED <<last, kept, group, pel>>
    BY <1>1 DEF server
  <2> QED
    BY <1>t, <1>n, <1>1, <2>1, PassesStay
<1>2. ASSUME NEW k \in Clients, NEW n \in Ids, Emit(k, n) PROVE Passes'
  <2>1. last' = last + n /\ UNCHANGED <<plan, group, pel, handled>> /\ n \in Nat
        /\ kept' \subseteq kept \cup (last + 1 .. last + n)
    BY <1>2, IdsAreNumbers DEF Emit
  <2>2. last' >= last /\ last' \in Nat
    BY <1>n, <2>1
  <2>3. \A i \in kept' : i \in Nat /\ (i <= last => i \in kept)
    BY <1>n, <2>1
  <2> QED
    BY <1>t, <2>1, <2>2, <2>3, PassesStay
<1>3. ASSUME NEW k \in Clients, Clear(k) PROVE Passes'
  <2>1. kept' = {} /\ last' = last /\ group' = [g \in Groups |-> NoGroup]
    BY <1>3 DEF Clear
  <2>2. \A g \in Groups : group'[g].at <= last'
    BY <1>n, <2>1 DEF NoGroup, Absent
  <2> QED
    BY <2>1, <2>2 DEF Passes, Passed
<1>4. ASSUME NEW c \in Calls, Read(c) PROVE Passes'
  BY <1>t, <1>4, ReadPasses
<1>5. ASSUME NEW c \in Calls, GroupCreated(c) PROVE Passes'
  <2>1. UNCHANGED <<plan, last, kept, pel, handled>>
    BY <1>5 DEF GroupCreated
  <2>2. CASE group[GroupOf(c)] # NoGroup
    <3>1. group' = group
      BY <1>5, <2>2 DEF GroupCreated
    <3> QED
      BY <1>t, <1>n, <2>1, <3>1, PassesStay
  <2>3. CASE group[GroupOf(c)] = NoGroup
    <3>1. PICK h \in Groups : h = GroupOf(c)
      BY <1>t DEF Typed
    <3>2. group' = [group EXCEPT ![h] = [at |-> StartId(c), from |-> StartId(c)]] /\ StartId(c) \in 0 .. last
      BY <1>5, <1>n, <2>3, <3>1 DEF GroupCreated, StartId
    <3>3. group'[h].at = StartId(c) /\ group'[h].from = StartId(c) /\ \A g \in Groups : g # h => group'[g] = group[g]
      BY <1>t, <3>1, <3>2 DEF Typed
    <3> QED
      BY <1>t, <1>n, <2>1, <3>1, <3>2, <3>3, OneFresh
  <2> QED
    BY <2>2, <2>3
<1>6. ASSUME NEW c \in Calls, LoopEnded(c) PROVE Passes'
  <2>1. UNCHANGED <<plan, last, kept, handled>>
    BY <1>6 DEF LoopEnded
  <2>2. CASE UNCHANGED <<group, pel>>
    BY <1>t, <1>n, <2>1, <2>2, PassesStay
  <2>3. CASE ~UNCHANGED <<group, pel>>
    <3>1. PICK h \in Groups : h = GroupOf(c)
      BY <1>t DEF Typed
    <3>2. group' = [group EXCEPT ![h] = NoGroup]
          /\ pel' = [d \in Calls |-> IF GroupOf(d) = h THEN {} ELSE pel[d]]
      BY <1>6, <2>3, <3>1 DEF LoopEnded
    <3>3. group'[h] = NoGroup /\ \A g \in Groups : g # h => group'[g] = group[g]
      BY <1>t, <3>1, <3>2 DEF Typed
    <3>4. group'[h].at <= last' /\ group'[h].from \in Nat
      BY <1>n, <2>1, <3>3 DEF NoGroup, Absent
    <3> QED
      BY <1>t, <1>n, <2>1, <3>1, <3>2, <3>3, <3>4, OneFresh
  <2> QED
    BY <2>2, <2>3
<1>7. ASSUME NEW c \in Calls, NEW i \in Ids, Ack(c, i) PROVE Passes'
  <2>1. UNCHANGED <<plan, last, kept, group, handled>> /\ i \in call[c].acking
        /\ (UNCHANGED pel \/ pel' = [pel EXCEPT ![c] = @ \ {i}])
    BY <1>7 DEF Ack
  <2>2. i \in handled[c]
    BY <2>1 DEF Work, Holds
  <2>3. \A d \in Calls : pel[d] \subseteq pel'[d] \cup handled'[d]
    BY <1>t, <2>1, <2>2 DEF Typed
  <2> QED
    BY <1>t, <1>n, <2>1, <2>3, PassesStay
<1>8. ASSUME NEW c \in Calls, Replayed(c) \/ \E i \in Ids : Handled(c, i) PROVE Passes'
  <2>1. UNCHANGED <<plan, server>> /\ \E i : handled' = [handled EXCEPT ![c] = @ \cup {i}]
    BY <1>8 DEF Replayed, Handled
  <2>2. \A d \in Calls : handled[d] \subseteq handled'[d]
    BY <1>t, <2>1 DEF Typed
  <2> QED
    BY <1>1, <2>1, <2>2
<1>9. ASSUME NEW c \in Calls,
             \/ Subscribe(c) \/ Replay(c) \/ GroupFails(c) \/ ReadNothing(c) \/ ReadFails(c) \/ Resume(c)
             \/ Length(c) \/ LastId(c) \/ Page(c) \/ PageFails(c) \/ Quit(c) \/ Close(c)
             \/ \E i \in Ids : Undecoded(c, i)
      PROVE  Passes'
  <2>1. UNCHANGED <<plan, server, handled>>
    BY <1>9 DEF Subscribe, Replay, GroupFails, ReadNothing, ReadFails, Resume, Length, LastId, Page, PageFails, Quit, Close,
                Undecoded
  <2> QED
    BY <1>1, <2>1
<1>10. ASSUME NEW k \in Clients, Shutdown(k) \/ ShutdownNext(k) \/ ShutdownEnd(k) \/ Crash(k) PROVE Passes'
  <2>1. UNCHANGED <<plan, server, handled>>
    BY <1>10 DEF Shutdown, ShutdownNext, ShutdownEnd, Crash
  <2> QED
    BY <1>1, <2>1
<1>11. CASE UNCHANGED vars
  <2>1. UNCHANGED <<plan, server, handled>>
    BY <1>11 DEF vars, server
  <2> QED
    BY <1>1, <2>1
<1> QED
  BY <1>2, <1>3, <1>4, <1>5, <1>6, <1>7, <1>8, <1>9, <1>10, <1>11 DEF Next, Proceed

LEMMA InitPasses == Init => Passes
<1> SUFFICES ASSUME Init, NEW g \in Groups PROVE group[g].at <= last /\ Passed(g)
  BY DEF Passes
<1> QED
  BY DEF Init, NoGroup, Absent, Passed

\* What a group has moved past is handled by, or pending with, one of its consumers.
THEOREM NothingPassedOver == Spec => []PassedIsHandledOrPending
<1>1. Init => TypeOK /\ Work /\ Passes
  BY InitTypeOK, InitPasses
<1>2. TypeOK /\ Work /\ Passes /\ [Next]_vars => TypeOK' /\ Work' /\ Passes'
  BY NextTypeOK, NextPasses
<1>3. Passes => PassedIsHandledOrPending
  BY DEF Passes, Passed, PassedIsHandledOrPending
<1> QED
  BY <1>1, <1>2, <1>3, PTL DEF Spec

---------------------------------------------------------------------------
(* Pollers: one for each group of a client *)

\* Every poller's group is noted, and no two pollers of a client share one.
Noted == \A c \in Calls : Polls(c) => GroupOf(c) \in registry[ClientOf(c)]
Pollers == Noted /\ OnePollerPerGroup

LEMMA PollsFacts ==
    ASSUME plan' = plan
    PROVE  \A c \in Calls : /\ Polls(c) <=> c \in Subscriptions /\ call[c].conn /\ call[c].pc \notin Settled
                            /\ Polls(c)' <=> c \in Subscriptions /\ call'[c].conn /\ call'[c].pc \notin Settled
BY PlanStays DEF Polls

\* A step by which nobody becomes a poller, and the groups of those that stay pollers stay noted.
LEMMA PollersStay ==
    ASSUME Pollers, plan' = plan,
           \A c \in Calls : Polls(c)' => Polls(c) /\ (GroupOf(c) \in registry[ClientOf(c)] => GroupOf(c) \in registry'[ClientOf(c)])
    PROVE  Pollers'
BY PlanStays DEF Pollers, Noted, OnePollerPerGroup

LEMMA OnePolls ==
    ASSUME Typed, Pollers, plan' = plan, NEW c \in Calls, NEW s \in Records, call' = [call EXCEPT ![c] = s],
           c \in Subscriptions /\ s.conn /\ s.pc \notin Settled => call[c].conn /\ call[c].pc \notin Settled,
           UNCHANGED registry
    PROVE  Pollers'
<1>1. call'[c] = s /\ \A d \in Calls : d # c => call'[d] = call[d]
  BY SetCall DEF Typed
<1>2. \A d \in Calls : Polls(d)' => Polls(d)
  BY <1>1, PollsFacts
<1> QED
  BY <1>2, PollersStay

LEMMA SubscribePolls ==
    ASSUME Typed, Pollers, NEW c \in Calls, Subscribe(c)
    PROVE  Pollers'
<1>0. plan' = plan /\ GroupOf(c) \in Groups /\ ClientOf(c) \in Clients
  BY DEF Subscribe, Typed
<1>1. PICK s \in Records :
         /\ call' = [call EXCEPT ![c] = s]
         /\ \/ Refused(c) /\ s.conn = FALSE /\ UNCHANGED registry
            \/ ~Refused(c) /\ registry' = [registry EXCEPT ![ClientOf(c)] = @ \cup {GroupOf(c)}]
  BY SubscribeIs
<1>2. CASE Refused(c)
  <2>1. s.conn = FALSE /\ UNCHANGED registry
    BY <1>1, <1>2
  <2> QED
    BY <1>0, <1>1, <2>1, OnePolls
<1>3. CASE ~Refused(c)
  <2>1. registry' = [registry EXCEPT ![ClientOf(c)] = @ \cup {GroupOf(c)}] /\ registry \in [Clients -> SUBSET Groups]
        /\ GroupOf(c) \notin registry[ClientOf(c)]
    BY <1>1, <1>3 DEF Typed, Refused
  <2>2. GroupOf(c) \in registry'[ClientOf(c)] /\ \A k \in Clients : registry[k] \subseteq registry'[k]
    BY <1>0, <2>1
  <2>3. \A d \in Calls : d # c => call'[d] = call[d]
    BY <1>1, SetCall DEF Typed
  <2>4. \A d \in Calls : Polls(d)' => d = c \/ Polls(d)
    BY <1>0, <2>3, PollsFacts
  <2>5. Noted'
    BY <1>0, <2>2, <2>4, PlanStays DEF Pollers, Noted, Typed
  <2>6. \A d \in Calls : Polls(d) => ~(ClientOf(d) = ClientOf(c) /\ GroupOf(d) = GroupOf(c))
    BY <2>1 DEF Pollers, Noted
  <2>7. OnePollerPerGroup'
    BY <1>0, <2>4, <2>6, PlanStays DEF Pollers, OnePollerPerGroup
  <2> QED
    BY <2>5, <2>7 DEF Pollers
<1> QED
  BY <1>2, <1>3

LEMMA QuitPolls ==
    ASSUME Typed, Work, Pollers, NEW c \in Calls, Quit(c)
    PROVE  Pollers'
<1>1. plan' = plan /\ GroupOf(c) \in Groups /\ ClientOf(c) \in Clients /\ call[c].pc = "quitting"
      /\ call' = [call EXCEPT ![c] = [call[c] EXCEPT !.pc = "closed", !.conn = FALSE]]
      /\ (UNCHANGED registry \/ (call[c].conn /\ registry' = [registry EXCEPT ![ClientOf(c)] = @ \ {GroupOf(c)}]))
  BY DEF Quit, Typed, Set
<1>2. Polls(c)' = FALSE /\ \A d \in Calls : Polls(d)' => Polls(d) /\ d # c
  <2>1. [call[c] EXCEPT !.pc = "closed", !.conn = FALSE].conn = FALSE
    BY Zenon DEF Typed, Records
  <2>2. call'[c].conn = FALSE /\ \A d \in Calls : d # c => call'[d] = call[d]
    BY <1>1, <2>1, Zenon DEF Typed
  <2> QED
    BY <1>1, <2>2, PollsFacts
<1>3. c \in Subscriptions
  BY <1>1 DEF Work, Holds, Looping, Paging
<1>4. CASE UNCHANGED registry
  BY <1>1, <1>2, <1>4, PollersStay
<1>5. CASE call[c].conn /\ registry' = [registry EXCEPT ![ClientOf(c)] = @ \ {GroupOf(c)}]
  <2>1. Polls(c)
    BY <1>1, <1>3, <1>5, StageFacts DEF Polls
  <2>2. \A d \in Calls : Polls(d) /\ d # c => ~(ClientOf(d) = ClientOf(c) /\ GroupOf(d) = GroupOf(c))
    BY <2>1 DEF Pollers, OnePollerPerGroup
  <2>3. \A k \in Clients : \A g \in registry[k] : g \in registry'[k] \/ (k = ClientOf(c) /\ g = GroupOf(c))
    BY <1>1, <1>5 DEF Typed
  <2>4. \A d \in Calls : Polls(d)' => (GroupOf(d) \in registry[ClientOf(d)] => GroupOf(d) \in registry'[ClientOf(d)])
    BY <1>2, <2>2, <2>3 DEF Typed
  <2> QED
    BY <1>1, <1>2, <2>4, PollersStay
<1> QED
  BY <1>1, <1>4, <1>5

LEMMA NextPollers == TypeOK /\ Work /\ Pollers /\ [Next]_vars => Pollers'
<1> SUFFICES ASSUME TypeOK, Work, Pollers, [Next]_vars PROVE Pollers'
  OBVIOUS
<1>t. Typed
  BY TypedFacts
<1>1. ASSUME UNCHANGED <<plan, registry, call>> PROVE Pollers'
  <2>1. \A c \in Calls : Polls(c)' <=> Polls(c)
    BY <1>1, PollsFacts
  <2> QED
    BY <1>1, <2>1, PollersStay
<1>2. ASSUME NEW c \in Calls, Subscribe(c) PROVE Pollers'
  BY <1>t, <1>2, SubscribePolls
<1>3. ASSUME NEW c \in Calls, Quit(c) PROVE Pollers'
  BY <1>t, <1>3, QuitPolls
<1>4. ASSUME NEW c \in Calls, NEW s \in Records, Quiet(c, s), UNCHANGED <<plan, registry>> PROVE Pollers'
  BY <1>t, <1>4, OnePolls DEF Quiet
<1>5. ASSUME NEW c \in Calls, Moves(c), ~Quit(c) PROVE Pollers'
  <2>1. UNCHANGED <<plan, registry>>
    BY <1>5 DEF Moves, GroupCreated, GroupFails, ReadNothing, ReadFails, Resume, Length, LastId, PageFails, LoopEnded, Close
  <2>2. \E s \in Records : Quiet(c, s)
    BY <1>t, <1>5, MovesAreQuiet DEF Typed
  <2> QED
    BY <1>4, <2>1, <2>2
<1>6. ASSUME NEW c \in Calls, Replay(c) PROVE Pollers'
  <2>1. UNCHANGED <<plan, registry>> /\ c \in Replays /\ plan \in Plans
    BY <1>t, <1>6 DEF Replay, Typed
  <2>2. c \notin Subscriptions
    BY <2>1, PlanFacts
  <2> QED
    BY <1>t, <1>6, <2>1, <2>2, ReplayIs, OnePolls
\* The steps at entries: the call that makes them goes on as it was.
<1>7. ASSUME NEW c \in Calls, NEW s \in Records, UNCHANGED <<plan, registry>>, call' = [call EXCEPT ![c] = s],
             SameLife(call[c], s), call[c].pc \notin Settled
      PROVE  Pollers'
  BY <1>t, <1>7, OnePolls DEF SameLife
<1>8. ASSUME NEW c \in Calls, Read(c) PROVE Pollers'
  <2>1. UNCHANGED <<plan, registry>> /\ call[c].pc \notin Settled
    BY <1>8, StageFacts DEF Read
  <2> QED
    BY <1>t, <1>4, <1>7, <1>8, <2>1, ReadIs
<1>9. ASSUME NEW c \in Calls, Page(c) PROVE Pollers'
  <2>1. UNCHANGED <<plan, registry>> /\ call[c].pc \notin Settled
    BY <1>9, StageFacts DEF Page
  <2> QED
    BY <1>t, <1>4, <1>7, <1>9, <2>1, PageIs
<1>10. ASSUME NEW c \in Calls, Replayed(c) PROVE Pollers'
  <2>1. UNCHANGED <<plan, registry>> /\ call[c].pc \notin Settled
    BY <1>10, StageFacts DEF Replayed
  <2> QED
    BY <1>t, <1>7, <1>10, <2>1, ReplayedIs
<1>11. ASSUME NEW c \in Calls, NEW i \in Ids, Handled(c, i) \/ Ack(c, i) \/ Undecoded(c, i) PROVE Pollers'
  <2>1. UNCHANGED <<plan, registry>> /\ call[c].pc = "handling" /\ call[c].batch \cap call[c].inHand = {}
    BY <1>11 DEF Handled, Ack, Undecoded, Work, Holds
  <2>2. call[c].pc \notin Settled
    BY <2>1, StageFacts
  <2> QED
    BY <1>t, <1>7, <1>11, <2>1, <2>2, HandledIs, AckIs, UndecodedIs DEF Ends
<1>12. ASSUME NEW k \in Clients, (\E n \in Ids : Emit(k, n)) \/ Clear(k) \/ Shutdown(k) PROVE Pollers'
  BY <1>1, <1>12 DEF Emit, Clear, Shutdown
<1>13. ASSUME NEW k \in Clients, ShutdownNext(k) PROVE Pollers'
  <2>1. UNCHANGED <<plan, registry>>
    BY <1>13 DEF ShutdownNext
  <2> QED
    BY <1>t, <1>4, <1>13, <2>1, ShutdownNextIs
<1>14. ASSUME NEW k \in Clients, ShutdownEnd(k) PROVE Pollers'
  <2>1. plan' = plan /\ registry' = [registry EXCEPT ![k] = {}]
    BY <1>14 DEF ShutdownEnd
  <2>2. \A c \in Calls : call'[c].pc = call[c].pc /\ (call'[c].conn => call[c].conn /\ ClientOf(c) # k)
    BY <1>t, <1>14, ShutdownEndIs
  <2>3. \A c \in Calls : Polls(c)' => Polls(c) /\ ClientOf(c) # k
    BY <2>1, <2>2, PollsFacts
  <2> QED
    BY <1>t, <2>1, <2>3, PollersStay DEF Typed
<1>15. ASSUME NEW k \in Clients, Crash(k) PROVE Pollers'
  <2>1. plan' = plan /\ registry' = [registry EXCEPT ![k] = {}]
    BY <1>15 DEF Crash
  <2>2. \A c \in Calls : /\ ClientOf(c) = k => call'[c].pc \in Settled
                         /\ call'[c] = call[c] \/ call'[c].pc \in Settled
    BY <1>t, <1>15, CrashIs DEF Settled
  <2>3. \A c \in Calls : Polls(c)' => Polls(c) /\ ClientOf(c) # k
    BY <2>1, <2>2, PollsFacts
  <2> QED
    BY <1>t, <2>1, <2>3, PollersStay DEF Typed
<1>16. CASE UNCHANGED vars
  BY <1>1, <1>16 DEF vars
<1> QED
  BY <1>2, <1>3, <1>5, <1>6, <1>8, <1>9, <1>10, <1>11, <1>12, <1>13, <1>14, <1>15, <1>16 DEF Next, Proceed, Moves

LEMMA InitPollers == Init => Pollers
<1> SUFFICES ASSUME Init, NEW c \in Calls PROVE ~Polls(c)
  BY DEF Pollers, Noted, OnePollerPerGroup
<1> QED
  BY DEF Init, Polls, NewCall

\* A client never polls one group twice.
THEOREM PolledOnce == Spec => []OnePollerPerGroup
<1>1. Init => TypeOK /\ Work /\ Pollers
  BY InitTypeOK, InitPollers
<1>2. TypeOK /\ Work /\ Pollers /\ [Next]_vars => TypeOK' /\ Work' /\ Pollers'
  BY NextTypeOK, NextPollers
<1>3. Pollers => OnePollerPerGroup
  BY DEF Pollers
<1> QED
  BY <1>1, <1>2, <1>3, PTL DEF Spec

---------------------------------------------------------------------------
(* Hot groups: no entry is handled twice *)

Seen(c) == InHands(c) \cup handled[c]

\* The group will not deliver entry i again: it has moved past it, the stream has not kept it, or the group is gone and only
\* hot calls, which start behind it, can bring it back.
Past(g, i) == /\ i <= last
              /\ \/ i <= group[g].at
                 \/ i \notin kept
                 \/ group[g] = NoGroup /\ ColdHotIn(g) = {}
HotCalls == {c \in Subscriptions : Kind(c) = "hot"}
SeenIsPast == \A g \in Groups : ~Restarts(g) => \A c \in HotIn(g) : \A i \in Seen(c) : Past(g, i)
SeenOnce == \A g \in Groups : ~Restarts(g) =>
                \A c, d \in HotIn(g) : IF c = d THEN InHands(c) \cap handled[c] = {} ELSE Seen(c) \cap Seen(d) = {}
Hot == SeenIsPast /\ SeenOnce

LEMMA SeenFacts ==
    ASSUME Typed
    PROVE  /\ \A c \in Calls : Seen(c) \subseteq Ids
           /\ \A g : HotIn(g) \subseteq Calls /\ HotIn(g) \subseteq Subscriptions
           /\ \A g : \A c \in HotIn(g) : GroupOf(c) = g /\ Kind(c) = "hot"
BY DEF Typed, Seen, InHands, Records, HotIn, Subscriptions

\* A step after which no call has seen more, and what was past remains so.
LEMMA HotStays ==
    ASSUME Typed, Hot, plan' = plan,
           \A c \in HotCalls : /\ Seen(c)' \subseteq Seen(c)
                               /\ InHands(c) \cap handled[c] = {} => InHands(c)' \cap handled'[c] = {},
           \A g \in Groups : ~Restarts(g) => \A i \in Ids : Past(g, i) => Past(g, i)'
    PROVE  Hot'
<1> SUFFICES ASSUME NEW g \in Groups, ~Restarts(g)
             PROVE  /\ \A c \in HotIn(g) : \A i \in Seen(c)' : Past(g, i)'
                    /\ \A c, d \in HotIn(g) : IF c = d THEN InHands(c)' \cap handled'[c] = {} ELSE Seen(c)' \cap Seen(d)' = {}
  BY PlanStays DEF Hot, SeenIsPast, SeenOnce
<1>1. HotIn(g) \subseteq HotCalls /\ \A c \in HotIn(g) : Seen(c) \subseteq Ids
  BY SeenFacts DEF HotCalls
<1>2. \A c \in HotIn(g) : \A i \in Seen(c)' : Past(g, i)'
  BY <1>1 DEF Hot, SeenIsPast
<1>3. ASSUME NEW c \in HotIn(g), NEW d \in HotIn(g)
      PROVE  IF c = d THEN InHands(c)' \cap handled'[c] = {} ELSE Seen(c)' \cap Seen(d)' = {}
  <2>1. IF c = d THEN InHands(c) \cap handled[c] = {} ELSE Seen(c) \cap Seen(d) = {}
    BY DEF Hot, SeenOnce
  <2> QED
    BY <1>1, <2>1
<1> QED
  BY <1>2, <1>3

LEMMA PastStays ==
    ASSUME Typed, plan' = plan, group' = group, last' >= last, last' \in Nat, \A i \in kept' : i <= last => i \in kept,
           NEW g \in Groups, NEW i \in Ids, Past(g, i)
    PROVE  Past(g, i)'
<1>1. i \in Nat /\ last \in Nat
  BY IdsAreNumbers DEF Typed
<1> QED
  BY <1>1, PlanStays DEF Past

\* A call that moves, and holds no more than it did.
LEMMA OneSees ==
    ASSUME Typed, handled' = handled, NEW c \in Calls, NEW s \in Records, call' = [call EXCEPT ![c] = s],
           s.inHand \cup s.batch \subseteq InHands(c),
           NEW d \in Calls
    PROVE  /\ Seen(d)' \subseteq Seen(d)
           /\ InHands(d) \cap handled[d] = {} => InHands(d)' \cap handled'[d] = {}
<1>1. call'[c] = s /\ (d # c => call'[d] = call[d])
  BY SetCall DEF Typed
<1>2. InHands(d)' \subseteq InHands(d)
  BY <1>1 DEF InHands
<1> QED
  BY <1>2 DEF Seen

LEMMA HandledHot ==
    ASSUME Typed, Work, Hot, NEW c \in Calls, NEW i \in Ids, Handled(c, i)
    PROVE  Hot'
<1>1. UNCHANGED <<plan, last, kept, group>> /\ i \in call[c].inHand /\ handled' = [handled EXCEPT ![c] = @ \cup {i}]
  BY DEF Handled, server
<1>2. PICK s \in Records : call' = [call EXCEPT ![c] = s] /\ s.batch = call[c].batch /\ s.inHand = call[c].inHand \ {i}
  BY HandledIs
<1>3. call'[c] = s /\ \A d \in Calls : d # c => call'[d] = call[d]
  BY <1>2, SetCall DEF Typed
<1>4. handled'[c] = handled[c] \cup {i} /\ \A d \in Calls : d # c => handled'[d] = handled[d]
  BY <1>1 DEF Typed
<1>5. call[c].batch \cap call[c].inHand = {}
  BY DEF Work, Holds
<1>6. ASSUME NEW d \in Calls
      PROVE  /\ Seen(d)' \subseteq Seen(d)
             /\ InHands(d) \cap handled[d] = {} => InHands(d)' \cap handled'[d] = {}
  <2>1. CASE d = c
    BY <1>1, <1>2, <1>3, <1>4, <1>5, <2>1 DEF Seen, InHands
  <2>2. CASE d # c
    BY <1>3, <1>4, <2>2 DEF Seen, InHands
  <2> QED
    BY <2>1, <2>2
<1>7. last \in Nat
  BY DEF Typed
<1>8. \A g \in Groups : \A j \in Ids : Past(g, j) => Past(g, j)'
  BY <1>1, <1>7, PastStays
<1> QED
  BY <1>1, <1>6, <1>8, HotStays DEF HotCalls, Subscriptions

\* A read by one call of what its group has next.
LEMMA ReadHot ==
    ASSUME Typed, Work, Hot, NEW c \in Calls, Read(c)
    PROVE  Hot'
<1>1. /\ UNCHANGED <<plan, last, kept, handled>> /\ c \in Subscriptions /\ call[c].pc = "reading"
      /\ group[GroupOf(c)] # NoGroup /\ last \in Nat
      /\ \E m \in Found(c) : IsMax(m, Found(c)) /\ group' = IF call[c].pending THEN group ELSE [group EXCEPT ![GroupOf(c)].at = m]
  BY DEF Read, Typed
<1>2. PICK s \in Records :
         \/ Discards(c) /\ Quiet(c, s)
         \/ call' = [call EXCEPT ![c] = s] /\ s.inHand \cup s.batch = Found(c)
  BY ReadIs
<1>3. call' = [call EXCEPT ![c] = s] /\ InHands(c) = {} /\ (s.inHand \cup s.batch = {} \/ s.inHand \cup s.batch = Found(c))
  <2>1. call[c].batch = {} /\ call[c].inHand = {}
    BY <1>1 DEF Work, Holds
  <2> QED
    BY <1>2, <2>1 DEF Quiet, SameWork, InHands
<1>4. call'[c] = s /\ \A d \in Calls : d # c => call'[d] = call[d]
  BY <1>3, SetCall DEF Typed
<1>5. \A g \in Groups : group'[g] = group[g] \/ (g = GroupOf(c) /\ ~call[c].pending /\ IsMax(group'[g].at, Found(c)))
  BY <1>1 DEF Typed
<1>6. ~call[c].pending => \A j \in Found(c) : j \in kept /\ j > group[GroupOf(c)].at
  BY FoundFacts
<1>7. \A g \in Groups : \A i \in Ids : Past(g, i) => Past(g, i)'
  <2> SUFFICES ASSUME NEW g \in Groups, NEW i \in Ids, Past(g, i) PROVE Past(g, i)'
    OBVIOUS
  <2>1. CASE group'[g] = group[g]
    BY <1>1, <2>1, PlanStays DEF Past
  <2>2. CASE g = GroupOf(c) /\ ~call[c].pending /\ IsMax(group'[g].at, Found(c))
    <3>1. group'[g].at \in kept /\ group'[g].at > group[g].at /\ i \in Nat /\ group[g].at \in Int /\ group'[g].at \in Int
      <4>1. group'[g].at \in kept /\ group'[g].at > group[g].at
        BY <1>6, <2>2 DEF IsMax
      <4>2. group[g].at \in Int /\ kept \subseteq Int
        BY DEF Typed, Absent
      <4> QED
        BY <4>1, <4>2, IdsAreNumbers
    <3> QED
      BY <1>1, <2>2, <3>1 DEF Past
  <2> QED
    BY <1>5, <2>1, <2>2
<1>8. ASSUME NEW d \in Calls, d # c PROVE InHands(d)' = InHands(d) /\ Seen(d)' = Seen(d) /\ handled'[d] = handled[d]
  BY <1>1, <1>4, <1>8 DEF InHands, Seen
<1>9. CASE Kind(c) # "hot" \/ s.inHand \cup s.batch = {}
  <2>1. ASSUME NEW d \in HotCalls
        PROVE  /\ Seen(d)' \subseteq Seen(d)
               /\ InHands(d) \cap handled[d] = {} => InHands(d)' \cap handled'[d] = {}
    <3>1. CASE d # c
      BY <1>8, <3>1 DEF HotCalls, Subscriptions
    <3>2. CASE d = c
      <4>1. InHands(c)' = {}
        BY <1>4, <1>9, <3>2 DEF HotCalls, InHands
      <4> QED
        BY <1>1, <3>2, <4>1 DEF Seen
    <3> QED
      BY <3>1, <3>2
  <2> QED
    BY <1>1, <1>7, <2>1, HotStays
<1>10. CASE Kind(c) = "hot" /\ s.inHand \cup s.batch = Found(c)
  <2>1. ~call[c].pending /\ InHands(c)' = Found(c) /\ Seen(c)' = Found(c) \cup handled[c] /\ Seen(c) = handled[c]
    BY <1>1, <1>3, <1>4, <1>10 DEF Work, Holds, InHands, Seen
  <2> SUFFICES ASSUME NEW g \in Groups, ~Restarts(g)
               PROVE  /\ \A d \in HotIn(g) : \A i \in Seen(d)' : Past(g, i)'
                      /\ \A d, e \in HotIn(g) : IF d = e THEN InHands(d)' \cap handled'[d] = {} ELSE Seen(d)' \cap Seen(e)' = {}
    BY <1>1, PlanStays DEF Hot, SeenIsPast, SeenOnce
  <2>2. /\ \A d \in HotIn(g) : \A i \in Seen(d) : Past(g, i)
        /\ \A d, e \in HotIn(g) : IF d = e THEN InHands(d) \cap handled[d] = {} ELSE Seen(d) \cap Seen(e) = {}
    BY DEF Hot, SeenIsPast, SeenOnce
  <2>3. HotIn(g) \subseteq Calls /\ \A d \in HotIn(g) : Seen(d) \subseteq Ids
    BY SeenFacts
  <2>4. CASE c \notin HotIn(g)
    <3>1. \A d \in HotIn(g) : InHands(d)' = InHands(d) /\ Seen(d)' = Seen(d) /\ handled'[d] = handled[d]
      BY <1>8, <2>3, <2>4
    <3> QED
      BY <1>7, <2>2, <2>3, <3>1
  <2>5. CASE c \in HotIn(g)
    <3>1. g = GroupOf(c)
      BY <2>5, SeenFacts
    <3>2. ASSUME NEW d \in HotIn(g), NEW i \in Seen(d) PROVE i \notin Found(c)
      <4>1. Past(g, i) /\ group[g] # NoGroup
        BY <1>1, <2>2, <3>1
      <4>2. i \in Int /\ group[g].at \in Int
        <5>1. i \in Ids
          BY <2>3
        <5>2. group[g].at \in Nat \cup {Absent}
          BY DEF Typed
        <5> QED
          BY <5>1, <5>2, IdsAreNumbers DEF Absent
      <4> QED
        BY <1>6, <2>1, <3>1, <4>1, <4>2 DEF Past
    <3>3. ASSUME NEW i \in Found(c) PROVE Past(g, i)'
      <4>1. IsMax(group'[g].at, Found(c)) /\ i \in kept /\ kept \subseteq 1 .. last
        BY <1>1, <1>6, <2>1, <3>1 DEF Typed
      <4>2. i <= group'[g].at /\ i <= last'
        BY <1>1, <4>1 DEF IsMax
      <4> QED
        BY <4>2 DEF Past
    <3>4. ASSUME NEW d \in HotIn(g), NEW i \in Seen(d)' PROVE Past(g, i)'
      <4>1. CASE i \in Seen(d)
        BY <1>7, <2>2, <2>3, <4>1
      <4>2. CASE i \notin Seen(d)
        BY <1>8, <2>1, <2>3, <3>3, <3>4, <4>2
      <4> QED
        BY <4>1, <4>2
    <3>5. ASSUME NEW d \in HotIn(g), NEW e \in HotIn(g)
          PROVE  IF d = e THEN InHands(d)' \cap handled'[d] = {} ELSE Seen(d)' \cap Seen(e)' = {}
      <4>1. \A f \in HotIn(g) : Seen(f) \cap Found(c) = {}
        BY <3>2
      <4>2. \A f \in HotIn(g) : f # c => InHands(f)' = InHands(f) /\ Seen(f)' = Seen(f) /\ handled'[f] = handled[f]
        BY <1>8, <2>3
      <4>3. CASE d # c /\ e # c
        BY <2>2, <4>2, <4>3
      <4>4. CASE d = c /\ e = c
        BY <1>1, <2>1, <4>1, <4>4
      <4>5. CASE d = c /\ e # c
        BY <2>1, <2>2, <4>1, <4>2, <4>5
      <4>6. CASE d # c /\ e = c
        BY <2>1, <2>2, <4>1, <4>2, <4>6
      <4> QED
        BY <4>3, <4>4, <4>5, <4>6
    <3> QED
      BY <3>4, <3>5
  <2> QED
    BY <2>4, <2>5
<1> QED
  BY <1>3, <1>9, <1>10

LEMMA NextHot == TypeOK /\ Work /\ Hot /\ [Next]_vars => Hot'
<1> SUFFICES ASSUME TypeOK, Work, Hot, [Next]_vars PROVE Hot'
  OBVIOUS
<1>t. Typed
  BY TypedFacts
<1>n. last \in Nat
  BY <1>t DEF Typed
\* Steps that leave stream, groups and history alone, after which nobody holds more.
<1>1. ASSUME UNCHANGED <<plan, server, handled>>, NEW c \in Calls, NEW s \in Records, call' = [call EXCEPT ![c] = s],
             c \in HotCalls => s.inHand \cup s.batch \subseteq InHands(c)
      PROVE  Hot'
  <2>1. \A g \in Groups : \A i \in Ids : Past(g, i) => Past(g, i)'
    BY <1>t, <1>n, <1>1, PastStays DEF server
  <2>2. call'[c] = s /\ \A d \in Calls : d # c => call'[d] = call[d]
    BY <1>t, <1>1, SetCall DEF Typed
  <2>3. ASSUME NEW d \in HotCalls PROVE InHands(d)' \subseteq InHands(d)
    BY <1>1, <2>2, <2>3 DEF HotCalls, Subscriptions, InHands
  <2> QED
    BY <1>t, <1>1, <2>1, <2>3, HotStays DEF Seen
\* Steps that change the groups or the stream: nobody holds more after them.
<1>2. ASSUME UNCHANGED <<plan, handled>>,
             \A d \in HotCalls : call'[d].batch \cup call'[d].inHand \subseteq InHands(d),
             \A g \in Groups : ~Restarts(g) => \A i \in Ids : Past(g, i) => Past(g, i)'
      PROVE  Hot'
  <2>1. ASSUME NEW d \in HotCalls PROVE InHands(d)' \subseteq InHands(d)
    BY <1>2, <2>1 DEF InHands
  <2> QED
    BY <1>t, <1>2, <2>1, HotStays DEF Seen
<1>3. ASSUME NEW c \in Calls, NEW s \in Records, Quiet(c, s)
      PROVE  \A d \in HotCalls : call'[d].batch \cup call'[d].inHand \subseteq InHands(d)
  <2>1. call'[c] = s /\ \A d \in Calls : d # c => call'[d] = call[d]
    BY <1>t, <1>3, SetCall DEF Typed, Quiet
  <2> QED
    BY <1>3, <2>1 DEF HotCalls, Subscriptions, InHands, Quiet, SameWork
<1>4. ASSUME NEW k \in Clients, NEW n \in Ids, Emit(k, n) PROVE Hot'
  <2>1. last' = last + n /\ UNCHANGED <<plan, group, call, handled>> /\ n \in Nat
        /\ kept' \subseteq kept \cup (last + 1 .. last + n)
    BY <1>4, IdsAreNumbers DEF Emit
  <2>2. last' >= last /\ last' \in Nat /\ \A i \in kept' : i <= last => i \in kept
    BY <1>n, <2>1
  <2>3. \A g \in Groups : \A i \in Ids : Past(g, i) => Past(g, i)'
    BY <1>t, <2>1, <2>2, PastStays
  <2> QED
    BY <1>2, <2>1, <2>3 DEF InHands
<1>5. ASSUME NEW k \in Clients, Clear(k) PROVE Hot'
  <2>1. kept' = {} /\ UNCHANGED <<plan, last, call, handled>>
    BY <1>5 DEF Clear
  <2>2. \A g \in Groups : \A i \in Ids : Past(g, i) => Past(g, i)'
    BY <2>1 DEF Past
  <2> QED
    BY <1>2, <2>1, <2>2 DEF InHands
<1>6. ASSUME NEW c \in Calls, Read(c) PROVE Hot'
  BY <1>t, <1>6, ReadHot
<1>7. ASSUME NEW c \in Calls, NEW i \in Ids, Handled(c, i) PROVE Hot'
  BY <1>t, <1>7, HandledHot
<1>8. ASSUME NEW c \in Calls, GroupCreated(c) PROVE Hot'
  <2>1. UNCHANGED <<plan, last, kept, handled>>
    BY <1>8 DEF GroupCreated
  <2>2. \A g \in Groups : group'[g] = group[g] \/ (g = GroupOf(c) /\ group[g] = NoGroup /\ group'[g].at = StartId(c))
    BY <1>t, <1>8 DEF GroupCreated, Typed
  <2>3. c \in Subscriptions
    BY <1>8 DEF GroupCreated, Work, Holds, Looping
  <2>4. ASSUME NEW g \in Groups, NEW i \in Ids, Past(g, i) PROVE Past(g, i)'
    <3>1. CASE group'[g] = group[g]
      BY <2>1, <2>4, <3>1, PlanStays DEF Past
    <3>2. CASE g = GroupOf(c) /\ group[g] = NoGroup /\ group'[g].at = StartId(c)
      <4>1. i \in Nat /\ i >= 1
        BY IdsAreNumbers
      <4>2. ~(i <= group[g].at)
        BY <3>2, <4>1 DEF NoGroup, Absent
      <4>3. CASE i \notin kept
        BY <2>1, <2>4, <4>3 DEF Past
      <4>4. CASE ColdHotIn(g) = {}
        <5>1. Kind(c) = "hot"
          BY <2>3, <3>2, <4>4 DEF ColdHotIn, Subscriptions
        <5> QED
          BY <2>1, <2>4, <3>2, <5>1 DEF Past, StartId
      <4> QED
        BY <2>4, <4>2, <4>3, <4>4 DEF Past
    <3> QED
      BY <2>2, <3>1, <3>2
  <2>5. PICK s \in Records : Quiet(c, s)
    BY <1>t, <1>8, MovesAreQuiet DEF Typed, Moves
  <2> QED
    BY <1>2, <1>3, <2>1, <2>4, <2>5
<1>9. ASSUME NEW c \in Calls, LoopEnded(c) PROVE Hot'
  <2>1. UNCHANGED <<plan, last, kept, handled>>
    BY <1>9 DEF LoopEnded
  <2>2. \A g \in Groups : group'[g] = group[g] \/ (g = GroupOf(c) /\ plan[c].destroys /\ Kind(c) = "hot" /\ group'[g] = NoGroup)
    BY <1>t, <1>9 DEF LoopEnded, Typed
  <2>3. c \in Subscriptions
    BY <1>9 DEF LoopEnded, Work, Holds, Looping
  <2>4. ASSUME NEW g \in Groups, ~Restarts(g), NEW i \in Ids, Past(g, i) PROVE Past(g, i)'
    <3>1. CASE group'[g] = group[g]
      BY <2>1, <2>4, <3>1, PlanStays DEF Past
    <3>2. CASE g = GroupOf(c) /\ plan[c].destroys /\ Kind(c) = "hot" /\ group'[g] = NoGroup
      <4>1. c \in HotIn(g)
        BY <2>3, <3>2 DEF HotIn
      <4>2. ColdHotIn(g) = {}
        BY <2>4, <3>2, <4>1 DEF Restarts
      <4> QED
        BY <2>1, <2>4, <3>2, <4>2, PlanStays DEF Past
    <3> QED
      BY <2>2, <3>1, <3>2
  <2>5. PICK s \in Records : Quiet(c, s)
    BY <1>t, <1>9, MovesAreQuiet DEF Typed, Moves
  <2> QED
    BY <1>2, <1>3, <2>1, <2>4, <2>5
<1>10. ASSUME NEW c \in Calls, Moves(c), ~GroupCreated(c), ~LoopEnded(c) PROVE Hot'
  <2>1. UNCHANGED <<plan, server, handled>>
    BY <1>10 DEF Moves, GroupFails, ReadNothing, ReadFails, Resume, Length, LastId, PageFails, Quit, Close
  <2>2. PICK s \in Records : Quiet(c, s)
    BY <1>t, <1>10, MovesAreQuiet DEF Typed
  <2>3. call' = [call EXCEPT ![c] = s] /\ s.inHand \cup s.batch \subseteq InHands(c)
    BY <2>2 DEF Quiet, SameWork, InHands
  <2> QED
    BY <1>1, <2>1, <2>3
<1>11. ASSUME NEW c \in Calls, Subscribe(c) \/ Replay(c) PROVE Hot'
  <2>1. UNCHANGED <<plan, server, handled>>
    BY <1>11 DEF Subscribe, Replay
  <2>2. PICK s \in Records : call' = [call EXCEPT ![c] = s] /\ s.batch = {} /\ s.inHand = {}
    BY <1>t, <1>11, SubscribeIs, ReplayIs
  <2> QED
    BY <1>1, <2>1, <2>2
<1>12. ASSUME NEW c \in Calls, Page(c) PROVE Hot'
  <2>1. UNCHANGED <<plan, server, handled>> /\ c \notin HotCalls
    BY <1>12 DEF Page, Work, Holds, Paging, HotCalls
  <2>2. PICK s \in Records : call' = [call EXCEPT ![c] = s]
    BY <1>t, <1>12, PageIs DEF Quiet
  <2> QED
    BY <1>1, <2>1, <2>2
<1>13. ASSUME NEW c \in Calls, Replayed(c) PROVE Hot'
  <2>1. UNCHANGED <<plan, last, kept, group>> /\ c \in Replays /\ plan \in Plans
    BY <1>t, <1>13 DEF Replayed, server, Typed
  <2>2. c \notin HotCalls
    BY <2>1, PlanFacts DEF HotCalls
  <2>3. PICK s \in Records, i \in call[c].batch : call' = [call EXCEPT ![c] = s] /\ handled' = [handled EXCEPT ![c] = @ \cup {i}]
    BY <1>t, <1>13, ReplayedIs
  <2>4. \A d \in Calls : d # c => call'[d] = call[d] /\ handled'[d] = handled[d]
    BY <1>t, <2>3, SetCall DEF Typed
  <2>5. \A d \in HotCalls : InHands(d)' = InHands(d) /\ Seen(d)' = Seen(d) /\ handled'[d] = handled[d]
    BY <2>2, <2>4 DEF HotCalls, Subscriptions, InHands, Seen
  <2>6. \A g \in Groups : \A j \in Ids : Past(g, j) => Past(g, j)'
    BY <1>t, <1>n, <2>1, PastStays
  <2> QED
    BY <1>t, <2>1, <2>5, <2>6, HotStays
<1>14. ASSUME NEW c \in Calls, NEW i \in Ids, Ack(c, i) \/ Undecoded(c, i) PROVE Hot'
  <2>1. UNCHANGED <<plan, last, kept, group, handled>> /\ call[c].batch \cap call[c].inHand = {}
    BY <1>14 DEF Ack, Undecoded, Work, Holds, server
  <2>2. PICK s \in Records : Ends(c, s)
    BY <1>t, <1>14, <2>1, AckIs, UndecodedIs
  <2>3. \A d \in HotCalls : /\ Seen(d)' \subseteq Seen(d)
                            /\ InHands(d) \cap handled[d] = {} => InHands(d)' \cap handled'[d] = {}
    BY <1>t, <2>1, <2>2, OneSees DEF HotCalls, Subscriptions, Ends, InHands
  <2>4. \A g \in Groups : \A j \in Ids : Past(g, j) => Past(g, j)'
    BY <1>t, <1>n, <2>1, PastStays
  <2> QED
    BY <1>t, <2>1, <2>3, <2>4, HotStays
\* The steps of clients, and those that change nothing here.
<1>15. ASSUME UNCHANGED <<plan, server, handled>>, \A d \in Calls : call'[d].batch \subseteq call[d].batch /\ call'[d].inHand \subseteq call[d].inHand
       PROVE  Hot'
  <2>1. \A g \in Groups : \A i \in Ids : Past(g, i) => Past(g, i)'
    BY <1>t, <1>n, <1>15, PastStays DEF server
  <2>2. \A d \in HotCalls : call'[d].batch \cup call'[d].inHand \subseteq InHands(d)
    BY <1>15 DEF HotCalls, Subscriptions, InHands
  <2> QED
    BY <1>2, <1>15, <2>1, <2>2
<1>16. ASSUME NEW k \in Clients, ShutdownNext(k) PROVE Hot'
  <2>1. UNCHANGED <<plan, server, handled>>
    BY <1>16 DEF ShutdownNext
  <2>2. PICK c \in Calls, s \in Records : Quiet(c, s)
    BY <1>t, <1>16, ShutdownNextIs
  <2>3. call' = [call EXCEPT ![c] = s] /\ s.inHand \cup s.batch \subseteq InHands(c)
    BY <2>2 DEF Quiet, SameWork, InHands
  <2> QED
    BY <1>1, <2>1, <2>3
<1>17. ASSUME NEW k \in Clients, Shutdown(k) \/ ShutdownEnd(k) \/ Crash(k) PROVE Hot'
  <2>1. UNCHANGED <<plan, server, handled>>
    BY <1>17 DEF Shutdown, ShutdownEnd, Crash
  <2>2. CASE Shutdown(k)
    BY <1>15, <2>1, <2>2 DEF Shutdown
  <2>3. CASE ShutdownEnd(k)
    <3>1. \A d \in Calls : call'[d].batch = call[d].batch /\ call'[d].inHand = call[d].inHand
      BY <1>t, <2>3, ShutdownEndIs DEF SameWork
    <3> QED
      BY <1>15, <2>1, <3>1
  <2>4. CASE Crash(k)
    <3>1. \A d \in Calls : call'[d] = call[d] \/ (call'[d].batch = {} /\ call'[d].inHand = {})
      BY <1>t, <2>4, CrashIs
    <3> QED
      BY <1>15, <2>1, <3>1
  <2> QED
    BY <1>17, <2>2, <2>3, <2>4
<1>18. CASE UNCHANGED vars
  <2>1. UNCHANGED <<plan, server, handled, call>>
    BY <1>18 DEF vars, server
  <2> QED
    BY <1>15, <2>1
<1> QED
  BY <1>4, <1>5, <1>6, <1>7, <1>8, <1>9, <1>10, <1>11, <1>12, <1>13, <1>14, <1>16, <1>17, <1>18 DEF Next, Proceed, Moves

LEMMA InitHot == Init => Hot
<1> SUFFICES ASSUME Init PROVE Hot
  OBVIOUS
<1>1. \A c \in Calls : InHands(c) = {} /\ Seen(c) = {}
  BY DEF Init, InHands, Seen, NewCall
<1>2. \A g : HotIn(g) \subseteq Calls
  BY DEF HotIn, Subscriptions
<1> QED
  BY <1>1, <1>2 DEF Hot, SeenIsPast, SeenOnce

\* No entry reaches the handlers of a hot group twice.
THEOREM HandledHotOnce == Spec => []HotOnce
<1>1. Init => TypeOK /\ Work /\ Hot
  BY InitTypeOK, InitHot
<1>2. TypeOK /\ Work /\ Hot /\ [Next]_vars => TypeOK' /\ Work' /\ Hot'
  BY NextTypeOK, NextHot
<1>3. Hot => HotOnce
  <2> SUFFICES ASSUME Hot, NEW g \in Groups, ~Restarts(g), NEW c \in HotIn(g), NEW d \in HotIn(g)
               PROVE  /\ InHands(c) \cap handled[d] = {}
                      /\ c # d => (InHands(c) \cup handled[c]) \cap (InHands(d) \cup handled[d]) = {}
    BY DEF HotOnce
  <2>1. IF c = d THEN InHands(c) \cap handled[c] = {} ELSE Seen(c) \cap Seen(d) = {}
    BY DEF Hot, SeenOnce
  <2> QED
    BY <2>1 DEF Seen
<1> QED
  BY <1>1, <1>2, <1>3, PTL DEF Spec

---------------------------------------------------------------------------
(* Replays: what lies before the cursor is handled *)

\* What is left on the way of a replay, beyond the page it has.
Ahead(c) == {i \in kept : i >= call[c].next /\ i \notin call[c].batch}

CursorOf(c) ==
    /\ call[c].pc \in {"idle", "length", "lastId"} => call[c].next = 0 /\ call[c].end = 0
    /\ call[c].end <= last /\ call[c].next <= last + 1 /\ call[c].batch \subseteq 1 .. last
    /\ \A i \in kept : i \in handled[c] \/ i >= call[c].next
    /\ \A b \in call[c].batch : b >= call[c].next /\ \A i \in Ahead(c) : i > b
    /\ call[c].pc = "handling" /\ call[c].short => \A i \in Ahead(c) : i > call[c].end
    /\ call[c].pc = "done" => \A i \in kept \ handled[c] : call[c].end > i => Digits(call[c].next) # Digits(call[c].end)
Cursor == \A c \in Replays : CursorOf(c)

\* A step that adds entries at the end of the stream or removes some, and leaves the cursor alone.
LEMMA CursorStays ==
    ASSUME Typed, NEW c \in Calls, CursorOf(c), last' \in Nat, last' >= last, handled[c] \subseteq handled'[c],
           \A i \in kept' : i \in Nat /\ (i \in kept \/ i > last),
           SameWork(call[c], call'[c]), call'[c].end = call[c].end,
           call'[c].pc = call[c].pc \/ call'[c].pc \notin {"idle", "length", "lastId", "done", "handling"}
    PROVE  CursorOf(c)'
<1>1. /\ call'[c].batch = call[c].batch /\ call'[c].next = call[c].next /\ call'[c].short = call[c].short
      /\ call'[c].end = call[c].end /\ call[c].next \in Nat /\ call[c].end \in Nat /\ last \in Nat
  BY DEF SameWork, Typed, Records
<1>2. /\ call[c].end <= last /\ call[c].next <= last + 1 /\ call[c].batch \subseteq 1 .. last
      /\ \A i \in kept : i \in handled[c] \/ i >= call[c].next
      /\ \A b \in call[c].batch : b >= call[c].next /\ \A i \in Ahead(c) : i > b
  BY DEF CursorOf
<1>3. \A i \in kept' : i \in handled'[c] \/ i >= call'[c].next
  BY <1>1, <1>2
<1>4. \A i \in Ahead(c)' : i \in Nat /\ (i \in Ahead(c) \/ i > last)
  BY <1>1 DEF Ahead
<1>5. \A b \in call'[c].batch : b >= call'[c].next /\ \A i \in Ahead(c)' : i > b
  <2> SUFFICES ASSUME NEW b \in call[c].batch PROVE b >= call[c].next /\ \A i \in Ahead(c)' : i > b
    BY <1>1
  <2>1. b \in 1 .. last /\ b >= call[c].next /\ \A i \in Ahead(c) : i > b
    BY <1>2
  <2> QED
    BY <1>1, <1>4, <2>1
<1>6. call'[c].pc = "handling" /\ call'[c].short => \A i \in Ahead(c)' : i > call'[c].end
  BY <1>1, <1>2, <1>4 DEF CursorOf
<1>7. call'[c].pc = "done" => \A i \in kept' \ handled'[c] : call'[c].end > i => Digits(call'[c].next) # Digits(call'[c].end)
  BY <1>1, <1>2 DEF CursorOf
<1>8. call'[c].pc \in {"idle", "length", "lastId"} => call'[c].next = 0 /\ call'[c].end = 0
  BY <1>1 DEF CursorOf
<1> QED
  BY <1>1, <1>2, <1>3, <1>5, <1>6, <1>7, <1>8 DEF CursorOf

\* A cursor at the start of the stream, with no page.
LEMMA CursorStarts ==
    ASSUME NEW c \in Calls, call'[c].batch = {}, call'[c].next = 0, call'[c].end \in Nat, call'[c].end <= last', last' \in Nat,
           \A i \in kept' : i \in Nat, call'[c].pc # "handling",
           call'[c].pc \in {"idle", "length", "lastId", "done"} => call'[c].end = 0
    PROVE  CursorOf(c)'
<1>1. \A i \in kept' : i >= call'[c].next
  OBVIOUS
<1>2. call'[c].pc = "done" => \A i \in kept' : ~(call'[c].end > i)
  <2>1. call'[c].pc = "done" => call'[c].end = 0
    OBVIOUS
  <2>2. \A i \in kept' : ~(0 > i)
    OBVIOUS
  <2> QED
    BY <2>1, <2>2
<1>3. call'[c].pc \in {"idle", "length", "lastId"} => call'[c].next = 0 /\ call'[c].end = 0
  OBVIOUS
<1>4. call'[c].next <= last' + 1
  <2>1. \A n \in Nat : 0 <= n + 1
    OBVIOUS
  <2> QED
    BY <2>1
<1> QED
  BY <1>1, <1>2, <1>3, <1>4 DEF CursorOf

LEMMA PageCursor ==
    ASSUME Typed, Work, NEW c \in Replays, CursorOf(c), Page(c)
    PROVE  CursorOf(c)'
<1>1. UNCHANGED <<plan, last, kept, handled>> /\ call[c].pc = "paging" /\ c \in Calls /\ call[c] \in Records
      /\ last \in Nat /\ kept \subseteq 1 .. last /\ plan \in Plans
  BY DEF Page, Typed, server, Replays
<1> DEFINE S == {i \in kept : i >= call[c].next}
<1>2. S \subseteq 1 .. last /\ S \in SUBSET Int /\ IsFiniteSet(S) /\ OfPage(c) = Least(S, Batch(c)) /\ OfPage(c) \subseteq S
      /\ Batch(c) \in Nat \ {0}
  <2>1. S \subseteq 1 .. last
    BY <1>1
  <2>2. IsFiniteSet(1 .. last)
    BY <1>1, FS_Interval
  <2>3. IsFiniteSet(S)
    BY <2>1, <2>2, FS_Subset
  <2>4. Batch(c) \in Nat \ {0}
    BY <1>1, PlanFacts
  <2> QED
    BY <1>1, <2>1, <2>3, <2>4 DEF OfPage, Least
<1>3. Cardinality(OfPage(c)) < Batch(c) => OfPage(c) = S
  BY <1>2, LeastIsAll
<1>4. OfPage(c) = {} => S = {}
  BY <1>2, <1>3, FS_EmptySet
<1>5. \A b \in OfPage(c) : \A i \in S : i \notin OfPage(c) => i > b
  <2> SUFFICES ASSUME NEW b \in OfPage(c), NEW i \in S, i \notin OfPage(c), ~(i > b) PROVE FALSE
    OBVIOUS
  <2>1. i <= b
    BY <1>2
  <2> QED
    BY <1>2, <2>1, LeastIsLow
<1>6. PICK s \in Records :
         /\ s.next = call[c].next /\ s.end = call[c].end
         /\ \/ Quiet(c, s) /\ (s.pc = "closed" \/ (s.pc = "done" /\ OfPage(c) = {}))
            \/ /\ call' = [call EXCEPT ![c] = s] /\ s.pc = "handling" /\ s.batch = OfPage(c)
               /\ s.short = (Cardinality(OfPage(c)) < Batch(c))
  BY <1>1, PageIs
<1>7. call' = [call EXCEPT ![c] = s] /\ call'[c] = s
  BY <1>1, <1>6, SetCall DEF Typed, Quiet
<1>8. CASE Quiet(c, s) /\ s.pc = "closed"
  BY <1>1, <1>7, <1>8, <1>6, CursorStays DEF Quiet
<1>9. CASE Quiet(c, s) /\ s.pc = "done" /\ OfPage(c) = {}
  <2>1. s.batch = {}
    BY <1>1, <1>9 DEF Quiet, SameWork, Work, Holds
  <2>2. \A i \in kept : i \in handled[c]
    BY <1>4, <1>9 DEF CursorOf
  <2> QED
    BY <1>1, <1>6, <1>7, <1>9, <2>1, <2>2 DEF CursorOf
<1>10. CASE s.pc = "handling" /\ s.batch = OfPage(c) /\ s.short = (Cardinality(OfPage(c)) < Batch(c))
  <2>1. Ahead(c)' = S \ OfPage(c)
    BY <1>1, <1>6, <1>7, <1>10 DEF Ahead
  <2>2. \A b \in s.batch : b >= s.next /\ \A i \in Ahead(c)' : i > b
    BY <1>2, <1>5, <1>6, <1>10, <2>1
  <2>3. s.short => \A i \in Ahead(c)' : i > s.end
    BY <1>3, <1>10, <2>1
  <2> HIDE DEF S
  <2> QED
    BY <1>1, <1>2, <1>6, <1>7, <1>10, <2>2, <2>3 DEF CursorOf
<1> QED
  BY <1>6, <1>8, <1>9, <1>10

LEMMA ReplayedCursor ==
    ASSUME Typed, NEW c \in Replays, CursorOf(c), Replayed(c)
    PROVE  CursorOf(c)'
<1>1. UNCHANGED <<last, kept>> /\ call[c].pc = "handling" /\ c \in Calls /\ call[c] \in Records
      /\ last \in Nat /\ kept \subseteq 1 .. last /\ kept \subseteq Nat
  BY DEF Replayed, Typed, server, Replays
<1>2. PICK s \in Records, i \in call[c].batch :
         /\ \A j \in call[c].batch : i <= j
         /\ handled' = [handled EXCEPT ![c] = @ \cup {i}]
         /\ call' = [call EXCEPT ![c] = s] /\ s.end = call[c].end
         /\ s.short = call[c].short
         /\ s.next = i + 1
         /\ \/ s.pc = call[c].pc /\ s.batch = call[c].batch \ {i}
            \/ (s.pc = "paging" \/ s.pc = "closed") /\ s.batch = {}
            \/ /\ s.pc = "done" /\ s.batch = {} /\ call[c].batch \ {i} = {}
               /\ s.short \/ (s.end > 0 /\ AtOrAfter(s.next, s.end))
  BY <1>1, ReplayedIs
<1>3. call'[c] = s /\ handled'[c] = handled[c] \cup {i}
  BY <1>1, <1>2, SetCall DEF Typed
<1>4. /\ call[c].end <= last /\ call[c].next <= last + 1 /\ call[c].batch \subseteq 1 .. last
      /\ \A j \in kept : j \in handled[c] \/ j >= call[c].next
      /\ \A b \in call[c].batch : b >= call[c].next /\ \A j \in Ahead(c) : j > b
      /\ call[c].short => \A j \in Ahead(c) : j > call[c].end
  BY <1>1 DEF CursorOf
<1>5. i \in 1 .. last /\ i \in Nat /\ i >= call[c].next /\ call[c].next \in Nat /\ call[c].end \in Nat
  BY <1>1, <1>4 DEF Records
\* What is left after the entry: the rest of the page, and what lay beyond it.
<1>6. ASSUME NEW j \in kept, j \notin handled'[c]
      PROVE  j >= i + 1 /\ (j \in call[c].batch \/ j \in Ahead(c))
  <2>1. j >= call[c].next /\ j # i /\ j \in Nat
    BY <1>1, <1>3, <1>4, <1>6
  <2>2. CASE j \in call[c].batch
    BY <1>2, <1>5, <2>1, <2>2
  <2>3. CASE j \notin call[c].batch
    <3>1. j \in Ahead(c)
      BY <2>1, <2>3 DEF Ahead
    <3>2. j > i
      BY <1>4, <3>1
    <3> QED
      BY <1>5, <2>1, <3>1, <3>2
  <2> QED
    BY <2>2, <2>3
<1>7. s.end <= last' /\ s.next <= last' + 1 /\ s.batch \subseteq 1 .. last' /\ s.batch \subseteq call[c].batch \ {i}
  BY <1>1, <1>2, <1>4, <1>5
<1>8. \A j \in kept' : j \in handled'[c] \/ j >= s.next
  BY <1>1, <1>2, <1>6
<1>9. s.pc = "handling" => /\ s.batch = call[c].batch \ {i}
                          /\ \A j \in Ahead(c)' : j \in Ahead(c)
  <2> SUFFICES ASSUME s.pc = "handling", NEW j \in Ahead(c)' PROVE s.batch = call[c].batch \ {i} /\ j \in Ahead(c)
    BY <1>2
  <2>1. s.batch = call[c].batch \ {i}
    BY <1>2
  <2>2. j \in kept /\ j >= i + 1 /\ j \notin s.batch
    BY <1>1, <1>2, <1>3 DEF Ahead
  <2>3. j \notin call[c].batch /\ j >= call[c].next
    <3>1. j \in Nat /\ j > i /\ j # i
      BY <1>1, <1>5, <2>2
    <3> QED
      BY <1>5, <2>1, <2>2, <3>1
  <2> QED
    BY <2>1, <2>2, <2>3 DEF Ahead
<1>10. \A b \in s.batch : b >= s.next /\ \A j \in Ahead(c)' : j > b
  <2> SUFFICES ASSUME NEW b \in s.batch PROVE b >= i + 1 /\ \A j \in Ahead(c)' : j > b
    BY <1>2
  <2>1. b \in call[c].batch /\ b # i /\ b \in Nat /\ i <= b
    BY <1>2, <1>4, <1>7
  <2>2. s.pc = "handling"
    BY <1>1, <1>2
  <2> QED
    BY <1>4, <1>5, <1>9, <2>1, <2>2
<1>11. s.pc = "handling" /\ s.short => \A j \in Ahead(c)' : j > s.end
  BY <1>2, <1>4, <1>9
<1>12. s.pc = "done" => \A j \in kept' \ handled'[c] : s.end > j => Digits(s.next) # Digits(s.end)
  <2> SUFFICES ASSUME s.pc = "done", NEW j \in kept, j \notin handled'[c], s.end > j, Digits(s.next) = Digits(s.end) PROVE FALSE
    BY <1>1
  <2>1. call[c].batch \ {i} = {} /\ (s.short \/ AtOrAfter(s.next, s.end))
    BY <1>1, <1>2
  <2>2. j >= i + 1 /\ j \in Ahead(c)
    BY <1>3, <1>6, <2>1
  <2>3. ~s.short
    BY <1>1, <1>2, <1>4, <1>5, <2>2
  <2>4. s.next >= s.end
    BY <2>1, <2>3 DEF AtOrAfter
  <2> QED
    BY <1>1, <1>2, <1>5, <2>2, <2>4
<1>13. s.pc \notin {"idle", "length", "lastId"}
  BY <1>1, <1>2
<1> QED
  BY <1>3, <1>7, <1>8, <1>10, <1>11, <1>12, <1>13 DEF CursorOf

LEMMA NextCursor == TypeOK /\ Work /\ Cursor /\ [Next]_vars => Cursor'
<1> SUFFICES ASSUME TypeOK, Work, Cursor, [Next]_vars PROVE Cursor'
  OBVIOUS
<1>t. Typed
  BY TypedFacts
<1>n. last \in Nat /\ \A i \in kept : i \in Nat
  BY <1>t DEF Typed
\* Enough to see to the replays.
<1>p. ASSUME plan' = plan, \A c \in Replays : CursorOf(c)' PROVE Cursor'
  BY <1>p, PlanStays DEF Cursor
<1>c. \A c \in Replays : c \in Calls /\ CursorOf(c)
  BY DEF Cursor, Replays
\* A step of a call's: the other replays stay where they are.
<1>1. ASSUME UNCHANGED <<plan, last, kept>>, \A d \in Calls : handled[d] \subseteq handled'[d],
             NEW c \in Calls, NEW s \in Records, call' = [call EXCEPT ![c] = s],
             c \in Replays => CursorOf(c)'
      PROVE  Cursor'
  <2>1. \A d \in Calls : d # c => call'[d] = call[d]
    BY <1>t, <1>1, SetCall DEF Typed
  <2>2. ASSUME NEW d \in Replays, d # c PROVE CursorOf(d)'
    <3>1. SameWork(call[d], call'[d]) /\ call'[d].end = call[d].end /\ call'[d].pc = call[d].pc
      BY <1>c, <2>1, <2>2 DEF SameWork
    <3> QED
      BY <1>t, <1>n, <1>c, <1>1, <3>1, CursorStays
  <2> QED
    BY <1>p, <1>1, <2>2
\* A step that leaves what the calls have read alone.
<1>2. ASSUME plan' = plan, last' \in Nat, last' >= last, \A i \in kept' : i \in Nat /\ (i \in kept \/ i > last),
             \A d \in Calls : handled[d] \subseteq handled'[d],
             \A d \in Calls : SameWork(call[d], call'[d]) /\ call'[d].end = call[d].end /\ call'[d].pc = call[d].pc
      PROVE  Cursor'
  BY <1>t, <1>c, <1>p, <1>2, CursorStays
<1>3. ASSUME NEW c \in Calls, LastId(c) PROVE Cursor'
  <2>1. UNCHANGED <<plan, last, kept, handled>> /\ call[c].pc = "lastId" /\ call[c] \in Records
    BY <1>t, <1>3 DEF LastId, server, Typed
  <2>2. PICK r \in {call[c], [call[c] EXCEPT !.end = last]} : call' = [call EXCEPT ![c] = NextPage(r)]
    BY <1>3 DEF LastId, Set
  <2>3. r \in Records /\ SameWork(call[c], r) /\ r.end \in {call[c].end, last}
    <3>1. CASE r = call[c]
      BY <2>1, <3>1 DEF SameWork
    <3>2. CASE r = [call[c] EXCEPT !.end = last]
      <4>1. r \in Records /\ SameWork(call[c], r) /\ r.end = last
        BY <1>n, <2>1, <3>2, Zenon DEF Records, SameWork
      <4> QED
        BY <4>1
    <3> QED
      BY <3>1, <3>2
  <2> DEFINE s == NextPage(r)
  <2>4. s \in Records /\ SameWork(call[c], s) /\ s.end \in {call[c].end, last} /\ s.pc \in {"paging", "closed"}
    BY <2>3, NextPageIs DEF SameWork
  <2> HIDE DEF s
  <2>5. call' = [call EXCEPT ![c] = s] /\ call'[c] = s
    BY <1>t, <2>2, <2>4, SetCall DEF Typed, s
  <2>6. ASSUME c \in Replays PROVE CursorOf(c)'
    <3>1. call[c].next = 0 /\ call[c].end = 0
      BY <1>c, <2>1, <2>6 DEF CursorOf
    <3>2. s.batch = {} /\ s.next = 0
      BY <2>1, <2>4, <3>1 DEF Work, Holds, SameWork
    <3>3. s.end \in Nat /\ s.end <= last
      BY <1>n, <2>4, <3>1
    <3> QED
      BY <1>n, <2>1, <2>4, <2>5, <3>2, <3>3, CursorStarts
  <2> QED
    BY <1>1, <2>1, <2>4, <2>5, <2>6
<1>4. ASSUME NEW c \in Calls, Length(c) PROVE Cursor'
  <2>1. UNCHANGED <<plan, last, kept, handled>> /\ call[c].pc = "length" /\ call[c] \in Records
    BY <1>t, <1>4 DEF Length, server, Typed
  <2>2. PICK pc \in {"lastId", "done"} : call' = [call EXCEPT ![c] = [call[c] EXCEPT !.pc = pc]]
    BY <1>4 DEF Length, Set
  <2> DEFINE s == [call[c] EXCEPT !.pc = pc]
  <2>3. s \in Records /\ SameWork(call[c], s) /\ s.end = call[c].end /\ s.pc = pc
    BY <2>1, StageFacts, SetsStage
  <2>4. call' = [call EXCEPT ![c] = s]
    BY <2>2
  <2> HIDE DEF s
  <2>5. call'[c] = s
    BY <1>t, <2>3, <2>4, SetCall DEF Typed
  <2>6. ASSUME c \in Replays PROVE CursorOf(c)'
    <3>1. call[c].next = 0 /\ call[c].end = 0
      BY <1>c, <2>1, <2>6 DEF CursorOf
    <3>2. s.batch = {} /\ s.next = 0 /\ s.end = 0
      BY <2>1, <2>3, <3>1 DEF Work, Holds, SameWork
    <3>3. s.pc # "handling"
      BY <2>3
    <3> QED
      BY <1>n, <2>1, <2>5, <3>2, <3>3, CursorStarts
  <2> QED
    BY <1>1, <2>1, <2>3, <2>4, <2>6
<1>5. ASSUME NEW c \in Calls, Page(c) PROVE Cursor'
  <2>1. UNCHANGED <<plan, last, kept, handled>>
    BY <1>5 DEF Page, server
  <2>2. \E s \in Records : call' = [call EXCEPT ![c] = s]
    BY <1>t, <1>5, PageIs DEF Quiet
  <2>3. c \in Replays => CursorOf(c)'
    BY <1>t, <1>c, <1>5, PageCursor
  <2> QED
    BY <1>1, <2>1, <2>2, <2>3
<1>6. ASSUME NEW c \in Calls, Replayed(c) PROVE Cursor'
  <2>1. UNCHANGED <<plan, last, kept>> /\ c \in Replays
    BY <1>6 DEF Replayed, server
  <2>2. PICK s \in Records, i \in call[c].batch : call' = [call EXCEPT ![c] = s] /\ handled' = [handled EXCEPT ![c] = @ \cup {i}]
    BY <1>t, <1>6, ReplayedIs
  <2>3. \A d \in Calls : handled[d] \subseteq handled'[d]
    BY <1>t, <2>2 DEF Typed
  <2>4. CursorOf(c)'
    BY <1>t, <1>c, <1>6, <2>1, ReplayedCursor
  <2> QED
    BY <1>1, <2>1, <2>2, <2>3, <2>4
\* A quiet step is one of these, or keeps the cursor.
<1>7. ASSUME NEW c \in Calls, NEW s \in Records, Quiet(c, s), UNCHANGED <<plan, last, kept, handled>> PROVE Cursor'
  <2>1. CASE Length(c) \/ LastId(c) \/ Page(c)
    BY <1>3, <1>4, <1>5, <2>1
  <2>2. CASE ~(Length(c) \/ LastId(c) \/ Page(c))
    <3>1. call'[c] = s /\ call' = [call EXCEPT ![c] = s]
      BY <1>t, <1>7, SetCall DEF Typed, Quiet
    <3>2. SameWork(call[c], s) /\ s.end = call[c].end /\ s.pc # "idle"
          /\ (s.pc = call[c].pc \/ s.pc \notin {"length", "lastId", "done"}) /\ (s.pc = "handling" => s.pc = call[c].pc)
      BY <1>7, <2>2 DEF Quiet
    <3>3. c \in Replays => CursorOf(c)'
      BY <1>t, <1>n, <1>c, <1>7, <3>1, <3>2, CursorStays
    <3> QED
      BY <1>1, <1>7, <3>1, <3>3
  <2> QED
    BY <2>1, <2>2
<1>8. ASSUME NEW c \in Calls, Moves(c) PROVE Cursor'
  <2>1. UNCHANGED <<plan, last, kept, handled>>
    BY <1>8 DEF Moves, GroupCreated, GroupFails, ReadNothing, ReadFails, Resume, Length, LastId, PageFails, LoopEnded, Quit,
                Close, server
  <2>2. PICK s \in Records : Quiet(c, s)
    BY <1>t, <1>n, <1>8, MovesAreQuiet DEF Typed
  <2> QED
    BY <1>7, <2>1, <2>2
<1>9. ASSUME NEW c \in Calls, Subscribe(c) \/ Read(c) \/ \E i \in Ids : Handled(c, i) \/ Ack(c, i) \/ Undecoded(c, i) PROVE Cursor'
  <2>1. UNCHANGED <<plan, last, kept>> /\ plan \in Plans
    BY <1>t, <1>9 DEF Subscribe, Read, Handled, Ack, Undecoded, server, Typed
  <2>2. c \in Subscriptions
    BY <1>9 DEF Subscribe, Read, Handled, Ack, Undecoded, Work, Holds
  <2>3. c \notin Replays
    BY <2>1, <2>2, PlanFacts
  <2>4. \A d \in Calls : handled[d] \subseteq handled'[d]
    BY <1>t, <1>9 DEF Subscribe, Read, Handled, Ack, Undecoded, Typed
  <2>5. call[c].batch \cap call[c].inHand = {}
    BY DEF Work, Holds
  <2>6. \E s \in Records : call' = [call EXCEPT ![c] = s]
    <3>1. CASE Subscribe(c)
      BY <1>t, <3>1, SubscribeIs
    <3>2. CASE Read(c)
      BY <1>t, <3>2, ReadIs DEF Quiet
    <3>3. ASSUME NEW i \in Ids, Handled(c, i) PROVE \E s \in Records : call' = [call EXCEPT ![c] = s]
      BY <1>t, <3>3, HandledIs
    <3>4. ASSUME NEW i \in Ids, Ack(c, i) \/ Undecoded(c, i) PROVE \E s \in Records : call' = [call EXCEPT ![c] = s]
      BY <1>t, <2>5, <3>4, AckIs, UndecodedIs DEF Ends
    <3> QED
      BY <1>9, <3>1, <3>2, <3>3, <3>4
  <2> QED
    BY <1>1, <2>1, <2>3, <2>4, <2>6
<1>10. ASSUME NEW c \in Calls, Replay(c) PROVE Cursor'
  <2>1. UNCHANGED <<plan, last, kept, handled>>
    BY <1>10 DEF Replay, server
  <2>2. PICK s \in Records : /\ call' = [call EXCEPT ![c] = s] /\ s.pc = "length" /\ s.batch = {}
                             /\ s.next = 0 /\ s.end = 0
    BY <1>t, <1>10, ReplayIs
  <2>3. call'[c] = s
    BY <1>t, <2>2, SetCall DEF Typed
  <2>4. CursorOf(c)'
    BY <1>n, <2>1, <2>2, <2>3, CursorStarts
  <2> QED
    BY <1>1, <2>1, <2>2, <2>4
<1>11. ASSUME NEW k \in Clients, NEW n \in Ids, Emit(k, n) PROVE Cursor'
  <2>1. last' = last + n /\ UNCHANGED <<plan, call, handled>> /\ n \in Nat
        /\ kept' \subseteq kept \cup (last + 1 .. last + n)
    BY <1>11, IdsAreNumbers DEF Emit
  <2>2. last' \in Nat /\ last' >= last /\ \A i \in kept' : i \in Nat /\ (i \in kept \/ i > last)
    BY <1>n, <2>1
  <2> QED
    BY <1>2, <2>1, <2>2 DEF SameWork
<1>12. ASSUME NEW k \in Clients, Clear(k) \/ Shutdown(k) PROVE Cursor'
  <2>1. UNCHANGED <<plan, last, call, handled>> /\ kept' \subseteq kept
    BY <1>12 DEF Clear, Shutdown, server
  <2> QED
    BY <1>n, <1>2, <2>1 DEF SameWork
<1>13. ASSUME NEW k \in Clients, ShutdownNext(k) PROVE Cursor'
  <2>1. UNCHANGED <<plan, last, kept, handled>>
    BY <1>13 DEF ShutdownNext, server
  <2> QED
    BY <1>t, <1>7, <1>13, <2>1, ShutdownNextIs
<1>14. ASSUME NEW k \in Clients, ShutdownEnd(k) PROVE Cursor'
  <2>1. UNCHANGED <<plan, last, kept, handled>>
    BY <1>14 DEF ShutdownEnd, server
  <2>2. \A d \in Calls : SameWork(call[d], call'[d]) /\ call'[d].end = call[d].end /\ call'[d].pc = call[d].pc
    BY <1>t, <1>14, ShutdownEndIs
  <2> QED
    BY <1>n, <1>2, <2>1, <2>2
<1>15. ASSUME NEW k \in Clients, Crash(k) PROVE Cursor'
  <2>1. UNCHANGED <<plan, last, kept, handled>>
    BY <1>15 DEF Crash, server
  <2>2. \A d \in Calls : \/ call'[d] = call[d]
                         \/ call'[d].pc = "crashed" /\ call'[d].batch = {} /\ call'[d].next = 0 /\ call'[d].end = 0
    BY <1>t, <1>15, CrashIs
  <2>3. ASSUME NEW d \in Replays PROVE CursorOf(d)'
    <3>1. CASE call'[d] = call[d]
      <4>1. SameWork(call[d], call'[d]) /\ call'[d].end = call[d].end /\ call'[d].pc = call[d].pc
        BY <3>1 DEF SameWork
      <4> QED
        BY <1>t, <1>n, <1>c, <2>1, <4>1, CursorStays
    <3>2. CASE call'[d].pc = "crashed" /\ call'[d].batch = {} /\ call'[d].next = 0 /\ call'[d].end = 0
      BY <1>n, <1>c, <2>1, <3>2, CursorStarts
    <3> QED
      BY <1>c, <2>2, <3>1, <3>2
  <2> QED
    BY <1>p, <2>1, <2>3
<1>16. CASE UNCHANGED vars
  <2>1. UNCHANGED <<plan, last, kept, call, handled>>
    BY <1>16 DEF vars
  <2> QED
    BY <1>n, <1>2, <2>1 DEF SameWork
<1> QED
  BY <1>5, <1>6, <1>8, <1>9, <1>10, <1>11, <1>12, <1>13, <1>14, <1>15, <1>16 DEF Next, Proceed, Moves

LEMMA InitCursor == Init => Cursor
<1> SUFFICES ASSUME Init, NEW c \in Replays PROVE CursorOf(c)
  BY DEF Cursor
<1>1. call[c] = NewCall /\ kept = {} /\ last = 0
  BY DEF Init, Replays
<1>2. NewCall.pc = "idle" /\ NewCall.next = 0 /\ NewCall.end = 0 /\ NewCall.batch = {}
  BY DEF NewCall
<1> QED
  BY <1>1, <1>2 DEF CursorOf

\* A replay leaves out nothing before its cursor, and when it is done nothing up to the entry that was the last one.
THEOREM ReplaysAreWhole == Spec => []ReplayLeavesOutNothing
<1>1. Init => TypeOK /\ Work /\ Cursor
  BY InitTypeOK, InitCursor
<1>2. TypeOK /\ Work /\ Cursor /\ [Next]_vars => TypeOK' /\ Work' /\ Cursor'
  BY NextTypeOK, NextCursor
<1>3. Cursor => ReplayLeavesOutNothing
  BY DEF Cursor, CursorOf, ReplayLeavesOutNothing
<1> QED
  BY <1>1, <1>2, <1>3, PTL DEF Spec
====

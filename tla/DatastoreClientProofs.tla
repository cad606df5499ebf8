----------------------- MODULE DatastoreClientProofs -----------------------
(***************************************************************************)
(* Proofs about DatastoreClient for any emits, streams, subscriptions and  *)
(* any number of failures, with as many loops per subscription as the code *)
(* starts.  Order without gaps and NoneIsLeftBehind need events that have  *)
(* ids of their own; the other results do not.                             *)
(***************************************************************************)
EXTENDS DatastoreClient, FiniteSetTheorems, TLAPS

\* Each event has an id, and no other event has it.
IdsAreUnique == /\ \A ev \in Events : IdOf[ev] # NoId
                /\ \A ev, fv \in Events : IdOf[ev] = IdOf[fv] => ev = fv

Distinct(log) == \A m, n \in DOMAIN log : log[m] = log[n] => m = n

\* What a subscription took is a prefix of its stream, and its cursor the last of it.
Follows(sub, log) ==
    /\ Len(sub.taken) <= Len(log)
    /\ \A n \in 1..Len(sub.taken) : sub.taken[n] = log[n]
    /\ sub.cursor = IF Len(sub.taken) = 0 THEN NoId ELSE IdOf[log[Len(sub.taken)]]

\* Where the flag of process() is set, a loop runs.  (Loops may run where it is clear.)
FlagHasLoop(sub) == sub.processing => sub.loops # {}

TakesNext(old, new, log) ==
    \/ new.taken = old.taken
    \/ /\ Len(old.taken) < Len(log)
       /\ new.taken = Append(old.taken, log[Len(old.taken) + 1])
-----------------------------------------------------------------------------
(* The cursor. *)

\* With ids of their own, getNextAfter returns the event behind the last one taken.
LEMMA NextIsNext ==
    ASSUME IdsAreUnique, NEW log \in Seq(Events), Distinct(log),
           NEW k \in 0..Len(log),
           NEW cursor, cursor = IF k = 0 THEN NoId ELSE IdOf[log[k]]
    PROVE  GetNextAfter(log, cursor) = IF k + 1 \in DOMAIN log THEN log[k + 1] ELSE None
<1> DEFINE here == {n \in DOMAIN log : IdOf[log[n]] = cursor}
<1>1. \A n \in DOMAIN log : log[n] \in Events
  OBVIOUS
<1>2. CASE k = 0
  <2>1. cursor = NoId
    BY <1>2
  <2> QED
    BY <2>1, <1>2 DEF GetNextAfter
<1>3. CASE k # 0
  <2>1. k \in DOMAIN log /\ cursor = IdOf[log[k]]
    BY <1>3
  <2>2. cursor # NoId
    BY <2>1, <1>1 DEF IdsAreUnique
  <2>3. \A n \in DOMAIN log : IdOf[log[n]] = cursor => n = k
    BY <2>1, <1>1 DEF IdsAreUnique, Distinct
  <2>4. here = {k}
    BY <2>1, <2>3
  <2>5. (CHOOSE n \in here : \A m \in here : n <= m) = k
    BY <2>4, <2>1
  <2>6. here # {}
    BY <2>4
  <2> HIDE DEF here
  <2>7. (IF cursor = NoId THEN 1 ELSE IF here = {} THEN 0
         ELSE (CHOOSE n \in here : \A m \in here : n <= m) + 1) = k + 1
    BY <2>2, <2>5, <2>6
  <2> QED
    BY <2>7 DEF GetNextAfter, here
<1> QED
  BY <1>2, <1>3

\* Whatever the ids, what getNextAfter returns is an event of the stream.
LEMMA NextIsEvent ==
    ASSUME NEW log \in Seq(Events), NEW cursor
    PROVE  GetNextAfter(log, cursor) \in Events \cup {None}
<1> DEFINE here == {n \in DOMAIN log : IdOf[log[n]] = cursor}
           next == IF cursor = NoId THEN 1 ELSE IF here = {} THEN 0
                   ELSE (CHOOSE n \in here : \A m \in here : n <= m) + 1
<1>1. GetNextAfter(log, cursor) = IF next \in DOMAIN log THEN log[next] ELSE None
  BY DEF GetNextAfter
<1> HIDE DEF next
<1> QED
  BY <1>1
-----------------------------------------------------------------------------
(* The turn of a loop. *)

LEMMA TurnTypes ==
    ASSUME NEW s \in Subs, NEW sub \in SubRecords, NEW log \in Seq(Events)
    PROVE  /\ Turn(s, sub, log) \in SubRecords
           /\ FlagHasLoop(Turn(s, sub, log))
<1> DEFINE it == GetNextAfter(log, sub.cursor)
           loop == [n |-> Len(sub.taken) + 1,
                    at |-> IF calls[s[1]] = "closed" THEN "handling" ELSE "decoding"]
<1>1. it \in Events \cup {None} /\ sub.taken \in Seq(Events)
  BY NextIsEvent DEF SubRecords
<1>2. CASE it = None
  <2>1. Turn(s, sub, log) = [sub EXCEPT !.processing = FALSE]
    BY <1>2 DEF Turn
  <2> QED
    BY <2>1 DEF SubRecords, FlagHasLoop
<1>3. CASE it # None
  <2>1. it \in Events /\ Len(sub.taken) \in Nat
    BY <1>1, <1>3
  <2>2. loop \in [n: Nat \ {0}, at: {"decoding", "handling"}]
    BY <2>1
  <2>3. Turn(s, sub, log) = [sub EXCEPT !.cursor = IdOf[it], !.loops = @ \cup {loop},
                                        !.taken = Append(@, it)]
    BY <1>3 DEF Turn
  <2> HIDE DEF it, loop
  <2>4. /\ Append(sub.taken, it) \in Seq(Events)
        /\ IdOf[it] \in {IdOf[ev] : ev \in Events} \cup {NoId}
        /\ sub.loops \cup {loop} \in SUBSET [n: Nat \ {0}, at: {"decoding", "handling"}]
    BY <1>1, <2>1, <2>2 DEF SubRecords
  <2>5. loop \in Turn(s, sub, log).loops
    BY <2>3 DEF SubRecords
  <2> QED
    BY <2>3, <2>4, <2>5 DEF SubRecords, FlagHasLoop
<1> QED
  BY <1>2, <1>3

\* A wake-up that is refused clears the flag, whatever runs; any other is a turn.
LEMMA ProcessTypes ==
    ASSUME NEW s \in Subs, NEW sub \in SubRecords, NEW log \in Seq(Events), FlagHasLoop(sub)
    PROVE  /\ Process(s, sub, log) \in SubRecords
           /\ FlagHasLoop(Process(s, sub, log))
<1>1. [sub EXCEPT !.processing = TRUE] \in SubRecords /\ [sub EXCEPT !.processing = FALSE] \in SubRecords
  BY DEF SubRecords
<1>2. FlagHasLoop([sub EXCEPT !.processing = FALSE])
  BY DEF FlagHasLoop, SubRecords
<1> QED
  BY <1>1, <1>2, TurnTypes DEF Process, Woken

\* A turn takes the next event of the stream, or finds that there is none.
LEMMA TurnFollows ==
    ASSUME IdsAreUnique,
           NEW s \in Subs, NEW sub \in SubRecords, NEW log \in Seq(Events),
           Distinct(log), Follows(sub, log)
    PROVE  /\ Follows(Turn(s, sub, log), log)
           /\ TakesNext(sub, Turn(s, sub, log), log)
           /\ Turn(s, sub, log).loops = {} => Len(Turn(s, sub, log).taken) = Len(log)
<1> DEFINE it == GetNextAfter(log, sub.cursor)
           k == Len(sub.taken)
<1>1. /\ sub.taken \in Seq(Events) /\ k \in Nat /\ k <= Len(log)
      /\ \A n \in 1..k : sub.taken[n] = log[n]
      /\ sub.cursor = IF k = 0 THEN NoId ELSE IdOf[log[k]]
  BY DEF Follows, SubRecords
<1>2. it = IF k + 1 \in DOMAIN log THEN log[k + 1] ELSE None
  BY <1>1, NextIsNext
<1>3. CASE it = None
  <2>1. Turn(s, sub, log) = [sub EXCEPT !.processing = FALSE]
    BY <1>3 DEF Turn
  <2>2. Turn(s, sub, log).taken = sub.taken /\ Turn(s, sub, log).cursor = sub.cursor
    BY <2>1 DEF SubRecords
  <2>3. k + 1 \notin DOMAIN log
    <3>1. \A n \in DOMAIN log : log[n] # None
      BY NoneAssumption
    <3> QED
      BY <1>2, <1>3, <3>1
  <2>4. k = Len(log)
    BY <1>1, <2>3
  <2> QED
    BY <2>2, <2>4 DEF Follows, TakesNext
<1>4. CASE it # None
  <2>1. k + 1 \in DOMAIN log /\ it = log[k + 1]
    BY <1>2, <1>4
  <2>2. /\ Turn(s, sub, log).taken = Append(sub.taken, it)
        /\ Turn(s, sub, log).cursor = IdOf[it]
    BY <1>4 DEF Turn, SubRecords
  <2> DEFINE new == Turn(s, sub, log)
  <2>3. /\ Len(new.taken) = k + 1 /\ new.taken[k + 1] = it
        /\ \A n \in 1..k : new.taken[n] = sub.taken[n]
    <3> HIDE DEF it, new
    <3>1. Append(sub.taken, it) \in Seq(Events \cup {it})
      BY <1>1
    <3> QED
      BY <1>1, <2>2 DEF new
  <2> HIDE DEF it, new
  <2>4. \A n \in 1..(k + 1) : new.taken[n] = log[n]
    <3> SUFFICES ASSUME NEW n \in 1..(k + 1) PROVE new.taken[n] = log[n]
      OBVIOUS
    <3>1. CASE n = k + 1
      BY <3>1, <2>1, <2>3
    <3>2. CASE n # k + 1
      BY <3>2, <1>1, <2>3
    <3> QED
      BY <3>1, <3>2
  <2>5. k < Len(log) /\ new.taken = Append(sub.taken, log[k + 1])
    BY <1>1, <2>1, <2>2 DEF new
  <2>6. Follows(new, log)
    BY <1>1, <2>1, <2>2, <2>3, <2>4 DEF Follows, new
  <2>7. \E loop : new.loops = sub.loops \cup {loop}
    BY <1>4 DEF new, it, Turn, SubRecords
  <2> QED
    BY <2>5, <2>6, <2>7 DEF TakesNext, new
<1> QED
  BY <1>3, <1>4

\* So does a wake-up.
LEMMA ProcessFollows ==
    ASSUME IdsAreUnique,
           NEW s \in Subs, NEW sub \in SubRecords, NEW log \in Seq(Events),
           Distinct(log), Follows(sub, log), FlagHasLoop(sub)
    PROVE  LET new == Process(s, sub, log)
           IN  /\ Follows(new, log) /\ TakesNext(sub, new, log)
               /\ new.listed /\ new.loops = {} => Len(new.taken) = Len(log)
<1> DEFINE new == Process(s, sub, log)
           set == [sub EXCEPT !.processing = TRUE]
<1>1. CASE ~sub.listed
  BY <1>1 DEF Process, TakesNext
<1>2. CASE sub.listed /\ sub.processing
  <2>1. new = [sub EXCEPT !.processing = FALSE]
    BY <1>2 DEF Process, Woken
  <2>2. new.taken = sub.taken /\ new.cursor = sub.cursor /\ new.loops = sub.loops
    BY <2>1 DEF SubRecords
  <2> HIDE DEF new
  <2>3. sub.loops # {}
    BY <1>2 DEF FlagHasLoop
  <2> QED
    BY <2>2, <2>3 DEF Follows, TakesNext, new
<1>3. CASE sub.listed /\ ~sub.processing
  <2>1. new = Turn(s, set, log)
    BY <1>3 DEF Process, Woken
  <2>2. set \in SubRecords /\ set.taken = sub.taken /\ set.cursor = sub.cursor
    BY DEF SubRecords
  <2> HIDE DEF set, new
  <2>3. Follows(set, log)
    BY <2>2 DEF Follows
  <2>4. /\ Follows(new, log) /\ TakesNext(set, new, log)
        /\ new.loops = {} => Len(new.taken) = Len(log)
    BY <2>1, <2>2, <2>3, TurnFollows
  <2> QED
    BY <2>2, <2>4 DEF TakesNext, new
<1> QED
  BY <1>1, <1>2, <1>3

\* A stream that grows is still followed.
LEMMA FollowsGrowing ==
    ASSUME NEW sub \in SubRecords, NEW log \in Seq(Events), NEW ev \in Events, Follows(sub, log)
    PROVE  Follows(sub, Append(log, ev))
<1>1. /\ Append(log, ev) \in Seq(Events) /\ Len(Append(log, ev)) = Len(log) + 1
      /\ \A n \in DOMAIN log : Append(log, ev)[n] = log[n]
  OBVIOUS
<1>2. Len(sub.taken) \in Nat
  BY DEF SubRecords
<1>3. Len(sub.taken) # 0 => Len(sub.taken) \in DOMAIN log
  BY <1>2 DEF Follows
<1> QED
  BY <1>1, <1>2, <1>3 DEF Follows
-----------------------------------------------------------------------------
(* The invariant. *)

\* The events of a batch that emit has done with.
Out(e) == {m \in DOMAIN Batch[e] : m < emits[e].n \/ emits[e].at = "done"}

FlagsHaveLoops == \A s \in Subs : FlagHasLoop(subs[s])

\* An event is in a stream at most once, and there only after its emit put it there.
OnlyPublished == \A str \in Streams : \A k \in DOMAIN items[str] :
    \E e \in Emits : \E m \in Out(e) : items[str][k] = Batch[e][m]
ItemsDistinct == \A str \in Streams : Distinct(items[str])

\* An event being encoded has its row.
EncodingIsStored == \A e \in Emits : emits[e].at = "encoding" => Current(e) \in table

\* An open call keeps its group taken.
OpenHoldsGroup == \A c \in Calls : calls[c] = "open" /\ ~shut => GroupOf[c] \in consumerGroups

SubsFollow == \A s \in Subs : Follows(subs[s], items[s[2]])

IInv == /\ TypeOK
        /\ FlagsHaveLoops
        /\ OnlyPublished /\ ItemsDistinct
        /\ EncodingIsStored /\ PublishedIsStored
        /\ OpenHoldsGroup /\ GroupIsExclusive

\* The current event of an emit in progress.
LEMMA CurrentFacts ==
    ASSUME TypeOK, NEW e \in Emits
    PROVE  /\ emits[e].n \in DOMAIN Batch[e] /\ Current(e) \in Events
           /\ Len(Batch[e]) \in Nat /\ DOMAIN Batch[e] = 1..Len(Batch[e])
<1>1. Batch[e] \in Seq(Events) /\ emits[e].n \in 1..Len(Batch[e])
  BY BatchAssumption DEF TypeOK
<1> QED
  BY <1>1 DEF Current

\* What a publication does to the streams, and what it leaves.
LEMMA PublishFacts ==
    ASSUME TypeOK, OnlyPublished, ItemsDistinct, NEW e \in Emits, Publish(e)
    PROVE  /\ items' \in [Streams -> Seq(Events)]
           /\ \A str \in Streams : \/ items'[str] = items[str]
                                   \/ items'[str] = Append(items[str], Current(e))
           /\ OnlyPublished' /\ ItemsDistinct'
<1> USE CurrentFacts
<1>1. items \in [Streams -> Seq(Events)] /\ StreamOf[e] \in Streams
  BY StreamAssumption DEF TypeOK
<1>2. items' = Published(e)
  BY DEF Publish
<1>3. /\ items' \in [Streams -> Seq(Events)]
      /\ \A str \in Streams : \/ items'[str] = items[str]
                              \/ items'[str] = Append(items[str], Current(e))
  BY <1>1, <1>2 DEF Published
<1>4. emits[e].n \in Out(e)' /\ Current(e) = Batch[e][emits[e].n]
  <2>1. emits' = [emits EXCEPT ![e] = NextEvent(e)] /\ emits \in [Emits -> [at: {"idle", "storing", "encoding", "done", "failed"}, n: Nat]]
    BY DEF Publish, TypeOK
  <2>2. emits'[e].at = "done" \/ emits'[e].n = emits[e].n + 1
    BY <2>1 DEF NextEvent
  <2>3. emits[e].n < emits[e].n + 1
    BY <2>1
  <2> QED
    BY <2>1, <2>2, <2>3 DEF Out, Current
<1>5. \A f \in Emits : Out(f) \subseteq Out(f)'
  <2> SUFFICES ASSUME NEW f \in Emits PROVE Out(f) \subseteq Out(f)'
    OBVIOUS
  <2>1. /\ emits' = [emits EXCEPT ![e] = NextEvent(e)] /\ emits[e].at = "encoding"
        /\ emits \in [Emits -> [at: {"idle", "storing", "encoding", "done", "failed"}, n: Nat]]
    BY DEF Publish, TypeOK
  <2>2. CASE f # e
    BY <2>1, <2>2 DEF Out
  <2>3. CASE f = e
    <3>1. emits'[e].n = emits[e].n \/ emits'[e].n = emits[e].n + 1
      BY <2>1 DEF NextEvent
    <3>2. \A m \in DOMAIN Batch[e] : m < emits[e].n => m < emits'[e].n
      BY <2>1, <3>1
    <3> QED
      BY <2>1, <2>3, <3>2 DEF Out
  <2> QED
    BY <2>2, <2>3
<1>6. \A str \in Streams : \A k \in DOMAIN items[str] : items[str][k] # Current(e)
  <2> SUFFICES ASSUME NEW str \in Streams, NEW k \in DOMAIN items[str],
                      items[str][k] = Current(e)
               PROVE  FALSE
    OBVIOUS
  <2>1. PICK f \in Emits : \E m \in Out(f) : items[str][k] = Batch[f][m]
    BY DEF OnlyPublished
  <2>2. PICK m \in Out(f) : items[str][k] = Batch[f][m]
    BY <2>1
  <2>3. m \in DOMAIN Batch[f] /\ Batch[f][m] = Batch[e][emits[e].n]
    BY <2>2 DEF Out, Current
  <2>4. f = e /\ m = emits[e].n
    BY <2>3, BatchAssumption
  <2>5. emits[e].at = "encoding" /\ emits[e].n \in Nat
    BY DEF Publish, TypeOK
  <2> QED
    BY <2>2, <2>4, <2>5 DEF Out
<1>7. OnlyPublished'
  <2> SUFFICES ASSUME NEW str \in Streams, NEW k \in DOMAIN items'[str]
               PROVE  \E f \in Emits : \E m \in Out(f)' : items'[str][k] = Batch[f][m]
    BY DEF OnlyPublished
  <2>1. (k \in DOMAIN items[str] /\ items'[str][k] = items[str][k]) \/ items'[str][k] = Current(e)
    <3>1. items[str] \in Seq(Events)
      BY <1>1
    <3>2. CASE items'[str] = items[str]
      BY <3>2
    <3>3. CASE items'[str] = Append(items[str], Current(e))
      BY <3>1, <3>3
    <3> QED
      BY <1>3, <3>2, <3>3
  <2> QED
    BY <2>1, <1>4, <1>5 DEF OnlyPublished
<1>8. ItemsDistinct'
  <2> SUFFICES ASSUME NEW str \in Streams PROVE Distinct(items'[str])
    BY DEF ItemsDistinct
  <2>1. Distinct(items[str])
    BY DEF ItemsDistinct
  <2>2. CASE items'[str] = items[str]
    BY <2>1, <2>2
  <2>3. CASE items'[str] = Append(items[str], Current(e))
    <3>1. /\ items[str] \in Seq(Events)
          /\ DOMAIN items'[str] = DOMAIN items[str] \cup {Len(items[str]) + 1}
          /\ \A k \in DOMAIN items[str] : items'[str][k] = items[str][k]
          /\ items'[str][Len(items[str]) + 1] = Current(e)
      BY <1>1, <2>3
    <3> QED
      BY <3>1, <2>1, <1>6 DEF Distinct
  <2> QED
    BY <1>3, <2>2, <2>3
<1> QED
  BY <1>3, <1>7, <1>8

\* Subscriptions that are woken keep their types.
LEMMA TickFacts ==
    ASSUME TypeOK, FlagsHaveLoops, NEW logs \in [Streams -> Seq(Events)], TickSubs(logs)
    PROVE  subs' \in [Subs -> SubRecords] /\ FlagsHaveLoops'
<1>1. ASSUME NEW s \in Subs
      PROVE  Process(s, subs[s], logs[s[2]]) \in SubRecords
             /\ FlagHasLoop(Process(s, subs[s], logs[s[2]]))
  <2>1. subs[s] \in SubRecords /\ logs[s[2]] \in Seq(Events)
    BY <1>1 DEF TypeOK, Subs
  <2> QED
    BY <2>1, ProcessTypes DEF FlagsHaveLoops
<1>2. subs' = [s \in Subs |-> Process(s, subs[s], logs[s[2]])]
  BY DEF TickSubs
<1> QED
  BY <1>1, <1>2 DEF FlagsHaveLoops

\* A step of one subscription, and nothing else, is as good as what it does to its record.
LEMMA OneSub ==
    ASSUME TypeOK, FlagsHaveLoops, NEW s \in Subs, NEW new \in SubRecords,
           FlagHasLoop(new), subs' = [subs EXCEPT ![s] = new]
    PROVE  subs' \in [Subs -> SubRecords] /\ FlagsHaveLoops'
<1>1. subs \in [Subs -> SubRecords]
  BY DEF TypeOK
<1> QED
  BY <1>1 DEF FlagsHaveLoops

\* The steps of the loops themselves.
LEMMA SubStepTypes ==
    ASSUME IInv, NEW s \in Subs, SubStep(s)
    PROVE  subs' \in [Subs -> SubRecords] /\ FlagsHaveLoops'
<1> DEFINE sub == subs[s]
<1>1. /\ TypeOK /\ FlagsHaveLoops /\ sub \in SubRecords
      /\ subs \in [Subs -> SubRecords] /\ items[s[2]] \in Seq(Events)
  BY DEF IInv, TypeOK, Subs
<1>2. CASE Decode(s)
  <2>1. PICK loop \in sub.loops :
            subs' = [subs EXCEPT ![s].loops = (@ \ {loop}) \cup {[loop EXCEPT !.at = "handling"]}]
    BY <1>2 DEF Decode
  <2> DEFINE later == [loop EXCEPT !.at = "handling"]
             new == [sub EXCEPT !.loops = (@ \ {loop}) \cup {later}]
  <2>2. loop \in [n: Nat \ {0}, at: {"decoding", "handling"}]
    BY <1>1, <2>1 DEF SubRecords
  <2>3. later \in [n: Nat \ {0}, at: {"decoding", "handling"}]
    BY <2>2
  <2> HIDE DEF later
  <2>4. new \in SubRecords /\ later \in new.loops
    BY <1>1, <2>3 DEF SubRecords
  <2>5. subs' = [subs EXCEPT ![s] = new]
    BY <2>1, <1>1 DEF later
  <2> HIDE DEF new
  <2> QED
    BY <1>1, <2>4, <2>5, OneSub DEF FlagHasLoop
<1>3. CASE Handled(s)
  <2>1. PICK loop \in sub.loops :
            subs' = [subs EXCEPT ![s] = Turn(s, Left(s, loop), items[s[2]])]
    BY <1>3 DEF Handled
  <2> DEFINE new == Turn(s, Left(s, loop), items[s[2]])
  <2>2. Left(s, loop) \in SubRecords
    BY <1>1 DEF SubRecords, Left
  <2>3. subs' = [subs EXCEPT ![s] = new]
    BY <2>1
  <2>4. new \in SubRecords /\ FlagHasLoop(new)
    BY <1>1, <2>2, TurnTypes
  <2> HIDE DEF new
  <2> QED
    BY <1>1, <2>3, <2>4, OneSub
<1>4. CASE Throws(s)
  <2>1. PICK loop \in sub.loops :
            subs' = [subs EXCEPT ![s].loops = @ \ {loop}, ![s].processing = FALSE]
    BY <1>4 DEF Throws
  <2> DEFINE new == [sub EXCEPT !.loops = @ \ {loop}, !.processing = FALSE]
  <2>2. new \in SubRecords /\ new.processing = FALSE
    BY <1>1 DEF SubRecords
  <2>3. subs' = [subs EXCEPT ![s] = new]
    BY <2>1, <1>1
  <2> HIDE DEF new
  <2> QED
    BY <1>1, <2>2, <2>3, OneSub DEF FlagHasLoop
<1> QED
  BY <1>2, <1>3, <1>4 DEF SubStep
-----------------------------------------------------------------------------
(* Every step, part by part of the invariant. *)

LEMMA StepTypes ==
    ASSUME IInv, [Next]_vars
    PROVE  TypeOK' /\ FlagsHaveLoops'
<1> DEFINE EmitRecords == [at: {"idle", "storing", "encoding", "done", "failed"}, n: Nat]
<1>1. /\ TypeOK /\ FlagsHaveLoops /\ OnlyPublished /\ ItemsDistinct
      /\ emits \in [Emits -> EmitRecords] /\ table \subseteq Events
      /\ \A e \in Emits : emits[e].n \in 1..Len(Batch[e])
      /\ calls \in [Calls -> {"none", "refused", "open", "closed"}]
      /\ listener \in [Crosses -> {"none", "lookup", "on"}]
      /\ Crosses \subseteq Calls /\ Hots \subseteq Calls
  BY DEF IInv, TypeOK, Calls
<1>2. CASE UNCHANGED vars
  BY <1>1, <1>2 DEF vars, TypeOK, FlagsHaveLoops, FlagHasLoop
<1>3. ASSUME NEW e \in Emits, EmitStep(e) PROVE TypeOK' /\ FlagsHaveLoops'
  <2>1. CASE Emit(e)
    BY <1>1, <2>1 DEF Emit, TypeOK, FlagsHaveLoops, FlagHasLoop
  <2>2. CASE Store(e)
    <3>1. table' \subseteq Events
      BY <1>1, <2>2, CurrentFacts DEF Store
    <3> QED
      BY <1>1, <2>2, <3>1 DEF Store, TypeOK, FlagsHaveLoops, FlagHasLoop
  <2>3. CASE Publish(e)
    <3>1. items' \in [Streams -> Seq(Events)]
      BY <1>1, <2>3, PublishFacts
    <3>2. subs' \in [Subs -> SubRecords] /\ FlagsHaveLoops'
      <4>1. CASE TickSubs(items')
        BY <1>1, <3>1, <4>1, TickFacts
      <4>2. CASE UNCHANGED subs
        BY <1>1, <4>2 DEF TypeOK, FlagsHaveLoops, FlagHasLoop
      <4> QED
        BY <2>3, <4>1, <4>2 DEF Publish
    <3>3. NextEvent(e) \in EmitRecords /\ NextEvent(e).n \in 1..Len(Batch[e])
      BY <1>1, CurrentFacts DEF NextEvent
    <3>4. /\ emits' \in [Emits -> EmitRecords]
          /\ \A f \in Emits : emits'[f].n \in 1..Len(Batch[f])
      BY <1>1, <2>3, <3>3 DEF Publish
    <3> QED
      BY <1>1, <2>3, <3>1, <3>2, <3>4 DEF Publish, TypeOK
  <2>4. CASE EmitFails(e)
    BY <1>1, <2>4 DEF EmitFails, Fail, TypeOK, FlagsHaveLoops, FlagHasLoop
  <2> QED
    BY <1>3, <2>1, <2>2, <2>3, <2>4 DEF EmitStep
<1>4. ASSUME NEW s \in Subs, SubStep(s) PROVE TypeOK' /\ FlagsHaveLoops'
  <2>1. subs' \in [Subs -> SubRecords] /\ FlagsHaveLoops'
    BY <1>4, SubStepTypes
  <2>2. failed' \subseteq Emits \cup Subs
    BY <1>1, <1>4 DEF SubStep, Decode, Handled, Throws, Fail, TypeOK
  <2>3. UNCHANGED <<table, items, emits, calls, listener, consumerGroups, shut>>
    BY <1>4 DEF SubStep, Decode, Handled, Throws
  <2> QED
    BY <1>1, <2>1, <2>2, <2>3 DEF TypeOK
<1>5. ASSUME NEW c \in Calls, CallStep(c) PROVE TypeOK' /\ FlagsHaveLoops'
  <2>1. CASE Refuse(c)
    BY <1>1, <2>1 DEF Refuse, TypeOK, FlagsHaveLoops, FlagHasLoop
  <2>2. CASE Close(c)
    <3>1. listener' \in [Crosses -> {"none", "lookup", "on"}]
      BY <1>1, <2>2 DEF Close
    <3> QED
      BY <1>1, <2>2, <3>1 DEF Close, TypeOK, FlagsHaveLoops, FlagHasLoop
  <2>3. CASE HotStream(c)
    <3>1. \A s \in Subs : /\ [subs[s] EXCEPT !.listed = TRUE] \in SubRecords
                          /\ FlagHasLoop([subs[s] EXCEPT !.listed = TRUE])
      BY <1>1 DEF TypeOK, FlagsHaveLoops, FlagHasLoop, SubRecords
    <3>2. subs' \in [Subs -> SubRecords] /\ FlagsHaveLoops'
      BY <1>1, <2>3, <3>1 DEF HotStream, TypeOK, FlagsHaveLoops
    <3> QED
      BY <1>1, <2>3, <3>2 DEF HotStream, TypeOK
  <2>4. CASE c \in Crosses /\ ColdHotStream(c)
    BY <1>1, <2>4 DEF ColdHotStream, TypeOK, FlagsHaveLoops, FlagHasLoop
  <2>5. CASE c \in Crosses /\ Listen(c)
    BY <1>1, <2>5 DEF Listen, TypeOK, FlagsHaveLoops, FlagHasLoop
  <2> QED
    BY <1>5, <2>1, <2>2, <2>3, <2>4, <2>5 DEF CallStep
<1>6. CASE Shutdown
  <2>1. \A s \in Subs : /\ [subs[s] EXCEPT !.listed = FALSE] \in SubRecords
                        /\ FlagHasLoop([subs[s] EXCEPT !.listed = FALSE])
    BY <1>1 DEF TypeOK, FlagsHaveLoops, FlagHasLoop, SubRecords
  <2>2. subs' \in [Subs -> SubRecords] /\ FlagsHaveLoops'
    BY <1>1, <1>6, <2>1 DEF Shutdown, TypeOK, FlagsHaveLoops
  <2>3. listener' \in [Crosses -> {"none", "lookup", "on"}]
    BY <1>1, <1>6 DEF Shutdown
  <2> QED
    BY <1>1, <1>6, <2>2, <2>3 DEF Shutdown, TypeOK
<1> QED
  BY <1>2, <1>3, <1>4, <1>5, <1>6 DEF Next

\* Only Publish changes the streams, and no step takes back what an emit has done.
LEMMA StepStreams ==
    ASSUME IInv, [Next]_vars
    PROVE  OnlyPublished' /\ ItemsDistinct'
<1>1. /\ TypeOK /\ OnlyPublished /\ ItemsDistinct
      /\ emits \in [Emits -> [at: {"idle", "storing", "encoding", "done", "failed"}, n: Nat]]
  BY DEF IInv, TypeOK
<1>2. CASE UNCHANGED items /\ \A e \in Emits : Out(e) \subseteq Out(e)'
  BY <1>1, <1>2 DEF OnlyPublished, ItemsDistinct
<1>3. CASE UNCHANGED <<items, emits>>
  BY <1>1, <1>3 DEF OnlyPublished, ItemsDistinct, Out
<1>4. ASSUME NEW e \in Emits, EmitStep(e) PROVE OnlyPublished' /\ ItemsDistinct'
  <2>1. CASE Publish(e)
    BY <1>1, <2>1, PublishFacts
  <2>2. CASE Emit(e) \/ Store(e) \/ EmitFails(e)
    <3>1. \A f \in Emits : Out(f) \subseteq Out(f)'
      BY <1>1, <2>2 DEF Emit, Store, EmitFails, Out
    <3> QED
      BY <1>2, <2>2, <3>1 DEF Emit, Store, EmitFails
  <2> QED
    BY <1>4, <2>1, <2>2 DEF EmitStep
<1>5. ASSUME NEW s \in Subs, SubStep(s) PROVE UNCHANGED <<items, emits>>
  BY <1>5 DEF SubStep, Decode, Handled, Throws
<1>6. ASSUME NEW c \in Calls, CallStep(c) PROVE UNCHANGED <<items, emits>>
  BY <1>6 DEF CallStep, Refuse, Close, HotStream, ColdHotStream, Listen
<1>7. Shutdown \/ UNCHANGED vars => UNCHANGED <<items, emits>>
  BY DEF Shutdown, vars
<1> QED
  BY <1>3, <1>4, <1>5, <1>6, <1>7 DEF Next

\* The row comes first, and stays.
LEMMA StepStored ==
    ASSUME IInv, [Next]_vars
    PROVE  EncodingIsStored' /\ PublishedIsStored'
<1>1. /\ TypeOK /\ EncodingIsStored /\ PublishedIsStored /\ OnlyPublished /\ ItemsDistinct
      /\ emits \in [Emits -> [at: {"idle", "storing", "encoding", "done", "failed"}, n: Nat]]
      /\ items \in [Streams -> Seq(Events)] /\ table \subseteq Events
  BY DEF IInv, TypeOK
<1>2. CASE UNCHANGED <<table, items, emits>>
  BY <1>1, <1>2 DEF EncodingIsStored, PublishedIsStored, Current
<1>3. ASSUME NEW e \in Emits, EmitStep(e) PROVE EncodingIsStored' /\ PublishedIsStored'
  <2>1. CASE Emit(e) \/ EmitFails(e)
    <3>1. /\ UNCHANGED <<table, items>>
          /\ \A f \in Emits : emits'[f].at = "encoding" => emits'[f] = emits[f]
      BY <1>1, <2>1 DEF Emit, EmitFails
    <3>2. EncodingIsStored'
      BY <1>1, <3>1 DEF EncodingIsStored, Current
    <3> QED
      BY <1>1, <3>1, <3>2 DEF PublishedIsStored
  <2>2. CASE Store(e)
    <3>2. table' = table \cup {Current(e)}
      BY <2>2 DEF Store
    <3>3. PublishedIsStored'
      BY <1>1, <2>2, <3>2 DEF Store, PublishedIsStored
    <3>4. \A f \in Emits : emits'[f].n = emits[f].n /\ (f # e => emits'[f] = emits[f])
      BY <1>1, <2>2 DEF Store
    <3>5. EncodingIsStored'
      BY <1>1, <3>2, <3>4 DEF EncodingIsStored, Current
    <3> QED
      BY <3>3, <3>5
  <2>3. CASE Publish(e)
    <3>1. Current(e) \in table
      BY <1>1, <2>3 DEF Publish, EncodingIsStored
    <3>2. \A str \in Streams : \/ items'[str] = items[str]
                               \/ items'[str] = Append(items[str], Current(e))
      BY <1>1, <2>3, PublishFacts
    <3>3. ASSUME NEW str \in Streams, NEW n \in DOMAIN items'[str]
          PROVE  (n \in DOMAIN items[str] /\ items'[str][n] = items[str][n]) \/ items'[str][n] = Current(e)
      <4>1. items[str] \in Seq(Events)
        BY <1>1
      <4>2. CASE items'[str] = items[str]
        BY <4>2, <3>3
      <4>3. CASE items'[str] = Append(items[str], Current(e))
        BY <4>1, <4>3, <3>3
      <4> QED
        BY <3>2, <4>2, <4>3
    <3>4. UNCHANGED table
      BY <2>3 DEF Publish
    <3>5. PublishedIsStored'
      BY <1>1, <3>1, <3>3, <3>4 DEF PublishedIsStored
    <3>6. \A f \in Emits : emits'[f].at = "encoding" => emits'[f] = emits[f]
      BY <1>1, <2>3 DEF Publish, NextEvent
    <3>7. EncodingIsStored'
      BY <1>1, <3>4, <3>6 DEF EncodingIsStored, Current
    <3> QED
      BY <3>5, <3>7
  <2> QED
    BY <1>3, <2>1, <2>2, <2>3 DEF EmitStep
<1>4. ASSUME NEW s \in Subs, SubStep(s) PROVE UNCHANGED <<table, items, emits>>
  BY <1>4 DEF SubStep, Decode, Handled, Throws
<1>5. ASSUME NEW c \in Calls, CallStep(c) PROVE UNCHANGED <<table, items, emits>>
  BY <1>5 DEF CallStep, Refuse, Close, HotStream, ColdHotStream, Listen
<1>6. Shutdown \/ UNCHANGED vars => UNCHANGED <<table, items, emits>>
  BY DEF Shutdown, vars
<1> QED
  BY <1>2, <1>3, <1>4, <1>5, <1>6 DEF Next

\* A call is admitted when no open call holds its group.
LEMMA StepGroups ==
    ASSUME IInv, [Next]_vars
    PROVE  OpenHoldsGroup' /\ GroupIsExclusive'
<1>1. /\ OpenHoldsGroup /\ GroupIsExclusive
      /\ calls \in [Calls -> {"none", "refused", "open", "closed"}]
  BY DEF IInv, TypeOK
<1>2. CASE UNCHANGED <<calls, consumerGroups, shut>>
  BY <1>1, <1>2 DEF OpenHoldsGroup, GroupIsExclusive
<1>3. ASSUME NEW c \in Calls, CallStep(c) PROVE OpenHoldsGroup' /\ GroupIsExclusive'
  <2>1. CASE Refuse(c)
    BY <1>1, <2>1 DEF Refuse, OpenHoldsGroup, GroupIsExclusive
  <2>2. CASE Close(c)
    BY <1>1, <2>2 DEF Close, OpenHoldsGroup, GroupIsExclusive
  <2>3. CASE HotStream(c) \/ ColdHotStream(c)
    BY <1>1, <2>3 DEF HotStream, ColdHotStream, Admit, OpenHoldsGroup, GroupIsExclusive
  <2>4. CASE Listen(c)
    BY <1>2, <2>4 DEF Listen
  <2> QED
    BY <1>3, <2>1, <2>2, <2>3, <2>4 DEF CallStep
<1>4. ASSUME NEW e \in Emits, EmitStep(e) PROVE UNCHANGED <<calls, consumerGroups, shut>>
  BY <1>4 DEF EmitStep, Emit, Store, Publish, EmitFails
<1>5. ASSUME NEW s \in Subs, SubStep(s) PROVE UNCHANGED <<calls, consumerGroups, shut>>
  BY <1>5 DEF SubStep, Decode, Handled, Throws
<1>6. CASE Shutdown
  BY <1>1, <1>6 DEF Shutdown, OpenHoldsGroup, GroupIsExclusive
<1>7. CASE UNCHANGED vars
  BY <1>2, <1>7 DEF vars
<1> QED
  BY <1>2, <1>3, <1>4, <1>5, <1>6, <1>7 DEF Next
-----------------------------------------------------------------------------
(* The invariants, as theorems. *)

LEMMA Inductive == /\ Init => IInv
                   /\ IInv /\ [Next]_vars => IInv'
<1>1. ASSUME Init PROVE IInv
  <2>1. \A e \in Emits : Len(Batch[e]) \in Nat \ {0}
    <3> SUFFICES ASSUME NEW e \in Emits PROVE Len(Batch[e]) \in Nat \ {0}
      OBVIOUS
    <3>1. Batch[e] \in Seq(Events) /\ Batch[e] # <<>>
      BY BatchAssumption
    <3> QED
      BY <3>1
  <2>2. NewSub \in SubRecords /\ FlagHasLoop(NewSub)
    BY DEF NewSub, SubRecords, FlagHasLoop
  <2>3. TypeOK
    <3>1. /\ items \in [Streams -> Seq(Events)] /\ table \subseteq Events
          /\ subs \in [Subs -> SubRecords]
      BY <1>1, <2>2 DEF Init
    <3>2. /\ emits \in [Emits -> [at: {"idle", "storing", "encoding", "done", "failed"}, n: Nat]]
          /\ \A e \in Emits : emits[e].n \in 1..Len(Batch[e])
      BY <1>1, <2>1 DEF Init
    <3>3. /\ calls \in [Calls -> {"none", "refused", "open", "closed"}]
          /\ listener \in [Crosses -> {"none", "lookup", "on"}]
          /\ consumerGroups = {} /\ failed = {} /\ shut \in BOOLEAN
      BY <1>1 DEF Init
    <3> QED
      BY <3>1, <3>2, <3>3 DEF TypeOK
  <2> QED
    BY <1>1, <2>2, <2>3 DEF Init, IInv, FlagsHaveLoops, OnlyPublished, ItemsDistinct, Distinct,
       EncodingIsStored, PublishedIsStored, OpenHoldsGroup, GroupIsExclusive
<1>2. ASSUME IInv, [Next]_vars PROVE IInv'
  BY <1>2, StepTypes, StepStreams, StepStored, StepGroups DEF IInv
<1> QED
  BY <1>1, <1>2

THEOREM Invariance == Spec => []IInv
BY Inductive, PTL DEF Spec

\* Every variable keeps its type.
THEOREM TypeCorrect == Spec => []TypeOK
<1>1. IInv => TypeOK
  BY DEF IInv
<1> QED
  BY <1>1, Invariance, PTL

\* Whatever a subscription reads in memory is in the table.
THEOREM StoredBeforePublished == Spec => []PublishedIsStored
<1>1. IInv => PublishedIsStored
  BY DEF IInv
<1> QED
  BY <1>1, Invariance, PTL

\* One group has one open subscription.
THEOREM GroupsAreExclusive == Spec => []GroupIsExclusive
<1>1. IInv => GroupIsExclusive
  BY DEF IInv
<1> QED
  BY <1>1, Invariance, PTL
-----------------------------------------------------------------------------
(* Order without gaps. *)

\* Every subscription that is woken takes its next event, or none; and if no loop of it
\* runs then, there is none.
LEMMA TickFollows ==
    ASSUME IdsAreUnique, TypeOK, FlagsHaveLoops,
           NEW logs \in [Streams -> Seq(Events)], TickSubs(logs),
           \A str \in Streams : Distinct(logs[str]),
           \A s \in Subs : Follows(subs[s], logs[s[2]])
    PROVE  \A s \in Subs : /\ Follows(subs'[s], logs[s[2]])
                           /\ TakesNext(subs[s], subs'[s], logs[s[2]])
                           /\ subs'[s].listed /\ subs'[s].loops = {}
                              => Len(subs'[s].taken) = Len(logs[s[2]])
<1> SUFFICES ASSUME NEW s \in Subs
             PROVE  /\ Follows(subs'[s], logs[s[2]])
                    /\ TakesNext(subs[s], subs'[s], logs[s[2]])
                    /\ subs'[s].listed /\ subs'[s].loops = {}
                       => Len(subs'[s].taken) = Len(logs[s[2]])
  OBVIOUS
<1>1. /\ subs[s] \in SubRecords /\ logs[s[2]] \in Seq(Events)
      /\ Distinct(logs[s[2]]) /\ Follows(subs[s], logs[s[2]]) /\ FlagHasLoop(subs[s])
  BY DEF TypeOK, Subs, FlagsHaveLoops
<1>2. subs'[s] = Process(s, subs[s], logs[s[2]])
  BY DEF TickSubs
<1> QED
  BY <1>1, <1>2, ProcessFollows

\* A step of the client, seen by its subscriptions.
Grows == \/ UNCHANGED items
         \/ \E str \in Streams, ev \in Events : items' = [items EXCEPT ![str] = Append(@, ev)]
Advances == \A s \in Subs : TakesNext(subs[s], subs'[s], items'[s[2]])

LEMMA StepFollows ==
    ASSUME IdsAreUnique, IInv, SubsFollow, [Next]_vars
    PROVE  SubsFollow' /\ Grows /\ Advances
<1>1. /\ TypeOK /\ FlagsHaveLoops /\ OnlyPublished /\ ItemsDistinct
      /\ items \in [Streams -> Seq(Events)] /\ subs \in [Subs -> SubRecords]
      /\ \A s \in Subs : s[2] \in Streams
  BY DEF IInv, TypeOK, Subs
\* Most steps leave the streams and what was taken from them.
<1>2. CASE /\ UNCHANGED items
           /\ \A s \in Subs : subs'[s].taken = subs[s].taken /\ subs'[s].cursor = subs[s].cursor
  <2>1. \A s \in Subs : Follows(subs[s], items[s[2]]) => Follows(subs'[s], items[s[2]])
    BY <1>2 DEF Follows
  <2>2. SubsFollow'
    BY <1>2, <2>1 DEF SubsFollow
  <2> QED
    BY <1>2, <2>2 DEF Grows, Advances, TakesNext
<1>3. CASE UNCHANGED <<items, subs>>
  BY <1>2, <1>3
<1>4. ASSUME NEW e \in Emits, EmitStep(e) PROVE SubsFollow' /\ Grows /\ Advances
  <2>1. CASE Publish(e)
    <3>1. /\ items' \in [Streams -> Seq(Events)] /\ ItemsDistinct'
          /\ \A str \in Streams : \/ items'[str] = items[str]
                                  \/ items'[str] = Append(items[str], Current(e))
      BY <1>1, <2>1, PublishFacts
    <3>2. Current(e) \in Events
      BY <1>1, CurrentFacts
    <3>3. Grows
      BY <1>1, <2>1, <3>2, StreamAssumption DEF Publish, Published, Grows
    <3>4. ASSUME NEW s \in Subs PROVE Follows(subs[s], items'[s[2]])
      <4>1. Follows(subs[s], items[s[2]])
        BY DEF SubsFollow
      <4>2. subs[s] \in SubRecords /\ items[s[2]] \in Seq(Events) /\ s[2] \in Streams
        BY <1>1
      <4>3. CASE items'[s[2]] = items[s[2]]
        BY <4>1, <4>3
      <4>4. CASE items'[s[2]] = Append(items[s[2]], Current(e))
        BY <4>1, <4>2, <4>4, <3>2, FollowsGrowing
      <4> QED
        BY <3>1, <4>2, <4>3, <4>4
    <3>5. CASE TickSubs(items')
      <4>1. \A str \in Streams : Distinct(items'[str])
        BY <3>1 DEF ItemsDistinct
      <4>2. \A s \in Subs : /\ Follows(subs'[s], items'[s[2]])
                            /\ TakesNext(subs[s], subs'[s], items'[s[2]])
        BY <1>1, <3>1, <3>4, <3>5, <4>1, TickFollows
      <4> QED
        BY <3>3, <4>2 DEF SubsFollow, Advances
    <3>6. CASE UNCHANGED subs
      BY <3>3, <3>4, <3>6 DEF SubsFollow, Advances, TakesNext
    <3> QED
      BY <2>1, <3>5, <3>6 DEF Publish
  <2>2. CASE Emit(e) \/ Store(e) \/ EmitFails(e)
    BY <1>3, <2>2 DEF Emit, Store, EmitFails
  <2> QED
    BY <1>4, <2>1, <2>2 DEF EmitStep
<1>5. ASSUME NEW s \in Subs, SubStep(s) PROVE SubsFollow' /\ Grows /\ Advances
  <2>1. CASE Decode(s) \/ Throws(s)
    <3> SUFFICES \A x \in Subs : subs'[x].taken = subs[x].taken /\ subs'[x].cursor = subs[x].cursor
      BY <1>2, <2>1 DEF Decode, Throws
    <3>1. CASE Decode(s)
      <4>1. PICK loop \in subs[s].loops :
                subs' = [subs EXCEPT ![s].loops = (@ \ {loop}) \cup {[loop EXCEPT !.at = "handling"]}]
        BY <3>1 DEF Decode
      <4> QED
        BY <1>1, <4>1 DEF SubRecords
    <3>2. CASE Throws(s)
      <4>1. PICK loop \in subs[s].loops :
                subs' = [subs EXCEPT ![s].loops = @ \ {loop}, ![s].processing = FALSE]
        BY <3>2 DEF Throws
      <4> QED
        BY <1>1, <4>1 DEF SubRecords
    <3> QED
      BY <2>1, <3>1, <3>2
  <2>2. CASE Handled(s)
    <3>1. PICK loop \in subs[s].loops :
              subs' = [subs EXCEPT ![s] = Turn(s, Left(s, loop), items[s[2]])]
      BY <2>2 DEF Handled
    <3> DEFINE new == Turn(s, Left(s, loop), items[s[2]])
    <3>2. /\ Left(s, loop) \in SubRecords
          /\ Left(s, loop).taken = subs[s].taken /\ Left(s, loop).cursor = subs[s].cursor
      BY <1>1 DEF Left, SubRecords
    <3>3. /\ Follows(Left(s, loop), items[s[2]])
          /\ Distinct(items[s[2]]) /\ items[s[2]] \in Seq(Events)
      BY <1>1, <3>2 DEF SubsFollow, Follows, ItemsDistinct
    <3>4. Follows(new, items[s[2]]) /\ TakesNext(Left(s, loop), new, items[s[2]])
      BY <3>2, <3>3, TurnFollows
    <3> HIDE DEF new
    <3>5. subs' = [subs EXCEPT ![s] = new] /\ UNCHANGED items
      BY <2>2, <3>1 DEF new, Handled
    <3>6. \A x \in Subs : subs'[x] = IF x = s THEN new ELSE subs[x]
      BY <1>1, <3>5
    <3>7. TakesNext(subs[s], new, items[s[2]])
      BY <3>2, <3>4 DEF TakesNext
    <3>8. SubsFollow'
      BY <3>4, <3>5, <3>6 DEF SubsFollow
    <3>9. Advances
      BY <3>5, <3>6, <3>7 DEF Advances, TakesNext
    <3> QED
      BY <3>5, <3>8, <3>9 DEF Grows
  <2> QED
    BY <1>5, <2>1, <2>2 DEF SubStep
<1>6. ASSUME NEW c \in Calls, CallStep(c) PROVE SubsFollow' /\ Grows /\ Advances
  <2>1. CASE HotStream(c)
    <3>1. \A x \in Subs : subs'[x].taken = subs[x].taken /\ subs'[x].cursor = subs[x].cursor
      BY <1>1, <2>1 DEF HotStream, SubRecords
    <3> QED
      BY <1>2, <2>1, <3>1 DEF HotStream
  <2>2. CASE Refuse(c) \/ Close(c) \/ ColdHotStream(c) \/ Listen(c)
    BY <1>3, <2>2 DEF Refuse, Close, ColdHotStream, Listen
  <2> QED
    BY <1>6, <2>1, <2>2 DEF CallStep
<1>7. CASE Shutdown
  <2>1. \A x \in Subs : subs'[x].taken = subs[x].taken /\ subs'[x].cursor = subs[x].cursor
    BY <1>1, <1>7 DEF Shutdown, SubRecords
  <2> QED
    BY <1>2, <1>7, <2>1 DEF Shutdown
<1>8. CASE UNCHANGED vars
  BY <1>3, <1>8 DEF vars
<1> QED
  BY <1>4, <1>5, <1>6, <1>7, <1>8 DEF Next

\* When events have ids of their own, each subscription takes its stream in order, without
\* repetition or gap, whatever fails and however emits overlap.
THEOREM Refinement == ASSUME IdsAreUnique PROVE Spec => ImplementsOrderedDelivery
<1>1. Init => Ordered!Init /\ SubsFollow
  <2> SUFFICES ASSUME Init PROVE Ordered!Init /\ SubsFollow
    OBVIOUS
  <2>1. \A s \in Subs : subs[s] = NewSub /\ items[s[2]] = <<>>
    BY DEF Init, Subs
  <2> QED
    BY <2>1 DEF Init, NewSub, Ordered!Init, SubsFollow, Follows
<1>2. IInv /\ SubsFollow /\ [Next]_vars => SubsFollow' /\ [Ordered!Next]_(Ordered!vars)
  <2> SUFFICES ASSUME IInv, SubsFollow, [Next]_vars
               PROVE  SubsFollow' /\ [Ordered!Next]_(Ordered!vars)
    OBVIOUS
  <2>1. SubsFollow' /\ Grows /\ Advances
    BY StepFollows
  <2>2. \A s \in Subs : \/ subs'[s].taken = subs[s].taken
                        \/ /\ Len(subs[s].taken) < Len(items'[s[2]])
                           /\ subs'[s].taken = Append(subs[s].taken, items'[s[2]][Len(subs[s].taken) + 1])
    BY <2>1 DEF Advances, TakesNext
  <2>3. Ordered!Next
    BY <2>1, <2>2 DEF Ordered!Next, Ordered!Publish, Ordered!Take, Grows
  <2> QED
    BY <2>1, <2>3
<1> QED
  BY <1>1, <1>2, Invariance, PTL DEF Spec, ImplementsOrderedDelivery, Ordered!Spec
-----------------------------------------------------------------------------
(* No wake-up is lost. *)

\* Until it is called, a subscription is as it was made.
NewUntilCalled == \A s \in Subs : calls[s[1]] = "none" => subs[s] = NewSub

\* A step that publishes nothing, and leaves the loops of s and what they took alone.
Quiet(s) == /\ UNCHANGED items
            /\ subs'[s].taken = subs[s].taken /\ subs'[s].loops = subs[s].loops
            /\ subs'[s].listed => subs[s].listed
            /\ failed \subseteq failed'

LEMMA StepNew ==
    ASSUME IInv, NewUntilCalled, [Next]_vars
    PROVE  NewUntilCalled'
<1>1. /\ subs \in [Subs -> SubRecords] /\ calls \in [Calls -> {"none", "refused", "open", "closed"}]
  BY DEF IInv, TypeOK
<1>2. CASE UNCHANGED <<calls, subs>>
  BY <1>2 DEF NewUntilCalled
<1>3. ASSUME NEW e \in Emits, EmitStep(e) PROVE NewUntilCalled'
  <2>1. CASE Emit(e) \/ Store(e) \/ EmitFails(e)
    BY <1>2, <2>1 DEF Emit, Store, EmitFails
  <2>2. CASE Publish(e)
    <3>1. CASE TickSubs(items')
      <4>1. \A s \in Subs : ~subs[s].listed => subs'[s] = subs[s]
        BY <3>1 DEF TickSubs, Process
      <4> QED
        <5>1. UNCHANGED calls /\ NewSub.listed = FALSE
          BY <2>2 DEF Publish, NewSub
        <5> QED
          BY <4>1, <5>1 DEF NewUntilCalled
    <3> QED
      BY <1>2, <2>2, <3>1 DEF Publish
  <2> QED
    BY <1>3, <2>1, <2>2 DEF EmitStep
<1>4. ASSUME NEW s \in Subs, SubStep(s) PROVE NewUntilCalled'
  <2>1. \E loop \in subs[s].loops : TRUE
    BY <1>4 DEF SubStep, Decode, Handled, Throws
  <2>2. calls[s[1]] # "none"
    BY <2>1 DEF NewUntilCalled, NewSub
  <2>3. UNCHANGED calls /\ \A x \in Subs : x # s => subs'[x] = subs[x]
    BY <1>1, <1>4 DEF SubStep, Decode, Handled, Throws
  <2> QED
    BY <2>2, <2>3 DEF NewUntilCalled
<1>5. ASSUME NEW c \in Calls, CallStep(c) PROVE NewUntilCalled'
  <2>1. CASE HotStream(c)
    BY <1>1, <2>1 DEF HotStream, NewUntilCalled
  <2>2. CASE Refuse(c) \/ Close(c) \/ ColdHotStream(c) \/ Listen(c)
    <3>1. UNCHANGED subs /\ \A d \in Calls : calls'[d] = "none" => calls[d] = "none"
      BY <1>1, <2>2 DEF Refuse, Close, ColdHotStream, Listen
    <3>2. \A s \in Subs : s[1] \in Calls
      BY DEF Subs, Calls
    <3> QED
      BY <3>1, <3>2 DEF NewUntilCalled
  <2> QED
    BY <1>5, <2>1, <2>2 DEF CallStep
<1>6. CASE Shutdown
  <2>1. UNCHANGED calls /\ \A s \in Subs : subs'[s] = [subs[s] EXCEPT !.listed = FALSE]
    BY <1>6 DEF Shutdown
  <2>2. ASSUME NEW s \in Subs, subs[s] = NewSub PROVE subs'[s] = NewSub
    <3>1. subs'[s] = [NewSub EXCEPT !.listed = FALSE]
      BY <2>1, <2>2
    <3> QED
      BY <3>1, Zenon DEF NewSub
  <2> QED
    BY <2>1, <2>2 DEF NewUntilCalled
<1> QED
  BY <1>2, <1>3, <1>4, <1>5, <1>6 DEF Next, vars

\* An event stays unannounced until a step that wakes every subscription.
LEMMA StaysUnannounced ==
    ASSUME IInv, [Next]_vars, NEW ev, Unannounced(ev)
    PROVE  Unannounced(ev)' \/ TickSubs(items')
<1> DEFINE Mid == {"storing", "encoding", "failed"}
<1>1. /\ TypeOK
      /\ emits \in [Emits -> [at: {"idle", "storing", "encoding", "done", "failed"}, n: Nat]]
  BY DEF IInv, TypeOK
<1>2. PICK e \in Emits : emits[e].at \in Mid /\ \E n \in 1..emits[e].n - 1 : Batch[e][n] = ev
  BY DEF Unannounced
<1>3. CASE emits'[e] = emits[e]
  BY <1>2, <1>3 DEF Unannounced
<1>4. CASE emits'[e].n \in Nat /\ emits'[e].n >= emits[e].n /\ emits'[e].at \in Mid
  <2>1. 1..emits[e].n - 1 \subseteq 1..emits'[e].n - 1
    BY <1>1, <1>4
  <2> QED
    BY <1>2, <1>4, <2>1 DEF Unannounced
<1>5. ASSUME NEW f \in Emits, EmitStep(f)
      PROVE  Unannounced(ev)' \/ TickSubs(items')
  <2>1. CASE f # e
    <3>1. emits'[e] = emits[e]
      BY <1>1, <1>5, <2>1 DEF EmitStep, Emit, Store, Publish, EmitFails
    <3> QED
      BY <1>3, <3>1
  <2>2. CASE f = e /\ (Emit(e) \/ Store(e) \/ EmitFails(e))
    BY <1>1, <1>2, <1>4, <2>2 DEF Emit, Store, EmitFails
  <2>3. CASE f = e /\ Publish(e)
    <3>1. CASE emits[e].n = Len(Batch[e])
      BY <2>3, <3>1 DEF Publish
    <3>2. CASE emits[e].n # Len(Batch[e])
      <4>1. emits'[e] = [at |-> "storing", n |-> emits[e].n + 1]
        BY <1>1, <2>3, <3>2 DEF Publish, NextEvent
      <4> QED
        BY <1>1, <1>4, <4>1
    <3> QED
      BY <3>1, <3>2
  <2> QED
    BY <1>5, <2>1, <2>2, <2>3 DEF EmitStep
<1>6. ASSUME NEW s \in Subs, SubStep(s) PROVE UNCHANGED emits
  BY <1>6 DEF SubStep, Decode, Handled, Throws
<1>7. ASSUME NEW c \in Calls, CallStep(c) PROVE UNCHANGED emits
  BY <1>7 DEF CallStep, Refuse, Close, HotStream, ColdHotStream, Listen
<1>8. Shutdown \/ UNCHANGED vars => UNCHANGED emits
  BY DEF Shutdown, vars
<1> QED
  BY <1>3, <1>5, <1>6, <1>7, <1>8 DEF Next

\* What a publication behind which nobody is woken adds is unannounced.
LEMMA PublishedMidway ==
    ASSUME IInv, NEW e \in Emits, Publish(e), emits[e].n # Len(Batch[e]),
           NEW ev, ev = Current(e)
    PROVE  Unannounced(ev)'
<1>1. /\ emits \in [Emits -> [at: {"idle", "storing", "encoding", "done", "failed"}, n: Nat]]
      /\ emits[e].n \in 1..Len(Batch[e])
  BY DEF IInv, TypeOK
<1>2. emits'[e] = [at |-> "storing", n |-> emits[e].n + 1]
  BY <1>1 DEF Publish, NextEvent
<1>3. emits[e].n \in 1..emits'[e].n - 1 /\ emits'[e].at = "storing"
  BY <1>1, <1>2
<1>4. Batch[e][emits[e].n] = ev
  BY DEF Current
<1> QED
  BY <1>3, <1>4 DEF Unannounced

LEMMA StepAnnounced ==
    ASSUME IdsAreUnique, IInv, SubsFollow, NewUntilCalled, NoWakeUpIsLost, [Next]_vars
    PROVE  NoWakeUpIsLost'
<1> SUFFICES ASSUME NEW s \in Subs, s \notin failed',
                    subs'[s].listed, subs'[s].taken # <<>>, subs'[s].loops = {},
                    NEW ev \in Waiting(s)'
             PROVE  Unannounced(ev)'
  BY DEF NoWakeUpIsLost
<1>1. /\ TypeOK /\ FlagsHaveLoops /\ OnlyPublished /\ ItemsDistinct
      /\ items \in [Streams -> Seq(Events)] /\ subs \in [Subs -> SubRecords]
      /\ \A x \in Subs : x[2] \in Streams
  BY DEF IInv, TypeOK, Subs
<1>2. SubsFollow' /\ Grows
  BY StepFollows
\* A subscription that has come to the end of its stream has nothing waiting.
<1>3. Len(subs'[s].taken) # Len(items'[s[2]])
  <2>1. PICK n \in Len(subs'[s].taken) + 1..Len(items'[s[2]]) : TRUE
    BY DEF Waiting
  <2>2. subs'[s].taken \in Seq(Events) /\ items'[s[2]] \in Seq(Events)
    BY Inductive, <1>1 DEF IInv, TypeOK, SubRecords
  <2> QED
    BY <2>1, <2>2
<1>4. ~TickSubs(items')
  <2> SUFFICES ASSUME TickSubs(items') PROVE FALSE
    OBVIOUS
  <2>1. items' \in [Streams -> Seq(Events)] /\ \A str \in Streams : Distinct(items'[str])
    BY Inductive DEF IInv, TypeOK, ItemsDistinct
  <2>2. ASSUME NEW x \in Subs PROVE Follows(subs[x], items'[x[2]])
    <3>1. Follows(subs[x], items[x[2]]) /\ subs[x] \in SubRecords /\ items[x[2]] \in Seq(Events)
      BY <1>1 DEF SubsFollow
    <3>2. items'[x[2]] = items[x[2]] \/ \E fv \in Events : items'[x[2]] = Append(items[x[2]], fv)
      BY <1>1, <1>2 DEF Grows
    <3> QED
      BY <3>1, <3>2, FollowsGrowing
  <2>3. subs'[s].listed /\ subs'[s].loops = {} => Len(subs'[s].taken) = Len(items'[s[2]])
    BY <1>1, <2>1, <2>2, TickFollows
  <2> QED
    BY <1>3, <2>3
<1>5. Unannounced(ev) => Unannounced(ev)'
  BY <1>4, StaysUnannounced
<1>6. CASE Quiet(s)
  <2>1. /\ s \notin failed /\ subs[s].listed /\ subs[s].taken # <<>> /\ subs[s].loops = {}
        /\ ev \in Waiting(s)
    BY <1>6 DEF Quiet, Waiting
  <2> QED
    BY <1>5, <2>1 DEF NoWakeUpIsLost
<1>7. ASSUME NEW e \in Emits, EmitStep(e) PROVE Unannounced(ev)'
  <2>1. CASE Emit(e) \/ Store(e) \/ EmitFails(e)
    BY <1>6, <2>1 DEF Emit, Store, EmitFails, Fail, Quiet
  <2>2. CASE Publish(e)
    <3>1. UNCHANGED <<subs, failed>> /\ emits[e].n # Len(Batch[e])
      BY <1>4, <2>2 DEF Publish
    <3>2. CASE items'[s[2]] = items[s[2]]
      <4>1. ev \in Waiting(s)
        BY <3>1, <3>2 DEF Waiting
      <4> QED
        BY <1>5, <3>1, <4>1 DEF NoWakeUpIsLost
    <3>3. CASE items'[s[2]] = Append(items[s[2]], Current(e))
      <4>1. PICK n \in Len(subs[s].taken) + 1..Len(items'[s[2]]) : ev = items'[s[2]][n]
        BY <3>1 DEF Waiting
      <4>2. items[s[2]] \in Seq(Events) /\ Len(subs[s].taken) \in Nat
        BY <1>1 DEF SubRecords
      <4>3. \/ n \in Len(subs[s].taken) + 1..Len(items[s[2]]) /\ ev = items[s[2]][n]
            \/ ev = Current(e)
        BY <3>3, <4>1, <4>2
      <4>4. ev \in Waiting(s) \/ ev = Current(e)
        BY <4>3 DEF Waiting
      <4> QED
        BY <1>5, <2>2, <3>1, <4>4, PublishedMidway DEF NoWakeUpIsLost
    <3> QED
      BY <1>1, <2>2, <3>2, <3>3, PublishFacts
  <2> QED
    BY <1>7, <2>1, <2>2 DEF EmitStep
<1>8. ASSUME NEW x \in Subs, SubStep(x) PROVE Unannounced(ev)'
  <2>1. CASE x # s
    BY <1>1, <1>6, <1>8, <2>1 DEF SubStep, Decode, Handled, Throws, Fail, Quiet
  <2>2. CASE x = s /\ Throws(s)
    BY <2>2 DEF Throws, Fail
  <2>3. CASE x = s /\ Decode(s)
    <3>1. PICK loop \in subs[s].loops :
              subs' = [subs EXCEPT ![s].loops = (@ \ {loop}) \cup {[loop EXCEPT !.at = "handling"]}]
      BY <2>3 DEF Decode
    <3>2. subs'[s].loops = (subs[s].loops \ {loop}) \cup {[loop EXCEPT !.at = "handling"]}
      BY <1>1, <3>1 DEF SubRecords
    <3> QED
      BY <3>2
  <2>4. CASE x = s /\ Handled(s)
    <3>1. PICK loop \in subs[s].loops :
              subs' = [subs EXCEPT ![s] = Turn(s, Left(s, loop), items[s[2]])]
      BY <2>4 DEF Handled
    <3>2. /\ Left(s, loop) \in SubRecords
          /\ Left(s, loop).taken = subs[s].taken /\ Left(s, loop).cursor = subs[s].cursor
      BY <1>1 DEF Left, SubRecords
    <3>3. Follows(Left(s, loop), items[s[2]]) /\ Distinct(items[s[2]])
      BY <1>1, <3>2 DEF SubsFollow, Follows, ItemsDistinct
    <3>4. Turn(s, Left(s, loop), items[s[2]]).loops = {}
             => Len(Turn(s, Left(s, loop), items[s[2]]).taken) = Len(items[s[2]])
      BY <1>1, <3>2, <3>3, TurnFollows
    <3>5. subs'[s] = Turn(s, Left(s, loop), items[s[2]]) /\ items' = items
      BY <1>1, <2>4, <3>1 DEF Handled
    <3> QED
      BY <1>3, <3>4, <3>5
  <2> QED
    BY <1>8, <2>1, <2>2, <2>3, <2>4 DEF SubStep
<1>9. ASSUME NEW c \in Calls, CallStep(c) PROVE Unannounced(ev)'
  <2>1. CASE HotStream(c)
    <3>1. CASE s[1] = c
      <4>1. subs[s] = NewSub
        BY <2>1, <3>1 DEF HotStream, Admit, NewUntilCalled
      <4>2. subs'[s] = [subs[s] EXCEPT !.listed = TRUE]
        BY <2>1, <3>1 DEF HotStream
      <4>3. subs'[s].taken = <<>>
        BY <4>1, <4>2 DEF NewSub
      <4> QED
        BY <4>3
    <3>2. CASE s[1] # c
      BY <1>6, <2>1, <3>2 DEF HotStream, Quiet
    <3> QED
      BY <3>1, <3>2
  <2>2. CASE Refuse(c) \/ Close(c) \/ ColdHotStream(c) \/ Listen(c)
    BY <1>6, <2>2 DEF Refuse, Close, ColdHotStream, Listen, Quiet
  <2> QED
    BY <1>9, <2>1, <2>2 DEF CallStep
<1>10. CASE Shutdown
  <2>1. subs'[s] = [subs[s] EXCEPT !.listed = FALSE]
    BY <1>10 DEF Shutdown
  <2>2. subs'[s].listed = FALSE
    BY <1>1, <2>1 DEF SubRecords
  <2> QED
    BY <2>2
<1>11. CASE UNCHANGED vars
  BY <1>6, <1>11 DEF vars, Quiet
<1> QED
  BY <1>7, <1>8, <1>9, <1>10, <1>11 DEF Next

\* When events have ids of their own, a published event waits for another emit's wake-up only
\* behind a loop that runs, or because its own emit has not come to its end.
THEOREM NoneIsLeftBehind == ASSUME IdsAreUnique PROVE Spec => []NoWakeUpIsLost
<1>1. Init => SubsFollow /\ NewUntilCalled /\ NoWakeUpIsLost
  <2> SUFFICES ASSUME Init PROVE SubsFollow /\ NewUntilCalled /\ NoWakeUpIsLost
    OBVIOUS
  <2>1. \A s \in Subs : subs[s] = NewSub /\ items[s[2]] = <<>>
    BY DEF Init, Subs
  <2>2. NewSub.taken = <<>> /\ NewSub.cursor = NoId /\ NewSub.listed = FALSE
    BY DEF NewSub
  <2>3. SubsFollow
    BY <2>1, <2>2 DEF SubsFollow, Follows
  <2> QED
    BY <2>1, <2>2, <2>3 DEF NewUntilCalled, NoWakeUpIsLost
<1>2. IInv /\ SubsFollow /\ NewUntilCalled /\ NoWakeUpIsLost /\ [Next]_vars
         => SubsFollow' /\ NewUntilCalled' /\ NoWakeUpIsLost'
  BY StepFollows, StepNew, StepAnnounced
<1> QED
  BY <1>1, <1>2, Invariance, PTL DEF Spec
=============================================================================

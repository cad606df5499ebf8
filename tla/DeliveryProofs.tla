--------------------------- MODULE DeliveryProofs ---------------------------
(***************************************************************************)
(* Both ends of the way of an event, for any numbers of emits, processes,  *)
(* groups and failures.  The outbox loses nothing that committed, and      *)
(* implements the promise of EventDelivery: a flush only ever holds        *)
(* committed entries, and from the moment it may remove them only entries  *)
(* the broker has.  Views and adapters pass nothing over, and a view       *)
(* handles nothing twice that it could mark.                               *)
(***************************************************************************)
EXTENDS Outbox, ViewDelivery, TLAPS

Committed == {e \in Emits : emits[e] = "committed"}

\* Rows and batches are of committed emits.
OnlyCommitted == /\ outbox \subseteq Committed
                 /\ \A f \in Flushes : flushes[f].batch \subseteq Committed

\* A batch that may be removed is delivered.
RemovableIsDelivered == \A f \in Flushes :
    flushes[f].at \in {"removing", "committing"} => flushes[f].batch \subseteq delivered

IInv == TypeOK /\ OnlyCommitted /\ RemovableIsDelivered /\ NoLoss

FlushRecord == [at: Places, batch: SUBSET Emits, awaited: Nat]
-----------------------------------------------------------------------------
\* Setting one invocation leaves the others as they were.
LEMMA SetFacts ==
    ASSUME TypeOK, NEW f \in Flushes, NEW flush \in FlushRecord, Set(f, flush)
    PROVE  /\ flushes' \in [Flushes -> FlushRecord]
           /\ flushes'[f] = flush
           /\ \A g \in Flushes : g # f => flushes'[g] = flushes[g]
  BY DEF TypeOK, Set, FlushRecord

\* The flag of a process stays a flag.
LEMMA FlagFacts ==
    ASSUME TypeOK, NEW p, NEW flag \in BOOLEAN, SetFlag(p, flag) \/ UNCHANGED isFlushing
    PROVE  isFlushing' \in [Senders -> BOOLEAN]
  BY DEF TypeOK, SetFlag

\* The empty table and the idle invocations satisfy the invariant.
LEMMA InitIInv == Init => IInv
<1> SUFFICES ASSUME Init PROVE IInv
  OBVIOUS
<1>1. flushes \in [Flushes -> FlushRecord]
  BY DEF Init, NoFlush, FlushRecord, Places
<1>2. TypeOK
  BY <1>1, MaxFailuresAssumption DEF Init, TypeOK, FlushRecord, Statuses, Links
<1>3. OnlyCommitted /\ RemovableIsDelivered /\ NoLoss
  BY DEF Init, OnlyCommitted, RemovableIsDelivered, NoLoss, NoFlush
<1> QED BY <1>2, <1>3 DEF IInv

\* A started flush holds nothing yet.
LEMMA StartFlushFacts ==
    ASSUME TypeOK, NEW p \in Senders, StartFlush(p)
    PROVE  /\ flushes' \in [Flushes -> FlushRecord] /\ isFlushing' \in [Senders -> BOOLEAN]
           /\ \A f \in Flushes : flushes'[f] = flushes[f] \/ (flushes'[f].at = "reading" /\ flushes'[f].batch = {})
<1>1. CASE isFlushing[p]
  BY <1>1 DEF StartFlush, TypeOK, FlushRecord
<1>2. CASE ~isFlushing[p]
  <2> DEFINE new == [NoFlush EXCEPT !.at = "reading"]
             f == CHOOSE g \in Idle(p) : TRUE
  <2>1. f \in Flushes
    BY <1>2 DEF StartFlush, Idle
  <2>2. new \in FlushRecord /\ new.at = "reading" /\ new.batch = {}
    BY DEF NoFlush, FlushRecord, Places
  <2>3. Set(f, new) /\ SetFlag(p, TRUE)
    BY <1>2 DEF StartFlush
  <2> HIDE DEF f, new
  <2>4. /\ flushes' \in [Flushes -> FlushRecord] /\ flushes'[f] = new
        /\ \A g \in Flushes : g # f => flushes'[g] = flushes[g]
    BY <2>1, <2>2, <2>3, SetFacts
  <2> QED BY <2>2, <2>3, <2>4, FlagFacts
<1> QED BY <1>1, <1>2

\* Whatever starts a flush and at most opens or refuses an emit keeps the invariant.
LEMMA QuietStep ==
    ASSUME IInv,
           flushes' \in [Flushes -> FlushRecord], isFlushing' \in [Senders -> BOOLEAN],
           link' \in [Senders -> Links], failures' \in 0..MaxFailures,
           emits' \in [Emits -> Statuses],
           \A e \in Emits : emits'[e] = "committed" <=> emits[e] = "committed",
           \A f \in Flushes : flushes'[f] = flushes[f] \/ flushes'[f].batch = {},
           UNCHANGED <<outbox, delivered>>
    PROVE  IInv'
<1>1. TypeOK'
  BY DEF IInv, TypeOK, FlushRecord
<1>2. Committed' = Committed
  BY DEF Committed
<1>3. OnlyCommitted'
  BY <1>2 DEF IInv, OnlyCommitted
<1>4. RemovableIsDelivered'
  BY DEF IInv, RemovableIsDelivered
<1>5. NoLoss'
  BY DEF IInv, NoLoss
<1> QED BY <1>1, <1>3, <1>4, <1>5 DEF IInv

\* An emit's steps keep the invariant.
LEMMA EmitKeepsIInv ==
    ASSUME IInv, NEW e \in Emits, Emit(e) \/ EmitRefused(e) \/ Commit(e) \/ Rollback(e)
    PROVE  IInv'
<1>1. CASE Emit(e)
  <2>1. /\ flushes' \in [Flushes -> FlushRecord] /\ isFlushing' \in [Senders -> BOOLEAN]
        /\ \A f \in Flushes : flushes'[f] = flushes[f] \/ flushes'[f].batch = {}
    BY <1>1, StartFlushFacts, EmittedByAssumption DEF IInv, Emit
  <2>2. /\ emits' \in [Emits -> Statuses]
        /\ \A d \in Emits : emits'[d] = "committed" <=> emits[d] = "committed"
        /\ link' \in [Senders -> Links] /\ failures' \in 0..MaxFailures
        /\ UNCHANGED <<outbox, delivered>>
    BY <1>1 DEF IInv, TypeOK, Emit, Statuses
  <2> QED BY <2>1, <2>2, QuietStep
<1>2. CASE EmitRefused(e) \/ Rollback(e)
  <2>1. /\ flushes' = flushes /\ isFlushing' = isFlushing /\ link' = link /\ failures' = failures
        /\ emits' = [emits EXCEPT ![e] = "rolledBack"] /\ emits[e] \in {"new", "open"}
        /\ UNCHANGED <<outbox, delivered>>
    BY <1>2 DEF EmitRefused, Rollback
  <2>2. /\ emits' \in [Emits -> Statuses]
        /\ \A d \in Emits : emits'[d] = "committed" <=> emits[d] = "committed"
    BY <2>1 DEF IInv, TypeOK, Statuses
  <2> QED BY <2>1, <2>2, QuietStep DEF IInv, TypeOK, FlushRecord
<1>3. CASE Commit(e)
  <2>1. TypeOK'
    BY <1>3 DEF IInv, TypeOK, Commit, Statuses
  <2>2. Committed' = Committed \cup {e}
    BY <1>3 DEF IInv, TypeOK, Commit, Committed
  <2>3. OnlyCommitted'
    BY <1>3, <2>2 DEF IInv, OnlyCommitted, Commit
  <2>4. RemovableIsDelivered'
    BY <1>3 DEF IInv, RemovableIsDelivered, Commit
  <2>5. NoLoss'
    BY <1>3 DEF IInv, TypeOK, NoLoss, Commit
  <2> QED BY <2>1, <2>3, <2>4, <2>5 DEF IInv
<1> QED BY <1>1, <1>2, <1>3

\* The steps of a process as a whole keep the invariant; a crash rolls back open emits only.
LEMMA ProcessKeepsIInv ==
    ASSUME IInv, NEW p \in Senders, Connect(p) \/ Disconnect(p) \/ Tick(p) \/ Crash(p)
    PROVE  IInv'
<1>1. CASE Connect(p) \/ Disconnect(p)
  <2>1. /\ flushes' = flushes /\ isFlushing' = isFlushing /\ failures' = failures /\ emits' = emits
        /\ UNCHANGED <<outbox, delivered>>
        /\ link' \in [Senders -> Links]
    BY <1>1 DEF Connect, Disconnect, IInv, TypeOK, Links
  <2> QED BY <2>1, QuietStep DEF IInv, TypeOK, FlushRecord
<1>2. CASE Tick(p)
  <2>1. /\ flushes' \in [Flushes -> FlushRecord] /\ isFlushing' \in [Senders -> BOOLEAN]
        /\ \A f \in Flushes : flushes'[f] = flushes[f] \/ flushes'[f].batch = {}
    BY <1>2, StartFlushFacts DEF IInv, Tick
  <2>2. emits' = emits /\ link' = link /\ failures' = failures /\ UNCHANGED <<outbox, delivered>>
    BY <1>2 DEF Tick
  <2> QED BY <2>1, <2>2, QuietStep DEF IInv, TypeOK
<1>3. CASE Crash(p)
  <2>1. NoFlush \in FlushRecord /\ NoFlush.batch = {}
    BY DEF NoFlush, FlushRecord, Places
  <2>2. /\ flushes' \in [Flushes -> FlushRecord]
        /\ \A f \in Flushes : flushes'[f] = flushes[f] \/ flushes'[f].batch = {}
    BY <1>3, <2>1 DEF Crash, IInv, TypeOK, FlushRecord
  <2>3. link' \in [Senders -> Links] /\ failures' \in 0..MaxFailures
    BY <1>3, MaxFailuresAssumption DEF Crash, Fail, IInv, TypeOK, Links
  <2>4. isFlushing' \in [Senders -> BOOLEAN]
    BY <1>3, FlagFacts DEF Crash, IInv
  <2>5. /\ emits' \in [Emits -> Statuses]
        /\ \A e \in Emits : emits'[e] = "committed" <=> emits[e] = "committed"
    BY <1>3 DEF Crash, IInv, TypeOK, Statuses
  <2>6. UNCHANGED <<outbox, delivered>>
    BY <1>3 DEF Crash
  <2> QED BY <2>2, <2>3, <2>4, <2>5, <2>6, QuietStep
<1> QED BY <1>1, <1>2, <1>3

\* A flush invocation's step, by what it does to its batch, the table and the broker.
LEMMA FlushMove ==
    ASSUME IInv, NEW f \in Flushes, NEW flush \in FlushRecord, Set(f, flush),
           SetFlag(ProcessOf[f], TRUE) \/ SetFlag(ProcessOf[f], FALSE) \/ UNCHANGED isFlushing,
           failures' \in 0..MaxFailures, UNCHANGED <<emits, link>>,
           flush.batch \subseteq Committed,
           outbox' \subseteq outbox, delivered \subseteq delivered', delivered' \subseteq Emits,
           outbox \ outbox' \subseteq delivered',
           flush.at \in {"removing", "committing"} => flush.batch \subseteq delivered'
    PROVE  IInv'
<1>1. /\ flushes' \in [Flushes -> FlushRecord] /\ flushes'[f] = flush
      /\ \A g \in Flushes : g # f => flushes'[g] = flushes[g]
  BY SetFacts DEF IInv
<1>2. isFlushing' \in [Senders -> BOOLEAN]
  BY FlagFacts DEF IInv
<1>3. TypeOK'
  BY <1>1, <1>2 DEF IInv, TypeOK, FlushRecord
<1>4. Committed' = Committed
  BY DEF Committed
<1>5. OnlyCommitted'
  BY <1>1, <1>4 DEF IInv, OnlyCommitted
<1>6. RemovableIsDelivered'
  BY <1>1 DEF IInv, RemovableIsDelivered
<1>7. NoLoss'
  BY DEF IInv, NoLoss
<1> QED BY <1>3, <1>5, <1>6, <1>7 DEF IInv

\* Every step of a flush invocation keeps the invariant.
LEMMA FlushStepKeepsIInv == ASSUME IInv, NEW f \in Flushes, FlushStep(f) PROVE IInv'
<1>1. /\ flushes[f].batch \subseteq Committed /\ outbox \subseteq Committed
      /\ Committed \subseteq Emits /\ outbox \subseteq Emits /\ delivered \subseteq Emits
      /\ flushes[f] \in FlushRecord /\ failures \in 0..MaxFailures
      /\ flushes[f].at \in {"removing", "committing"} => flushes[f].batch \subseteq delivered
  BY DEF IInv, OnlyCommitted, Committed, RemovableIsDelivered, TypeOK, FlushRecord
<1>2. Fail => failures' \in 0..MaxFailures
  BY <1>1, MaxFailuresAssumption DEF Fail
<1>3. CASE ReadNothing(f)
  <2> DEFINE flush == [flushes[f] EXCEPT !.at = "closing"]
  <2>1. flush \in FlushRecord /\ flush.at = "closing" /\ flush.batch = flushes[f].batch
    BY <1>1 DEF FlushRecord, Places
  <2> HIDE DEF flush
  <2>2. /\ Set(f, flush) /\ SetFlag(ProcessOf[f], FALSE)
        /\ failures' = failures /\ UNCHANGED <<emits, link>> /\ outbox' = outbox /\ delivered' = delivered
    BY <1>3 DEF ReadNothing, flush
  <2> QED BY <1>1, <2>1, <2>2, FlushMove
<1>4. CASE Read(f)
  <2> DEFINE flush == [flushes[f] EXCEPT !.at = "sending", !.batch = Visible]
  <2>1. flush \in FlushRecord /\ flush.at = "sending" /\ flush.batch = outbox
    BY <1>1 DEF FlushRecord, Places, Visible
  <2> HIDE DEF flush
  <2>2. /\ Set(f, flush) /\ UNCHANGED isFlushing
        /\ failures' = failures /\ UNCHANGED <<emits, link>> /\ outbox' = outbox /\ delivered' = delivered
    BY <1>4 DEF Read, flush
  <2> QED BY <1>1, <2>1, <2>2, FlushMove
<1>5. CASE SendBatch(f)
  <2> DEFINE flush == [flushes[f] EXCEPT !.at = "removing"]
  <2>1. flush \in FlushRecord /\ flush.at = "removing" /\ flush.batch = flushes[f].batch
    BY <1>1 DEF FlushRecord, Places
  <2> HIDE DEF flush
  <2>2. /\ Set(f, flush) /\ UNCHANGED isFlushing /\ failures' = failures /\ UNCHANGED <<emits, link>>
        /\ outbox' = outbox /\ delivered' = delivered \cup flushes[f].batch
    BY <1>5 DEF SendBatch, flush
  <2> QED BY <1>1, <2>1, <2>2, FlushMove
<1>6. CASE SendFails(f)
  <2>1. PICK place \in {"reconnect", "closing"} : Set(f, [flushes[f] EXCEPT !.at = place, !.batch = {}])
    BY <1>6 DEF SendFails
  <2>2. PICK some \in SUBSET flushes[f].batch : delivered' = delivered \cup some
    BY <1>6 DEF SendFails
  <2> DEFINE flush == [flushes[f] EXCEPT !.at = place, !.batch = {}]
  <2>3. flush \in FlushRecord /\ flush.at = place /\ flush.batch = {}
    BY <1>1, <2>1 DEF FlushRecord, Places
  <2>4. /\ UNCHANGED isFlushing /\ failures' \in 0..MaxFailures /\ UNCHANGED <<emits, link>>
        /\ outbox' = outbox
    BY <1>2, <1>6 DEF SendFails
  <2>5. Set(f, flush)
    BY <2>1
  <2> HIDE DEF flush
  <2> QED BY <1>1, <2>2, <2>3, <2>4, <2>5, FlushMove
<1>7. CASE Reconnected(f)
  <2>1. PICK flush \in FlushRecord : /\ Set(f, flush) /\ flush.at \in {"closing", "reading"}
                                     /\ flush.batch = flushes[f].batch
    <3>1. CASE isFlushing[ProcessOf[f]]
      <4>1. [flushes[f] EXCEPT !.at = "closing"] \in FlushRecord
        BY <1>1 DEF FlushRecord, Places
      <4> QED BY <1>1, <1>7, <3>1, <4>1 DEF Reconnected, FlushRecord
    <3>2. CASE ~isFlushing[ProcessOf[f]]
      <4>1. [flushes[f] EXCEPT !.at = "reading", !.awaited = @ + 1] \in FlushRecord
        <5>1. flushes[f].awaited + 1 \in Nat
          BY <1>1 DEF FlushRecord
        <5> QED BY <1>1, <5>1 DEF FlushRecord, Places
      <4>2. /\ [flushes[f] EXCEPT !.at = "reading", !.awaited = @ + 1].at = "reading"
            /\ [flushes[f] EXCEPT !.at = "reading", !.awaited = @ + 1].batch = flushes[f].batch
        BY <1>1 DEF FlushRecord
      <4> QED BY <1>7, <3>2, <4>1, <4>2 DEF Reconnected
    <3> QED BY <3>1, <3>2
  <2>2. /\ SetFlag(ProcessOf[f], TRUE) \/ UNCHANGED isFlushing
        /\ failures' = failures /\ UNCHANGED <<emits, link>> /\ outbox' = outbox /\ delivered' = delivered
    BY <1>7 DEF Reconnected
  <2> QED BY <1>1, <2>1, <2>2, FlushMove
<1>8. CASE ReconnectFails(f)
  <2> DEFINE flush == [flushes[f] EXCEPT !.at = "closing"]
  <2>1. flush \in FlushRecord /\ flush.at = "closing" /\ flush.batch = flushes[f].batch
    BY <1>1 DEF FlushRecord, Places
  <2> HIDE DEF flush
  <2>2. /\ Set(f, flush) /\ UNCHANGED isFlushing /\ failures' = failures
        /\ UNCHANGED <<emits, link>> /\ outbox' = outbox /\ delivered' = delivered
    BY <1>8 DEF ReconnectFails, flush
  <2> QED BY <1>1, <2>1, <2>2, FlushMove
<1>9. CASE RemoveOutboxEntries(f)
  <2> DEFINE flush == [flushes[f] EXCEPT !.at = "committing"]
  <2>1. flush \in FlushRecord /\ flush.at = "committing" /\ flush.batch = flushes[f].batch
    BY <1>1 DEF FlushRecord, Places
  <2> HIDE DEF flush
  <2>2. /\ Set(f, flush) /\ SetFlag(ProcessOf[f], FALSE) /\ flushes[f].at = "removing"
        /\ failures' = failures /\ UNCHANGED <<emits, link>> /\ outbox' = outbox /\ delivered' = delivered
    BY <1>9 DEF RemoveOutboxEntries, flush
  <2> QED BY <1>1, <2>1, <2>2, FlushMove
<1>10. CASE CommitFlush(f) \/ RollbackFlush(f)
  <2> DEFINE flush == [flushes[f] EXCEPT !.at = "closing", !.batch = {}]
  <2>1. flush \in FlushRecord /\ flush.at = "closing" /\ flush.batch = {}
    BY <1>1 DEF FlushRecord, Places
  <2> HIDE DEF flush
  <2>2. /\ Set(f, flush) /\ UNCHANGED isFlushing /\ failures' \in 0..MaxFailures
        /\ flushes[f].at \in {"removing", "committing"}
        /\ UNCHANGED <<emits, link>> /\ delivered' = delivered
        /\ outbox' \in {outbox, outbox \ flushes[f].batch}
    BY <1>1, <1>2, <1>10 DEF CommitFlush, RollbackFlush, flush
  <2> QED BY <1>1, <2>1, <2>2, FlushMove
<1>11. CASE Finally(f)
  <2> DEFINE back == [flushes[f] EXCEPT !.awaited = @ - 1]
  <2>1. NoFlush \in FlushRecord /\ NoFlush.batch = {} /\ NoFlush.at = "idle"
    BY DEF NoFlush, FlushRecord, Places
  <2>2. flushes[f].awaited # 0 =>
            back \in FlushRecord /\ back.at = flushes[f].at /\ back.batch = flushes[f].batch
    BY <1>1 DEF FlushRecord
  <2>3. flushes[f].at = "closing" /\ Set(f, IF flushes[f].awaited = 0 THEN NoFlush ELSE back)
    BY <1>11 DEF Finally
  <2> HIDE DEF back
  <2>4. PICK flush \in FlushRecord : /\ Set(f, flush) /\ flush.at \in {"idle", "closing"}
                                     /\ flush.batch \subseteq flushes[f].batch
    BY <2>1, <2>2, <2>3
  <2>5. /\ SetFlag(ProcessOf[f], FALSE)
        /\ failures' = failures /\ UNCHANGED <<emits, link>> /\ outbox' = outbox /\ delivered' = delivered
    BY <1>11 DEF Finally
  <2> QED BY <1>1, <2>4, <2>5, FlushMove
<1> QED BY <1>3, <1>4, <1>5, <1>6, <1>7, <1>8, <1>9, <1>10, <1>11 DEF FlushStep

\* Every step of the outbox keeps the invariant, and so does a stutter.
LEMMA StepKeepsIInv == IInv /\ [Next]_vars => IInv'
<1> SUFFICES ASSUME IInv, [Next]_vars PROVE IInv'
  OBVIOUS
<1>1. ASSUME UNCHANGED vars PROVE IInv'
  BY <1>1 DEF IInv, vars, TypeOK, OnlyCommitted, Committed, RemovableIsDelivered, NoLoss
<1> QED BY <1>1, EmitKeepsIInv, ProcessKeepsIInv, FlushStepKeepsIInv DEF Next
-----------------------------------------------------------------------------
\* The inductive invariant holds throughout.
THEOREM Invariance == Spec => []IInv
<1> QED BY InitIInv, StepKeepsIInv, PTL DEF Spec

\* Every variable keeps its type, whatever the number of emits, processes and flushes.
THEOREM TypeCorrect == Spec => []TypeOK
<1>1. IInv => TypeOK
  BY DEF IInv
<1> QED BY <1>1, Invariance, PTL

\* What committed is in the table or at the broker, through crashes, failed sends, failed
\* commits and overlapping flushes.
THEOREM NothingIsLost == Spec => []NoLoss
<1>1. IInv => NoLoss
  BY DEF IInv
<1> QED BY <1>1, Invariance, PTL

\* Every step is one of EventDelivery's, or changes neither an emit's status nor the broker.
LEMMA StepSimulation == IInv /\ [Next]_vars => [Delivery!Next]_(Delivery!vars)
<1> SUFFICES ASSUME IInv, [Next]_vars PROVE [Delivery!Next]_(Delivery!vars)
  OBVIOUS
<1>1. ASSUME NEW e \in Emits, Emit(e) \/ EmitRefused(e)
      PROVE  Delivery!Next
  <2>1. Delivery!Begin(e)
    BY <1>1 DEF Emit, EmitRefused, Delivery!Begin
  <2> QED BY <2>1 DEF Delivery!Next
<1>2. ASSUME NEW e \in Emits, Commit(e)
      PROVE  Delivery!Next
  BY <1>2 DEF Commit, Delivery!Commit, Delivery!Next
<1>4. ASSUME NEW e \in Emits, Rollback(e)
      PROVE  Delivery!Next
  <2>1. Delivery!Abort({e})
    BY <1>4 DEF Rollback, IInv, TypeOK, Delivery!Abort
  <2> QED BY <2>1 DEF Delivery!Next
<1>5. ASSUME NEW p \in Senders, Crash(p)
      PROVE  Delivery!Next
  <2> DEFINE some == {e \in Emits : EmittedBy[e] = p /\ emits[e] = "open"}
  <2>1. Delivery!Abort(some)
    BY <1>5 DEF Crash, Delivery!Abort
  <2>2. some \in SUBSET Emits
    OBVIOUS
  <2> QED BY <2>1, <2>2 DEF Delivery!Next
<1>6. ASSUME NEW f \in Flushes, NEW some \in SUBSET flushes[f].batch,
             delivered' = delivered \cup some, emits' = emits
      PROVE  Delivery!Next
  <2>1. some \in SUBSET Emits /\ \A e \in some : emits[e] = "committed"
    BY DEF IInv, OnlyCommitted, Committed
  <2> QED BY <1>6, <2>1 DEF Delivery!Deliver, Delivery!Next
<1>7. ASSUME NEW f \in Flushes, SendBatch(f) \/ SendFails(f)
      PROVE  Delivery!Next
  <2>1. \E some \in SUBSET flushes[f].batch : delivered' = delivered \cup some
    BY <1>7 DEF SendBatch, SendFails
  <2>2. emits' = emits
    BY <1>7 DEF SendBatch, SendFails
  <2> QED BY <1>6, <2>1, <2>2
<1>8. ASSUME NEW p \in Senders, Connect(p) \/ Disconnect(p) \/ Tick(p)
      PROVE  UNCHANGED Delivery!vars
  BY <1>8 DEF Connect, Disconnect, Tick, Delivery!vars
<1>9. ASSUME NEW f \in Flushes, FlushStep(f), ~SendBatch(f), ~SendFails(f)
      PROVE  UNCHANGED Delivery!vars
  BY <1>9 DEF FlushStep, ReadNothing, Read, Reconnected, ReconnectFails, RemoveOutboxEntries,
              CommitFlush, RollbackFlush, Finally, Delivery!vars
<1>10. ASSUME UNCHANGED vars PROVE UNCHANGED Delivery!vars
  BY <1>10 DEF vars, Delivery!vars
<1> QED BY <1>1, <1>2, <1>4, <1>5, <1>7, <1>8, <1>9, <1>10 DEF Next

\* The outbox implements its promise: what commits is delivered at least once if the
\* processes go on (the part TLC checks), and what does not commit is never delivered.
THEOREM Refinement == Spec => ImplementsDelivery
<1>1. Init => Delivery!Init
  BY DEF Init, Delivery!Init
<1> QED BY <1>1, StepSimulation, Invariance, PTL DEF Spec, ImplementsDelivery, Delivery!Spec
-----------------------------------------------------------------------------
(* The other end: ViewDelivery, where events reach views and adapters. *)

Seen(g, e) == handled[g][e] > 0 \/ <<g, e>> \in failed

\* The event in a handler is the one after those consumed, or one that another subscription has consumed meanwhile; past its
\* handler, and where the repository has it as processed, it was handled.
TaskIsSound(g, c) ==
    LET e == task[g][c].event IN
    /\ task[g][c].at # "idle" => e \in 1..MaxEvents /\ e <= consumed[g] + 1
    /\ task[g][c].at = "done" => Seen(g, e)
    /\ task[g][c].at = "mark" => handled[g][e] > 0
Consuming == /\ \A g \in Groups : \A c \in Consumers : TaskIsSound(g, c)
             /\ \A g \in Groups : \A e \in 1..consumed[g] : Seen(g, e)
             /\ \A g \in Groups : \A e \in Events : <<g, e>> \in processed => handled[g][e] > 0

\* A view that never had two subscriptions has one handler at work, and an event which that has been through is marked, or
\* about to be; what was not marked, for a failure or a crash, is excused.
Single(v) == open[v] <= 1 /\ task[v][2].at = "idle"
Once(v, e) ==
    /\ handled[v][e] <= 1
    /\ handled[v][e] = 1 => <<v, e>> \in processed \/ (task[v][1].at = "mark" /\ task[v][1].event = e)
    /\ task[v][1].at = "exec" /\ task[v][1].event = e => handled[v][e] = 0
Handling == /\ \A g \in Groups : g \notin doubled => Single(g)
            /\ \A v \in Views : \A e \in Events : v \notin doubled /\ <<v, e>> \notin excused => Once(v, e)

ViewInv == ViewTypeOK /\ Consuming /\ Handling

\* The bounds are numbers.
LEMMA Bounds == MaxEvents \in Nat /\ MaxAttempts \in Nat /\ MaxFaults \in Nat /\ MaxCrashes \in Nat
  BY BoundsAssumption

\* Nothing is registered, and nothing consumed.
LEMMA InitViews == ASSUME ViewInit PROVE ViewInv
<1>1. ViewTypeOK
  BY Bounds DEF ViewInit, ViewTypeOK, NoTask, Groups, Events
<1>2. Consuming
  BY DEF ViewInit, Consuming, TaskIsSound, NoTask, Groups
<1>3. Handling
  BY DEF ViewInit, Handling, Single, Once, NoTask, Groups, Consumers
<1> QED
  BY <1>1, <1>2, <1>3 DEF ViewInv

\* A subscription may come, nothing else changes that events or handlers depend on.
LEMMA ConnectingKeepsViews ==
    ASSUME ViewInv, UNCHANGED <<task, consumed, processed, handled, failed, excused>>, ViewTypeOK',
           doubled \subseteq doubled', \A g \in Groups : g \notin doubled' => open'[g] <= 1
    PROVE  ViewInv'
<1>1. Consuming'
  BY DEF ViewInv, Consuming, TaskIsSound, Seen
<1>2. Handling'
  <2>1. \A g \in Groups : g \notin doubled' => Single(g)'
    BY DEF ViewInv, Handling, Single
  <2>2. \A v \in Views : \A e \in Events : v \notin doubled' /\ <<v, e>> \notin excused' => Once(v, e)'
    BY DEF ViewInv, Handling, Once
  <2> QED
    BY <2>1, <2>2 DEF Handling
<1> QED
  BY <1>1, <1>2 DEF ViewInv

\* Subscribing makes doubled what has two subscriptions now.
LEMMA SubscribedFacts ==
    ASSUME ViewInv, NEW groups \in SUBSET Groups, Subscribed(groups)
    PROVE  /\ open' \in [Groups -> 0..2] /\ faults' \in 0..MaxFaults
           /\ missed' \subseteq missed \cup groups /\ doubled' \subseteq Groups /\ doubled \subseteq doubled'
           /\ \A g \in Groups : g \notin doubled' => open'[g] <= 1
<1>1. PICK refused \in SUBSET groups :
         /\ IF refused = {} THEN UNCHANGED faults ELSE Fault /\ Cardinality(refused) = 1
         /\ missed' = missed \cup refused
         /\ open' = [g \in Groups |-> IF g \in groups \ refused /\ open[g] < 2 THEN open[g] + 1 ELSE open[g]]
         /\ doubled' = doubled \cup {g \in Groups : open'[g] = 2}
  BY DEF Subscribed
<1>2. open' \in [Groups -> 0..2]
  BY <1>1 DEF ViewInv, ViewTypeOK
<1>3. faults' \in 0..MaxFaults
  BY Bounds, <1>1 DEF ViewInv, ViewTypeOK, Fault
<1>4. doubled' \subseteq Groups /\ doubled \subseteq doubled'
  BY <1>1 DEF ViewInv, ViewTypeOK
<1>5. \A g \in Groups : g \notin doubled' => open'[g] <= 1
  BY <1>1, <1>2
<1> QED
  BY <1>1, <1>2, <1>3, <1>4, <1>5

\* Connecting, giving up and registering.
LEMMA ProxyKeepsViews ==
    ASSUME ViewInv,
           \/ FirstAttempt \/ Interval \/ AttemptSucceeds \/ AttemptFails \/ Shutdown
           \/ \E g \in Groups : Register(g)
    PROVE  ViewInv'
<1>s. ASSUME UNCHANGED <<open, doubled>> PROVE \A g \in Groups : g \notin doubled' => open'[g] <= 1
  BY <1>s DEF ViewInv, Handling, Single
<1>1. CASE FirstAttempt
  <2>1. ViewTypeOK' /\ UNCHANGED <<open, doubled, task, consumed, processed, handled, failed, excused>>
    BY <1>1 DEF FirstAttempt, subscriptions, record, ViewInv, ViewTypeOK
  <2> QED
    BY <1>s, <2>1, ConnectingKeepsViews
<1>2. CASE Interval
  <2>1. ViewTypeOK' /\ UNCHANGED <<open, doubled, task, consumed, processed, handled, failed, excused>>
    BY Bounds, <1>2 DEF Interval, subscriptions, record, ViewInv, ViewTypeOK
  <2> QED
    BY <1>s, <2>1, ConnectingKeepsViews
<1>3. CASE AttemptSucceeds
  <2>1. queued \subseteq Groups /\ Subscribed(queued)
    BY <1>3 DEF AttemptSucceeds, ViewInv, ViewTypeOK
  <2>2. UNCHANGED <<task, consumed, processed, handled, failed, excused>>
    BY <1>3 DEF AttemptSucceeds, record
  <2>3. ViewTypeOK'
    BY Bounds, <1>3, <2>1, SubscribedFacts DEF AttemptSucceeds, record, ViewInv, ViewTypeOK
  <2> QED
    BY <2>1, <2>2, <2>3, SubscribedFacts, ConnectingKeepsViews
<1>4. CASE AttemptFails
  <2>1. ViewTypeOK' /\ UNCHANGED <<open, doubled, task, consumed, processed, handled, failed, excused>>
    BY Bounds, <1>4 DEF AttemptFails, Fault, subscriptions, record, ViewInv, ViewTypeOK
  <2> QED
    BY <1>s, <2>1, ConnectingKeepsViews
<1>5. CASE Shutdown
  <2>1. ViewTypeOK' /\ UNCHANGED <<open, doubled, task, consumed, processed, handled, failed, excused>>
    BY <1>5 DEF Shutdown, subscriptions, record, ViewInv, ViewTypeOK
  <2> QED
    BY <1>s, <2>1, ConnectingKeepsViews
<1>6. ASSUME NEW g \in Groups, Register(g) PROVE ViewInv'
  <2>1. UNCHANGED <<task, consumed, processed, handled, failed, excused, crashes, phase, attempts, keepConnecting>> /\ asked' = asked \cup {g}
    BY <1>6 DEF Register, record, proxy
  <2>2. CASE Subscribed({g}) /\ UNCHANGED queued
    <3>1. ViewTypeOK'
      BY <2>1, <2>2, SubscribedFacts DEF ViewInv, ViewTypeOK
    <3> QED
      BY <2>1, <2>2, <3>1, SubscribedFacts, ConnectingKeepsViews
  <2>3. CASE queued' = queued \cup {g} /\ UNCHANGED <<open, missed, doubled, faults>>
    <3>1. ViewTypeOK'
      BY <2>1, <2>3 DEF ViewInv, ViewTypeOK
    <3> QED
      BY <1>s, <2>1, <2>3, <3>1, ConnectingKeepsViews
  <2> QED
    BY <1>6, <2>2, <2>3 DEF Register
<1> QED
  BY <1>1, <1>2, <1>3, <1>4, <1>5, <1>6

Stations == {"idle", "check", "exec", "mark", "done"}
Tasks == [at: Stations, event: Events \cup {0}]

LEMMA TasksAre == ViewTypeOK => task \in [Groups -> [Consumers -> Tasks]]
  BY DEF ViewTypeOK, Tasks, Stations

\* One subscription's handler takes its next step.
Puts(g, c, r) == task' = [task EXCEPT ![g][c] = r]
\* It leaves the others' alone.
LEMMA TaskFacts ==
    ASSUME ViewTypeOK, NEW g \in Groups, NEW c \in Consumers, NEW r \in Tasks, Puts(g, c, r)
    PROVE  /\ task' \in [Groups -> [Consumers -> Tasks]]
           /\ task'[g][c] = r
           /\ \A h \in Groups : \A d \in Consumers : h # g \/ d # c => task'[h][d] = task[h][d]
<1>1. task \in [Groups -> [Consumers -> Tasks]]
  BY TasksAre
<1>2. [task[g] EXCEPT ![c] = r] \in [Consumers -> Tasks]
  BY <1>1
<1>3. task' = [task EXCEPT ![g] = [task[g] EXCEPT ![c] = r]]
  BY DEF Puts
<1> QED
  BY <1>1, <1>2, <1>3

LEMMA GoesFacts ==
    ASSUME ViewTypeOK, NEW g \in Groups, NEW c \in Consumers, NEW p \in Stations, Goes(g, c, p)
    PROVE  /\ task' \in [Groups -> [Consumers -> Tasks]]
           /\ task'[g][c].at = p /\ task'[g][c].event = task[g][c].event
           /\ \A h \in Groups : \A d \in Consumers : h # g \/ d # c => task'[h][d] = task[h][d]
<1> DEFINE r == [task[g][c] EXCEPT !.at = p]
<1>1. task[g][c] \in Tasks
  BY TasksAre
<1>2. r \in Tasks /\ r.at = p /\ r.event = task[g][c].event
  BY <1>1 DEF Tasks
<1>3. Puts(g, c, r)
  BY DEF Goes, Puts
<1>4. PICK q \in Tasks : Puts(g, c, q) /\ q.at = p /\ q.event = task[g][c].event
  BY <1>2, <1>3
<1> QED
  BY <1>4, TaskFacts

LEMMA EndsFacts ==
    ASSUME ViewTypeOK, NEW g \in Groups, NEW c \in Consumers, Ends(g, c)
    PROVE  /\ task' \in [Groups -> [Consumers -> Tasks]]
           /\ task'[g][c].at = "idle"
           /\ \A h \in Groups : \A d \in Consumers : h # g \/ d # c => task'[h][d] = task[h][d]
<1>1. NoTask \in Tasks /\ NoTask.at = "idle"
  BY DEF NoTask, Tasks, Stations
<1>2. Puts(g, c, NoTask)
  BY DEF Ends, Puts
<1> QED
  BY <1>1, <1>2, TaskFacts

\* What is at stake in a step of a handler: its own task, its group's events, and Once for the event it has.
LEMMA TaskKeepsViews ==
    ASSUME ViewInv, NEW g \in Groups, NEW c \in Consumers, ViewTypeOK',
           UNCHANGED <<open, doubled>>, failed \subseteq failed', excused \subseteq excused',
           \A h \in Groups : \A d \in Consumers : h # g \/ d # c => task'[h][d] = task[h][d],
           \A h \in Groups : h # g => handled'[h] = handled[h] /\ consumed'[h] = consumed[h],
           \A h \in Groups : \A e \in Events : h # g => (<<h, e>> \in processed' <=> <<h, e>> \in processed),
           \A e \in Events : handled'[g][e] >= handled[g][e],
           consumed'[g] >= consumed[g],
           \A e \in Events : <<g, e>> \in processed' => handled'[g][e] > 0,
           TaskIsSound(g, c)',
           \A e \in 1..consumed'[g] : Seen(g, e)',
           g \notin doubled => c = 1,
           g \in Views /\ g \notin doubled => \A e \in Events : <<g, e>> \notin excused' => Once(g, e)'
    PROVE  ViewInv'
<1>t. ViewTypeOK /\ handled \in [Groups -> [Events -> 0..2]] /\ handled' \in [Groups -> [Events -> 0..2]]
      /\ consumed \in [Groups -> Events \cup {0}] /\ consumed' \in [Groups -> Events \cup {0}]
      /\ MaxEvents \in Nat /\ task \in [Groups -> [Consumers -> [at: Stations, event: Events \cup {0}]]]
  BY Bounds DEF ViewInv, ViewTypeOK, Stations
<1>e. \A h \in Groups : \A e \in Events : Seen(h, e) => Seen(h, e)'
  <2> SUFFICES ASSUME NEW h \in Groups, NEW e \in Events, Seen(h, e) PROVE Seen(h, e)'
    OBVIOUS
  <2>1. handled[h][e] \in 0..2 /\ handled'[h][e] \in 0..2
    BY <1>t
  <2>2. handled'[h][e] >= handled[h][e]
    BY <2>1
  <2> QED
    BY <2>1, <2>2 DEF Seen
<1>1. ASSUME NEW h \in Groups, NEW d \in Consumers PROVE TaskIsSound(h, d)'
  <2>1. CASE h = g /\ d = c
    BY <2>1
  <2>2. CASE h # g \/ d # c
    <3>1. TaskIsSound(h, d) /\ task'[h][d] = task[h][d] /\ task[h][d].event \in Events \cup {0}
      BY <1>t, <2>2 DEF ViewInv, Consuming
    <3>2. consumed'[h] >= consumed[h] /\ consumed'[h] \in Nat /\ consumed[h] \in Nat
      BY <1>t, <2>2 DEF Events
    <3>3. \A e \in Events : handled'[h][e] >= handled[h][e] /\ handled'[h][e] \in Nat /\ handled[h][e] \in Nat
      <4>1. \A e \in Events : handled[h][e] \in 0..2 /\ handled'[h][e] \in 0..2
        BY <1>t
      <4> QED
        BY <2>2, <4>1
    <3> DEFINE e == task[h][d].event
    <3>4. task[h][d].at # "idle" => e \in Events /\ e <= consumed'[h] + 1
      BY <3>1, <3>2 DEF TaskIsSound, Events
    <3> QED
      BY <1>e, <3>1, <3>3, <3>4 DEF TaskIsSound, Events
  <2> QED
    BY <2>1, <2>2
<1>2. ASSUME NEW h \in Groups, NEW e \in 1..consumed'[h] PROVE Seen(h, e)'
  <2>1. CASE h = g
    BY <2>1
  <2>2. CASE h # g
    <3>0. consumed'[h] = consumed[h] /\ consumed[h] \in 0..MaxEvents
      BY <1>t, <2>2 DEF Events
    <3>1. e \in 1..consumed[h] /\ e \in Events
      BY <1>t, <3>0 DEF Events
    <3>2. Seen(h, e)
      BY <3>1 DEF ViewInv, Consuming
    <3> QED
      BY <1>e, <3>1, <3>2
  <2> QED
    BY <2>1, <2>2
<1>3. ASSUME NEW h \in Groups, NEW e \in Events, <<h, e>> \in processed' PROVE handled'[h][e] > 0
  <2>1. CASE h = g
    BY <1>3, <2>1
  <2>2. CASE h # g
    BY <1>3, <2>2 DEF ViewInv, Consuming
  <2> QED
    BY <2>1, <2>2
<1>4. ASSUME NEW h \in Groups, h \notin doubled' PROVE Single(h)'
  BY <1>4 DEF ViewInv, Handling, Single, Consumers
<1>5. ASSUME NEW v \in Views, NEW e \in Events, v \notin doubled', <<v, e>> \notin excused' PROVE Once(v, e)'
  <2>1. CASE v = g
    BY <1>5, <2>1
  <2>2. CASE v # g
    <3>1. v \in Groups /\ 1 \in Consumers /\ Once(v, e)
      BY <1>5 DEF Groups, Consumers, ViewInv, Handling
    <3>2. task'[v][1] = task[v][1] /\ handled'[v] = handled[v] /\ (<<v, e>> \in processed' <=> <<v, e>> \in processed)
      BY <2>2, <3>1
    <3> QED
      BY <3>1, <3>2 DEF Once
  <2> QED
    BY <2>1, <2>2
<1> QED
  BY <1>1, <1>2, <1>3, <1>4, <1>5 DEF ViewInv, Consuming, Handling

\* A group that never had two subscriptions has none but the first at work.
LEMMA OneConsumer ==
    ASSUME ViewInv, NEW g \in Groups, NEW c \in Consumers, g \notin doubled, task[g][c].at # "idle" \/ c <= open[g]
    PROVE  c = 1
<1>1. open[g] \in 0..2 /\ open[g] <= 1 /\ task[g][2].at = "idle"
  BY DEF ViewInv, Handling, Single, ViewTypeOK
<1> QED
  BY <1>1 DEF Consumers

LEMMA DeliverKeepsViews == ASSUME ViewInv, NEW g \in Groups, NEW c \in Consumers, Deliver(g, c) PROVE ViewInv'
<1> DEFINE r == [at |-> IF g \in Views THEN "check" ELSE "exec", event |-> consumed[g] + 1]
<1>1. /\ c \in Consumers /\ task[g][c].at = "idle" /\ c <= open[g] /\ consumed[g] < MaxEvents /\ Puts(g, c, r)
      /\ UNCHANGED <<proxy, subscriptions, record, faults, crashes>>
  BY DEF Deliver, At, Puts
<1>2. consumed[g] + 1 \in Events /\ consumed[g] \in Nat
  BY <1>1, Bounds DEF ViewInv, ViewTypeOK, Events
<1>3. r \in Tasks /\ r.event = consumed[g] + 1 /\ r.at \in {"check", "exec"} /\ (g \in Views => r.at = "check")
  BY <1>2 DEF Tasks, Stations
<1> HIDE DEF r
<1>4. PICK q \in Tasks : Puts(g, c, q) /\ q.event = consumed[g] + 1 /\ q.at \in {"check", "exec"} /\ (g \in Views => q.at = "check")
  BY <1>1, <1>3
<1>5. /\ task' \in [Groups -> [Consumers -> Tasks]] /\ task'[g][c] = q
      /\ \A h \in Groups : \A d \in Consumers : h # g \/ d # c => task'[h][d] = task[h][d]
  BY <1>4, TaskFacts DEF ViewInv
<1>6. UNCHANGED <<phase, attempts, keepConnecting, asked, queued, open, missed, doubled, consumed, processed, handled, failed, excused,
                  faults, crashes>>
  BY <1>1 DEF proxy, subscriptions, record
<1>7. ViewTypeOK'
  BY <1>5, <1>6 DEF ViewInv, ViewTypeOK, Tasks, Stations
<1>8. TaskIsSound(g, c)'
  BY <1>2, <1>4, <1>5, <1>6 DEF TaskIsSound, Events
<1>9. g \notin doubled => c = 1
  BY <1>1, OneConsumer
<1>10. g \in Views /\ g \notin doubled => \A e \in Events : <<g, e>> \notin excused' => Once(g, e)'
  BY <1>1, <1>4, <1>5, <1>6, <1>9 DEF ViewInv, Handling, Once
<1>11. (\A e \in Events : <<g, e>> \in processed' => handled'[g][e] > 0) /\ \A e \in 1..consumed'[g] : Seen(g, e)'
  BY <1>6 DEF ViewInv, Consuming, Seen
<1>12. \A e \in Events : handled'[g][e] >= handled[g][e] /\ handled[g][e] \in 0..2
  BY <1>6 DEF ViewInv, ViewTypeOK
<1> QED
  BY <1>2, <1>5, <1>6, <1>7, <1>8, <1>9, <1>10, <1>11, <1>12, TaskKeepsViews

LEMMA CheckKeepsViews == ASSUME ViewInv, NEW g \in Groups, NEW c \in Consumers, Check(g, c) PROVE ViewInv'
<1> DEFINE e == task[g][c].event
<1>1. task[g][c].at = "check" /\ Goes(g, c, IF <<g, e>> \in processed THEN "done" ELSE "exec")
      /\ UNCHANGED <<proxy, subscriptions, record, faults, crashes>>
  BY DEF Check, At, IsProcessed
<1>2. PICK p \in {"done", "exec"} : Goes(g, c, p) /\ (p = "done" <=> <<g, e>> \in processed)
  BY <1>1
<1>3. /\ task' \in [Groups -> [Consumers -> Tasks]] /\ task'[g][c].at = p /\ task'[g][c].event = e
      /\ \A h \in Groups : \A d \in Consumers : h # g \/ d # c => task'[h][d] = task[h][d]
  BY <1>2, GoesFacts DEF ViewInv, Stations
<1>4. UNCHANGED <<phase, attempts, keepConnecting, asked, queued, open, missed, doubled, consumed, processed, handled, failed, excused,
                  faults, crashes>>
  BY <1>1 DEF proxy, subscriptions, record
<1>5. ViewTypeOK' /\ \A d \in Events : handled'[g][d] >= handled[g][d] /\ handled[g][d] \in 0..2
  BY <1>3, <1>4 DEF ViewInv, ViewTypeOK, Tasks, Stations
<1>6. e \in Events /\ TaskIsSound(g, c)
  BY <1>1 DEF ViewInv, Consuming, TaskIsSound, Events
<1>7. TaskIsSound(g, c)'
  <2>1. e \in 1..MaxEvents /\ e <= consumed[g] + 1
    BY <1>1, <1>6 DEF TaskIsSound
  <2>2. p = "done" => handled[g][e] > 0
    BY <1>2, <1>6 DEF ViewInv, Consuming
  <2> QED
    BY <1>2, <1>3, <1>4, <2>1, <2>2 DEF TaskIsSound, Seen
<1>8. g \notin doubled => c = 1
  BY <1>1, OneConsumer
<1>9. g \in Views /\ g \notin doubled => \A d \in Events : <<g, d>> \notin excused' => Once(g, d)'
  <2> SUFFICES ASSUME g \in Views, g \notin doubled, NEW d \in Events, <<g, d>> \notin excused PROVE Once(g, d)'
    BY <1>4
  <2>1. Once(g, d) /\ c = 1
    BY <1>8 DEF ViewInv, Handling
  <2>2. handled[g][d] <= 1 /\ (handled[g][d] = 1 => <<g, d>> \in processed)
    BY <1>1, <2>1 DEF Once
  <2>3. p = "exec" /\ e = d => handled[g][d] = 0
    BY <1>2, <1>5, <2>2
  <2> QED
    BY <1>3, <1>4, <2>1, <2>2, <2>3 DEF Once
<1>10. (\A d \in Events : <<g, d>> \in processed' => handled'[g][d] > 0) /\ \A d \in 1..consumed'[g] : Seen(g, d)'
  BY <1>4 DEF ViewInv, Consuming, Seen
<1>11. consumed'[g] >= consumed[g]
  BY <1>4 DEF ViewInv, ViewTypeOK, Events
<1> HIDE DEF e
<1> QED
  BY <1>3, <1>4, <1>5, <1>7, <1>8, <1>9, <1>10, <1>11, TaskKeepsViews


LEMMA ExecKeepsViews == ASSUME ViewInv, NEW g \in Groups, NEW c \in Consumers, Exec(g, c) PROVE ViewInv'
<1> DEFINE e == task[g][c].event
           n == IF handled[g][e] < 2 THEN handled[g][e] + 1 ELSE handled[g][e]
<1>1. /\ task[g][c].at = "exec" /\ handled' = [handled EXCEPT ![g] = [handled[g] EXCEPT ![e] = n]]
      /\ Goes(g, c, IF g \in Views THEN "mark" ELSE "done")
      /\ UNCHANGED <<proxy, subscriptions, consumed, processed, failed, excused, faults, crashes>>
  BY DEF Exec, At
<1>2. PICK p \in {"mark", "done"} : Goes(g, c, p) /\ (g \in Views => p = "mark")
  BY <1>1
<1>3. /\ task' \in [Groups -> [Consumers -> Tasks]] /\ task'[g][c].at = p /\ task'[g][c].event = e
      /\ \A h \in Groups : \A d \in Consumers : h # g \/ d # c => task'[h][d] = task[h][d]
  BY <1>2, GoesFacts DEF ViewInv, Stations
<1>4. UNCHANGED <<phase, attempts, keepConnecting, asked, queued, open, missed, doubled, consumed, processed, failed, excused, faults, crashes>>
  BY <1>1 DEF proxy, subscriptions
<1>5. e \in Events /\ TaskIsSound(g, c) /\ e <= consumed[g] + 1
  BY <1>1 DEF ViewInv, Consuming, TaskIsSound, Events
<1>6. handled \in [Groups -> [Events -> 0..2]] /\ handled[g] \in [Events -> 0..2] /\ handled[g][e] \in 0..2
  BY <1>5 DEF ViewInv, ViewTypeOK
<1>7. n \in 0..2 /\ n > 0 /\ n >= handled[g][e] /\ (handled[g][e] = 0 => n = 1)
  BY <1>6
<1> HIDE DEF n
<1>8. /\ handled' \in [Groups -> [Events -> 0..2]] /\ handled'[g][e] = n
      /\ \A d \in Events : d # e => handled'[g][d] = handled[g][d]
      /\ \A h \in Groups : h # g => handled'[h] = handled[h]
  <2>1. [handled[g] EXCEPT ![e] = n] \in [Events -> 0..2]
    BY <1>6, <1>7
  <2> QED
    BY <1>1, <1>5, <1>6, <2>1
<1>9. \A d \in Events : handled'[g][d] >= handled[g][d] /\ handled[g][d] \in 0..2
  BY <1>5, <1>6, <1>7, <1>8
<1>10. ViewTypeOK'
  BY <1>3, <1>4, <1>8 DEF ViewInv, ViewTypeOK, Tasks, Stations
<1> HIDE DEF e
<1>11. TaskIsSound(g, c)'
  BY <1>2, <1>3, <1>4, <1>5, <1>7, <1>8 DEF TaskIsSound, Seen, Events
<1>12. g \notin doubled => c = 1
  BY <1>1, OneConsumer
<1>13. g \in Views /\ g \notin doubled => \A d \in Events : <<g, d>> \notin excused' => Once(g, d)'
  <2> SUFFICES ASSUME g \in Views, g \notin doubled, NEW d \in Events, <<g, d>> \notin excused PROVE Once(g, d)'
    BY <1>4
  <2>1. Once(g, d) /\ c = 1 /\ p = "mark"
    BY <1>2, <1>12 DEF ViewInv, Handling
  <2>2. CASE d = e
    <3>1. handled[g][d] = 0
      BY <1>1, <2>1, <2>2 DEF Once, e
    <3> QED
      BY <1>3, <1>7, <1>8, <2>1, <2>2, <3>1 DEF Once
  <2>3. CASE d # e
    <3>1. handled'[g][d] <= 1 /\ (handled'[g][d] = 1 => <<g, d>> \in processed)
      BY <1>1, <1>8, <2>1, <2>3 DEF Once
    <3> QED
      BY <1>3, <1>4, <2>1, <3>1 DEF Once
  <2> QED
    BY <2>2, <2>3
<1>14. \A d \in Events : <<g, d>> \in processed' => handled'[g][d] > 0
  BY <1>4, <1>8, <1>9 DEF ViewInv, Consuming
<1>15. \A d \in 1..consumed'[g] : Seen(g, d)'
  <2> SUFFICES ASSUME NEW d \in 1..consumed[g] PROVE Seen(g, d)'
    BY <1>4
  <2>1. consumed[g] \in Nat /\ consumed[g] <= MaxEvents
    BY Bounds DEF ViewInv, ViewTypeOK, Events
  <2>2. d \in Events /\ Seen(g, d)
    BY <2>1, Bounds DEF ViewInv, Consuming, Events
  <2> QED
    BY <1>4, <1>8, <1>9, <2>2 DEF Seen
<1>16. consumed'[g] >= consumed[g]
  BY <1>4 DEF ViewInv, ViewTypeOK, Events
<1> QED
  BY <1>3, <1>4, <1>8, <1>9, <1>10, <1>11, <1>12, <1>13, <1>14, <1>15, <1>16, TaskKeepsViews

LEMMA ExecFailsKeepsViews == ASSUME ViewInv, NEW g \in Groups, NEW c \in Consumers, ExecFails(g, c) PROVE ViewInv'
<1> DEFINE e == task[g][c].event
<1>1. /\ task[g][c].at = "exec" /\ failed' = failed \cup {<<g, e>>} /\ (Goes(g, c, "done") \/ (g \in Views /\ Ends(g, c)))
      /\ faults < MaxFaults /\ faults' = faults + 1 /\ UNCHANGED <<proxy, subscriptions, consumed, processed, handled, excused, crashes>>
  BY DEF ExecFails, At, Fault
<1>2. /\ task' \in [Groups -> [Consumers -> Tasks]] /\ task'[g][c].at \in {"done", "idle"}
      /\ task'[g][c].at = "done" => task'[g][c].event = e
      /\ \A h \in Groups : \A d \in Consumers : h # g \/ d # c => task'[h][d] = task[h][d]
  BY <1>1, GoesFacts, EndsFacts DEF ViewInv, Stations
<1>3. UNCHANGED <<phase, attempts, keepConnecting, asked, queued, open, missed, doubled, consumed, processed, handled, excused, crashes>>
  BY <1>1 DEF proxy, subscriptions
<1>4. e \in Events /\ e <= consumed[g] + 1
  BY <1>1 DEF ViewInv, Consuming, TaskIsSound, Events
<1> HIDE DEF e
<1>5. ViewTypeOK' /\ \A d \in Events : handled'[g][d] >= handled[g][d] /\ handled[g][d] \in 0..2
  BY <1>1, <1>2, <1>3, <1>4, Bounds DEF ViewInv, ViewTypeOK, Tasks, Stations
<1>6. TaskIsSound(g, c)'
  BY <1>1, <1>2, <1>3, <1>4 DEF TaskIsSound, Seen, Events
<1>7. g \notin doubled => c = 1
  BY <1>1, OneConsumer
<1>8. g \in Views /\ g \notin doubled => \A d \in Events : <<g, d>> \notin excused' => Once(g, d)'
  BY <1>1, <1>2, <1>3, <1>7 DEF ViewInv, Handling, Once
<1>9. (\A d \in Events : <<g, d>> \in processed' => handled'[g][d] > 0) /\ \A d \in 1..consumed'[g] : Seen(g, d)'
  BY <1>1, <1>3 DEF ViewInv, Consuming, Seen
<1>10. consumed'[g] >= consumed[g]
  BY <1>3 DEF ViewInv, ViewTypeOK, Events
<1> QED
  BY <1>1, <1>2, <1>3, <1>5, <1>6, <1>7, <1>8, <1>9, <1>10, TaskKeepsViews

LEMMA MarkKeepsViews == ASSUME ViewInv, NEW g \in Groups, NEW c \in Consumers, Mark(g, c) PROVE ViewInv'
<1> DEFINE e == task[g][c].event
<1>1. /\ task[g][c].at = "mark" /\ Goes(g, c, "done")
      /\ \/ processed' = processed \cup {<<g, e>>} /\ UNCHANGED <<excused, faults>>
         \/ faults < MaxFaults /\ faults' = faults + 1 /\ excused' = excused \cup {<<g, e>>} /\ UNCHANGED processed
      /\ UNCHANGED <<proxy, subscriptions, consumed, handled, failed, crashes>>
  BY DEF Mark, At, Fault
<1>2. /\ task' \in [Groups -> [Consumers -> Tasks]] /\ task'[g][c].at = "done" /\ task'[g][c].event = e
      /\ \A h \in Groups : \A d \in Consumers : h # g \/ d # c => task'[h][d] = task[h][d]
  BY <1>1, GoesFacts DEF ViewInv, Stations
<1>3. UNCHANGED <<phase, attempts, keepConnecting, asked, queued, open, missed, doubled, consumed, handled, failed, crashes>>
  BY <1>1 DEF proxy, subscriptions
<1>4. e \in Events /\ e <= consumed[g] + 1 /\ handled[g][e] > 0
  BY <1>1 DEF ViewInv, Consuming, TaskIsSound, Events
<1> HIDE DEF e
<1>5. /\ faults' \in 0..MaxFaults
      /\ UNION {processed', failed', excused'} \subseteq Groups \X Events
      /\ \A p \in Groups \X Events : p # <<g, e>> => (p \in processed' <=> p \in processed)
      /\ excused \subseteq excused'
      /\ <<g, e>> \in processed' \/ <<g, e>> \in excused'
  BY <1>1, <1>3, <1>4, Bounds DEF ViewInv, ViewTypeOK
<1>6. ViewTypeOK' /\ \A d \in Events : handled'[g][d] >= handled[g][d] /\ handled[g][d] \in 0..2
  BY <1>2, <1>3, <1>5 DEF ViewInv, ViewTypeOK, Tasks, Stations
<1>7. TaskIsSound(g, c)'
  BY <1>2, <1>3, <1>4 DEF TaskIsSound, Seen, Events
<1>8. g \notin doubled => c = 1
  BY <1>1, OneConsumer
<1>9. g \in Views /\ g \notin doubled => \A d \in Events : <<g, d>> \notin excused' => Once(g, d)'
  <2> SUFFICES ASSUME g \in Views, g \notin doubled, NEW d \in Events, <<g, d>> \notin excused' PROVE Once(g, d)'
    OBVIOUS
  <2>1. Once(g, d) /\ c = 1
    BY <1>5, <1>8 DEF ViewInv, Handling
  <2>2. <<g, d>> \in processed => <<g, d>> \in processed'
    BY <1>1
  <2> QED
    BY <1>1, <1>2, <1>3, <1>5, <2>1, <2>2 DEF Once, e
<1>10. \A d \in Events : <<g, d>> \in processed' => handled'[g][d] > 0
  BY <1>1, <1>3, <1>4 DEF ViewInv, Consuming
<1>11. (\A d \in 1..consumed'[g] : Seen(g, d)') /\ consumed'[g] >= consumed[g]
  BY <1>3 DEF ViewInv, Consuming, Seen, ViewTypeOK, Events
<1>12. \A h \in Groups : \A d \in Events : h # g => (<<h, d>> \in processed' <=> <<h, d>> \in processed)
  BY <1>1
<1> QED
  BY <1>2, <1>3, <1>5, <1>6, <1>7, <1>8, <1>9, <1>10, <1>11, <1>12, TaskKeepsViews

LEMMA AcknowledgeKeepsViews == ASSUME ViewInv, NEW g \in Groups, NEW c \in Consumers, Acknowledge(g, c) PROVE ViewInv'
<1> DEFINE e == task[g][c].event
           n == IF e > consumed[g] THEN e ELSE consumed[g]
<1>1. /\ task[g][c].at = "done" /\ Ends(g, c) /\ consumed' = [consumed EXCEPT ![g] = n]
      /\ UNCHANGED <<proxy, subscriptions, processed, handled, failed, excused, faults, crashes>>
  BY DEF Acknowledge, At
<1>2. /\ task' \in [Groups -> [Consumers -> Tasks]] /\ task'[g][c].at = "idle"
      /\ \A h \in Groups : \A d \in Consumers : h # g \/ d # c => task'[h][d] = task[h][d]
  BY <1>1, EndsFacts DEF ViewInv
<1>3. UNCHANGED <<phase, attempts, keepConnecting, asked, queued, open, missed, doubled, processed, handled, failed, excused, faults, crashes>>
  BY <1>1 DEF proxy, subscriptions
<1>4. e \in Events /\ e <= consumed[g] + 1 /\ Seen(g, e)
  BY <1>1 DEF ViewInv, Consuming, TaskIsSound, Events
<1>5. consumed \in [Groups -> Events \cup {0}] /\ consumed[g] \in Events \cup {0}
  BY DEF ViewInv, ViewTypeOK
<1>6. n \in Events \cup {0} /\ n >= consumed[g] /\ \A d \in 1..n : d = e \/ d \in 1..consumed[g]
  BY <1>4, <1>5, Bounds DEF Events
<1> HIDE DEF e, n
<1>7. /\ consumed' \in [Groups -> Events \cup {0}] /\ consumed'[g] = n
      /\ \A h \in Groups : h # g => consumed'[h] = consumed[h]
  BY <1>1, <1>5, <1>6
<1>8. ViewTypeOK' /\ \A d \in Events : handled'[g][d] >= handled[g][d] /\ handled[g][d] \in 0..2
  BY <1>2, <1>3, <1>7 DEF ViewInv, ViewTypeOK, Tasks, Stations
<1>9. TaskIsSound(g, c)'
  BY <1>2 DEF TaskIsSound
<1>10. g \notin doubled => c = 1
  BY <1>1, OneConsumer
<1>11. g \in Views /\ g \notin doubled => \A d \in Events : <<g, d>> \notin excused' => Once(g, d)'
  BY <1>1, <1>2, <1>3, <1>10 DEF ViewInv, Handling, Once
<1>12. \A d \in 1..consumed'[g] : Seen(g, d)'
  <2> SUFFICES ASSUME NEW d \in 1..n PROVE Seen(g, d)'
    BY <1>7
  <2>1. Seen(g, d)
    BY <1>4, <1>6 DEF ViewInv, Consuming
  <2> QED
    BY <1>3, <2>1 DEF Seen
<1>13. \A d \in Events : <<g, d>> \in processed' => handled'[g][d] > 0
  BY <1>3 DEF ViewInv, Consuming
<1> QED
  BY <1>2, <1>3, <1>6, <1>7, <1>8, <1>9, <1>10, <1>11, <1>12, <1>13, TaskKeepsViews

\* Only marks are lost when the process ends, and they are excused.
LEMMA EndKeepsViews == ASSUME ViewInv, ProcessEnds PROVE ViewInv'
<1> DEFINE lost == {p \in Groups \X Events : \E c \in Consumers : task[p[1]][c] = [at |-> "mark", event |-> p[2]]}
<1>1. /\ crashes < MaxCrashes /\ crashes' = crashes + 1 /\ phase' = "first" /\ attempts' = 0 /\ keepConnecting' = TRUE
      /\ asked' = {} /\ queued' = {} /\ missed' = {} /\ open' = [g \in Groups |-> 0]
      /\ task' = [g \in Groups |-> [c \in Consumers |-> NoTask]] /\ excused' = excused \cup lost
      /\ UNCHANGED <<doubled, consumed, processed, handled, failed, faults>>
  BY DEF ProcessEnds
<1>2. NoTask \in Tasks /\ NoTask.at = "idle"
  BY DEF NoTask, Tasks, Stations
<1>3. /\ task' \in [Groups -> [Consumers -> Tasks]]
      /\ \A g \in Groups : \A c \in Consumers : task'[g][c].at = "idle"
  BY <1>1, <1>2
<1>4. lost \subseteq Groups \X Events
  OBVIOUS
<1>5. ASSUME NEW v \in Views, NEW e \in Events, task[v][1].at = "mark", task[v][1].event = e PROVE <<v, e>> \in lost
  <2>1. v \in Groups /\ 1 \in Consumers /\ task[v][1] \in Tasks
    BY TasksAre DEF Groups, Consumers, ViewInv
  <2>2. task[v][1] = [at |-> "mark", event |-> e]
    BY <1>5, <2>1 DEF Tasks
  <2> QED
    BY <2>1, <2>2
<1> HIDE DEF lost
<1>6. ViewTypeOK'
  BY <1>1, <1>3, <1>4, Bounds DEF ViewInv, ViewTypeOK, Tasks, Stations
<1>7. Consuming'
  BY <1>1, <1>3 DEF ViewInv, Consuming, TaskIsSound, Seen
<1>8. \A g \in Groups : Single(g)'
  BY <1>1, <1>3 DEF Single, Consumers
<1>9. ASSUME NEW v \in Views, NEW e \in Events, v \notin doubled, <<v, e>> \notin excused' PROVE Once(v, e)'
  <2>1. Once(v, e) /\ v \in Groups /\ 1 \in Consumers
    BY <1>1, <1>9 DEF ViewInv, Handling, Groups, Consumers
  <2>2. ~(task[v][1].at = "mark" /\ task[v][1].event = e)
    BY <1>1, <1>5, <1>9
  <2> QED
    BY <1>1, <1>3, <2>1, <2>2 DEF Once
<1> QED
  BY <1>1, <1>6, <1>7, <1>8, <1>9 DEF ViewInv, Handling

LEMMA StepKeepsViews == ASSUME ViewInv, [ViewNext]_viewVars PROVE ViewInv'
<1>1. CASE UNCHANGED viewVars
  <2>1. UNCHANGED <<phase, attempts, keepConnecting, asked, queued, open, missed, doubled, task, consumed, processed, handled, failed,
                    excused, faults, crashes>>
    BY <1>1 DEF viewVars, proxy, subscriptions, record
  <2>2. ViewTypeOK'
    BY <2>1 DEF ViewInv, ViewTypeOK
  <2>3. \A g \in Groups : g \notin doubled' => open'[g] <= 1
    BY <2>1 DEF ViewInv, Handling, Single
  <2> QED
    BY <2>1, <2>2, <2>3, ConnectingKeepsViews
<1>2. CASE ViewNext
  BY <1>2, ProxyKeepsViews, DeliverKeepsViews, CheckKeepsViews, ExecKeepsViews, ExecFailsKeepsViews, MarkKeepsViews,
     AcknowledgeKeepsViews, EndKeepsViews DEF ViewNext
<1> QED
  BY <1>1, <1>2

\* The inductive invariant of views and adapters; it includes the types of the variables.
THEOREM ViewInvariance == ViewSpec => []ViewInv
<1> QED
  BY InitViews, StepKeepsViews, PTL DEF ViewSpec

\* What the broker takes for handled by a view or an adapter was handled, or its handler failed: for any groups and events, whatever
\* attempts to connect overlap, and wherever between handling, marking and acknowledging the process ends.
THEOREM NoneIsPassedOver == ViewSpec => []ConsumedIsHandled
<1>1. ViewInv => ConsumedIsHandled
  BY DEF ViewInv, Consuming, Seen, ConsumedIsHandled
<1> QED
  BY <1>1, ViewInvariance, PTL

\* A view that was subscribed once handles an event twice only if its mark was lost: the check before the handler and the mark after
\* it are two awaits away from one another, but nothing else of the view runs in between.
THEOREM ViewsHandleOnce == ViewSpec => []HandledOnce
<1>1. ViewInv => HandledOnce
  <2> SUFFICES ASSUME ViewInv, NEW v \in Views, NEW e \in Events, handled[v][e] = 2, <<v, e>> \notin excused, v \notin doubled
               PROVE  FALSE
    BY DEF HandledOnce
  <2> QED
    BY DEF ViewInv, Handling, Once
<1> QED
  BY <1>1, ViewInvariance, PTL
=============================================================================

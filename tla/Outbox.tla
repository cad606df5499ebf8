------------------------------- MODULE Outbox -------------------------------
(***************************************************************************)
(* OutboxEventClient.emit (src/src/events/core/outbox/outbox-event-        *)
(* client.ts) writes events to the outbox table inside a datastore         *)
(* transaction, and KafkaOutboxSender.flush (outbox-kafka-sender.ts) moves *)
(* what is committed there to the broker.  Every process has a sender of   *)
(* its own on the one table, and crashes without warning.                  *)
(*                                                                         *)
(* A flush invocation is in one of these places:                           *)
(*   idle        not called                                                *)
(*   reading     its transaction is open, readOutbox has not returned      *)
(*   sending     in producer.sendBatch                                     *)
(*   removing    sent, in removeOutboxEntries                              *)
(*   committing  its body has returned, its transaction has not committed  *)
(*   reconnect   code 59: replacing the producer                           *)
(*   closing     its transaction is over, .finally has not run             *)
(***************************************************************************)
EXTENDS Naturals

CONSTANTS Emits,        \* one entry of the outbox per call of emit
          Senders,      \* the processes
          EmittedBy,    \* [Emits -> Senders]
          Flushes,      \* flush invocations that can overlap
          ProcessOf,    \* [Flushes -> Senders]
          MaxFailures   \* bound: crashes and failed sends, removals and commits

ASSUME EmittedByAssumption == EmittedBy \in [Emits -> Senders]
ASSUME ProcessOfAssumption == ProcessOf \in [Flushes -> Senders]
ASSUME MaxFailuresAssumption == MaxFailures \in Nat

VARIABLES
    emits,        \* [Emits -> what became of the call's transaction]
    outbox,       \* the committed rows of the outbox table
    delivered,    \* entries the broker holds
    link,         \* [Senders -> isConnected and intervalTimeout]
    isFlushing,   \* [Senders -> BOOLEAN]
    flushes,      \* [Flushes -> [at, batch, awaited]]
    failures

vars == <<emits, outbox, delivered, link, isFlushing, flushes, failures>>

Statuses == {"new", "open", "committed", "rolledBack"}
Places == {"idle", "reading", "sending", "removing", "committing", "reconnect", "closing"}
\* off: not connected; on: connected, the interval runs; leaving: in disconnect
Links == {"off", "on", "leaving"}

\* awaited: how many invocations wait in the code 59 branch for this one to return.
NoFlush == [at |-> "idle", batch |-> {}, awaited |-> 0]

Init == /\ emits = [e \in Emits |-> "new"]
        /\ outbox = {}
        /\ delivered = {}
        /\ link = [p \in Senders |-> "off"]
        /\ isFlushing = [p \in Senders |-> FALSE]
        /\ flushes = [f \in Flushes |-> NoFlush]
        /\ failures = 0
-----------------------------------------------------------------------------
Connect(p) == /\ link[p] = "off"
              /\ link' = [link EXCEPT ![p] = "on"]
              /\ UNCHANGED <<emits, outbox, delivered, isFlushing, flushes, failures>>

\* disconnect clears the interval, and isConnected once the producer is down.
Disconnect(p) == /\ \/ link[p] = "on" /\ link' = [link EXCEPT ![p] = "leaving"]
                    \/ link[p] = "leaving" /\ link' = [link EXCEPT ![p] = "off"]
                 /\ UNCHANGED <<emits, outbox, delivered, isFlushing, flushes, failures>>

Set(f, flush) == flushes' = [flushes EXCEPT ![f] = flush]
SetFlag(p, flag) == isFlushing' = [isFlushing EXCEPT ![p] = flag]
Idle(p) == {f \in Flushes : ProcessOf[f] = p /\ flushes[f].at = "idle"}

\* A call of flush, up to its first await.
StartFlush(p) ==
    IF isFlushing[p]
    THEN UNCHANGED <<isFlushing, flushes>>
    ELSE /\ Idle(p) # {}
         /\ Set(CHOOSE f \in Idle(p) : TRUE, [NoFlush EXCEPT !.at = "reading"])
         /\ SetFlag(p, TRUE)

\* The interval calls flush.
Tick_Never(p) == FALSE
Tick(p) == /\ link[p] = "on" /\ ~isFlushing[p]
           /\ StartFlush(p)
           /\ UNCHANGED <<emits, outbox, delivered, link, failures>>
-----------------------------------------------------------------------------
\* emit: the row is written and notify has called flush, without waiting for it.  The
\* transaction, which may be one the caller had open already, is still to commit.
Emit(e) ==
    /\ emits[e] = "new" /\ link[EmittedBy[e]] # "off"
    /\ emits' = [emits EXCEPT ![e] = "open"]
    /\ StartFlush(EmittedBy[e])
    /\ UNCHANGED <<outbox, delivered, link, failures>>

\* notify throws, and the error rolls the row back.
EmitRefused(e) ==
    /\ emits[e] = "new" /\ link[EmittedBy[e]] = "off"
    /\ emits' = [emits EXCEPT ![e] = "rolledBack"]
    /\ UNCHANGED <<outbox, delivered, link, isFlushing, flushes, failures>>

Commit(e) ==
    /\ emits[e] = "open"
    /\ emits' = [emits EXCEPT ![e] = "committed"]
    /\ outbox' = outbox \cup {e}
    /\ UNCHANGED <<delivered, link, isFlushing, flushes, failures>>

Rollback(e) ==
    /\ emits[e] = "open"
    /\ emits' = [emits EXCEPT ![e] = "rolledBack"]
    /\ UNCHANGED <<outbox, delivered, link, isFlushing, flushes, failures>>
-----------------------------------------------------------------------------
\* readOutbox in a transaction of its own, isolation level read-committed.
Visible_Uncommitted == outbox \cup {e \in Emits : emits[e] = "open"}
Visible == outbox

\* Nothing to send: the flag is cleared and the body returns.  Its transaction has changed
\* nothing, so committing it is not a step.
ReadNothing(f) ==
    /\ flushes[f].at = "reading" /\ Visible = {}
    /\ Set(f, [flushes[f] EXCEPT !.at = "closing"])
    /\ SetFlag(ProcessOf[f], FALSE)
    /\ UNCHANGED <<emits, outbox, delivered, link, failures>>

Read(f) ==
    /\ flushes[f].at = "reading" /\ Visible # {}
    /\ Set(f, [flushes[f] EXCEPT !.at = "sending", !.batch = Visible])
    /\ UNCHANGED <<emits, outbox, delivered, link, isFlushing, failures>>

SendBatch(f) ==
    /\ flushes[f].at = "sending"
    /\ delivered' = delivered \cup flushes[f].batch
    /\ Set(f, [flushes[f] EXCEPT !.at = "removing"])
    /\ UNCHANGED <<emits, outbox, link, isFlushing, failures>>

Fail == failures < MaxFailures /\ failures' = failures + 1

\* A send that fails may have stored some entries.  Code 59 leads to a new producer, any
\* other error out of the transaction, which rolls back.
SendFails(f) ==
    /\ flushes[f].at = "sending" /\ Fail
    /\ \E some \in SUBSET flushes[f].batch : delivered' = delivered \cup some
    /\ \E place \in {"reconnect", "closing"} :
          Set(f, [flushes[f] EXCEPT !.at = place, !.batch = {}])
    /\ UNCHANGED <<emits, outbox, link, isFlushing>>

\* The new producer is up, and flush is called and awaited.  With the flag still set, as it
\* is unless another invocation has cleared it, that call returns at once; else the
\* invocation waits for the new one, which takes its slot.
Reconnected(f) ==
    /\ flushes[f].at = "reconnect"
    /\ IF isFlushing[ProcessOf[f]]
       THEN /\ Set(f, [flushes[f] EXCEPT !.at = "closing"])
            /\ UNCHANGED isFlushing
       ELSE /\ Set(f, [flushes[f] EXCEPT !.at = "reading", !.awaited = @ + 1])
            /\ SetFlag(ProcessOf[f], TRUE)
    /\ UNCHANGED <<emits, outbox, delivered, link, failures>>

\* The bound has counted the failure that led here.
ReconnectFails(f) ==
    /\ flushes[f].at = "reconnect"
    /\ Set(f, [flushes[f] EXCEPT !.at = "closing"])
    /\ UNCHANGED <<emits, outbox, delivered, link, isFlushing, failures>>

\* The rows are marked for removal, and the flag is cleared before they are gone.
RemoveOutboxEntries(f) ==
    /\ flushes[f].at = "removing"
    /\ Set(f, [flushes[f] EXCEPT !.at = "committing"])
    /\ SetFlag(ProcessOf[f], FALSE)
    /\ UNCHANGED <<emits, outbox, delivered, link, failures>>

\* The transaction commits, or the removal or the commit fails and rolls it back.
CommitFlush_ClearsTable(f) ==
    /\ flushes[f].at = "committing"
    /\ outbox' = IF flushes[f].batch = {} THEN outbox ELSE {}
    /\ Set(f, [flushes[f] EXCEPT !.at = "closing", !.batch = {}])
    /\ UNCHANGED <<emits, delivered, link, isFlushing, failures>>
CommitFlush(f) ==
    /\ flushes[f].at = "committing"
    /\ outbox' = outbox \ flushes[f].batch
    /\ Set(f, [flushes[f] EXCEPT !.at = "closing", !.batch = {}])
    /\ UNCHANGED <<emits, delivered, link, isFlushing, failures>>

RollbackFlush(f) ==
    /\ flushes[f].at \in {"removing", "committing"} /\ Fail
    /\ Set(f, [flushes[f] EXCEPT !.at = "closing", !.batch = {}])
    /\ UNCHANGED <<emits, outbox, delivered, link, isFlushing>>

\* .finally clears the flag, whoever has set it.  An invocation that was waited for hands
\* back to the one that waited, whose transaction closes in turn.
Finally(f) ==
    /\ flushes[f].at = "closing"
    /\ SetFlag(ProcessOf[f], FALSE)
    /\ Set(f, IF flushes[f].awaited = 0
                 THEN NoFlush
                 ELSE [flushes[f] EXCEPT !.awaited = @ - 1])
    /\ UNCHANGED <<emits, outbox, delivered, link, failures>>

\* The process dies: its open transactions roll back and its sender starts from nothing.
Crash(p) ==
    /\ Fail
    /\ emits' = [e \in Emits |-> IF EmittedBy[e] = p /\ emits[e] = "open"
                                 THEN "rolledBack" ELSE emits[e]]
    /\ link' = [link EXCEPT ![p] = "off"]
    /\ SetFlag(p, FALSE)
    /\ flushes' = [f \in Flushes |-> IF ProcessOf[f] = p THEN NoFlush ELSE flushes[f]]
    /\ UNCHANGED <<outbox, delivered>>

FlushStep(f) == \/ ReadNothing(f) \/ Read(f) \/ SendBatch(f) \/ SendFails(f)
                   \/ Reconnected(f) \/ ReconnectFails(f)
                   \/ RemoveOutboxEntries(f) \/ CommitFlush(f) \/ RollbackFlush(f)
                   \/ Finally(f)

Next == \/ \E e \in Emits : Emit(e) \/ EmitRefused(e) \/ Commit(e) \/ Rollback(e)
        \/ \E p \in Senders : Connect(p) \/ Disconnect(p) \/ Tick(p) \/ Crash(p)
        \/ \E f \in Flushes : FlushStep(f)

\* The interval keeps ticking, and every await of flush settles.
Fairness == /\ \A p \in Senders : WF_vars(Tick(p))
            /\ \A f \in Flushes : WF_vars(FlushStep(f))

Spec == Init /\ [][Next]_vars /\ Fairness
-----------------------------------------------------------------------------
TypeOK == /\ emits \in [Emits -> Statuses]
          /\ outbox \subseteq Emits
          /\ delivered \subseteq Emits
          /\ link \in [Senders -> Links]
          /\ isFlushing \in [Senders -> BOOLEAN]
          /\ flushes \in [Flushes -> [at: Places, batch: SUBSET Emits, awaited: Nat]]
          /\ failures \in 0..MaxFailures

\* The events of a committed emit are in the table until the broker has them, whichever
\* process sent, crashed, rolled back or overlapped with another.
NoLoss == \A e \in Emits : emits[e] = "committed" => e \in outbox \cup delivered

\* At least once for what commits, never for what does not.
Delivery == INSTANCE EventDelivery WITH status <- emits
ImplementsDelivery == Delivery!Spec

\* A process that stays connected delivers what has been committed, by whichever process.
CommittedIsDelivered == \A e \in Emits :
    (\E p \in Senders : <>[](link[p] = "on")) => (emits[e] = "committed" ~> e \in delivered)
=============================================================================

--------------------------- MODULE EventDelivery ----------------------------
(***************************************************************************)
(* What an event outbox promises the callers of emit: the events of a      *)
(* transaction that commits reach the broker, at least once, and those of  *)
(* one that does not never do.  Nothing is said of order or of duplicates. *)
(***************************************************************************)
CONSTANT Emits            \* the calls of emit, each with its list of events

VARIABLES status, delivered

vars == <<status, delivered>>

Statuses == {"new", "open", "committed", "rolledBack"}

Init == status = [e \in Emits |-> "new"] /\ delivered = {}

Begin(e) == /\ status[e] = "new"
            /\ \E s \in {"open", "rolledBack"} : status' = [status EXCEPT ![e] = s]
            /\ UNCHANGED delivered

Commit(e) == /\ status[e] = "open"
             /\ status' = [status EXCEPT ![e] = "committed"]
             /\ UNCHANGED delivered

\* One crash rolls back every transaction its process had open.
Abort(some) == /\ \A e \in some : status[e] = "open"
               /\ status' = [e \in Emits |-> IF e \in some THEN "rolledBack" ELSE status[e]]
               /\ UNCHANGED delivered

Deliver(some) == /\ \A e \in some : status[e] = "committed"
                 /\ delivered' = delivered \cup some
                 /\ UNCHANGED status

Next == \/ \E e \in Emits : Begin(e) \/ Commit(e)
        \/ \E some \in SUBSET Emits : Abort(some) \/ Deliver(some)

Spec == Init /\ [][Next]_vars
=============================================================================

------------------------- MODULE MCDatastoreClient -------------------------
EXTENDS DatastoreClient

CONSTANTS a, b, c, d, orders, e1, e2, e3, hot1, cross, sagas

\* Three overlapping emits on one stream, the first of two events.
MCBatch == [e \in Emits |-> CASE e = e1 -> <<a, b>> [] e = e2 -> <<c>> [] e = e3 -> <<d>>]
MCStreamOf == [e \in Emits |-> orders]

\* Each event has its own id.
MCIdOf == [ev \in Events |-> ev]

\* A hot and a coldHot call of one group.
MCSources == [x \in Calls |-> {orders}]
MCGroupOf == [x \in Calls |-> sagas]
=============================================================================

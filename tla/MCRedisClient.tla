--------------------------- MODULE MCRedisClient ---------------------------
EXTENDS RedisClient

CONSTANTS k1, k2, views

MCCalls == {1, 2}
MCClients == {k1, k2}
MCGroups == {views}

Call(kind, k, destroys) == [kind |-> kind, client |-> k, group |-> views, destroys |-> destroys]

\* A group shared by two processes, hot or coldHot; asked for twice in one process; a replay.
OneReplay == <<Call("cold", k1, FALSE), Call("none", k1, FALSE)>>
MCPlans == {<<Call("hot", k1, TRUE), Call("hot", k2, FALSE)>>,
            <<Call("coldHot", k1, FALSE), Call("coldHot", k2, FALSE)>>,
            <<Call("hot", k1, FALSE), Call("coldHot", k1, FALSE)>>,
            OneReplay}

MCMaxEntries == [p \in MCPlans |-> IF p = OneReplay THEN 5 ELSE 2]
MCBatchSize == [k \in MCClients |-> IF k = k1 THEN 1 ELSE 2]
MCMaxLen == [k \in MCClients |-> IF k = k1 THEN 0 ELSE 1]
=============================================================================

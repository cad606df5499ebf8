--------------------------- MODULE MCKafkaClient ---------------------------
EXTENDS KafkaClient

CONSTANTS g, p1, p2

MCCalls == {1, 2}

Call(kind, destroys) == [kind |-> kind, group |-> g, destroys |-> destroys]

\* Two subscriptions of one group; a replay of two partitions.
OneReplay == <<Call("cold", FALSE), Call("none", FALSE)>>
MCPlans == {<<Call("hot", TRUE), Call("coldHot", FALSE)>>,
            <<Call("coldHot", FALSE), Call("coldHot", FALSE)>>,
            OneReplay}

MCMaxLog == [p \in MCPlans |-> IF p = OneReplay THEN 2 ELSE 1]
=============================================================================

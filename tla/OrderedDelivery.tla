-------------------------- MODULE OrderedDelivery --------------------------
(***************************************************************************)
(* What hot subscriptions promise: each takes the events of its stream in  *)
(* the order they were published, every one once, and skips none.          *)
(***************************************************************************)
EXTENDS Naturals, Sequences

CONSTANTS Events, Streams,
          Subs,        \* the subscriptions
          StreamOfSub  \* [Subs -> Streams]

VARIABLES log,     \* [Streams -> Seq(Events)]
          taken    \* [Subs -> the events the subscription has begun to handle]

vars == <<log, taken>>

Init == log = [str \in Streams |-> <<>>] /\ taken = [s \in Subs |-> <<>>]

Publish == \E str \in Streams, ev \in Events : log' = [log EXCEPT ![str] = Append(@, ev)]

\* A subscription may begin with an event in the step that publishes it.
Take(s) == LET stream == log'[StreamOfSub[s]]
           IN  /\ Len(taken[s]) < Len(stream)
               /\ taken'[s] = Append(taken[s], stream[Len(taken[s]) + 1])

Next == /\ Publish \/ UNCHANGED log
        /\ DOMAIN taken' = Subs
        /\ \A s \in Subs : taken'[s] = taken[s] \/ Take(s)

Spec == Init /\ [][Next]_vars
=============================================================================

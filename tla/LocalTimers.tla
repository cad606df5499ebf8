---------------------------- MODULE LocalTimers ----------------------------
(***************************************************************************)
(* LocalScheduleJobRunner (src/src/local-schedule-job-runner.ts): the      *)
(* timers of one process, each in three places: its rows in the datastore, *)
(* the runner's map of handles, and the handles that are live in node.     *)
(*                                                                         *)
(* The callers make one call at a time for a key, as the steps of a saga   *)
(* instance do, while timers fire and the process stops at any moment.     *)
(***************************************************************************)
EXTENDS JobRunner

CONSTANT LateReads   \* whether a query of the datastore sees what is written after it was
                     \* sent; the in-memory datastore reads at once
ASSUME LateReadsAssumption == LateReads \in BOOLEAN

Unknown == MaxAdds + 1   \* the process ended before the caller could know

\* process is "up", "down", or "starting" between the two queries of startup.
VARIABLES
    handle,   \* [Keys -> Schedules or None]: the maps timers and crons
    live,     \* [Keys -> SUBSET Schedules]: timeouts and cron tasks node holds
    cleanups, \* queries of fired timers whose rows are still to be deleted
    asked,    \* [Keys -> the schedule the callers rely on, None or Unknown]
    fired     \* [Keys -> SUBSET Schedules]

vars == <<rows, handle, live, op, cleanups, process, asked, fired, adds, stops>>

Idle == [at |-> "idle", new |-> None, found |-> {}]

Init == /\ rows = [k \in Keys |-> {}]
        /\ handle = [k \in Keys |-> None]
        /\ live = [k \in Keys |-> {}]
        /\ op = [k \in Keys |-> Idle]
        /\ cleanups = {}
        /\ process = "up"
        /\ asked = [k \in Keys |-> None]
        /\ fired = [k \in Keys |-> {}]
        /\ adds = 0 /\ stops = 0

\* What a query for the rows of k brings: now, or as they are when it is answered.
Answer(k, found) == IF LateReads THEN rows[k] ELSE found
-----------------------------------------------------------------------------
(* addScheduledTask *)

\* A simple timer's timeout is cleared before the first await, a cron's only later.
Add(k) ==
    /\ process = "up" /\ op[k].at = "idle" /\ adds < MaxAdds
    /\ adds' = adds + 1
    /\ op' = [op EXCEPT ![k] = [Idle EXCEPT !.at = "write", !.new = adds + 1]]
    /\ live' = IF k \in CronKeys THEN live ELSE [live EXCEPT ![k] = @ \ {handle[k]}]
    /\ asked' = [asked EXCEPT ![k] = Unknown]
    /\ UNCHANGED <<rows, handle, cleanups, process, fired, stops>>

\* A cron has one row, which is overwritten; a simple timer gets another row.
Write(k) ==
    /\ op[k].at = "write"
    /\ rows' = [rows EXCEPT ![k] = IF k \in CronKeys THEN {op[k].new} ELSE @ \cup {op[k].new}]
    /\ op' = [op EXCEPT ![k].at = "arm"]
    /\ UNCHANGED <<handle, live, cleanups, process, asked, fired, adds, stops>>

\* setTimeout, or nodeCron.schedule in the place of the cron that was there.
Armed_Beside(k, n) == live[k] \cup {n}
Armed(k, n) == (IF k \in CronKeys THEN live[k] \ {handle[k]} ELSE live[k]) \cup {n}

Arm(k) ==
    /\ op[k].at = "arm"
    /\ live' = [live EXCEPT ![k] = Armed(k, op[k].new)]
    /\ handle' = [handle EXCEPT ![k] = op[k].new]
    /\ asked' = [asked EXCEPT ![k] = op[k].new]
    /\ op' = [op EXCEPT ![k] = Idle]
    /\ UNCHANGED <<rows, cleanups, process, fired, adds, stops>>
-----------------------------------------------------------------------------
(* The timer goes off. *)

\* A timeout queries its rows, and calls the listeners without waiting for the answer.  A
\* schedule nobody has replaced is used up.
Fire_ForgetsLater(k, n) ==
    /\ n \in live[k]
    /\ fired' = [fired EXCEPT ![k] = @ \cup {n}]
    /\ IF k \in CronKeys
       THEN UNCHANGED <<live, cleanups, asked>>
       ELSE /\ live' = [live EXCEPT ![k] = @ \ {n}]
            /\ UNCHANGED cleanups
            /\ asked' = [asked EXCEPT ![k] = IF @ = n THEN None ELSE @]
    /\ UNCHANGED <<rows, handle, op, process, adds, stops>>
Fire(k, n) ==
    /\ n \in live[k]
    /\ fired' = [fired EXCEPT ![k] = @ \cup {n}]
    /\ IF k \in CronKeys
       THEN UNCHANGED <<live, cleanups, asked>>
       ELSE /\ live' = [live EXCEPT ![k] = @ \ {n}]
            /\ cleanups' = cleanups \cup {[key |-> k, found |-> rows[k]]}
            /\ asked' = [asked EXCEPT ![k] = IF @ = n THEN None ELSE @]
    /\ UNCHANGED <<rows, handle, op, process, adds, stops>>

\* The answer comes, and every row in it is deleted.
Forget(query) ==
    /\ query \in cleanups
    /\ rows' = [rows EXCEPT ![query.key] = @ \ Answer(query.key, query.found)]
    /\ cleanups' = cleanups \ {query}
    /\ UNCHANGED <<handle, live, op, process, asked, fired, adds, stops>>
-----------------------------------------------------------------------------
(* removeSchedule *)

Remove(k) ==
    /\ process = "up" /\ op[k].at = "idle"
    /\ op' = [op EXCEPT ![k] = [Idle EXCEPT !.at = "remove", !.found = rows[k]]]
    /\ asked' = [asked EXCEPT ![k] = Unknown]
    /\ UNCHANGED <<rows, handle, live, cleanups, process, fired, adds, stops>>

\* The handle is looked up only for a row that was found.
RemoveRows(k) ==
    /\ op[k].at = "remove"
    /\ LET found == Answer(k, op[k].found)
       IN  /\ rows' = [rows EXCEPT ![k] = @ \ found]
           /\ live' = IF found = {} THEN live ELSE [live EXCEPT ![k] = @ \ {handle[k]}]
           /\ handle' = IF found = {} THEN handle ELSE [handle EXCEPT ![k] = None]
    /\ op' = [op EXCEPT ![k] = Idle]
    /\ asked' = [asked EXCEPT ![k] = None]
    /\ UNCHANGED <<cleanups, process, fired, adds, stops>>
-----------------------------------------------------------------------------
(* The process ends, and starts again. *)


\* Handles, calls and queries are gone, the rows stay.  A timer whose rows were still to be
\* deleted will be loaded again.
Stop ==
    /\ process # "down" /\ stops < MaxStops
    /\ stops' = stops + 1
    /\ process' = "down"
    /\ handle' = [k \in Keys |-> None]
    /\ live' = [k \in Keys |-> {}]
    /\ op' = [k \in Keys |-> Idle]
    /\ cleanups' = {}
    /\ asked' = [k \in Keys |-> IF \E query \in cleanups : query.key = k
                                THEN Unknown ELSE asked[k]]
    /\ UNCHANGED <<rows, fired, adds>>

\* Each row in turn replaces the handle of the one before: the last stays.  Rows come in
\* the order they were inserted, unless the datastore chooses another.
LoadedLast(k) == IF LateReads \/ rows[k] = {} THEN rows[k]
                 ELSE {n \in rows[k] : \A m \in rows[k] : m <= n}
Load(keys) ==
    \E last \in [keys -> Schedules \cup {None}] :
       /\ \A k \in keys : last[k] \in (IF rows[k] = {} THEN {None} ELSE LoadedLast(k))
       /\ handle' = [k \in Keys |-> IF k \in keys THEN last[k] ELSE handle[k]]
       /\ live' = [k \in Keys |-> IF k \in keys THEN {last[k]} \ {None} ELSE live[k]]

StartTimers_CronsOnly ==
    /\ process = "down" /\ process' = "starting"
    /\ UNCHANGED <<rows, handle, live, op, cleanups, asked, fired, adds, stops>>
StartTimers ==
    /\ process = "down" /\ process' = "starting"
    /\ Load(Simple)
    /\ UNCHANGED <<rows, op, cleanups, asked, fired, adds, stops>>

StartCrons ==
    /\ process = "starting" /\ process' = "up"
    /\ Load(CronKeys)
    /\ UNCHANGED <<rows, op, cleanups, asked, fired, adds, stops>>

Next == \/ \E k \in Keys : Add(k) \/ Write(k) \/ Arm(k) \/ Remove(k) \/ RemoveRows(k)
        \/ \E k \in Keys, n \in Schedules : Fire(k, n)
        \/ \E query \in cleanups : Forget(query)
        \/ Stop \/ StartTimers \/ StartCrons

\* The datastore answers, timers go off, and a process that ended is started again.
Fairness == /\ \A k \in Keys : WF_vars(Write(k) \/ Arm(k) \/ RemoveRows(k))
            /\ \A k \in Keys, n \in Schedules : WF_vars(Fire(k, n))
            /\ WF_vars(\E query \in cleanups : Forget(query))
            /\ WF_vars(StartTimers \/ StartCrons)

Spec == Init /\ [][Next]_vars /\ Fairness
-----------------------------------------------------------------------------
TypeOK == /\ rows \in [Keys -> SUBSET Schedules]
          /\ handle \in [Keys -> Schedules \cup {None}]
          /\ live \in [Keys -> SUBSET Schedules]
          /\ op \in [Keys -> [at: {"idle", "write", "arm", "remove"},
                              new: Schedules \cup {None}, found: SUBSET Schedules]]
          /\ process = "down" => \A k \in Keys : live[k] = {} /\ op[k] = Idle
          /\ cleanups \subseteq [key: Keys, found: SUBSET Schedules]
          /\ process \in {"up", "down", "starting"}
          /\ asked \in [Keys -> Schedules \cup {None, Unknown}]
          /\ fired \in [Keys -> SUBSET Schedules]
          /\ adds \in 0..MaxAdds /\ stops \in 0..MaxStops

\* Whatever can still go off can be cancelled: the map holds it, and no second one.
LiveIsHandled == \A k \in Keys : live[k] \subseteq {handle[k]}

\* What the callers were told is what node holds, through restarts, late deletions and
\* rows that several schedules of one timer have left.
AskedIsArmed == process = "up" => \A k \in Keys :
    CASE asked[k] = Unknown -> TRUE
      [] asked[k] = None -> live[k] = {}
      [] OTHER -> live[k] = {asked[k]}

\* A timer that was set goes off, unless it is set anew or removed, even if the process
\* ends before.
AskedFires == \A k \in Keys, n \in Schedules :
    asked[k] = n ~> (n \in fired[k] \/ asked[k] # n)
=============================================================================

--------------------------- MODULE BullMQTimers ---------------------------
(***************************************************************************)
(* BullMQScheduleJobRunner (src/src/bullmq-schedule-job-runner.ts): each   *)
(* timer has rows in the datastore, which restarts load, and a job in the  *)
(* BullMQ queue in Redis, which fires.  Simple timers have one job per     *)
(* key, under jobId; crons have one repeatable job per crontab.            *)
(*                                                                         *)
(* Calls for one key come one at a time, as from the locked steps of a     *)
(* saga instance; they come from event handlers, and from timer handlers,  *)
(* which the worker runs with "in-context" set.                            *)
(***************************************************************************)
EXTENDS JobRunner

CONSTANT MaxFaults   \* bound: refused commands and calls of clearAllTimers
ASSUME FaultsAssumption == MaxFaults \in Nat

\* process is "new", then "timers" and "crons" inside startup, then "up".
VARIABLES
    job,       \* [Keys -> Schedules or None]: the job under jobId
    active,    \* SUBSET Keys: jobs a worker has taken and not completed
    repeats,   \* [Keys -> SUBSET Schedules]: the repeatable jobs
    flight,    \* what was started and is not awaited: additions of jobs, deletions of rows
    running,   \* activeJobs: handlers running, with the schedules they run for
    listening, \* whether addScheduleTaskListener was called in this process
    wentOff,   \* [Keys -> SUBSET Schedules]: rows whose handler ran to its end
    dropped,   \* [Keys -> SUBSET Schedules]: other rows, whose job was lost
    removed,   \* SUBSET Keys: removed, with their job, and not set since
    faults

queue == <<job, active, repeats>>
worker == <<running, listening>>
served == <<wentOff, dropped>>
history == <<served, removed>>
counters == <<adds, stops, faults>>
queueVars == <<rows, queue, flight, op, worker, process, history, counters>>

NoCall == [at |-> "idle", new |-> None, inContext |-> FALSE, clean |-> FALSE]
HasQueue == process # "new"
Adding(k, n) == [does |-> "add", key |-> k, n |-> n]
Deleting(k) == [does |-> "delete", key |-> k, n |-> None]
\* What is known of rows is kept as long as the rows.
Lost(k, S) == dropped' = [dropped EXCEPT ![k] = @ \cup ((S \cap rows[k]) \ wentOff[k])]
RowsAre(k, S) == /\ rows' = [rows EXCEPT ![k] = S]
                 /\ wentOff' = [wentOff EXCEPT ![k] = @ \cap S]
LastOf(S) == CHOOSE n \in S : \A m \in S : m <= n

QueueInit ==
    /\ rows = [k \in Keys |-> {}]
    /\ job = [k \in Keys |-> None] /\ active = {}
    /\ repeats = [k \in Keys |-> {}]
    /\ flight = {} /\ op = [k \in Keys |-> NoCall]
    /\ running = {} /\ listening = FALSE /\ process = "new"
    /\ wentOff = [k \in Keys |-> {}] /\ dropped = [k \in Keys |-> {}]
    /\ removed = {}
    /\ adds = 0 /\ stops = 0 /\ faults = 0
-----------------------------------------------------------------------------
(* addScheduledTask *)

\* A call comes from an event handler, or from a handler the worker runs.
AddScheduledTask(k, inContext) ==
    /\ op[k] = NoCall /\ adds < MaxAdds
    /\ inContext => running # {}
    /\ adds' = adds + 1
    /\ op' = [op EXCEPT ![k] = [NoCall EXCEPT !.at = "write", !.new = adds + 1,
                                         !.inContext = inContext]]
    /\ removed' = removed \ {k}
    /\ UNCHANGED <<rows, queue, flight, worker, process, wentOff, dropped, stops, faults>>

\* A cron has one row, which is overwritten; a simple timer gets another row.  The job of a
\* simple timer is added without waiting for it, or pushed to "ops", which nothing reads.
WriteRow(k) ==
    /\ op[k].at = "write"
    /\ LET n == op[k].new
           cron == k \in CronKeys
           pushed == ~cron /\ HasQueue /\ op[k].inContext
       IN  /\ RowsAre(k, IF cron THEN {n} ELSE rows[k] \cup {n})
           /\ op' = [op EXCEPT ![k] = IF cron /\ HasQueue THEN [@ EXCEPT !.at = "repeat"] ELSE NoCall]
           /\ flight' = IF ~cron /\ HasQueue /\ ~pushed THEN flight \cup {Adding(k, n)} ELSE flight
           /\ dropped' = [dropped EXCEPT ![k] = IF pushed THEN @ \cup {n}
                                                ELSE IF cron THEN {} ELSE @]
    /\ UNCHANGED <<queue, worker, process, removed, counters>>

\* getJob looks for the id of the timer, which repeated jobs do not have, and
\* removeRepeatable for a job of another name: both find nothing.
Repeat(k) ==
    /\ op[k].at = "repeat"
    /\ repeats' = [repeats EXCEPT ![k] = @ \cup {op[k].new}]
    /\ op' = [op EXCEPT ![k] = NoCall]
    /\ UNCHANGED <<rows, job, active, flight, worker, process, history, counters>>

\* BullMQ ignores a job whose id is taken.  The job that has it will go off for both, unless
\* it is being completed.
Landed(f) ==
    CASE f.key \in CronKeys ->
            /\ repeats' = [repeats EXCEPT ![f.key] = @ \cup {f.n}]
            /\ UNCHANGED <<job, dropped>>
      [] f.key \in Simple /\ job[f.key] = None ->
            job' = [job EXCEPT ![f.key] = f.n] /\ UNCHANGED <<repeats, dropped>>
      [] OTHER ->
            /\ Lost(f.key, IF f.key \in active THEN {f.n} ELSE {})
            /\ UNCHANGED <<job, repeats>>

Land(f) ==
    /\ f \in flight /\ f.does = "add"
    /\ flight' = flight \ {f}
    /\ Landed(f)
    /\ UNCHANGED <<rows, active, op, worker, process, wentOff, removed, counters>>

\* Redis refuses the command: for a simple timer and in startup that is logged at most, a
\* call for a cron is rejected.  The row stays.
AddFails ==
    /\ faults < MaxFaults /\ faults' = faults + 1
    /\ \/ \E f \in flight :
             /\ f.does = "add"
             /\ flight' = flight \ {f}
             /\ Lost(f.key, {f.n})
             /\ UNCHANGED op
       \/ \E k \in CronKeys :
             /\ op[k].at = "repeat"
             /\ op' = [op EXCEPT ![k] = NoCall]
             /\ Lost(k, {op[k].new})
             /\ UNCHANGED flight
    /\ UNCHANGED <<rows, queue, worker, process, wentOff, removed, adds, stops>>
-----------------------------------------------------------------------------
(* removeSchedule *)

\* Without rows there is nothing to do.  The repeatable job of a cron is looked for under a
\* wrong name, and the deletion of its row is not awaited.
RemoveSchedule(k, inContext) ==
    /\ op[k] = NoCall /\ rows[k] # {}
    /\ inContext => running # {}
    /\ IF k \in CronKeys
       THEN flight' = flight \cup {Deleting(k)} /\ UNCHANGED op
       ELSE /\ op' = [op EXCEPT ![k] = [NoCall EXCEPT !.at = "job", !.inContext = inContext]]
            /\ UNCHANGED flight
    /\ UNCHANGED <<rows, queue, worker, process, history, counters>>

\* For one of the rows the job is looked up and removed, or the removal is pushed to "ops".
\* It is a clean one if no addition is on its way.  Before startup, and while a worker holds
\* the job, the call is rejected.
Clean(k) == /\ ~op[k].inContext /\ process = "up"
            /\ \A f \in flight : f.key # k
DropJob_LeavesIt(k) ==
    /\ op[k].at = "job"
    /\ op' = [op EXCEPT ![k].at = "row", ![k].clean = Clean(k)]
    /\ UNCHANGED <<rows, queue, flight, worker, process, history, counters>>
DropJob(k) ==
    /\ op[k].at = "job"
    /\ \/ /\ op[k].inContext \/ (HasQueue /\ k \notin active)
          /\ job' = IF op[k].inContext THEN job ELSE [job EXCEPT ![k] = None]
          /\ op' = [op EXCEPT ![k].at = "row", ![k].clean = Clean(k)]
       \/ /\ ~op[k].inContext /\ (~HasQueue \/ k \in active)
          /\ op' = [op EXCEPT ![k] = NoCall]
          /\ UNCHANGED job
    /\ UNCHANGED <<rows, active, repeats, flight, worker, process, history, counters>>

\* Then that row is deleted, and the next one's turn comes.
DropRow_OfOne(k) ==
    /\ op[k].at = "row"
    /\ LET n == LastOf(rows[k])
       IN  /\ RowsAre(k, rows[k] \ {n}) /\ dropped' = [dropped EXCEPT ![k] = @ \ {n}]
           /\ op' = [op EXCEPT ![k] = NoCall]
           /\ removed' = IF rows[k] = {n} /\ op[k].clean THEN removed \cup {k} ELSE removed
    /\ UNCHANGED <<queue, flight, worker, process, counters>>
DropRow(k) ==
    /\ op[k].at = "row"
    /\ LET n == LastOf(rows[k])
           last == rows[k] = {n}
       IN  /\ RowsAre(k, rows[k] \ {n}) /\ dropped' = [dropped EXCEPT ![k] = @ \ {n}]
           /\ op' = [op EXCEPT ![k] = IF last THEN NoCall ELSE [@ EXCEPT !.at = "job"]]
           /\ removed' = IF last /\ op[k].clean THEN removed \cup {k} ELSE removed
    /\ UNCHANGED <<queue, flight, worker, process, counters>>

DeleteRow(f) ==
    /\ f \in flight /\ f.does = "delete"
    /\ flight' = flight \ {f}
    /\ RowsAre(f.key, {}) /\ dropped' = [dropped EXCEPT ![f.key] = {}]
    /\ UNCHANGED <<queue, op, worker, process, removed, counters>>
-----------------------------------------------------------------------------
(* The worker *)

\* Nobody waits for the handler: its end is not the end of the job.  Without a listener the
\* job is done with a warning.
Starts(k, due) ==
    IF listening
    THEN running' = running \cup {[key |-> k, due |-> due]} /\ UNCHANGED dropped
    ELSE Lost(k, due) /\ UNCHANGED running

Pick(k) ==
    /\ HasQueue /\ job[k] # None /\ k \notin active
    /\ active' = active \cup {k}
    /\ Starts(k, rows[k] \cup {job[k]})
    /\ UNCHANGED <<rows, job, repeats, flight, op, listening, process, wentOff, removed, counters>>

Complete(k) ==
    /\ HasQueue /\ k \in active
    /\ active' = active \ {k}
    /\ job' = [job EXCEPT ![k] = None]
    /\ UNCHANGED <<rows, repeats, flight, op, worker, process, history, counters>>

PickCron(k, n) ==
    /\ HasQueue /\ n \in repeats[k]
    /\ Starts(k, {n})
    /\ UNCHANGED <<rows, queue, flight, op, listening, process, wentOff, removed, counters>>

HandlerEnds(r) ==
    /\ r \in running
    /\ running' = running \ {r}
    /\ wentOff' = [wentOff EXCEPT ![r.key] = @ \cup (r.due \cap rows[r.key])]
    /\ dropped' = [dropped EXCEPT ![r.key] = @ \ r.due]
    /\ UNCHANGED <<rows, queue, flight, op, listening, process, removed, counters>>

Listen ==
    /\ process \in {"new", "up"} /\ ~listening /\ listening' = TRUE
    /\ UNCHANGED <<rows, queue, flight, op, running, process, history, counters>>
-----------------------------------------------------------------------------
(* The process ends and starts again. *)

\* The worker of a job that is not completed is found to be gone, and the job waits again.
ProcessEnds ==
    /\ stops < MaxStops /\ stops' = stops + 1
    /\ process' = "new" /\ listening' = FALSE
    /\ flight' = {} /\ op' = [k \in Keys |-> NoCall]
    /\ running' = {} /\ active' = {}
    /\ UNCHANGED <<rows, job, repeats, history, adds, faults>>

\* Queue and worker are there before the rows are read.
Boot ==
    /\ process = "new" /\ process' = "timers"
    /\ UNCHANGED <<rows, queue, flight, op, worker, history, counters>>

\* Nobody waits for the jobs that are added for the rows.
LoadRows(keys) ==
    /\ flight' = flight \cup {f \in [does: {"add"}, key: keys, n: Schedules] : f.n \in rows[f.key]}
    /\ dropped' = [k \in Keys |-> IF k \in keys THEN {} ELSE dropped[k]]
    /\ UNCHANGED <<rows, queue, op, worker, wentOff, removed, counters>>
LoadTimers_TrustsTheQueue ==
    process = "timers" /\ process' = "crons" /\ LoadRows({})
LoadTimers == process = "timers" /\ process' = "crons" /\ LoadRows(Simple)
LoadCrons == process = "crons" /\ process' = "up" /\ LoadRows(CronKeys)

\* Every job goes, but for the rows and what a worker holds.
ClearAllTimers ==
    /\ HasQueue /\ faults < MaxFaults /\ faults' = faults + 1
    /\ job' = [k \in Keys |-> IF k \in active THEN job[k] ELSE None]
    /\ repeats' = [k \in Keys |-> {}]
    /\ dropped' = [k \in Keys |-> rows[k] \ wentOff[k]]
    /\ UNCHANGED <<rows, active, flight, op, worker, process, wentOff, removed, adds, stops>>
-----------------------------------------------------------------------------
QueueNext ==
    \/ \E k \in Keys :
          \/ \E inContext \in BOOLEAN :
                AddScheduledTask(k, inContext) \/ RemoveSchedule(k, inContext)
          \/ WriteRow(k) \/ Repeat(k) \/ DropJob(k) \/ DropRow(k)
          \/ Pick(k) \/ Complete(k)
          \/ \E n \in Schedules : PickCron(k, n)
    \/ \E f \in flight : Land(f) \/ DeleteRow(f)
    \/ \E r \in running : HandlerEnds(r)
    \/ AddFails \/ ClearAllTimers \/ Listen
    \/ ProcessEnds \/ Boot \/ LoadTimers \/ LoadCrons

\* Datastore and Redis answer, handlers end, delays pass, and the process is started again.
QueueFairness ==
    /\ \A k \in Keys :
          /\ WF_queueVars(WriteRow(k) \/ Repeat(k) \/ DropJob(k) \/ DropRow(k))
          /\ WF_queueVars(Pick(k)) /\ WF_queueVars(Complete(k))
          /\ \A n \in Schedules : WF_queueVars(PickCron(k, n))
    /\ WF_queueVars(\E f \in flight : Land(f) \/ DeleteRow(f))
    /\ \A k \in Keys, due \in SUBSET Schedules :
          WF_queueVars(HandlerEnds([key |-> k, due |-> due]))
    /\ WF_queueVars(Boot \/ LoadTimers \/ LoadCrons)

QueueSpec == QueueInit /\ [][QueueNext]_queueVars /\ QueueFairness
-----------------------------------------------------------------------------
QueueTypeOK ==
    /\ rows \in [Keys -> SUBSET Schedules]
    /\ job \in [Keys -> Schedules \cup {None}]
    /\ active \subseteq Keys /\ removed \subseteq Keys
    /\ repeats \in [Keys -> SUBSET Schedules]
    /\ flight \subseteq [does: {"add", "delete"}, key: Keys, n: Schedules \cup {None}]
    /\ op \in [Keys -> [at: {"idle", "write", "repeat", "job", "row"},
                        new: Schedules \cup {None}, inContext: BOOLEAN, clean: BOOLEAN]]
    /\ running \subseteq [key: Keys, due: SUBSET Schedules]
    /\ listening \in BOOLEAN
    /\ process \in {"new", "timers", "crons", "up"}
    /\ wentOff \in [Keys -> SUBSET Schedules]
    /\ dropped \in [Keys -> SUBSET Schedules]
    /\ adds \in 0..MaxAdds /\ stops \in 0..MaxStops /\ faults \in 0..MaxFaults

\* A timer that an event handler removed while no addition of it was on its way stays
\* silent until it is set again, through restarts and whatever other rows it had.
RemovedIsSilent == \A k \in removed :
    /\ job[k] = None /\ rows[k] = {}
    /\ \A f \in flight : f.key # k

\* A row whose handler has not run to its end is on its way to one, or being removed, or
\* will be loaded: its job waits or is being added, or its handler runs.  Left out are rows
\* whose job was refused, ignored, pushed to "ops", cleared or met by no listener.
Waits(k, n) == IF k \in CronKeys THEN n \in repeats[k] ELSE job[k] # None /\ k \notin active
ToBeLoaded(k) == process \in {"new", "timers"} \/ (process = "crons" /\ k \in CronKeys)
NoneIsStranded == \A k \in Keys : \A n \in rows[k] \ (wentOff[k] \cup dropped[k]) :
    \/ Waits(k, n) \/ Adding(k, n) \in flight \/ ToBeLoaded(k)
    \/ \E r \in running : r.key = k /\ n \in r.due
    \/ op[k].at = "repeat" /\ op[k].new = n
    \/ op[k].at \in {"job", "row"}

\* A timer that was set goes off and its handler ends, or it is removed: also if the
\* process ends before the job is added, or while the handler runs.  Left out are rows
\* whose job was refused, ignored, pushed to "ops", cleared or met by no listener, until
\* the next start.
SetTimersGoOff == \A k \in Keys, n \in Schedules :
    n \in rows[k] ~> (n \in wentOff[k] \/ n \notin rows[k] \/ n \in dropped[k])
=============================================================================

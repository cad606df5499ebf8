----------------------------- MODULE JobRunner -----------------------------
(***************************************************************************)
(* What the two runners of scheduled tasks have in common                  *)
(* (src/src/local-schedule-job-runner.ts and                               *)
(* src/src/bullmq-schedule-job-runner.ts): timers, the rows the datastore  *)
(* keeps for them, the calls that set and remove them, and a process that  *)
(* ends and starts again.  LocalTimers and BullMQTimers each add where     *)
(* their timers go off.                                                    *)
(*                                                                         *)
(* A key is a component, name and id; a schedule is numbered by the        *)
(* addScheduledTask call that made it, which brings its timeout, data and  *)
(* crontab.                                                                *)
(***************************************************************************)
EXTENDS Naturals

CONSTANTS Keys,
          CronKeys,   \* those scheduled with a crontab
          MaxAdds,    \* bound: calls of addScheduledTask
          MaxStops    \* bound: process ends

ASSUME KeysAssumption == CronKeys \subseteq Keys
ASSUME BoundsAssumption == MaxAdds \in Nat /\ MaxStops \in Nat

Schedules == 1..MaxAdds
None == 0   \* no schedule
Simple == Keys \ CronKeys

VARIABLES
    rows,     \* [Keys -> SUBSET Schedules]: lock-manager-timer and lock-manager-cron
    op,       \* [Keys -> the call in progress]
    process,  \* how far startup has come since the process last ended
    adds, stops
=============================================================================

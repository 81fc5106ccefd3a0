----------------------------- MODULE Scheduler -----------------------------
(***************************************************************************)
(* The APScheduler both processes run their jobs on (worker/scheduler.py,  *)
(* worker/newsd.py): cron jobs registered when the process starts, one-off *)
(* date jobs booked while it runs, a job store in Redis that outlives the  *)
(* process, coalescing, one instance of a job at a time and a grace for    *)
(* runs that come late.  Time is counted in steps of a day.                *)
(***************************************************************************)
EXTENDS Naturals

CONSTANTS
    CronJob,   \* registered by build_scheduler
    DateJob,   \* booked with a DateTrigger
    Day,       \* steps of a day
    At,        \* the step of the day at which each cron job is due
    Grace,     \* misfire_grace_time of every job
    MaxTime    \* bound: the steps followed

ASSUME SchedulerAssumption ==
    /\ Day \in Nat \ {0} /\ MaxTime \in Nat
    /\ At \in [CronJob -> 0..(Day - 1)]
    /\ Grace \in [CronJob \cup DateJob -> Nat]
    /\ CronJob \cap DateJob = {}

Job == CronJob \cup DateJob
Time == 0..MaxTime
NoTime == MaxTime + Day + 1

VARIABLES
    now,        \* the clock
    up,         \* the process runs
    next,       \* next_run_time of every job in the store
    running     \* jobs under way: max_instances is 1

scheduler == <<now, up, next, running>>

SchedulerTypeOK ==
    /\ now \in Time 
    /\ up \in BOOLEAN
    /\ next \in [Job -> 0..NoTime]
    /\ running \in SUBSET Job

SchedulerInit ==
    /\ now = 0 /\ up = FALSE 
    /\ next = [j \in Job |-> NoTime]
    /\ running = {}

\* The first time from t on at which a cron job is due, and the last one to t.
NextFire(j, t) == t + ((At[j] + Day - (t % Day)) % Day)
LastFire(j, t) == t - (((t % Day) + Day - At[j]) % Day)

DueNow == {j \in Job : next[j] <= now}

\* Every job of the table is registered again, with replace_existing: its next
\* run is worked out from the present, whatever the store knew.
Start ==
    /\ ~up
    /\ up' = TRUE 
    /\ next' = [j \in Job |-> IF j \in CronJob THEN NextFire(j, now) ELSE next[j]]
    /\ UNCHANGED <<now, running>>

\* A deploy, a crash or a box that is stopped.
Stop ==
    /\ up
    /\ up' = FALSE /\ running' = {}
    /\ UNCHANGED <<now, next>>

Book(j, t) == next' = [next EXCEPT ![j] = t]

\* _process_jobs and run_job: the runs that are due are coalesced into the last
\* one, which runs unless it is too late.
Wake(j) ==
    /\ up /\ j \in DueNow
    /\ LET due == IF j \in CronJob THEN LastFire(j, now) ELSE next[j] IN
       running' = IF now <= due + Grace[j] THEN running \cup {j} ELSE running
    /\ Book(j, IF j \in CronJob THEN NextFire(j, now + 1) ELSE NoTime)
    /\ UNCHANGED <<now, up>>

\* The scheduler is woken in time for what is due.
Tick ==
    /\ now < MaxTime
    /\ up => DueNow = {}
    /\ now' = now + 1
    /\ UNCHANGED <<up, next, running>>

Done(j) ==
    /\ j \in running
    /\ running' = running \ {j}
    /\ UNCHANGED <<now, up, next>>
=============================================================================

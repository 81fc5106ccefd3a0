---------------------------- MODULE MCEventDesk ----------------------------
(* One release over a week of four-step days: the watchdog at the start of a *)
(* day, the agenda after it.                                                *)
EXTENDS EventDesk
MCAt == [j \in CronJob |-> IF j = Watchdog THEN 0 ELSE 1]
MCGrace == [j \in CronJob \cup DateJob |-> 1]
MCLeadOf == [k \in Kind |-> IF k = "brief" THEN 2 ELSE 1]
=============================================================================

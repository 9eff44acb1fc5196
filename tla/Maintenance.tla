---------------------------- MODULE Maintenance ----------------------------
(* The retention cleanup (maintenance.py) and who starts it: the scheduler   *)
(* process (scheduler.py), once a day, and an operator (cleanup.py).         *)
EXTENDS Clock

CONSTANTS
  Day, Hour,      \* the boundary: Hour of every day
  RetryDelay,     \* cleanup_error_retry_seconds
  Never,          \* no run yet
  MaxFailures     \* bound: errors and restarts of the scheduler

ASSUME MaintenanceAssumption ==
  /\ Day \in Nat \ {0} /\ Hour \in 0..(Day - 1) /\ RetryDelay \in Nat \ {0}
  /\ MaxFailures \in Nat /\ Never \notin Nat

VARIABLES
  latest,      \* started_at of the latest MaintenanceRun
  scheduler,   \* where run_forever is
  wake,        \* the end of its sleep
  since,       \* started_at of the run of each, while it is under way
  operator,    \* the manual run
  failures,
  scheduled,   \* history: the scheduler's runs of each day's boundary
  lapsed       \* history: days that ended without a run after their boundary,
               \* and where the scheduler was then

maintenance == <<latest, scheduler, wake, since, operator, failures, scheduled, lapsed>>

Processes == {"scheduler", "operator"}
Places == {"reading", "starting", "cleaning", "asleep", "retrying", "down"}
LastDay == MaxTime \div Day

MaintenanceTypeOK ==
  /\ latest \in Times \cup {Never}
  /\ scheduler \in Places
  /\ wake \in 0..(MaxTime + Day + RetryDelay)
  /\ since \in [Processes -> Times]
  /\ operator \in {"idle", "cleaning"}
  /\ failures \in 0..MaxFailures
  /\ scheduled \in [0..LastDay + 1 -> Nat]
  /\ lapsed \subseteq [day : 0..LastDay, at : Places]

MaintenanceInit ==
  /\ latest = Never
  /\ scheduler = "reading" /\ wake = 0
  /\ since = [p \in Processes |-> 0]
  /\ operator = "idle" /\ failures = 0
  /\ scheduled = [d \in 0..LastDay + 1 |-> 0] /\ lapsed = {}

-----------------------------------------------------------------------------
(* next_cleanup_at                                                          *)
Boundary(t) == (t \div Day) * Day + Hour

(* Mutant: a run earlier on the same day counts.                            *)
DailyCleanupAt(t) ==
  IF latest # Never /\ latest \div Day = t \div Day THEN Boundary(t) + Day ELSE Boundary(t)

NextCleanupAt(t) ==
  IF latest # Never /\ latest >= Boundary(t) THEN Boundary(t) + Day ELSE Boundary(t)

(* The boundary a run started at t is the run of: that of the day before    *)
(* if the one of its day has not passed (the first day's predecessor is     *)
(* never asked for).                                                        *)
DayOf(t) == IF t >= Boundary(t) THEN (t \div Day) + 1 ELSE t \div Day

Latest(t) == IF latest # Never /\ latest > t THEN latest ELSE t

(* One iteration of run_forever.                                            *)
Look ==
  /\ scheduler = "reading"
  /\ IF NextCleanupAt(now) <= now
       THEN /\ scheduler' = "starting" /\ since' = [since EXCEPT !["scheduler"] = now]
            /\ UNCHANGED wake
       ELSE scheduler' = "asleep" /\ wake' = NextCleanupAt(now) /\ UNCHANGED since
  /\ UNCHANGED <<latest, operator, failures, scheduled, lapsed>>

(* execute_cleanup commits the run before it cleans.                        *)
Start ==
  /\ scheduler = "starting"
  /\ latest' = Latest(since["scheduler"])
  /\ scheduled' = [scheduled EXCEPT ![DayOf(since["scheduler"])] = @ + 1]
  /\ scheduler' = "cleaning"
  /\ UNCHANGED <<wake, since, operator, failures, lapsed>>

ManualStart ==
  /\ operator = "idle"
  /\ since' = [since EXCEPT !["operator"] = now]
  /\ latest' = Latest(now)
  /\ operator' = "cleaning"
  /\ UNCHANGED <<scheduler, wake, failures, scheduled, lapsed>>

(* The run ends, "ok" or, its deletions rolled back, "error": it is not     *)
(* tried again.                                                             *)
Finish(p) ==
  /\ \/ /\ p = "scheduler" /\ scheduler = "cleaning" /\ scheduler' = "reading"
        /\ UNCHANGED operator
     \/ /\ p = "operator" /\ operator = "cleaning" /\ operator' = "idle"
        /\ UNCHANGED scheduler
  /\ since' = [since EXCEPT ![p] = 0]
  /\ UNCHANGED <<latest, wake, scheduled, lapsed>>

Fail == failures < MaxFailures /\ failures' = failures + 1

FinishError(p) ==
  /\ Finish(p) /\ Fail

(* The database does not answer: the loop sleeps and begins again.          *)
DatabaseError ==
  /\ scheduler \in {"reading", "starting", "cleaning"} /\ Fail
  /\ scheduler' = "retrying" /\ wake' = now + RetryDelay
  /\ since' = [since EXCEPT !["scheduler"] = 0]
  /\ UNCHANGED <<latest, operator, scheduled, lapsed>>

SchedulerDies ==
  /\ scheduler # "down" /\ Fail
  /\ scheduler' = "down" /\ wake' = 0
  /\ since' = [since EXCEPT !["scheduler"] = 0]
  /\ UNCHANGED <<latest, operator, scheduled, lapsed>>

Restart ==
  /\ scheduler = "down" /\ scheduler' = "reading"
  /\ UNCHANGED <<latest, wake, since, operator, failures, scheduled, lapsed>>

(* The sleep ends; the wall clock may be a step behind the monotonic one.   *)
Wake ==
  /\ scheduler \in {"asleep", "retrying"} /\ now + 1 >= wake
  /\ scheduler' = "reading" /\ wake' = 0
  /\ UNCHANGED <<latest, since, operator, failures, scheduled, lapsed>>

(* Time does not pass a sleep that is over, nor an iteration.               *)
Patient ==
  \/ scheduler \in {"cleaning", "down"}
  \/ scheduler \in {"asleep", "retrying"} /\ now < wake

Unrun == latest = Never \/ latest < Boundary(now)
DayEnds == (now + 1) \div Day # now \div Day

MaintenancePass ==
  /\ Patient
  /\ lapsed' = IF DayEnds /\ Unrun
                 THEN lapsed \cup {[day |-> now \div Day, at |-> scheduler]}
                 ELSE lapsed
  /\ UNCHANGED <<latest, scheduler, wake, since, operator, failures, scheduled>>

MaintenanceStep ==
  \/ Look \/ Start \/ ManualStart \/ (\E p \in Processes : FinishError(p))
  \/ DatabaseError \/ SchedulerDies \/ Restart \/ Wake

-----------------------------------------------------------------------------
OneRunADay == \A d \in DOMAIN scheduled : scheduled[d] <= 1

NoMissedRun ==
  /\ scheduler = "asleep" /\ now < wake /\ now >= Boundary(now) => ~Unrun
  /\ \A x \in lapsed : x.at \in {"down", "retrying", "cleaning"}

(* Each daily boundary gets at most one run of the scheduler, not a second  *)
(* when the first failed, when the process restarted, or when it started    *)
(* within the second of the boundary; and a day ends without a run after    *)
(* its boundary only if the scheduler was then down, waiting to retry, or   *)
(* still in a run of the day before: it sleeps past no boundary, however    *)
(* late an error or a restart made it, and an operator's run before the     *)
(* boundary does not replace it.  A day that ended so is skipped, against   *)
(* docs/ADMIN_CONSOLE.md:120-121, "catches up a missed daily boundary after *)
(* a restart" (maintenance.py:90-105, scheduler.py:16-40).                  *)
CleanedDaily == OneRunADay /\ NoMissedRun
=============================================================================

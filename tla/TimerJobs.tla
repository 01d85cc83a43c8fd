----------------------------- MODULE TimerJobs -----------------------------
(***************************************************************************)
(* The timer jobs: TimerRuntimeStore, TimerJobRepository and the           *)
(* timer_watchdog of RuntimeSessionScheduler.                              *)
(*                                                                         *)
(* The jobs are rows of a table and survive the process; the watchdog      *)
(* claims a batch of due jobs, publishes a tick for each and records its   *)
(* result.  Every operation of the store holds its lock for the whole      *)
(* transaction and is one step; between two of them the watchdog awaits    *)
(* the gateway, and jobs are created and cancelled by tools.               *)
(*                                                                         *)
(* Time is what it makes of a row: it gets due, its claim stale, its       *)
(* deadline passed, each at any moment.  A row without max_runs is never   *)
(* counted, its run_count limits nothing.                                  *)
(***************************************************************************)
EXTENDS Naturals, Sequences

CONSTANTS
    Job,            \* job ids
    RunLimits,      \* the max_runs a job may be created with, 0 for none
    Limit,          \* jobs claimed at once (20)
    MaxFailures,    \* failures in a row that end a job (3)
    MaxCrashes      \* bound: crashes of the process

ASSUME TimerAssumption == /\ RunLimits \subseteq Nat
                          /\ Limit \in Nat \ {0}
                          /\ MaxFailures \in Nat \ {0}
                          /\ MaxCrashes \in Nat

VARIABLES
    status,         \* status of the row, "none" before it is created
    active,         \* the jobs whose row is active
    max_runs,       \* 0 for none
    run_count,
    failure_count,
    timed,          \* the jobs with a deadline
    expired,        \* those whose deadline has passed
    due,            \* the jobs with next_fire_at <= now, earliest first
    claimed,        \* the jobs with a claimed_at
    stale,          \* those claimed longer ago than stale_claim_after_seconds
    pc,             \* where the watchdog is
    batch,          \* the claimed jobs it has not recorded yet
    crashes,        \* crashes so far
    ticks,          \* history: ticks published of a job with max_runs
    stopped,        \* history: the jobs that were cancelled
    late,           \* history: ticks of a job after it was cancelled
    overdue         \* history: ticks of a job after its deadline

row == <<status, active, max_runs, run_count, failure_count, timed>>
time == <<expired, due, stale>>
watchdog == <<pc, batch>>
history == <<ticks, stopped, late, overdue>>
vars == <<row, time, claimed, watchdog, crashes, history>>

Live == {"pending", "running"}

Ended == {"completed", "failed", "cancelled"}

Due == {due[i] : i \in DOMAIN due}

TypeOK == /\ status \in [Job -> {"none"} \cup Live \cup Ended]
          /\ active \in SUBSET Job
          /\ max_runs \in [Job -> RunLimits \cup {0}]
          /\ run_count \in [Job -> Nat]
          /\ failure_count \in [Job -> Nat]
          /\ timed \in SUBSET Job
          /\ expired \in SUBSET timed
          /\ due \in Seq(Job)
          /\ claimed \in SUBSET Job
          /\ stale \in SUBSET claimed
          /\ pc \in {"asleep", "ticking", "telling", "dead"}
          /\ batch \in Seq(Job)
          /\ crashes \in 0..MaxCrashes
          /\ ticks \in [Job -> Nat]
          /\ stopped \in SUBSET Job
          /\ late \in [Job -> Nat]
          /\ overdue \in [Job -> Nat]

Init == /\ status = [j \in Job |-> "none"]
        /\ active = {}
        /\ max_runs = [j \in Job |-> 0]
        /\ run_count = [j \in Job |-> 0]
        /\ failure_count = [j \in Job |-> 0]
        /\ timed = {}
        /\ expired = {}
        /\ due = <<>>
        /\ claimed = {}
        /\ stale = {}
        /\ pc = "asleep"
        /\ batch = <<>>
        /\ crashes = 0
        /\ ticks = [j \in Job |-> 0]
        /\ stopped = {}
        /\ late = [j \in Job |-> 0]
        /\ overdue = [j \in Job |-> 0]

Limited(j) == max_runs[j] > 0

(* The counts c, one higher for j if p.                                    *)
CountIf(p, j, c) == IF p THEN [c EXCEPT ![j] = @ + 1] ELSE c

Rank(j) == CHOOSE i \in DOMAIN due : due[i] = j

(* next_fire_at of j, which is due, is moved into the future.              *)
NoLongerDue(j) ==
    due' = [i \in 1..(Len(due) - 1) |-> due[IF i < Rank(j) THEN i ELSE i + 1]]
-----------------------------------------------------------------------------
(* The tools.                                                              *)

(* create_job: the first fire time is in the future.                       *)
Create(j) ==
    /\ status[j] = "none"
    /\ status' = [status EXCEPT ![j] = "pending"]
    /\ active' = active \cup {j}
    /\ \E n \in RunLimits : max_runs' = [max_runs EXCEPT ![j] = n]
    /\ timed' \in {timed, timed \cup {j}}
    /\ UNCHANGED <<run_count, failure_count, time, claimed, watchdog, crashes,
                   history>>

(* cancel_job, of a job in whatever status.                                *)
Cancel(j) ==
    /\ status[j] # "none"
    /\ status' = [status EXCEPT ![j] = "cancelled"]
    /\ active' = active \ {j}
    /\ claimed' = claimed \ {j}
    /\ stale' = stale \ {j}
    /\ stopped' = stopped \cup {j}
    /\ UNCHANGED <<max_runs, run_count, failure_count, timed, expired, due,
                   watchdog, crashes, ticks, late, overdue>>
-----------------------------------------------------------------------------
(* Time.                                                                   *)

GetsDue(j) ==
    /\ status[j] # "none" /\ j \notin Due
    /\ due' = Append(due, j)
    /\ UNCHANGED <<row, expired, stale, claimed, watchdog, crashes, history>>

GetsStale(j) ==
    /\ j \in claimed \ stale
    /\ stale' = stale \cup {j}
    /\ UNCHANGED <<row, expired, due, claimed, watchdog, crashes, history>>

Expires(j) ==
    /\ j \in timed \ expired
    /\ expired' = expired \cup {j}
    /\ UNCHANGED <<row, due, stale, claimed, watchdog, crashes, history>>
-----------------------------------------------------------------------------
(* The watchdog.                                                           *)

(* Mutant of Claimable: a stale claim keeps its job.                       *)
ClaimableOnce == {j \in Due \cap active : status[j] \in Live /\ j \notin claimed}

(* Mutant of Claimable: inactive rows are claimed too.                     *)
ClaimableAlways == {j \in Due : j \notin claimed \/ j \in stale}

(* claim_due_jobs: active, due, and not claimed but for a stale claim.     *)
Claimable == {j \in Due \cap active : /\ status[j] \in Live
                                      /\ j \notin claimed \/ j \in stale}

(* The claimable jobs with the earliest fire times, in their order.        *)
Batches == {b \in UNION {[1..n -> Claimable] : n \in 0..Limit} :
              /\ \A i, k \in DOMAIN b : i < k => Rank(b[i]) < Rank(b[k])
              /\ \A j \in Claimable :
                    \/ \E i \in DOMAIN b : b[i] = j
                    \/ /\ Len(b) = Limit
                       /\ \A i \in DOMAIN b : Rank(b[i]) < Rank(j)}

Claim ==
    /\ pc = "asleep"
    /\ Claimable # {}
    /\ batch' \in Batches
    /\ LET B == {batch'[i] : i \in DOMAIN batch'}
       IN /\ claimed' = claimed \cup B
          /\ stale' = stale \ B
          /\ status' = [j \in Job |-> IF j \in B THEN "running" ELSE status[j]]
    /\ pc' = "ticking"
    /\ UNCHANGED <<active, max_runs, run_count, failure_count, timed, expired,
                   due, crashes, history>>

(* The tick is published, and the gateway told.                            *)
Tick ==
    /\ pc = "ticking"
    /\ LET j == Head(batch)
       IN /\ ticks' = CountIf(Limited(j), j, ticks)
          /\ late' = CountIf(j \in stopped, j, late)
          /\ overdue' = CountIf(j \in expired, j, overdue)
    /\ pc' = "telling"
    /\ UNCHANGED <<row, time, claimed, batch, crashes, stopped>>

(* mark_job_result: what the row is to become.                             *)
LastRun(j) == Limited(j) /\ run_count[j] + 1 >= max_runs[j]

TooManyFailures(j, success) == ~success /\ failure_count[j] + 1 >= MaxFailures

(* Mutant of Outcomes: max_runs is compared before the run is counted.     *)
OutcomesLate(j, success) ==
    IF TooManyFailures(j, success) THEN {"failed"}
    ELSE IF j \in expired \/ (Limited(j) /\ run_count[j] >= max_runs[j])
           THEN {"completed"}
    ELSE {"running", "failed"}

(* A cron job without another fire time fails.                             *)
Outcomes(j, success) ==
    IF TooManyFailures(j, success) THEN {"failed"}
    ELSE IF j \in expired \/ LastRun(j) THEN {"completed"}
    ELSE {"running", "failed"}

(* Mutant of Released: the row keeps its claim.                            *)
StillClaimed(j) == UNCHANGED <<claimed, stale>>

(* Mutant of Released: only claimed_by is cleared.                         *)
ReleasedHalf(j) == claimed' = claimed \ {j} /\ UNCHANGED stale

Released(j) == /\ claimed' = claimed \ {j}
               /\ stale' = stale \ {j}

(* Mutant of CountRun: only a success is counted.                          *)
CountSuccess(j, success) ==
    /\ run_count' = CountIf(success /\ Limited(j), j, run_count)
    /\ failure_count' = [failure_count EXCEPT ![j] = IF success THEN 0 ELSE @ + 1]

CountRun(j, success) ==
    /\ run_count' = CountIf(Limited(j), j, run_count)
    /\ failure_count' = [failure_count EXCEPT ![j] = IF success THEN 0 ELSE @ + 1]

(* The watchdog goes on with the rest of its batch.                        *)
NextInBatch == /\ batch' = Tail(batch)
               /\ pc' = IF batch' = <<>> THEN "asleep" ELSE "ticking"

(* The result is recorded, as a failure if the gateway could not be told   *)
(* or the first attempt to record it failed.  A row that is inactive stays *)
(* so, whatever its status becomes.                                        *)
Record(success) ==
    /\ pc = "telling"
    /\ LET j == Head(batch)
       IN /\ \E st \in Outcomes(j, success) :
               /\ status' = [status EXCEPT ![j] = st]
               /\ IF st \in Ended
                    THEN active' = active \ {j} /\ UNCHANGED due
                    ELSE NoLongerDue(j) /\ UNCHANGED active
          /\ CountRun(j, success)
          /\ Released(j)
    /\ NextInBatch
    /\ UNCHANGED <<max_runs, timed, expired, crashes, history>>

(* Recording the failure fails as well: the exception ends the watchdog.   *)
Dies ==
    /\ pc = "telling"
    /\ pc' = "dead"
    /\ UNCHANGED <<row, time, claimed, batch, crashes, history>>

(* The process ends and is started again.                                  *)
Crash ==
    /\ crashes < MaxCrashes
    /\ crashes' = crashes + 1
    /\ pc' = "asleep"
    /\ batch' = <<>>
    /\ UNCHANGED <<row, time, claimed, history>>
-----------------------------------------------------------------------------
Tool(j) == Create(j) \/ Cancel(j)

Time(j) == GetsDue(j) \/ GetsStale(j) \/ Expires(j)

Watchdog == Claim \/ Tick \/ Record(TRUE) \/ Record(FALSE)

Next == \/ \E j \in Job : Tool(j) \/ Time(j)
        \/ Watchdog \/ Dies \/ Crash

SafeSpec == Init /\ [][Next]_vars

(* Time passes, and what the watchdog waits for returns.                   *)
Spec == /\ SafeSpec
        /\ WF_vars(Watchdog)
        /\ \A j \in Job : WF_vars(GetsStale(j))
-----------------------------------------------------------------------------
InBatch == {batch[i] : i \in DOMAIN batch}

(* The tick of j is published and not recorded.                            *)
Unrecorded(j) == pc \in {"telling", "dead"} /\ j = Head(batch)

(* max_runs bounds the recorded runs, and a job that has reached it is     *)
(* neither active nor about to run, whatever is cancelled or crashes.      *)
RunsWithinLimit ==
    \A j \in Job : Limited(j) => /\ run_count[j] <= max_runs[j]
                                 /\ j \in active \cup InBatch
                                      => run_count[j] < max_runs[j]

(* A tick is recorded once: what is published and not recorded is under    *)
(* way, or was when the process crashed.                                   *)
TicksAreRecorded ==
    \A j \in Job :
       /\ run_count[j] <= ticks[j]
       /\ ticks[j] <= run_count[j] + crashes + (IF Unrecorded(j) THEN 1 ELSE 0)

(* A job is claimed exactly while it is in the batch; only a crash leaves  *)
(* a claim behind, which has to get stale.                                 *)
ClaimsAreHeld == /\ active \cap InBatch \subseteq claimed
                 /\ crashes = 0 => claimed = active \cap InBatch

(* A job that is cancelled ticks at most once more, when it had been       *)
(* claimed already; one whose deadline has passed too, but for a crash.    *)
AtMostOneLateTick == \A j \in Job : /\ late[j] <= 1
                                    /\ overdue[j] <= 1 + crashes

(* A job that is due is recorded, or ends, although a crash may leave its  *)
(* claim behind, unless the watchdog has died.                             *)
DueJobsRun ==
    \A j \in Job :
       j \in Due \cap active ~> j \notin Due \cap active \/ pc = "dead"
-----------------------------------------------------------------------------
(* stop_timer_job cancels a job.  Its status remains cancelled.            *)
StoppedIsCancelled == \A j \in stopped : status[j] = "cancelled"
=============================================================================

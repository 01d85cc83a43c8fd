-------------------------- MODULE TimerJobs_proofs --------------------------
(***************************************************************************)
(* The safety properties of the timer jobs, for any number of jobs, any    *)
(* limits and any number of crashes.  They rest on three facts about the   *)
(* watchdog's batch: it has no repetitions, it is empty exactly while the  *)
(* watchdog sleeps, and an id that names no row is nowhere in use.         *)
(***************************************************************************)
EXTENDS TimerJobs, TLAPS

BatchOK == /\ \A i, k \in DOMAIN batch : batch[i] = batch[k] => i = k
           /\ pc = "asleep" <=> batch = <<>>

Unused == \A j \in Job : status[j] = "none" =>
             /\ j \notin active \cup InBatch \cup timed \cup stopped
             /\ run_count[j] = 0
             /\ ticks[j] = 0
             /\ overdue[j] = 0

Inv == TypeOK /\ BatchOK /\ Unused

(* The rest of a batch is the batch without its head.                      *)
LEMMA RestOfBatch ==
    ASSUME NEW q \in Seq(Job), q # <<>>,
           \A i, k \in DOMAIN q : q[i] = q[k] => i = k
    PROVE  /\ Head(q) \in Job
           /\ Head(q) \in {q[i] : i \in DOMAIN q}
           /\ Tail(q) \in Seq(Job)
           /\ \A i, k \in DOMAIN Tail(q) : Tail(q)[i] = Tail(q)[k] => i = k
           /\ {Tail(q)[i] : i \in DOMAIN Tail(q)}
                = {q[i] : i \in DOMAIN q} \ {Head(q)}
<1> DEFINE r == Tail(q)
<1>1. /\ Len(r) = Len(q) - 1 /\ Len(q) \in Nat /\ Len(q) > 0
      /\ Head(q) = q[1] /\ Head(q) \in Job
      /\ r \in Seq(Job)
      /\ DOMAIN q = 1..Len(q) /\ DOMAIN r = 1..Len(r)
      /\ \A i \in 1..Len(r) : r[i] = q[i + 1]
  OBVIOUS
<1> HIDE DEF r
<1>2. ASSUME NEW i \in DOMAIN r
      PROVE  r[i] \in {q[k] : k \in DOMAIN q} \ {Head(q)}
  <2>1. i + 1 \in DOMAIN q /\ i + 1 # 1 /\ 1 \in DOMAIN q /\ r[i] = q[i + 1]
    BY <1>1
  <2> QED BY <1>1, <2>1
<1>3. ASSUME NEW k \in DOMAIN q, q[k] # Head(q)
      PROVE  q[k] \in {r[i] : i \in DOMAIN r}
  <2>1. k - 1 \in DOMAIN r
    BY <1>1, <1>3
  <2>2. r[k - 1] = q[k]
    BY <1>1, <2>1
  <2> QED BY <2>1, <2>2
<1>4. {r[i] : i \in DOMAIN r} = {q[i] : i \in DOMAIN q} \ {Head(q)}
  BY <1>2, <1>3
<1>5. \A i, k \in DOMAIN r : r[i] = r[k] => i = k
  <2> SUFFICES ASSUME NEW i \in DOMAIN r, NEW k \in DOMAIN r, r[i] = r[k]
               PROVE  i = k
    OBVIOUS
  <2>1. i + 1 \in DOMAIN q /\ k + 1 \in DOMAIN q /\ q[i + 1] = q[k + 1]
    BY <1>1
  <2>2. i + 1 = k + 1
    BY <2>1
  <2> QED BY <1>1, <2>2
<1>6. Head(q) \in {q[i] : i \in DOMAIN q}
  BY <1>1
<1> QED BY <1>1, <1>4, <1>5, <1>6 DEF r

(* A batch is a sequence of claimable jobs without repetitions, and empty  *)
(* only when no job can be claimed.                                        *)
LEMMA BatchIsClaimable ==
    ASSUME TypeOK, NEW b \in Batches
    PROVE  /\ b \in Seq(Job)
           /\ \A i \in DOMAIN b : b[i] \in Claimable
           /\ \A i, k \in DOMAIN b : b[i] = b[k] => i = k
           /\ Claimable # {} => b # <<>>
<1>1. PICK n \in 0..Limit : b \in [1..n -> Claimable]
  BY DEF Batches
<1>2. Claimable \subseteq Due /\ Claimable \subseteq Job
  BY DEF Claimable, Due, TypeOK
<1>3. n \in Nat /\ Limit \in Nat \ {0}
  BY TimerAssumption
<1>4. b \in Seq(Job) /\ DOMAIN b = 1..n /\ Len(b) = n
  BY <1>1, <1>2, <1>3
<1>5. \A i \in DOMAIN b : b[i] \in Claimable
  BY <1>1
<1>6. \A j \in Due : Rank(j) \in Nat
  <2>1. \A j \in Due : Rank(j) \in DOMAIN due
    BY DEF Due, Rank
  <2>2. DOMAIN due \subseteq Nat
    BY SMTT(20) DEF TypeOK
  <2> QED BY <2>1, <2>2
<1>7. \A i, k \in DOMAIN b : i < k => Rank(b[i]) < Rank(b[k])
  BY DEF Batches
<1>8. ASSUME NEW i \in DOMAIN b, NEW k \in DOMAIN b, b[i] = b[k] PROVE i = k
  <2>1. Rank(b[i]) \in Nat /\ ~(Rank(b[i]) < Rank(b[k])) /\ ~(Rank(b[k]) < Rank(b[i]))
    BY <1>2, <1>5, <1>6, <1>8
  <2>2. ~(i < k) /\ ~(k < i)
    BY <1>7, <2>1
  <2> QED BY <1>4, <2>2
<1>9. ASSUME Claimable # {} PROVE b # <<>>
  <2>1. PICK j \in Claimable : TRUE
    BY <1>9
  <2>2. \/ \E i \in DOMAIN b : b[i] = j
        \/ Len(b) = Limit
    BY <2>1 DEF Batches
  <2> QED BY <1>3, <1>4, <2>2
<1> QED BY <1>4, <1>5, <1>8, <1>9

(* The queue of due jobs without one of them is one.                       *)
LEMMA DueTypes ==
    ASSUME TypeOK, NEW j \in Job, NoLongerDue(j)
    PROVE  due' \in Seq(Job)
<1>1. /\ Len(due) \in Nat
      /\ \A i \in 1..Len(due) : due[i] \in Job
  BY DEF TypeOK
<1>2. \A i \in 1..(Len(due) - 1) : due[IF i < Rank(j) THEN i ELSE i + 1] \in Job
  BY <1>1
<1>3. CASE due = <<>>
  <2>1. 1..(Len(due) - 1) = {}
    BY <1>3
  <2>2. due' = <<>>
    BY <2>1 DEF NoLongerDue
  <2> QED BY <2>2
<1>4. CASE due # <<>>
  <2>1. Len(due) - 1 \in Nat
    BY <1>1, <1>4 DEF TypeOK
  <2> QED BY <1>2, <2>1 DEF NoLongerDue
<1> QED BY <1>3, <1>4
-----------------------------------------------------------------------------
(* What claiming does to the batch.                                        *)
LEMMA ClaimFacts ==
    ASSUME Inv, Claim
    PROVE  /\ batch' \in Seq(Job)
           /\ InBatch = {}
           /\ InBatch' \subseteq Claimable
           /\ claimed' = claimed \cup InBatch'
           /\ stale' = stale \ InBatch'
           /\ status' = [j \in Job |-> IF j \in InBatch' THEN "running" ELSE status[j]]
           /\ BatchOK'
<1>1. batch' \in Batches /\ Claimable # {} /\ TypeOK
  BY DEF Claim, Inv
<1>2. /\ batch' \in Seq(Job)
      /\ \A i \in DOMAIN batch' : batch'[i] \in Claimable
      /\ \A i, k \in DOMAIN batch' : batch'[i] = batch'[k] => i = k
      /\ batch' # <<>>
  BY <1>1, BatchIsClaimable
<1>3. batch = <<>>
  BY DEF Inv, BatchOK, Claim
<1>4. InBatch = {}
  BY <1>3 DEF InBatch
<1>5. InBatch' \subseteq Claimable
  BY <1>2 DEF InBatch
<1>6. BatchOK'
  BY <1>2 DEF BatchOK, Claim
<1> QED BY <1>2, <1>4, <1>5, <1>6 DEF Claim, InBatch

(* What recording a result does to the batch.                              *)
LEMMA RecordFacts ==
    ASSUME Inv, NEW success \in BOOLEAN, Record(success)
    PROVE  /\ Head(batch) \in Job
           /\ Head(batch) \in InBatch
           /\ batch' \in Seq(Job)
           /\ InBatch' = InBatch \ {Head(batch)}
           /\ pc' \in {"asleep", "ticking"}
           /\ BatchOK'
<1>1. /\ batch \in Seq(Job) /\ batch # <<>>
      /\ \A i, k \in DOMAIN batch : batch[i] = batch[k] => i = k
  BY DEF Inv, TypeOK, BatchOK, Record
<1>2. batch' = Tail(batch) /\ pc' = IF batch' = <<>> THEN "asleep" ELSE "ticking"
  BY DEF Record, NextInBatch
<1>3. LET q == batch
      IN  /\ Head(q) \in Job
          /\ Head(q) \in {q[i] : i \in DOMAIN q}
          /\ Tail(q) \in Seq(Job)
          /\ \A i, k \in DOMAIN Tail(q) : Tail(q)[i] = Tail(q)[k] => i = k
          /\ {Tail(q)[i] : i \in DOMAIN Tail(q)}
                = {q[i] : i \in DOMAIN q} \ {Head(q)}
  BY <1>1, RestOfBatch
<1>4. InBatch' = {batch'[i] : i \in DOMAIN batch'}
  BY DEF InBatch
<1>5. /\ Head(batch) \in Job
      /\ Head(batch) \in InBatch
      /\ batch' \in Seq(Job)
      /\ \A i, k \in DOMAIN batch' : batch'[i] = batch'[k] => i = k
      /\ InBatch' = InBatch \ {Head(batch)}
  BY <1>2, <1>3, <1>4 DEF InBatch
<1> QED BY <1>2, <1>5 DEF BatchOK

(* The head of the batch, while the watchdog is busy with it.              *)
LEMMA HeadOfBatch ==
    ASSUME Inv, pc # "asleep"
    PROVE  Head(batch) \in Job /\ Head(batch) \in InBatch
<1>1. /\ batch \in Seq(Job) /\ batch # <<>>
      /\ \A i, k \in DOMAIN batch : batch[i] = batch[k] => i = k
  BY DEF Inv, TypeOK, BatchOK
<1> QED BY <1>1, RestOfBatch DEF InBatch

(* The job whose result is recorded is in the table and due.               *)
LEMMA InBatchIsUsed ==
    ASSUME Inv, NEW j \in InBatch
    PROVE  j \in Job /\ status[j] # "none"
BY DEF Inv, Unused, InBatch, TypeOK
-----------------------------------------------------------------------------
(* Every step keeps the types, the batch and the unused ids.               *)
LEMMA InvStep == Inv /\ [Next]_vars => Inv'
<1> SUFFICES ASSUME Inv, [Next]_vars PROVE Inv'
  OBVIOUS
<1> USE DEF vars, row, time, watchdog, history
<1>1. TypeOK /\ BatchOK /\ Unused
  BY DEF Inv
<1>2. ASSUME NEW j \in Job, Create(j) PROVE Inv'
  <2>1. TypeOK'
    <3>1. PICK n \in RunLimits : max_runs' = [max_runs EXCEPT ![j] = n]
      BY <1>2 DEF Create
    <3>2. timed' \in SUBSET Job /\ timed \subseteq timed'
      BY <1>1, <1>2 DEF Create, TypeOK
    <3> QED BY <1>1, <1>2, <3>1, <3>2 DEF Create, TypeOK, Live, Ended
  <2>2. BatchOK' /\ InBatch' = InBatch
    BY <1>1, <1>2 DEF Create, BatchOK, InBatch
  <2>3. Unused'
    BY <1>1, <1>2, <2>2 DEF Create, Unused, TypeOK
  <2> QED BY <2>1, <2>2, <2>3 DEF Inv
<1>3. ASSUME NEW j \in Job, Cancel(j) PROVE Inv'
  <2>1. TypeOK'
    BY <1>1, <1>3 DEF Cancel, TypeOK, Live, Ended
  <2>2. BatchOK' /\ InBatch' = InBatch
    BY <1>1, <1>3 DEF Cancel, BatchOK, InBatch
  <2>3. Unused'
    BY <1>1, <1>3, <2>2 DEF Cancel, Unused, TypeOK
  <2> QED BY <2>1, <2>2, <2>3 DEF Inv
<1>4. ASSUME NEW j \in Job, Time(j) PROVE Inv'
  <2>1. due' \in Seq(Job) /\ expired' \in SUBSET timed /\ stale' \in SUBSET claimed
    <3>1. CASE GetsDue(j)
      <4>1. Append(due, j) \in Seq(Job)
        BY <1>1 DEF TypeOK
      <4> QED BY <1>1, <3>1, <4>1 DEF GetsDue, TypeOK
    <3>2. CASE GetsStale(j)
      BY <1>1, <3>2 DEF GetsStale, TypeOK
    <3>3. CASE Expires(j)
      BY <1>1, <3>3 DEF Expires, TypeOK
    <3> QED BY <1>4, <3>1, <3>2, <3>3 DEF Time
  <2>2. UNCHANGED <<row, claimed, watchdog, crashes, history>>
    BY <1>4 DEF Time, GetsDue, GetsStale, Expires
  <2>3. TypeOK'
    BY <1>1, <2>1, <2>2 DEF TypeOK
  <2>4. BatchOK' /\ InBatch' = InBatch
    BY <1>1, <2>2 DEF BatchOK, InBatch
  <2>5. Unused'
    BY <1>1, <2>2, <2>4 DEF Unused
  <2> QED BY <2>3, <2>4, <2>5 DEF Inv
<1>5. ASSUME Claim PROVE Inv'
  <2>1. /\ batch' \in Seq(Job)
        /\ InBatch' \subseteq Claimable
        /\ claimed' = claimed \cup InBatch'
        /\ stale' = stale \ InBatch'
        /\ status' = [j \in Job |-> IF j \in InBatch' THEN "running" ELSE status[j]]
        /\ BatchOK'
    BY <1>5, ClaimFacts
  <2>2. Claimable \subseteq active /\ active \subseteq Job
    BY <1>1 DEF Claimable, TypeOK
  <2>3. TypeOK'
    BY <1>1, <1>5, <2>1, <2>2 DEF Claim, TypeOK, Live
  <2>4. Unused'
    <3> SUFFICES ASSUME NEW j \in Job, status'[j] = "none"
                 PROVE  /\ j \notin (active \cup InBatch \cup timed \cup stopped)'
                        /\ run_count'[j] = 0
                        /\ ticks'[j] = 0
                        /\ overdue'[j] = 0
      BY DEF Unused
    <3>1. status[j] = "none" /\ j \notin InBatch'
      BY <2>1
    <3>2. UNCHANGED <<active, timed, stopped, run_count, ticks, overdue>>
      BY <1>5 DEF Claim
    <3> QED BY <1>1, <3>1, <3>2 DEF Unused
  <2> QED BY <2>1, <2>3, <2>4 DEF Inv
<1>6. ASSUME Tick PROVE Inv'
  <2>1. Head(batch) \in Job /\ Head(batch) \in InBatch
    BY <1>6, HeadOfBatch DEF Tick
  <2>2. TypeOK'
    <3>1. /\ ticks \in [Job -> Nat] /\ late \in [Job -> Nat] /\ overdue \in [Job -> Nat]
          /\ ticks' = CountIf(Limited(Head(batch)), Head(batch), ticks)
          /\ late' = CountIf(Head(batch) \in stopped, Head(batch), late)
          /\ overdue' = CountIf(Head(batch) \in expired, Head(batch), overdue)
      BY <1>1, <1>6 DEF Tick, TypeOK
    <3>2. ticks' \in [Job -> Nat] /\ late' \in [Job -> Nat] /\ overdue' \in [Job -> Nat]
      BY <2>1, <3>1 DEF CountIf
    <3> QED BY <1>1, <1>6, <3>2 DEF Tick, TypeOK
  <2>3. BatchOK' /\ InBatch' = InBatch
    BY <1>1, <1>6 DEF Tick, BatchOK, InBatch
  <2>4. Unused'
    BY <1>1, <1>6, <2>1, <2>3 DEF Tick, Unused, CountIf, TypeOK
  <2> QED BY <2>2, <2>3, <2>4 DEF Inv
<1>7. ASSUME NEW success \in BOOLEAN, Record(success) PROVE Inv'
  <2> DEFINE j == Head(batch)
  <2>1. /\ j \in Job
        /\ j \in InBatch
        /\ batch' \in Seq(Job)
        /\ InBatch' = InBatch \ {j}
        /\ pc' \in {"asleep", "ticking"}
        /\ BatchOK'
    BY <1>7, RecordFacts
  <2>2. /\ CountRun(j, success)
        /\ Released(j)
        /\ UNCHANGED <<max_runs, timed, expired, crashes, history>>
    BY <1>7 DEF Record
  <2>3. PICK st \in Outcomes(j, success) :
          /\ status' = [status EXCEPT ![j] = st]
          /\ IF st \in Ended
               THEN active' = active \ {j} /\ UNCHANGED due
               ELSE NoLongerDue(j) /\ UNCHANGED active
    BY <1>7 DEF Record
  <2> HIDE DEF j
  <2>4. st \in {"running", "completed", "failed"}
    BY DEF Outcomes
  <2>5. active' \in SUBSET Job /\ active' \subseteq active
    BY <1>1, <2>3 DEF TypeOK
  <2>6. due' \in Seq(Job)
    BY <1>1, <2>1, <2>3, DueTypes DEF TypeOK
  <2>7. run_count' \in [Job -> Nat] /\ failure_count' \in [Job -> Nat]
    BY <1>1, <2>1, <2>2 DEF TypeOK, CountRun, CountIf
  <2>8. claimed' \in SUBSET Job /\ stale' \in SUBSET claimed'
    BY <1>1, <2>2 DEF TypeOK, Released
  <2>9. TypeOK'
    BY <1>1, <2>1, <2>2, <2>3, <2>4, <2>5, <2>6, <2>7, <2>8 DEF TypeOK, Live, Ended
  <2>10. Unused'
    <3> SUFFICES ASSUME NEW k \in Job, status'[k] = "none"
                 PROVE  /\ k \notin (active \cup InBatch \cup timed \cup stopped)'
                        /\ run_count'[k] = 0
                        /\ ticks'[k] = 0
                        /\ overdue'[k] = 0
      BY DEF Unused
    <3>1. k # j /\ status[k] = "none"
      BY <1>1, <2>1, <2>3, <2>4 DEF TypeOK
    <3>2. run_count'[k] = run_count[k]
      BY <1>1, <2>1, <2>2, <3>1 DEF TypeOK, CountRun, CountIf
    <3> QED BY <1>1, <2>1, <2>2, <2>5, <3>1, <3>2 DEF Unused
  <2> QED BY <2>1, <2>9, <2>10 DEF Inv
<1>8. ASSUME Dies PROVE Inv'
  BY <1>1, <1>8 DEF Dies, Inv, TypeOK, BatchOK, Unused, InBatch
<1>9. ASSUME Crash PROVE Inv'
  <2>1. TypeOK'
    <3>1. crashes' \in 0..MaxCrashes
      BY <1>1, <1>9, TimerAssumption DEF Crash, TypeOK
    <3> QED BY <1>1, <1>9, <3>1 DEF Crash, TypeOK
  <2>2. BatchOK' /\ InBatch' = {}
    BY <1>9 DEF Crash, BatchOK, InBatch
  <2>3. Unused'
    BY <1>1, <1>9, <2>2 DEF Crash, Unused
  <2> QED BY <2>1, <2>2, <2>3 DEF Inv
<1>10. ASSUME UNCHANGED vars PROVE Inv'
  <2>1. TypeOK'
    BY <1>1, <1>10 DEF TypeOK
  <2>2. BatchOK' /\ InBatch' = InBatch
    BY <1>1, <1>10 DEF BatchOK, InBatch
  <2>3. Unused'
    BY <1>1, <1>10, <2>2 DEF Unused
  <2> QED BY <2>1, <2>2, <2>3 DEF Inv
<1> QED BY <1>2, <1>3, <1>4, <1>5, <1>6, <1>7, <1>8, <1>9, <1>10
        DEF Next, Tool, Watchdog

LEMMA InvInit == Init => Inv
BY TimerAssumption DEF Init, Inv, TypeOK, BatchOK, Unused, InBatch, Live, Ended

LEMMA Invariant == SafeSpec => []Inv
BY InvInit, InvStep, PTL DEF SafeSpec

(* The rows, the watchdog and its batch keep their types.                  *)
THEOREM TimerTypesHold == SafeSpec => []TypeOK
<1>1. Inv => TypeOK
  BY DEF Inv
<1> QED BY <1>1, Invariant, PTL
-----------------------------------------------------------------------------
(* The cases of the inductive steps below: time and the end of the         *)
(* watchdog change neither rows nor batch.                                 *)
LEMMA Steps ==
    ASSUME Inv, [Next]_vars
    PROVE  \/ \E j \in Job : Create(j)
           \/ \E j \in Job : Cancel(j)
           \/ Claim
           \/ Tick
           \/ \E success \in BOOLEAN : Record(success)
           \/ Crash
           \/ /\ UNCHANGED <<row, claimed, batch, InBatch, crashes, history>>
              /\ expired \subseteq expired'
              /\ pc' = pc \/ (pc = "telling" /\ pc' = "dead")
<1> USE DEF vars, row, time, watchdog, history
<1>1. ASSUME NEW j \in Job, Time(j)
      PROVE  /\ UNCHANGED <<row, claimed, batch, InBatch, crashes, history, pc>>
             /\ expired \subseteq expired'
  BY <1>1 DEF Time, GetsDue, GetsStale, Expires, InBatch
<1>2. ASSUME Dies
      PROVE  /\ UNCHANGED <<row, claimed, batch, InBatch, crashes, history, expired>>
             /\ pc = "telling" /\ pc' = "dead"
  BY <1>2 DEF Dies, InBatch
<1>3. ASSUME UNCHANGED vars
      PROVE  UNCHANGED <<row, claimed, batch, InBatch, crashes, history, expired, pc>>
  BY <1>3 DEF InBatch
<1> QED BY <1>1, <1>2, <1>3 DEF Next, Tool, Watchdog

(* max_runs is reached only by the run that ends the job.                  *)
LEMMA LimitStep == Inv /\ Inv' /\ RunsWithinLimit /\ [Next]_vars => RunsWithinLimit'
<1> SUFFICES ASSUME Inv, Inv', RunsWithinLimit, [Next]_vars, NEW j \in Job, Limited(j)'
             PROVE  /\ run_count'[j] <= max_runs'[j]
                    /\ j \in (active \cup InBatch)' => run_count'[j] < max_runs'[j]
  BY DEF RunsWithinLimit
<1> USE DEF row, history, Limited
<1>1. /\ run_count \in [Job -> Nat] /\ max_runs \in [Job -> Nat]
      /\ run_count' \in [Job -> Nat] /\ max_runs' \in [Job -> Nat]
      /\ active \subseteq Job
  <2>1. RunLimits \cup {0} \subseteq Nat
    BY TimerAssumption
  <2>2. max_runs \in [Job -> RunLimits \cup {0}] /\ max_runs' \in [Job -> RunLimits \cup {0}]
    BY DEF Inv, TypeOK
  <2> QED BY <2>1, <2>2 DEF Inv, TypeOK
<1>2. /\ max_runs[j] > 0 => run_count[j] <= max_runs[j]
      /\ max_runs[j] > 0 /\ j \in active \cup InBatch => run_count[j] < max_runs[j]
  BY DEF RunsWithinLimit
<1>3. CASE \E k \in Job : Create(k)
  <2>1. PICK k \in Job : Create(k)
    BY <1>3
  <2>2. InBatch' = InBatch /\ run_count' = run_count /\ active' = active \cup {k}
    BY <2>1 DEF Create, watchdog, InBatch
  <2>3. CASE j = k
    BY <1>1, <2>1, <2>2, <2>3 DEF Create, Inv, Unused
  <2>4. CASE j # k
    BY <1>1, <1>2, <2>1, <2>2, <2>4 DEF Create
  <2> QED BY <2>3, <2>4
<1>4. CASE \E k \in Job : Cancel(k)
  <2>1. InBatch' = InBatch /\ active' \subseteq active
    BY <1>4 DEF Cancel, watchdog, InBatch
  <2> QED BY <1>1, <1>2, <1>4, <2>1 DEF Cancel
<1>5. CASE Claim
  <2>1. InBatch' \subseteq active
    BY <1>5, ClaimFacts DEF Claimable
  <2> QED BY <1>1, <1>2, <1>5, <2>1 DEF Claim
<1>6. CASE Tick
  <2>1. InBatch' = InBatch
    BY <1>6 DEF Tick, InBatch
  <2> QED BY <1>1, <1>2, <1>6, <2>1 DEF Tick
<1>7. CASE \E success \in BOOLEAN : Record(success)
  <2>1. PICK success \in BOOLEAN : Record(success)
    BY <1>7
  <2> DEFINE h == Head(batch)
  <2>2. h \in InBatch /\ h \in Job /\ InBatch' = InBatch \ {h}
    BY <2>1, RecordFacts
  <2>3. max_runs' = max_runs /\ CountRun(h, success)
    BY <2>1 DEF Record
  <2>4. PICK st \in Outcomes(h, success) :
           IF st \in Ended THEN active' = active \ {h} ELSE UNCHANGED active
    BY <2>1 DEF Record
  <2> HIDE DEF h
  <2>5. CASE j = h
    <3>1. run_count[j] < max_runs[j] /\ run_count'[j] = run_count[j] + 1
      BY <1>1, <1>2, <2>2, <2>3, <2>5 DEF CountRun, CountIf
    <3>2. ASSUME j \in active' PROVE ~LastRun(j)
      BY <2>4, <2>5, <3>2 DEF Outcomes, Ended
    <3> QED BY <1>1, <2>2, <2>3, <2>5, <3>1, <3>2 DEF LastRun
  <2>6. CASE j # h
    <3>1. run_count'[j] = run_count[j] /\ active' \subseteq active
      BY <1>1, <2>2, <2>3, <2>4, <2>6 DEF CountRun, CountIf
    <3> QED BY <1>2, <2>2, <2>3, <3>1
  <2> QED BY <2>5, <2>6
<1>8. CASE Crash
  <2>1. InBatch' = {}
    BY <1>8 DEF Crash, InBatch
  <2> QED BY <1>1, <1>2, <1>8, <2>1 DEF Crash
<1>9. CASE UNCHANGED <<row, claimed, batch, InBatch, crashes, history>>
  BY <1>2, <1>9
<1> QED BY <1>3, <1>4, <1>5, <1>6, <1>7, <1>8, <1>9, Steps

(* A job runs at most max_runs times, as recorded, whatever is cancelled,  *)
(* fails or crashes, and a job with no run left is not active.             *)
THEOREM RunsAreLimited == SafeSpec => []RunsWithinLimit
<1>1. Init => RunsWithinLimit
  BY TimerAssumption DEF Init, RunsWithinLimit, Limited, InBatch
<1> QED BY <1>1, LimitStep, Invariant, PTL DEF SafeSpec
-----------------------------------------------------------------------------
(* Only a crash leaves a claim behind.                                     *)
LEMMA ClaimsStep == Inv /\ ClaimsAreHeld /\ [Next]_vars => ClaimsAreHeld'
<1> SUFFICES ASSUME Inv, ClaimsAreHeld, [Next]_vars PROVE ClaimsAreHeld'
  OBVIOUS
<1> USE DEF row, history, ClaimsAreHeld
<1>1. TypeOK /\ Unused
  BY DEF Inv
<1>2. CASE \E k \in Job : Create(k)
  <2>1. PICK k \in Job : Create(k)
    BY <1>2
  <2>2. k \notin InBatch
    BY <1>1, <2>1 DEF Create, Unused
  <2> QED BY <2>1, <2>2 DEF Create, watchdog, InBatch
<1>3. CASE \E k \in Job : Cancel(k)
  <2>1. InBatch' = InBatch
    BY <1>3 DEF Cancel, watchdog, InBatch
  <2> QED BY <1>3, <2>1 DEF Cancel
<1>4. CASE Claim
  <2>1. /\ InBatch = {} /\ InBatch' \subseteq active
        /\ claimed' = claimed \cup InBatch'
    BY <1>4, ClaimFacts DEF Claimable
  <2> QED BY <1>4, <2>1 DEF Claim
<1>5. CASE Tick
  <2>1. InBatch' = InBatch
    BY <1>5 DEF Tick, InBatch
  <2> QED BY <1>5, <2>1 DEF Tick
<1>6. CASE \E success \in BOOLEAN : Record(success)
  <2>1. PICK success \in BOOLEAN : Record(success)
    BY <1>6
  <2>2. InBatch' = InBatch \ {Head(batch)}
    BY <2>1, RecordFacts
  <2>3. /\ claimed' = claimed \ {Head(batch)}
        /\ active' = active \/ active' = active \ {Head(batch)}
        /\ crashes' = crashes
    BY <2>1 DEF Record, Released
  <2> QED BY <2>2, <2>3
<1>7. CASE Crash
  <2>1. InBatch' = {} /\ crashes' # 0
    BY <1>1, <1>7 DEF Crash, InBatch, TypeOK
  <2> QED BY <2>1
<1>8. CASE UNCHANGED <<row, claimed, batch, InBatch, crashes, history>>
  BY <1>8
<1> QED BY <1>2, <1>3, <1>4, <1>5, <1>6, <1>7, <1>8, Steps

(* A job is claimed while it waits for its tick or its result, and no      *)
(* longer: nothing but a crash makes it wait for its claim to get stale.   *)
THEOREM ClaimsAreReleased == SafeSpec => []ClaimsAreHeld
<1>1. Init => ClaimsAreHeld
  BY DEF Init, ClaimsAreHeld, InBatch
<1> QED BY <1>1, ClaimsStep, Invariant, PTL DEF SafeSpec
-----------------------------------------------------------------------------
(* The published tick of the head of the batch is the only one that is not *)
(* recorded, but for those a crash has cut off.                            *)
OnlyLimitedCount ==
    \A j \in Job : /\ Limited(j) \/ ticks[j] = 0
                   /\ Limited(j) /\ Unrecorded(j) => run_count[j] < ticks[j]

TicksInv == TicksAreRecorded /\ OnlyLimitedCount

LEMMA TicksStep == Inv /\ TicksInv /\ [Next]_vars => TicksInv'
<1> SUFFICES ASSUME Inv, TicksInv, [Next]_vars, NEW j \in Job
             PROVE  /\ run_count'[j] <= ticks'[j]
                    /\ ticks'[j] <= run_count'[j] + crashes'
                                      + (IF Unrecorded(j)' THEN 1 ELSE 0)
                    /\ Limited(j)' \/ ticks'[j] = 0
                    /\ Limited(j)' /\ Unrecorded(j)' => run_count'[j] < ticks'[j]
  BY DEF TicksInv, TicksAreRecorded, OnlyLimitedCount
<1> USE DEF row, history
<1>1. /\ run_count \in [Job -> Nat] /\ ticks \in [Job -> Nat] /\ crashes \in Nat
      /\ run_count[j] \in Nat /\ ticks[j] \in Nat
      /\ run_count[j] <= ticks[j]
      /\ ticks[j] <= run_count[j] + crashes + (IF Unrecorded(j) THEN 1 ELSE 0)
      /\ Limited(j) \/ ticks[j] = 0
      /\ Limited(j) /\ Unrecorded(j) => run_count[j] < ticks[j]
  BY TimerAssumption DEF Inv, TypeOK, TicksInv, TicksAreRecorded, OnlyLimitedCount
<1>2. CASE \E k \in Job : Create(k)
  <2>1. PICK k \in Job : Create(k)
    BY <1>2
  <2>2. /\ UNCHANGED <<run_count, ticks, crashes>>
        /\ Unrecorded(j)' <=> Unrecorded(j)
    BY <2>1 DEF Create, watchdog, Unrecorded
  <2>3. CASE j = k
    <3>1. status[j] = "none" /\ j \notin InBatch /\ run_count[j] = 0 /\ ticks[j] = 0
      BY <2>1, <2>3 DEF Create, Inv, Unused
    <3>2. ~Unrecorded(j)
      BY <3>1, HeadOfBatch DEF Unrecorded
    <3> QED BY <1>1, <2>2, <3>1, <3>2
  <2>4. CASE j # k
    <3>1. Limited(j)' <=> Limited(j)
      BY <2>1, <2>4 DEF Create, Limited, Inv, TypeOK
    <3> QED BY <1>1, <2>2, <3>1
  <2> QED BY <2>3, <2>4
<1>3. CASE \E k \in Job : Cancel(k)
  BY <1>1, <1>3 DEF Cancel, watchdog, Unrecorded, Limited
<1>4. CASE Claim
  <2>1. ~Unrecorded(j) /\ ~Unrecorded(j)'
    BY <1>4 DEF Claim, Unrecorded
  <2> QED BY <1>1, <1>4, <2>1 DEF Claim, Limited
<1>5. CASE Tick
  <2>1. /\ ~Unrecorded(j)
        /\ Unrecorded(j)' <=> j = Head(batch)
        /\ UNCHANGED <<run_count, crashes, max_runs>>
        /\ ticks' = CountIf(Limited(Head(batch)), Head(batch), ticks)
    BY <1>5 DEF Tick, Unrecorded
  <2>2. CASE j = Head(batch) /\ Limited(j)
    <3>1. ticks'[j] = ticks[j] + 1
      BY <1>1, <2>1, <2>2 DEF CountIf
    <3> QED BY <1>1, <2>1, <2>2, <3>1 DEF Limited
  <2>3. CASE ~(j = Head(batch) /\ Limited(j))
    <3>1. ticks'[j] = ticks[j]
      BY <1>1, <2>1, <2>3 DEF CountIf
    <3>2. ticks[j] <= run_count[j] + crashes
      BY <1>1, <2>1
    <3>3. /\ run_count'[j] = run_count[j] /\ crashes' = crashes
          /\ Limited(j)' <=> Limited(j)
          /\ ~(Limited(j)' /\ Unrecorded(j)')
      BY <2>1, <2>3 DEF Limited
    <3> QED BY <1>1, <3>1, <3>2, <3>3
  <2> QED BY <2>2, <2>3
<1>6. CASE \E success \in BOOLEAN : Record(success)
  <2>1. PICK success \in BOOLEAN : Record(success)
    BY <1>6
  <2>2. /\ Unrecorded(j) <=> j = Head(batch)
        /\ ~Unrecorded(j)'
        /\ UNCHANGED <<ticks, crashes, max_runs>>
        /\ run_count' = CountIf(Limited(Head(batch)), Head(batch), run_count)
    BY <2>1, RecordFacts DEF Record, Unrecorded, CountRun
  <2>3. CASE j = Head(batch) /\ Limited(j)
    <3>1. run_count'[j] = run_count[j] + 1
      BY <1>1, <2>2, <2>3 DEF CountIf
    <3>2. run_count[j] < ticks[j]
      BY <1>1, <2>2, <2>3
    <3> QED BY <1>1, <2>2, <2>3, <3>1 DEF Limited
  <2>4. CASE ~(j = Head(batch) /\ Limited(j))
    <3>1. run_count'[j] = run_count[j]
      BY <1>1, <2>2, <2>4 DEF CountIf
    <3> QED BY <1>1, <2>2, <2>4, <3>1 DEF Limited
  <2> QED BY <2>3, <2>4
<1>7. CASE Crash
  <2>1. /\ ~Unrecorded(j)' /\ crashes' = crashes + 1
        /\ UNCHANGED <<ticks, run_count, max_runs>>
    BY <1>7 DEF Crash, Unrecorded
  <2> QED BY <1>1, <2>1 DEF Limited
<1>8. CASE /\ UNCHANGED <<row, claimed, batch, InBatch, crashes, history>>
           /\ pc' = pc \/ (pc = "telling" /\ pc' = "dead")
  BY <1>1, <1>8 DEF Unrecorded, Limited
<1> QED BY <1>2, <1>3, <1>4, <1>5, <1>6, <1>7, <1>8, Steps

(* Every tick is counted once; a crash hides at most one from the count.   *)
THEOREM EveryTickIsRecorded == SafeSpec => []TicksAreRecorded
<1>1. Init => TicksInv
  BY DEF Init, TicksInv, TicksAreRecorded, OnlyLimitedCount, Unrecorded
<1>2. TicksInv => TicksAreRecorded
  BY DEF TicksInv
<1> QED BY <1>1, <1>2, TicksStep, Invariant, PTL DEF SafeSpec
-----------------------------------------------------------------------------
(* A job that has ticked late is not about to tick again: the cancelled    *)
(* one is inactive, the overdue one ends with the result of its tick.      *)
LateInv == \A j \in Job :
    /\ late[j] <= 1
    /\ j \in stopped => j \notin active
    /\ j \notin stopped => late[j] = 0
    /\ j \in InBatch /\ ~Unrecorded(j) => late[j] = 0

OverdueInv == \A j \in Job :
    /\ overdue[j] <= 1 + crashes
    /\ j \notin expired => overdue[j] = 0
    /\ j \in active \cup InBatch /\ ~Unrecorded(j) => overdue[j] <= crashes

LEMMA LateStep == Inv /\ LateInv /\ [Next]_vars => LateInv'
<1> SUFFICES ASSUME Inv, LateInv, [Next]_vars, NEW j \in Job
             PROVE  /\ late'[j] <= 1
                    /\ j \in stopped' => j \notin active'
                    /\ j \notin stopped' => late'[j] = 0
                    /\ j \in InBatch' /\ ~Unrecorded(j)' => late'[j] = 0
  BY DEF LateInv
<1> USE DEF row, history
<1>1. /\ late \in [Job -> Nat] /\ late[j] \in Nat
      /\ late[j] <= 1
      /\ j \in stopped => j \notin active
      /\ j \notin stopped => late[j] = 0
      /\ j \in InBatch /\ ~Unrecorded(j) => late[j] = 0
  BY DEF Inv, TypeOK, LateInv
<1>2. CASE \E k \in Job : Create(k)
  <2>1. PICK k \in Job : Create(k)
    BY <1>2
  <2>2. k \notin stopped
    BY <2>1 DEF Create, Inv, Unused
  <2> QED BY <1>1, <2>1, <2>2 DEF Create, watchdog, InBatch, Unrecorded
<1>3. CASE \E k \in Job : Cancel(k)
  BY <1>1, <1>3 DEF Cancel, watchdog, InBatch, Unrecorded
<1>4. CASE Claim
  <2>1. InBatch' \subseteq active
    BY <1>4, ClaimFacts DEF Claimable
  <2> QED BY <1>1, <1>4, <2>1 DEF Claim
<1>5. CASE Tick
  <2>1. /\ ~Unrecorded(j)
        /\ Unrecorded(j)' <=> j = Head(batch)
        /\ UNCHANGED <<stopped, active>> /\ InBatch' = InBatch
        /\ Head(batch) \in InBatch
        /\ late' = CountIf(Head(batch) \in stopped, Head(batch), late)
    BY <1>5, HeadOfBatch DEF Tick, Unrecorded, InBatch
  <2>2. CASE j = Head(batch) /\ j \in stopped
    <3>1. late'[j] = late[j] + 1 /\ late[j] = 0
      BY <1>1, <2>1, <2>2 DEF CountIf
    <3> QED BY <1>1, <2>1, <2>2, <3>1
  <2>3. CASE ~(j = Head(batch) /\ j \in stopped)
    <3>1. late'[j] = late[j]
      BY <1>1, <2>1, <2>3 DEF CountIf
    <3> QED BY <1>1, <2>1, <2>3, <3>1
  <2> QED BY <2>2, <2>3
<1>6. CASE \E success \in BOOLEAN : Record(success)
  <2>1. PICK success \in BOOLEAN : Record(success)
    BY <1>6
  <2>2. /\ InBatch' = InBatch \ {Head(batch)}
        /\ Unrecorded(j) <=> j = Head(batch)
        /\ UNCHANGED <<stopped, late>>
        /\ active' \subseteq active
    BY <2>1, RecordFacts DEF Record, Unrecorded
  <2> QED BY <1>1, <2>2
<1>7. CASE Crash
  <2>1. InBatch' = {}
    BY <1>7 DEF Crash, InBatch
  <2> QED BY <1>1, <1>7, <2>1 DEF Crash
<1>8. CASE /\ UNCHANGED <<row, claimed, batch, InBatch, crashes, history>>
           /\ pc' = pc \/ (pc = "telling" /\ pc' = "dead")
  BY <1>1, <1>8 DEF Unrecorded
<1> QED BY <1>2, <1>3, <1>4, <1>5, <1>6, <1>7, <1>8, Steps

LEMMA OverdueStep == Inv /\ OverdueInv /\ [Next]_vars => OverdueInv'
<1> SUFFICES ASSUME Inv, OverdueInv, [Next]_vars, NEW j \in Job
             PROVE  /\ overdue'[j] <= 1 + crashes'
                    /\ j \notin expired' => overdue'[j] = 0
                    /\ j \in (active \cup InBatch)' /\ ~Unrecorded(j)'
                          => overdue'[j] <= crashes'
  BY DEF OverdueInv
<1> USE DEF row, history
<1>1. /\ overdue \in [Job -> Nat] /\ overdue[j] \in Nat /\ crashes \in Nat
      /\ overdue[j] <= 1 + crashes
      /\ j \notin expired => overdue[j] = 0
      /\ j \in active \cup InBatch /\ ~Unrecorded(j) => overdue[j] <= crashes
  BY TimerAssumption DEF Inv, TypeOK, OverdueInv
<1>2. CASE \E k \in Job : Create(k)
  <2>1. PICK k \in Job : Create(k)
    BY <1>2
  <2>2. /\ UNCHANGED <<overdue, crashes, expired>>
        /\ Unrecorded(j)' <=> Unrecorded(j)
        /\ InBatch' = InBatch /\ active' = active \cup {k}
        /\ overdue[k] = 0
    BY <2>1 DEF Create, time, watchdog, InBatch, Unrecorded, Inv, Unused
  <2> QED BY <1>1, <2>2
<1>3. CASE \E k \in Job : Cancel(k)
  <2>1. /\ UNCHANGED <<overdue, crashes, expired>>
        /\ Unrecorded(j)' <=> Unrecorded(j)
        /\ InBatch' = InBatch /\ active' \subseteq active
    BY <1>3 DEF Cancel, watchdog, InBatch, Unrecorded
  <2> QED BY <1>1, <2>1
<1>4. CASE Claim
  <2>1. InBatch' \subseteq active /\ ~Unrecorded(j)
    BY <1>4, ClaimFacts DEF Claimable, Claim, Unrecorded
  <2> QED BY <1>1, <1>4, <2>1 DEF Claim
<1>5. CASE Tick
  <2>1. /\ ~Unrecorded(j)
        /\ Unrecorded(j)' <=> j = Head(batch)
        /\ UNCHANGED <<crashes, expired, active>> /\ InBatch' = InBatch
        /\ Head(batch) \in InBatch
        /\ overdue' = CountIf(Head(batch) \in expired, Head(batch), overdue)
    BY <1>5, HeadOfBatch DEF Tick, time, Unrecorded, InBatch
  <2>2. CASE j = Head(batch) /\ j \in expired
    <3>1. overdue'[j] = overdue[j] + 1
      BY <1>1, <2>1, <2>2 DEF CountIf
    <3> QED BY <1>1, <2>1, <2>2, <3>1
  <2>3. CASE ~(j = Head(batch) /\ j \in expired)
    <3>1. overdue'[j] = overdue[j]
      BY <1>1, <2>1, <2>3 DEF CountIf
    <3> QED BY <1>1, <2>1, <2>3, <3>1
  <2> QED BY <2>2, <2>3
<1>6. CASE \E success \in BOOLEAN : Record(success)
  <2>1. PICK success \in BOOLEAN : Record(success)
    BY <1>6
  <2> DEFINE h == Head(batch)
  <2>2. /\ InBatch' = InBatch \ {h}
        /\ Unrecorded(j) <=> j = h
        /\ UNCHANGED <<overdue, crashes, expired>>
        /\ h \in Job
    BY <2>1, RecordFacts DEF Record, Unrecorded
  <2>3. PICK st \in Outcomes(h, success) :
           /\ active' \subseteq active
           /\ st \in Ended => active' = active \ {h}
    BY <2>1 DEF Record
  <2> HIDE DEF h
  <2>4. h \in expired => st \in Ended
    BY <2>3 DEF Outcomes, Ended
  <2>5. CASE j = h /\ j \in expired
    BY <1>1, <2>2, <2>3, <2>4, <2>5
  <2>6. CASE j = h /\ j \notin expired
    BY <1>1, <2>2, <2>6
  <2>7. CASE j # h
    BY <1>1, <2>2, <2>3, <2>7
  <2> QED BY <2>5, <2>6, <2>7
<1>7. CASE Crash
  <2>1. InBatch' = {} /\ crashes' = crashes + 1
    BY <1>7 DEF Crash, InBatch
  <2> QED BY <1>1, <1>7, <2>1 DEF Crash, time
<1>8. CASE /\ UNCHANGED <<row, claimed, batch, InBatch, crashes, history>>
           /\ expired \subseteq expired'
           /\ pc' = pc \/ (pc = "telling" /\ pc' = "dead")
  <2>1. Unrecorded(j)' <=> Unrecorded(j)
    BY <1>8 DEF Unrecorded
  <2> QED BY <1>1, <1>8, <2>1
<1> QED BY <1>2, <1>3, <1>4, <1>5, <1>6, <1>7, <1>8, Steps

(* A cancelled job ticks at most once more, one past its deadline at most  *)
(* once more per life of the process.                                      *)
THEOREM LateTicksAreFew == SafeSpec => []AtMostOneLateTick
<1>1. Init => LateInv /\ OverdueInv
  BY DEF Init, LateInv, OverdueInv, InBatch, Unrecorded
<1>2. LateInv /\ OverdueInv => AtMostOneLateTick
  BY DEF LateInv, OverdueInv, AtMostOneLateTick
<1> QED BY <1>1, <1>2, LateStep, OverdueStep, Invariant, PTL DEF SafeSpec
=============================================================================

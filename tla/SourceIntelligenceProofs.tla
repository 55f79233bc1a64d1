---------------------- MODULE SourceIntelligenceProofs ----------------------
(***************************************************************************)
(* Proofs about SourceIntelligence: typing, no result of an earlier run of  *)
(* the batch is shown for the current one, and a conclusion is final.       *)
(***************************************************************************)
EXTENDS SourceIntelligence, TLAPS

\* Generations only grow, the current row was stamped in the past, and a job at work on
\* the current row began after the row's results were final.
Generations ==
    /\ \A j \in queue : j.generation <= row.generation
    /\ \A p \in Processes : /\ analyst[p].job.generation <= row.generation
                            /\ scheduler[p].generation <= row.generation

Stamped == row.finishedAt <= now /\ (row.settled => row.finishedAt # 0)

Begun ==
    \A p \in Processes :
       analyst[p].pc \in {"child", "finish"} /\ analyst[p].job.generation = row.generation
          => row.finishedAt # 0 /\ row.finishedAt <= row.startedAt

GivenUp == \A p \in Processes : analyst[p].pc = "giveUp" => analyst[p].verdict = "failed"

IntelligenceInv ==
    TypeOK /\ Generations /\ Stamped /\ Begun /\ GivenUp /\ FreshResult

-----------------------------------------------------------------------------
(* Types *)

\* Dropping the microseconds stays within the natural numbers.
LEMMA InMsType ==
    ASSUME NEW t \in Nat
    PROVE  InMs(t) \in Nat
<1>1. MsLength \in Nat /\ MsLength > 0
  BY IntelligenceAssumption
<1>2. t % MsLength \in 0..MsLength - 1 /\ t % MsLength <= t
  BY <1>1
<1>3. QED
  BY <1>2 DEF InMs

\* The null records are records.
LEMMA NullTypes == NoClaim \in ClaimRecord /\ NoWork \in WorkRecord /\ NoJob \in Job
<1>1. NoJob \in Job
  BY IntelligenceAssumption DEF NoJob, Job
<1>2. QED
  BY <1>1 DEF NoClaim, NoWork, ClaimRecord, WorkRecord, Concluded

\* Replacing the program counter, the job or the verdict of a process keeps its type.
LEMMA WorkType ==
    ASSUME NEW r \in WorkRecord, NEW v \in Concluded, NEW j \in Job,
           NEW c \in {"idle", "mark", "child", "finish", "publish", "giveUp"}
    PROVE  /\ r.job \in Job /\ r.verdict \in Concluded
           /\ [r EXCEPT !.pc = c] \in WorkRecord
           /\ [r EXCEPT !.pc = c, !.verdict = v] \in WorkRecord
           /\ [r EXCEPT !.pc = c, !.job = j] \in WorkRecord
BY DEF WorkRecord

\* A failed attempt requeues the job with one attempt more, or gives it up.
LEMMA FailEffect ==
    ASSUME TypeOK, NEW p \in Processes, Fail(p)
    PROVE  \/ /\ queue' = queue \cup {[analyst[p].job EXCEPT !.made = @ + 1]}
              /\ [analyst[p].job EXCEPT !.made = @ + 1] \in Job
              /\ analyst' = [analyst EXCEPT ![p] = NoWork]
           \/ /\ analyst' = [analyst EXCEPT ![p] =
                      [analyst[p] EXCEPT !.pc = "giveUp", !.verdict = "failed"]]
              /\ UNCHANGED queue
<1>1. analyst[p] \in WorkRecord /\ Attempts \in Nat
  BY IntelligenceAssumption DEF TypeOK
<1>. analyst[p].job \in Job
  BY <1>1 DEF WorkRecord
<1>2. analyst[p].job.made + 1 < Attempts => [analyst[p].job EXCEPT !.made = @ + 1] \in Job
  BY <1>1 DEF Job
<1>3. QED
  BY <1>2 DEF Fail, HasAnother, TypeOK

\* A mishap stays within its bound.
LEMMA MishapType ==
    ASSUME TypeOK, Mishap \/ UNCHANGED mishaps
    PROVE  mishaps' \in 0..MaxMishaps
<1>1. MaxMishaps \in Nat /\ mishaps \in 0..MaxMishaps
  BY IntelligenceAssumption DEF TypeOK
<1>2. QED
  BY <1>1 DEF Mishap

LEMMA FailType ==
    ASSUME TypeOK, NEW p \in Processes, Fail(p)
    PROVE  queue' \subseteq Job /\ analyst' \in [Processes -> WorkRecord]
<1>1. [analyst[p] EXCEPT !.pc = "giveUp", !.verdict = "failed"] \in WorkRecord
  BY NullTypes, WorkType DEF TypeOK, Concluded
<1>2. QED
  BY <1>1, FailEffect, NullTypes DEF TypeOK

\* Saving a verdict changes the status and the time of the row, and the clock goes on.
LEMMA SaveEffect ==
    ASSUME TypeOK, NEW p \in Processes, Save(p)
    PROVE  /\ row' \in RowRecord /\ now' \in Nat /\ now' >= now
           /\ row'.status = analyst[p].verdict /\ row'.settled = row.settled
           /\ row'.finishedAt = row.finishedAt /\ row'.startedAt = row.startedAt
           /\ row'.generation = row.generation
<1>1. analyst[p].verdict \in Concluded /\ now \in Nat /\ row \in RowRecord /\ MsLength \in Nat
  BY IntelligenceAssumption DEF TypeOK, WorkRecord
<1>2. PICK t \in Later : now' = t /\ row' = [row EXCEPT !.status = analyst[p].verdict,
                                                        !.analysedAt = t]
  BY DEF Save
<1>3. t \in Nat /\ t >= now
  BY <1>1, <1>2 DEF Later
<1>4. QED
  BY <1>1, <1>2, <1>3 DEF RowRecord, Concluded

LEMMA IntelligenceTypeStep == TypeOK /\ [Next]_vars => TypeOK'
<1> SUFFICES ASSUME TypeOK, [Next]_vars PROVE TypeOK'
  OBVIOUS
<1> USE DEF TypeOK
<1>1. CASE Settle
  <2>1. Later \subseteq Nat
    BY IntelligenceAssumption DEF Later
  <2>2. row' \in RowRecord /\ now' \in Nat
    BY <1>1, <2>1 DEF Settle, RowRecord
  <2>3. QED
    BY <1>1, <2>2 DEF Settle, batchOnly
<1>2. CASE Reopen
  <2>1. row' \in RowRecord
    BY <1>2 DEF Reopen, RowRecord
  <2>2. mishaps' \in 0..MaxMishaps
    BY <1>2, MishapType DEF Reopen
  <2>3. QED
    BY <1>2, <2>1, <2>2 DEF Reopen, batchOnly
<1>3. CASE Rerun
  <2>1. row' \in RowRecord
    BY <1>3 DEF Rerun, RowRecord
  <2>2. reruns' \in 0..MaxReruns
    BY <1>3, IntelligenceAssumption DEF Rerun
  <2>3. QED
    BY <1>3, <2>1, <2>2 DEF Rerun, batchOnly
<1>4. ASSUME NEW p \in Processes, Look(p) PROVE TypeOK'
  <2>1. scheduler' \in [Processes -> ClaimRecord]
    BY <1>4 DEF Look, ClaimRecord
  <2>2. QED
    BY <1>4, <2>1 DEF Look, schedulerOnly
<1>5. ASSUME NEW p \in Processes, Claim(p) PROVE TypeOK'
  <2>1. InMs(row.finishedAt) \in Nat /\ row.generation + 1 \in Nat
    BY InMsType DEF RowRecord
  <2>2. [pc |-> "add", generation |-> row.generation + 1,
         snapshot |-> InMs(row.finishedAt)] \in ClaimRecord
    BY <2>1 DEF ClaimRecord
  <2>3. scheduler' \in [Processes -> ClaimRecord]
    BY <1>5, <2>2, NullTypes DEF Claim
  <2>a. [row EXCEPT !.generation = row.generation + 1, !.status = "queued",
                    !.startedAt = 0, !.analysedAt = 0] \in RowRecord
    BY <2>1 DEF RowRecord
  <2>4. row' \in RowRecord
    BY <1>5, <2>a DEF Claim
  <2>5. QED
    BY <1>5, <2>3, <2>4 DEF Claim, schedulerOnly
<1>6. ASSUME NEW p \in Processes, AddJob(p) \/ AddFails(p) PROVE TypeOK'
  <2>1. JobOf(scheduler[p]) \in Job
    BY IntelligenceAssumption DEF JobOf, Job, ClaimRecord
  <2>2. queue' \subseteq Job
    <3>1. queue \cup {JobOf(scheduler[p])} \subseteq Job
      BY <2>1
    <3>2. CASE AddJob(p)
      BY <3>1, <3>2 DEF AddJob
    <3>3. CASE AddFails(p)
      BY <3>1, <3>3 DEF AddFails
    <3>4. QED
      BY <1>6, <3>2, <3>3
  <2>3. scheduler' \in [Processes -> ClaimRecord]
    BY <1>6, NullTypes DEF AddJob, AddFails, ClaimRecord
  <2>4. UNCHANGED row /\ mishaps' \in 0..MaxMishaps
    BY <1>6, MishapType DEF AddJob, AddFails
  <2>5. QED
    BY <1>6, <2>2, <2>3, <2>4 DEF AddJob, AddFails, schedulerOnly
<1>7. ASSUME NEW p \in Processes, Rollback(p) PROVE TypeOK'
  <2>1. row' \in RowRecord
    BY <1>7 DEF Rollback, RowRecord
  <2>2. scheduler' \in [Processes -> ClaimRecord]
    BY <1>7, NullTypes DEF Rollback
  <2>3. QED
    BY <1>7, <2>1, <2>2 DEF Rollback, schedulerOnly
<1>8. ASSUME NEW p \in Processes, TakeJob(p) PROVE TypeOK'
  <2>1. PICK j \in queue : /\ queue' = queue \ {j}
                           /\ analyst' = [analyst EXCEPT ![p] =
                                             [analyst[p] EXCEPT !.pc = "mark", !.job = j]]
    BY <1>8 DEF TakeJob
  <2>2. analyst' \in [Processes -> WorkRecord]
    BY <2>1, NullTypes, WorkType DEF Concluded
  <2>3. QED
    BY <1>8, <2>1, <2>2 DEF TakeJob, analystOnly
<1>9. ASSUME NEW p \in Processes, MarkRunning(p) PROVE TypeOK'
  <2>a. [row EXCEPT !.status = "running", !.startedAt = now, !.analysedAt = 0] \in RowRecord
    BY DEF RowRecord
  <2>1. row' \in RowRecord
    BY <1>9, <2>a DEF MarkRunning
  <2>2. [analyst[p] EXCEPT !.pc = "child"] \in WorkRecord
    BY NullTypes, WorkType DEF Concluded
  <2>3. analyst' \in [Processes -> WorkRecord]
    BY <1>9, <2>2, NullTypes DEF MarkRunning
  <2>4. QED
    BY <1>9, <2>1, <2>3 DEF MarkRunning, analystOnly
<1>10. ASSUME NEW p \in Processes, ChildEnds(p) PROVE TypeOK'
  <2>1. PICK v \in Concluded :
           analyst' = [analyst EXCEPT ![p] = [analyst[p] EXCEPT !.pc = "finish", !.verdict = v]]
    BY <1>10 DEF ChildEnds
  <2>2. analyst' \in [Processes -> WorkRecord]
    BY <2>1, NullTypes, WorkType
  <2>3. QED
    BY <1>10, <2>2 DEF ChildEnds, analystOnly
<1>11. ASSUME NEW p \in Processes, ChildFails(p) PROVE TypeOK'
  BY <1>11, FailType DEF ChildFails, analystOnly
<1>12. ASSUME NEW p \in Processes, Finish(p) PROVE TypeOK'
  <2>1. [analyst[p] EXCEPT !.pc = "publish"] \in WorkRecord
    BY NullTypes, WorkType DEF Concluded
  <2>2. analyst' \in [Processes -> WorkRecord]
    BY <1>12, <2>1, NullTypes DEF Finish
  <2>3. row' \in RowRecord /\ now' \in Nat
    BY <1>12, SaveEffect DEF Finish
  <2>4. QED
    BY <1>12, <2>2, <2>3 DEF Finish, analystOnly
<1>13. ASSUME NEW p \in Processes, Publish(p) PROVE TypeOK'
  <2>1. row.generation \in Nat
    BY DEF RowRecord
  <2>2. analyst' \in [Processes -> WorkRecord]
    BY <1>13, NullTypes DEF Publish
  <2>3. announced' \subseteq Nat
    BY <1>13, <2>1 DEF Publish
  <2>a. mishaps' \in 0..MaxMishaps
    BY <1>13, MishapType DEF Publish
  <2>4. QED
    BY <1>13, <2>2, <2>3, <2>a DEF Publish, analystOnly
<1>14. ASSUME NEW p \in Processes, CallFails(p) PROVE TypeOK'
  <2>1. row' \in RowRecord /\ now' \in Nat
    BY <1>14, SaveEffect DEF CallFails
  <2>2. queue' \subseteq Job /\ analyst' \in [Processes -> WorkRecord]
    BY <1>14, FailType DEF CallFails
  <2>3. mishaps' \in 0..MaxMishaps
    BY <1>14, MishapType DEF CallFails
  <2>4. QED
    BY <1>14, <2>1, <2>2, <2>3 DEF CallFails, analystOnly
<1>15. ASSUME NEW p \in Processes, GiveUpFails(p) PROVE TypeOK'
  <2>1. mishaps' \in 0..MaxMishaps
    BY <1>15, MishapType DEF GiveUpFails
  <2>2. QED
    BY <1>15, <2>1, NullTypes DEF GiveUpFails, analystOnly
<1>16. ASSUME NEW p \in Processes, Die(p) PROVE TypeOK'
  <2>1. analyst[p].job \in Job
    BY NullTypes, WorkType DEF Concluded
  <2>2. [analyst[p].job EXCEPT !.stalled = TRUE] \in Job
    BY <2>1 DEF Job
  <2>3. queue' \subseteq Job
    BY <1>16, <2>2 DEF Die
  <2>4. analyst' \in [Processes -> WorkRecord] /\ scheduler' \in [Processes -> ClaimRecord]
    BY <1>16, NullTypes DEF Die
  <2>5. mishaps' \in 0..MaxMishaps
    BY <1>16, MishapType DEF Die
  <2>6. QED
    BY <1>16, <2>3, <2>4, <2>5 DEF Die
<1>17. CASE UNCHANGED vars
  BY <1>17 DEF vars
<1>18. QED
  BY <1>1, <1>2, <1>3, <1>4, <1>5, <1>6, <1>7, <1>8, <1>9, <1>10, <1>11, <1>12, <1>13,
     <1>14, <1>15, <1>16, <1>17 DEF Next, Schedule, Analyse, Hurt

-----------------------------------------------------------------------------
(* The invariant *)

\* The numbers the invariant compares.
LEMMA Numbers ==
    ASSUME TypeOK
    PROVE  /\ now \in Nat /\ row.generation \in Nat /\ row.finishedAt \in Nat
           /\ row.startedAt \in Nat
           /\ \A j \in queue : j.generation \in Nat
           /\ \A p \in Processes : /\ analyst[p].job.generation \in Nat
                                   /\ scheduler[p].generation \in Nat
<1>1. \A j \in Job : j.generation \in Nat
  BY DEF Job
<1>2. \A p \in Processes : analyst[p].job \in Job
  BY DEF TypeOK, WorkRecord
<1>3. QED
  BY <1>1, <1>2 DEF TypeOK, RowRecord, ClaimRecord

\* An analyst's own step that leaves the row alone keeps the invariant when the new
\* record has a known job, is not further into it than before, and gives up as "failed".
LEMMA AnalystStep ==
    ASSUME IntelligenceInv, NEW p \in Processes, NEW r,
           analyst' = [analyst EXCEPT ![p] = r], UNCHANGED <<row, now, scheduler>>,
           \A j \in queue' : j.generation <= row.generation,
           r.job.generation <= row.generation,
           r.pc \in {"child", "finish"}
              => analyst[p].pc \in {"child", "finish"} /\ r.job = analyst[p].job,
           r.pc = "giveUp" => r.verdict = "failed"
    PROVE  Generations' /\ Stamped' /\ Begun' /\ GivenUp' /\ FreshResult'
<1>1. \A q \in Processes : analyst'[q] = IF q = p THEN r ELSE analyst[q]
  BY DEF IntelligenceInv, TypeOK
<1>2. Generations'
  BY <1>1 DEF IntelligenceInv, Generations
<1>3. Begun'
  BY <1>1 DEF IntelligenceInv, Begun
<1>4. GivenUp'
  BY <1>1 DEF IntelligenceInv, GivenUp
<1>5. QED
  BY <1>2, <1>3, <1>4 DEF IntelligenceInv, Stamped, FreshResult

\* Leaving the job is such a step.
LEMMA AnalystRests ==
    ASSUME IntelligenceInv, NEW p \in Processes,
           analyst' = [analyst EXCEPT ![p] = NoWork], UNCHANGED <<row, now, scheduler>>,
           \A j \in queue' : j.generation <= row.generation
    PROVE  Generations' /\ Stamped' /\ Begun' /\ GivenUp' /\ FreshResult'
<1>1. NoWork.job.generation <= row.generation /\ NoWork.pc = "idle"
  BY Numbers DEF IntelligenceInv, NoWork, NoJob
<1>2. QED
  BY <1>1, AnalystStep

\* A failed attempt keeps the invariant, whatever the row saved before it.
LEMMA FailKeeps ==
    ASSUME IntelligenceInv, NEW p \in Processes, Fail(p), UNCHANGED scheduler,
           row'.generation = row.generation, row'.finishedAt = row.finishedAt,
           row'.startedAt = row.startedAt
    PROVE  Generations' /\ Begun' /\ GivenUp'
<1>1. analyst[p].job.generation <= row.generation /\ NoWork.job.generation <= row.generation
  BY Numbers DEF IntelligenceInv, Generations, NoWork, NoJob
<1>2. \A j \in queue' : j.generation <= row.generation
  <2>1. CASE UNCHANGED queue
    BY <2>1 DEF IntelligenceInv, Generations
  <2>2. CASE queue' = queue \cup {[analyst[p].job EXCEPT !.made = @ + 1]}
    <3>1. [analyst[p].job EXCEPT !.made = @ + 1].generation = analyst[p].job.generation
      BY DEF IntelligenceInv, TypeOK, WorkRecord, Job
    <3>2. QED
      BY <1>1, <2>2, <3>1 DEF IntelligenceInv, Generations
  <2>3. QED
    BY <2>1, <2>2 DEF Fail
<1>3. PICK r \in {NoWork, [analyst[p] EXCEPT !.pc = "giveUp", !.verdict = "failed"]} :
         analyst' = [analyst EXCEPT ![p] = r]
  BY FailEffect DEF IntelligenceInv
<1>4. /\ r.job.generation <= row.generation
      /\ r.pc \in {"idle", "giveUp"} /\ (r.pc = "giveUp" => r.verdict = "failed")
  <2>1. CASE r = NoWork
    BY <1>1, <2>1 DEF NoWork
  <2>2. CASE r = [analyst[p] EXCEPT !.pc = "giveUp", !.verdict = "failed"]
    <3>1. analyst[p] \in WorkRecord
      BY DEF IntelligenceInv, TypeOK
    <3>2. r.job = analyst[p].job /\ r.pc = "giveUp" /\ r.verdict = "failed"
      BY <2>2, <3>1 DEF WorkRecord
    <3>3. QED
      BY <1>1, <3>2
  <2>3. QED
    BY <2>1, <2>2
<1>5. \A q \in Processes : analyst'[q] = IF q = p THEN r ELSE analyst[q]
  BY <1>3 DEF IntelligenceInv, TypeOK
<1>6. Generations'
  BY <1>2, <1>4, <1>5 DEF IntelligenceInv, Generations
<1>7. Begun'
  BY <1>4, <1>5 DEF IntelligenceInv, Begun
<1>8. GivenUp'
  BY <1>4, <1>5 DEF IntelligenceInv, GivenUp
<1>9. QED
  BY <1>6, <1>7, <1>8

\* A verdict saved for the current job is fresh.
LEMMA SaveKeeps ==
    ASSUME IntelligenceInv, NEW p \in Processes, Save(p), Current(analyst[p].job),
           analyst[p].pc \in {"finish", "giveUp"}
    PROVE  Stamped' /\ FreshResult'
<1>1. Stamped'
  BY SaveEffect, Numbers DEF IntelligenceInv, Stamped
<1>2. /\ row'.status = analyst[p].verdict /\ row'.finishedAt = row.finishedAt
      /\ row'.startedAt = row.startedAt
  BY SaveEffect DEF IntelligenceInv
<1>3. CASE analyst[p].pc = "finish"
  <2>1. row.finishedAt # 0 /\ row.finishedAt <= row.startedAt
    BY <1>3 DEF IntelligenceInv, Begun, Current
  <2>2. QED
    BY <1>1, <1>2, <2>1 DEF FreshResult
<1>4. CASE analyst[p].pc = "giveUp"
  <2>1. analyst[p].verdict = "failed"
    BY <1>4 DEF IntelligenceInv, GivenUp
  <2>2. QED
    BY <1>1, <1>2, <2>1 DEF FreshResult
<1>5. QED
  BY <1>3, <1>4

LEMMA IntelligenceStep == IntelligenceInv /\ [Next]_vars => IntelligenceInv'
<1> SUFFICES ASSUME IntelligenceInv, [Next]_vars
             PROVE  Generations' /\ Stamped' /\ Begun' /\ GivenUp' /\ FreshResult'
  BY IntelligenceTypeStep DEF IntelligenceInv
<1> DEFINE Kept == Generations' /\ Stamped' /\ Begun' /\ GivenUp' /\ FreshResult'
<1> TypeOK /\ Generations /\ Stamped /\ Begun /\ GivenUp /\ FreshResult
  BY DEF IntelligenceInv
<1>0. \A p \in Processes : analyst[p] \in WorkRecord /\ scheduler[p] \in ClaimRecord
  BY DEF TypeOK
<1>1. CASE Settle
  <2>1. \/ row.finishedAt = 0 /\ \E t \in Later :
              now' = t /\ row' = [row EXCEPT !.settled = TRUE, !.finishedAt = t]
        \/ row.finishedAt # 0 /\ row' = [row EXCEPT !.settled = TRUE] /\ UNCHANGED now
    BY <1>1 DEF Settle
  <2>2. UNCHANGED <<queue, scheduler, analyst>>
    BY <1>1 DEF Settle, batchOnly
  <2>3. CASE row.finishedAt = 0
    <3>1. PICK t \in Later : now' = t /\ row' = [row EXCEPT !.settled = TRUE, !.finishedAt = t]
      BY <2>1, <2>3
    <3>2. t \in Nat /\ t > now
      BY <3>1, Numbers, IntelligenceAssumption DEF Later
    <3>3. /\ row'.finishedAt = t /\ row'.generation = row.generation
          /\ row'.status = row.status
      BY <3>1 DEF TypeOK, RowRecord
    <3>4. Stamped'
      BY <3>1, <3>2, <3>3, Numbers DEF Stamped
    <3>5. Generations' /\ GivenUp'
      BY <2>2, <3>3 DEF Generations, GivenUp
    <3>6. Begun' /\ FreshResult'
      BY <2>2, <2>3, <3>3 DEF Begun, FreshResult
    <3>7. QED
      BY <3>4, <3>5, <3>6
  <2>4. CASE row.finishedAt # 0
    <3>1. /\ row'.finishedAt = row.finishedAt /\ row'.generation = row.generation
          /\ row'.status = row.status /\ row'.startedAt = row.startedAt /\ now' = now
      BY <2>1, <2>4 DEF TypeOK, RowRecord
    <3>2. QED
      BY <2>2, <2>4, <3>1 DEF Generations, Stamped, Begun, GivenUp, FreshResult
  <2>5. QED
    BY <2>3, <2>4
<1>2. CASE Reopen
  <2>1. UNCHANGED <<now, queue, scheduler, analyst>>
    BY <1>2 DEF Reopen, batchOnly
  <2>2. /\ row'.finishedAt = row.finishedAt /\ row'.generation = row.generation
        /\ row'.status = row.status /\ row'.startedAt = row.startedAt
        /\ row'.settled = FALSE
    BY <1>2 DEF Reopen, TypeOK, RowRecord
  <2>3. QED
    BY <2>1, <2>2 DEF Generations, Stamped, Begun, GivenUp, FreshResult
<1>3. CASE Rerun
  <2>1. UNCHANGED <<now, queue, scheduler, analyst>>
    BY <1>3 DEF Rerun, batchOnly
  <2>2. /\ row'.finishedAt = 0 /\ row'.generation = row.generation + 1
        /\ row'.status = "idle" /\ row'.settled = FALSE
    BY <1>3 DEF Rerun
  <2>3. Generations' /\ Begun'
    BY <2>1, <2>2, Numbers DEF Generations, Begun
  <2>4. QED
    BY <2>1, <2>2, <2>3, Numbers DEF Stamped, GivenUp, FreshResult
<1>4. ASSUME NEW p \in Processes, Look(p) PROVE Kept
  <2>1. UNCHANGED <<now, row, queue, analyst>>
    BY <1>4 DEF Look, schedulerOnly
  <2>2. \A q \in Processes : scheduler'[q].generation = scheduler[q].generation
    BY <1>4, <1>0 DEF Look, TypeOK, ClaimRecord
  <2>3. QED
    BY <2>1, <2>2 DEF Generations, Stamped, Begun, GivenUp, FreshResult
<1>5. ASSUME NEW p \in Processes, Claim(p) PROVE Kept
  <2>1. UNCHANGED <<now, queue, analyst>>
    BY <1>5 DEF Claim, schedulerOnly
  <2>2. CASE NeedsAnalysis
    <3>1. /\ row'.finishedAt = row.finishedAt /\ row'.generation = row.generation + 1
          /\ row'.status = "queued" /\ row'.settled = row.settled
      BY <1>5, <2>2 DEF Claim, TypeOK, RowRecord
    <3>2. \A q \in Processes : scheduler'[q].generation =
             IF q = p THEN row.generation + 1 ELSE scheduler[q].generation
      BY <1>5, <2>2 DEF Claim, TypeOK
    <3>3. Generations' /\ Begun'
      BY <2>1, <3>1, <3>2, Numbers DEF Generations, Begun
    <3>4. QED
      BY <2>1, <3>1, <3>3 DEF Stamped, GivenUp, FreshResult
  <2>3. CASE ~NeedsAnalysis
    <3>1. UNCHANGED row /\ scheduler' = [scheduler EXCEPT ![p] = NoClaim]
      BY <1>5, <2>3 DEF Claim
    <3>2. \A q \in Processes : scheduler'[q].generation <= row.generation
      BY <3>1, Numbers DEF TypeOK, Generations, NoClaim
    <3>3. QED
      BY <2>1, <3>1, <3>2 DEF Generations, Stamped, Begun, GivenUp, FreshResult
  <2>4. QED
    BY <2>2, <2>3
<1>6. ASSUME NEW p \in Processes, AddJob(p) \/ AddFails(p) PROVE Kept
  <2>1. UNCHANGED <<now, row, analyst>>
    BY <1>6 DEF AddJob, AddFails, schedulerOnly
  <2>2. \A q \in Processes : scheduler'[q].generation <= row.generation
    <3>1. CASE AddJob(p)
      BY <3>1, Numbers DEF AddJob, TypeOK, Generations, NoClaim
    <3>2. CASE AddFails(p)
      BY <3>2, <1>0 DEF AddFails, TypeOK, Generations, ClaimRecord
    <3>3. QED
      BY <1>6, <3>1, <3>2
  <2>3. JobOf(scheduler[p]).generation <= row.generation
    BY DEF JobOf, Generations
  <2>4. queue' \subseteq queue \cup {JobOf(scheduler[p])}
    <3>1. CASE AddJob(p)
      BY <3>1 DEF AddJob
    <3>2. CASE AddFails(p)
      BY <3>2 DEF AddFails
    <3>3. QED
      BY <1>6, <3>1, <3>2
  <2>5. \A j \in queue' : j.generation <= row.generation
    BY <2>3, <2>4 DEF Generations
  <2>6. QED
    BY <2>1, <2>2, <2>5 DEF Generations, Stamped, Begun, GivenUp, FreshResult
<1>7. ASSUME NEW p \in Processes, Rollback(p) PROVE Kept
  <2>1. UNCHANGED <<now, queue, analyst>>
    BY <1>7 DEF Rollback, schedulerOnly
  <2>2. /\ row'.finishedAt = row.finishedAt /\ row'.generation = row.generation
        /\ row'.status \in {row.status, "idle"} /\ row'.settled = row.settled
        /\ row'.startedAt = row.startedAt
    BY <1>7 DEF Rollback, TypeOK, RowRecord
  <2>3. \A q \in Processes : scheduler'[q].generation <= row.generation
    BY <1>7, Numbers DEF Rollback, TypeOK, Generations, NoClaim
  <2>4. QED
    BY <2>1, <2>2, <2>3 DEF Generations, Stamped, Begun, GivenUp, FreshResult
<1>8. ASSUME NEW p \in Processes, TakeJob(p) PROVE Kept
  <2>1. PICK j \in queue : /\ queue' = queue \ {j}
                           /\ analyst' = [analyst EXCEPT ![p] =
                                             [analyst[p] EXCEPT !.pc = "mark", !.job = j]]
    BY <1>8 DEF TakeJob
  <2>2. UNCHANGED <<row, now, scheduler>>
    BY <1>8 DEF TakeJob, analystOnly
  <2>3. [analyst[p] EXCEPT !.pc = "mark", !.job = j].job = j
        /\ [analyst[p] EXCEPT !.pc = "mark", !.job = j].pc = "mark"
    BY <1>0 DEF WorkRecord
  <2>4. QED
    BY <2>1, <2>2, <2>3, AnalystStep DEF Generations
<1>9. ASSUME NEW p \in Processes, MarkRunning(p) PROVE Kept
  <2>1. UNCHANGED <<now, queue, scheduler>>
    BY <1>9 DEF MarkRunning, analystOnly
  <2>2. CASE Current(analyst[p].job) /\ MayRun
    <3>1. /\ row' = [row EXCEPT !.status = "running", !.startedAt = now, !.analysedAt = 0]
          /\ analyst' = [analyst EXCEPT ![p].pc = "child"]
      BY <1>9, <2>2 DEF MarkRunning
    <3>2. /\ row'.finishedAt = row.finishedAt /\ row'.generation = row.generation
          /\ row'.status = "running" /\ row'.settled = row.settled
          /\ row'.startedAt = now
      BY <3>1 DEF TypeOK, RowRecord
    <3>3. row.finishedAt # 0 /\ row.finishedAt <= now
      BY <2>2 DEF Current, Stamped
    <3>4. \A q \in Processes : /\ analyst'[q].job = analyst[q].job
                               /\ analyst'[q].verdict = analyst[q].verdict
                               /\ analyst'[q].pc \in {analyst[q].pc, "child"}
      BY <3>1, <1>0 DEF TypeOK, WorkRecord
    <3>5. Generations' /\ Stamped'
      BY <2>1, <3>2, <3>4 DEF Generations, Stamped
    <3>6. Begun' /\ GivenUp' /\ FreshResult'
      BY <3>2, <3>3, <3>4 DEF Begun, GivenUp, FreshResult
    <3>7. QED
      BY <3>5, <3>6
  <2>3. CASE ~(Current(analyst[p].job) /\ MayRun)
    <3>1. UNCHANGED row /\ analyst' = [analyst EXCEPT ![p] = NoWork]
      BY <1>9, <2>3 DEF MarkRunning
    <3>2. QED
      BY <2>1, <3>1, AnalystRests DEF Generations
  <2>4. QED
    BY <2>2, <2>3
<1>10. ASSUME NEW p \in Processes, ChildEnds(p) PROVE Kept
  <2>1. PICK v \in Concluded :
           analyst' = [analyst EXCEPT ![p] = [analyst[p] EXCEPT !.pc = "finish", !.verdict = v]]
    BY <1>10 DEF ChildEnds
  <2>2. UNCHANGED <<row, now, queue, scheduler>> /\ analyst[p].pc = "child"
    BY <1>10 DEF ChildEnds, analystOnly
  <2>3. [analyst[p] EXCEPT !.pc = "finish", !.verdict = v].job = analyst[p].job
        /\ [analyst[p] EXCEPT !.pc = "finish", !.verdict = v].pc = "finish"
    BY <1>0 DEF WorkRecord
  <2>4. QED
    BY <2>1, <2>2, <2>3, AnalystStep DEF Generations
<1>11. ASSUME NEW p \in Processes, ChildFails(p) PROVE Kept
  BY <1>11, FailKeeps DEF ChildFails, analystOnly, Stamped, FreshResult
<1>12. ASSUME NEW p \in Processes, Finish(p) PROVE Kept
  <2>1. UNCHANGED <<queue, scheduler>> /\ analyst[p].pc \in {"finish", "giveUp"}
    BY <1>12 DEF Finish, analystOnly
  <2>2. CASE Current(analyst[p].job)
    <3>1. Save(p) /\ analyst' = [analyst EXCEPT ![p].pc = "publish"]
      BY <1>12, <2>2 DEF Finish
    <3>2. Stamped' /\ FreshResult'
      BY <2>1, <2>2, <3>1, SaveKeeps
    <3>3. \A q \in Processes : /\ analyst'[q].job = analyst[q].job
                               /\ analyst'[q].verdict = analyst[q].verdict
                               /\ analyst'[q].pc \in {analyst[q].pc, "publish"}
      BY <3>1, <1>0 DEF TypeOK, WorkRecord
    <3>4. Generations' /\ Begun' /\ GivenUp'
      BY <2>1, <3>1, <3>3, SaveEffect DEF Generations, Begun, GivenUp
    <3>5. QED
      BY <3>2, <3>4
  <2>3. CASE ~Current(analyst[p].job)
    BY <1>12, <2>1, <2>3, AnalystRests DEF Finish, Generations
  <2>4. QED
    BY <2>2, <2>3
<1>13. ASSUME NEW p \in Processes, Publish(p) PROVE Kept
  BY <1>13, AnalystRests DEF Publish, analystOnly, Generations
<1>14. ASSUME NEW p \in Processes, CallFails(p) PROVE Kept
  <2>1. Fail(p) /\ UNCHANGED scheduler /\ analyst[p].pc \in {"mark", "finish"}
    BY <1>14 DEF CallFails, analystOnly
  <2>2. CASE UNCHANGED <<now, row>>
    BY <2>1, <2>2, FailKeeps DEF Stamped, FreshResult
  <2>3. CASE analyst[p].pc = "finish" /\ Current(analyst[p].job) /\ Save(p)
    <3>1. Stamped' /\ FreshResult'
      BY <2>3, SaveKeeps
    <3>2. Generations' /\ Begun' /\ GivenUp'
      BY <2>1, <2>3, SaveEffect, FailKeeps
    <3>3. QED
      BY <3>1, <3>2
  <2>4. QED
    BY <1>14, <2>2, <2>3 DEF CallFails
<1>15. ASSUME NEW p \in Processes, GiveUpFails(p) PROVE Kept
  BY <1>15, AnalystRests DEF GiveUpFails, analystOnly, Generations
<1>16. ASSUME NEW p \in Processes, Die(p) PROVE Kept
  <2>1. /\ analyst' = [analyst EXCEPT ![p] = NoWork]
        /\ scheduler' = [scheduler EXCEPT ![p] = NoClaim] /\ UNCHANGED <<row, now>>
    BY <1>16 DEF Die
  <2>2. \A j \in queue' : j.generation <= row.generation
    <3>1. [analyst[p].job EXCEPT !.stalled = TRUE].generation = analyst[p].job.generation
      BY DEF TypeOK, WorkRecord, Job
    <3>2. queue' \subseteq queue \cup {[analyst[p].job EXCEPT !.stalled = TRUE]}
      BY <1>16 DEF Die
    <3>3. QED
      BY <3>1, <3>2 DEF Generations
  <2>3. \A q \in Processes :
           /\ analyst'[q] = (IF q = p THEN NoWork ELSE analyst[q])
           /\ scheduler'[q] = (IF q = p THEN NoClaim ELSE scheduler[q])
    BY <2>1 DEF TypeOK
  <2>4. /\ NoWork.pc = "idle" /\ NoWork.job.generation <= row.generation
        /\ NoClaim.generation <= row.generation
    BY Numbers DEF NoWork, NoJob, NoClaim
  <2>5. Generations'
    BY <2>1, <2>2, <2>3, <2>4 DEF Generations
  <2>6. Begun' /\ GivenUp'
    BY <2>1, <2>3, <2>4 DEF Begun, GivenUp
  <2>7. QED
    BY <2>1, <2>5, <2>6 DEF Stamped, FreshResult
<1>17. CASE UNCHANGED vars
  BY <1>17 DEF vars, Generations, Stamped, Begun, GivenUp, FreshResult
<1>18. QED
  BY <1>1, <1>2, <1>3, <1>4, <1>5, <1>6, <1>7, <1>8, <1>9, <1>10, <1>11, <1>12, <1>13,
     <1>14, <1>15, <1>16, <1>17 DEF Next, Schedule, Analyse, Hurt

LEMMA IntelligenceInit == Init => IntelligenceInv
<1> SUFFICES ASSUME Init PROVE IntelligenceInv
  OBVIOUS
<1>1. TypeOK
  BY NullTypes, IntelligenceAssumption DEF Init, TypeOK, RowRecord, Concluded
<1>2. QED
  BY <1>1 DEF Init, IntelligenceInv, Generations, Stamped, Begun, GivenUp, FreshResult,
              NoWork, NoJob, NoClaim

LEMMA IntelligenceInvariant == Spec => []IntelligenceInv
BY IntelligenceInit, IntelligenceStep, PTL DEF Spec

-----------------------------------------------------------------------------
(* Theorems *)

\* The state of the analysis is well typed.
THEOREM AnalysisTypeCorrect == Spec => []TypeOK
BY IntelligenceInvariant, PTL DEF IntelligenceInv

\* A recorded analysis began after the results it is shown with were final, for every
\* number of processes, attempts, reruns, crashes and failed calls: the UPDATE of
\* finishSourceIntelligence matches on the generation of the job it was made for.
THEOREM ResultIsFresh == Spec => []FreshResult
BY IntelligenceInvariant, PTL DEF IntelligenceInv

\* No late rollback, no second attempt and no other process takes a concluded generation
\* back to waiting.
THEOREM ConclusionIsFinal == Spec => ConcludedStays
<1>1. TypeOK /\ [Next]_vars =>
         [row.status \in Concluded /\ row'.generation = row.generation
             => row'.status \in Concluded]_vars
  <2> SUFFICES ASSUME TypeOK, Next, row.status \in Concluded,
                      row'.generation = row.generation
               PROVE  row'.status \in Concluded
    OBVIOUS
  <2> row \in RowRecord /\ row.status \notin {"idle", "queued", "running"}
    BY DEF TypeOK, Concluded
  <2>1. CASE Settle
    BY <2>1 DEF Settle, RowRecord
  <2>2. CASE Reopen
    BY <2>2 DEF Reopen, RowRecord
  <2>3. CASE Rerun
    BY <2>3 DEF Rerun, RowRecord
  <2>4. ASSUME NEW p \in Processes, Claim(p) PROVE row'.status \in Concluded
    <3>1. row.generation + 1 # row.generation
      BY DEF RowRecord
    <3>2. CASE NeedsAnalysis
      BY <2>4, <3>1, <3>2 DEF Claim, RowRecord
    <3>3. CASE ~NeedsAnalysis
      BY <2>4, <3>3 DEF Claim
    <3>4. QED
      BY <3>2, <3>3
  <2>5. ASSUME NEW p \in Processes, Rollback(p) PROVE row'.status \in Concluded
    BY <2>5 DEF Rollback, Undoes, RowRecord
  <2>6. ASSUME NEW p \in Processes, MarkRunning(p) PROVE row'.status \in Concluded
    BY <2>6 DEF MarkRunning, MayRun
  <2>7. ASSUME NEW p \in Processes, Save(p) PROVE row'.status \in Concluded
    BY <2>7, SaveEffect DEF TypeOK, WorkRecord
  <2>8. ASSUME NEW p \in Processes, Finish(p) \/ CallFails(p)
        PROVE  row'.status \in Concluded
    BY <2>7, <2>8 DEF Finish, CallFails
  <2>9. ASSUME NEW p \in Processes,
               \/ Look(p) \/ AddJob(p) \/ AddFails(p) \/ TakeJob(p) \/ ChildEnds(p)
               \/ ChildFails(p) \/ Publish(p) \/ GiveUpFails(p) \/ Die(p)
        PROVE  row'.status \in Concluded
    BY <2>9 DEF Look, AddJob, AddFails, TakeJob, ChildEnds, ChildFails, Publish,
                GiveUpFails, Die, schedulerOnly, analystOnly
  <2>10. QED
    BY <2>1, <2>2, <2>3, <2>4, <2>5, <2>6, <2>8, <2>9 DEF Next, Schedule, Analyse, Hurt
<1>2. QED
  BY <1>1, AnalysisTypeCorrect, PTL DEF Spec, ConcludedStays
=============================================================================

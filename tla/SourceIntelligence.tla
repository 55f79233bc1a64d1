------------------------- MODULE SourceIntelligence -------------------------
(***************************************************************************)
(* The analysis of the pages a settled batch cites: every worker process    *)
(* looks for batches whose results are newer than their last analysis,      *)
(* claims a new generation in PostgreSQL, adds a job to one queue, and      *)
(* takes jobs from that queue.  One batch is modelled, with the part of its *)
(* row that the analysis reads; BatchLifecycle models how the row settles.  *)
(***************************************************************************)
EXTENDS Integers, FiniteSets

CONSTANTS
    Processes,    \* worker processes: each schedules and analyses, one job at a time
    Attempts,     \* attempts of an analysis job
    MsLength,     \* instants PostgreSQL tells apart within one millisecond
    MaxReruns,    \* bound: times the batch is started again
    MaxMishaps    \* bound: failed calls, process deaths and stale refreshes

ASSUME IntelligenceAssumption ==
    /\ Attempts \in Nat \ {0} /\ MsLength \in Nat \ {0}
    /\ MaxReruns \in Nat /\ MaxMishaps \in Nat

VARIABLES
    now,        \* the database clock, in instants
    row,        \* the batch: settled, finished_at (0: NULL) and source_intelligence_*
    queue,      \* waiting jobs
    scheduler,  \* enqueueSourceIntelligence of each process
    analyst,    \* handleSourceIntelligenceJob of each process
    announced,  \* generations whose report.revision.ready event exists
    reruns, mishaps

vars == <<now, row, queue, scheduler, analyst, announced, reruns, mishaps>>

Concluded == {"analysed", "failed"}     \* "analysed" is completed or partial
Job       == [generation : Nat, snapshot : Nat, made : 0..Attempts - 1, stalled : BOOLEAN]
NoJob     == [generation |-> 0, snapshot |-> 0, made |-> 0, stalled |-> FALSE]
NoClaim   == [pc |-> "idle", generation |-> 0, snapshot |-> 0]
NoWork    == [pc |-> "idle", job |-> NoJob, verdict |-> "failed"]

Mishap == mishaps < MaxMishaps /\ mishaps' = mishaps + 1

\* Each write of now() happens at a later instant, anywhere within a millisecond.
Later == now + 1 .. now + MsLength

\* new Date(timestamptz).toISOString(): JavaScript keeps milliseconds only.
InMs(t) == t - (t % MsLength)

Init ==
    /\ now = 0
    /\ row = [settled |-> FALSE, finishedAt |-> 0, generation |-> 1, status |-> "idle",
              startedAt |-> 0, analysedAt |-> 0]
    /\ queue = {}
    /\ scheduler = [p \in Processes |-> NoClaim]
    /\ analyst = [p \in Processes |-> NoWork]
    /\ announced = {}
    /\ reruns = 0 /\ mishaps = 0

-----------------------------------------------------------------------------
(* The batch's own row, as far as the analysis can see it *)

batchOnly == UNCHANGED <<queue, scheduler, analyst, announced>>

\* refreshBatchProgress settles the batch: the first time it does fixes finished_at.
Settle ==
    /\ ~row.settled
    /\ \/ /\ row.finishedAt = 0
          /\ \E t \in Later :
                /\ now' = t
                /\ row' = [row EXCEPT !.settled = TRUE, !.finishedAt = t]
       \/ /\ row.finishedAt # 0
          /\ row' = [row EXCEPT !.settled = TRUE]
          /\ UNCHANGED now
    /\ UNCHANGED <<reruns, mishaps>> /\ batchOnly

\* A refresh with stale counts takes the batch back to running (BatchLifecycle).
Reopen ==
    /\ row.settled /\ Mishap
    /\ row' = [row EXCEPT !.settled = FALSE]
    /\ UNCHANGED <<now, reruns>> /\ batchOnly

\* enqueueBatch starts the batch again, settled or not, and opens a new generation.
Rerun ==
    /\ reruns < MaxReruns
    /\ reruns' = reruns + 1
    /\ row' = [settled |-> FALSE, finishedAt |-> 0, generation |-> row.generation + 1,
               status |-> "idle", startedAt |-> 0, analysedAt |-> 0]
    /\ UNCHANGED <<now, mishaps>> /\ batchOnly

-----------------------------------------------------------------------------
(* Scheduling *)

schedulerOnly == UNCHANGED <<now, analyst, announced, reruns>>

\* The WHERE clause of the backlog and of the claim.
NeedsAnalysis ==
    /\ row.settled /\ row.finishedAt # 0 /\ row.status \notin {"queued", "running"}
    /\ row.analysedAt = 0 \/ row.analysedAt < row.finishedAt

\* The same question asked in JavaScript, after the row was read.
LooksFresh == row.analysedAt # 0 /\ InMs(row.analysedAt) >= InMs(row.finishedAt)

Look(p) ==
    /\ scheduler[p].pc = "idle"
    /\ NeedsAnalysis /\ ~LooksFresh
    /\ scheduler' = [scheduler EXCEPT ![p].pc = "claim"]
    /\ UNCHANGED <<row, queue, mishaps>> /\ schedulerOnly

Claim(p) ==
    /\ scheduler[p].pc = "claim"
    /\ \/ /\ NeedsAnalysis
          /\ row' = [row EXCEPT !.generation = @ + 1, !.status = "queued",
                                !.startedAt = 0, !.analysedAt = 0]
          /\ scheduler' = [scheduler EXCEPT ![p] =
                [pc |-> "add", generation |-> row.generation + 1,
                 snapshot |-> InMs(row.finishedAt)]]
       \/ /\ ~NeedsAnalysis
          /\ scheduler' = [scheduler EXCEPT ![p] = NoClaim]
          /\ UNCHANGED row
    /\ UNCHANGED <<queue, mishaps>> /\ schedulerOnly

JobOf(c) == [generation |-> c.generation, snapshot |-> c.snapshot, made |-> 0,
             stalled |-> FALSE]

AddJob(p) ==
    /\ scheduler[p].pc = "add"
    /\ queue' = queue \cup {JobOf(scheduler[p])}
    /\ scheduler' = [scheduler EXCEPT ![p] = NoClaim]
    /\ UNCHANGED <<row, mishaps>> /\ schedulerOnly

\* Redis fails, with or without having taken the job.
AddFails(p) ==
    /\ scheduler[p].pc = "add" /\ Mishap
    /\ queue' \in {queue, queue \cup {JobOf(scheduler[p])}}
    /\ scheduler' = [scheduler EXCEPT ![p].pc = "rollback"]
    /\ UNCHANGED row /\ schedulerOnly

\* A variant that does not look at the status it undoes.
UndoesAnyStatus(c) == row.generation = c.generation

\* The claim is undone only while its generation is the row's and still waits.
Undoes(c) == row.generation = c.generation /\ row.status = "queued"

Rollback(p) ==
    /\ scheduler[p].pc = "rollback"
    /\ row' = IF Undoes(scheduler[p]) THEN [row EXCEPT !.status = "idle"] ELSE row
    /\ scheduler' = [scheduler EXCEPT ![p] = NoClaim]
    /\ UNCHANGED <<queue, mishaps>> /\ schedulerOnly

-----------------------------------------------------------------------------
(* Analysing *)

analystOnly == UNCHANGED <<scheduler, reruns>>

\* A variant that finds the row by the batch alone.
CurrentBatch(j) == row.settled

\* The guard of both updates: the row still is the one the job was made for.
Current(j) ==
    row.generation = j.generation /\ row.settled /\ row.finishedAt = j.snapshot

TakeJob(p) ==
    /\ analyst[p].pc = "idle"
    /\ \E j \in queue :
          /\ queue' = queue \ {j}
          /\ analyst' = [analyst EXCEPT ![p].pc = "mark", ![p].job = j]
    /\ UNCHANGED <<now, row, announced, mishaps>> /\ analystOnly

\* The states a job may begin from: its earlier attempt has left the row running.
MayRunOnce == row.status = "queued"     \* a variant that forgets the second attempt
MayRun == row.status \in {"queued", "running"}

\* A job whose row has moved on ends as superseded.
MarkRunning(p) ==
    /\ analyst[p].pc = "mark"
    /\ \/ /\ Current(analyst[p].job) /\ MayRun
          /\ row' = [row EXCEPT !.status = "running", !.startedAt = now, !.analysedAt = 0]
          /\ analyst' = [analyst EXCEPT ![p].pc = "child"]
       \/ /\ ~(Current(analyst[p].job) /\ MayRun)
          /\ analyst' = [analyst EXCEPT ![p] = NoWork]
          /\ UNCHANGED row
    /\ UNCHANGED <<now, queue, announced, mishaps>> /\ analystOnly

\* The child process ends and the coverage of its pages decides the verdict.
ChildEnds(p) ==
    /\ analyst[p].pc = "child"
    /\ \E v \in Concluded :
          analyst' = [analyst EXCEPT ![p].pc = "finish", ![p].verdict = v]
    /\ UNCHANGED <<now, row, queue, announced, mishaps>> /\ analystOnly

\* The UPDATE of finishSourceIntelligence, which does not ask for the row's status.
Save(p) ==
    \E t \in Later :
       /\ now' = t
       /\ row' = [row EXCEPT !.status = analyst[p].verdict, !.analysedAt = t]

Finish(p) ==
    /\ analyst[p].pc \in {"finish", "giveUp"}
    /\ \/ /\ Current(analyst[p].job) /\ Save(p)
          /\ analyst' = [analyst EXCEPT ![p].pc = "publish"]
       \/ /\ ~Current(analyst[p].job)
          /\ analyst' = [analyst EXCEPT ![p] = NoWork]
          /\ UNCHANGED <<now, row>>
    /\ UNCHANGED <<queue, announced, mishaps>> /\ analystOnly

\* The event is keyed by the generation the row has when the report is read.
Publish(p) ==
    /\ analyst[p].pc = "publish"
    /\ analyst' = [analyst EXCEPT ![p] = NoWork]
    /\ \/ announced' = announced \cup {row.generation} /\ UNCHANGED mishaps
       \/ Mishap /\ UNCHANGED announced
    /\ UNCHANGED <<now, row, queue>> /\ analystOnly

HasAnother(j) == j.made + 1 < Attempts

\* The job's attempt fails: BullMQ retries it, and after the last attempt the 'failed'
\* listener records the failure.
Fail(p) ==
    IF HasAnother(analyst[p].job)
    THEN /\ queue' = queue \cup {[analyst[p].job EXCEPT !.made = @ + 1]}
         /\ analyst' = [analyst EXCEPT ![p] = NoWork]
    ELSE /\ analyst' = [analyst EXCEPT ![p].pc = "giveUp", ![p].verdict = "failed"]
         /\ UNCHANGED queue

ChildFails(p) ==
    /\ analyst[p].pc = "child" /\ Fail(p)
    /\ UNCHANGED <<now, row, announced, mishaps>> /\ analystOnly

\* A database call of the handler throws; the last one may have been applied.
CallFails(p) ==
    /\ analyst[p].pc \in {"mark", "finish"} /\ Fail(p) /\ Mishap
    /\ \/ UNCHANGED <<now, row>>
       \/ analyst[p].pc = "finish" /\ Current(analyst[p].job) /\ Save(p)
    /\ UNCHANGED announced /\ analystOnly

\* The listener swallows its own failure.
GiveUpFails(p) ==
    /\ analyst[p].pc = "giveUp" /\ Mishap
    /\ analyst' = [analyst EXCEPT ![p] = NoWork]
    /\ UNCHANGED <<now, row, queue, announced>> /\ analystOnly

\* The process dies.  BullMQ hands its job out again, once.
Die(p) ==
    /\ scheduler[p] # NoClaim \/ analyst[p] # NoWork
    /\ Mishap
    /\ scheduler' = [scheduler EXCEPT ![p] = NoClaim]
    /\ analyst' = [analyst EXCEPT ![p] = NoWork]
    /\ queue' = IF analyst[p].pc \in {"idle", "giveUp"} \/ analyst[p].job.stalled
                THEN queue
                ELSE queue \cup {[analyst[p].job EXCEPT !.stalled = TRUE]}
    /\ UNCHANGED <<now, row, announced, reruns>>

-----------------------------------------------------------------------------
Schedule(p) == Look(p) \/ Claim(p) \/ AddJob(p) \/ Rollback(p)
Analyse(p)  == \/ TakeJob(p) \/ MarkRunning(p) \/ ChildEnds(p) \/ ChildFails(p)
               \/ Finish(p) \/ Publish(p)
Hurt(p)     == AddFails(p) \/ CallFails(p) \/ GiveUpFails(p) \/ Die(p)

Next == \/ Settle \/ Reopen \/ Rerun
        \/ \E p \in Processes : Schedule(p) \/ Analyse(p) \/ Hurt(p)

Spec == Init /\ [][Next]_vars

\* Every process reconciles every 15 seconds and BullMQ hands out the waiting jobs.
FairSpec == Spec /\ \A p \in Processes : WF_vars(Schedule(p)) /\ WF_vars(Analyse(p))

-----------------------------------------------------------------------------
RowRecord   == [settled : BOOLEAN, finishedAt : Nat, generation : Nat,
                status : Concluded \cup {"idle", "queued", "running"},
                startedAt : Nat, analysedAt : Nat]
ClaimRecord == [pc : {"idle", "claim", "add", "rollback"}, generation : Nat, snapshot : Nat]
WorkRecord  == [pc : {"idle", "mark", "child", "finish", "publish", "giveUp"},
                job : Job, verdict : Concluded]

TypeOK ==
    /\ now \in Nat /\ reruns \in 0..MaxReruns /\ mishaps \in 0..MaxMishaps
    /\ row \in RowRecord
    /\ queue \subseteq Job
    /\ scheduler \in [Processes -> ClaimRecord]
    /\ analyst \in [Processes -> WorkRecord]
    /\ announced \subseteq Nat

\* A recorded analysis began after the results it is shown with were final: the job of
\* an earlier run of the batch never reports for the current one.
FreshResult ==
    row.status = "analysed" => row.finishedAt # 0 /\ row.finishedAt <= row.startedAt

\* Once a generation is concluded nothing takes it back to waiting: no late rollback,
\* no second attempt, no second process.
ConcludedStays ==
    [][row.status \in Concluded /\ row'.generation = row.generation
          => row'.status \in Concluded]_vars

\* A batch that stays settled gets its analysis and its announcement, when no call fails
\* and no process dies, and when finished_at happens to be a whole millisecond.
WholeMs == row.finishedAt = InMs(row.finishedAt)
AlignedIsAnalysed ==
    [](mishaps = 0 /\ WholeMs) /\ <>[]row.settled
        => <>[](row.status \in Concluded /\ row.generation \in announced)

\* The same for every batch: a new batch is analysed once it is settled.
SettledIsAnalysed == [](mishaps = 0) /\ <>[]row.settled => <>(row.status \in Concluded)
=============================================================================

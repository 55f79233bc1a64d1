--------------------------- MODULE BatchLifecycle ---------------------------
(***************************************************************************)
(* One sampling batch: its row in PostgreSQL, the BullMQ jobs of its        *)
(* assignments (one queue per account), the rows of the runs table, the     *)
(* worker's handler and 'failed' listener, and the operators who start,     *)
(* stop, pause and resume it.  Every await of the code that another party   *)
(* can slip through is a separate step: in particular refreshBatchProgress  *)
(* reads the row in one statement and writes it in a later one.             *)
(***************************************************************************)
EXTENDS Integers, FiniteSets, BatchOutcome

CONSTANTS
    Assignments,    \* the batch's assignments: one job and one run token each
    Accounts,       \* accounts, each with its own queue
    AccountOf,      \* the account an assignment was dealt to
    Slots,          \* jobs one account's worker runs at a time (BullMQ concurrency)
    JobAttempts,    \* attempts of a started job, the first included (ONEGL_JOB_ATTEMPTS)
    ResumeAttempts, \* attempts of a job put back by a resume
    MaxWaits,       \* cooldown waits before a job is skipped
    Operators,      \* API requests and CLI commands acting on the batch
    Commands,       \* the commands they issue: start, stop, pause, resume
    Unavailable,    \* how an account can be unavailable: temporary, permanent, leased
    Outcomes,       \* how asking a prompt can end
    MaxCommands,    \* bound: commands issued
    MaxCrashes,     \* bound: worker process deaths
    MaxFaults       \* bound: database and Redis calls that fail

ASSUME BatchAssumption ==
    /\ IsFiniteSet(Assignments) /\ Assignments # {}
    /\ AccountOf \in [Assignments -> Accounts]
    /\ Slots \in Nat \ {0} /\ JobAttempts \in Nat \ {0}
    /\ ResumeAttempts \in Nat \ {0} /\ MaxWaits \in Nat
    /\ MaxCommands \in Nat /\ MaxCrashes \in Nat /\ MaxFaults \in Nat
    /\ Commands \subseteq {"start", "stop", "pause", "resume"}
    /\ Unavailable \subseteq {"temporary", "permanent", "leased"}
    /\ Outcomes \subseteq {"answered", "retryable", "final"}

VARIABLES
    batch,          \* the sampling_batches row
    job,            \* BullMQ state of each assignment's job
    attempts,       \* job.opts.attempts
    attemptsMade,   \* BullMQ attemptsMade
    waits,          \* job.data.cooldownWaits
    infraRetried,   \* the worker's infraRetried map
    run,            \* runs.status of each run token ("none": no row)
    evidence,       \* local run.json: an answer not yet in PostgreSQL, or none
    handler,        \* where handleJob stands for each job
    verdict,        \* how handleJob is about to end
    refresh,        \* refreshBatchProgress calls, by caller
    command,        \* what each operator's request is doing
    commands, crashes, faults   \* the counters of the three bounds

workerVars  == <<handler, verdict, refresh, infraRetried>>
queueVars   == <<job, attempts, attemptsMade, waits>>
dataVars    == <<run, evidence>>
boundVars   == <<commands, crashes, faults>>
vars == <<batch, queueVars, dataVars, workerVars, command, boundVars>>

BatchStatus == {"pending", "queued", "running", "paused",
                "completed", "partial", "failed", "aborted"}
Held        == {"aborted", "paused"}
Pending     == {"waiting", "delayed"}
Live        == Pending \cup {"active"}
Ended       == {"completed", "failed"}

Callers == Assignments \X {"handler", "listener"}

Size == Cardinality(Assignments)
Succeeded == {a \in Assignments : run[a] = "success"}
Failed    == {a \in Assignments : run[a] = "failed"}
\* failed jobs without a runs row (countOrphanFailedJobs)
Orphans   == {a \in Assignments : job[a] = "failed" /\ run[a] = "none"}

NoRefresh == [pc |-> "idle", status |-> "pending", requested |-> 0,
              skipped |-> 0, done |-> 0, bad |-> 0, orphan |-> 0]
NoCommand == [name |-> "none", pc |-> "idle", accounts |-> {}, jobs |-> {}, removed |-> 0]

Init ==
    /\ batch = [status |-> "pending", requested |-> Size, completed |-> 0,
                failed |-> 0, skipped |-> 0, finished |-> FALSE]
    /\ job = [a \in Assignments |-> "none"]
    /\ attempts = [a \in Assignments |-> JobAttempts]
    /\ attemptsMade = [a \in Assignments |-> 0]
    /\ waits = [a \in Assignments |-> 0]
    /\ infraRetried = [a \in Assignments |-> 0]
    /\ run = [a \in Assignments |-> "none"]
    /\ evidence = [a \in Assignments |-> "none"]
    /\ handler = [a \in Assignments |-> "idle"]
    /\ verdict = [a \in Assignments |-> "none"]
    /\ refresh = [c \in Callers |-> NoRefresh]
    /\ command = [o \in Operators |-> NoCommand]
    /\ commands = 0 /\ crashes = 0 /\ faults = 0

Fault == faults < MaxFaults /\ faults' = faults + 1

\* How a failed call ends the handler: with a message the worker recognises as an
\* infrastructure failure, or with any other.
Thrown == {"error", "infra"}

-----------------------------------------------------------------------------
(* refreshBatchProgress *)

\* The handler's own refresh starts once it has nothing else left to do.
BeginRefresh(a, v) ==
    /\ handler' = [handler EXCEPT ![a] = "refresh"]
    /\ verdict' = [verdict EXCEPT ![a] = v]
    /\ refresh' = [refresh EXCEPT ![<<a, "handler">>].pc = "select"]

ReadProgress(c) ==
    LET done == Cardinality(Succeeded)
        bad  == Cardinality(Failed)
    IN  /\ refresh[c].pc = "select"
        /\ refresh' = [refresh EXCEPT ![c] =
             [pc |-> IF done + bad >= batch.requested THEN "write" ELSE "scan",
              status |-> batch.status, requested |-> batch.requested,
              skipped |-> batch.skipped, done |-> done, bad |-> bad, orphan |-> 0]]
        /\ UNCHANGED <<batch, queueVars, dataVars, handler, verdict, infraRetried,
                       command, boundVars>>

\* A queue that cannot be read counts as no orphan.
ScanFailedJobs(c) ==
    /\ refresh[c].pc = "scan"
    /\ \/ /\ refresh' = [refresh EXCEPT ![c] =
               [@ EXCEPT !.pc = "write", !.orphan = Cardinality(Orphans)]]
          /\ UNCHANGED faults
       \/ /\ Fault
          /\ refresh' = [refresh EXCEPT ![c].pc = "write"]
    /\ UNCHANGED <<batch, queueVars, dataVars, handler, verdict, infraRetried,
                   command, commands, crashes>>

\* A refresh leaves the caller: the handler goes on to its end.
EndRefresh(c, v) ==
    /\ refresh' = [refresh EXCEPT ![c] = NoRefresh]
    /\ IF c[2] = "handler"
       THEN /\ handler' = [handler EXCEPT ![c[1]] = "end"]
            /\ verdict' = [verdict EXCEPT ![c[1]] = v]
       ELSE UNCHANGED <<handler, verdict>>

RefreshedStatus(r, failed) ==
    IF r.status \in Held THEN r.status
    ELSE IF Settled(r.requested, r.done, failed, r.skipped)
         THEN SettledStatus(r.requested, r.done, failed, r.skipped)
         ELSE "running"

WriteProgress(c) ==
    LET r      == refresh[c]
        failed == ResolveFailedCount(r.requested, r.done, r.bad, r.orphan)
        ended  == r.status \notin Held /\ Settled(r.requested, r.done, failed, r.skipped)
    IN  /\ r.pc = "write"
        /\ batch' = [batch EXCEPT !.completed = r.done, !.failed = failed,
                                  !.status = RefreshedStatus(r, failed),
                                  !.finished = @ \/ ended]
        /\ EndRefresh(c, verdict[c[1]])
        /\ UNCHANGED <<queueVars, dataVars, infraRetried, command, boundVars>>

\* A statement of the refresh fails: the handler throws, the listener ignores it.
RefreshFails(c) ==
    /\ refresh[c].pc \in {"select", "write"}
    /\ Fault
    /\ \E v \in Thrown : EndRefresh(c, v)
    /\ UNCHANGED <<batch, queueVars, dataVars, infraRetried, command, commands, crashes>>

-----------------------------------------------------------------------------
(* handleJob *)

ActiveOf(x) == {a \in Assignments : AccountOf[a] = x /\ job[a] = "active"}

\* The account's worker takes a job; a delayed one once its time has come.
Claim(a) ==
    /\ job[a] \in Pending
    /\ Cardinality(ActiveOf(AccountOf[a])) < Slots
    /\ job' = [job EXCEPT ![a] = "active"]
    /\ handler' = [handler EXCEPT ![a] = "start"]
    /\ UNCHANGED <<batch, attempts, attemptsMade, waits, dataVars, verdict, refresh,
                   infraRetried, command, boundVars>>

Skip(a) ==
    /\ batch' = [batch EXCEPT !.skipped = @ + 1]
    /\ BeginRefresh(a, "done")

\* The two gates before account work: a successful row, or an answer still on disk.
\* (GateIsOpen stands for a gate that is missing.)
GateIsOpen(a) == FALSE
AlreadyAnswered(a) == run[a] = "success"
AnswerOnDisk(a)    == evidence[a] = "answered"

\* The batch is read once, here; an answered assignment is not asked again.
CheckBatch(a) ==
    /\ handler[a] = "start"
    /\ IF batch.status = "aborted"
       THEN Skip(a)
       ELSE /\ IF AlreadyAnswered(a)
               THEN BeginRefresh(a, "done")
               ELSE /\ handler' = [handler EXCEPT ![a] =
                          IF AnswerOnDisk(a) THEN "persist" ELSE "available"]
                    /\ UNCHANGED <<verdict, refresh>>
            /\ UNCHANGED batch
    /\ UNCHANGED <<queueVars, dataVars, infraRetried, command, boundVars>>

\* An answer that is only on disk, from this attempt or an earlier one, is written to
\* the database, never asked for.
Persist(a) ==
    /\ handler[a] = "persist"
    /\ \/ /\ run' = [run EXCEPT ![a] = "success"]
          /\ evidence' = [evidence EXCEPT ![a] = "none"]
          /\ BeginRefresh(a, "done")
          /\ UNCHANGED faults
       \/ /\ Fault
          /\ \E v \in Thrown : BeginRefresh(a, v)
          /\ UNCHANGED dataVars
    /\ UNCHANGED <<batch, queueVars, infraRetried, command, commands, crashes>>

\* moveToDelayed and DelayedError: no attempt is consumed.
Delay(a) ==
    /\ job' = [job EXCEPT ![a] = "delayed"]
    /\ handler' = [handler EXCEPT ![a] = "idle"]
    /\ UNCHANGED <<batch, attempts, attemptsMade, dataVars, verdict, refresh, infraRetried,
                   command, boundVars>>

\* A variant that forgets to store the incremented number of waits.
WaitUncounted(a) ==
    /\ handler[a] = "available"
    /\ "temporary" \in Unavailable /\ waits[a] < MaxWaits
    /\ UNCHANGED waits
    /\ Delay(a)

WaitForAccount(a) ==
    /\ handler[a] = "available"
    /\ "temporary" \in Unavailable /\ waits[a] < MaxWaits
    /\ waits' = [waits EXCEPT ![a] = @ + 1]
    /\ Delay(a)

SkipUnavailable(a) ==
    /\ handler[a] = "available"
    /\ \/ "permanent" \in Unavailable
       \/ "temporary" \in Unavailable /\ waits[a] >= MaxWaits
    /\ Skip(a)
    /\ UNCHANGED <<queueVars, dataVars, infraRetried, command, boundVars>>

\* Another holder has the account's execution lease.
LeaseBusy(a) ==
    /\ handler[a] = "available"
    /\ "leased" \in Unavailable
    /\ Delay(a)
    /\ UNCHANGED waits

\* Availability, slot, lease, session and submit gate have let the job through.
Ask(a) ==
    /\ handler[a] = "available"
    /\ handler' = [handler EXCEPT ![a] = "ask"]
    /\ UNCHANGED <<batch, queueVars, dataVars, verdict, refresh, infraRetried,
                   command, boundVars>>

\* The answer is saved on disk before anything else is done with it.
Answered(a) ==
    /\ handler[a] = "ask" /\ "answered" \in Outcomes
    /\ evidence' = [evidence EXCEPT ![a] = "answered"]
    /\ handler' = [handler EXCEPT ![a] = "persist"]
    /\ UNCHANGED <<batch, queueVars, run, verdict, refresh, infraRetried, command, boundVars>>

\* "retryable": nothing was submitted and the code is transient; "final": blocked,
\* possibly submitted, or not retryable.  An unsaved failure is thrown as retryable.
NotAnswered(a) ==
    /\ handler[a] = "ask"
    /\ \/ \E o \in Outcomes \cap {"retryable", "final"} :
             /\ run' = [run EXCEPT ![a] = "failed"]
             /\ BeginRefresh(a, IF o = "final" THEN "fatal" ELSE "error")
             /\ UNCHANGED faults
       \/ /\ Outcomes \cap {"retryable", "final"} # {}
          /\ Fault
          /\ \E v \in Thrown : BeginRefresh(a, v)
          /\ UNCHANGED run
    /\ UNCHANGED <<batch, queueVars, evidence, infraRetried, command, commands, crashes>>

\* A call fails anywhere before there is something to save: the handler throws.
CallFails(a) ==
    /\ handler[a] \in {"start", "available", "ask"}
    /\ Fault
    /\ handler' = [handler EXCEPT ![a] = "end"]
    /\ \E v \in Thrown : verdict' = [verdict EXCEPT ![a] = v]
    /\ UNCHANGED <<batch, queueVars, dataVars, refresh, infraRetried, command,
                   commands, crashes>>

\* BullMQ takes the handler's result; every failed attempt raises 'failed'.
JobDone(a) ==
    /\ handler[a] = "end" /\ verdict[a] = "done"
    /\ job' = [job EXCEPT ![a] = "completed"]
    /\ handler' = [handler EXCEPT ![a] = "idle"]
    /\ verdict' = [verdict EXCEPT ![a] = "none"]
    /\ UNCHANGED <<batch, attempts, attemptsMade, waits, dataVars, refresh, infraRetried,
                   command, boundVars>>

JobFailed(a) ==
    /\ handler[a] = "end" /\ verdict[a] \in {"error", "fatal", "infra"}
    /\ refresh[<<a, "listener">>] = NoRefresh
    /\ attemptsMade' = [attemptsMade EXCEPT ![a] = @ + 1]
    /\ job' = [job EXCEPT ![a] =
          IF verdict[a] # "fatal" /\ attemptsMade[a] + 1 < attempts[a]
          THEN "delayed" ELSE "failed"]
    /\ refresh' = [refresh EXCEPT ![<<a, "listener">>].pc =
          IF verdict[a] = "infra" THEN "infra" ELSE "select"]
    /\ handler' = [handler EXCEPT ![a] = "idle"]
    /\ verdict' = [verdict EXCEPT ![a] = "none"]
    /\ UNCHANGED <<batch, attempts, waits, dataVars, infraRetried, command, boundVars>>

\* A variant that does not remember the retry it grants.
RetryUnremembered(a) ==
    LET l == <<a, "listener">>
    IN  /\ refresh[l].pc = "infra" /\ infraRetried[a] = 0
        /\ job' = [job EXCEPT ![a] = IF @ = "failed" THEN "waiting" ELSE @]
        /\ refresh' = [refresh EXCEPT ![l] = NoRefresh]
        /\ UNCHANGED <<batch, attempts, attemptsMade, waits, infraRetried, dataVars,
                       handler, verdict, command, boundVars>>

\* The listener grants one extra run: job.retry() takes effect on a failed job only.
RetryInfra(a) ==
    LET l == <<a, "listener">>
    IN  /\ refresh[l].pc = "infra" /\ infraRetried[a] = 0
        /\ infraRetried' = [infraRetried EXCEPT ![a] = 1]
        /\ job' = [job EXCEPT ![a] = IF @ = "failed" THEN "waiting" ELSE @]
        /\ refresh' = [refresh EXCEPT ![l] = NoRefresh]
        /\ UNCHANGED <<batch, attempts, attemptsMade, waits, dataVars, handler, verdict,
                       command, boundVars>>

InfraExhausted(a) ==
    LET l == <<a, "listener">>
    IN  /\ refresh[l].pc = "infra" /\ infraRetried[a] = 1
        /\ refresh' = [refresh EXCEPT ![l].pc = "select"]
        /\ UNCHANGED <<batch, queueVars, dataVars, handler, verdict, infraRetried,
                       command, boundVars>>

\* The worker process dies; BullMQ hands its stalled jobs out again.
Crash ==
    /\ crashes < MaxCrashes
    /\ \E a \in Assignments : job[a] = "active"
    /\ crashes' = crashes + 1
    /\ job' = [a \in Assignments |-> IF job[a] = "active" THEN "waiting" ELSE job[a]]
    /\ handler' = [a \in Assignments |-> "idle"]
    /\ verdict' = [a \in Assignments |-> "none"]
    /\ refresh' = [c \in Callers |-> NoRefresh]
    /\ infraRetried' = [a \in Assignments |-> 0]
    /\ UNCHANGED <<batch, attempts, attemptsMade, waits, dataVars, command, commands, faults>>

-----------------------------------------------------------------------------
(* enqueueBatch, stopBatch, pauseBatch, resumeBatch *)

workerUnchanged == UNCHANGED <<dataVars, workerVars, crashes>>

\* addBulk: a job id that BullMQ already knows is left as it is.
AddFresh(fresh, n) ==
    /\ job' = [a \in Assignments |-> IF a \in fresh THEN "waiting" ELSE job[a]]
    /\ attempts' = [a \in Assignments |-> IF a \in fresh THEN n ELSE attempts[a]]
    /\ attemptsMade' = [a \in Assignments |-> IF a \in fresh THEN 0 ELSE attemptsMade[a]]
    /\ waits' = [a \in Assignments |-> IF a \in fresh THEN 0 ELSE waits[a]]

AddJobs(S) == AddFresh({a \in S : job[a] = "none"}, ResumeAttempts)

\* A start first removes the terminal jobs; one it fails to remove stays as it is.
ReAddJobs(S) == AddFresh({a \in S : job[a] \in Ended \cup {"none"}}, JobAttempts)

Issue(o, name) ==
    /\ command[o] = NoCommand
    /\ name \in Commands
    /\ commands < MaxCommands
    /\ commands' = commands + 1

Proceed(o, name, pc, accounts, jobs) ==
    command' = [command EXCEPT ![o] = [name |-> name, pc |-> pc, accounts |-> accounts,
                                       jobs |-> jobs, removed |-> 0]]

\* Refused while it has live jobs and is queued or running.  A queue that cannot be
\* read counts as having none.
StartRead(o) ==
    LET live   == \E a \in Assignments : job[a] \in Live
        active == batch.status \in {"queued", "running"}
    IN  /\ Issue(o, "start")
        /\ \/ /\ ~(live /\ active)
              /\ UNCHANGED faults
           \/ live /\ active /\ Fault
        /\ Proceed(o, "start", "add", {AccountOf[a] : a \in Assignments}, Assignments)
        /\ UNCHANGED <<batch, queueVars>> /\ workerUnchanged

StartAdd(o, x) ==
    /\ command[o].name = "start" /\ command[o].pc = "add" /\ x \in command[o].accounts
    /\ \/ /\ ReAddJobs({a \in Assignments : AccountOf[a] = x})
          /\ UNCHANGED faults
       \/ /\ Fault
          /\ AddFresh({a \in Assignments : AccountOf[a] = x /\ job[a] = "none"}, JobAttempts)
    /\ command' = [command EXCEPT ![o].accounts = @ \ {x}]
    /\ UNCHANGED <<batch, commands>> /\ workerUnchanged

StartUpdate(o) ==
    /\ command[o].name = "start" /\ command[o].pc = "add" /\ command[o].accounts = {}
    /\ batch' = [batch EXCEPT !.status = "queued", !.requested = Size,
                              !.skipped = 0, !.finished = FALSE]
    /\ command' = [command EXCEPT ![o] = NoCommand]
    /\ UNCHANGED <<queueVars, commands, faults>> /\ workerUnchanged

\* stop and pause first claim the row, then list the queued jobs and remove them.
Claimable(name) == IF name = "stop" THEN {"queued", "running", "paused"}
                                    ELSE {"queued", "running"}

HoldMark(o, name) ==
    /\ name \in {"stop", "pause"}
    /\ Issue(o, name)
    /\ batch.status \in Claimable(name)
    /\ batch' = [batch EXCEPT !.status = IF name = "stop" THEN "aborted" ELSE "paused"]
    /\ Proceed(o, name, "list", {}, {})
    /\ UNCHANGED <<queueVars, faults>> /\ workerUnchanged

HoldList(o) ==
    /\ command[o].pc = "list"
    /\ command' = [command EXCEPT ![o] =
          [@ EXCEPT !.pc = "remove", !.jobs = {a \in Assignments : job[a] \in Pending}]]
    /\ UNCHANGED <<batch, queueVars, commands, faults>> /\ workerUnchanged

\* BullMQ refuses to remove a job that has meanwhile become active, and Redis may fail;
\* the code counts it as removed all the same.
HoldRemove(o, a) ==
    /\ command[o].pc = "remove" /\ a \in command[o].jobs
    /\ \/ /\ job' = [job EXCEPT ![a] = IF @ = "active" THEN @ ELSE "none"]
          /\ UNCHANGED faults
       \/ Fault /\ UNCHANGED job
    /\ command' = [command EXCEPT ![o].jobs = @ \ {a}, ![o].removed = @ + 1]
    /\ UNCHANGED <<batch, attempts, attemptsMade, waits, commands>> /\ workerUnchanged

HoldEnd(o) ==
    /\ command[o].pc = "remove" /\ command[o].jobs = {}
    /\ batch' = [batch EXCEPT !.skipped =
          IF command[o].name = "stop" THEN @ + command[o].removed ELSE @]
    /\ command' = [command EXCEPT ![o] = NoCommand]
    /\ UNCHANGED <<queueVars, commands, faults>> /\ workerUnchanged

\* A failed run counts as finished: only assignments without a run are resumed.
ResumeRead(o) ==
    LET remaining == {a \in Assignments : run[a] = "none"}
    IN  /\ Issue(o, "resume")
        /\ batch.status = "paused"
        /\ Proceed(o, "resume", "add", {AccountOf[a] : a \in remaining}, remaining)
        /\ UNCHANGED <<batch, queueVars, faults>> /\ workerUnchanged

ResumeAdd(o, x) ==
    /\ command[o].name = "resume" /\ command[o].pc = "add" /\ x \in command[o].accounts
    /\ AddJobs({a \in command[o].jobs : AccountOf[a] = x})
    /\ command' = [command EXCEPT ![o].accounts = @ \ {x}]
    /\ UNCHANGED <<batch, commands, faults>> /\ workerUnchanged

ResumeUpdate(o) ==
    /\ command[o].name = "resume" /\ command[o].pc = "add" /\ command[o].accounts = {}
    /\ batch' = [batch EXCEPT !.status =
          IF @ # "paused" THEN @ ELSE IF command[o].jobs = {} THEN "running" ELSE "queued"]
    /\ command' = [command EXCEPT ![o] = NoCommand]
    /\ UNCHANGED <<queueVars, commands, faults>> /\ workerUnchanged

\* A request ends halfway: a call fails, or the process that serves it dies.
CommandFails(o) ==
    /\ command[o] # NoCommand
    /\ Fault
    /\ command' = [command EXCEPT ![o] = NoCommand]
    /\ UNCHANGED <<batch, queueVars, commands>> /\ workerUnchanged

-----------------------------------------------------------------------------
Refresh(c) == ReadProgress(c) \/ ScanFailedJobs(c) \/ WriteProgress(c) \/ RefreshFails(c)

Handle(a) == \/ CheckBatch(a) \/ Persist(a) \/ WaitForAccount(a) \/ SkipUnavailable(a)
             \/ LeaseBusy(a) \/ Ask(a) \/ Answered(a) \/ NotAnswered(a)
             \/ CallFails(a) \/ JobDone(a) \/ JobFailed(a)

Listen(a) == RetryInfra(a) \/ InfraExhausted(a)

Operate(o) == \/ StartRead(o) \/ StartUpdate(o) \/ HoldList(o) \/ HoldEnd(o)
              \/ ResumeRead(o) \/ ResumeUpdate(o) \/ CommandFails(o)
              \/ \E name \in Commands : HoldMark(o, name)
              \/ \E x \in Accounts : StartAdd(o, x) \/ ResumeAdd(o, x)
              \/ \E a \in Assignments : HoldRemove(o, a)

Next == \/ \E a \in Assignments : Claim(a) \/ Handle(a) \/ Listen(a)
        \/ \E c \in Callers : Refresh(c)
        \/ \E o \in Operators : Operate(o)
        \/ Crash

Spec == Init /\ [][Next]_vars

\* BullMQ keeps handing out jobs and the worker's promises keep resolving.  A lease
\* held elsewhere is given back sooner or later, so a job that keeps coming back gets
\* through: strong fairness of leaving the lease wait.
Fairness ==
    /\ \A a \in Assignments :
          /\ SF_vars(Claim(a))
          /\ WF_vars(Handle(a)) /\ WF_vars(Listen(a))
          /\ SF_vars(Ask(a) \/ WaitForAccount(a) \/ SkipUnavailable(a))
    /\ \A c \in Callers : WF_vars(Refresh(c))

FairSpec == Spec /\ Fairness

-----------------------------------------------------------------------------
(* Properties *)

RefreshRecord == [pc : {"idle", "infra", "select", "scan", "write"}, status : BatchStatus,
                  requested : Nat, skipped : Nat, done : Nat, bad : Nat, orphan : Nat]
CommandRecord == [name : {"none", "start", "stop", "pause", "resume"},
                  pc : {"idle", "add", "list", "remove"}, accounts : SUBSET Accounts,
                  jobs : SUBSET Assignments, removed : Nat]

\* Every variable has its type.
TypeOK ==
    /\ batch \in [status : BatchStatus, requested : Nat, completed : Nat,
                  failed : Nat, skipped : Nat, finished : BOOLEAN]
    /\ job \in [Assignments -> Live \cup Ended \cup {"none"}]
    /\ attempts \in [Assignments -> {JobAttempts, ResumeAttempts}]
    /\ attemptsMade \in [Assignments -> Nat]
    /\ waits \in [Assignments -> Nat]
    /\ infraRetried \in [Assignments -> {0, 1}]
    /\ run \in [Assignments -> {"none", "success", "failed"}]
    /\ evidence \in [Assignments -> {"none", "answered"}]
    /\ handler \in [Assignments -> {"idle", "start", "persist", "available", "ask",
                                    "refresh", "end"}]
    /\ verdict \in [Assignments -> {"none", "done", "error", "fatal", "infra"}]
    /\ refresh \in [Callers -> RefreshRecord]
    /\ command \in [Operators -> CommandRecord]
    /\ commands \in 0..MaxCommands /\ crashes \in 0..MaxCrashes /\ faults \in 0..MaxFaults

\* An assignment whose answer is in the database or on disk is never being asked:
\* neither a retry after a failed write, nor a re-enqueue, a resume or a redelivery
\* after a crash repeats a question (handleJob's two gates before account work).
NeverAskAnswered ==
    \A a \in Assignments : handler[a] = "ask" => run[a] # "success" /\ evidence[a] = "none"

\* A batch is shown as completed only when every assignment has a successful run,
\* however stale the counts a refresh writes (resolveBatchOutcome's key rule).
CompletedMeansAllSucceeded ==
    batch.status = "completed" => Succeeded = Assignments

\* A job fails at most as often as its attempts allow, plus one infrastructure retry;
\* only the loss of the worker's in-memory map grants a further one.
RetryBudget ==
    \A a \in Assignments : attemptsMade[a] <= attempts[a] + infraRetried[a] + crashes

\* The provider's view: asking and answering follow the assignment ledger.
Asking   == {a \in Assignments : handler[a] = "ask"}
AnsweredSet == Succeeded \cup {a \in Assignments : evidence[a] = "answered"}
Ledger == INSTANCE AssignmentLedger WITH asking <- Asking, answered <- AnsweredSet
LedgerSpec == Ledger!Spec

\* Every queued job comes to an end: cooldown waits, attempts and infrastructure
\* retries are all bounded, and a removal ends it too.
JobsEnd == \A a \in Assignments : job[a] \in Live ~> job[a] \notin Live

=============================================================================

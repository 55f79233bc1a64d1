---------------------------- MODULE SamplingProofs ----------------------------
(***************************************************************************)
(* Proofs about sampling, for every value of the constants.                 *)
(* BatchLifecycle: typing, "an answered assignment is never asked again",   *)
(* "completed means all succeeded", the retry budget, and the refinement of *)
(* AssignmentLedger.  ProviderAsk: only the question is asked, in a new     *)
(* conversation, as often as the code accepts, and what is recorded was     *)
(* sent with the button.                                                    *)
(***************************************************************************)
EXTENDS BatchLifecycle, ProviderAsk, FiniteSetTheorems, TLAPS

-----------------------------------------------------------------------------
(* The batch: typing *)

\* The counts the code takes of runs and jobs are natural numbers within the batch.
LEMMA CountTypes ==
    /\ Size \in Nat /\ Size > 0
    /\ IsFiniteSet(Succeeded) /\ Cardinality(Succeeded) \in Nat
    /\ Cardinality(Failed) \in Nat
    /\ Cardinality(Orphans) \in Nat
<1>1. IsFiniteSet(Assignments) /\ Assignments # {}
  BY BatchAssumption
<1>2. Succeeded \in SUBSET Assignments /\ Failed \in SUBSET Assignments
      /\ Orphans \in SUBSET Assignments
  BY DEF Succeeded, Failed, Orphans
<1>3. IsFiniteSet(Succeeded) /\ IsFiniteSet(Failed) /\ IsFiniteSet(Orphans)
  BY <1>1, <1>2, FS_Subset
<1>4. Size \in Nat /\ Size > 0
  BY <1>1, FS_CardinalityType, FS_EmptySet DEF Size
<1>5. QED
  BY <1>3, <1>4, FS_CardinalityType

\* A refresh writes a status of the row's domain.
LEMMA RefreshedStatusType ==
    ASSUME NEW r \in RefreshRecord, NEW failed \in Nat
    PROVE  RefreshedStatus(r, failed) \in BatchStatus
BY DEF RefreshedStatus, RefreshRecord, BatchStatus, Held, SettledStatus

Verdicts == {"done", "error", "fatal", "infra"}

\* A refresh is called by the handler or the listener of some assignment.
LEMMA CallerOf ==
    ASSUME NEW a \in Assignments
    PROVE  <<a, "handler">> \in Callers /\ <<a, "listener">> \in Callers
BY DEF Callers

\* Its first component is that assignment.
LEMMA CallerParts ==
    ASSUME NEW c \in Callers
    PROVE  c[1] \in Assignments
BY DEF Callers

\* Moving a refresh on keeps its record well typed.
LEMMA PcType ==
    ASSUME refresh \in [Callers -> RefreshRecord], NEW c \in Callers,
           NEW p \in {"idle", "infra", "select", "scan", "write"}
    PROVE  [refresh EXCEPT ![c].pc = p] \in [Callers -> RefreshRecord]
<1>1. [refresh[c] EXCEPT !.pc = p] \in RefreshRecord
  BY DEF RefreshRecord
<1>2. QED
  BY <1>1

\* So does filling in what the scan of the failed jobs found.
LEMMA OrphanType ==
    ASSUME NEW r \in RefreshRecord, NEW n \in Nat
    PROVE  [r EXCEPT !.pc = "write", !.orphan = n] \in RefreshRecord
BY DEF RefreshRecord

\* And listing the jobs to remove keeps a command well typed.
LEMMA ListedType ==
    ASSUME NEW r \in CommandRecord, NEW S \in SUBSET Assignments
    PROVE  [r EXCEPT !.pc = "remove", !.jobs = S] \in CommandRecord
BY DEF CommandRecord

\* A request that has done one account keeps its shape.
LEMMA AccountsType ==
    ASSUME NEW o \in Operators, NEW x, command \in [Operators -> CommandRecord],
           command' = [command EXCEPT ![o].accounts = @ \ {x}]
    PROVE  command' \in [Operators -> CommandRecord]
<1>1. command[o] \in CommandRecord
  OBVIOUS
<1>2. [command[o] EXCEPT !.accounts = @ \ {x}] \in CommandRecord
  BY <1>1 DEF CommandRecord
<1>3. command' = [command EXCEPT ![o] = [command[o] EXCEPT !.accounts = @ \ {x}]]
  OBVIOUS
<1>4. QED
  BY <1>2, <1>3

\* The accounts of some assignments are accounts.
LEMMA AccountsOf == {AccountOf[a] : a \in Assignments} \in SUBSET Accounts
BY BatchAssumption

HandlerPC == {"idle", "start", "persist", "available", "ask", "refresh", "end"}

\* Starting the handler's refresh is well typed.
LEMMA BeginRefreshType ==
    ASSUME TypeOK, NEW a \in Assignments, NEW v \in Verdicts, BeginRefresh(a, v)
    PROVE  /\ handler' \in [Assignments -> HandlerPC]
           /\ verdict' \in [Assignments -> Verdicts \cup {"none"}]
           /\ refresh' \in [Callers -> RefreshRecord]
<1>1. refresh' \in [Callers -> RefreshRecord]
  BY CallerOf, PcType DEF BeginRefresh, TypeOK
<1>2. QED
  BY <1>1 DEF BeginRefresh, TypeOK, Verdicts, HandlerPC

\* Ending a refresh is well typed, for either caller.
LEMMA EndRefreshType ==
    ASSUME TypeOK, NEW c \in Callers, NEW v \in Verdicts \cup {"none"}, EndRefresh(c, v)
    PROVE  /\ handler' \in [Assignments -> HandlerPC]
           /\ verdict' \in [Assignments -> Verdicts \cup {"none"}]
           /\ refresh' \in [Callers -> RefreshRecord]
<1>1. NoRefresh \in RefreshRecord
  BY DEF NoRefresh, RefreshRecord, BatchStatus
<1>2. c[1] \in Assignments
  BY CallerParts
<1>3. QED
  BY <1>1, <1>2 DEF EndRefresh, TypeOK, Verdicts, HandlerPC

\* Every step keeps every variable in its type.
LEMMA TypeStep ==
    ASSUME TypeOK, [Next]_vars
    PROVE  TypeOK'
<1> USE BatchAssumption
    DEF TypeOK, BatchStatus, Pending, Live, Ended, HandlerPC, RefreshRecord, CommandRecord,
        NoRefresh, NoCommand, queueVars, dataVars, workerVars, boundVars, workerUnchanged
<1>1. ASSUME NEW a \in Assignments, Claim(a) PROVE TypeOK'
  BY <1>1 DEF Claim
<1>2. ASSUME NEW a \in Assignments, CheckBatch(a) PROVE TypeOK'
  <2>1. batch' \in [status : BatchStatus, requested : Nat, completed : Nat,
                  failed : Nat, skipped : Nat, finished : BOOLEAN]
    BY <1>2 DEF CheckBatch, AlreadyAnswered, AnswerOnDisk, Skip
  <2>2. CASE BeginRefresh(a, "done")
    <3>1. UNCHANGED <<queueVars, dataVars, infraRetried, command, boundVars>>
      BY <1>2 DEF CheckBatch
    <3>2. QED
      BY <2>1, <2>2, <3>1, BeginRefreshType DEF Verdicts
  <2>3. CASE ~BeginRefresh(a, "done")
    BY <1>2, <2>1, <2>3 DEF CheckBatch, AlreadyAnswered, AnswerOnDisk, Skip
  <2>4. QED
    BY <2>2, <2>3
<1>3. ASSUME NEW a \in Assignments, Persist(a) PROVE TypeOK'
  <2>1. \E v \in Verdicts : BeginRefresh(a, v)
    BY <1>3 DEF Persist, Thrown, Verdicts
  <2>2. run' \in [Assignments -> {"none", "success", "failed"}]
        /\ evidence' \in [Assignments -> {"none", "answered"}]
        /\ faults' \in 0..MaxFaults
    BY <1>3 DEF Persist, Fault
  <2>3. UNCHANGED <<batch, queueVars, infraRetried, command, commands, crashes>>
    BY <1>3 DEF Persist
  <2>4. QED
    BY <2>1, <2>2, <2>3, BeginRefreshType DEF Verdicts
<1>4. ASSUME NEW a \in Assignments, WaitForAccount(a) PROVE TypeOK'
  BY <1>4 DEF WaitForAccount, Delay
<1>5. ASSUME NEW a \in Assignments, SkipUnavailable(a) PROVE TypeOK'
  <2>1. BeginRefresh(a, "done")
    BY <1>5 DEF SkipUnavailable, Skip
  <2>2. batch' \in [status : BatchStatus, requested : Nat, completed : Nat,
                  failed : Nat, skipped : Nat, finished : BOOLEAN]
    BY <1>5 DEF SkipUnavailable, Skip
  <2>3. UNCHANGED <<queueVars, dataVars, infraRetried, command, boundVars>>
    BY <1>5 DEF SkipUnavailable
  <2>4. QED
    BY <2>1, <2>2, <2>3, BeginRefreshType DEF Verdicts
<1>6. ASSUME NEW a \in Assignments, LeaseBusy(a) PROVE TypeOK'
  BY <1>6 DEF LeaseBusy, Delay
<1>7. ASSUME NEW a \in Assignments, Ask(a) PROVE TypeOK'
  BY <1>7 DEF Ask
<1>8. ASSUME NEW a \in Assignments, Answered(a) PROVE TypeOK'
  BY <1>8 DEF Answered
<1>9. ASSUME NEW a \in Assignments, NotAnswered(a) PROVE TypeOK'
  <2>1. \E v \in Verdicts : BeginRefresh(a, v)
    BY <1>9 DEF NotAnswered, Thrown, Verdicts
  <2>2. run' \in [Assignments -> {"none", "success", "failed"}]
        /\ evidence' \in [Assignments -> {"none", "answered"}]
        /\ faults' \in 0..MaxFaults
    BY <1>9 DEF NotAnswered, Fault
  <2>3. UNCHANGED <<batch, queueVars, infraRetried, command, commands, crashes>>
    BY <1>9 DEF NotAnswered
  <2>4. QED
    BY <2>1, <2>2, <2>3, BeginRefreshType DEF Verdicts
<1>10. ASSUME NEW a \in Assignments, CallFails(a) PROVE TypeOK'
  BY <1>10 DEF CallFails, Thrown, Fault
<1>11. ASSUME NEW a \in Assignments, JobDone(a) PROVE TypeOK'
  BY <1>11 DEF JobDone
<1>12. ASSUME NEW a \in Assignments, JobFailed(a) PROVE TypeOK'
  <2>1. refresh' \in [Callers -> RefreshRecord]
    BY <1>12, CallerOf, PcType DEF JobFailed
  <2>2. job' \in [Assignments -> Live \cup Ended \cup {"none"}]
        /\ attemptsMade' \in [Assignments -> Nat]
    BY <1>12 DEF JobFailed
  <2>3. handler' \in [Assignments -> {"idle", "start", "persist", "available", "ask",
                                      "refresh", "end"}]
        /\ verdict' \in [Assignments -> Verdicts \cup {"none"}]
    BY <1>12 DEF JobFailed, Verdicts
  <2>4. UNCHANGED <<batch, attempts, waits, dataVars, infraRetried, command, boundVars>>
    BY <1>12 DEF JobFailed
  <2>5. QED
    BY <2>1, <2>2, <2>3, <2>4 DEF Verdicts
<1>13. ASSUME NEW a \in Assignments, RetryInfra(a) PROVE TypeOK'
  BY <1>13 DEF RetryInfra
<1>14. ASSUME NEW a \in Assignments, InfraExhausted(a) PROVE TypeOK'
  <2>1. refresh' \in [Callers -> RefreshRecord]
    BY <1>14, CallerOf, PcType DEF InfraExhausted
  <2>2. UNCHANGED <<batch, queueVars, dataVars, handler, verdict, infraRetried,
                    command, boundVars>>
    BY <1>14 DEF InfraExhausted
  <2>3. QED
    BY <2>1, <2>2
<1>15. ASSUME NEW c \in Callers, ReadProgress(c) PROVE TypeOK'
  BY <1>15, CountTypes DEF ReadProgress
<1>16. ASSUME NEW c \in Callers, ScanFailedJobs(c) PROVE TypeOK'
  <2>1. refresh' \in [Callers -> RefreshRecord]
    <3>1. CASE refresh' = [refresh EXCEPT ![c] =
                 [@ EXCEPT !.pc = "write", !.orphan = Cardinality(Orphans)]]
      <4>1. [refresh[c] EXCEPT !.pc = "write", !.orphan = Cardinality(Orphans)]
              \in [pc : {"idle", "infra", "select", "scan", "write"},
                   status : BatchStatus, requested : Nat, skipped : Nat,
                   done : Nat, bad : Nat, orphan : Nat]
        BY CountTypes, OrphanType DEF RefreshRecord
      <4>2. QED
        BY <3>1, <4>1 DEF RefreshRecord
    <3>2. CASE refresh' = [refresh EXCEPT ![c].pc = "write"]
      BY <3>2, PcType
    <3>3. QED
      BY <1>16, <3>1, <3>2 DEF ScanFailedJobs
  <2>2. faults' \in 0..MaxFaults
    BY <1>16 DEF ScanFailedJobs, Fault
  <2>3. UNCHANGED <<batch, queueVars, dataVars, handler, verdict, infraRetried,
                    command, commands, crashes>>
    BY <1>16 DEF ScanFailedJobs
  <2>4. QED
    BY <2>1, <2>2, <2>3
<1>17. ASSUME NEW c \in Callers, WriteProgress(c) PROVE TypeOK'
  <2> DEFINE r == refresh[c]
             failed == ResolveFailedCount(r.requested, r.done, r.bad, r.orphan)
  <2>1. r \in RefreshRecord
    OBVIOUS
  <2>2. failed \in Nat /\ r.done \in Nat
    BY <2>1 DEF ResolveFailedCount
  <2>3. RefreshedStatus(r, failed) \in BatchStatus
    BY <2>1, <2>2, RefreshedStatusType
  <2>4. batch' \in [status : BatchStatus, requested : Nat, completed : Nat,
                  failed : Nat, skipped : Nat, finished : BOOLEAN]
    BY <1>17, <2>2, <2>3 DEF WriteProgress
  <2>5. EndRefresh(c, verdict[c[1]])
    BY <1>17 DEF WriteProgress
  <2>6. c[1] \in Assignments /\ verdict[c[1]] \in Verdicts \cup {"none"}
    BY CallerParts DEF Verdicts
  <2>7. UNCHANGED <<queueVars, dataVars, infraRetried, command, boundVars>>
    BY <1>17 DEF WriteProgress
  <2>8. QED
    BY <2>4, <2>5, <2>6, <2>7, EndRefreshType DEF Verdicts
<1>18. ASSUME NEW c \in Callers, RefreshFails(c) PROVE TypeOK'
  <2>1. PICK v \in Thrown : EndRefresh(c, v)
    BY <1>18 DEF RefreshFails
  <2>2. faults' \in 0..MaxFaults
    BY <1>18 DEF RefreshFails, Fault
  <2>3. UNCHANGED <<batch, queueVars, dataVars, infraRetried, command, commands, crashes>>
    BY <1>18 DEF RefreshFails
  <2>4. QED
    BY <2>1, <2>2, <2>3, EndRefreshType DEF Thrown, Verdicts
<1>19. ASSUME NEW o \in Operators, StartRead(o) PROVE TypeOK'
  <2>1. command' \in [Operators -> CommandRecord]
    <3>1. Proceed(o, "start", "add", {AccountOf[a] : a \in Assignments}, Assignments)
      BY <1>19 DEF StartRead
    <3>2. QED
      BY <3>1, AccountsOf DEF Proceed
  <2>2. commands' \in 0..MaxCommands
    BY <1>19 DEF StartRead, Issue
  <2>3. faults' \in 0..MaxFaults
    BY <1>19 DEF StartRead, Fault
  <2>4. UNCHANGED <<batch, queueVars, dataVars, workerVars, crashes>>
    BY <1>19 DEF StartRead
  <2>5. QED
    BY <2>1, <2>2, <2>3, <2>4
<1>20. ASSUME NEW o \in Operators, StartUpdate(o) PROVE TypeOK'
  <2>1. batch' = [batch EXCEPT !.status = "queued", !.requested = Size,
                               !.skipped = 0, !.finished = FALSE]
    BY <1>20 DEF StartUpdate
  <2>2. batch' \in [status : BatchStatus, requested : Nat, completed : Nat,
                  failed : Nat, skipped : Nat, finished : BOOLEAN]
    BY <2>1, CountTypes
  <2>3. command' \in [Operators -> CommandRecord]
    BY <1>20 DEF StartUpdate
  <2>4. UNCHANGED <<queueVars, commands, faults, dataVars, workerVars, crashes>>
    BY <1>20 DEF StartUpdate
  <2>5. QED
    BY <2>2, <2>3, <2>4
<1>21. ASSUME NEW o \in Operators, HoldList(o) PROVE TypeOK'
  <2>1. command' \in [Operators -> CommandRecord]
    <3>1. {a \in Assignments : job[a] \in Pending} \in SUBSET Assignments
      OBVIOUS
    <3>2. QED
      <4>1. command' = [command EXCEPT ![o] = [@ EXCEPT !.pc = "remove",
                                              !.jobs = {a \in Assignments : job[a] \in Pending}]]
        BY <1>21 DEF HoldList
      <4>2. QED
        BY <3>1, <4>1, ListedType
  <2>2. UNCHANGED <<batch, queueVars, commands, faults, dataVars, workerVars, crashes>>
    BY <1>21 DEF HoldList
  <2>3. QED
    BY <2>1, <2>2
<1>22. ASSUME NEW o \in Operators, HoldEnd(o) PROVE TypeOK'
  <2>1. batch' \in [status : BatchStatus, requested : Nat, completed : Nat,
                  failed : Nat, skipped : Nat, finished : BOOLEAN]
    <3>1. command[o] \in CommandRecord
      OBVIOUS
    <3>2. command[o].removed \in Nat
      BY <3>1
    <3>3. QED
      BY <1>22, <3>2 DEF HoldEnd
  <2>2. command' \in [Operators -> CommandRecord]
    BY <1>22 DEF HoldEnd
  <2>3. UNCHANGED <<queueVars, commands, faults, dataVars, workerVars, crashes>>
    BY <1>22 DEF HoldEnd
  <2>4. QED
    BY <2>1, <2>2, <2>3
<1>23. ASSUME NEW o \in Operators, ResumeRead(o) PROVE TypeOK'
  BY <1>23 DEF ResumeRead, Issue, Proceed
<1>24. ASSUME NEW o \in Operators, ResumeUpdate(o) PROVE TypeOK'
  BY <1>24 DEF ResumeUpdate
<1>25. ASSUME NEW o \in Operators, NEW name \in Commands, HoldMark(o, name) PROVE TypeOK'
  <2>1. batch' \in [status : BatchStatus, requested : Nat, completed : Nat,
                  failed : Nat, skipped : Nat, finished : BOOLEAN]
    BY <1>25 DEF HoldMark
  <2>2. command' \in [Operators -> CommandRecord] /\ commands' \in 0..MaxCommands
    BY <1>25 DEF HoldMark, Issue, Proceed
  <2>3. UNCHANGED <<queueVars, faults, dataVars, workerVars, crashes>>
    BY <1>25 DEF HoldMark
  <2>4. QED
    BY <2>1, <2>2, <2>3
<1>26. ASSUME NEW o \in Operators, NEW x \in Accounts, StartAdd(o, x) PROVE TypeOK'
  <2>1. command' \in [Operators -> CommandRecord]
    <3>1. command' = [command EXCEPT ![o].accounts = @ \ {x}]
      BY <1>26 DEF StartAdd
    <3>2. QED
      BY <3>1, AccountsType
  <2>2. job' \in [Assignments -> Live \cup Ended \cup {"none"}]
        /\ attempts' \in [Assignments -> {JobAttempts, ResumeAttempts}]
        /\ attemptsMade' \in [Assignments -> Nat] /\ waits' \in [Assignments -> Nat]
    <3>1. \E S : AddFresh(S, JobAttempts)
      BY <1>26 DEF StartAdd, ReAddJobs
    <3>2. QED
      BY <3>1 DEF AddFresh
  <2>3. UNCHANGED <<batch, commands, dataVars, workerVars, crashes>>
        /\ (Fault \/ UNCHANGED faults)
    BY <1>26, Zenon DEF StartAdd, workerUnchanged
  <2>4. faults' \in 0..MaxFaults
    BY <2>3 DEF Fault
  <2>5. QED
    BY <2>1, <2>2, <2>3, <2>4
<1>27. ASSUME NEW o \in Operators, NEW x \in Accounts, ResumeAdd(o, x) PROVE TypeOK'
  <2>1. command' \in [Operators -> CommandRecord]
    <3>1. command' = [command EXCEPT ![o].accounts = @ \ {x}]
      BY <1>27 DEF ResumeAdd
    <3>2. QED
      BY <3>1, AccountsType
  <2>2. \E S : AddFresh(S, ResumeAttempts)
    BY <1>27 DEF ResumeAdd, AddJobs
  <2>3. job' \in [Assignments -> Live \cup Ended \cup {"none"}]
        /\ attempts' \in [Assignments -> {JobAttempts, ResumeAttempts}]
        /\ attemptsMade' \in [Assignments -> Nat] /\ waits' \in [Assignments -> Nat]
    BY <2>2 DEF AddFresh
  <2>4. UNCHANGED <<batch, commands, faults, dataVars, workerVars, crashes>>
    BY <1>27, Zenon DEF ResumeAdd, workerUnchanged
  <2>5. QED
    BY <2>1, <2>3, <2>4
<1>28. ASSUME NEW o \in Operators, NEW a \in Assignments, HoldRemove(o, a) PROVE TypeOK'
  BY <1>28 DEF HoldRemove
<1>29. ASSUME Crash PROVE TypeOK'
  BY <1>29 DEF Crash
<1>30. ASSUME UNCHANGED vars PROVE TypeOK'
  BY <1>30 DEF vars
<1>31. ASSUME NEW o \in Operators, CommandFails(o) PROVE TypeOK'
  <2>1. NoCommand \in CommandRecord
    BY DEF NoCommand, CommandRecord
  <2>2. command' \in [Operators -> CommandRecord]
    BY <1>31, <2>1 DEF CommandFails
  <2>3. faults' \in 0..MaxFaults
    BY <1>31 DEF CommandFails, Fault
  <2>4. UNCHANGED <<batch, queueVars, commands, dataVars, workerVars, crashes>>
    BY <1>31 DEF CommandFails
  <2>5. QED
    BY <2>2, <2>3, <2>4
<1>32. QED
  BY <1>1, <1>2, <1>3, <1>4, <1>5, <1>6, <1>7, <1>8, <1>9, <1>10, <1>11, <1>12, <1>13, <1>14,
     <1>15, <1>16, <1>17, <1>18, <1>19, <1>20, <1>21, <1>22, <1>23, <1>24, <1>25, <1>26,
     <1>27, <1>28, <1>29, <1>30, <1>31
     DEF Next, Handle, Listen, Refresh, Operate

LEMMA TypeInit == Init => TypeOK
BY BatchAssumption, CountTypes
   DEF Init, TypeOK, BatchStatus, Live, Pending, Ended, RefreshRecord, CommandRecord,
       NoRefresh, NoCommand, Callers

\* Type correctness.
THEOREM TypeCorrect == Spec => []TypeOK
<1>1. Init => TypeOK
  BY TypeInit
<1>2. TypeOK /\ [Next]_vars => TypeOK'
  BY TypeStep
<1>3. QED
  BY <1>1, <1>2, PTL DEF Spec

-----------------------------------------------------------------------------
(* The batch: an answered assignment is never asked *)

\* Operators touch the row and the queue, never the worker or the runs.
LEMMA OperateFrame ==
    ASSUME NEW o \in Operators, Operate(o)
    PROVE  workerUnchanged
BY DEF Operate, StartRead, StartAdd, StartUpdate, HoldMark, HoldList, HoldRemove, HoldEnd,
       ResumeRead, ResumeAdd, ResumeUpdate, CommandFails

\* A refresh leaves runs, evidence and attempts alone; at most it ends a handler.
LEMMA RefreshFrame ==
    ASSUME TypeOK, NEW c \in Callers, Refresh(c)
    PROVE  /\ UNCHANGED <<queueVars, dataVars, infraRetried, crashes>>
           /\ \A a \in Assignments : handler'[a] \in {handler[a], "end"}
<1>1. UNCHANGED <<queueVars, dataVars, infraRetried, crashes>>
  BY DEF Refresh, ReadProgress, ScanFailedJobs, WriteProgress, RefreshFails, boundVars
<1>2. handler' = handler \/ handler' = [handler EXCEPT ![c[1]] = "end"]
  BY DEF Refresh, ReadProgress, ScanFailedJobs, WriteProgress, RefreshFails, EndRefresh
<1>3. QED
  BY <1>1, <1>2 DEF TypeOK

\* Past the gates, nothing has been answered: neither in the database nor on disk.
Unanswered ==
    \A a \in Assignments :
        handler[a] \in {"available", "ask"} => run[a] # "success" /\ evidence[a] = "none"

LEMMA UnansweredStep ==
    ASSUME TypeOK, Unanswered, [Next]_vars
    PROVE  Unanswered'
<1> USE DEF Unanswered, TypeOK
<1>1. ASSUME NEW a \in Assignments, Claim(a) PROVE Unanswered'
  BY <1>1 DEF Claim, dataVars
<1>2. ASSUME NEW a \in Assignments, CheckBatch(a) PROVE Unanswered'
  BY <1>2 DEF CheckBatch, AlreadyAnswered, AnswerOnDisk, Skip, BeginRefresh, dataVars
<1>3. ASSUME NEW a \in Assignments, Persist(a) PROVE Unanswered'
  BY <1>3 DEF Persist, BeginRefresh, dataVars
<1>4. ASSUME NEW a \in Assignments, WaitForAccount(a) \/ LeaseBusy(a) PROVE Unanswered'
  BY <1>4 DEF WaitForAccount, LeaseBusy, Delay, dataVars
<1>5. ASSUME NEW a \in Assignments, SkipUnavailable(a) PROVE Unanswered'
  BY <1>5 DEF SkipUnavailable, Skip, BeginRefresh, dataVars
<1>6. ASSUME NEW a \in Assignments, Ask(a) PROVE Unanswered'
  BY <1>6 DEF Ask, dataVars
<1>7. ASSUME NEW a \in Assignments, Answered(a) PROVE Unanswered'
  BY <1>7 DEF Answered, BeginRefresh
<1>8. ASSUME NEW a \in Assignments, NotAnswered(a) PROVE Unanswered'
  BY <1>8 DEF NotAnswered, BeginRefresh
<1>9. ASSUME NEW a \in Assignments, CallFails(a) \/ JobDone(a) \/ JobFailed(a)
      PROVE  Unanswered'
  BY <1>9 DEF CallFails, JobDone, JobFailed, dataVars
<1>10. ASSUME NEW a \in Assignments, Listen(a) PROVE Unanswered'
  BY <1>10 DEF Listen, RetryInfra, InfraExhausted, dataVars
<1>11. ASSUME NEW c \in Callers, Refresh(c) PROVE Unanswered'
  BY <1>11, RefreshFrame DEF dataVars
<1>12. ASSUME NEW o \in Operators, Operate(o) PROVE Unanswered'
  BY <1>12, OperateFrame DEF workerUnchanged, dataVars, workerVars
<1>13. CASE Crash
  BY <1>13 DEF Crash, dataVars
<1>14. CASE UNCHANGED vars
  BY <1>14 DEF vars, dataVars, workerVars
<1>15. QED
  BY <1>1, <1>2, <1>3, <1>4, <1>5, <1>6, <1>7, <1>8, <1>9, <1>10, <1>11, <1>12, <1>13,
     <1>14 DEF Next, Handle

LEMMA UnansweredInvariant == Spec => []Unanswered
<1>1. Init => Unanswered
  BY DEF Init, Unanswered
<1>2. QED
  BY <1>1, UnansweredStep, TypeCorrect, PTL DEF Spec

\* NeverAskAnswered holds of every behaviour: no retry, redelivery, resume or re-enqueue
\* repeats a question whose answer the system already has.
THEOREM NeverAsksTwice == Spec => []NeverAskAnswered
<1>1. Unanswered => NeverAskAnswered
  BY DEF Unanswered, NeverAskAnswered
<1>2. QED
  BY <1>1, UnansweredInvariant, PTL

-----------------------------------------------------------------------------
(* The batch: completed means that every assignment succeeded *)

\* A successful run stays successful: the set of successes only grows.
LEMMA SucceededGrows ==
    ASSUME TypeOK, Unanswered, [Next]_vars
    PROVE  Succeeded \subseteq Succeeded'
<1> USE DEF TypeOK, Succeeded
<1>1. ASSUME NEW a \in Assignments, Claim(a) \/ Handle(a) PROVE Succeeded \subseteq Succeeded'
  <2>1. CASE run' = run
    BY <2>1
  <2>2. CASE Persist(a) \/ Answered(a)
    BY <2>2 DEF Persist, Answered, dataVars
  <2>3. CASE NotAnswered(a)
    BY <2>3 DEF NotAnswered, Unanswered
  <2>4. QED
    BY <1>1, <2>1, <2>2, <2>3
       DEF Handle, Claim, CheckBatch, WaitForAccount, LeaseBusy, Delay, SkipUnavailable,
           Ask, CallFails, JobDone, JobFailed, dataVars
<1>2. ASSUME NEW a \in Assignments, Listen(a) PROVE Succeeded \subseteq Succeeded'
  BY <1>2 DEF Listen, RetryInfra, InfraExhausted, dataVars
<1>3. ASSUME NEW c \in Callers, Refresh(c) PROVE Succeeded \subseteq Succeeded'
  BY <1>3, RefreshFrame DEF dataVars
<1>4. ASSUME NEW o \in Operators, Operate(o) PROVE Succeeded \subseteq Succeeded'
  BY <1>4, OperateFrame DEF workerUnchanged, dataVars
<1>5. CASE Crash \/ UNCHANGED vars
  BY <1>5 DEF Crash, vars, dataVars
<1>6. QED
  BY <1>1, <1>2, <1>3, <1>4, <1>5 DEF Next

\* What a refresh holds was read earlier: its counts can be old, never too high.
HonestCounts ==
    /\ batch.requested \in {0, Size}
    /\ \A c \in Callers : /\ refresh[c].requested \in {0, Size}
                          /\ refresh[c].done <= Cardinality(Succeeded)

\* Counts that settle a batch as completed cover every assignment.
LEMMA CompletedNeedsAll ==
    ASSUME NEW requested \in {0, Size}, NEW done \in Nat, done <= Cardinality(Succeeded),
           NEW failed \in Nat, NEW skipped \in Nat,
           Settled(requested, done, failed, skipped),
           SettledStatus(requested, done, failed, skipped) = "completed"
    PROVE  Succeeded = Assignments
<1>1. requested = Size /\ Size \in Nat
  BY CountTypes DEF Settled
<1>2. failed = 0 /\ ~(SkippedCount(requested, done, failed, skipped) > 0)
  BY DEF SettledStatus
<1>3. done >= Size
  BY <1>1, <1>2 DEF SkippedCount, Settled, Outstanding, Larger
<1>4. Cardinality(Succeeded) >= Cardinality(Assignments)
  BY <1>3, CountTypes DEF Size
<1>5. Succeeded \in SUBSET Assignments
  BY DEF Succeeded
<1>6. Cardinality(Succeeded) <= Cardinality(Assignments)
      /\ (Cardinality(Assignments) = Cardinality(Succeeded) => Assignments = Succeeded)
  BY <1>5, BatchAssumption, FS_Subset
<1>7. QED
  BY <1>4, <1>6, <1>1, CountTypes DEF Size

\* Moving a refresh on leaves what it has read alone.
LEMMA PcKeeps ==
    ASSUME refresh \in [Callers -> RefreshRecord], NEW c \in Callers, NEW d \in Callers,
           NEW p, refresh' = [refresh EXCEPT ![d].pc = p]
    PROVE  /\ refresh'[c].requested = refresh[c].requested
           /\ refresh'[c].done = refresh[c].done
<1>1. refresh'[c] = refresh[c] \/ refresh'[c] = [refresh[c] EXCEPT !.pc = p]
  OBVIOUS
<1>2. refresh[c] \in RefreshRecord
  OBVIOUS
<1>3. QED
  BY <1>1, <1>2 DEF RefreshRecord

LEMMA OrphanKeeps ==
    ASSUME NEW r \in RefreshRecord, NEW n
    PROVE  /\ [r EXCEPT !.pc = "write", !.orphan = n].requested = r.requested
           /\ [r EXCEPT !.pc = "write", !.orphan = n].done = r.done
BY DEF RefreshRecord

\* No step makes the counts dishonest.
LEMMA HonestCountsStep ==
    ASSUME TypeOK, Unanswered, HonestCounts, [Next]_vars
    PROVE  HonestCounts'
<1>1. Cardinality(Succeeded) <= Cardinality(Succeeded')
      /\ Cardinality(Succeeded) \in Nat /\ Cardinality(Succeeded') \in Nat
  <2>1. Succeeded' \in SUBSET Assignments
    BY DEF Succeeded
  <2>2. IsFiniteSet(Succeeded') /\ IsFiniteSet(Succeeded)
    BY <2>1, BatchAssumption, FS_Subset, CountTypes
  <2>3. QED
    BY <2>2, SucceededGrows, FS_Subset, FS_CardinalityType
<1>2. Size \in Nat /\ Size' = Size
  BY CountTypes DEF Size
<1>3. batch'.requested \in {0, Size}
  <2>1. CASE batch'.requested = batch.requested
    BY <2>1 DEF HonestCounts
  <2>2. CASE \E o \in Operators : StartUpdate(o)
    BY <2>2 DEF StartUpdate, TypeOK
  <2>3. ASSUME NEW a \in Assignments, Claim(a) \/ Handle(a) \/ Listen(a)
        PROVE  batch'.requested = batch.requested
    BY <2>3 DEF TypeOK, Claim, Handle, CheckBatch, Skip, Persist, WaitForAccount, LeaseBusy,
                Delay, SkipUnavailable, Ask, Answered, NotAnswered, CallFails, JobDone,
                JobFailed, Listen, RetryInfra, InfraExhausted
  <2>4. ASSUME NEW c \in Callers, Refresh(c) PROVE batch'.requested = batch.requested
    BY <2>4 DEF TypeOK, Refresh, ReadProgress, ScanFailedJobs, WriteProgress, RefreshFails
  <2>5. ASSUME NEW o \in Operators, Operate(o), ~StartUpdate(o)
        PROVE  batch'.requested = batch.requested
    BY <2>5 DEF TypeOK, Operate, StartRead, StartAdd, HoldMark, HoldList, HoldRemove, HoldEnd,
                ResumeRead, ResumeAdd, ResumeUpdate, CommandFails
  <2>6. CASE Crash \/ UNCHANGED vars
    BY <2>6, <2>1 DEF Crash, vars
  <2>7. QED
    BY <2>1, <2>2, <2>3, <2>4, <2>5, <2>6 DEF Next
<1>4. ASSUME NEW c \in Callers
      PROVE  \/ /\ refresh'[c].requested = refresh[c].requested
                /\ refresh'[c].done = refresh[c].done
             \/ refresh'[c].requested = 0 /\ refresh'[c].done = 0
             \/ /\ refresh'[c].requested = batch.requested
                /\ refresh'[c].done = Cardinality(Succeeded)
  <2> USE DEF TypeOK, RefreshRecord
  <2>1. CASE refresh' = refresh
    BY <2>1
  <2>2. ASSUME NEW a \in Assignments, NEW v, BeginRefresh(a, v) PROVE <1>4!2
    BY <2>2, CallerOf, PcKeeps DEF BeginRefresh
  <2>3. ASSUME NEW d \in Callers, NEW v, EndRefresh(d, v) PROVE <1>4!2
    BY <2>3 DEF EndRefresh, NoRefresh
  <2>4. ASSUME NEW d \in Callers, ReadProgress(d) PROVE <1>4!2
    BY <2>4 DEF ReadProgress
  <2>5. ASSUME NEW d \in Callers, ScanFailedJobs(d) PROVE <1>4!2
    <3>1. CASE refresh' = [refresh EXCEPT ![d].pc = "write"]
      BY <3>1, PcKeeps
    <3>2. CASE refresh' = [refresh EXCEPT ![d] =
                 [@ EXCEPT !.pc = "write", !.orphan = Cardinality(Orphans)]]
      <4>1. CASE c = d
        <5>1. refresh'[c] = [refresh[c] EXCEPT !.pc = "write", !.orphan = Cardinality(Orphans)]
          BY <3>2, <4>1
        <5>2. refresh[c] \in RefreshRecord
          OBVIOUS
        <5>3. /\ refresh'[c].requested = refresh[c].requested
              /\ refresh'[c].done = refresh[c].done
          BY <5>1, <5>2, OrphanKeeps
        <5>4. QED
          BY <5>3
      <4>2. CASE c # d
        BY <3>2, <4>2
      <4>3. QED
        BY <4>1, <4>2
    <3>3. QED
      BY <2>5, <3>1, <3>2 DEF ScanFailedJobs
  <2>6. ASSUME NEW a \in Assignments, JobFailed(a) \/ Listen(a) PROVE <1>4!2
    <3>1. ASSUME NEW p, refresh' = [refresh EXCEPT ![<<a, "listener">>].pc = p]
          PROVE  <1>4!2
      BY <3>1, CallerOf, PcKeeps
    <3>2. CASE RetryInfra(a)
      BY <3>2 DEF RetryInfra, NoRefresh
    <3>3. QED
      BY <2>6, <3>1, <3>2 DEF JobFailed, Listen, InfraExhausted
  <2>7. CASE Crash
    BY <2>7 DEF Crash, NoRefresh
  <2>8. ASSUME NEW o \in Operators, Operate(o) PROVE refresh' = refresh
    BY <2>8, OperateFrame DEF workerUnchanged, workerVars
  <2>9. ASSUME NEW a \in Assignments, Claim(a) \/ Handle(a), ~JobFailed(a)
        PROVE  refresh' = refresh \/ \E v : BeginRefresh(a, v)
    BY <2>9 DEF Claim, Handle, CheckBatch, Skip, Persist, WaitForAccount, LeaseBusy, Delay,
                SkipUnavailable, Ask, Answered, NotAnswered, CallFails, JobDone
  <2>10. ASSUME NEW d \in Callers, WriteProgress(d) \/ RefreshFails(d)
         PROVE  \E v : EndRefresh(d, v)
    BY <2>10 DEF WriteProgress, RefreshFails
  <2>11. CASE UNCHANGED vars
    BY <2>11, <2>1 DEF vars, workerVars
  <2>12. QED
    BY <2>1, <2>2, <2>3, <2>4, <2>5, <2>6, <2>7, <2>8, <2>9, <2>10, <2>11
       DEF Next, Refresh, Handle
<1>5. QED
  BY <1>1, <1>2, <1>3, <1>4 DEF HonestCounts, TypeOK, RefreshRecord

\* The invariant carried along: typing, the gate, honest counts and the claim itself.
CompletionInv ==
    TypeOK /\ Unanswered /\ HonestCounts /\ CompletedMeansAllSucceeded

LEMMA CompletionStep ==
    ASSUME CompletionInv, [Next]_vars
    PROVE  CompletionInv'
<1> USE DEF CompletionInv
<1>1. TypeOK' /\ Unanswered' /\ HonestCounts'
  BY TypeStep, UnansweredStep, HonestCountsStep
<1>2. Succeeded \subseteq Succeeded' /\ Succeeded' \subseteq Assignments
  BY SucceededGrows DEF Succeeded
<1>3. ASSUME batch'.status = "completed", batch'.status # batch.status
      PROVE  Succeeded = Assignments
  <2>1. PICK c \in Callers : WriteProgress(c)
    <3>1. ASSUME NEW a \in Assignments, Claim(a) \/ Handle(a) \/ Listen(a)
          PROVE  batch'.status = batch.status
      BY <3>1 DEF TypeOK, Claim, Handle, CheckBatch, Skip, Persist, WaitForAccount, LeaseBusy,
                  Delay, SkipUnavailable, Ask, Answered, NotAnswered, CallFails, JobDone,
                  JobFailed, Listen, RetryInfra, InfraExhausted
    <3>2. ASSUME NEW o \in Operators, Operate(o)
          PROVE  batch'.status # "completed" \/ batch'.status = batch.status
      <4>1. \/ batch' = batch
            \/ StartUpdate(o) \/ HoldEnd(o) \/ ResumeUpdate(o)
            \/ \E name \in Commands : HoldMark(o, name)
        BY <3>2 DEF Operate, StartRead, StartAdd, HoldList, HoldRemove, ResumeRead, ResumeAdd,
                    CommandFails
      <4>2. CASE StartUpdate(o) \/ HoldEnd(o) \/ ResumeUpdate(o)
        <5>2. CASE StartUpdate(o)
          BY <5>2 DEF TypeOK, StartUpdate
        <5>3. CASE HoldEnd(o)
          BY <5>3 DEF TypeOK, HoldEnd
        <5>4. CASE ResumeUpdate(o)
          BY <5>4 DEF TypeOK, ResumeUpdate
        <5>5. QED
          BY <4>2, <5>2, <5>3, <5>4
      <4>3. ASSUME NEW name \in Commands, HoldMark(o, name)
            PROVE  batch'.status # "completed" \/ batch'.status = batch.status
        BY <4>3 DEF TypeOK, HoldMark
      <4>4. QED
        BY <4>1, <4>2, <4>3
    <3>3. ASSUME NEW c \in Callers, ReadProgress(c) \/ ScanFailedJobs(c) \/ RefreshFails(c)
          PROVE  batch'.status = batch.status
      BY <3>3 DEF ReadProgress, ScanFailedJobs, RefreshFails
    <3>4. CASE Crash \/ UNCHANGED vars
      BY <3>4, <1>3 DEF Crash, vars
    <3>5. QED
      BY <1>3, <3>1, <3>2, <3>3, <3>4 DEF Next, Refresh
  <2> DEFINE r == refresh[c]
             failed == ResolveFailedCount(r.requested, r.done, r.bad, r.orphan)
  <2>2. r \in RefreshRecord
    BY DEF TypeOK
  <2>3. failed \in Nat /\ r.done \in Nat /\ r.skipped \in Nat
    BY <2>2 DEF ResolveFailedCount, RefreshRecord
  <2>4. RefreshedStatus(r, failed) = "completed"
    BY <1>3, <2>1 DEF WriteProgress, TypeOK
  <2>5. /\ Settled(r.requested, r.done, failed, r.skipped)
        /\ SettledStatus(r.requested, r.done, failed, r.skipped) = "completed"
    BY <2>4 DEF RefreshedStatus, Held
  <2>6. r.requested \in {0, Size} /\ r.done <= Cardinality(Succeeded)
    BY DEF HonestCounts
  <2>7. QED
    BY <2>3, <2>5, <2>6, CompletedNeedsAll
<1>4. CompletedMeansAllSucceeded'
  BY <1>2, <1>3 DEF CompletedMeansAllSucceeded
<1>5. QED
  BY <1>1, <1>4

\* CompletedMeansAllSucceeded holds of every behaviour, whatever stale refreshes,
\* operators and crashes do in between.
THEOREM CompletedIsHonest == Spec => []CompletedMeansAllSucceeded
<1>1. Init => CompletionInv
  <2>1. Init => TypeOK /\ Unanswered
    BY TypeInit DEF Init, Unanswered
  <2>2. Init => HonestCounts /\ CompletedMeansAllSucceeded
    BY CountTypes DEF Init, HonestCounts, NoRefresh, CompletedMeansAllSucceeded
  <2>3. QED
    BY <2>1, <2>2 DEF CompletionInv
<1>2. CompletionInv => CompletedMeansAllSucceeded
  BY DEF CompletionInv
<1>3. QED
  BY <1>1, <1>2, CompletionStep, PTL DEF Spec

-----------------------------------------------------------------------------
(* The batch: the retry budget *)

\* A handler at work has its job in the active set: nobody removes or moves it.
ActiveHandlers == \A a \in Assignments : handler[a] # "idle" => job[a] = "active"

\* A handler's refresh runs while the handler waits for it.
RefreshingHandlers ==
    \A a \in Assignments : refresh[<<a, "handler">>].pc # "idle" => handler[a] = "refresh"

HandlerInv == TypeOK /\ ActiveHandlers /\ RefreshingHandlers

LEMMA RefreshingHandlersStep ==
    ASSUME HandlerInv, [Next]_vars
    PROVE  RefreshingHandlers'
<1> USE DEF HandlerInv, RefreshingHandlers
<1>1. refresh \in [Callers -> RefreshRecord] /\ handler \in [Assignments -> HandlerPC]
  BY DEF TypeOK, HandlerPC
<1>2. SUFFICES ASSUME NEW b \in Assignments, refresh'[<<b, "handler">>].pc # "idle"
               PROVE  handler'[b] = "refresh"
  OBVIOUS
<1>3. <<b, "handler">> \in Callers
  BY CallerOf
<1>4. ASSUME NEW a \in Assignments, Claim(a) PROVE handler'[b] = "refresh"
  BY <1>1, <1>2, <1>4 DEF Claim, ActiveHandlers, Pending
<1>5. ASSUME NEW a \in Assignments, NEW v, BeginRefresh(a, v), handler[a] # "refresh"
      PROVE  handler'[b] = "refresh"
  <2>1. CASE a = b
    BY <1>1, <1>5, <2>1 DEF BeginRefresh
  <2>2. CASE a # b
    <3>1. <<a, "handler">> # <<b, "handler">>
      BY <2>2
    <3>2. refresh'[<<b, "handler">>] = refresh[<<b, "handler">>] /\ handler'[b] = handler[b]
      BY <1>1, <1>3, <1>5, <2>2, <3>1 DEF BeginRefresh
    <3>3. QED
      BY <1>2, <3>2
  <2>3. QED
    BY <2>1, <2>2
<1>6. ASSUME NEW a \in Assignments, handler[a] # "refresh",
             handler' = [handler EXCEPT ![a] = handler'[a]],
             refresh' = refresh
      PROVE  handler'[b] = "refresh"
  BY <1>1, <1>2, <1>6
<1>7. ASSUME NEW a \in Assignments, Handle(a), ~JobFailed(a) PROVE handler'[b] = "refresh"
  <2>1. handler[a] # "refresh"
    BY <1>7 DEF Handle, CheckBatch, Persist, WaitForAccount, SkipUnavailable, LeaseBusy, Ask,
                Answered, NotAnswered, CallFails, JobDone
  <2>2. CASE \E v : BeginRefresh(a, v)
    BY <1>5, <2>1, <2>2
  <2>3. CASE ~\E v : BeginRefresh(a, v)
    <3>1. refresh' = refresh
      BY <1>7, <2>3 DEF Handle, CheckBatch, Skip, Persist, WaitForAccount, Delay,
         SkipUnavailable, LeaseBusy, Ask, Answered, NotAnswered, CallFails, JobDone
    <3>2. \E h : handler' = [handler EXCEPT ![a] = h]
      BY <1>7, <2>3 DEF Handle, CheckBatch, Skip, Persist, WaitForAccount, Delay,
         SkipUnavailable, LeaseBusy, Ask, Answered, NotAnswered, CallFails, JobDone
    <3>3. handler' = [handler EXCEPT ![a] = handler'[a]]
      BY <1>1, <3>2
    <3>4. QED
      BY <1>6, <2>1, <3>1, <3>3
  <2>4. QED
    BY <2>2, <2>3
<1>8. ASSUME NEW a \in Assignments, JobFailed(a) \/ Listen(a) PROVE handler'[b] = "refresh"
  <2>1. <<a, "listener">> # <<b, "handler">> /\ <<a, "listener">> \in Callers
    BY CallerOf
  <2>2. refresh'[<<b, "handler">>] = refresh[<<b, "handler">>]
    BY <1>1, <1>3, <1>8, <2>1 DEF JobFailed, Listen, RetryInfra, InfraExhausted
  <2>3. handler' = handler \/ (handler[a] = "end" /\ handler' = [handler EXCEPT ![a] = "idle"])
    BY <1>8 DEF JobFailed, Listen, RetryInfra, InfraExhausted
  <2>4. QED
    BY <1>1, <1>2, <2>2, <2>3
<1>9. ASSUME NEW c \in Callers, Refresh(c) PROVE handler'[b] = "refresh"
  <2>1. CASE handler' = handler /\ (c = <<b, "handler">> => refresh[c].pc # "idle")
             /\ (c # <<b, "handler">> => refresh'[<<b, "handler">>] = refresh[<<b, "handler">>])
    BY <1>2, <2>1
  <2>2. ASSUME NEW v, EndRefresh(c, v) PROVE handler'[b] = "refresh"
    <3>1. c # <<b, "handler">>
      BY <1>1, <1>2, <2>2 DEF EndRefresh, NoRefresh
    <3>2. refresh'[<<b, "handler">>] = refresh[<<b, "handler">>]
      BY <1>1, <1>3, <2>2, <3>1 DEF EndRefresh
    <3>3. c[2] = "handler" => c[1] # b
      BY <3>1 DEF Callers
    <3>4. QED
      BY <1>1, <1>2, <2>2, <3>2, <3>3, CallerParts DEF EndRefresh
  <2>3. CASE ReadProgress(c) \/ ScanFailedJobs(c)
    <3>1. handler' = handler /\ refresh[c].pc # "idle"
      BY <2>3 DEF ReadProgress, ScanFailedJobs
    <3>2. c # <<b, "handler">> => refresh'[<<b, "handler">>] = refresh[<<b, "handler">>]
      BY <1>1, <1>3, <2>3 DEF ReadProgress, ScanFailedJobs
    <3>3. QED
      BY <2>1, <3>1, <3>2
  <2>4. QED
    BY <1>9, <2>2, <2>3 DEF Refresh, WriteProgress, RefreshFails
<1>10. ASSUME NEW o \in Operators, Operate(o) PROVE handler'[b] = "refresh"
  BY <1>2, <1>10, OperateFrame DEF workerUnchanged, workerVars
<1>11. CASE Crash
  BY <1>2, <1>3, <1>11 DEF Crash, NoRefresh
<1>12. CASE UNCHANGED vars
  BY <1>2, <1>12 DEF vars, workerVars
<1>13. QED
  BY <1>4, <1>7, <1>8, <1>9, <1>10, <1>11, <1>12 DEF Next

\* What an operator does to one job: nothing, remove it unless it is active, or put it
\* back in the queue with a fresh count of attempts.
KeptJob(a)  == /\ job'[a] = job[a]
               /\ attempts'[a] = attempts[a] /\ attemptsMade'[a] = attemptsMade[a]
RemovedJob(a) == /\ job[a] # "active" /\ job'[a] = "none"
                 /\ attempts'[a] = attempts[a] /\ attemptsMade'[a] = attemptsMade[a]
FreshJob(a) == /\ job[a] # "active" /\ job'[a] = "waiting"
               /\ attempts'[a] \in {JobAttempts, ResumeAttempts} /\ attemptsMade'[a] = 0

LEMMA OperateJobs ==
    ASSUME TypeOK, NEW o \in Operators, Operate(o), NEW a \in Assignments
    PROVE  KeptJob(a) \/ RemovedJob(a) \/ FreshJob(a)
<1> USE DEF TypeOK, KeptJob, RemovedJob, FreshJob
<1>1. ASSUME NEW S, ReAddJobs(S) PROVE KeptJob(a) \/ FreshJob(a)
  BY <1>1 DEF ReAddJobs, AddFresh, Ended
<1>2. ASSUME NEW S, AddJobs(S) PROVE KeptJob(a) \/ FreshJob(a)
  BY <1>2 DEF AddJobs, AddFresh
<1>3. ASSUME NEW x \in Accounts, StartAdd(o, x)
      PROVE  KeptJob(a) \/ FreshJob(a)
  <2>1. ReAddJobs({b \in Assignments : AccountOf[b] = x})
        \/ AddFresh({b \in Assignments : AccountOf[b] = x /\ job[b] = "none"}, JobAttempts)
    BY <1>3 DEF StartAdd
  <2>2. QED
    BY <1>1, <2>1 DEF AddFresh
<1>4. ASSUME NEW x \in Accounts, ResumeAdd(o, x)
      PROVE  AddJobs({b \in command[o].jobs : AccountOf[b] = x})
  BY <1>4 DEF ResumeAdd
<1>5. ASSUME NEW b \in Assignments, HoldRemove(o, b)
      PROVE  KeptJob(a) \/ RemovedJob(a)
  BY <1>5 DEF HoldRemove
<1>6. CASE UNCHANGED queueVars
  BY <1>6 DEF queueVars
<1>7. (\E x \in Accounts : StartAdd(o, x) \/ ResumeAdd(o, x))
      \/ (\E b \in Assignments : HoldRemove(o, b)) \/ UNCHANGED queueVars
  BY DEF Operate, StartRead, StartUpdate, HoldMark, HoldList, HoldEnd, ResumeRead,
         ResumeUpdate, CommandFails
<1>8. CASE \E x \in Accounts : StartAdd(o, x) \/ ResumeAdd(o, x)
  BY <1>8, <1>1, <1>2, <1>3, <1>4
<1>9. QED
  BY <1>5, <1>6, <1>7, <1>8

LEMMA ActiveHandlersStep ==
    ASSUME HandlerInv, [Next]_vars
    PROVE  ActiveHandlers'
<1> USE DEF HandlerInv, TypeOK, ActiveHandlers
<1>1. ASSUME NEW a \in Assignments, Claim(a) PROVE ActiveHandlers'
  BY <1>1 DEF Claim
<1>2. ASSUME NEW a \in Assignments,
             CheckBatch(a) \/ Persist(a) \/ SkipUnavailable(a) \/ Ask(a)
             \/ Answered(a) \/ NotAnswered(a) \/ CallFails(a)
      PROVE  ActiveHandlers'
  BY <1>2 DEF CheckBatch, AlreadyAnswered, AnswerOnDisk, Skip, BeginRefresh, Persist,
     SkipUnavailable, Ask, Answered,
              NotAnswered, CallFails, queueVars
<1>3. ASSUME NEW a \in Assignments, WaitForAccount(a) \/ LeaseBusy(a) \/ JobDone(a)
                                    \/ JobFailed(a)
      PROVE  ActiveHandlers'
  BY <1>3 DEF WaitForAccount, LeaseBusy, Delay, JobDone, JobFailed
<1>4. ASSUME NEW a \in Assignments, Listen(a) PROVE ActiveHandlers'
  BY <1>4 DEF Listen, RetryInfra, InfraExhausted, queueVars
<1>5. ASSUME NEW c \in Callers, Refresh(c) PROVE ActiveHandlers'
  <2>1. job' = job
    BY <1>5, RefreshFrame DEF queueVars
  <2>2. CASE handler' = handler
    BY <2>1, <2>2
  <2>3. CASE c[2] = "handler" /\ handler' = [handler EXCEPT ![c[1]] = "end"]
             /\ refresh[c].pc # "idle"
    <3>1. c[1] \in Assignments /\ c = <<c[1], "handler">>
      BY <2>3 DEF Callers
    <3>2. handler[c[1]] = "refresh"
      BY <2>3, <3>1 DEF RefreshingHandlers
    <3>3. QED
      BY <2>1, <2>3, <3>1, <3>2
  <2>4. QED
    BY <1>5, <2>2, <2>3
       DEF Refresh, ReadProgress, ScanFailedJobs, WriteProgress, RefreshFails, EndRefresh
<1>6. ASSUME NEW o \in Operators, Operate(o) PROVE ActiveHandlers'
  <2>1. handler' = handler
    BY <1>6, OperateFrame DEF workerUnchanged, workerVars
  <2>2. \A a \in Assignments : job[a] = "active" => job'[a] = "active"
    BY <1>6, OperateJobs DEF KeptJob, RemovedJob, FreshJob
  <2>3. QED
    BY <2>1, <2>2
<1>7. CASE Crash \/ UNCHANGED vars
  BY <1>7 DEF Crash, vars, queueVars, workerVars
<1>8. QED
  BY <1>1, <1>2, <1>3, <1>4, <1>5, <1>6, <1>7 DEF Next, Handle

\* A job that can still run has an attempt of its budget left.
BudgetInv ==
    \A a \in Assignments :
        /\ attemptsMade[a] <= attempts[a] + infraRetried[a] + crashes
        /\ job[a] \in Live => attemptsMade[a] < attempts[a] + infraRetried[a] + crashes

LEMMA BudgetStep ==
    ASSUME HandlerInv, BudgetInv, [Next]_vars
    PROVE  BudgetInv'
<1> USE BatchAssumption DEF HandlerInv, TypeOK, BudgetInv, Live, Pending, Ended
<1>1. ASSUME NEW a \in Assignments, Claim(a) PROVE BudgetInv'
  BY <1>1 DEF Claim, boundVars
<1>2. ASSUME NEW a \in Assignments,
             CheckBatch(a) \/ Persist(a) \/ SkipUnavailable(a) \/ Ask(a)
             \/ Answered(a) \/ NotAnswered(a) \/ CallFails(a)
      PROVE  BudgetInv'
  BY <1>2 DEF CheckBatch, AlreadyAnswered, AnswerOnDisk, Skip, Persist, SkipUnavailable, Ask,
     Answered, NotAnswered,
              CallFails, queueVars, boundVars
<1>3. ASSUME NEW a \in Assignments, WaitForAccount(a) \/ LeaseBusy(a) PROVE BudgetInv'
  BY <1>3 DEF WaitForAccount, LeaseBusy, Delay, boundVars, ActiveHandlers
<1>4. ASSUME NEW a \in Assignments, JobDone(a) PROVE BudgetInv'
  BY <1>4 DEF JobDone, boundVars
<1>5. ASSUME NEW a \in Assignments, JobFailed(a) PROVE BudgetInv'
  BY <1>5 DEF JobFailed, boundVars, ActiveHandlers
<1>6. ASSUME NEW a \in Assignments, Listen(a) PROVE BudgetInv'
  BY <1>6 DEF Listen, RetryInfra, InfraExhausted, queueVars, boundVars
<1>7. ASSUME NEW c \in Callers, Refresh(c) PROVE BudgetInv'
  BY <1>7, RefreshFrame DEF queueVars
<1>8. ASSUME NEW o \in Operators, Operate(o) PROVE BudgetInv'
  <2>1. infraRetried' = infraRetried /\ crashes' = crashes
    BY <1>8, OperateFrame DEF workerUnchanged, workerVars
  <2>2. SUFFICES ASSUME NEW b \in Assignments
                 PROVE  /\ attemptsMade'[b] <= attempts'[b] + infraRetried[b] + crashes
                        /\ job'[b] \in Live
                             => attemptsMade'[b] < attempts'[b] + infraRetried[b] + crashes
    BY <2>1
  <2>3. KeptJob(b) \/ RemovedJob(b) \/ FreshJob(b)
    BY <1>8, OperateJobs
  <2>4. infraRetried[b] \in {0, 1} /\ crashes \in Nat
    OBVIOUS
  <2>5. QED
    BY <2>3, <2>4 DEF KeptJob, RemovedJob, FreshJob
<1>9. CASE Crash
  BY <1>9 DEF Crash
<1>10. CASE UNCHANGED vars
  BY <1>10 DEF vars, queueVars, workerVars, boundVars
<1>11. QED
  BY <1>1, <1>2, <1>3, <1>4, <1>5, <1>6, <1>7, <1>8, <1>9, <1>10 DEF Next, Handle

\* The retry budget is respected in every behaviour: attempts[a], one infrastructure
\* retry, and one more for every time the worker lost its map.
THEOREM RetryBudgetHolds == Spec => []RetryBudget
<1> DEFINE Inv == HandlerInv /\ BudgetInv
<1>1. Init => Inv
  <2>1. Init => HandlerInv
    BY TypeInit DEF Init, HandlerInv, ActiveHandlers, RefreshingHandlers, NoRefresh, Callers
  <2>2. Init => BudgetInv
    BY BatchAssumption DEF Init, BudgetInv
  <2>3. QED
    BY <2>1, <2>2
<1>2. Inv /\ [Next]_vars => Inv'
  BY TypeStep, ActiveHandlersStep, RefreshingHandlersStep, BudgetStep DEF HandlerInv
<1>3. Inv => RetryBudget
  BY DEF BudgetInv, RetryBudget
<1>4. QED
  BY <1>1, <1>2, <1>3, PTL DEF Spec

-----------------------------------------------------------------------------
(* The batch machinery implements the assignment ledger *)

\* A handler that is writing an answer down has one to write.
PersistHasAnswer ==
    \A a \in Assignments : handler[a] = "persist" => evidence[a] = "answered"

LEMMA PersistHasAnswerStep ==
    ASSUME TypeOK, Unanswered, PersistHasAnswer, [Next]_vars
    PROVE  PersistHasAnswer'
<1> USE DEF PersistHasAnswer, TypeOK, dataVars
<1>1. ASSUME NEW a \in Assignments, Claim(a) PROVE PersistHasAnswer'
  BY <1>1 DEF Claim
<1>2. ASSUME NEW a \in Assignments, CheckBatch(a) PROVE PersistHasAnswer'
  BY <1>2 DEF CheckBatch, AlreadyAnswered, AnswerOnDisk, Skip, BeginRefresh
<1>3. ASSUME NEW a \in Assignments, Persist(a) PROVE PersistHasAnswer'
  BY <1>3 DEF Persist, BeginRefresh
<1>4. ASSUME NEW a \in Assignments, WaitForAccount(a) \/ LeaseBusy(a)
      PROVE  PersistHasAnswer'
  BY <1>4 DEF WaitForAccount, LeaseBusy, Delay
<1>5. ASSUME NEW a \in Assignments, SkipUnavailable(a) \/ Ask(a) PROVE PersistHasAnswer'
  BY <1>5 DEF SkipUnavailable, Skip, BeginRefresh, Ask
<1>6. ASSUME NEW a \in Assignments, Answered(a) \/ NotAnswered(a) PROVE PersistHasAnswer'
  BY <1>6 DEF Answered, NotAnswered, BeginRefresh
<1>7. ASSUME NEW a \in Assignments, CallFails(a) \/ JobDone(a) \/ JobFailed(a)
      PROVE  PersistHasAnswer'
  BY <1>7 DEF CallFails, JobDone, JobFailed
<1>8. ASSUME NEW a \in Assignments, Listen(a) PROVE PersistHasAnswer'
  BY <1>8 DEF Listen, RetryInfra, InfraExhausted
<1>9. ASSUME NEW c \in Callers, Refresh(c) PROVE PersistHasAnswer'
  BY <1>9, RefreshFrame
<1>10. ASSUME NEW o \in Operators, Operate(o) PROVE PersistHasAnswer'
  BY <1>10, OperateFrame DEF workerUnchanged, workerVars
<1>11. CASE Crash \/ UNCHANGED vars
  BY <1>11 DEF Crash, vars, workerVars
<1>12. QED
  BY <1>1, <1>2, <1>3, <1>4, <1>5, <1>6, <1>7, <1>8, <1>9, <1>10, <1>11 DEF Next, Handle

\* A refresh neither starts nor gives up a question.
LEMMA RefreshKeepsAsking ==
    ASSUME HandlerInv, NEW c \in Callers, Refresh(c)
    PROVE  UNCHANGED <<Asking, AnsweredSet>>
<1> USE DEF HandlerInv, TypeOK
<1>1. CASE handler' = handler
  BY <1>1, RefreshFrame DEF Asking, AnsweredSet, Succeeded, dataVars
<1>2. CASE c[2] = "handler" /\ handler' = [handler EXCEPT ![c[1]] = "end"]
           /\ refresh[c].pc # "idle"
  <2>1. c[1] \in Assignments /\ c = <<c[1], "handler">>
    BY <1>2 DEF Callers
  <2>2. handler[c[1]] = "refresh"
    BY <1>2, <2>1 DEF RefreshingHandlers
  <2>3. Asking' = Asking
    BY <1>2, <2>1, <2>2 DEF Asking
  <2>4. QED
    BY <2>3, RefreshFrame DEF AnsweredSet, Succeeded, dataVars
<1>3. QED
  BY <1>1, <1>2
     DEF Refresh, ReadProgress, ScanFailedJobs, WriteProgress, RefreshFails, EndRefresh

\* Every step is a step of the ledger or leaves it alone.
LEMMA LedgerStep ==
    ASSUME HandlerInv, Unanswered, PersistHasAnswer, [Next]_vars
    PROVE  [Ledger!Next]_<<Asking, AnsweredSet>>
<1> USE DEF HandlerInv, TypeOK, dataVars
<1> DEFINE Same == UNCHANGED <<Asking, AnsweredSet>>
<1>1. ASSUME NEW a \in Assignments, Claim(a) PROVE Same
  <2>1. handler[a] # "ask" /\ handler' = [handler EXCEPT ![a] = "start"]
    BY <1>1 DEF Claim, ActiveHandlers, Pending
  <2>2. QED
    BY <1>1, <2>1 DEF Claim, Asking, AnsweredSet, Succeeded
<1>2. ASSUME NEW a \in Assignments,
             CheckBatch(a) \/ WaitForAccount(a) \/ LeaseBusy(a) \/ SkipUnavailable(a)
             \/ JobDone(a) \/ JobFailed(a) \/ Listen(a)
      PROVE  Same
  BY <1>2 DEF CheckBatch, AlreadyAnswered, AnswerOnDisk, WaitForAccount, LeaseBusy, Delay,
     SkipUnavailable, Skip,
              BeginRefresh, JobDone, JobFailed, Listen, RetryInfra, InfraExhausted,
              Asking, AnsweredSet, Succeeded
<1>3. ASSUME NEW a \in Assignments, Persist(a) PROVE Same
  <2>1. Asking' = Asking
    BY <1>3 DEF Persist, BeginRefresh, Asking
  <2>2. AnsweredSet' = AnsweredSet
    BY <1>3 DEF Persist, AnsweredSet, Succeeded, PersistHasAnswer
  <2>3. QED
    BY <2>1, <2>2
<1>4. ASSUME NEW a \in Assignments, Ask(a) PROVE Ledger!Begin(a)
  <2>1. a \notin Asking \cup AnsweredSet
    BY <1>4 DEF Ask, Asking, AnsweredSet, Succeeded, Unanswered
  <2>2. Asking' = Asking \cup {a}
    BY <1>4 DEF Ask, Asking
  <2>3. AnsweredSet' = AnsweredSet
    BY <1>4 DEF Ask, AnsweredSet, Succeeded
  <2>4. QED
    BY <2>1, <2>2, <2>3 DEF Ledger!Begin
<1>5. ASSUME NEW a \in Assignments, Answered(a) PROVE Ledger!Answer(a)
  <2>1. a \in Asking
    BY <1>5 DEF Answered, Asking
  <2>2. Asking' = Asking \ {a}
    BY <1>5 DEF Answered, Asking
  <2>3. AnsweredSet' = AnsweredSet \cup {a}
    BY <1>5 DEF Answered, AnsweredSet, Succeeded
  <2>4. QED
    BY <2>1, <2>2, <2>3 DEF Ledger!Answer
<1>6. ASSUME NEW a \in Assignments, NotAnswered(a) PROVE Ledger!GiveUp({a})
  <2>1. a \in Asking
    BY <1>6 DEF NotAnswered, Asking
  <2>2. Asking' = Asking \ {a}
    BY <1>6 DEF NotAnswered, BeginRefresh, Asking
  <2>3. AnsweredSet' = AnsweredSet
    BY <1>6 DEF NotAnswered, AnsweredSet, Succeeded, Unanswered
  <2>4. QED
    BY <2>1, <2>2, <2>3 DEF Ledger!GiveUp
<1>7. ASSUME NEW a \in Assignments, CallFails(a) PROVE Same \/ Ledger!GiveUp({a})
  <2>1. Asking' = Asking \ {a} /\ AnsweredSet' = AnsweredSet
    BY <1>7 DEF CallFails, Asking, AnsweredSet, Succeeded
  <2>2. QED
    BY <2>1 DEF Ledger!GiveUp
<1>8. ASSUME NEW c \in Callers, Refresh(c) PROVE Same
  BY <1>8, RefreshKeepsAsking
<1>9. ASSUME NEW o \in Operators, Operate(o) PROVE Same
  BY <1>9, OperateFrame DEF workerUnchanged, workerVars, Asking, AnsweredSet, Succeeded
<1>10. CASE Crash
  <2>1. Asking' = Asking \ Asking /\ AnsweredSet' = AnsweredSet
    BY <1>10 DEF Crash, Asking, AnsweredSet, Succeeded
  <2>2. Ledger!GiveUp(Asking) /\ Asking \in SUBSET Assignments
    BY <2>1 DEF Ledger!GiveUp, Asking
  <2>3. QED
    BY <2>2 DEF Ledger!Next
<1>11. CASE UNCHANGED vars
  BY <1>11 DEF vars, workerVars, Asking, AnsweredSet, Succeeded
<1> HIDE DEF HandlerInv, TypeOK, dataVars
<1>12. QED
  BY <1>1, <1>2, <1>3, <1>4, <1>5, <1>6, <1>7, <1>8, <1>9, <1>10, <1>11
     DEF Next, Handle, Ledger!Next

\* Whatever is retried, stopped, resumed or re-enqueued, the provider sees the ledger's
\* protocol: one question at a time per assignment, none after its answer.
THEOREM ImplementsLedger == Spec => LedgerSpec
<1> DEFINE Inv == HandlerInv /\ Unanswered /\ PersistHasAnswer
<1>1. Init => Inv
  BY TypeInit
     DEF Init, HandlerInv, ActiveHandlers, RefreshingHandlers, NoRefresh, Callers,
         Unanswered, PersistHasAnswer
<1>2. Inv /\ [Next]_vars => Inv'
  BY TypeStep, ActiveHandlersStep, RefreshingHandlersStep, UnansweredStep,
     PersistHasAnswerStep
     DEF HandlerInv
<1>3. Init => Ledger!Init
  BY DEF Init, Ledger!Init, Asking, AnsweredSet, Succeeded
<1>4. Inv /\ [Next]_vars => [Ledger!Next]_Ledger!vars
  BY LedgerStep DEF Ledger!vars
<1>5. QED
  BY <1>1, <1>2, <1>3, <1>4, PTL DEF Spec, LedgerSpec, Ledger!Spec


Stopped == {"ended", "done", "failed"}
Sending == {"click", "clear", "click again", "enter"}
Waiting == {"confirm", "poll", "decide", "citations"}

\* Before the question is in the box nothing has been sent; an old conversation has looked
\* empty once at most; a new one is asked.
Fresh ==
    /\ pc \in {"healthy", "clean", "empty", "healthy again", "fill"} => delivered = "no"
    /\ pc \in {"healthy", "clean"} => ask.empty = 0
    /\ pc = "empty" /\ page.conversation = "old" => ask.empty <= 1
    /\ pc \in {"healthy again", "fill"} \cup Sending => page.conversation = "fresh"

\* What is in the box while the driver tries to send is the question, unless it is gone.
Boxed ==
    /\ pc \in Sending => page.box \in {"prompt", "empty"}
    /\ pc \in Sending /\ page.box # "empty" => delivered = "no"

\* The driver knows that it is submitting before it can send.
Told ==
    /\ pc \in {"fill"} \cup Sending \cup Waiting => ask.submitting
    /\ pc = "ended" /\ ~outcome.submitted => delivered = "no"
    /\ pc = "ended" /\ outcome.code = "RESET_FAILED" => ~outcome.submitted

\* An attempt sends once; an earlier one that has sent was excused.
Counted == deliveries <= excused + (IF delivered = "no" THEN 0 ELSE 1)

\* The mark of the button is true, and a text that was read is worth reading.
Citable ==
    /\ ask.byButton => delivered = "button" /\ pc \in Waiting \cup Stopped
    /\ ask.read \in {Nothing, Partial, Whole}
    /\ pc = "citations" => ask.read # Nothing
    /\ pc \in {"ended", "done"} /\ outcome.code = "success" =>
          delivered = "button" /\ outcome.answer >= Partial
    /\ pc = "done" => outcome.code = "success"

\* The polls of a wait are counted from zero.
Rested == pc \in {"healthy", "clean", "healthy again", "fill", "confirm"} \cup Sending =>
             ask.waited = 0

AskInv ==
    /\ AskTypeOK /\ AskedCleanly
    /\ Fresh /\ Boxed /\ Told /\ Counted /\ Citable /\ Rested

USE DEF Nothing, Fragment, Partial, Whole, Lengths

-----------------------------------------------------------------------------
(* The question: the records *)

LEMMA AskFields ==
    ASSUME AskTypeOK
    PROVE  /\ ask.submitting \in BOOLEAN /\ ask.empty \in 0..2 /\ ask.byButton \in BOOLEAN
           /\ ask.tries \in 0..(FillAttempts - 1) /\ ask.waited \in Nat
           /\ ask.best \in Lengths /\ ask.last \in Lengths /\ ask.stable \in Nat
           /\ ask.read \in Lengths
  BY DEF AskTypeOK, AskRecord

LEMMA PageFields ==
    ASSUME AskTypeOK
    PROVE  /\ page.conversation \in {"old", "fresh"} /\ page.answer \in Lengths
           /\ page.box \in {"empty", "residue", "prompt"}
           /\ page.generating \in BOOLEAN /\ page.landed \in BOOLEAN
  BY DEF AskTypeOK, PageRecord

LEMMA NoAskIsAsk == NoAsk \in AskRecord
  BY AskAssumption DEF NoAsk, AskRecord

LEMMA PagesArePages == Pages \subseteq PageRecord
  <1>1. SUFFICES ASSUME NEW p \in Pages PROVE p \in PageRecord
    OBVIOUS
  <1>2. PICK c \in {"old", "fresh"}, b \in {"empty", "residue"} :
           p = [conversation |-> c, box |-> b, answer |-> Nothing, generating |-> FALSE,
                landed |-> (c = "old")]
    BY <1>1 DEF Pages
  <1>3. (c = "old") \in BOOLEAN
    OBVIOUS
  <1> QED
    BY <1>2, <1>3 DEF PageRecord

LEMMA AskWaits ==
    ASSUME AskTypeOK, NEW e \in 0..2, NEW w \in Nat,
           ask' = [ask EXCEPT !.empty = e, !.waited = w]
    PROVE  /\ ask' \in AskRecord /\ ask'.empty = e /\ ask'.waited = w
           /\ ask'.byButton = ask.byButton /\ ask'.read = ask.read
           /\ ask'.submitting = ask.submitting
  BY DEF AskTypeOK, AskRecord

-----------------------------------------------------------------------------
(* The question: the ends of an attempt *)

LEMMA EndIsTold ==
    ASSUME AskInv, pc \in PCs \ Stopped,
           NEW code \in Codes, NEW submitted \in BOOLEAN, NEW answer \in Lengths,
           Ends(code, submitted, answer),
           ~submitted => delivered = "no",
           code = "RESET_FAILED" => ~submitted,
           code = "success" => delivered = "button" /\ answer >= Partial
    PROVE  AskInv'
  <1>1. /\ pc' = "ended" /\ outcome' = [code |-> code, submitted |-> submitted, answer |-> answer]
        /\ UNCHANGED <<ask, page, attempt, sent, deliveries, delivered, excused, deaths>>
    BY DEF Ends, sendVars
  <1>2. /\ outcome' \in [code : Codes, submitted : BOOLEAN, answer : Lengths]
        /\ outcome'.code = code /\ outcome'.submitted = submitted /\ outcome'.answer = answer
    BY <1>1
  <1>3. AskTypeOK'
    <2> HIDE DEF Nothing, Fragment, Partial, Whole, Lengths
    <2> QED
      BY <1>1, <1>2 DEF AskInv, AskTypeOK, PCs
  <1>4. AskedCleanly' /\ Fresh' /\ Boxed' /\ Counted' /\ Rested'
    BY <1>1 DEF AskInv, AskedCleanly, Fresh, Boxed, Counted, Rested, Sending
  <1>5. Told'
    BY <1>1, <1>2 DEF Told, Sending, Waiting
  <1>6. Citable'
    BY <1>1, <1>2 DEF AskInv, Citable, Waiting, Stopped
  <1> QED
    BY <1>3, <1>4, <1>5, <1>6 DEF AskInv

LEMMA ThrowIsTold ==
    ASSUME AskInv, pc \in PCs \ Stopped,
           NEW code \in Codes \ {"RESET_FAILED", "success"}, Throws(code)
    PROVE  AskInv'
  <1>1. ask.submitting \in BOOLEAN
    BY AskFields DEF AskInv
  <1>2. ~ask.submitting => delivered = "no"
    BY DEF AskInv, Fresh, Told, PCs, Stopped, Sending, Waiting
  <1>3. Ends(code, ask.submitting, Nothing) /\ Nothing \in Lengths
    BY DEF Throws
  <1> HIDE DEF Nothing, Lengths
  <1> QED
    BY <1>1, <1>2, <1>3, EndIsTold

-----------------------------------------------------------------------------
(* The question: a healthy page and a clean conversation *)

LEMMA HealthyIsSafe == ASSUME AskInv, Healthy PROVE AskInv'
  <1>1. CASE /\ ask' = [ask EXCEPT !.submitting = (pc = "healthy again")]
             /\ Goto(IF pc = "healthy" THEN "clean" ELSE "fill")
    <2>1. /\ (pc = "healthy" /\ pc' = "clean") \/ (pc = "healthy again" /\ pc' = "fill")
          /\ UNCHANGED <<page, attempt, outcome, excused, deaths, sent, deliveries, delivered>>
      <3>1. /\ pc' = IF pc = "healthy" THEN "clean" ELSE "fill"
            /\ UNCHANGED <<page, attempt, outcome, excused, deaths, sent, deliveries, delivered>>
        BY <1>1 DEF Goto, jobVars, sendVars
      <3>2. pc = "healthy" \/ pc = "healthy again"
        BY DEF Healthy
      <3>3. pc = "healthy" => pc' = "clean"
        BY <3>1
      <3>4. pc = "healthy again" => pc' = "fill"
        BY <3>1
      <3>5. (pc = "healthy" /\ pc' = "clean") \/ (pc = "healthy again" /\ pc' = "fill")
        BY <3>2, <3>3, <3>4
      <3> QED
        BY <3>1, <3>5
    <2>2. /\ ask' \in AskRecord
          /\ ask'.submitting = (pc = "healthy again") /\ ask'.empty = ask.empty
          /\ ask'.byButton = ask.byButton /\ ask'.read = ask.read /\ ask'.waited = ask.waited
      BY <1>1 DEF AskInv, AskTypeOK, AskRecord
    <2>3. AskTypeOK'
      BY <2>1, <2>2 DEF AskInv, AskTypeOK, PCs
    <2>4. AskedCleanly' /\ Fresh' /\ Boxed' /\ Counted'
      BY <2>1, <2>2 DEF AskInv, AskedCleanly, Fresh, Boxed, Counted, Sending
    <2>5. Told' /\ Citable' /\ Rested'
      BY <2>1, <2>2 DEF AskInv, Told, Citable, Rested, Sending, Waiting, Stopped
    <2> QED
      BY <2>3, <2>4, <2>5 DEF AskInv
  <1>2. ASSUME NEW code \in {"PAGE_CHANGED", "ACCOUNT_BLOCKED"}, Throws(code) PROVE AskInv'
    <2>1. pc \in PCs \ Stopped /\ code \in Codes \ {"RESET_FAILED", "success"}
      BY DEF Healthy, PCs, Stopped, Codes, Retryable
    <2> QED
      BY <1>2, <2>1, ThrowIsTold
  <1> QED
    BY <1>1, <1>2 DEF Healthy

LEMMA CleanIsSafe == ASSUME AskInv, Clean PROVE AskInv'
  <1>1. CASE Throws("PAGE_CHANGED")
    <2>1. pc \in PCs \ Stopped /\ "PAGE_CHANGED" \in Codes \ {"RESET_FAILED", "success"}
      BY DEF Clean, PCs, Stopped, Codes, Retryable
    <2> QED
      BY <1>1, <2>1, ThrowIsTold
  <1>2. ASSUME pc' = "empty", UNCHANGED <<ask, jobVars, sendVars>>,
               NEW c \in {page.conversation, "fresh"}, NEW b \in {"empty", "residue"},
               page' = [page EXCEPT !.conversation = c, !.box = b, !.landed = (c = "old")]
        PROVE  AskInv'
    <2>1. /\ pc = "clean"
          /\ UNCHANGED <<ask, attempt, outcome, excused, deaths, sent, deliveries, delivered>>
      BY <1>2 DEF Clean, jobVars, sendVars
    <2>2. page' \in PageRecord
      BY <1>2 DEF AskInv, AskTypeOK, PageRecord
    <2>3. ask.waited = 0 /\ ask.empty = 0
      BY <2>1 DEF AskInv, Rested, Fresh
    <2>4. AskTypeOK'
      BY <1>2, <2>1, <2>2, <2>3, AskAssumption DEF AskInv, AskTypeOK, PCs
    <2>5. AskedCleanly' /\ Fresh' /\ Boxed' /\ Counted'
      BY <1>2, <2>1, <2>3 DEF AskInv, AskedCleanly, Fresh, Boxed, Counted, Sending
    <2>6. Told' /\ Citable' /\ Rested'
      BY <1>2, <2>1 DEF AskInv, Told, Citable, Rested, Sending, Waiting, Stopped
    <2> QED
      BY <2>4, <2>5, <2>6 DEF AskInv
  <1> QED
    BY <1>1, <1>2 DEF Clean

LEMMA LookEmptyIsSafe == ASSUME AskInv, LookEmpty PROVE AskInv'
  <1>1. /\ pc = "empty" /\ pc' = "empty"
        /\ UNCHANGED <<page, attempt, outcome, excused, deaths, sent, deliveries, delivered>>
    BY DEF LookEmpty, Goto, jobVars, sendVars
  <1>2. /\ ask' \in AskRecord /\ ask'.waited <= SettlePolls
        /\ page.conversation = "old" => ask'.empty <= 1
        /\ ask'.byButton = ask.byButton /\ ask'.read = ask.read
    <2>1. ask.empty \in 0..2 /\ ask.empty < 2 /\ ask.waited \in Nat /\ ask.waited < SettlePolls
      BY AskFields DEF AskInv, LookEmpty, EmptyPolls
    <2>2. SettlePolls \in Nat /\ ask \in AskRecord
      BY AskAssumption DEF AskInv, AskTypeOK
    <2>3. PICK e \in 0..2 :
             /\ page.conversation = "old" => e <= 1
             /\ ask' = [ask EXCEPT !.empty = e, !.waited = ask.waited + 1]
      <3>1. CASE /\ page.conversation = "fresh" \/ ask.empty = 0
                 /\ ask' = [ask EXCEPT !.empty = @ + 1, !.waited = @ + 1]
        <4>1. ask.empty + 1 \in 0..2 /\ (page.conversation = "old" => ask.empty + 1 <= 1)
          BY <2>1, <3>1
        <4> QED
          BY <3>1, <4>1
      <3>2. CASE ask' = [ask EXCEPT !.empty = 0, !.waited = @ + 1]
        BY <3>2
      <3> QED
        BY <3>1, <3>2 DEF LookEmpty
    <2>4. ask.waited + 1 \in Nat /\ ask.waited + 1 <= SettlePolls
      BY <2>1, <2>2
    <2> QED
      BY <2>3, <2>4, AskWaits DEF AskInv
  <1>3. AskTypeOK'
    BY <1>1, <1>2 DEF AskInv, AskTypeOK, PCs
  <1>4. AskedCleanly' /\ Fresh' /\ Boxed' /\ Counted'
    BY <1>1, <1>2 DEF AskInv, AskedCleanly, Fresh, Boxed, Counted, Sending
  <1>5. Told' /\ Citable' /\ Rested'
    BY <1>1, <1>2 DEF AskInv, Told, Citable, Rested, Sending, Waiting, Stopped
  <1> QED
    BY <1>3, <1>4, <1>5 DEF AskInv

\* Twice empty running: the conversation is new.
LEMMA AssertFreshIsSafe == ASSUME AskInv, AssertFresh PROVE AskInv'
  <1>1. CASE ask.empty >= EmptyPolls /\ ask' = WaitOver /\ Goto("healthy again")
    <2>1. /\ pc = "empty" /\ pc' = "healthy again" /\ delivered = "no"
          /\ UNCHANGED <<page, attempt, outcome, excused, deaths, sent, deliveries, delivered>>
      BY <1>1 DEF AssertFresh, AskInv, Fresh, Goto, jobVars, sendVars
    <2>2. ask' \in AskRecord /\ ask'.waited = 0 /\ ask'.byButton = ask.byButton /\ ask'.read = ask.read
      BY <1>1 DEF AskInv, AskTypeOK, AskRecord, WaitOver
    <2>3. page.conversation = "fresh"
      <3>1. /\ page.conversation \in {"old", "fresh"} /\ ask.empty \in 0..2
            /\ page.conversation = "old" => ask.empty <= 1
        BY <2>1, AskFields, PageFields DEF AskInv, Fresh
      <3>2. ask.empty >= 2
        BY <1>1 DEF EmptyPolls
      <3> QED
        BY <3>1, <3>2
    <2>4. AskTypeOK'
      BY <2>1, <2>2 DEF AskInv, AskTypeOK, PCs
    <2>5. AskedCleanly' /\ Fresh' /\ Boxed' /\ Counted'
      BY <2>1, <2>3 DEF AskInv, AskedCleanly, Fresh, Boxed, Counted, Sending
    <2>6. Told' /\ Citable' /\ Rested'
      BY <2>1, <2>2 DEF AskInv, Told, Citable, Rested, Sending, Waiting, Stopped
    <2> QED
      BY <2>4, <2>5, <2>6 DEF AskInv
  <1>2. CASE Ends("RESET_FAILED", FALSE, Nothing)
    <2>1. pc \in PCs \ Stopped /\ delivered = "no" /\ "RESET_FAILED" \in Codes
      BY DEF AssertFresh, AskInv, Fresh, PCs, Stopped, Codes, Retryable
    <2>2. Nothing \in Lengths
      OBVIOUS
    <2> HIDE DEF Nothing, Fragment, Partial, Whole, Lengths
    <2> QED
      BY <1>2, <2>1, <2>2, EndIsTold
  <1> QED
    BY <1>1, <1>2 DEF AssertFresh

-----------------------------------------------------------------------------
(* The question: sending *)

LEMMA FillIsSafe == ASSUME AskInv, Fill PROVE AskInv'
  <1>1. pc = "fill" /\ delivered = "no" /\ page.conversation = "fresh" /\ ask.submitting
        /\ ask.waited = 0
    BY DEF Fill, AskInv, Fresh, Told, Rested
  <1>2. CASE /\ ask' = ask /\ pc' = "click"
             /\ page' = [page EXCEPT !.box = "prompt"]
             /\ UNCHANGED <<jobVars, sendVars>>
    <2>1. UNCHANGED <<ask, attempt, outcome, excused, deaths, sent, deliveries, delivered>>
      BY <1>2 DEF jobVars, sendVars
    <2>2. page' \in PageRecord /\ page'.box = "prompt" /\ page'.conversation = "fresh"
      BY <1>1, <1>2 DEF AskInv, AskTypeOK, PageRecord
    <2>3. AskTypeOK'
      BY <1>2, <2>1, <2>2 DEF AskInv, AskTypeOK, PCs
    <2>4. AskedCleanly' /\ Fresh' /\ Boxed' /\ Counted'
      BY <1>1, <1>2, <2>1, <2>2 DEF AskInv, AskedCleanly, Fresh, Boxed, Counted, Sending
    <2>5. Told' /\ Citable' /\ Rested'
      BY <1>1, <1>2, <2>1 DEF AskInv, Told, Citable, Rested, Sending, Waiting, Stopped
    <2> QED
      BY <2>3, <2>4, <2>5 DEF AskInv
  <1>3. CASE ask.tries + 1 < FillAttempts /\ ask' = [ask EXCEPT !.tries = @ + 1] /\ Goto("fill")
    <2>1. /\ pc' = "fill"
          /\ UNCHANGED <<page, attempt, outcome, excused, deaths, sent, deliveries, delivered>>
      BY <1>3 DEF Goto, jobVars, sendVars
    <2>2. /\ ask' \in AskRecord /\ ask'.submitting = ask.submitting /\ ask'.waited = ask.waited
          /\ ask'.byButton = ask.byButton /\ ask'.read = ask.read
      <3>1. ask \in AskRecord /\ ask.tries \in Nat /\ FillAttempts \in Nat
        BY AskFields, AskAssumption DEF AskInv, AskTypeOK
      <3> QED
        BY <1>3, <3>1 DEF AskRecord
    <2>3. AskTypeOK'
      BY <1>1, <2>1, <2>2 DEF AskInv, AskTypeOK, PCs
    <2>4. AskedCleanly' /\ Fresh' /\ Boxed' /\ Counted'
      BY <1>1, <2>1 DEF AskInv, AskedCleanly, Fresh, Boxed, Counted, Sending
    <2>5. Told' /\ Citable' /\ Rested'
      BY <1>1, <2>1, <2>2 DEF AskInv, Told, Citable, Rested, Sending, Waiting, Stopped
    <2> QED
      BY <2>3, <2>4, <2>5 DEF AskInv
  <1>4. ASSUME NEW code \in {"PAGE_CHANGED", "SUBMISSION_FAILED"}, Ends(code, FALSE, Nothing)
        PROVE  AskInv'
    <2>1. pc \in PCs \ Stopped /\ code \in Codes /\ code # "success" /\ Nothing \in Lengths
      BY <1>1 DEF PCs, Stopped, Codes, Retryable
    <2> HIDE DEF Nothing, Fragment, Partial, Whole, Lengths
    <2> QED
      BY <1>1, <1>4, <2>1, EndIsTold
  <1> QED
    BY <1>2, <1>3, <1>4 DEF Fill

\* What Click and Enter have in common: the question leaves the box once.
LEMMA DeliverSends ==
    ASSUME AskInv, pc \in Sending, NEW by \in {"button", "enter"}, Deliver(by)
    PROVE  /\ delivered = "no" /\ delivered' = by
           /\ deliveries' \in Nat /\ deliveries' <= excused + 1
           /\ AskedCleanly' /\ sent' \subseteq {"residue", "prompt"} \X {"old", "fresh"}
           /\ page' \in PageRecord /\ page'.box = "empty" /\ page'.conversation = "fresh"
  <1>1. /\ page.box = "prompt" /\ page.conversation = "fresh" /\ delivered = "no"
        /\ page \in PageRecord
    BY DEF AskInv, AskTypeOK, Boxed, Fresh, Deliver
  <1>2. PICK landed \in BOOLEAN :
           page' = [page EXCEPT !.box = "empty", !.landed = landed, !.generating = TRUE]
    BY DEF Deliver
  <1>3. page' \in PageRecord /\ page'.box = "empty" /\ page'.conversation = "fresh"
    BY <1>1, <1>2 DEF PageRecord
  <1>4. sent' = sent \cup {<<"prompt", "fresh">>}
    BY <1>1 DEF Deliver
  <1>5. deliveries' \in Nat /\ deliveries' <= excused + 1
    <2>1. deliveries \in Nat /\ excused \in Nat /\ deliveries <= excused
      BY <1>1 DEF AskInv, AskTypeOK, Counted
    <2>2. deliveries' = deliveries + 1
      BY DEF Deliver
    <2> QED
      BY <2>1, <2>2
  <1>6. AskedCleanly' /\ sent' \subseteq {"residue", "prompt"} \X {"old", "fresh"}
    BY <1>4 DEF AskInv, AskedCleanly
  <1> QED
    BY <1>1, <1>3, <1>5, <1>6 DEF Deliver

LEMMA ClickIsSafe == ASSUME AskInv, Click PROVE AskInv'
  <1>1. /\ pc \in {"click", "click again"} /\ pc \in Sending
        /\ UNCHANGED <<attempt, outcome, excused, deaths>>
        /\ ask.submitting /\ ask.waited = 0 /\ page.conversation = "fresh"
    BY DEF Click, jobVars, Sending, AskInv, Told, Rested, Fresh
  <1> DEFINE next == IF pc = "click" THEN "clear" ELSE "enter"
  <1>2. next \in {"clear", "enter"}
    BY DEF Click
  <1> HIDE DEF next
  <1>3. CASE Deliver("button") /\ ask' = [ask EXCEPT !.byButton = TRUE] /\ pc' = "confirm"
    <2>1. /\ delivered = "no" /\ delivered' = "button"
          /\ deliveries' \in Nat /\ deliveries' <= excused + 1
          /\ AskedCleanly' /\ sent' \subseteq {"residue", "prompt"} \X {"old", "fresh"}
          /\ page' \in PageRecord /\ page'.box = "empty" /\ page'.conversation = "fresh"
      BY <1>1, <1>3, DeliverSends
    <2>2. /\ ask' \in AskRecord /\ ask'.submitting = ask.submitting /\ ask'.waited = ask.waited
          /\ ask'.read = ask.read
      BY <1>3 DEF AskInv, AskTypeOK, AskRecord
    <2>3. AskTypeOK'
      BY <1>1, <1>3, <2>1, <2>2 DEF AskInv, AskTypeOK, PCs
    <2>4. Fresh' /\ Boxed' /\ Counted'
      BY <1>1, <1>3, <2>1, <2>2 DEF AskInv, Fresh, Boxed, Counted, Sending
    <2>5. Told' /\ Citable' /\ Rested'
      BY <1>1, <1>3, <2>1, <2>2 DEF AskInv, Told, Citable, Rested, Sending, Waiting, Stopped
    <2> QED
      BY <2>1, <2>3, <2>4, <2>5 DEF AskInv
  <1>4. CASE Deliver("button") /\ ask' = ask /\ pc' = next
    <2>1. /\ delivered = "no" /\ delivered' = "button"
          /\ deliveries' \in Nat /\ deliveries' <= excused + 1
          /\ AskedCleanly' /\ sent' \subseteq {"residue", "prompt"} \X {"old", "fresh"}
          /\ page' \in PageRecord /\ page'.box = "empty" /\ page'.conversation = "fresh"
      BY <1>1, <1>4, DeliverSends
    <2>2. ~ask.byButton
      BY <1>1, <2>1 DEF AskInv, Citable, Waiting, Stopped
    <2>3. AskTypeOK'
      BY <1>1, <1>2, <1>4, <2>1 DEF AskInv, AskTypeOK, PCs
    <2>4. Fresh' /\ Boxed' /\ Counted'
      BY <1>1, <1>2, <1>4, <2>1 DEF AskInv, Fresh, Boxed, Counted, Sending
    <2>5. Told' /\ Citable' /\ Rested'
      BY <1>1, <1>2, <1>4, <2>1, <2>2
      DEF AskInv, Told, Citable, Rested, Sending, Waiting, Stopped
    <2> QED
      BY <2>1, <2>3, <2>4, <2>5 DEF AskInv
  <1>5. CASE ask' = ask /\ pc' = next /\ UNCHANGED <<page, sendVars>>
    <2>1. UNCHANGED <<ask, page, sent, deliveries, delivered>>
      BY <1>5 DEF sendVars
    <2>2. ~ask.byButton
      BY <1>1 DEF AskInv, Citable, Waiting, Stopped
    <2>3. AskTypeOK'
      BY <1>1, <1>2, <1>5, <2>1 DEF AskInv, AskTypeOK, PCs
    <2>4. AskedCleanly' /\ Fresh' /\ Boxed' /\ Counted'
      BY <1>1, <1>2, <1>5, <2>1 DEF AskInv, AskedCleanly, Fresh, Boxed, Counted, Sending
    <2>5. Told' /\ Citable' /\ Rested'
      BY <1>1, <1>2, <1>5, <2>1, <2>2
      DEF AskInv, Told, Citable, Rested, Sending, Waiting, Stopped
    <2> QED
      BY <2>3, <2>4, <2>5 DEF AskInv
  <1> QED
    BY <1>3, <1>4, <1>5 DEF Click, next

LEMMA ClearIsSafe == ASSUME AskInv, Clear PROVE AskInv'
  <1>1. /\ pc = "clear" /\ pc' \in {"click again", "enter"}
        /\ UNCHANGED <<ask, page, attempt, outcome, excused, deaths, sent, deliveries, delivered>>
    BY DEF Clear, Goto, jobVars, sendVars
  <1>2. AskTypeOK'
    BY <1>1 DEF AskInv, AskTypeOK, PCs
  <1>3. AskedCleanly' /\ Fresh' /\ Boxed' /\ Counted'
    BY <1>1 DEF AskInv, AskedCleanly, Fresh, Boxed, Counted, Sending
  <1>4. Told' /\ Citable' /\ Rested'
    BY <1>1 DEF AskInv, Told, Citable, Rested, Sending, Waiting, Stopped
  <1> QED
    BY <1>2, <1>3, <1>4 DEF AskInv

LEMMA EnterIsSafe == ASSUME AskInv, Enter PROVE AskInv'
  <1>1. /\ pc = "enter" /\ pc' = "confirm" /\ pc \in Sending /\ ~ask.byButton
        /\ UNCHANGED <<ask, attempt, outcome, excused, deaths>>
    BY DEF Enter, jobVars, Sending, AskInv, Citable, Waiting, Stopped
  <1>2. CASE Deliver("enter")
    <2>1. /\ delivered = "no" /\ delivered' = "enter"
          /\ deliveries' \in Nat /\ deliveries' <= excused + 1
          /\ AskedCleanly' /\ sent' \subseteq {"residue", "prompt"} \X {"old", "fresh"}
          /\ page' \in PageRecord /\ page'.box = "empty" /\ page'.conversation = "fresh"
      BY <1>1, <1>2, DeliverSends
    <2>2. AskTypeOK'
      BY <1>1, <2>1 DEF AskInv, AskTypeOK, PCs, Rested, Sending
    <2>3. Fresh' /\ Boxed' /\ Counted'
      BY <1>1, <2>1 DEF AskInv, Fresh, Boxed, Counted, Sending
    <2>4. Told' /\ Citable' /\ Rested'
      BY <1>1, <2>1 DEF AskInv, Told, Citable, Rested, Sending, Waiting, Stopped
    <2> QED
      BY <2>1, <2>2, <2>3, <2>4 DEF AskInv
  <1>3. CASE UNCHANGED <<page, sendVars>>
    <2>1. UNCHANGED <<ask, page, sent, deliveries, delivered>>
      BY <1>1, <1>3 DEF sendVars
    <2>2. AskTypeOK'
      BY <1>1, <2>1 DEF AskInv, AskTypeOK, PCs
    <2>3. AskedCleanly' /\ Fresh' /\ Boxed' /\ Counted'
      BY <1>1, <2>1 DEF AskInv, AskedCleanly, Fresh, Boxed, Counted, Sending
    <2>4. Told' /\ Citable' /\ Rested'
      BY <1>1, <2>1 DEF AskInv, Told, Citable, Rested, Sending, Waiting, Stopped
    <2> QED
      BY <2>2, <2>3, <2>4 DEF AskInv
  <1> QED
    BY <1>2, <1>3 DEF Enter

LEMMA ConfirmIsSafe == ASSUME AskInv, Confirm PROVE AskInv'
  <1>1. CASE Unconfirmed
    <2>1. pc \in PCs \ Stopped /\ "SUBMISSION_FAILED" \in Codes \ {"RESET_FAILED", "success"}
      BY DEF Confirm, PCs, Stopped, Codes, Retryable
    <2> QED
      BY <1>1, <2>1, ThrowIsTold DEF Unconfirmed
  <1>2. CASE delivered # "no" /\ ask' = ask /\ Goto("poll")
    <2>1. /\ pc = "confirm" /\ pc' = "poll" /\ ask.waited = 0
          /\ UNCHANGED <<ask, page, attempt, outcome, excused, deaths, sent, deliveries, delivered>>
      BY <1>2 DEF Confirm, AskInv, Rested, Goto, jobVars, sendVars
    <2>2. AskTypeOK'
      BY <2>1, AskAssumption DEF AskInv, AskTypeOK, PCs
    <2>3. AskedCleanly' /\ Fresh' /\ Boxed' /\ Counted'
      BY <2>1 DEF AskInv, AskedCleanly, Fresh, Boxed, Counted, Sending
    <2>4. Told' /\ Citable' /\ Rested'
      BY <2>1 DEF AskInv, Told, Citable, Rested, Sending, Waiting, Stopped
    <2> QED
      BY <2>2, <2>3, <2>4 DEF AskInv
  <1> QED
    BY <1>1, <1>2 DEF Confirm

-----------------------------------------------------------------------------
(* The question: waiting for the answer *)

\* The platform changes the page only where nothing is said of its answer.
LEMMA PlatformIsSafe == ASSUME AskInv, Write \/ Drop PROVE AskInv'
  <1>1. /\ pc \in {"confirm", "poll", "decide"}
        /\ UNCHANGED <<pc, ask, attempt, outcome, excused, deaths, sent, deliveries, delivered>>
    BY DEF Write, Drop, jobVars, sendVars
  <1>2. page' \in PageRecord
    <2>1. page \in PageRecord /\ page.answer \in Lengths /\ page.landed \in BOOLEAN
      BY PageFields DEF AskInv, AskTypeOK
    <2>2. CASE Write
      <3>1. PICK a \in page.answer..Whole, landed \in {page.landed, TRUE} :
               page' = [page EXCEPT !.answer = a, !.landed = landed, !.generating = (a # Whole)]
        BY <2>2 DEF Write
      <3>2. a \in Lengths
        <4>1. page.answer \in 0..3 /\ a \in page.answer..3
          BY <2>1, <3>1
        <4> QED
          BY <4>1
      <3>3. landed \in BOOLEAN /\ (a # Whole) \in BOOLEAN
        BY <2>1, <3>1
      <3> HIDE DEF Nothing, Fragment, Partial, Whole, Lengths
      <3> QED
        BY <2>1, <3>1, <3>2, <3>3 DEF PageRecord
    <2>3. CASE Drop
      BY <2>1, <2>3 DEF Drop, PageRecord
    <2> QED
      BY <2>2, <2>3
  <1>3. AskTypeOK'
    BY <1>1, <1>2 DEF AskInv, AskTypeOK
  <1>4. AskedCleanly' /\ Fresh' /\ Boxed' /\ Counted'
    BY <1>1 DEF AskInv, AskedCleanly, Fresh, Boxed, Counted, Sending
  <1>5. Told' /\ Citable' /\ Rested'
    BY <1>1 DEF AskInv, Told, Citable, Rested, Sending, Waiting, Stopped
  <1> QED
    BY <1>3, <1>4, <1>5 DEF AskInv

LEMMA PollIsSafe == ASSUME AskInv, Poll PROVE AskInv'
  <1>1. ASSUME NEW code \in {"PAGE_CHANGED", "NETWORK_ERROR", "RATE_LIMITED"}, Throws(code)
        PROVE  AskInv'
    <2>1. pc \in PCs \ Stopped /\ code \in Codes \ {"RESET_FAILED", "success"}
      BY DEF Poll, PCs, Stopped, Codes, Retryable
    <2> QED
      BY <1>1, <2>1, ThrowIsTold
  <1>2. ASSUME NEW a \in {Substantive(page.answer), Nothing}, Goto("decide"),
               ask' = [ask EXCEPT !.read = a, !.best = IF a > @ THEN a ELSE @]
        PROVE  AskInv'
    <2>1. /\ pc = "poll" /\ pc' = "decide"
          /\ UNCHANGED <<page, attempt, outcome, excused, deaths, sent, deliveries, delivered>>
      BY <1>2 DEF Poll, Goto, jobVars, sendVars
    <2>2. a \in {Nothing, Partial, Whole}
      BY <1>2, PageFields DEF AskInv, Substantive
    <2>3. /\ ask' \in AskRecord /\ ask'.read = a /\ ask'.waited = ask.waited
          /\ ask'.submitting = ask.submitting /\ ask'.byButton = ask.byButton
      <3>1. (IF a > ask.best THEN a ELSE ask.best) \in Lengths /\ a \in Lengths
        BY <2>2, AskFields DEF AskInv
      <3> HIDE DEF Nothing, Fragment, Partial, Whole, Lengths
      <3> QED
        BY <1>2, <3>1 DEF AskInv, AskTypeOK, AskRecord
    <2>4. AskTypeOK'
      BY <2>1, <2>3 DEF AskInv, AskTypeOK, PCs
    <2>5. AskedCleanly' /\ Fresh' /\ Boxed' /\ Counted'
      BY <2>1 DEF AskInv, AskedCleanly, Fresh, Boxed, Counted, Sending
    <2>6. Told' /\ Citable' /\ Rested'
      BY <2>1, <2>2, <2>3 DEF AskInv, Told, Citable, Rested, Sending, Waiting, Stopped
    <2> QED
      BY <2>4, <2>5, <2>6 DEF AskInv
  <1> QED
    BY <1>1, <1>2 DEF Poll

LEMMA DecideIsSafe == ASSUME AskInv, Decide PROVE AskInv'
  <1>1. CASE Ends("ANSWER_NOT_FOUND", TRUE, Nothing)
    <2>1. /\ pc \in PCs \ Stopped /\ "ANSWER_NOT_FOUND" \in Codes /\ Nothing \in Lengths
      BY DEF Decide, PCs, Stopped, Codes, Retryable
    <2> HIDE DEF Nothing, Fragment, Partial, Whole, Lengths
    <2> QED
      BY <1>1, <2>1, EndIsTold
  <1>2. ASSUME ask' = [ask EXCEPT !.stable = Streak, !.last = ask.read,
                                  !.waited = IF @ < BudgetPolls THEN @ + 1 ELSE @],
               Goto(IF Complete THEN "citations" ELSE "poll")
        PROVE  AskInv'
    <2> DEFINE next == IF Complete THEN "citations" ELSE "poll"
               w == IF ask.waited < BudgetPolls THEN ask.waited + 1 ELSE ask.waited
    <2>1. /\ pc = "decide" /\ pc' = next
          /\ UNCHANGED <<page, attempt, outcome, excused, deaths, sent, deliveries, delivered>>
      BY <1>2 DEF Decide, Goto, jobVars, sendVars
    <2>2. next \in {"citations", "poll"} /\ (next = "citations" => ask.read # Nothing)
      BY DEF Complete
    <2>3. Streak \in Nat /\ w \in Nat /\ w <= BudgetPolls /\ ask.read \in Lengths
      <3>1. /\ ask.stable \in Nat /\ ask.waited \in Nat /\ ask.waited <= BudgetPolls
            /\ ask.read \in Lengths /\ BudgetPolls \in Nat
        BY <2>1, AskFields, AskAssumption DEF AskInv, AskTypeOK
      <3> QED
        BY <3>1 DEF Streak
    <2>4. /\ ask' \in AskRecord /\ ask'.waited = w /\ ask'.read = ask.read
          /\ ask'.submitting = ask.submitting /\ ask'.byButton = ask.byButton
      <3>1. ask \in AskRecord /\ ask' = [ask EXCEPT !.stable = Streak, !.last = ask.read, !.waited = w]
        BY <1>2 DEF AskInv, AskTypeOK
      <3> HIDE DEF Nothing, Fragment, Partial, Whole, Lengths, w
      <3> QED
        BY <2>3, <3>1 DEF AskRecord
    <2> HIDE DEF next, w
    <2>5. AskTypeOK'
      BY <2>1, <2>2, <2>3, <2>4 DEF AskInv, AskTypeOK, PCs
    <2>6. AskedCleanly' /\ Fresh' /\ Boxed' /\ Counted'
      BY <2>1, <2>2 DEF AskInv, AskedCleanly, Fresh, Boxed, Counted, Sending
    <2>7. Told' /\ Citable' /\ Rested'
      BY <2>1, <2>2, <2>4 DEF AskInv, Told, Citable, Rested, Sending, Waiting, Stopped
    <2> QED
      BY <2>5, <2>6, <2>7 DEF AskInv
  <1> QED
    BY <1>1, <1>2 DEF Decide

LEMMA BudgetSpentIsSafe == ASSUME AskInv, BudgetSpent PROVE AskInv'
  <1>1. /\ pc \in PCs \ Stopped /\ "ANSWER_NOT_FOUND" \in Codes /\ Nothing \in Lengths
        /\ "TIMEOUT" \in Codes \ {"RESET_FAILED", "success"}
    BY DEF BudgetSpent, PCs, Stopped, Codes, Retryable
  <1>2. CASE Throws("TIMEOUT")
    BY <1>1, <1>2, ThrowIsTold
  <1>3. CASE Ends("ANSWER_NOT_FOUND", TRUE, Nothing)
    <2> HIDE DEF Nothing, Fragment, Partial, Whole, Lengths
    <2> QED
      BY <1>1, <1>3, EndIsTold
  <1> QED
    BY <1>2, <1>3 DEF BudgetSpent

LEMMA CitationsIsSafe == ASSUME AskInv, Citations PROVE AskInv'
  <1>1. /\ pc = "citations" /\ pc \in PCs \ Stopped
        /\ {"success", "SUBMIT_DEGRADED"} \subseteq Codes
        /\ "UNKNOWN" \in Codes \ {"RESET_FAILED", "success"}
    BY DEF Citations, PCs, Stopped, Codes, Retryable
  <1>2. ask.read \in Lengths /\ ask.read >= Partial
    BY <1>1 DEF AskInv, Citable
  <1>3. CASE HasCitations /\ Ends("success", TRUE, ask.read)
    <2>1. delivered = "button"
      BY <1>3 DEF HasCitations, AskInv, Citable
    <2> HIDE DEF Nothing, Fragment, Partial, Whole, Lengths
    <2> QED
      BY <1>1, <1>2, <1>3, <2>1, EndIsTold
  <1>4. CASE Ends("SUBMIT_DEGRADED", TRUE, ask.read)
    <2> HIDE DEF Nothing, Fragment, Partial, Whole, Lengths
    <2> QED
      BY <1>1, <1>2, <1>4, EndIsTold
  <1>5. CASE Throws("UNKNOWN")
    BY <1>1, <1>5, ThrowIsTold
  <1> QED
    BY <1>3, <1>4, <1>5 DEF Citations

LEMMA BreaksIsSafe == ASSUME AskInv, Breaks PROVE AskInv'
  <1>1. pc \in PCs \ Stopped /\ "UNKNOWN" \in Codes \ {"RESET_FAILED", "success"}
    BY DEF AskInv, AskTypeOK, Breaks, Stopped, Codes, Retryable
  <1> QED
    BY <1>1, ThrowIsTold DEF Breaks

-----------------------------------------------------------------------------
(* The question: the job *)

\* A new attempt has sent nothing: what the ended one sent must be excused.
LEMMA NewAttemptIsSafe ==
    ASSUME AskInv, NewAttempt, UNCHANGED <<outcome, sent, deliveries>>,
           attempt' \in 1..MaxAttempts, excused' \in Nat, deaths' \in 0..MaxDeaths,
           deliveries <= excused'
    PROVE  AskInv'
  <1>1. /\ pc' = "healthy" /\ ask' = NoAsk /\ page' \in Pages /\ delivered' = "no"
        /\ UNCHANGED <<outcome, sent, deliveries>>
    BY DEF NewAttempt
  <1>2. /\ ask' \in AskRecord /\ ask'.waited = 0 /\ ask'.empty = 0
        /\ ask'.byButton = FALSE /\ ask'.read = Nothing
    BY <1>1, NoAskIsAsk DEF NoAsk
  <1>3. page' \in PageRecord
    BY <1>1, PagesArePages
  <1>4. AskTypeOK'
    BY <1>1, <1>2, <1>3 DEF AskInv, AskTypeOK, PCs
  <1>5. AskedCleanly' /\ Fresh' /\ Boxed'
    BY <1>1, <1>2 DEF AskInv, AskedCleanly, Fresh, Boxed, Sending
  <1>6. Told' /\ Citable' /\ Rested'
    BY <1>1, <1>2 DEF Told, Citable, Rested, Sending, Waiting, Stopped
  <1>7. Counted'
    BY <1>1 DEF Counted
  <1> QED
    BY <1>4, <1>5, <1>6, <1>7 DEF AskInv

\* A repeatable outcome whose repetition is not accepted says that nothing was submitted.
LEMMA RetryIsSafe == ASSUME AskInv, Retry PROVE AskInv'
  <1>1. /\ attempt \in 1..MaxAttempts /\ attempt < MaxAttempts /\ attempt' = attempt + 1
        /\ deliveries \in Nat /\ excused \in Nat /\ deaths' \in 0..MaxDeaths
        /\ MaxAttempts \in Nat
    BY AskAssumption DEF AskInv, AskTypeOK, Retry
  <1>2. attempt' \in 1..MaxAttempts
    BY <1>1
  <1>3. excused' = (IF outcome.code \in Accepted THEN excused + 1 ELSE excused)
    BY DEF Retry
  <1>4. outcome.code \notin Accepted => delivered = "no"
    BY DEF Retry, CanRetry, Retryable, Unsafe, Accepted, AskInv, Told
  <1>5. /\ deliveries <= excused + 1
        /\ delivered = "no" => deliveries <= excused
    BY <1>1 DEF AskInv, Counted
  <1>6. excused' \in Nat /\ deliveries <= excused'
    BY <1>1, <1>3, <1>4, <1>5
  <1> QED
    BY <1>1, <1>2, <1>6, NewAttemptIsSafe DEF Retry

LEMMA DieIsSafe == ASSUME AskInv, Die PROVE AskInv'
  <1>1. /\ deliveries \in Nat /\ excused \in Nat /\ deaths \in 0..MaxDeaths
        /\ deaths < MaxDeaths /\ deaths' = deaths + 1 /\ excused' = excused + 1
        /\ attempt' \in 1..MaxAttempts /\ MaxDeaths \in Nat
    BY AskAssumption DEF AskInv, AskTypeOK, Die
  <1>2. excused' \in Nat /\ deliveries <= excused' /\ deaths' \in 0..MaxDeaths
    BY <1>1 DEF AskInv, Counted
  <1> QED
    BY <1>1, <1>2, NewAttemptIsSafe DEF Die

LEMMA EndingIsSafe == ASSUME AskInv, GiveUp \/ Succeed PROVE AskInv'
  <1>1. /\ pc = "ended"
        /\ pc' = "failed" \/ (pc' = "done" /\ outcome.code = "success")
        /\ UNCHANGED <<ask, page, attempt, outcome, excused, deaths, sent, deliveries, delivered>>
    <2>1. CASE GiveUp
      BY <2>1 DEF GiveUp, jobVars, sendVars
    <2>2. CASE Succeed
      BY <2>2 DEF Succeed, jobVars, sendVars
    <2> QED
      BY <2>1, <2>2
  <1>2. AskTypeOK'
    BY <1>1 DEF AskInv, AskTypeOK, PCs
  <1>3. AskedCleanly' /\ Fresh' /\ Boxed' /\ Counted'
    BY <1>1 DEF AskInv, AskedCleanly, Fresh, Boxed, Counted, Sending
  <1>4. Told' /\ Citable' /\ Rested'
    BY <1>1 DEF AskInv, Told, Citable, Rested, Sending, Waiting, Stopped
  <1> QED
    BY <1>2, <1>3, <1>4 DEF AskInv

LEMMA StutterIsSafe == ASSUME AskInv, UNCHANGED askVars PROVE AskInv'
  <1>1. UNCHANGED <<pc, ask, page, attempt, outcome, sent, deliveries, delivered, excused, deaths>>
    BY DEF askVars
  <1>2. AskTypeOK'
    BY <1>1 DEF AskInv, AskTypeOK
  <1>3. AskedCleanly' /\ Fresh' /\ Boxed' /\ Counted'
    BY <1>1 DEF AskInv, AskedCleanly, Fresh, Boxed, Counted
  <1>4. Told' /\ Citable' /\ Rested'
    BY <1>1 DEF AskInv, Told, Citable, Rested
  <1> QED
    BY <1>2, <1>3, <1>4 DEF AskInv

-----------------------------------------------------------------------------
(* The question: the theorems *)

LEMMA InitIsSafe == AskInit => AskInv
  <1> SUFFICES ASSUME AskInit PROVE AskInv
    OBVIOUS
  <1>1. /\ pc = "healthy" /\ ask = NoAsk /\ page \in Pages /\ attempt = 1 /\ sent = {}
        /\ deliveries = 0 /\ delivered = "no" /\ excused = 0 /\ deaths = 0
        /\ outcome = NoOutcome
    BY DEF AskInit
  <1>2. /\ ask \in AskRecord /\ ask.waited = 0 /\ ask.empty = 0
        /\ ask.byButton = FALSE /\ ask.read = Nothing
    BY <1>1, NoAskIsAsk DEF NoAsk
  <1>3. page \in PageRecord
    BY <1>1, PagesArePages
  <1>4. outcome \in [code : Codes, submitted : BOOLEAN, answer : Lengths]
    BY <1>1 DEF NoOutcome, Codes
  <1>5. AskTypeOK
    BY <1>1, <1>2, <1>3, <1>4, AskAssumption DEF AskTypeOK, PCs
  <1>6. AskedCleanly /\ Fresh /\ Boxed /\ Counted
    BY <1>1, <1>2 DEF AskedCleanly, Fresh, Boxed, Counted, Sending
  <1>7. Told /\ Citable /\ Rested
    BY <1>1, <1>2 DEF Told, Citable, Rested, Sending, Waiting, Stopped
  <1> QED
    BY <1>5, <1>6, <1>7 DEF AskInv

LEMMA NextIsSafe == AskInv /\ [AskNext]_askVars => AskInv'
  <1> SUFFICES ASSUME AskInv, [AskNext]_askVars PROVE AskInv'
    OBVIOUS
  <1>1. CASE Healthy \/ Clean \/ LookEmpty \/ AssertFresh \/ Fill
    BY <1>1, HealthyIsSafe, CleanIsSafe, LookEmptyIsSafe, AssertFreshIsSafe, FillIsSafe
  <1>2. CASE Click \/ Clear \/ Enter \/ Confirm
    BY <1>2, ClickIsSafe, ClearIsSafe, EnterIsSafe, ConfirmIsSafe
  <1>3. CASE Poll \/ Decide \/ BudgetSpent \/ Citations
    BY <1>3, PollIsSafe, DecideIsSafe, BudgetSpentIsSafe, CitationsIsSafe
  <1>4. CASE Write \/ Drop \/ Breaks \/ UNCHANGED askVars
    BY <1>4, PlatformIsSafe, BreaksIsSafe, StutterIsSafe
  <1>5. CASE Retry \/ GiveUp \/ Succeed \/ Die
    BY <1>5, RetryIsSafe, EndingIsSafe, DieIsSafe
  <1> QED
    BY <1>1, <1>2, <1>3, <1>4, <1>5 DEF AskNext, Driver

\* Every variable keeps its type and no loop of the driver outlasts its budget: the
\* inductive invariant of the module, AskInv, which every theorem below rests on.
THEOREM AskInvariant == AskSpec => []AskInv
  BY InitIsSafe, NextIsSafe, PTL DEF AskSpec

\* Every variable keeps its type, and no wait of the driver lasts longer than its budget.
THEOREM AskTypeCorrect == AskSpec => []AskTypeOK
  <1>1. AskInv => AskTypeOK
    BY DEF AskInv
  <1> QED
    BY <1>1, AskInvariant, PTL

\* The platform is never sent a residue of an earlier question, nor a follow-up in an old
\* conversation (assertFreshConversation, fillVerifiedPrompt).
THEOREM OnlyTheQuestion == AskSpec => []AskedCleanly
  <1>1. AskInv => AskedCleanly
    BY DEF AskInv
  <1> QED
    BY <1>1, AskInvariant, PTL

\* promptSubmitted is false only of an attempt in which nothing was sent.
THEOREM UnsentIsTrue == AskSpec => []UnsentMeansUnsent
  <1>1. AskInv => UnsentMeansUnsent
    BY DEF AskInv, Told, UnsentMeansUnsent
  <1> QED
    BY <1>1, AskInvariant, PTL

\* canRetryOutcome lets the question reach the platform again only where its repetition is
\* accepted, whatever the number of attempts.
THEOREM RepeatsAreAccounted == AskSpec => []RepeatsAccounted
  <1>1. ASSUME AskInv PROVE RepeatsAccounted
    <2>1. deliveries \in Nat /\ excused \in Nat
      BY <1>1 DEF AskInv, AskTypeOK
    <2> QED
      BY <1>1, <2>1 DEF AskInv, Counted, RepeatsAccounted
  <1> QED
    BY <1>1, AskInvariant, PTL

\* What is recorded as a success was sent with the button, in the attempt that returned it.
THEOREM SuccessesAreCitable == AskSpec => []SuccessIsCitable
  <1>1. ASSUME AskInv PROVE SuccessIsCitable
    BY <1>1 DEF AskInv, Citable, SuccessIsCitable
  <1> QED
    BY <1>1, AskInvariant, PTL

\* What an attempt reports of its question is what happened: unsent means unsent, and a
\* success was sent with the button.
THEOREM OutcomesAreTrue == AskSpec => []OutcomeIsTrue
  <1>1. UnsentMeansUnsent /\ SuccessIsCitable => OutcomeIsTrue
    BY DEF OutcomeIsTrue
  <1> QED
    BY <1>1, UnsentIsTrue, SuccessesAreCitable, PTL
=============================================================================

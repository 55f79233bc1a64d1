-------------------------- MODULE MonitorSchedule --------------------------
(***************************************************************************)
(* The monitor workers and one recurring plan.  Each worker turns the due   *)
(* plan into an occurrence (a row of service_monitor_executions), claims    *)
(* occurrences one after the other, creates or finds the batch of each,     *)
(* enqueues it and writes the result.  A claim that is five minutes old is  *)
(* taken over, whether or not its worker is alive.  The API edits the plan  *)
(* with one statement that reads it and a later one that writes it.         *)
(***************************************************************************)
EXTENDS Integers, FiniteSets

CONSTANTS
    Workers,            \* monitor-worker processes
    Editors,            \* PATCH requests that may overlap
    Schedules,          \* wall-clock schedules: [every, at], in units of the clock
    MaxTime,            \* bound: the clock stops here
    MaxEdits,           \* bound: edits begun
    MaxMishaps          \* bound: deaths, failed queries and claims outlived by their worker

ASSUME MonitorAssumption ==
    /\ IsFiniteSet(Workers) /\ IsFiniteSet(Editors)
    /\ Schedules # {}
    /\ \A s \in Schedules : s.every \in Nat \ {0} /\ s.at \in 0..(s.every - 1)
    /\ MaxTime \in Nat /\ MaxEdits \in Nat /\ MaxMishaps \in Nat

VARIABLES
    now,
    plan,               \* the row of service_monitor_plans
    status,             \* of the occurrence of each slot; "none": no row
    created,            \* when the occurrence was materialised; 0 before
    stale,              \* occurrences whose updated_at is older than five minutes
    batch,              \* of each occurrence: "none", "pending", "queued" or "finished"
    batches,            \* how many batches were created for it
    runs,               \* how often its batch was put into the queue
    events,             \* service_webhook_events: <<slot, type>>
    worker, editor,
    edits, mishaps

vars == <<now, plan, status, created, stale, batch, batches, runs, events, worker,
          editor, edits, mishaps>>

planVars  == <<now, plan, editor, edits>>
batchVars == <<batch, batches, runs>>

Slots == 1..MaxTime     \* those that can come due
Plans == [exists : BOOLEAN, enabled : BOOLEAN, schedule : Schedules, next : Nat]

\* nextScheduledAt: the first slot of the schedule after t.
NextSlot(s, t) == CHOOSE u \in (t + 1)..(t + s.every) : u % s.every = s.at

Resting == [pc |-> "idle", slot |-> 0, found |-> FALSE, result |-> "none"]
NoRow   == [exists |-> FALSE, enabled |-> FALSE, next |-> 1,
            schedule |-> CHOOSE s \in Schedules : TRUE]
NoEdit  == [pc |-> "idle", row |-> NoRow]

Init ==
    /\ now = 0
    /\ \E s \in Schedules :
          plan = [exists |-> TRUE, enabled |-> TRUE, schedule |-> s, next |-> NextSlot(s, 0)]
    /\ status = [t \in Slots |-> "none"]
    /\ created = [t \in Slots |-> 0]
    /\ stale = {}
    /\ batch = [t \in Slots |-> "none"]
    /\ batches = [t \in Slots |-> 0]
    /\ runs = [t \in Slots |-> 0]
    /\ events = {}
    /\ worker = [w \in Workers |-> Resting]
    /\ editor = [e \in Editors |-> NoEdit]
    /\ edits = 0 /\ mishaps = 0

Mishap == mishaps < MaxMishaps /\ mishaps' = mishaps + 1

-----------------------------------------------------------------------------
(* The clock, the batch workers and the API *)

Tick ==
    /\ now < MaxTime
    /\ now' = now + 1
    /\ UNCHANGED <<plan, status, created, stale, batchVars, events, worker, editor,
                   edits, mishaps>>

Holds(w, t) == worker[w].pc \notin {"idle", "claim"} /\ worker[w].slot = t

\* Five minutes after a claim.  While its worker still lives this is a mishap.
Age(t) ==
    /\ status[t] = "processing" /\ t \notin stale
    /\ stale' = stale \cup {t}
    /\ IF \E w \in Workers : Holds(w, t) THEN Mishap ELSE UNCHANGED mishaps
    /\ UNCHANGED <<planVars, status, created, batchVars, events, worker>>

\* The queue has dealt with every job of the batch.
BatchEnds(t) ==
    /\ batch[t] = "queued"
    /\ batch' = [batch EXCEPT ![t] = "finished"]
    /\ UNCHANGED <<planVars, status, created, stale, batches, runs, events, worker, mishaps>>

\* updateMonitorPlan takes its time and reads the row; what it will write is settled
\* here.  The next run is computed anew when the edit names the schedule or the switch,
\* and is the one that was read when it does not.
EditRead(e) ==
    /\ editor[e].pc = "idle" /\ plan.exists /\ edits < MaxEdits
    /\ edits' = edits + 1
    /\ \/ editor' = [editor EXCEPT ![e] = [pc |-> "write", row |-> plan]]
       \/ \E s \in Schedules, on \in BOOLEAN :
             editor' = [editor EXCEPT ![e] = [pc |-> "write", row |->
                [plan EXCEPT !.enabled = on, !.schedule = s, !.next = NextSlot(s, now)]]]
    /\ UNCHANGED <<now, plan, status, created, stale, batchVars, events, worker, mishaps>>

EditWrite(e) ==
    /\ editor[e].pc = "write"
    /\ plan' = IF plan.exists THEN editor[e].row ELSE plan
    /\ editor' = [editor EXCEPT ![e] = NoEdit]
    /\ UNCHANGED <<now, status, created, stale, batchVars, events, worker, edits, mishaps>>

\* ON DELETE CASCADE takes the occurrences along; their batches stay, without a link.
DeletePlan ==
    /\ plan.exists /\ edits < MaxEdits
    /\ edits' = edits + 1
    /\ plan' = [plan EXCEPT !.exists = FALSE]
    /\ status' = [t \in Slots |-> "none"]
    /\ created' = [t \in Slots |-> 0]
    /\ stale' = {}
    /\ UNCHANGED <<now, batchVars, events, worker, editor, mishaps>>

-----------------------------------------------------------------------------
(* tick: materialise, then claim until nothing is left *)

Due == plan.exists /\ plan.enabled /\ plan.next <= now

\* A variant that goes through the missed slots one by one.
FollowingInTurn == NextSlot(plan.schedule, plan.next)

\* Downtime is not backfilled: the slots between are passed over.
Following == NextSlot(plan.schedule, now)

\* A variant without ON CONFLICT: the transaction is rolled back.
MaterialiseStrict(w) ==
    /\ worker[w].pc = "idle"
    /\ worker' = [worker EXCEPT ![w].pc = "claim"]
    /\ LET t == plan.next
           inserts == Due /\ status[t] = "none" IN
       /\ plan' = IF inserts THEN [plan EXCEPT !.next = Following] ELSE plan
       /\ status' = IF inserts THEN [status EXCEPT ![t] = "pending"] ELSE status
       /\ created' = IF inserts THEN [created EXCEPT ![t] = now] ELSE created
    /\ UNCHANGED <<now, stale, batchVars, events, editor, edits, mishaps>>

\* One transaction; (plan_id, scheduled_for) is unique and a conflict is passed over.
Materialise(w) ==
    /\ worker[w].pc = "idle"
    /\ worker' = [worker EXCEPT ![w].pc = "claim"]
    /\ LET t == plan.next
           inserts == Due /\ status[t] = "none" IN
       /\ plan' = IF Due THEN [plan EXCEPT !.next = Following] ELSE plan
       /\ status' = IF inserts THEN [status EXCEPT ![t] = "pending"] ELSE status
       /\ created' = IF inserts THEN [created EXCEPT ![t] = now] ELSE created
    /\ UNCHANGED <<now, stale, batchVars, events, editor, edits, mishaps>>

\* A variant that never takes over.
ClaimablePending == {t \in Slots : status[t] = "pending"}

\* A variant that takes over at once.
ClaimableAtOnce == {t \in Slots : status[t] \in {"pending", "processing"}}

Claimable == {t \in Slots : status[t] = "pending" \/ (status[t] = "processing" /\ t \in stale)}

\* The oldest goes first; SKIP LOCKED passes over one that another worker is claiming.
Claim(w) ==
    /\ worker[w].pc = "claim" /\ Claimable # {}
    /\ \E t \in Claimable :
          /\ \/ \A u \in Claimable : t <= u
             \/ \E v \in Workers \ {w} : worker[v].pc = "claim"
          /\ status' = [status EXCEPT ![t] = "processing"]
          /\ stale' = stale \ {t}
          /\ worker' = [worker EXCEPT ![w] = [Resting EXCEPT !.pc = "accounts", !.slot = t]]
    /\ UNCHANGED <<planVars, created, batchVars, events, mishaps>>

TickEnds(w) ==
    /\ worker[w].pc = "claim" /\ Claimable = {}
    /\ worker' = [worker EXCEPT ![w] = Resting]
    /\ UNCHANGED <<planVars, status, created, stale, batchVars, events, mishaps>>

-----------------------------------------------------------------------------
(* executeOccurrence *)

Goto(w, pc) == worker' = [worker EXCEPT ![w].pc = pc]

Ends(w, result) == worker' = [worker EXCEPT ![w].pc = "finish", ![w].result = result]

\* The context has gone with the plan; or an account needs a person; or an account or
\* every keyword has gone, which throws; or the occurrence goes ahead.
Accounts(w) ==
    /\ worker[w].pc = "accounts"
    /\ IF status[worker[w].slot] = "none"
       THEN Goto(w, "claim")
       ELSE \/ Ends(w, "skipped")
            \/ Ends(w, "failed")
            \/ Goto(w, "lookup")
    /\ UNCHANGED <<planVars, status, created, stale, batchVars, events, mishaps>>

Linked(t) == status[t] # "none" /\ batch[t] # "none"

\* existingBatch
Lookup(w) ==
    /\ worker[w].pc = "lookup"
    /\ worker' = [worker EXCEPT ![w].pc = "create", ![w].found = Linked(worker[w].slot)]
    /\ UNCHANGED <<planVars, status, created, stale, batchVars, events, mishaps>>

\* monitor_execution_id is unique and refers to an existing occurrence.
MayInsert(t) == status[t] # "none" /\ batch[t] = "none"

\* createSamplingBatch is one transaction; the batch found before is used as it is.
Create(w) ==
    /\ worker[w].pc = "create"
    /\ LET t == worker[w].slot IN
       IF worker[w].found
       THEN Goto(w, "enqueue") /\ UNCHANGED batchVars
       ELSE IF MayInsert(t)
       THEN /\ batch' = [batch EXCEPT ![t] = "pending"]
            /\ batches' = [batches EXCEPT ![t] = @ + 1]
            /\ Goto(w, "enqueue")
            /\ UNCHANGED runs
       ELSE Ends(w, "failed") /\ UNCHANGED batchVars
    /\ UNCHANGED <<planVars, status, created, stale, events, mishaps>>

\* A batch with live jobs counts as started; any other has its jobs added again, the
\* finished ones after their removal.
PutIntoQueue(t) ==
    /\ batch' = [batch EXCEPT ![t] = "queued"]
    /\ runs' = IF batch[t] = "queued" THEN runs ELSE [runs EXCEPT ![t] = @ + 1]

Enqueue(w) ==
    /\ worker[w].pc = "enqueue"
    /\ PutIntoQueue(worker[w].slot)
    /\ Ends(w, "completed")
    /\ UNCHANGED <<planVars, status, created, stale, batches, events, mishaps>>

\* A variant that takes every answer of enqueueBatch for a start.
RefusedAnyway == "completed"

\* enqueueBatch answers started: false without alreadyActive.
Refused == "failed"

NotEnqueued(w) ==
    /\ worker[w].pc = "enqueue"
    /\ Ends(w, Refused)
    /\ UNCHANGED <<planVars, status, created, stale, batchVars, events, mishaps>>

\* A variant that leaves updated_at as it is when the result is written.
FinishKeepsAge(w) ==
    /\ worker[w].pc = "finish"
    /\ LET t == worker[w].slot IN
       status' = IF status[t] = "none" THEN status
                 ELSE [status EXCEPT ![t] = worker[w].result]
    /\ Goto(w, "emit")
    /\ UNCHANGED <<planVars, created, stale, batchVars, events, mishaps>>

\* The result is written whoever holds the occurrence by now.
Finish(w) ==
    /\ worker[w].pc = "finish"
    /\ LET t == worker[w].slot IN
       /\ status' = IF status[t] = "none" THEN status
                    ELSE [status EXCEPT ![t] = worker[w].result]
       /\ stale' = stale \ {t}
    /\ Goto(w, "emit")
    /\ UNCHANGED <<planVars, created, batchVars, events, mishaps>>

EventOf(result) == CASE result = "skipped"   -> "action_required"
                     [] result = "failed"    -> "failed"
                     [] result = "completed" -> "batch_created"

\* The event key names occurrence and type; a failed insertion is swallowed.
Emit(w) ==
    /\ worker[w].pc = "emit"
    /\ \/ events' = events \cup {<<worker[w].slot, EventOf(worker[w].result)>>}
          /\ UNCHANGED mishaps
       \/ UNCHANGED events /\ Mishap
    /\ worker' = [worker EXCEPT ![w] = [Resting EXCEPT !.pc = "claim"]]
    /\ UNCHANGED <<planVars, status, created, stale, batchVars>>

Guarded == {"accounts", "lookup", "create", "enqueue"}

\* A failed call: inside the try it is the result "failed", also when the result of the
\* try could not be written; in the catch, or around the claim, it ends the tick.
Throws(w) ==
    /\ Mishap
    /\ \/ /\ worker[w].pc \in Guarded \/ (worker[w].pc = "finish" /\ worker[w].result # "failed")
          /\ Ends(w, "failed")
       \/ /\ worker[w].pc \in {"claim", "accounts"} \/ (worker[w].pc = "finish" /\ worker[w].result = "failed")
          /\ worker' = [worker EXCEPT ![w] = Resting]
    /\ UNCHANGED <<planVars, status, created, stale, batchVars, events>>

\* enqueueBatch throws after it has added the jobs.
EnqueueThrows(w) ==
    /\ worker[w].pc = "enqueue" /\ Mishap
    /\ PutIntoQueue(worker[w].slot)
    /\ Ends(w, "failed")
    /\ UNCHANGED <<planVars, status, created, stale, batches, events>>

\* The process dies and is started again.
Die(w) ==
    /\ worker[w].pc # "idle" /\ Mishap
    /\ worker' = [worker EXCEPT ![w] = Resting]
    /\ UNCHANGED <<planVars, status, created, stale, batchVars, events>>

-----------------------------------------------------------------------------
WorkerSteps(w) ==
    \/ Materialise(w) \/ Claim(w) \/ TickEnds(w) \/ Accounts(w) \/ Lookup(w)
    \/ Create(w) \/ Enqueue(w) \/ NotEnqueued(w) \/ Finish(w) \/ Emit(w)

Next ==
    \/ Tick \/ DeletePlan
    \/ \E t \in Slots : Age(t) \/ BatchEnds(t)
    \/ \E e \in Editors : EditRead(e) \/ EditWrite(e)
    \/ \E w \in Workers : WorkerSteps(w) \/ Throws(w) \/ EnqueueThrows(w) \/ Die(w)

Spec == Init /\ [][Next]_vars

Orphaned(t) == \A w \in Workers : ~Holds(w, t)

\* A worker goes on, and polls again; time passes over the claim of a dead one; an API
\* request that has read the plan writes it.
Fairness ==
    /\ \A w \in Workers : WF_vars(WorkerSteps(w))
    /\ \A t \in Slots : WF_vars(Orphaned(t) /\ Age(t))
    /\ \A e \in Editors : WF_vars(EditWrite(e))

FairSpec == Spec /\ Fairness

-----------------------------------------------------------------------------
(* Properties *)

Results  == {"skipped", "failed", "completed"}
WorkerPC == {"idle", "claim", "accounts", "lookup", "create", "enqueue", "finish", "emit"}

\* Every variable keeps its type: the states of an occurrence are those of the CHECK
\* constraint (migrations/0016), a plan's next run is a slot, a worker between two
\* occurrences holds none.
TypeOK ==
    /\ now \in 0..MaxTime
    /\ plan \in Plans
    /\ status \in [Slots -> Results \cup {"none", "pending", "processing"}]
    /\ created \in [Slots -> 0..MaxTime]
    /\ stale \subseteq Slots /\ \A t \in stale : status[t] = "processing"
    /\ batch \in [Slots -> {"none", "pending", "queued", "finished"}]
    /\ batches \in [Slots -> Nat] /\ runs \in [Slots -> Nat]
    /\ events \subseteq Slots \X {"action_required", "failed", "batch_created"}
    /\ worker \in [Workers -> [pc : WorkerPC, slot : Slots \cup {0}, found : BOOLEAN,
                               result : Results \cup {"none"}]]
    /\ \A w \in Workers : worker[w].pc \notin {"idle", "claim"} => worker[w].slot # 0
    /\ editor \in [Editors -> [pc : {"idle", "write"}, row : Plans]]
    /\ edits \in 0..MaxEdits /\ mishaps \in 0..MaxMishaps

\* Whatever is claimed twice, restarted or written back from an old read of the plan, an
\* occurrence never gets a second batch (docs/DOUBAO_MONITORING.md: retries or restarts
\* do not create duplicate batches for the same occurrence).
OneBatchPerOccurrence == \A t \in Slots : batches[t] <= 1

\* An occurrence reported as completed has had its batch put into the queue: no result of
\* another worker, nor a refusal of enqueueBatch, is reported as a start.
CompletedWasStarted ==
    \A t \in Slots : status[t] = "completed" \/ <<t, "batch_created">> \in events
        => batch[t] \in {"queued", "finished"}

\* The questions of an occurrence are asked again only for a worker that died, was
\* overtaken or saw a call fail, once for each.
RerunsBounded == \A t \in Slots : runs[t] <= 1 + mishaps

\* An occurrence is started once, for all the take-overs: one batch, which is put into the
\* queue again only for a mishap.
StartedOnce == OneBatchPerOccurrence /\ RerunsBounded

\* After downtime one overdue occurrence is materialised, not one per missed slot: what
\* is created at one instant is at most one occurrence, and one more for each edit, which
\* may write back the next run it has read before (materializeDueMonitorExecutions,
\* updateMonitorPlan).
NoBurst == \A n \in 1..MaxTime : Cardinality({t \in Slots : created[t] = n}) <= 1 + edits

\* A plan that is due does not stay due: its slot is materialised or edited away, also
\* when an edit has written back a slot that has its occurrence already.
DueIsMaterialised == Due ~> ~Due

\* Every occurrence comes to a result, or goes with its plan, although workers die.
OccurrenceConcludes ==
    \A t \in Slots : status[t] \in {"pending", "processing"}
        ~> status[t] \in Results \cup {"none"}
=============================================================================

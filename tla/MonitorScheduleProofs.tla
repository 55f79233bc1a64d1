------------------------ MODULE MonitorScheduleProofs ------------------------
(***************************************************************************)
(* Proofs about MonitorSchedule for any number of workers, editors and      *)
(* schedules: typing, one batch and no unexplained rerun for an occurrence, *)
(* "completed" means started, and no burst after downtime.                  *)
(***************************************************************************)
EXTENDS MonitorSchedule, FunctionTheorems, FiniteSetTheorems, TLAPS

-----------------------------------------------------------------------------
(* The schedule *)

LEMMA DivisionOf ==
    ASSUME NEW e \in Nat \ {0}, NEW x \in Int
    PROVE  x % e \in 0..(e - 1) /\ x \div e \in Int /\ x = e * (x \div e) + (x % e)
OBVIOUS

LEMMA Congruent ==
    ASSUME NEW e \in Nat \ {0}, NEW a \in 0..(e - 1), NEW k \in Int
    PROVE  (a + e * k) % e = a
OBVIOUS

\* Among as many consecutive instants as the period is long there is a slot.
LEMMA SlotInPeriod ==
    ASSUME NEW e \in Nat \ {0}, NEW t \in Nat, NEW a \in 0..(e - 1)
    PROVE  \E u \in (t + 1)..(t + e) : u % e = a
<1>1. PICK m \in 0..(e - 1), k \in Int : a - t - 1 = e * k + m
  <2>1. a - t - 1 \in Int
    OBVIOUS
  <2>2. QED
    BY <2>1, DivisionOf
<1>2. t + 1 + m = a + e * (0 - k) /\ 0 - k \in Int
  BY <1>1
<1>3. (a + e * (0 - k)) % e = a
  BY <1>2, Congruent
<1>4. t + 1 + m \in (t + 1)..(t + e)
  BY <1>1
<1>5. QED
  BY <1>2, <1>3, <1>4

\* The next run lies in the future.
LEMMA NextSlotLater ==
    ASSUME NEW s \in Schedules, NEW t \in Nat
    PROVE  NextSlot(s, t) \in Nat /\ NextSlot(s, t) > t
<1>1. s.every \in Nat \ {0} /\ s.at \in 0..(s.every - 1)
  BY MonitorAssumption
<1>2. \E u \in (t + 1)..(t + s.every) : u % s.every = s.at
  BY <1>1, SlotInPeriod
<1>3. NextSlot(s, t) \in (t + 1)..(t + s.every)
  BY <1>2 DEF NextSlot
<1>4. QED
  BY <1>1, <1>3

-----------------------------------------------------------------------------
(* The invariant *)

WorkerRecord == [pc : WorkerPC, slot : Slots \cup {0}, found : BOOLEAN,
                 result : Results \cup {"none"}]

\* A next run is a slot of the future or of the past, not the start of the clock; what an
\* editor writes was read from a row that existed; a result that is to be written is one.
Sound ==
    /\ plan.next > 0
    /\ \A e \in Editors :
          editor[e].row.next > 0 /\ (editor[e].pc = "write" => editor[e].row.exists)
    /\ \A w \in Workers : worker[w].pc \in {"finish", "emit"} => worker[w].result \in Results

\* An occurrence has a time exactly when it has a row.
Dated == \A t \in Slots : created[t] <= now /\ (created[t] = 0 <=> status[t] = "none")

\* A worker works on an occurrence that has been claimed, and before it tells of a result
\* it has written it.
Claimed ==
    /\ \A w \in Workers, t \in Slots :
          Holds(w, t) /\ plan.exists => status[t] \notin {"none", "pending"}
    /\ \A w \in Workers :
          worker[w].pc = "emit" => status[worker[w].slot] \in Results \cup {"none"}

\* A batch is created where there is none.
BatchOnce == \A t \in Slots : (batch[t] = "none" => batches[t] = 0) /\ batches[t] <= 1

Started(t) == batch[t] \in {"queued", "finished"}

\* Who says "completed" has seen the batch started.
ReportsTruly ==
    \A w \in Workers :
       worker[w].pc \in {"finish", "emit"} /\ worker[w].result = "completed"
          => Started(worker[w].slot)

\* Workers that may still put the batch of t into the queue, and whether the occurrence
\* can find another one.
Active(t) == {w \in Workers : worker[w].pc \in Guarded /\ worker[w].slot = t}

Open(t) ==
    \/ status[t] = "none" /\ plan.exists
    \/ status[t] = "pending"
    \/ status[t] = "processing" /\ (t \in stale \/ Orphaned(t))

Credit(t) == IF Open(t) THEN 1 ELSE 0

RunsAccounted == \A t \in Slots : runs[t] + Cardinality(Active(t)) + Credit(t) <= 1 + mishaps

\* Slots that have come and may still be materialised: the plan's next run, or one that an
\* edit is about to write back.
CreatedAt(n) == {t \in Slots : created[t] = n}
Writing == {e \in Editors : editor[e].pc = "write"}
Coming ==
    {t \in 1..now : created[t] = 0 /\ (plan.next = t \/ \E e \in Writing : editor[e].row.next = t)}

BurstAccounted ==
    /\ Cardinality(Writing) <= edits
    /\ NoBurst
    /\ now \in Slots => Cardinality(CreatedAt(now)) + Cardinality(Coming) <= 1 + edits

Typed == TypeOK /\ Sound

-----------------------------------------------------------------------------
(* What the moves of a worker do to its record *)

LEMMA GotoMoves ==
    ASSUME Typed, NEW w \in Workers, NEW p \in WorkerPC, Goto(w, p)
    PROVE  /\ worker' \in [Workers -> WorkerRecord]
           /\ worker'[w] = [worker[w] EXCEPT !.pc = p]
           /\ \A v \in Workers \ {w} : worker'[v] = worker[v]
BY DEF Typed, TypeOK, Goto, WorkerRecord

LEMMA EndsMoves ==
    ASSUME Typed, NEW w \in Workers, NEW r \in Results, Ends(w, r)
    PROVE  /\ worker' \in [Workers -> WorkerRecord]
           /\ worker'[w] = [worker[w] EXCEPT !.pc = "finish", !.result = r]
           /\ \A v \in Workers \ {w} : worker'[v] = worker[v]
<1>1. worker \in [Workers -> WorkerRecord]
  BY DEF Typed, TypeOK, WorkerRecord
<1>2. [worker[w] EXCEPT !.pc = "finish", !.result = r] \in WorkerRecord
  BY <1>1 DEF WorkerRecord, WorkerPC
<1>3. worker' = [worker EXCEPT ![w] = [worker[w] EXCEPT !.pc = "finish", !.result = r]]
  BY <1>1 DEF Ends
<1>4. QED
  BY <1>1, <1>2, <1>3

LEMMA RestMoves ==
    ASSUME Typed, NEW w \in Workers, NEW p \in {"idle", "claim"},
           worker' = [worker EXCEPT ![w] = [Resting EXCEPT !.pc = p]]
    PROVE  /\ worker' \in [Workers -> WorkerRecord]
           /\ worker'[w].pc = p /\ worker'[w].slot = 0
           /\ \A v \in Workers \ {w} : worker'[v] = worker[v]
<1>1. Resting \in WorkerRecord /\ Resting.slot = 0
  BY DEF Resting, WorkerRecord, WorkerPC
<1>2. [Resting EXCEPT !.pc = p] \in WorkerRecord
  BY <1>1 DEF WorkerRecord, WorkerPC
<1>3. [Resting EXCEPT !.pc = p].pc = p /\ [Resting EXCEPT !.pc = p].slot = 0
  BY <1>1 DEF WorkerRecord
<1>4. QED
  BY <1>2, <1>3 DEF Typed, TypeOK, WorkerRecord

LEMMA IdleIsResting == Resting = [Resting EXCEPT !.pc = "idle"]
BY DEF Resting

\* A record of the plan with another next run.
LEMMA PlanMoves ==
    ASSUME NEW p \in Plans, NEW n \in Nat
    PROVE  /\ [p EXCEPT !.next = n] \in Plans /\ [p EXCEPT !.next = n].next = n
           /\ [p EXCEPT !.next = n].exists = p.exists
BY DEF Plans

LEMMA NoRowType == NoRow \in Plans /\ NoRow.next = 1
<1>1. (CHOOSE s \in Schedules : TRUE) \in Schedules
  BY MonitorAssumption
<1>2. QED
  BY <1>1 DEF NoRow, Plans

-----------------------------------------------------------------------------
(* Typing *)

PlanTyped ==
    /\ now \in 0..MaxTime /\ plan \in Plans /\ plan.next > 0 /\ edits \in 0..MaxEdits
    /\ editor \in [Editors -> [pc : {"idle", "write"}, row : Plans]]
    /\ \A e \in Editors :
          editor[e].row.next > 0 /\ (editor[e].pc = "write" => editor[e].row.exists)

OccurrencesTyped ==
    /\ status \in [Slots -> Results \cup {"none", "pending", "processing"}]
    /\ created \in [Slots -> 0..MaxTime]
    /\ stale \subseteq Slots /\ \A t \in stale : status[t] = "processing"

BatchesTyped ==
    /\ batch \in [Slots -> {"none", "pending", "queued", "finished"}]
    /\ batches \in [Slots -> Nat] /\ runs \in [Slots -> Nat]

WorkersTyped ==
    /\ worker \in [Workers -> WorkerRecord]
    /\ \A w \in Workers :
          /\ worker[w].pc \notin {"idle", "claim"} => worker[w].slot \in Slots
          /\ worker[w].pc \in {"finish", "emit"} => worker[w].result \in Results

EventsTyped == events \subseteq Slots \X {"action_required", "failed", "batch_created"}

LEMMA TypedParts ==
    Typed <=> /\ PlanTyped /\ OccurrencesTyped /\ BatchesTyped /\ WorkersTyped /\ EventsTyped
              /\ mishaps \in 0..MaxMishaps
<1>1. 0 \notin Slots
  BY DEF Slots
<1>2. ASSUME worker \in [Workers -> WorkerRecord], NEW w \in Workers
      PROVE  worker[w].slot # 0 <=> worker[w].slot \in Slots
  BY <1>1, <1>2 DEF WorkerRecord
<1>3. WorkersTyped <=>
        /\ worker \in [Workers -> WorkerRecord]
        /\ \A w \in Workers : worker[w].pc \notin {"idle", "claim"} => worker[w].slot # 0
        /\ \A w \in Workers : worker[w].pc \in {"finish", "emit"} => worker[w].result \in Results
  BY <1>2 DEF WorkersTyped
<1>4. QED
  BY <1>3 DEF Typed, TypeOK, Sound, PlanTyped, OccurrencesTyped, BatchesTyped, EventsTyped, WorkerRecord

LEMMA TypedPartsNext ==
    Typed' <=> /\ PlanTyped' /\ OccurrencesTyped' /\ BatchesTyped' /\ WorkersTyped' /\ EventsTyped'
               /\ (mishaps \in 0..MaxMishaps)'
BY TypedParts, PTL

\* The parts whose variables a step leaves alone.
LEMMA UnchangedParts ==
    ASSUME Typed
    PROVE  /\ UNCHANGED planVars => PlanTyped'
           /\ UNCHANGED <<status, created, stale>> => OccurrencesTyped'
           /\ UNCHANGED batchVars => BatchesTyped'
           /\ UNCHANGED worker => WorkersTyped'
           /\ UNCHANGED events => EventsTyped'
           /\ UNCHANGED mishaps => mishaps' \in 0..MaxMishaps
           /\ Mishap => mishaps' \in 0..MaxMishaps
<1> USE TypedParts
<1>1. UNCHANGED planVars => PlanTyped'
  BY DEF planVars, PlanTyped
<1>2. UNCHANGED <<status, created, stale>> => OccurrencesTyped'
  BY DEF OccurrencesTyped
<1>3. UNCHANGED batchVars => BatchesTyped'
  BY DEF batchVars, BatchesTyped
<1>4. UNCHANGED worker => WorkersTyped'
  BY DEF WorkersTyped
<1>5. UNCHANGED events => EventsTyped'
  BY DEF EventsTyped
<1>6. Mishap => mishaps' \in 0..MaxMishaps
  BY MonitorAssumption DEF Mishap
<1>7. QED
  BY <1>1, <1>2, <1>3, <1>4, <1>5, <1>6

\* A worker that moves keeps its slot, takes a claimed one, or has none.
LEMMA WorkerPart ==
    ASSUME Typed, NEW w \in Workers,
           \/ \E p \in WorkerPC \ {"emit", "finish"} :
                 Goto(w, p) /\ (p \in {"idle", "claim"} \/ worker[w].pc \notin {"idle", "claim"})
           \/ Goto(w, "emit") /\ worker[w].pc = "finish"
           \/ \E r \in Results : Ends(w, r) /\ worker[w].pc \notin {"idle", "claim"}
           \/ \E p \in {"idle", "claim"} : worker' = [worker EXCEPT ![w] = [Resting EXCEPT !.pc = p]]
    PROVE  WorkersTyped'
<1> USE TypedParts DEF WorkersTyped
<1>1. ASSUME NEW p \in WorkerPC \ {"emit", "finish"}, Goto(w, p),
             p \in {"idle", "claim"} \/ worker[w].pc \notin {"idle", "claim"}
      PROVE  WorkersTyped'
  <2>1. /\ worker' \in [Workers -> WorkerRecord]
        /\ worker'[w] = [worker[w] EXCEPT !.pc = p]
        /\ \A v \in Workers \ {w} : worker'[v] = worker[v]
    BY <1>1, GotoMoves
  <2>2. worker'[w].pc = p /\ worker'[w].slot = worker[w].slot
    BY <2>1 DEF WorkerRecord
  <2>3. QED
    BY <1>1, <2>1, <2>2
<1>2. ASSUME Goto(w, "emit"), worker[w].pc = "finish" PROVE WorkersTyped'
  <2>1. /\ worker' \in [Workers -> WorkerRecord]
        /\ worker'[w] = [worker[w] EXCEPT !.pc = "emit"]
        /\ \A v \in Workers \ {w} : worker'[v] = worker[v]
    BY <1>2, GotoMoves DEF WorkerPC
  <2>2. worker'[w].result = worker[w].result /\ worker'[w].slot = worker[w].slot
    BY <2>1 DEF WorkerRecord
  <2>3. QED
    BY <1>2, <2>1, <2>2
<1>3. ASSUME NEW r \in Results, Ends(w, r), worker[w].pc \notin {"idle", "claim"}
      PROVE  WorkersTyped'
  <2>1. /\ worker' \in [Workers -> WorkerRecord]
        /\ worker'[w] = [worker[w] EXCEPT !.pc = "finish", !.result = r]
        /\ \A v \in Workers \ {w} : worker'[v] = worker[v]
    BY <1>3, EndsMoves
  <2>2. worker'[w].result = r /\ worker'[w].slot = worker[w].slot
    BY <2>1 DEF WorkerRecord
  <2>3. QED
    BY <1>3, <2>1, <2>2
<1>4. ASSUME NEW p \in {"idle", "claim"}, worker' = [worker EXCEPT ![w] = [Resting EXCEPT !.pc = p]]
      PROVE  WorkersTyped'
  <2>1. /\ worker' \in [Workers -> WorkerRecord] /\ worker'[w].pc = p
        /\ \A v \in Workers \ {w} : worker'[v] = worker[v]
    BY <1>4, RestMoves
  <2>2. QED
    BY <2>1
<1>5. QED
  BY <1>1, <1>2, <1>3, <1>4

\* An edit reads a row whose next run is the plan's, or computes one that lies ahead.
LEMMA EditReadMoves ==
    ASSUME Typed, NEW e \in Editors, EditRead(e)
    PROVE  /\ \E row \in Plans :
                 /\ row.next > 0 /\ row.exists /\ (row.next = plan.next \/ row.next > now)
                 /\ editor' = [editor EXCEPT ![e] = [pc |-> "write", row |-> row]]
           /\ editor[e].pc = "idle" /\ plan.exists /\ edits' = edits + 1 /\ edits' \in 0..MaxEdits
           /\ UNCHANGED <<now, plan, status, created, stale, batchVars, events, worker, mishaps>>
<1>1. plan.exists /\ edits < MaxEdits /\ edits' = edits + 1 /\ editor[e].pc = "idle"
  BY DEF EditRead
<1>2. UNCHANGED <<now, plan, status, created, stale, batchVars, events, worker, mishaps>>
  BY DEF EditRead
<1>3. /\ plan \in Plans /\ plan.next > 0 /\ now \in Nat /\ edits \in 0..MaxEdits /\ MaxEdits \in Nat
  BY MonitorAssumption DEF Typed, TypeOK, Sound
<1>4. ASSUME NEW s \in Schedules, NEW on \in BOOLEAN,
             editor' = [editor EXCEPT ![e] = [pc |-> "write", row |->
                [plan EXCEPT !.enabled = on, !.schedule = s, !.next = NextSlot(s, now)]]]
      PROVE  \E row \in Plans :
                /\ row.next > 0 /\ row.exists /\ (row.next = plan.next \/ row.next > now)
                /\ editor' = [editor EXCEPT ![e] = [pc |-> "write", row |-> row]]
  <2>1. PICK n \in Nat : n = NextSlot(s, now) /\ n > now
    BY <1>3, NextSlotLater
  <2>2. PICK row : row = [plan EXCEPT !.enabled = on, !.schedule = s, !.next = n]
    OBVIOUS
  <2>3. row \in Plans /\ row.next = n /\ row.exists = plan.exists
    BY <1>3, <2>2 DEF Plans
  <2>4. editor' = [editor EXCEPT ![e] = [pc |-> "write", row |-> row]]
    BY <1>4, <2>1, <2>2
  <2>5. row.next > 0 /\ row.exists /\ row.next > now
    BY <1>1, <1>3, <2>1, <2>3
  <2>6. QED
    BY <2>3, <2>4, <2>5
<1>5. ASSUME editor' = [editor EXCEPT ![e] = [pc |-> "write", row |-> plan]]
      PROVE  \E row \in Plans :
                /\ row.next > 0 /\ row.exists /\ (row.next = plan.next \/ row.next > now)
                /\ editor' = [editor EXCEPT ![e] = [pc |-> "write", row |-> row]]
  BY <1>1, <1>3, <1>5
<1>6. \/ editor' = [editor EXCEPT ![e] = [pc |-> "write", row |-> plan]]
      \/ \E s \in Schedules, on \in BOOLEAN :
            editor' = [editor EXCEPT ![e] = [pc |-> "write", row |->
               [plan EXCEPT !.enabled = on, !.schedule = s, !.next = NextSlot(s, now)]]]
  BY DEF EditRead
<1>7. edits' \in 0..MaxEdits
  BY <1>1, <1>3
<1>8. \E row \in Plans :
         /\ row.next > 0 /\ row.exists /\ (row.next = plan.next \/ row.next > now)
         /\ editor' = [editor EXCEPT ![e] = [pc |-> "write", row |-> row]]
  BY <1>4, <1>5, <1>6
<1>9. QED
  BY <1>1, <1>2, <1>7, <1>8

\* The steps of the clock, the queue and the API.
LEMMA OutsideTypes ==
    ASSUME Typed,
           \/ Tick \/ DeletePlan
           \/ \E t \in Slots : Age(t) \/ BatchEnds(t)
           \/ \E e \in Editors : EditRead(e) \/ EditWrite(e)
    PROVE  Typed'
<1> USE TypedParts, TypedPartsNext, UnchangedParts
<1>1. CASE Tick
  <2>1. PlanTyped'
    BY <1>1, MonitorAssumption DEF Tick, PlanTyped
  <2>2. QED
    BY <1>1, <2>1 DEF Tick
<1>2. CASE DeletePlan
  <2>1. PlanTyped'
    <3>1. plan' = [plan EXCEPT !.exists = FALSE] /\ plan \in Plans
      BY <1>2 DEF DeletePlan, PlanTyped
    <3>2. plan' \in Plans /\ plan'.next = plan.next
      BY <3>1 DEF Plans
    <3>3. edits' \in 0..MaxEdits /\ now' = now /\ editor' = editor
      BY <1>2, MonitorAssumption DEF DeletePlan, PlanTyped
    <3>4. QED
      BY <3>2, <3>3 DEF PlanTyped
  <2>2. OccurrencesTyped'
    BY <1>2, MonitorAssumption DEF DeletePlan, OccurrencesTyped
  <2>3. QED
    BY <1>2, <2>1, <2>2 DEF DeletePlan
<1>3. ASSUME NEW t \in Slots, Age(t) PROVE Typed'
  <2>1. OccurrencesTyped'
    BY <1>3 DEF Age, OccurrencesTyped
  <2>2. mishaps' \in 0..MaxMishaps
    BY <1>3 DEF Age
  <2>3. QED
    BY <1>3, <2>1, <2>2 DEF Age
<1>4. ASSUME NEW t \in Slots, BatchEnds(t) PROVE Typed'
  <2>1. BatchesTyped'
    BY <1>4 DEF BatchEnds, BatchesTyped
  <2>2. QED
    BY <1>4, <2>1 DEF BatchEnds
<1>5. ASSUME NEW e \in Editors, EditRead(e) PROVE Typed'
  <2>1. PICK row \in Plans :
           /\ row.next > 0 /\ row.exists
           /\ editor' = [editor EXCEPT ![e] = [pc |-> "write", row |-> row]]
    BY <1>5, EditReadMoves
  <2>2. /\ edits' \in 0..MaxEdits
        /\ UNCHANGED <<now, plan, status, created, stale, batchVars, events, worker, mishaps>>
    BY <1>5, EditReadMoves
  <2>3. PlanTyped'
    <3>1. [pc |-> "write", row |-> row] \in [pc : {"idle", "write"}, row : Plans]
      OBVIOUS
    <3>2. editor' \in [Editors -> [pc : {"idle", "write"}, row : Plans]]
      BY <2>1, <3>1 DEF PlanTyped
    <3>3. \A d \in Editors : editor'[d] = IF d = e THEN [pc |-> "write", row |-> row] ELSE editor[d]
      BY <2>1 DEF PlanTyped
    <3>4. \A d \in Editors :
             editor'[d].row.next > 0 /\ (editor'[d].pc = "write" => editor'[d].row.exists)
      BY <2>1, <3>3 DEF PlanTyped
    <3>5. QED
      BY <2>2, <3>2, <3>4 DEF PlanTyped
  <2>4. QED
    BY <2>2, <2>3
<1>6. ASSUME NEW e \in Editors, EditWrite(e) PROVE Typed'
  <2>1. NoEdit \in [pc : {"idle", "write"}, row : Plans] /\ NoEdit.row.next = 1 /\ NoEdit.pc = "idle"
    BY NoRowType DEF NoEdit
  <2>2. plan' \in Plans /\ plan'.next > 0
    BY <1>6 DEF EditWrite, PlanTyped
  <2>3. PlanTyped'
    BY <1>6, <2>1, <2>2 DEF EditWrite, PlanTyped
  <2>4. QED
    BY <1>6, <2>3 DEF EditWrite
<1>7. QED
  BY <1>1, <1>2, <1>3, <1>4, <1>5, <1>6

\* What becomes of the plan and its occurrence when it comes due.
LEMMA MaterialiseMoves ==
    ASSUME Typed, NEW w \in Workers, Materialise(w)
    PROVE  /\ plan' \in Plans /\ plan'.exists = plan.exists
           /\ IF Due THEN plan'.next > now /\ plan.next \in Slots ELSE plan' = plan
           /\ IF Due /\ status[plan.next] = "none"
                THEN /\ status' = [status EXCEPT ![plan.next] = "pending"]
                     /\ created' = [created EXCEPT ![plan.next] = now]
                ELSE UNCHANGED <<status, created>>
           /\ Goto(w, "claim") /\ UNCHANGED <<now, stale, batchVars, events, editor, edits, mishaps>>
<1>1. plan \in Plans /\ plan.next > 0 /\ now \in 0..MaxTime /\ now \in Nat /\ plan.next \in Nat
  BY MonitorAssumption DEF Typed, TypeOK, Sound, Plans
<1>2. Following \in Nat /\ Following > now
  BY <1>1, NextSlotLater DEF Following, Plans
<1>3. Due => plan.next \in Slots
  BY <1>1, MonitorAssumption DEF Due, Slots
<1>4. IF Due THEN plan' = [plan EXCEPT !.next = Following] ELSE plan' = plan
  BY DEF Materialise
<1>5. plan' \in Plans /\ plan'.exists = plan.exists /\ (Due => plan'.next > now)
  <2>1. CASE Due
    <3>1. PICK n \in Nat : n = Following /\ n > now
      BY <1>2
    <3>2. plan' = [plan EXCEPT !.next = n]
      BY <1>4, <2>1, <3>1
    <3>3. QED
      BY <1>1, <3>1, <3>2, PlanMoves
  <2>2. CASE ~Due
    BY <1>1, <1>4, <2>2
  <2>3. QED
    BY <2>1, <2>2
<1>6. QED
  BY <1>3, <1>4, <1>5 DEF Materialise, Goto

\* Claim takes an occurrence for a worker that had none.
LEMMA ClaimMoves ==
    ASSUME Typed, NEW w \in Workers, Claim(w)
    PROVE  \E t \in Claimable :
              /\ t \in Slots /\ worker[w].pc = "claim"
              /\ status' = [status EXCEPT ![t] = "processing"] /\ stale' = stale \ {t}
              /\ worker' \in [Workers -> WorkerRecord]
              /\ worker'[w].pc = "accounts" /\ worker'[w].slot = t
              /\ \A v \in Workers \ {w} : worker'[v] = worker[v]
              /\ UNCHANGED <<planVars, created, batchVars, events, mishaps>>
<1>1. PICK t \in Claimable :
         /\ status' = [status EXCEPT ![t] = "processing"] /\ stale' = stale \ {t}
         /\ worker' = [worker EXCEPT ![w] = [Resting EXCEPT !.pc = "accounts", !.slot = t]]
  BY DEF Claim
<1>2. t \in Slots
  BY DEF Claimable
<1>3. Resting \in WorkerRecord
  BY DEF Resting, WorkerRecord, WorkerPC
<1>4. /\ [Resting EXCEPT !.pc = "accounts", !.slot = t] \in WorkerRecord
      /\ [Resting EXCEPT !.pc = "accounts", !.slot = t].pc = "accounts"
      /\ [Resting EXCEPT !.pc = "accounts", !.slot = t].slot = t
  BY <1>2, <1>3 DEF WorkerRecord, WorkerPC
<1>5. worker \in [Workers -> WorkerRecord]
  BY TypedParts DEF WorkersTyped
<1>6. QED
  BY <1>1, <1>2, <1>4, <1>5 DEF Claim

LEMMA EventTypes ==
    ASSUME NEW r \in Results
    PROVE  EventOf(r) \in {"action_required", "failed", "batch_created"}
BY DEF EventOf, Results

\* The steps of a worker.
LEMMA WorkerTypes ==
    ASSUME Typed, NEW w \in Workers,
           WorkerSteps(w) \/ Throws(w) \/ EnqueueThrows(w) \/ Die(w)
    PROVE  Typed'
<1> USE TypedParts, TypedPartsNext, UnchangedParts
<1>1. CASE Materialise(w)
  <2>1. WorkersTyped'
    BY <1>1, MaterialiseMoves, WorkerPart DEF WorkerPC
  <2>2. PlanTyped'
    BY <1>1, MaterialiseMoves DEF PlanTyped, Plans
  <2>3. OccurrencesTyped'
    <3>1. now \in 0..MaxTime
      BY DEF PlanTyped
    <3>2. QED
      BY <1>1, <3>1, MaterialiseMoves DEF OccurrencesTyped
  <2>4. QED
    BY <1>1, <2>1, <2>2, <2>3, MaterialiseMoves
<1>2. CASE Claim(w)
  <2>1. WorkersTyped'
    BY <1>2, ClaimMoves DEF WorkersTyped
  <2>2. OccurrencesTyped'
    BY <1>2, ClaimMoves DEF OccurrencesTyped
  <2>3. QED
    BY <1>2, <2>1, <2>2, ClaimMoves
<1>3. CASE TickEnds(w)
  <2>1. WorkersTyped'
    BY <1>3, IdleIsResting, WorkerPart DEF TickEnds
  <2>2. QED
    BY <1>3, <2>1 DEF TickEnds
<1>4. CASE Accounts(w)
  <2>1. WorkersTyped'
    BY <1>4, WorkerPart DEF Accounts, WorkerPC, Results
  <2>2. QED
    BY <1>4, <2>1 DEF Accounts
<1>5. CASE Lookup(w)
  <2>1. WorkersTyped'
    <3>1. PICK b \in BOOLEAN : b = Linked(worker[w].slot)
      BY DEF Linked
    <3>2. worker \in [Workers -> WorkerRecord] /\ worker[w].pc = "lookup"
      BY <1>5 DEF Lookup, WorkersTyped
    <3>3. PICK r : r = [worker[w] EXCEPT !.pc = "create", !.found = b]
      OBVIOUS
    <3>4. r \in WorkerRecord /\ r.pc = "create" /\ r.slot = worker[w].slot
      BY <3>2, <3>3 DEF WorkerRecord, WorkerPC
    <3>5. worker' = [worker EXCEPT ![w] = r]
      BY <1>5, <3>1, <3>2, <3>3 DEF Lookup
    <3>6. QED
      BY <3>2, <3>4, <3>5 DEF WorkersTyped
  <2>2. QED
    BY <1>5, <2>1 DEF Lookup
<1>6. CASE Create(w)
  <2>1. WorkersTyped'
    BY <1>6, WorkerPart DEF Create, WorkerPC, Results
  <2>2. BatchesTyped'
    BY <1>6 DEF Create, BatchesTyped, batchVars, WorkersTyped
  <2>3. QED
    BY <1>6, <2>1, <2>2 DEF Create
<1>7. CASE Enqueue(w) \/ EnqueueThrows(w)
  <2>1. WorkersTyped'
    BY <1>7, WorkerPart DEF Enqueue, EnqueueThrows, Results
  <2>2. BatchesTyped'
    BY <1>7 DEF Enqueue, EnqueueThrows, PutIntoQueue, BatchesTyped, WorkersTyped
  <2>3. QED
    BY <1>7, <2>1, <2>2 DEF Enqueue, EnqueueThrows
<1>8. CASE NotEnqueued(w)
  <2>1. WorkersTyped'
    BY <1>8, WorkerPart DEF NotEnqueued, Refused, Results
  <2>2. QED
    BY <1>8, <2>1 DEF NotEnqueued
<1>9. CASE Finish(w)
  <2>1. WorkersTyped'
    BY <1>9, WorkerPart DEF Finish
  <2>2. OccurrencesTyped'
    BY <1>9 DEF Finish, OccurrencesTyped, WorkersTyped
  <2>3. QED
    BY <1>9, <2>1, <2>2 DEF Finish
<1>10. CASE Emit(w)
  <2>1. WorkersTyped'
    BY <1>10, WorkerPart DEF Emit
  <2>2. EventsTyped'
    BY <1>10, EventTypes DEF Emit, EventsTyped, WorkersTyped
  <2>3. mishaps' \in 0..MaxMishaps
    BY <1>10 DEF Emit
  <2>4. QED
    BY <1>10, <2>1, <2>2, <2>3 DEF Emit
<1>11. CASE Throws(w)
  <2>1. WorkersTyped'
    BY <1>11, IdleIsResting, WorkerPart DEF Throws, Guarded, Results
  <2>2. QED
    BY <1>11, <2>1 DEF Throws
<1>12. CASE Die(w)
  <2>1. WorkersTyped'
    BY <1>12, IdleIsResting, WorkerPart DEF Die
  <2>2. QED
    BY <1>12, <2>1 DEF Die
<1>13. QED
  BY <1>1, <1>2, <1>3, <1>4, <1>5, <1>6, <1>7, <1>8, <1>9, <1>10, <1>11, <1>12 DEF WorkerSteps

LEMMA TypedStep ==
    ASSUME Typed, [Next]_vars
    PROVE  Typed'
<1>1. CASE UNCHANGED vars
  BY <1>1, TypedParts, TypedPartsNext, UnchangedParts DEF vars, planVars, batchVars
<1>2. CASE Next
  BY <1>2, OutsideTypes, WorkerTypes DEF Next
<1>3. QED
  BY <1>1, <1>2

LEMMA TypedInitially == Init => Typed
<1> SUFFICES ASSUME Init PROVE Typed
  OBVIOUS
<1>1. PlanTyped
  <2>1. PICK s \in Schedules :
           plan = [exists |-> TRUE, enabled |-> TRUE, schedule |-> s, next |-> NextSlot(s, 0)]
    BY DEF Init
  <2>2. NextSlot(s, 0) \in Nat /\ NextSlot(s, 0) > 0
    BY NextSlotLater
  <2>3. plan \in Plans /\ plan.next > 0
    BY <2>1, <2>2 DEF Plans
  <2>4. NoEdit \in [pc : {"idle", "write"}, row : Plans] /\ NoEdit.row.next = 1 /\ NoEdit.pc = "idle"
    BY NoRowType DEF NoEdit
  <2>5. QED
    BY <2>3, <2>4, MonitorAssumption DEF Init, PlanTyped
<1>2. OccurrencesTyped /\ BatchesTyped /\ EventsTyped /\ mishaps \in 0..MaxMishaps
  BY MonitorAssumption DEF Init, OccurrencesTyped, BatchesTyped, EventsTyped
<1>3. WorkersTyped
  BY DEF Init, WorkersTyped, Resting, WorkerRecord, WorkerPC
<1>4. QED
  BY <1>1, <1>2, <1>3, TypedParts

-----------------------------------------------------------------------------
(* Who changes what *)

WorkerMoves(w) == WorkerSteps(w) \/ Throws(w) \/ EnqueueThrows(w) \/ Die(w)

LEMMA NextCases ==
    ASSUME [Next]_vars
    PROVE  \/ Tick \/ DeletePlan \/ UNCHANGED vars
           \/ \E t \in Slots : Age(t) \/ BatchEnds(t)
           \/ \E e \in Editors : EditRead(e) \/ EditWrite(e)
           \/ \E w \in Workers : WorkerMoves(w)
BY DEF Next, WorkerMoves

\* A worker changes its own record only.
LEMMA OthersWait ==
    ASSUME Typed, NEW w \in Workers, WorkerMoves(w), NEW v \in Workers \ {w}
    PROVE  worker'[v] = worker[v]
<1>1. worker \in [Workers -> WorkerRecord]
  BY TypedParts DEF WorkersTyped
<1> USE <1>1 DEF Goto, Ends
<1>2. CASE Materialise(w) \/ Claim(w) \/ TickEnds(w) \/ Accounts(w) \/ Lookup(w)
  BY <1>2 DEF Materialise, Claim, TickEnds, Accounts, Lookup
<1>3. CASE Create(w) \/ Enqueue(w) \/ NotEnqueued(w) \/ Finish(w) \/ Emit(w)
  BY <1>3 DEF Create, Enqueue, NotEnqueued, Finish, Emit
<1>4. CASE Throws(w) \/ EnqueueThrows(w) \/ Die(w)
  BY <1>4 DEF Throws, EnqueueThrows, Die
<1>5. QED
  BY <1>2, <1>3, <1>4 DEF WorkerMoves, WorkerSteps

\* The steps that change the rows of the occurrences, or the clock.
LEMMA OccurrenceSteps ==
    ASSUME [Next]_vars
    PROVE  \/ Tick \/ DeletePlan
           \/ \E w \in Workers : Materialise(w) \/ Claim(w) \/ Finish(w)
           \/ UNCHANGED <<now, status, created>>
<1>1. ASSUME NEW w \in Workers, WorkerMoves(w), ~Materialise(w), ~Claim(w), ~Finish(w)
      PROVE  UNCHANGED <<now, status, created>>
  BY <1>1 DEF WorkerMoves, WorkerSteps, TickEnds, Accounts, Lookup, Create, Enqueue, NotEnqueued, Emit,
              Throws, EnqueueThrows, Die, planVars
<1>2. ASSUME NEW t \in Slots, Age(t) \/ BatchEnds(t) PROVE UNCHANGED <<now, status, created>>
  BY <1>2 DEF Age, BatchEnds, planVars
<1>3. ASSUME NEW e \in Editors, EditRead(e) \/ EditWrite(e) PROVE UNCHANGED <<now, status, created>>
  BY <1>3 DEF EditRead, EditWrite
<1>4. CASE UNCHANGED vars
  BY <1>4 DEF vars
<1>5. QED
  BY <1>1, <1>2, <1>3, <1>4, NextCases

\* The effect of the last two of them on an occurrence.
LEMMA FinishMoves ==
    ASSUME Typed, NEW w \in Workers, Finish(w)
    PROVE  /\ worker[w].slot \in Slots /\ worker[w].result \in Results /\ worker[w].pc = "finish"
           /\ status' = IF status[worker[w].slot] = "none" THEN status
                        ELSE [status EXCEPT ![worker[w].slot] = worker[w].result]
           /\ Goto(w, "emit") /\ stale' = stale \ {worker[w].slot}
           /\ UNCHANGED <<planVars, created, batchVars, events, mishaps>>
<1>1. worker[w].pc = "finish"
  BY DEF Finish
<1>2. worker[w].slot \in Slots /\ worker[w].result \in Results
  BY <1>1, TypedParts DEF WorkersTyped
<1>3. QED
  BY <1>1, <1>2 DEF Finish

\* No occurrence goes back to waiting, nor is its row taken away while its plan stays; a
\* result is final.
LEMMA StatusGoesOn ==
    ASSUME Typed, [Next]_vars, NEW t \in Slots
    PROVE  /\ plan'.exists /\ status[t] \notin {"none", "pending"} => status'[t] \notin {"none", "pending"}
           /\ status[t] \in Results => status'[t] \in Results \cup {"none"}
           /\ status[t] = "none" => status'[t] = "none" \/ (status'[t] = "pending" /\ plan.exists)
<1>0. status \in [Slots -> Results \cup {"none", "pending", "processing"}]
  BY TypedParts DEF OccurrencesTyped
<1>1. ASSUME Tick \/ UNCHANGED <<now, status, created>> PROVE status'[t] = status[t]
  BY <1>1 DEF Tick
<1>2. ASSUME DeletePlan PROVE ~plan'.exists /\ status'[t] = "none"
  <2>1. plan'.exists = FALSE
    BY <1>2, TypedParts DEF DeletePlan, PlanTyped, Plans
  <2>2. QED
    BY <1>2, <2>1 DEF DeletePlan
<1>3. ASSUME NEW w \in Workers, Materialise(w)
      PROVE  /\ status[t] # "none" => status'[t] = status[t]
             /\ status[t] = "none" => status'[t] = "none" \/ (status'[t] = "pending" /\ plan.exists)
  BY <1>0, <1>3, MaterialiseMoves DEF Due
<1>4. ASSUME NEW w \in Workers, Claim(w)
      PROVE  status'[t] = status[t] \/ (status[t] \in {"pending", "processing"} /\ status'[t] = "processing")
  BY <1>0, <1>4, ClaimMoves DEF Claimable
<1>5. ASSUME NEW w \in Workers, Finish(w)
      PROVE  status'[t] = status[t] \/ (status[t] # "none" /\ status'[t] \in Results)
  BY <1>0, <1>5, FinishMoves
<1>6. \/ status'[t] = status[t]
      \/ ~plan'.exists /\ status'[t] = "none"
      \/ status[t] = "none" /\ status'[t] = "pending" /\ plan.exists
      \/ status[t] \in {"pending", "processing"} /\ status'[t] = "processing"
      \/ status[t] # "none" /\ status'[t] \in Results
  BY <1>1, <1>2, <1>3, <1>4, <1>5, OccurrenceSteps
<1>7. "none" \notin Results /\ "pending" \notin Results /\ "processing" \notin Results
  BY DEF Results
<1>8. plan'.exists /\ status[t] \notin {"none", "pending"} => status'[t] \notin {"none", "pending"}
  BY <1>6, <1>7, Zenon
<1>9. status[t] \in Results => status'[t] \in Results \cup {"none"}
  BY <1>6, <1>7
<1>10. ASSUME status[t] = "none"
       PROVE  status'[t] = "none" \/ (status'[t] = "pending" /\ plan.exists)
  <2>1. ~(status[t] \in {"pending", "processing"})
    BY <1>10
  <2>2. QED
    BY <1>6, <1>10, <2>1
<1>11. QED
  BY <1>8, <1>9, <1>10

\* Nothing brings a deleted plan back.
LEMMA PlanStaysGone ==
    ASSUME Typed, [Next]_vars, plan'.exists
    PROVE  plan.exists
<1>1. ASSUME NEW e \in Editors, EditWrite(e) PROVE plan.exists
  BY <1>1 DEF EditWrite
<1>2. ASSUME NEW e \in Editors, EditRead(e) PROVE plan.exists
  BY <1>2 DEF EditRead
<1>3. ASSUME NEW w \in Workers, WorkerMoves(w) PROVE plan.exists
  <2>1. CASE Materialise(w)
    BY <2>1, MaterialiseMoves
  <2>2. CASE ~Materialise(w)
    <3>1. plan' = plan
      BY <1>3, <2>2 DEF WorkerMoves, WorkerSteps, Claim, TickEnds, Accounts, Lookup, Create, Enqueue,
         NotEnqueued, Finish, Emit, Throws, EnqueueThrows, Die, planVars
    <3>2. QED
      BY <3>1
  <2>3. QED
    BY <2>1, <2>2
<1>4. CASE Tick \/ (\E t \in Slots : Age(t) \/ BatchEnds(t)) \/ UNCHANGED vars
  BY <1>4 DEF Tick, Age, BatchEnds, vars, planVars
<1>5. CASE DeletePlan
  BY <1>5 DEF DeletePlan
<1>6. QED
  BY <1>1, <1>2, <1>3, <1>4, <1>5, NextCases

\* An occurrence comes into a worker's hands only when it is claimed.
LEMMA HoldsOnlyClaimed ==
    ASSUME Typed, [Next]_vars, NEW w \in Workers, NEW t \in Slots, Holds(w, t)'
    PROVE  Holds(w, t) \/ (Claim(w) /\ status'[t] = "processing")
<1>0. worker \in [Workers -> WorkerRecord]
  BY TypedParts DEF WorkersTyped
<1>1. ASSUME worker'[w] = worker[w] PROVE Holds(w, t)
  BY <1>1 DEF Holds
<1>2. ASSUME WorkerMoves(w) PROVE Holds(w, t) \/ (Claim(w) /\ status'[t] = "processing")
  <2>1. CASE Materialise(w)
    <3>1. worker'[w].pc = "claim"
      BY <1>0, <2>1 DEF Materialise, WorkerRecord
    <3>2. QED
      BY <3>1 DEF Holds
  <2>2. CASE Claim(w)
    <3>1. PICK u \in Slots : status' = [status EXCEPT ![u] = "processing"] /\ worker'[w].slot = u
      BY <2>2, ClaimMoves
    <3>2. u = t
      BY <3>1 DEF Holds
    <3>3. QED
      BY <2>2, <3>1, <3>2, TypedParts DEF OccurrencesTyped
  <2>3. CASE TickEnds(w) \/ Die(w) \/ Emit(w)
    <3>1. worker'[w].pc \in {"idle", "claim"}
      BY <2>3, IdleIsResting, RestMoves DEF TickEnds, Die, Emit
    <3>2. QED
      BY <3>1 DEF Holds
  <2>4. CASE Accounts(w) \/ Lookup(w) \/ Create(w) \/ Enqueue(w) \/ NotEnqueued(w) \/ Finish(w) \/ EnqueueThrows(w)
    <3>1. worker'[w].slot = worker[w].slot /\ worker[w].pc \notin {"idle", "claim"}
      BY <1>0, <2>4 DEF Accounts, Lookup, Create, Enqueue, NotEnqueued, Finish, EnqueueThrows, Goto, Ends,
         WorkerRecord
    <3>2. QED
      BY <3>1 DEF Holds
  <2>5. CASE Throws(w)
    <3>1. CASE Ends(w, "failed") /\ worker[w].pc \notin {"idle", "claim"}
      <4>1. worker'[w].slot = worker[w].slot
        BY <1>0, <3>1 DEF Ends, WorkerRecord
      <4>2. QED
        BY <3>1, <4>1 DEF Holds
    <3>2. CASE worker' = [worker EXCEPT ![w] = Resting]
      <4>1. worker'[w].pc = "idle"
        BY <3>2, IdleIsResting, RestMoves
      <4>2. QED
        BY <4>1 DEF Holds
    <3>3. QED
      BY <2>5, <3>1, <3>2 DEF Throws, Guarded
  <2>6. QED
    BY <1>2, <2>1, <2>2, <2>3, <2>4, <2>5 DEF WorkerMoves, WorkerSteps
<1>3. ASSUME NEW v \in Workers, v # w, WorkerMoves(v) PROVE worker'[w] = worker[w]
  BY <1>3, OthersWait
<1>4. CASE \/ Tick \/ DeletePlan \/ UNCHANGED vars
           \/ \E u \in Slots : Age(u) \/ BatchEnds(u)
           \/ \E e \in Editors : EditRead(e) \/ EditWrite(e)
  BY <1>1, <1>4 DEF Tick, DeletePlan, vars, Age, BatchEnds, EditRead, EditWrite
<1>5. QED
  BY <1>1, <1>2, <1>3, <1>4, NextCases

-----------------------------------------------------------------------------
(* Occurrences, batches and reports *)

\* An occurrence has its row, and its time, together; the time has come.
LEMMA DatedStep ==
    ASSUME Typed, Dated, [Next]_vars
    PROVE  Dated'
<1>0. /\ status \in [Slots -> Results \cup {"none", "pending", "processing"}]
      /\ created \in [Slots -> 0..MaxTime] /\ now \in Nat
  BY MonitorAssumption, TypedParts DEF OccurrencesTyped, PlanTyped
<1> SUFFICES ASSUME NEW t \in Slots
             PROVE  created'[t] <= now' /\ (created'[t] = 0 <=> status'[t] = "none")
  BY DEF Dated
<1>1. created[t] <= now /\ (created[t] = 0 <=> status[t] = "none") /\ created[t] \in Nat
  BY <1>0, MonitorAssumption DEF Dated
<1>2. CASE Tick
  BY <1>0, <1>1, <1>2 DEF Tick
<1>3. CASE DeletePlan
  BY <1>0, <1>3 DEF DeletePlan
<1>4. ASSUME NEW w \in Workers, Materialise(w)
      PROVE  created'[t] <= now' /\ (created'[t] = 0 <=> status'[t] = "none")
  <2>1. CASE Due /\ status[plan.next] = "none"
    <3>1. /\ plan.next \in Slots /\ now' = now
          /\ status' = [status EXCEPT ![plan.next] = "pending"]
          /\ created' = [created EXCEPT ![plan.next] = now]
      BY <1>4, <2>1, MaterialiseMoves
    <3>2. now > 0
      BY <1>0, <2>1, <3>1, MonitorAssumption DEF Due, Slots
    <3>3. QED
      BY <1>0, <1>1, <3>1, <3>2
  <2>2. CASE ~(Due /\ status[plan.next] = "none")
    <3>1. now' = now /\ status' = status /\ created' = created
      BY <1>4, <2>2, MaterialiseMoves
    <3>2. QED
      BY <1>1, <3>1
  <2>3. QED
    BY <2>1, <2>2
<1>5. ASSUME NEW w \in Workers, Claim(w)
      PROVE  created'[t] <= now' /\ (created'[t] = 0 <=> status'[t] = "none")
  <2>1. now' = now /\ created' = created
    BY <1>5 DEF Claim, planVars
  <2>2. status'[t] = "none" <=> status[t] = "none"
    BY <1>0, <1>5, ClaimMoves DEF Claimable
  <2>3. QED
    BY <1>1, <2>1, <2>2
<1>6. ASSUME NEW w \in Workers, Finish(w)
      PROVE  created'[t] <= now' /\ (created'[t] = 0 <=> status'[t] = "none")
  <2>1. now' = now /\ created' = created
    BY <1>6 DEF Finish, planVars
  <2>2. status'[t] = "none" <=> status[t] = "none"
    BY <1>0, <1>6, FinishMoves DEF Results
  <2>3. QED
    BY <1>1, <2>1, <2>2
<1>7. CASE UNCHANGED <<now, status, created>>
  BY <1>1, <1>7
<1>8. QED
  BY <1>2, <1>3, <1>4, <1>5, <1>6, <1>7, OccurrenceSteps

\* Between two occurrences a worker has none.
LEMMA RestSteps ==
    ASSUME Typed, NEW w \in Workers, Materialise(w) \/ TickEnds(w) \/ Emit(w) \/ Die(w)
    PROVE  worker'[w].pc \in {"idle", "claim"}
<1>1. CASE Materialise(w)
  <2>1. worker \in [Workers -> WorkerRecord]
    BY TypedParts DEF WorkersTyped
  <2>2. QED
    BY <1>1, <2>1 DEF Materialise, WorkerRecord
<1>2. CASE TickEnds(w) \/ Emit(w) \/ Die(w)
  BY <1>2, IdleIsResting, RestMoves DEF TickEnds, Emit, Die
<1>3. QED
  BY <1>1, <1>2

\* What a worker works on stays claimed, also when it is taken over.
LEMMA ClaimedStep ==
    ASSUME Typed, Typed', Claimed, [Next]_vars
    PROVE  Claimed'
<1>1. ASSUME NEW w \in Workers, NEW t \in Slots, Holds(w, t)', plan'.exists
      PROVE  status'[t] \notin {"none", "pending"}
  <2>1. plan.exists
    BY <1>1, PlanStaysGone
  <2>2. CASE Holds(w, t)
    BY <1>1, <2>1, <2>2, StatusGoesOn DEF Claimed
  <2>3. CASE ~Holds(w, t)
    BY <1>1, <2>3, HoldsOnlyClaimed
  <2>4. QED
    BY <2>2, <2>3
<1>2. ASSUME NEW w \in Workers, worker'[w].pc = "emit"
      PROVE  status'[worker'[w].slot] \in Results \cup {"none"}
  <2>0. /\ worker \in [Workers -> WorkerRecord] /\ worker'[w].slot \in Slots
        /\ status \in [Slots -> Results \cup {"none", "pending", "processing"}]
    BY <1>2, TypedParts, TypedPartsNext DEF WorkersTyped, OccurrencesTyped
  <2>1. CASE worker'[w] = worker[w]
    <3>1. PICK t \in Slots : t = worker[w].slot /\ t = worker'[w].slot
      BY <2>0, <2>1
    <3>2. Holds(w, t) /\ status[t] \in Results \cup {"none"}
      BY <1>2, <2>1, <3>1 DEF Claimed, Holds
    <3>3. plan.exists => status[t] # "none"
      BY <3>2 DEF Claimed
    <3>4. CASE status[t] \in Results
      BY <3>1, <3>4, StatusGoesOn
    <3>5. CASE status[t] = "none"
      BY <3>1, <3>3, <3>5, StatusGoesOn
    <3>6. QED
      BY <3>2, <3>4, <3>5
  <2>2. CASE Finish(w)
    <3>1. worker'[w].slot = worker[w].slot
      BY <2>0, <2>2 DEF Finish, Goto, WorkerRecord
    <3>2. QED
      BY <2>0, <2>2, <3>1, FinishMoves
  <2>3. CASE WorkerMoves(w) /\ ~Finish(w)
    <3>1. CASE Materialise(w) \/ Claim(w) \/ TickEnds(w) \/ Emit(w) \/ Die(w)
      <4>1. worker'[w].pc # "emit"
        BY <2>0, <3>1, RestSteps, ClaimMoves DEF WorkerMoves
      <4>2. QED
        BY <1>2, <4>1
    <3>2. CASE Accounts(w) \/ Lookup(w) \/ Create(w) \/ Enqueue(w) \/ NotEnqueued(w)
               \/ EnqueueThrows(w) \/ Throws(w)
      <4>1. worker'[w].pc # "emit"
        BY <2>0, <3>2 DEF Accounts, Lookup, Create, Enqueue, NotEnqueued, EnqueueThrows, Throws, Goto, Ends,
           Resting, WorkerRecord
      <4>2. QED
        BY <1>2, <4>1
    <3>3. QED
      BY <2>3, <3>1, <3>2 DEF WorkerMoves, WorkerSteps
  <2>4. ASSUME NEW v \in Workers, v # w, WorkerMoves(v) PROVE worker'[w] = worker[w]
    BY <2>4, OthersWait
  <2>5. CASE \/ Tick \/ DeletePlan \/ UNCHANGED vars
             \/ \E u \in Slots : Age(u) \/ BatchEnds(u)
             \/ \E e \in Editors : EditRead(e) \/ EditWrite(e)
    <3>1. worker' = worker
      BY <2>5 DEF Tick, DeletePlan, vars, Age, BatchEnds, EditRead, EditWrite
    <3>2. QED
      BY <2>1, <3>1
  <2>6. QED
    BY <2>1, <2>2, <2>3, <2>4, <2>5, NextCases
<1>3. QED
  BY <1>1, <1>2 DEF Claimed

\* A batch is created where there is none, and is put into the queue or finished.
LEMMA BatchSteps ==
    ASSUME Typed, [Next]_vars, NEW t \in Slots
    PROVE  \/ batch'[t] = batch[t] /\ batches'[t] = batches[t]
           \/ batch[t] = "none" /\ batch'[t] = "pending" /\ batches'[t] = batches[t] + 1
           \/ Started(t)' /\ batches'[t] = batches[t]
<1>0. /\ batch \in [Slots -> {"none", "pending", "queued", "finished"}]
      /\ batches \in [Slots -> Nat]
  BY TypedParts DEF BatchesTyped
<1> DEFINE Goal == \/ batch'[t] = batch[t] /\ batches'[t] = batches[t]
                   \/ batch[t] = "none" /\ batch'[t] = "pending" /\ batches'[t] = batches[t] + 1
                   \/ Started(t)' /\ batches'[t] = batches[t]
<1>1. ASSUME NEW w \in Workers, Create(w) PROVE Goal
  BY <1>0, <1>1 DEF Create, MayInsert, batchVars
<1>2. ASSUME NEW w \in Workers, Enqueue(w) \/ EnqueueThrows(w) PROVE Goal
  BY <1>0, <1>2 DEF Enqueue, EnqueueThrows, PutIntoQueue, Started
<1>3. ASSUME NEW u \in Slots, BatchEnds(u) PROVE Goal
  BY <1>0, <1>3 DEF BatchEnds, Started
<1>4. CASE UNCHANGED <<batch, batches>>
  BY <1>4
<1>5. ASSUME NEW w \in Workers, WorkerMoves(w), ~Create(w), ~Enqueue(w), ~EnqueueThrows(w)
      PROVE  UNCHANGED <<batch, batches>>
  BY <1>5 DEF WorkerMoves, WorkerSteps, Materialise, Claim, TickEnds, Accounts, Lookup, NotEnqueued,
              Finish, Emit, Throws, Die, batchVars
<1>6. CASE \/ Tick \/ DeletePlan \/ UNCHANGED vars \/ \E u \in Slots : Age(u)
           \/ \E e \in Editors : EditRead(e) \/ EditWrite(e)
  BY <1>6 DEF Tick, DeletePlan, vars, Age, EditRead, EditWrite, batchVars
<1>7. QED
  BY <1>1, <1>2, <1>3, <1>4, <1>5, <1>6, NextCases

LEMMA BatchOnceStep ==
    ASSUME Typed, BatchOnce, [Next]_vars
    PROVE  BatchOnce'
<1> SUFFICES ASSUME NEW t \in Slots
             PROVE  (batch'[t] = "none" => batches'[t] = 0) /\ batches'[t] <= 1
  BY DEF BatchOnce
<1>1. (batch[t] = "none" => batches[t] = 0) /\ batches[t] <= 1
  BY DEF BatchOnce
<1>2. QED
  BY <1>1, BatchSteps DEF Started

LEMMA StartedStays ==
    ASSUME Typed, [Next]_vars, NEW t \in Slots, Started(t)
    PROVE  Started(t)'
BY BatchSteps DEF Started

\* "Completed" is the result of the worker that has put the batch into the queue.
LEMMA ReportsStep ==
    ASSUME Typed, Typed', ReportsTruly, [Next]_vars
    PROVE  ReportsTruly'
<1> SUFFICES ASSUME NEW w \in Workers, worker'[w].pc \in {"finish", "emit"},
                    worker'[w].result = "completed"
             PROVE  batch'[worker'[w].slot] \in {"queued", "finished"}
  BY DEF ReportsTruly, Started
<1>0. /\ worker \in [Workers -> WorkerRecord] /\ worker'[w].slot \in Slots
      /\ batch \in [Slots -> {"none", "pending", "queued", "finished"}]
  BY TypedParts, TypedPartsNext DEF WorkersTyped, BatchesTyped
<1>1. ASSUME worker[w].slot = worker'[w].slot, worker[w].pc \in {"finish", "emit"},
             worker[w].result = "completed"
      PROVE  batch'[worker'[w].slot] \in {"queued", "finished"}
  <2>1. Started(worker[w].slot)
    BY <1>1 DEF ReportsTruly
  <2>2. PICK t \in Slots : t = worker'[w].slot
    BY <1>0
  <2>3. Started(t)'
    BY <1>1, <2>1, <2>2, StartedStays
  <2>4. QED
    BY <2>2, <2>3 DEF Started
<1>2. CASE worker'[w] = worker[w]
  BY <1>1, <1>2
<1>3. CASE Finish(w)
  <2>1. worker'[w].slot = worker[w].slot /\ worker'[w].result = worker[w].result
    BY <1>0, <1>3 DEF Finish, Goto, WorkerRecord
  <2>2. QED
    BY <1>1, <1>3, <2>1 DEF Finish
<1>4. CASE Enqueue(w)
  <2>1. worker'[w].slot = worker[w].slot
    BY <1>0, <1>4 DEF Enqueue, Ends, WorkerRecord
  <2>2. QED
    BY <1>0, <1>4, <2>1 DEF Enqueue, PutIntoQueue, Started
<1>5. CASE WorkerMoves(w) /\ ~Finish(w) /\ ~Enqueue(w)
  <2>1. worker'[w].pc \notin {"finish", "emit"} \/ worker'[w].result \in {"skipped", "failed"}
    <3>1. CASE Materialise(w) \/ Claim(w) \/ TickEnds(w) \/ Emit(w) \/ Die(w)
      BY <3>1, RestSteps, ClaimMoves
    <3>2. CASE Accounts(w) \/ Lookup(w) \/ Create(w) \/ NotEnqueued(w) \/ EnqueueThrows(w) \/ Throws(w)
      BY <1>0, <3>2 DEF Accounts, Lookup, Create, NotEnqueued, Refused, EnqueueThrows, Throws, Goto, Ends, Resting,
         WorkerRecord
    <3>3. QED
      BY <1>5, <3>1, <3>2 DEF WorkerMoves, WorkerSteps
  <2>2. QED
    BY <2>1
<1>6. ASSUME NEW v \in Workers, v # w, WorkerMoves(v) PROVE worker'[w] = worker[w]
  BY <1>6, OthersWait
<1>7. CASE \/ Tick \/ DeletePlan \/ UNCHANGED vars
           \/ \E u \in Slots : Age(u) \/ BatchEnds(u)
           \/ \E e \in Editors : EditRead(e) \/ EditWrite(e)
  <2>1. worker' = worker
    BY <1>7 DEF Tick, DeletePlan, vars, Age, BatchEnds, EditRead, EditWrite
  <2>2. QED
    BY <1>2, <2>1
<1>8. QED
  BY <1>2, <1>3, <1>4, <1>5, <1>6, <1>7, NextCases

\* Its row and its event say so only then.
LEMMA CompletedStep ==
    ASSUME Typed, CompletedWasStarted, ReportsTruly, [Next]_vars
    PROVE  CompletedWasStarted'
<1> SUFFICES ASSUME NEW t \in Slots, status'[t] = "completed" \/ <<t, "batch_created">> \in events'
             PROVE  Started(t)'
  BY DEF CompletedWasStarted, Started
<1>1. CASE status[t] = "completed" \/ <<t, "batch_created">> \in events
  BY <1>1, StartedStays DEF CompletedWasStarted, Started
<1>2. CASE status[t] # "completed" /\ status'[t] = "completed"
  <2>1. PICK w \in Workers : Finish(w)
    <3>1. ASSUME NEW w \in Workers, Materialise(w) PROVE status'[t] \in {status[t], "pending"}
      BY <3>1, MaterialiseMoves, TypedParts DEF OccurrencesTyped
    <3>2. ASSUME NEW w \in Workers, Claim(w) PROVE status'[t] \in {status[t], "processing"}
      BY <3>2, ClaimMoves, TypedParts DEF OccurrencesTyped
    <3>3. QED
      BY <1>2, <3>1, <3>2, OccurrenceSteps DEF Tick, DeletePlan
  <2>2. worker[w].slot = t /\ worker[w].result = "completed" /\ worker[w].pc = "finish"
    BY <1>2, <2>1, FinishMoves, TypedParts DEF OccurrencesTyped
  <2>3. Started(t)
    BY <2>2 DEF ReportsTruly
  <2>4. QED
    BY <2>3, StartedStays
<1>3. CASE <<t, "batch_created">> \notin events /\ <<t, "batch_created">> \in events'
  <2>1. PICK w \in Workers : Emit(w)
    <3>1. ASSUME NEW w \in Workers, WorkerMoves(w), ~Emit(w) PROVE events' = events
      BY <3>1 DEF WorkerMoves, WorkerSteps, Materialise, Claim, TickEnds, Accounts, Lookup, Create, Enqueue,
                  NotEnqueued, Finish, Throws, EnqueueThrows, Die
    <3>2. QED
      BY <1>3, <3>1, NextCases DEF Tick, DeletePlan, vars, Age, BatchEnds, EditRead, EditWrite
  <2>2. worker[w].pc = "emit" /\ worker[w].result \in Results /\ worker[w].slot \in Slots
    BY <2>1, TypedParts DEF Emit, WorkersTyped
  <2>3. <<t, "batch_created">> = <<worker[w].slot, EventOf(worker[w].result)>>
    BY <1>3, <2>1 DEF Emit
  <2>4. t = worker[w].slot /\ worker[w].result = "completed"
    BY <2>2, <2>3 DEF EventOf, Results
  <2>5. Started(t)
    BY <2>2, <2>4 DEF ReportsTruly
  <2>6. QED
    BY <2>5, StartedStays
<1>4. QED
  BY <1>1, <1>2, <1>3

-----------------------------------------------------------------------------
(* Reruns *)

LEMMA ActiveTypes ==
    ASSUME NEW t
    PROVE  IsFiniteSet(Active(t)) /\ Cardinality(Active(t)) \in Nat
<1>1. Active(t) \in SUBSET Workers /\ IsFiniteSet(Workers)
  BY MonitorAssumption DEF Active
<1>2. QED
  BY <1>1, FS_Subset, FS_CardinalityType

LEMMA ActiveTypesNext ==
    ASSUME NEW t
    PROVE  IsFiniteSet(Active(t)') /\ Cardinality(Active(t)') \in Nat
<1>1. Active(t)' \in SUBSET Workers /\ IsFiniteSet(Workers)
  BY MonitorAssumption DEF Active
<1>2. QED
  BY <1>1, FS_Subset, FS_CardinalityType

\* Four kinds of steps keep the account of t: those that start nothing, those that cost a
\* mishap, the one that puts the batch into the queue, and the claim.
Balanced(t) ==
    \/ /\ Active(t)' \subseteq Active(t) /\ runs'[t] = runs[t] /\ (Open(t)' => Open(t))
       /\ mishaps' >= mishaps
    \/ Active(t)' \subseteq Active(t) /\ runs'[t] = runs[t] /\ mishaps' = mishaps + 1
    \/ /\ \E w \in Active(t) : Active(t)' \subseteq Active(t) \ {w}
       /\ runs'[t] <= runs[t] + 1 /\ (Open(t)' => Open(t)) /\ mishaps' >= mishaps
    \/ /\ \E w \in Workers : Active(t)' \subseteq Active(t) \cup {w}
       /\ runs'[t] = runs[t] /\ Open(t) /\ ~Open(t)' /\ mishaps' = mishaps

LEMMA BalanceHolds ==
    ASSUME Typed, Typed', NEW t \in Slots, Balanced(t),
           runs[t] + Cardinality(Active(t)) + Credit(t) <= 1 + mishaps
    PROVE  runs'[t] + Cardinality(Active(t)') + Credit(t)' <= 1 + mishaps'
<1> DEFINE A == Cardinality(Active(t))
           B == Cardinality(Active(t)')
<1>1. /\ A \in Nat /\ B \in Nat /\ runs[t] \in Nat /\ runs'[t] \in Nat /\ mishaps \in Nat /\ mishaps' \in Nat
  BY ActiveTypes, ActiveTypesNext, TypedParts, TypedPartsNext, MonitorAssumption DEF BatchesTyped
<1>2. /\ Credit(t) \in {0, 1} /\ Credit(t)' \in {0, 1} /\ (Open(t) => Credit(t) = 1)
      /\ (~Open(t)' => Credit(t)' = 0) /\ ((Open(t)' => Open(t)) => Credit(t)' <= Credit(t))
  BY DEF Credit
<1>3. Active(t)' \subseteq Active(t) => B <= A
  BY ActiveTypes, FS_Subset
<1>4. ASSUME NEW w \in Active(t), Active(t)' \subseteq Active(t) \ {w} PROVE B <= A - 1
  <2>1. IsFiniteSet(Active(t) \ {w}) /\ Cardinality(Active(t) \ {w}) = A - 1
    BY ActiveTypes, FS_RemoveElement
  <2>2. QED
    BY <1>4, <2>1, FS_Subset
<1>5. ASSUME NEW w \in Workers, Active(t)' \subseteq Active(t) \cup {w} PROVE B <= A + 1
  <2>1. IsFiniteSet(Active(t) \cup {w}) /\ Cardinality(Active(t) \cup {w}) <= A + 1
    BY <1>1, ActiveTypes, FS_AddElement
  <2>2. Cardinality(Active(t) \cup {w}) \in Nat
    BY <2>1, FS_CardinalityType
  <2>3. B <= Cardinality(Active(t) \cup {w})
    BY <1>5, <2>1, FS_Subset
  <2>4. QED
    BY <1>1, <2>1, <2>2, <2>3
<1> HIDE DEF A, B
<1>6. runs[t] + A + Credit(t) <= 1 + mishaps
  BY DEF A
<1>7. runs'[t] + B + Credit(t)' <= 1 + mishaps'
  <2>1. CASE /\ Active(t)' \subseteq Active(t) /\ runs'[t] = runs[t] /\ (Open(t)' => Open(t))
             /\ mishaps' >= mishaps
    BY <1>1, <1>2, <1>3, <1>6, <2>1
  <2>2. CASE Active(t)' \subseteq Active(t) /\ runs'[t] = runs[t] /\ mishaps' = mishaps + 1
    BY <1>1, <1>2, <1>3, <1>6, <2>2
  <2>3. CASE /\ \E w \in Active(t) : Active(t)' \subseteq Active(t) \ {w}
             /\ runs'[t] <= runs[t] + 1 /\ (Open(t)' => Open(t)) /\ mishaps' >= mishaps
    BY <1>1, <1>2, <1>4, <1>6, <2>3
  <2>4. CASE /\ \E w \in Workers : Active(t)' \subseteq Active(t) \cup {w}
             /\ runs'[t] = runs[t] /\ Open(t) /\ ~Open(t)' /\ mishaps' = mishaps
    BY <1>1, <1>2, <1>5, <1>6, <2>4
  <2>5. QED
    BY <2>1, <2>2, <2>3, <2>4 DEF Balanced
<1>8. QED
  BY <1>7 DEF B

\* What else can happen to an occurrence that is not touched itself: its holder goes.
LEMMA OpenKept ==
    ASSUME NEW w \in Workers, \A v \in Workers \ {w} : worker'[v] = worker[v], NEW t \in Slots,
           status'[t] = status[t], t \in stale' => t \in stale, plan'.exists => plan.exists,
           Holds(w, t) => (Holds(w, t)' \/ status[t] # "processing"), Open(t)'
    PROVE  Open(t)
<1>1. ASSUME status[t] = "processing", Orphaned(t)' PROVE Orphaned(t)
  <2>1. ~Holds(w, t)
    BY <1>1 DEF Orphaned
  <2>2. ASSUME NEW v \in Workers \ {w} PROVE ~Holds(v, t)
    <3>1. ~Holds(v, t)'
      BY <1>1 DEF Orphaned
    <3>2. QED
      BY <3>1 DEF Holds
  <2>3. QED
    BY <2>1, <2>2 DEF Orphaned
<1>2. QED
  BY <1>1 DEF Open

\* Active changes at the worker that moves.
LEMMA ActiveMoves ==
    ASSUME NEW w \in Workers, \A v \in Workers \ {w} : worker'[v] = worker[v], NEW t \in Slots
    PROVE  /\ Active(t)' \subseteq Active(t) \cup {w}
           /\ ~(worker'[w].pc \in Guarded /\ worker'[w].slot = t) => Active(t)' \subseteq Active(t) \ {w}
           /\ worker[w].pc \in Guarded /\ worker[w].slot = t => Active(t)' \subseteq Active(t)
BY DEF Active

\* The steps of the clock, the queue and the API keep the account.
LEMMA OutsideBalanced ==
    ASSUME Typed, NEW t \in Slots,
           \/ Tick \/ DeletePlan \/ UNCHANGED vars
           \/ \E u \in Slots : Age(u) \/ BatchEnds(u)
           \/ \E e \in Editors : EditRead(e) \/ EditWrite(e)
    PROVE  Balanced(t)
<1>0. mishaps \in Nat /\ stale \subseteq Slots
  BY TypedParts, MonitorAssumption DEF OccurrencesTyped
<1>1. worker' = worker /\ runs' = runs
  BY DEF Tick, DeletePlan, vars, Age, BatchEnds, EditRead, EditWrite, batchVars
<1>2. Active(t)' = Active(t) /\ (Orphaned(t)' <=> Orphaned(t))
  BY <1>1 DEF Active, Orphaned, Holds
<1>3. ASSUME mishaps' = mishaps, Open(t)' => Open(t) PROVE Balanced(t)
  BY <1>0, <1>1, <1>2, <1>3 DEF Balanced
<1>4. ASSUME NEW u \in Slots, Age(u) PROVE Balanced(t)
  <2>1. CASE Mishap
    BY <1>0, <1>1, <1>2, <2>1 DEF Mishap, Balanced
  <2>2. CASE ~Mishap
    <3>1. mishaps' = mishaps /\ ~(\E w \in Workers : Holds(w, u))
      BY <1>4, <2>2 DEF Age
    <3>2. Open(t)' => Open(t)
      BY <1>2, <1>4, <3>1 DEF Age, Open, planVars, Orphaned
    <3>3. QED
      BY <1>3, <3>1, <3>2
  <2>3. QED
    BY <2>1, <2>2
<1>5. CASE Tick \/ UNCHANGED vars \/ \E u \in Slots : BatchEnds(u)
  BY <1>2, <1>3, <1>5 DEF Tick, vars, BatchEnds, planVars, Open
<1>6. CASE DeletePlan
  <2>1. plan'.exists = FALSE
    BY <1>6, TypedParts DEF DeletePlan, PlanTyped, Plans
  <2>2. ~Open(t)'
    BY <1>6, <2>1 DEF DeletePlan, Open
  <2>3. QED
    BY <1>3, <1>6, <2>2 DEF DeletePlan
<1>7. ASSUME NEW e \in Editors, EditRead(e) \/ EditWrite(e) PROVE Balanced(t)
  <2>1. /\ plan'.exists => plan.exists
        /\ status' = status /\ stale' = stale /\ mishaps' = mishaps
    BY <1>7 DEF EditRead, EditWrite
  <2>2. QED
    BY <1>2, <1>3, <2>1 DEF Open
<1>8. QED
  BY <1>4, <1>5, <1>6, <1>7

-----------------------------------------------------------------------------
(* Reruns: the steps of a worker *)

\* A step that costs nothing: the occurrence keeps its row, or it is concluded.
LEMMA CalmBalanced ==
    ASSUME Typed, NEW w \in Workers, \A v \in Workers \ {w} : worker'[v] = worker[v],
           NEW t \in Slots, runs'[t] = runs[t], mishaps' = mishaps \/ Mishap,
           worker'[w].pc \in Guarded => worker[w].pc \in Guarded /\ worker'[w].slot = worker[w].slot,
           Open(t)' => Open(t)
    PROVE  Balanced(t)
<1>1. mishaps' >= mishaps
  BY TypedParts, MonitorAssumption DEF Mishap
<1>2. Active(t)' \subseteq Active(t)
  BY ActiveMoves
<1>3. QED
  BY <1>1, <1>2 DEF Balanced

LEMMA MaterialiseBalanced ==
    ASSUME Typed, NEW w \in Workers, Materialise(w), NEW t \in Slots
    PROVE  Balanced(t)
<1>1. worker'[w].pc = "claim" /\ runs' = runs /\ mishaps' = mishaps /\ plan'.exists = plan.exists
      /\ stale' = stale /\ worker[w].pc = "idle"
  BY MaterialiseMoves, TypedParts DEF Materialise, batchVars, WorkersTyped, WorkerRecord
<1>2. \A v \in Workers \ {w} : worker'[v] = worker[v]
  BY OthersWait DEF WorkerMoves, WorkerSteps
<1>3. Open(t)' => Open(t)
  <2>1. CASE status'[t] = status[t]
    BY <1>1, <1>2, <2>1, OpenKept DEF Holds
  <2>2. CASE status'[t] # status[t]
    <3>1. Due /\ status[plan.next] = "none" /\ status' = [status EXCEPT ![plan.next] = "pending"]
      BY <2>2, MaterialiseMoves
    <3>2. status[t] = "none" /\ plan.exists
      BY <2>2, <3>1, TypedParts DEF OccurrencesTyped, Due
    <3>3. QED
      BY <3>2 DEF Open
  <2>3. QED
    BY <2>1, <2>2
<1>4. QED
  BY <1>1, <1>2, <1>3, CalmBalanced DEF Guarded

LEMMA ClaimBalanced ==
    ASSUME Typed, NEW w \in Workers, Claim(w), NEW t \in Slots
    PROVE  Balanced(t)
<1>1. PICK u \in Claimable :
         /\ u \in Slots /\ worker[w].pc = "claim"
         /\ status' = [status EXCEPT ![u] = "processing"] /\ stale' = stale \ {u}
         /\ worker'[w].pc = "accounts" /\ worker'[w].slot = u
         /\ \A v \in Workers \ {w} : worker'[v] = worker[v]
         /\ UNCHANGED <<planVars, created, batchVars, events, mishaps>>
  BY ClaimMoves
<1>2. status \in [Slots -> Results \cup {"none", "pending", "processing"}] /\ mishaps \in Nat
  BY TypedParts, MonitorAssumption DEF OccurrencesTyped
<1>3. CASE u = t
  <2>1. Open(t)
    BY <1>1, <1>3 DEF Claimable, Open
  <2>2. ~Open(t)'
    <3>1. status'[t] = "processing" /\ t \notin stale'
      BY <1>1, <1>2, <1>3
    <3>2. Holds(w, t)'
      BY <1>1, <1>3 DEF Holds
    <3>3. QED
      BY <3>1, <3>2 DEF Open, Orphaned
  <2>3. Active(t)' \subseteq Active(t) \cup {w}
    BY <1>1, ActiveMoves
  <2>4. QED
    BY <1>1, <2>1, <2>2, <2>3 DEF Balanced, batchVars
<1>4. CASE u # t
  <2>1. status'[t] = status[t] /\ (t \in stale' => t \in stale) /\ plan' = plan
    BY <1>1, <1>2, <1>4 DEF planVars
  <2>2. ~Holds(w, t)
    BY <1>1 DEF Holds
  <2>3. Open(t)' => Open(t)
    BY <1>1, <2>1, <2>2, OpenKept
  <2>4. Active(t)' \subseteq Active(t)
    BY <1>1, <1>4, ActiveMoves
  <2>5. QED
    BY <1>1, <1>2, <2>3, <2>4 DEF Balanced, batchVars
<1>5. QED
  BY <1>3, <1>4

\* The occurrence at which a worker goes on keeps its holder.
LEMMA WorkBalanced ==
    ASSUME Typed, NEW w \in Workers, NEW t \in Slots,
           Accounts(w) \/ Lookup(w) \/ Create(w) \/ NotEnqueued(w)
    PROVE  Balanced(t)
<1>0. worker \in [Workers -> WorkerRecord]
  BY TypedParts DEF WorkersTyped
<1>1. \A v \in Workers \ {w} : worker'[v] = worker[v]
  BY OthersWait DEF WorkerMoves, WorkerSteps
<1>2. /\ UNCHANGED <<plan, status, stale, runs, mishaps>> /\ worker[w].pc \in Guarded
      /\ worker'[w].slot = worker[w].slot
      /\ worker'[w].pc \notin {"idle", "claim"} \/ status[worker[w].slot] = "none"
  <2>1. CASE Accounts(w)
    BY <1>0, <2>1 DEF Accounts, Goto, Ends, planVars, batchVars, Guarded, WorkerRecord
  <2>2. CASE Lookup(w)
    BY <1>0, <2>2 DEF Lookup, planVars, batchVars, Guarded, WorkerRecord
  <2>3. CASE Create(w)
    BY <1>0, <2>3 DEF Create, Goto, Ends, planVars, batchVars, Guarded, WorkerRecord
  <2>4. CASE NotEnqueued(w)
    BY <1>0, <2>4 DEF NotEnqueued, Ends, planVars, batchVars, Guarded, WorkerRecord
  <2>5. QED
    BY <2>1, <2>2, <2>3, <2>4
<1>3. Open(t)' => Open(t)
  <2>1. Holds(w, t) => Holds(w, t)' \/ status[t] # "processing"
    BY <1>2 DEF Holds
  <2>2. QED
    BY <1>1, <1>2, <2>1, OpenKept
<1>4. QED
  BY <1>1, <1>2, <1>3, CalmBalanced

\* Who puts the batch into the queue is not active afterwards.
LEMMA EnqueueBalanced ==
    ASSUME Typed, NEW w \in Workers, NEW t \in Slots, Enqueue(w) \/ EnqueueThrows(w)
    PROVE  Balanced(t)
<1>0. /\ worker \in [Workers -> WorkerRecord] /\ runs \in [Slots -> Nat]
      /\ worker[w].slot \in Slots /\ mishaps \in Nat
  BY TypedParts, MonitorAssumption DEF WorkersTyped, BatchesTyped, Enqueue, EnqueueThrows
<1>1. \A v \in Workers \ {w} : worker'[v] = worker[v]
  BY OthersWait DEF WorkerMoves, WorkerSteps
<1>2. /\ worker[w].pc = "enqueue" /\ worker'[w].pc = "finish" /\ worker'[w].slot = worker[w].slot
      /\ UNCHANGED <<plan, status, stale>> /\ (mishaps' = mishaps \/ Mishap)
  BY <1>0 DEF Enqueue, EnqueueThrows, Ends, planVars, WorkerRecord
<1>3. mishaps' >= mishaps
  BY <1>0, <1>2 DEF Mishap
<1>4. \A u \in Slots : runs'[u] <= runs[u] + 1 /\ (u # worker[w].slot => runs'[u] = runs[u])
  BY <1>0 DEF Enqueue, EnqueueThrows, PutIntoQueue
<1>5. Open(t)' => Open(t)
  <2>1. Holds(w, t) => Holds(w, t)'
    BY <1>2 DEF Holds
  <2>2. QED
    BY <1>1, <1>2, <2>1, OpenKept
<1>6. Active(t)' \subseteq Active(t) \ {w}
  BY <1>1, <1>2, ActiveMoves DEF Guarded
<1>7. CASE worker[w].slot = t
  <2>1. w \in Active(t)
    BY <1>2, <1>7 DEF Active, Guarded
  <2>2. QED
    BY <1>3, <1>4, <1>5, <1>6, <2>1 DEF Balanced
<1>8. CASE worker[w].slot # t
  BY <1>3, <1>4, <1>5, <1>6, <1>8 DEF Balanced
<1>9. QED
  BY <1>7, <1>8

\* The result concludes the occurrence, and its worker leaves it only then.
LEMMA ResultBalanced ==
    ASSUME Typed, Claimed, NEW w \in Workers, NEW t \in Slots, Finish(w) \/ Emit(w) \/ TickEnds(w)
    PROVE  Balanced(t)
<1>0. /\ worker \in [Workers -> WorkerRecord]
      /\ status \in [Slots -> Results \cup {"none", "pending", "processing"}]
  BY TypedParts DEF WorkersTyped, OccurrencesTyped
<1>1. \A v \in Workers \ {w} : worker'[v] = worker[v]
  BY OthersWait DEF WorkerMoves, WorkerSteps
<1>2. CASE Finish(w)
  <2>1. /\ worker'[w].pc = "emit" /\ worker'[w].slot = worker[w].slot /\ worker[w].pc = "finish"
        /\ UNCHANGED <<plan, runs, mishaps>>
    BY <1>0, <1>2 DEF Finish, Goto, planVars, batchVars, WorkerRecord
  <2>2. Open(t)' => Open(t)
    <3>1. CASE status'[t] = status[t]
      <4>1. t \in stale' => t \in stale
        BY <1>2, FinishMoves
      <4>2. Holds(w, t) => Holds(w, t)'
        BY <2>1 DEF Holds
      <4>3. QED
        BY <1>1, <2>1, <3>1, <4>1, <4>2, OpenKept
    <3>2. CASE status'[t] # status[t]
      <4>1. status'[t] \in Results
        BY <1>0, <1>2, <3>2, FinishMoves
      <4>2. QED
        BY <4>1 DEF Open, Results
    <3>3. QED
      BY <3>1, <3>2
  <2>3. QED
    BY <1>1, <2>1, <2>2, CalmBalanced DEF Guarded
<1>3. CASE Emit(w) \/ TickEnds(w)
  <2>1. UNCHANGED <<plan, status, stale, runs>> /\ (mishaps' = mishaps \/ Mishap)
    BY <1>3 DEF Emit, TickEnds, planVars, batchVars
  <2>2. worker'[w].pc \in {"idle", "claim"}
    BY <1>3, RestSteps
  <2>3. Holds(w, t) => status[t] # "processing"
    BY <1>3 DEF Holds, Claimed, Emit, TickEnds, Results
  <2>4. Open(t)' => Open(t)
    BY <1>1, <2>1, <2>3, OpenKept
  <2>5. QED
    BY <1>1, <2>1, <2>2, <2>4, CalmBalanced DEF Guarded
<1>4. QED
  BY <1>2, <1>3

\* A call that fails and a death cost a mishap.
LEMMA MishapBalanced ==
    ASSUME Typed, NEW w \in Workers, NEW t \in Slots, Throws(w) \/ Die(w)
    PROVE  Balanced(t)
<1>0. worker \in [Workers -> WorkerRecord]
  BY TypedParts DEF WorkersTyped
<1>1. \A v \in Workers \ {w} : worker'[v] = worker[v]
  BY OthersWait DEF WorkerMoves, WorkerSteps
<1>2. runs' = runs /\ mishaps' = mishaps + 1
  BY DEF Throws, Die, Mishap, batchVars
<1>3. worker'[w].pc \notin Guarded
  BY <1>0 DEF Throws, Die, Ends, Resting, Guarded, WorkerRecord
<1>4. Active(t)' \subseteq Active(t)
  BY <1>1, <1>3, ActiveMoves
<1>5. QED
  BY <1>2, <1>4 DEF Balanced

LEMMA RunsStep ==
    ASSUME Typed, Typed', Claimed, RunsAccounted, [Next]_vars
    PROVE  RunsAccounted'
<1> SUFFICES ASSUME NEW t \in Slots
             PROVE  runs'[t] + Cardinality(Active(t)') + Credit(t)' <= 1 + mishaps'
  BY DEF RunsAccounted
<1>1. Balanced(t)
  BY NextCases, OutsideBalanced, MaterialiseBalanced, ClaimBalanced, WorkBalanced, EnqueueBalanced,
     ResultBalanced, MishapBalanced DEF WorkerMoves, WorkerSteps
<1>2. runs[t] + Cardinality(Active(t)) + Credit(t) <= 1 + mishaps
  BY DEF RunsAccounted
<1>3. QED
  BY <1>1, <1>2, BalanceHolds

-----------------------------------------------------------------------------
(* No burst *)

OfNow == CreatedAt(now)

LEMMA SlotSets ==
    ASSUME NEW S \in SUBSET Slots
    PROVE  IsFiniteSet(S) /\ Cardinality(S) \in Nat
<1>1. IsFiniteSet(Slots)
  BY MonitorAssumption, FS_Interval DEF Slots
<1>2. QED
  BY <1>1, FS_Subset, FS_CardinalityType

LEMMA WritingTypes == IsFiniteSet(Writing) /\ Cardinality(Writing) \in Nat
<1>1. Writing \in SUBSET Editors /\ IsFiniteSet(Editors)
  BY MonitorAssumption DEF Writing
<1>2. QED
  BY <1>1, FS_Subset, FS_CardinalityType

LEMMA WritingTypesNext == IsFiniteSet(Writing') /\ Cardinality(Writing') \in Nat
<1>1. Writing' \in SUBSET Editors /\ IsFiniteSet(Editors)
  BY MonitorAssumption DEF Writing
<1>2. QED
  BY <1>1, FS_Subset, FS_CardinalityType

\* What may still be materialised is the next run of the plan, or of a row that an edit
\* has read.
LEMMA ComingBound ==
    Typed => Coming \in SUBSET Slots /\ Cardinality(Coming) <= 1 + Cardinality(Writing)
<1> SUFFICES ASSUME Typed
             PROVE  Coming \in SUBSET Slots /\ Cardinality(Coming) <= 1 + Cardinality(Writing)
  OBVIOUS
<1> DEFINE Nexts == {editor[e].row.next : e \in Writing}
           f == [e \in Writing |-> editor[e].row.next]
<1>1. f \in Surjection(Writing, Nexts)
  BY DEF Surjection
<1>2. IsFiniteSet(Nexts) /\ Cardinality(Nexts) <= Cardinality(Writing)
  <2> HIDE DEF f, Nexts
  <2>1. QED
    BY <1>1, WritingTypes, FS_Surjection
<1>3. Cardinality(Nexts) \in Nat
  BY <1>2, FS_CardinalityType
<1>4. /\ IsFiniteSet(Nexts \cup {plan.next})
      /\ Cardinality(Nexts \cup {plan.next}) <= Cardinality(Nexts) + 1
  <2> HIDE DEF Nexts
  <2>1. Cardinality(Nexts \cup {plan.next}) =
           IF plan.next \in Nexts THEN Cardinality(Nexts) ELSE Cardinality(Nexts) + 1
    BY <1>2, FS_AddElement
  <2>2. QED
    BY <1>2, <1>3, <2>1, FS_AddElement
<1>5. Coming \in SUBSET Slots
  BY MonitorAssumption DEF Coming, Slots, Typed, TypeOK
<1>6. Coming \in SUBSET (Nexts \cup {plan.next})
  BY DEF Coming
<1>7. Cardinality(Coming) <= Cardinality(Nexts \cup {plan.next})
  BY <1>4, <1>6, FS_Subset
<1>8. /\ Cardinality(Coming) \in Nat /\ Cardinality(Nexts \cup {plan.next}) \in Nat
      /\ Cardinality(Writing) \in Nat
  BY <1>4, <1>5, SlotSets, WritingTypes, FS_CardinalityType
<1>9. QED
  <2> HIDE DEF Nexts
  <2>1. QED
    BY <1>2, <1>3, <1>4, <1>5, <1>7, <1>8

LEMMA ComingBoundNext ==
    (Typed => Coming \in SUBSET Slots /\ Cardinality(Coming) <= 1 + Cardinality(Writing))'
BY ComingBound, PTL

\* Three kinds of steps keep the account of the instant: those that materialise nothing
\* and bring no slot closer, the one that materialises a slot that had come, and those
\* after which nothing has been created at this instant.
Spent ==
    \/ now' = now /\ OfNow' \subseteq OfNow /\ Coming' \subseteq Coming /\ edits' >= edits
    \/ /\ now' = now /\ edits' = edits
       /\ \E t \in Coming : OfNow' \subseteq OfNow \cup {t} /\ Coming' \subseteq Coming \ {t}
    \/ OfNow' = {}

LEMMA SpentHolds ==
    ASSUME Typed, Typed', Spent, Cardinality(Writing') <= edits',
           now \in Slots => Cardinality(OfNow) + Cardinality(Coming) <= 1 + edits
    PROVE  now' \in Slots => Cardinality(OfNow') + Cardinality(Coming') <= 1 + edits'
<1> DEFINE A == Cardinality(OfNow)
           B == Cardinality(OfNow')
           C == Cardinality(Coming)
           D == Cardinality(Coming')
<1>1. /\ OfNow \in SUBSET Slots /\ OfNow' \in SUBSET Slots
      /\ Coming \in SUBSET Slots /\ Coming' \in SUBSET Slots
  BY ComingBound, ComingBoundNext DEF OfNow, CreatedAt
<1>2. /\ IsFiniteSet(OfNow) /\ IsFiniteSet(Coming)
      /\ A \in Nat /\ B \in Nat /\ C \in Nat /\ D \in Nat
  BY <1>1, SlotSets
<1>3. edits \in Nat /\ edits' \in Nat
  BY TypedParts, TypedPartsNext, MonitorAssumption DEF PlanTyped
<1>4. CASE now' = now /\ OfNow' \subseteq OfNow /\ Coming' \subseteq Coming /\ edits' >= edits
  <2>1. B <= A /\ D <= C
    BY <1>2, <1>4, FS_Subset
  <2>2. QED
    <3>1. now' \in Slots => A + C <= 1 + edits
      BY <1>4
    <3>2. \A a, b, c, d, e, f \in Nat :
             b <= a /\ d <= c /\ a + c <= 1 + e /\ f >= e => b + d <= 1 + f
      OBVIOUS
    <3> HIDE DEF A, B, C, D
    <3>3. now' \in Slots => B + D <= 1 + edits'
      BY <1>2, <1>3, <1>4, <2>1, <3>1, <3>2, Zenon
    <3>4. QED
      BY <3>3 DEF B, D
<1>5. ASSUME now' = now, edits' = edits, NEW t \in Coming,
             OfNow' \subseteq OfNow \cup {t}, Coming' \subseteq Coming \ {t}
      PROVE  now' \in Slots => Cardinality(OfNow') + Cardinality(Coming') <= 1 + edits'
  <2>1. IsFiniteSet(OfNow \cup {t}) /\ Cardinality(OfNow \cup {t}) \in Nat
        /\ Cardinality(OfNow \cup {t}) <= A + 1
    <3>1. /\ IsFiniteSet(OfNow \cup {t})
          /\ Cardinality(OfNow \cup {t}) = IF t \in OfNow THEN A ELSE A + 1
      BY <1>2, FS_AddElement
    <3>2. QED
      BY <1>2, <3>1, FS_CardinalityType
  <2>2. IsFiniteSet(Coming \ {t}) /\ Cardinality(Coming \ {t}) = C - 1
    BY <1>2, FS_RemoveElement
  <2>3. B <= Cardinality(OfNow \cup {t})
    BY <1>5, <2>1, FS_Subset
  <2>4. D <= C - 1
    BY <1>5, <2>2, FS_Subset
  <2>5. QED
    <3>1. now' \in Slots => A + C <= 1 + edits
      BY <1>5
    <3> HIDE DEF A, B, C, D
    <3>2. B <= A + 1
      BY <1>2, <2>1, <2>3
    <3>3. now' \in Slots => B + D <= 1 + edits'
      BY <1>2, <1>3, <1>5, <2>4, <3>1, <3>2
    <3>4. QED
      BY <3>3 DEF B, D
<1>6. CASE OfNow' = {}
  <2>1. B = 0
    BY <1>6, FS_EmptySet
  <2>2. D <= 1 + Cardinality(Writing') /\ Cardinality(Writing') \in Nat
    BY ComingBoundNext, WritingTypesNext
  <2>3. QED
    <3>1. \A b, d, f, g \in Nat : b = 0 /\ d <= 1 + g /\ g <= f => b + d <= 1 + f
      OBVIOUS
    <3> HIDE DEF B, D
    <3>2. B + D <= 1 + edits'
      BY <1>2, <1>3, <2>1, <2>2, <3>1, Zenon
    <3>3. QED
      BY <3>2 DEF B, D
<1>7. QED
  BY <1>4, <1>5, <1>6 DEF Spent

\* The steps that change what may come.
LEMMA PlanSteps ==
    ASSUME Typed, [Next]_vars
    PROVE  \/ Tick \/ DeletePlan
           \/ \E e \in Editors : EditRead(e) \/ EditWrite(e)
           \/ \E w \in Workers : Materialise(w)
           \/ UNCHANGED <<planVars, created>>
<1>1. ASSUME NEW w \in Workers, WorkerMoves(w), ~Materialise(w)
      PROVE  UNCHANGED <<planVars, created>>
  BY <1>1 DEF WorkerMoves, WorkerSteps, Claim, TickEnds, Accounts, Lookup, Create, Enqueue, NotEnqueued,
              Finish, Emit, Throws, EnqueueThrows, Die
<1>2. ASSUME NEW t \in Slots, Age(t) \/ BatchEnds(t) PROVE UNCHANGED <<planVars, created>>
  BY <1>2 DEF Age, BatchEnds
<1>3. CASE UNCHANGED vars
  BY <1>3 DEF vars, planVars
<1>4. QED
  BY <1>1, <1>2, <1>3, NextCases

\* An edit leaves it at the slots that had come.
LEMMA EditSpent ==
    ASSUME Typed, NEW e \in Editors, EditRead(e) \/ EditWrite(e)
    PROVE  Spent
<1>1. /\ editor \in [Editors -> [pc : {"idle", "write"}, row : Plans]]
      /\ edits \in Nat /\ now \in Nat
  BY TypedParts, MonitorAssumption DEF PlanTyped
<1>2. now' = now /\ created' = created /\ edits' >= edits
  <2>1. now' = now /\ created' = created /\ (edits' = edits \/ edits' = edits + 1)
    BY EditReadMoves DEF EditWrite
  <2>2. QED
    BY <1>1, <2>1
<1>3. OfNow' = OfNow
  BY <1>2 DEF OfNow, CreatedAt
<1>4. CASE EditRead(e)
  <2>1. PICK row \in Plans :
           /\ row.next = plan.next \/ row.next > now
           /\ editor' = [editor EXCEPT ![e] = [pc |-> "write", row |-> row]]
    BY <1>4, EditReadMoves
  <2>2. plan' = plan
    BY <1>4, EditReadMoves
  <2>3. ASSUME NEW t \in 1..now, NEW d \in Writing', editor'[d].row.next = t
        PROVE  plan.next = t \/ \E c \in Writing : editor[c].row.next = t
    <3>1. CASE d = e
      <4>1. row.next = t
        BY <1>1, <2>1, <2>3, <3>1
      <4>2. t <= now
        BY <1>1
      <4>3. row.next \in Nat
        BY DEF Plans
      <4>4. QED
        BY <1>1, <2>1, <4>1, <4>2, <4>3
    <3>2. CASE d # e
      <4>1. editor'[d] = editor[d] /\ d \in Editors
        BY <1>1, <2>1, <3>2 DEF Writing
      <4>2. d \in Writing
        BY <4>1, <2>3 DEF Writing
      <4>3. QED
        BY <2>3, <4>1, <4>2
    <3>3. QED
      BY <3>1, <3>2
  <2>4. Coming' \subseteq Coming
    BY <1>2, <2>2, <2>3 DEF Coming
  <2>5. QED
    BY <1>2, <1>3, <2>4 DEF Spent
<1>5. CASE EditWrite(e)
  <2>1. /\ editor[e].pc = "write" /\ editor' = [editor EXCEPT ![e] = NoEdit]
        /\ plan' = IF plan.exists THEN editor[e].row ELSE plan
    BY <1>5 DEF EditWrite
  <2>2. e \in Writing
    BY <2>1 DEF Writing
  <2>3. ASSUME NEW d \in Writing' PROVE d \in Writing /\ editor'[d] = editor[d]
    <3>1. d \in Editors /\ editor'[d].pc = "write"
      BY <2>3 DEF Writing
    <3>2. d # e
      BY <1>1, <2>1, <3>1 DEF NoEdit
    <3>3. QED
      BY <1>1, <2>1, <3>1, <3>2 DEF Writing
  <2>4. Coming' \subseteq Coming
    BY <1>2, <2>1, <2>2, <2>3 DEF Coming
  <2>5. QED
    BY <1>2, <1>3, <2>4 DEF Spent
<1>6. QED
  BY <1>4, <1>5

\* A slot that is materialised had come, and the plan goes on to one that has not.
LEMMA MaterialiseSpent ==
    ASSUME Typed, Dated, NEW w \in Workers, Materialise(w)
    PROVE  Spent
<1>1. /\ now \in Nat /\ edits \in Nat /\ created \in [Slots -> 0..MaxTime] /\ plan.next \in Nat
      /\ plan'.next \in Nat /\ plan.next > 0
  BY TypedParts, MonitorAssumption, MaterialiseMoves DEF PlanTyped, OccurrencesTyped, Plans
<1>2. now' = now /\ edits' = edits /\ editor' = editor
  BY MaterialiseMoves
<1>3. CASE Due /\ status[plan.next] = "none"
  <2>1. plan'.next > now /\ plan.next \in Slots /\ created' = [created EXCEPT ![plan.next] = now]
    BY <1>3, MaterialiseMoves
  <2>2. plan.next \in 1..now
    BY <1>1, <1>3 DEF Due
  <2>3. plan.next \in Coming
    BY <1>3, <2>1, <2>2 DEF Coming, Dated
  <2>4. OfNow' \subseteq OfNow \cup {plan.next}
    BY <1>1, <1>2, <2>1 DEF OfNow, CreatedAt
  <2>5. Coming' \subseteq Coming \ {plan.next}
    <3> SUFFICES ASSUME NEW t \in Coming' PROVE t \in Coming /\ t # plan.next
      OBVIOUS
    <3>1. /\ t \in 1..now /\ created'[t] = 0
          /\ plan'.next = t \/ \E e \in Writing : editor[e].row.next = t
      BY <1>2 DEF Coming, Writing
    <3>2. plan'.next # t
      BY <1>1, <2>1, <3>1
    <3>3. t # plan.next
      BY <1>1, <2>1, <2>2, <3>1
    <3>4. created[t] = 0
      BY <1>1, <2>1, <3>1, <3>3
    <3>5. QED
      BY <3>1, <3>2, <3>3, <3>4 DEF Coming
  <2>6. QED
    BY <1>2, <2>3, <2>4, <2>5 DEF Spent
<1>4. CASE ~(Due /\ status[plan.next] = "none")
  <2>1. created' = created /\ (plan'.next > now \/ plan' = plan)
    BY <1>4, MaterialiseMoves
  <2>2. OfNow' = OfNow
    BY <1>2, <2>1 DEF OfNow, CreatedAt
  <2>3. Coming' \subseteq Coming
    <3> SUFFICES ASSUME NEW t \in Coming' PROVE t \in Coming
      OBVIOUS
    <3>1. /\ t \in 1..now /\ created[t] = 0
          /\ plan'.next = t \/ \E e \in Writing : editor[e].row.next = t
      BY <1>2, <2>1 DEF Coming, Writing
    <3>2. CASE plan'.next > now
      BY <1>1, <3>1, <3>2 DEF Coming
    <3>3. CASE plan' = plan
      BY <3>1, <3>3 DEF Coming
    <3>4. QED
      BY <2>1, <3>2, <3>3
  <2>4. QED
    BY <1>1, <1>2, <2>2, <2>3 DEF Spent
<1>5. QED
  BY <1>3, <1>4

LEMMA EveryStepSpent ==
    ASSUME Typed, Typed', Dated, [Next]_vars
    PROVE  Spent
<1>1. now \in Nat /\ edits \in Nat /\ created \in [Slots -> 0..MaxTime]
  BY TypedParts, MonitorAssumption DEF PlanTyped, OccurrencesTyped
<1>2. CASE Tick
  <2>1. now' = now + 1 /\ created' = created
    BY <1>2 DEF Tick
  <2>2. \A t \in Slots : created[t] <= now /\ created[t] \in Nat
    BY <1>1, MonitorAssumption DEF Dated
  <2>3. OfNow' = {}
    BY <1>1, <2>1, <2>2 DEF OfNow, CreatedAt
  <2>4. QED
    BY <2>3 DEF Spent
<1>3. CASE DeletePlan
  <2>1. /\ now' = now /\ created' = [t \in Slots |-> 0] /\ edits' = edits + 1 /\ editor' = editor
        /\ plan' = [plan EXCEPT !.exists = FALSE]
    BY <1>3 DEF DeletePlan
  <2>2. CASE now = 0
    <3>1. Coming' = {}
      BY <1>1, <2>1, <2>2 DEF Coming
    <3>2. OfNow' \subseteq OfNow \/ OfNow' = {}
      <4>1. CASE \A t \in Slots : created[t] = 0
        BY <2>1, <4>1 DEF OfNow, CreatedAt
      <4>2. CASE ~ \A t \in Slots : created[t] = 0
        BY <1>1, <2>2, <4>2, MonitorAssumption DEF Dated
      <4>3. QED
        BY <4>1, <4>2
    <3>3. QED
      BY <1>1, <2>1, <3>1, <3>2 DEF Spent
  <2>3. CASE now # 0
    <3>1. OfNow' = {}
      BY <2>1, <2>3 DEF OfNow, CreatedAt
    <3>2. QED
      BY <3>1 DEF Spent
  <2>4. QED
    BY <2>2, <2>3
<1>4. CASE UNCHANGED <<planVars, created>>
  <2>1. OfNow' = OfNow /\ Coming' = Coming /\ now' = now /\ edits' = edits
    BY <1>4 DEF planVars, OfNow, CreatedAt, Coming, Writing
  <2>2. QED
    BY <1>1, <2>1 DEF Spent
<1>5. QED
  BY <1>2, <1>3, <1>4, EditSpent, MaterialiseSpent, PlanSteps

\* Every edit that is still to be written has been counted.
LEMMA WritingStep ==
    ASSUME Typed, Typed', Cardinality(Writing) <= edits, [Next]_vars
    PROVE  Cardinality(Writing') <= edits' /\ edits' >= edits
<1>1. editor \in [Editors -> [pc : {"idle", "write"}, row : Plans]] /\ edits \in Nat /\ edits' \in Nat
  BY TypedParts, TypedPartsNext, MonitorAssumption DEF PlanTyped
<1>2. IsFiniteSet(Writing) /\ Cardinality(Writing) \in Nat /\ Cardinality(Writing') \in Nat
  BY WritingTypes, WritingTypesNext
<1>3. ASSUME NEW e \in Editors, EditRead(e)
      PROVE  Cardinality(Writing') <= edits' /\ edits' >= edits
  <2>1. edits' = edits + 1
    BY <1>3 DEF EditRead
  <2>2. Writing' \subseteq Writing \cup {e}
    BY <1>1, <1>3, EditReadMoves DEF Writing
  <2>3. /\ IsFiniteSet(Writing \cup {e})
        /\ Cardinality(Writing \cup {e}) = IF e \in Writing THEN Cardinality(Writing) ELSE Cardinality(Writing) + 1
    BY <1>2, FS_AddElement
  <2>4. Cardinality(Writing') <= Cardinality(Writing \cup {e})
    BY <2>2, <2>3, FS_Subset
  <2>5. QED
    BY <1>1, <1>2, <2>1, <2>3, <2>4
<1>4. ASSUME Writing' \subseteq Writing, edits' >= edits
      PROVE  Cardinality(Writing') <= edits' /\ edits' >= edits
  <2>1. Cardinality(Writing') <= Cardinality(Writing)
    BY <1>2, <1>4, FS_Subset
  <2>2. QED
    BY <1>1, <1>2, <1>4, <2>1
<1>5. ASSUME NEW e \in Editors, EditWrite(e) PROVE Writing' \subseteq Writing /\ edits' = edits
  <2>1. NoEdit.pc = "idle"
    BY DEF NoEdit
  <2>2. editor' = [editor EXCEPT ![e] = NoEdit] /\ edits' = edits
    BY <1>5 DEF EditWrite
  <2>3. QED
    BY <1>1, <2>1, <2>2 DEF Writing
<1>6. ASSUME ~ \E e \in Editors : EditRead(e) \/ EditWrite(e)
      PROVE  Writing' \subseteq Writing /\ edits' >= edits
  <2>1. editor' = editor /\ (edits' = edits \/ edits' = edits + 1)
    BY <1>6, PlanSteps, MaterialiseMoves DEF Tick, DeletePlan, planVars
  <2>2. QED
    BY <1>1, <2>1 DEF Writing
<1>7. QED
  BY <1>1, <1>3, <1>4, <1>5, <1>6

\* Nothing is created at another instant than now.
LEMMA CreatedNow ==
    ASSUME Typed, [Next]_vars, NEW n \in Slots, n # now
    PROVE  CreatedAt(n)' \subseteq CreatedAt(n)
<1>0. created \in [Slots -> 0..MaxTime]
  BY TypedParts DEF OccurrencesTyped
<1>1. CASE DeletePlan
  <2>1. created' = [t \in Slots |-> 0] /\ n # 0
    BY <1>1 DEF DeletePlan, Slots
  <2>2. QED
    BY <2>1 DEF CreatedAt
<1>2. ASSUME NEW w \in Workers, Materialise(w) PROVE CreatedAt(n)' \subseteq CreatedAt(n)
  <2>1. created' = created \/ created' = [created EXCEPT ![plan.next] = now]
    BY <1>2, MaterialiseMoves
  <2>2. QED
    BY <1>0, <2>1 DEF CreatedAt
<1>3. CASE created' = created
  BY <1>3 DEF CreatedAt
<1>4. QED
  BY <1>1, <1>2, <1>3, PlanSteps DEF Tick, EditRead, EditWrite

LEMMA BurstStep ==
    ASSUME Typed, Typed', Dated, BurstAccounted, [Next]_vars
    PROVE  BurstAccounted'
<1>1. Cardinality(Writing') <= edits' /\ edits' >= edits
  BY WritingStep DEF BurstAccounted
<1>2. now' \in Slots => Cardinality(OfNow') + Cardinality(Coming') <= 1 + edits'
  BY <1>1, EveryStepSpent, SpentHolds DEF BurstAccounted, OfNow
<1>3. edits \in Nat /\ edits' \in Nat
  BY TypedParts, TypedPartsNext, MonitorAssumption DEF PlanTyped
<1>4. ASSUME NEW n \in Slots PROVE Cardinality(CreatedAt(n)') <= 1 + edits'
  <2>0. /\ IsFiniteSet(CreatedAt(n)) /\ Cardinality(CreatedAt(n)) \in Nat
        /\ Cardinality(CreatedAt(n)') \in Nat
    <3>1. CreatedAt(n) \in SUBSET Slots /\ CreatedAt(n)' \in SUBSET Slots
      BY DEF CreatedAt
    <3>2. QED
      BY <3>1, SlotSets
  <2>1. CASE n = now'
    <3>1. OfNow' = CreatedAt(n)'
      BY <2>1 DEF OfNow, CreatedAt
    <3>2. Cardinality(Coming') \in Nat
      BY ComingBoundNext, SlotSets
    <3>3. Cardinality(CreatedAt(n)') + Cardinality(Coming') <= 1 + edits'
      BY <1>2, <2>1, <3>1
    <3>4. QED
      BY <1>3, <2>0, <3>2, <3>3
  <2>2. CASE n # now'
    <3>1. CreatedAt(n)' \subseteq CreatedAt(n)
      <4>1. CASE n # now
        BY <4>1, CreatedNow
      <4>2. CASE n = now
        <5>1. Tick
          BY <2>2, <4>2, PlanSteps, MaterialiseMoves DEF DeletePlan, EditRead, EditWrite, planVars
        <5>2. QED
          BY <5>1 DEF Tick, CreatedAt
      <4>3. QED
        BY <4>1, <4>2
    <3>2. Cardinality(CreatedAt(n)') <= Cardinality(CreatedAt(n))
      BY <2>0, <3>1, FS_Subset
    <3>3. Cardinality(CreatedAt(n)) <= 1 + edits
      BY DEF BurstAccounted, NoBurst, CreatedAt, Slots
    <3>4. QED
      BY <1>1, <1>3, <2>0, <3>2, <3>3
  <2>3. QED
    BY <2>1, <2>2
<1>5. NoBurst'
  BY <1>4 DEF NoBurst, CreatedAt, Slots
<1>6. QED
  BY <1>1, <1>2, <1>5 DEF BurstAccounted, OfNow

-----------------------------------------------------------------------------
(* The theorems *)

\* What the properties need of each other: a row has its time, a worker its claimed
\* occurrence, a batch its occurrence, a result its cause; and what is counted is paid for.
MonitorInv ==
    /\ Typed /\ Dated /\ Claimed /\ BatchOnce /\ ReportsTruly /\ CompletedWasStarted
    /\ RunsAccounted /\ BurstAccounted

LEMMA MonitorInitially == Init => MonitorInv
<1> SUFFICES ASSUME Init PROVE MonitorInv
  OBVIOUS
<1>1. Typed
  BY TypedInitially
<1>2. Dated
  BY MonitorAssumption DEF Init, Dated
<1>3. /\ \A w \in Workers : worker[w].pc = "idle"
      /\ \A e \in Editors : editor[e].pc = "idle"
  BY DEF Init, Resting, NoEdit
<1>4. Claimed /\ BatchOnce /\ ReportsTruly
  BY <1>3 DEF Init, Claimed, BatchOnce, ReportsTruly, Holds
<1>5. CompletedWasStarted
  BY DEF Init, CompletedWasStarted
<1>6. RunsAccounted
  <2> SUFFICES ASSUME NEW t \in Slots
               PROVE  runs[t] + Cardinality(Active(t)) + Credit(t) <= 1 + mishaps
    BY DEF RunsAccounted
  <2>1. Active(t) = {}
    BY <1>3 DEF Active, Guarded
  <2>2. Cardinality(Active(t)) = 0
    BY <2>1, FS_EmptySet
  <2>3. runs[t] = 0 /\ mishaps = 0 /\ Credit(t) \in {0, 1}
    BY DEF Init, Credit
  <2>4. QED
    BY <2>2, <2>3
<1>7. BurstAccounted
  <2>1. Writing = {} /\ \A n \in Slots : CreatedAt(n) = {}
    BY <1>3 DEF Init, Writing, CreatedAt, Slots
  <2>2. now \notin Slots /\ edits = 0
    BY DEF Init, Slots
  <2>3. Cardinality(Writing) = 0 /\ \A n \in Slots : Cardinality(CreatedAt(n)) = 0
    BY <2>1, FS_EmptySet
  <2>4. NoBurst
    BY <2>2, <2>3 DEF NoBurst, CreatedAt, Slots
  <2>5. QED
    BY <2>2, <2>3, <2>4 DEF BurstAccounted
<1>8. QED
  BY <1>1, <1>2, <1>4, <1>5, <1>6, <1>7 DEF MonitorInv

LEMMA MonitorInvStep == MonitorInv /\ [Next]_vars => MonitorInv'
<1> SUFFICES ASSUME MonitorInv, [Next]_vars PROVE MonitorInv'
  OBVIOUS
<1> USE DEF MonitorInv
<1>1. Typed'
  BY TypedStep
<1>2. Dated' /\ Claimed' /\ BatchOnce'
  BY <1>1, DatedStep, ClaimedStep, BatchOnceStep
<1>3. ReportsTruly' /\ CompletedWasStarted'
  BY <1>1, ReportsStep, CompletedStep
<1>4. RunsAccounted' /\ BurstAccounted'
  BY <1>1, RunsStep, BurstStep
<1>5. QED
  BY <1>1, <1>2, <1>3, <1>4

\* The account of the reruns is what bounds them.
LEMMA AccountedIsBounded == MonitorInv => StartedOnce
<1> SUFFICES ASSUME MonitorInv PROVE StartedOnce
  OBVIOUS
<1> USE DEF MonitorInv
<1>1. OneBatchPerOccurrence
  BY DEF BatchOnce, OneBatchPerOccurrence
<1>2. ASSUME NEW t \in Slots PROVE runs[t] <= 1 + mishaps
  <2>1. runs[t] + Cardinality(Active(t)) + Credit(t) <= 1 + mishaps
    BY DEF RunsAccounted
  <2>2. Cardinality(Active(t)) \in Nat /\ runs[t] \in Nat /\ mishaps \in Nat /\ Credit(t) \in {0, 1}
    BY ActiveTypes, TypedParts, MonitorAssumption DEF BatchesTyped, Credit
  <2>3. QED
    BY <2>1, <2>2
<1>3. QED
  BY <1>1, <1>2 DEF StartedOnce, RerunsBounded

LEMMA MonitorIsInductive == Spec => []MonitorInv
BY MonitorInitially, MonitorInvStep, PTL DEF Spec

\* Every variable keeps its type, for any number of workers and editors.
THEOREM MonitorTypeCorrect == Spec => []TypeOK
<1>1. MonitorInv => TypeOK
  BY DEF MonitorInv, Typed
<1>2. QED
  BY <1>1, MonitorIsInductive, PTL

\* An occurrence has at most one batch, whoever claims it again, restarts or edits the plan
\* meanwhile, and the batch is put into the queue again only for a mishap: a claim that is
\* taken over, a failed call, a death (executeOccurrence, createSamplingBatch, enqueueBatch).
THEOREM OccurrenceStartedOnce == Spec => []StartedOnce
<1>1. QED
  BY AccountedIsBounded, MonitorIsInductive, PTL

\* What is reported as completed has been started: no result of a worker that was overtaken
\* says otherwise (executeOccurrence, finishOccurrence).
THEOREM CompletedIsStarted == Spec => []CompletedWasStarted
<1>1. MonitorInv => CompletedWasStarted
  BY DEF MonitorInv
<1>2. QED
  BY <1>1, MonitorIsInductive, PTL

\* However long the downtime, one instant sees one occurrence, and one more for each edit
\* that may write back what it read before (materializeDueMonitorExecutions,
\* updateMonitorPlan).
THEOREM NoBurstEver == Spec => []NoBurst
<1>1. MonitorInv => NoBurst
  BY DEF MonitorInv, BurstAccounted
<1>2. QED
  BY <1>1, MonitorIsInductive, PTL
=============================================================================

----------------------------- MODULE AccountSafety -----------------------------
(* When an account may be asked (accounts/safety.js): the row of the account,  *)
(* the check a job makes before it takes its slot, what it records afterwards, *)
(* and the operator.  The handlers of all worker processes share the row, and  *)
(* every UPDATE is a step of its own.  Times are the ticks that are left       *)
(* (cooldown, midnight, delay) or that have passed (rows, sinceRun).           *)
EXTENDS Integers, FiniteSets

CONSTANTS
  Assignments,     \* sampling assignments of one account
  Handlers,        \* jobs in work at once, over all processes
  DailyLimit,      \* accountDailyLimit
  WindowLimit,     \* accountHourlyLimit, or the prompts of a measured pacing
  Window,          \* the hour, or pauseMs, in ticks
  MinGap,          \* minInterRunMs, in ticks
  Cooldown,        \* cooldownMinutes, in ticks
  Day,             \* ticks of a day
  MaxFailures,     \* maxConsecutiveFailures
  MaxAttempts,     \* attempts of a job
  MaxWaits,        \* MAX_COOLDOWN_WAITS
  MaxCommands,     \* bound: operator commands and remote logins
  MaxStalls,       \* bound: jobs stalled by the death of their worker
  NULL

ASSUME SafetyAssumption ==
  /\ IsFiniteSet(Assignments)
  /\ Handlers \in Nat \ {0} /\ DailyLimit \in Nat \ {0} /\ WindowLimit \in Nat \ {0}
  /\ Window \in Nat \ {0} /\ MinGap \in Nat /\ Cooldown \in Nat \ {0} /\ Day \in Nat \ {0}
  /\ MaxFailures \in Nat \ {0} /\ MaxAttempts \in Nat \ {0}
  /\ MaxWaits \in Nat /\ MaxCommands \in Nat /\ MaxStalls \in Nat
  /\ NULL \notin Int

VARIABLES
  lane,        \* kind of the account's provider surface; never changes
  enabled, status, paused, cooldown, failures, runsToday,  \* the account row
  sinceRun,    \* time since last_run_at, at most MinGap
  midnight,    \* ticks to the next day
  rows,        \* NULL, or the time since started_at of a job's row in runs, at most Window
  pc,          \* where a job is
  delay, waits, attempts,
  asked,       \* time since the job began its attempt, at most Window
  manual,      \* ghost: a pause only a person may end has been recorded
  late,        \* ghost: questions begun since that pause
  streak,      \* ghost: failures counted since the last success or pause
  commands, stalls

rowVars == <<enabled, status, paused, cooldown, failures, runsToday, sinceRun>>
jobVars == <<pc, delay, waits, attempts, asked, rows>>
ghosts == <<manual, late, streak>>
safetyVars == <<lane, rowVars, midnight, jobVars, ghosts, commands, stalls>>

Statuses == {"healthy", "cooling", "blocked", "switched"}
Ready == {j \in Assignments : pc[j] = "ready"}
Asking == {j \in Assignments : pc[j] = "asking"}
Busy == {j \in Assignments : pc[j] \notin {"queued", "done", "skipped"}}
Cooling == {j \in Assignments : pc[j] = "cool"}

Lower(a, b) == IF a < b THEN a ELSE b
Later(a, b) == IF a > b THEN a ELSE b
Goto(j, l) == pc' = [pc EXCEPT ![j] = l]

(* The ghosts when a pause begins (m: one that a person has to end) or ends.   *)
NewPause(m) ==
  /\ manual' = m
  /\ late' = IF m /\ manual THEN late ELSE 0
  /\ streak' = 0

SafetyInit ==
  /\ lane \in {"credentialed", "throttled", "paced"}
  /\ enabled = TRUE /\ status = "healthy" /\ paused = FALSE /\ cooldown = NULL
  /\ failures = 0 /\ runsToday = 0 /\ sinceRun = MinGap /\ midnight = Day
  /\ rows = [j \in Assignments |-> NULL]
  /\ pc = [j \in Assignments |-> "queued"]
  /\ delay = [j \in Assignments |-> 0]
  /\ waits = [j \in Assignments |-> 0]
  /\ attempts = [j \in Assignments |-> 0]
  /\ asked = [j \in Assignments |-> Window]
  /\ manual = FALSE /\ late = 0 /\ streak = 0
  /\ commands = 0 /\ stalls = 0

--------------------------------------------------------------------------------
(* classifyAccountState.                                                       *)

\* A variant: a pause without an end does not count.
HaltedByFlag == ~enabled

(* Permanent: the operator's flag, or a pause without an end. *)
Halted == ~enabled \/ (lane # "paced" /\ paused /\ cooldown = NULL)

(* The runs counted against the window.  A row appears when the attempt is     *)
(* saved and keeps the start of its first attempt.                             *)
InWindow == {j \in Assignments : rows[j] \in 0..(Window - 1)}

When(P, S) == IF P THEN S ELSE {}

\* A variant: the limit of the day is passed by one.
RetryTimesLate ==
  When(lane = "credentialed" /\ cooldown \notin {NULL, 0}, {cooldown})
  \cup When(lane # "paced" /\ runsToday > DailyLimit, {midnight})
  \cup When(lane # "paced" /\ sinceRun < MinGap, {MinGap - sinceRun})
  \cup When(Cardinality(InWindow) >= WindowLimit, {Window - rows[j] : j \in InWindow})

(* Temporary: how long, for every limit that is reached.  The code reports the *)
(* first in an order of its own.  A measured pacing waits for the newest run to *)
(* leave the window, the hourly limit for one that is in it.                    *)
RetryTimes ==
  When(lane = "credentialed" /\ cooldown \notin {NULL, 0}, {cooldown})
  \cup When(lane # "paced" /\ runsToday >= DailyLimit, {midnight})
  \cup When(lane # "paced" /\ sinceRun < MinGap, {MinGap - sinceRun})
  \cup When(Cardinality(InWindow) >= WindowLimit, {Window - rows[j] : j \in InWindow})

--------------------------------------------------------------------------------
(* One job.                                                                     *)

Untouched == UNCHANGED <<lane, rowVars, midnight, ghosts, commands, stalls>>

Claimable(j) == pc[j] = "queued" /\ delay[j] = 0 /\ Cardinality(Busy) < Handlers

(* accountAvailability lets the job pass; slot, lease and a random pause follow. *)
Pass(j) ==
  /\ Claimable(j) /\ ~Halted /\ RetryTimes = {}
  /\ Goto(j, "ready")
  /\ UNCHANGED <<delay, waits, attempts, asked, rows>> /\ Untouched

\* A variant: the waits are not bounded.
DelayAlways(j) ==
  /\ Claimable(j) /\ ~Halted
  /\ \E t \in RetryTimes : delay' = [delay EXCEPT ![j] = t]
  /\ waits' = [waits EXCEPT ![j] = @ + 1]
  /\ UNCHANGED <<pc, attempts, asked, rows>> /\ Untouched

(* planUnavailableJob: a temporary state delays the job a bounded number of     *)
(* times, anything else skips it.                                               *)
Delay(j) ==
  /\ Claimable(j) /\ ~Halted /\ waits[j] < MaxWaits
  /\ \E t \in RetryTimes : delay' = [delay EXCEPT ![j] = t]
  /\ waits' = [waits EXCEPT ![j] = @ + 1]
  /\ UNCHANGED <<pc, attempts, asked, rows>> /\ Untouched

Skip(j) ==
  /\ Claimable(j)
  /\ Halted \/ (RetryTimes # {} /\ waits[j] >= MaxWaits)
  /\ Goto(j, "skipped")
  /\ UNCHANGED <<delay, waits, attempts, asked, rows>> /\ Untouched

(* beginAccountRun ends a cooldown, but not the pause that came with it. *)
Begin(j) ==
  /\ pc[j] = "ready"
  /\ Goto(j, "asking")
  /\ runsToday' = runsToday + 1
  /\ sinceRun' = 0
  /\ status' = IF status = "cooling" THEN "healthy" ELSE status
  /\ cooldown' = IF status = "cooling" THEN NULL ELSE cooldown
  /\ attempts' = [attempts EXCEPT ![j] = @ + 1]
  /\ asked' = [asked EXCEPT ![j] = 0]
  /\ late' = IF manual THEN late + 1 ELSE late
  /\ UNCHANGED <<lane, enabled, paused, failures, midnight, delay, waits, rows,
                 manual, streak, commands, stalls>>

(* persistRun keeps the earlier of the two started_at. *)
SaveRow(j) ==
  /\ rows' = [rows EXCEPT ![j] = IF @ = NULL THEN asked[j] ELSE @]
  /\ asked' = [asked EXCEPT ![j] = Window]

(* The attempt is over and saved.  What came of it is chosen when it is recorded. *)
Save(j) ==
  /\ pc[j] = "asking"
  /\ SaveRow(j)
  /\ Goto(j, "saved")
  /\ UNCHANGED <<delay, waits, attempts>> /\ Untouched

(* The error may be worth another attempt (canRetryOutcome) or not. *)
End(j) ==
  \/ attempts[j] < MaxAttempts /\ Goto(j, "queued")
  \/ Goto(j, "done")

(* The session or the window cannot be opened: nothing is recorded. *)
OpenFails(j) ==
  /\ pc[j] = "asking"
  /\ End(j)
  /\ UNCHANGED <<delay, waits, attempts, asked, rows>> /\ Untouched

(* recordAccountSuccess *)
Succeed(j) ==
  /\ pc[j] = "saved"
  /\ Goto(j, "done")
  /\ failures' = 0 /\ status' = "healthy" /\ paused' = FALSE /\ cooldown' = NULL
  /\ NewPause(FALSE)
  /\ UNCHANGED <<lane, enabled, runsToday, sinceRun, midnight, delay, waits, attempts,
                 asked, rows, commands, stalls>>

(* recordAccountFailure, a blocking code: it takes a person (m) or time. *)
Block(m) ==
  /\ status' = IF m THEN "blocked" ELSE "cooling"
  /\ paused' = TRUE
  /\ cooldown' = IF m THEN NULL ELSE Cooldown
  /\ NewPause(m)
  /\ UNCHANGED <<lane, enabled, failures, runsToday, sinceRun, midnight>>

RecordBlock(j) ==
  /\ pc[j] = "saved" /\ lane = "credentialed"
  /\ \E m \in BOOLEAN : Block(m)
  /\ Goto(j, "done")
  /\ UNCHANGED <<delay, waits, attempts, asked, rows, commands, stalls>>

(* It leaves the account alone for our own faults and credential-free surfaces. *)
RecordNothing(j) ==
  /\ pc[j] = "saved"
  /\ IF lane = "credentialed" THEN Goto(j, "done") ELSE End(j)
  /\ UNCHANGED <<delay, waits, attempts, asked, rows>> /\ Untouched

(* Any other code: one UPDATE counts the failure and a second one, when the     *)
(* count has reached the maximum, starts the cooldown.                           *)
ReachesMaximum(n) == n >= MaxFailures

CountFailure(j) ==
  /\ pc[j] = "saved" /\ lane = "credentialed"
  /\ failures' = failures + 1
  /\ streak' = streak + 1
  /\ IF ReachesMaximum(failures + 1)
       THEN Goto(j, "cool")
       ELSE End(j)
  /\ UNCHANGED <<lane, enabled, status, paused, cooldown, runsToday, sinceRun, midnight, delay,
                 waits, attempts, asked, rows, manual, late, commands, stalls>>

StartCooldown(j) ==
  /\ pc[j] = "cool"
  /\ status' = "cooling" /\ paused' = TRUE /\ cooldown' = Cooldown
  /\ NewPause(FALSE)
  /\ End(j)
  /\ UNCHANGED <<lane, enabled, failures, runsToday, sinceRun, midnight, delay, waits, attempts,
                 asked, rows, commands, stalls>>

(* The worker of a job dies: the stalled job is claimed again. *)
Die(j) ==
  /\ stalls < MaxStalls /\ j \in Busy
  /\ stalls' = stalls + 1
  /\ Goto(j, "queued")
  /\ UNCHANGED <<lane, rowVars, midnight, delay, waits, attempts, asked, rows, ghosts, commands>>

--------------------------------------------------------------------------------
(* The operator, the remote login and time.                                     *)

Command == commands < MaxCommands /\ commands' = commands + 1

(* resumeAccount *)
Resume ==
  /\ Command
  /\ status' = "healthy" /\ paused' = FALSE /\ cooldown' = NULL /\ failures' = 0
  /\ NewPause(FALSE)
  /\ UNCHANGED <<lane, enabled, runsToday, sinceRun, midnight, jobVars, stalls>>

(* setAccountEnabled *)
Switch ==
  /\ Command
  /\ enabled' = ~enabled
  /\ status' = "switched"
  /\ UNCHANGED <<lane, paused, cooldown, failures, runsToday, sinceRun, midnight, jobVars, ghosts,
                 stalls>>

(* markLoginConnected keeps a cooldown that is in force. *)
LoginConnected ==
  /\ Command
  /\ IF cooldown \notin {NULL, 0}
       THEN UNCHANGED <<status, paused, failures, ghosts>>
       ELSE /\ status' = "healthy" /\ paused' = FALSE /\ failures' = 0
            /\ NewPause(FALSE)
  /\ UNCHANGED <<lane, enabled, cooldown, runsToday, sinceRun, midnight, jobVars, stalls>>

(* The remote login finds the account behind a verification or restricted. *)
LoginBlocked ==
  /\ Command
  /\ lane = "credentialed"
  /\ Block(TRUE)
  /\ UNCHANGED <<jobVars, stalls>>

Age(t) == Lower(t + 1, Window)

(* A new date makes the count of the day start again. *)
Tick ==
  /\ cooldown' = IF cooldown = NULL THEN NULL ELSE Later(cooldown - 1, 0)
  /\ midnight' = IF midnight = 1 THEN Day ELSE midnight - 1
  /\ runsToday' = IF midnight = 1 THEN 0 ELSE runsToday
  /\ sinceRun' = Lower(sinceRun + 1, MinGap)
  /\ rows' = [j \in Assignments |-> IF rows[j] = NULL THEN NULL ELSE Age(rows[j])]
  /\ asked' = [j \in Assignments |-> Age(asked[j])]
  /\ delay' = [j \in Assignments |-> Later(delay[j] - 1, 0)]
  /\ UNCHANGED <<lane, enabled, status, paused, failures, pc, waits, attempts, ghosts,
                 commands, stalls>>

JobStep(j) ==
  \/ Pass(j) \/ Delay(j) \/ Skip(j) \/ Begin(j) \/ Save(j) \/ OpenFails(j)
  \/ Succeed(j) \/ RecordBlock(j) \/ RecordNothing(j) \/ CountFailure(j) \/ StartCooldown(j)

SafetyNext ==
  \/ \E j \in Assignments : JobStep(j) \/ Die(j)
  \/ Resume \/ Switch \/ LoginConnected \/ LoginBlocked \/ Tick

SafetySpec == SafetyInit /\ [][SafetyNext]_safetyVars

--------------------------------------------------------------------------------
SafetyTypeOK ==
  /\ lane \in {"credentialed", "throttled", "paced"}
  /\ enabled \in BOOLEAN /\ status \in Statuses /\ paused \in BOOLEAN
  /\ cooldown \in 0..Cooldown \cup {NULL}
  /\ failures \in Nat /\ runsToday \in Nat /\ sinceRun \in 0..MinGap /\ midnight \in 1..Day
  /\ rows \in [Assignments -> 0..Window \cup {NULL}]
  /\ pc \in [Assignments -> {"queued", "ready", "asking", "saved", "cool", "done", "skipped"}]
  /\ delay \in [Assignments -> Nat] /\ waits \in [Assignments -> 0..MaxWaits]
  /\ attempts \in [Assignments -> Nat] /\ asked \in [Assignments -> 0..Window]
  /\ manual \in BOOLEAN /\ late \in Nat /\ streak \in Nat
  /\ commands \in 0..MaxCommands /\ stalls \in 0..MaxStalls

(* The limit of a day is passed at most by the handlers that had made their    *)
(* check before the last question was counted (beginAccountRun counts in a     *)
(* statement of its own, after the slot, the lease and a random pause).         *)
DailyLimitKept == lane # "paced" => runsToday <= DailyLimit + Handlers - 1

(* The same for the hour or the paced window, where a question is counted only  *)
(* once its answer has been saved.                                              *)
WindowLimitKept == Cardinality(InWindow) <= WindowLimit + Handlers - 1

(* An account that keeps failing is cooled down: between two pauses or          *)
(* successes it fails at most maxConsecutiveFailures times, and once more for   *)
(* every other handler and for every death between the two UPDATEs of           *)
(* recordAccountFailure.                                                        *)
StreakBounded == streak <= MaxFailures + Handlers - 1 + stalls

(* The limits of the safety policy, which are read before a job starts and      *)
(* counted when it has, are overrun by no more than the handlers there are.     *)
LimitsKept == DailyLimitKept /\ WindowLimitKept /\ StreakBounded

(* After a block that needs a person, at most the jobs that had made their      *)
(* check before are still asked, until something lifts the block.               *)
BlockStopsAsking == manual => late <= Handlers
================================================================================

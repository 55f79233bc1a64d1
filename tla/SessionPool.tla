------------------------------ MODULE SessionPool ------------------------------
(* The browser sessions of one worker process (worker.js): the maximum number  *)
(* of browsers, the eviction of idle sessions, the reaper, the life of the     *)
(* session of one job and the submit gate of an account.  A key is an account  *)
(* and a slot; AccountLease shows that one job at a time holds a key, so a     *)
(* job is named by its key.  Time is relative: `age' is the time since         *)
(* lastUsedAt, `due' the time until the account may submit again.              *)
EXTENDS Integers, FiniteSets

CONSTANTS
  Keys,            \* session keys: an account and a slot
  Accounts,
  AccountOf,       \* the account of a key
  SlotZero,        \* the keys of slot 0, which stopWorkerFor closes
  Anonymous,       \* the keys whose provider needs no stored login
  MaxBrowsers,     \* MAX_CONCURRENT_BROWSERS
  IdleLimit,       \* SESSION_IDLE_MS, in ticks; ages stop counting there
  SubmitInterval,  \* safety.submitIntervalMs, in ticks
  MaxWaits,        \* sleeps of a capacity wait before it throws (300)
  MaxLive          \* bound: live browser processes of one key

ASSUME SessionAssumption ==
  /\ IsFiniteSet(Keys)
  /\ AccountOf \in [Keys -> Accounts]
  /\ SlotZero \subseteq Keys
  /\ Anonymous \subseteq Keys
  /\ MaxBrowsers \in Nat \ {0}
  /\ IdleLimit \in Nat \ {0}
  /\ SubmitInterval \in Nat
  /\ MaxWaits \in Nat
  /\ MaxLive \in Nat \ {0}

VARIABLES
  sessions,    \* keys of the map `sessions'
  creating,    \* keys of the map `sessionCreating'
  unhealthy,   \* registered sessions whose isHealthy() is false
  age,         \* time since lastUsedAt, at most IdleLimit
  live,        \* browser processes of a key, whoever knows of them
  closing,     \* closes that nobody awaits (reaper, stopWorkerFor)
  stopping,    \* closes that shutdown awaits
  pc,          \* where the job of a key is
  waits,       \* sleeps of its capacity wait
  victim,      \* the key it is evicting
  relaunched,  \* keys whose job has replaced its browser
  due,         \* time until lastSubmitAt + submitIntervalMs of an account
  timer,       \* time a job still sleeps at the gate
  since,       \* ghost: time since an account's last question was let through
  worker

vars == <<sessions, creating, unhealthy, age, live, closing, stopping, pc, waits,
          victim, relaunched, due, timer, since, worker>>
mapVars == <<sessions, unhealthy, age>>
browserVars == <<live, closing, stopping>>
jobVars == <<waits, victim, relaunched>>
gateVars == <<due, timer, since>>

JobPC == {"idle", "replace", "evict", "wait", "launch", "prepare",
          "throttle", "gate", "ask"}

(* The jobs whose session carries the in-use mark. *)
Marked == {k \in Keys : pc[k] \in {"throttle", "gate", "ask"}}
Launching == {k \in Keys : pc[k] = "launch"}
\* A variant: creations under way are not counted.
OccupiedByOpen == Cardinality(sessions)

Occupied == Cardinality(sessions) + Cardinality(creating)

Goto(k, l) == pc' = [pc EXCEPT ![k] = l]
Touched(k) == age' = [age EXCEPT ![k] = 0]
Lower(a, b) == IF a < b THEN a ELSE b
Later(a, b) == IF a > b THEN a ELSE b

(* sessions.delete and sessionCreating.delete; the browser closes afterwards. *)
Unregister(K) ==
  /\ sessions' = sessions \ K
  /\ unhealthy' = unhealthy \ K
  /\ age' = [k \in Keys |-> IF k \in K THEN 0 ELSE age[k]]

Init ==
  /\ sessions = {} /\ creating = {} /\ unhealthy = {} /\ stopping = {}
  /\ age = [k \in Keys |-> 0]
  /\ live = [k \in Keys |-> 0]
  /\ closing = [k \in Keys |-> 0]
  /\ pc = [k \in Keys |-> "idle"]
  /\ waits = [k \in Keys |-> 0]
  /\ victim = [k \in Keys |-> k]
  /\ relaunched = {}
  /\ due = [a \in Accounts |-> 0]
  /\ timer = [k \in Keys |-> 0]
  /\ since = [a \in Accounts |-> SubmitInterval]
  /\ worker = "up"

--------------------------------------------------------------------------------
(* One job: handleJob, getSession, prepareWindow, relaunchSession.  A step runs *)
(* from one await that may take long to the next.                               *)

(* ensureBrowserCapacity, one turn of its loop: launch below the maximum, else  *)
(* evict the least recently used session without a mark, else sleep.  `running' *)
(* is `live' after the close that the turn follows, if any.                     *)
Oldest(v) ==
  /\ v \in sessions \ Marked
  /\ \A u \in sessions \ Marked : age[u] <= age[v]

Launch(k, running) ==
  /\ Occupied < MaxBrowsers
  /\ running[k] < MaxLive
  /\ Goto(k, "launch")
  /\ live' = [running EXCEPT ![k] = @ + 1]
  /\ victim' = [victim EXCEPT ![k] = k]
  /\ UNCHANGED mapVars

Evict(k, running) ==
  /\ Occupied >= MaxBrowsers
  /\ \E v \in sessions :
       /\ Oldest(v)
       /\ Unregister({v})
       /\ victim' = [victim EXCEPT ![k] = v]
  /\ Goto(k, "evict")
  /\ live' = running

Sleep(k, running) ==
  /\ Occupied >= MaxBrowsers
  /\ sessions \subseteq Marked
  /\ Goto(k, "wait")
  /\ live' = running
  /\ victim' = [victim EXCEPT ![k] = k]
  /\ UNCHANGED mapVars

Capacity(k, running) ==
  /\ Launch(k, running) \/ Evict(k, running) \/ Sleep(k, running)
  /\ UNCHANGED <<closing, stopping, gateVars, worker>>

(* The first turn runs before the creation is in sessionCreating. *)
Create(k, running) ==
  /\ Capacity(k, running)
  /\ creating' = creating \cup {k}
  /\ waits' = [waits EXCEPT ![k] = 0]

(* A registered session is reused when it is healthy and closed when not. *)
Reuse(k) ==
  /\ worker = "up" /\ pc[k] = "idle" /\ k \in sessions \ unhealthy
  /\ Goto(k, "prepare")
  /\ UNCHANGED <<mapVars, browserVars, jobVars, gateVars, creating, worker>>

Discard(k) ==
  /\ worker = "up" /\ pc[k] = "idle" /\ k \in sessions \cap unhealthy
  /\ Unregister({k})
  /\ Goto(k, "replace")
  /\ UNCHANGED <<browserVars, jobVars, gateVars, creating, worker>>

Open(k) ==
  /\ worker = "up" /\ pc[k] = "idle" /\ k \notin sessions
  /\ Create(k, live)
  /\ UNCHANGED relaunched

StartJob(k) == Reuse(k) \/ Discard(k) \/ Open(k)

Without(k) == [live EXCEPT ![k] = @ - 1]

Reopen(k) ==
  /\ pc[k] = "replace"
  /\ Create(k, Without(k))
  /\ UNCHANGED relaunched

EvictDone(k) ==
  /\ pc[k] = "evict"
  /\ Capacity(k, Without(victim[k]))
  /\ UNCHANGED <<creating, waits, relaunched>>

\* A variant: the time waited is not added up.
WakeUncounted(k) ==
  /\ pc[k] = "wait"
  /\ Capacity(k, live)
  /\ UNCHANGED <<creating, waits, relaunched>>

Wake(k) ==
  /\ pc[k] = "wait" /\ waits[k] < MaxWaits
  /\ waits' = [waits EXCEPT ![k] = @ + 1]
  /\ Capacity(k, live)
  /\ UNCHANGED <<creating, relaunched>>

(* The creation has ended, well or not, and leaves sessionCreating. *)
Created(k) ==
  /\ creating' = creating \ {k}
  /\ relaunched' = relaunched \ {k}
  /\ waits' = [waits EXCEPT ![k] = 0]

\* A variant: a failed creation stays in sessionCreating.
GiveUpPinned(k) ==
  /\ pc[k] = "wait" /\ waits[k] >= MaxWaits
  /\ waits' = [waits EXCEPT ![k] = 0]
  /\ Goto(k, "idle")
  /\ UNCHANGED <<mapVars, browserVars, creating, victim, relaunched, gateVars, worker>>

(* The wait throws and the job fails. *)
GiveUp(k) ==
  /\ pc[k] = "wait" /\ waits[k] >= MaxWaits
  /\ Created(k)
  /\ Goto(k, "idle")
  /\ UNCHANGED <<mapVars, browserVars, victim, gateVars, worker>>

(* The page opens: the session is registered. *)
Opened(k) ==
  /\ pc[k] = "launch"
  /\ sessions' = sessions \cup {k}
  /\ Touched(k)
  /\ Created(k)
  /\ Goto(k, IF k \in relaunched THEN "throttle" ELSE "prepare")
  /\ UNCHANGED <<unhealthy, browserVars, victim, gateVars, worker>>

\* A variant: the browser of a page that did not open is forgotten.
OpenFailedOrphan(k) ==
  /\ pc[k] = "launch"
  /\ Created(k)
  /\ Goto(k, "idle")
  /\ UNCHANGED <<mapVars, browserVars, victim, gateVars, worker>>

(* It does not: the browser, which no map knows, is closed and the job fails. *)
OpenFailed(k) ==
  /\ pc[k] = "launch"
  /\ live' = Without(k)
  /\ Created(k)
  /\ Goto(k, "idle")
  /\ UNCHANGED <<mapVars, closing, stopping, victim, gateVars, worker>>

(* prepareWindow keeps the session or rotates its context, which may throw; the *)
(* in-use mark is set as soon as it returns.                                    *)
Prepare(k) ==
  /\ pc[k] = "prepare"
  /\ \E l \in {"throttle", "idle"} : Goto(k, l)
  /\ UNCHANGED <<mapVars, browserVars, jobVars, gateVars, creating, worker>>

(* On an anonymous surface it may replace the browser instead. *)
Relaunch(k) ==
  /\ pc[k] = "prepare" /\ k \in Anonymous
  /\ relaunched' = relaunched \cup {k}
  /\ \/ /\ k \in sessions
        /\ Unregister({k})
        /\ Goto(k, "replace")
        /\ UNCHANGED <<browserVars, gateVars, creating, waits, victim, worker>>
     \/ /\ k \notin sessions
        /\ Create(k, live)

\* A variant: the instant is noted only when the job has slept.
ReserveLate(k) ==
  /\ pc[k] = "throttle"
  /\ timer' = [timer EXCEPT ![k] = due[AccountOf[k]]]
  /\ due' = [due EXCEPT ![AccountOf[k]] = SubmitInterval]
  /\ Goto(k, "gate")
  /\ UNCHANGED <<mapVars, browserVars, jobVars, creating, since, worker>>

(* waitForSubmitSlot reserves the account's next instant before it sleeps. *)
Reserve(k) ==
  /\ pc[k] = "throttle"
  /\ LET a == AccountOf[k] IN
       /\ timer' = [timer EXCEPT ![k] = due[a]]
       /\ due' = [due EXCEPT ![a] = @ + SubmitInterval]
  /\ Goto(k, "gate")
  /\ UNCHANGED <<mapVars, browserVars, jobVars, creating, since, worker>>

Ask(k) ==
  /\ pc[k] = "gate" /\ timer[k] = 0
  /\ since' = [since EXCEPT ![AccountOf[k]] = 0]
  /\ Goto(k, "ask")
  /\ UNCHANGED <<mapVars, browserVars, jobVars, creating, due, timer, worker>>

(* The session counts as used when the job ends, also when it has failed. *)
Finish(k) ==
  /\ pc[k] = "ask"
  /\ age' = [age EXCEPT ![k] = 0]
  /\ Goto(k, "idle")
  /\ UNCHANGED <<sessions, unhealthy, browserVars, jobVars, gateVars, creating, worker>>

--------------------------------------------------------------------------------
(* The rest of the process.                                                     *)

(* A closed session that a job still holds keeps no age. *)
Tick ==
  /\ ~ \E k \in Keys : pc[k] = "gate" /\ timer[k] = 0
  /\ age' = [k \in Keys |-> IF k \in sessions THEN Lower(age[k] + 1, IdleLimit) ELSE age[k]]
  /\ due' = [a \in Accounts |-> Later(due[a] - 1, 0)]
  /\ timer' = [k \in Keys |-> Later(timer[k] - 1, 0)]
  /\ since' = [a \in Accounts |-> Lower(since[a] + 1, SubmitInterval)]
  /\ UNCHANGED <<sessions, unhealthy, browserVars, jobVars, creating, pc, worker>>

(* startSessionReaper closes every session that has been idle for the limit: it *)
(* looks at lastUsedAt alone and does not await the closes.                      *)
Stale == {k \in sessions : age[k] >= IdleLimit}

Reap ==
  /\ worker = "up"
  /\ Stale # {}
  /\ Unregister(Stale)
  /\ closing' = [k \in Keys |-> IF k \in Stale THEN closing[k] + 1 ELSE closing[k]]
  /\ UNCHANGED <<live, stopping, jobVars, gateVars, creating, pc, worker>>

(* An account goes offline: stopWorkerFor waits for its jobs, then closes the  *)
(* session of its slot 0.                                                       *)
StopAccount(k) ==
  /\ worker = "up"
  /\ k \in SlotZero /\ k \in sessions
  /\ \A j \in Keys : AccountOf[j] = AccountOf[k] => pc[j] = "idle"
  /\ Unregister({k})
  /\ closing' = [closing EXCEPT ![k] = @ + 1]
  /\ UNCHANGED <<live, stopping, jobVars, gateVars, creating, pc, worker>>

CloseDone(k) ==
  /\ closing[k] > 0
  /\ closing' = [closing EXCEPT ![k] = @ - 1]
  /\ live' = Without(k)
  /\ UNCHANGED <<mapVars, stopping, jobVars, gateVars, creating, pc, worker>>

BrowserDies(k) ==
  /\ k \in sessions
  /\ unhealthy' = unhealthy \cup {k}
  /\ UNCHANGED <<sessions, age, browserVars, jobVars, gateVars, creating, pc, worker>>

(* shutdown stops the reaper and new jobs, waits for the jobs that run, closes  *)
(* every registered session and exits; the supervisor starts a new process.     *)
Shutdown ==
  /\ worker = "up"
  /\ worker' = "draining"
  /\ UNCHANGED <<mapVars, browserVars, jobVars, gateVars, creating, pc>>

CloseAll ==
  /\ worker = "draining"
  /\ \A k \in Keys : pc[k] = "idle"
  /\ Unregister(sessions)
  /\ stopping' = sessions
  /\ worker' = "closing"
  /\ UNCHANGED <<live, closing, jobVars, gateVars, creating, pc>>

StopDone(k) ==
  /\ k \in stopping
  /\ stopping' = stopping \ {k}
  /\ live' = Without(k)
  /\ UNCHANGED <<mapVars, closing, jobVars, gateVars, creating, pc, worker>>

Restarted ==
  /\ sessions' = {} /\ creating' = {} /\ unhealthy' = {} /\ stopping' = {}
  /\ age' = [k \in Keys |-> 0]
  /\ live' = [k \in Keys |-> 0]
  /\ closing' = [k \in Keys |-> 0]
  /\ pc' = [k \in Keys |-> "idle"]
  /\ waits' = [k \in Keys |-> 0]
  /\ victim' = [k \in Keys |-> k]
  /\ relaunched' = {}
  /\ due' = [a \in Accounts |-> 0]
  /\ timer' = [k \in Keys |-> 0]
  /\ since' = [a \in Accounts |-> SubmitInterval]
  /\ worker' = "up"

Exit == worker = "closing" /\ stopping = {} /\ Restarted

JobStep(k) ==
  \/ Reopen(k) \/ EvictDone(k) \/ Wake(k) \/ GiveUp(k) \/ Opened(k) \/ OpenFailed(k)
  \/ Prepare(k) \/ Relaunch(k) \/ Reserve(k) \/ Ask(k) \/ Finish(k)

Next ==
  \/ \E k \in Keys : StartJob(k) \/ JobStep(k) \/ StopAccount(k) \/ BrowserDies(k)
                     \/ CloseDone(k) \/ StopDone(k)
  \/ Reap \/ Tick \/ Shutdown \/ CloseAll \/ Exit

Spec == Init /\ [][Next]_vars

(* Every await of a job returns, closes end, time passes, the reaper's timer    *)
(* fires and shutdown goes on; nothing forces jobs, deaths or a shutdown.       *)
ShutdownStep == CloseAll \/ (\E k \in Keys : StopDone(k)) \/ Exit

Fairness ==
  /\ \A k \in Keys : WF_vars(JobStep(k))
  /\ WF_vars(\E k \in Keys : CloseDone(k)) /\ WF_vars(Reap) /\ WF_vars(Tick)
  /\ WF_vars(ShutdownStep)

FairSpec == Spec /\ Fairness

--------------------------------------------------------------------------------
TypeOK ==
  /\ sessions \subseteq Keys /\ creating \subseteq Keys /\ unhealthy \subseteq sessions
  /\ stopping \subseteq Keys /\ relaunched \subseteq Keys
  /\ age \in [Keys -> 0..IdleLimit]
  /\ live \in [Keys -> Int] /\ closing \in [Keys -> Nat]
  /\ pc \in [Keys -> JobPC]
  /\ waits \in [Keys -> 0..MaxWaits]
  /\ victim \in [Keys -> Keys]
  /\ due \in [Accounts -> Nat] /\ timer \in [Keys -> Nat]
  /\ since \in [Accounts -> 0..SubmitInterval]
  /\ worker \in {"up", "draining", "closing"}

(* The machine never runs more browsers than the maximum, closing ones apart:  *)
(* ensureBrowserCapacity checks a count in which other creations, waiting ones *)
(* included, may appear and disappear between the check and the registration.  *)
BrowsersWithinCap == Cardinality(sessions \cup Launching) <= MaxBrowsers

Count(P) == IF P THEN 1 ELSE 0

(* No browser process is out of reach: each is registered, being launched or   *)
(* being closed by someone, whatever fails on the way (the orphans that         *)
(* worker.js:339 tells of).                                                     *)
NoBrowserOutOfReach ==
  \A k \in Keys :
    live[k] = Count(k \in sessions) + Count(k \in Launching) + closing[k]
              + Count(k \in stopping) + Count(pc[k] = "replace")
              + Cardinality({j \in Keys : pc[j] = "evict" /\ victim[j] = k})

(* A key never has two browsers that could be asked: a creation is under way    *)
(* exactly for the jobs that are inside it, and never next to a session of the  *)
(* same key (the double launch that worker.js:298 tells of).                    *)
OneBrowserPerKey ==
  /\ creating = {k \in Keys : pc[k] \in {"evict", "wait", "launch"}}
  /\ creating \cap sessions = {}

(* Two questions of one account are let through at least the submit interval    *)
(* apart, whichever slots ask them (waitForSubmitSlot).                         *)
GateSpacing ==
  [][\A k \in Keys : pc[k] = "gate" /\ pc'[k] = "ask" => since[AccountOf[k]] = SubmitInterval]_vars

(* A shutdown ends, whatever its jobs are waiting for: they finish, fail or give *)
(* up, and every registered browser is closed before the process exits.          *)
ShutdownEnds == worker = "draining" ~> worker = "up"

(* A worker with nothing to do gives every browser back: 22 idle hours with     *)
(* eight browsers are what the reaper is for (worker.js:228).                    *)
Quiet == worker = "up" /\ \A k \in Keys : pc[k] = "idle"
IdleReclaimed == Quiet ~> (sessions = {} \/ ~Quiet)

(* Browsers are given back, by a worker that idles and by one that stops.       *)
BrowsersGivenBack == ShutdownEnds /\ IdleReclaimed
================================================================================

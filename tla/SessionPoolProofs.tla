--------------------------- MODULE SessionPoolProofs ---------------------------
(* Proofs about the browser sessions of a worker and the submit gate, for any  *)
(* keys, accounts, maximum of browsers, limits and intervals.  The invariant   *)
(* has four parts that are proved one after the other: the types, where a key  *)
(* may be, where the browsers are, and the distances at the gate.              *)
EXTENDS SessionPool, FiniteSetTheorems, TLAPS

(* A job that replaces its session has taken it out of the map first.          *)
Replaced == \A k \in Keys : pc[k] = "replace" => k \notin sessions

(* Only a closing worker closes sessions at shutdown.                          *)
Stops == worker # "closing" => stopping = {}

Places == TypeOK /\ OneBrowserPerKey /\ Replaced

Evicting(v) == {j \in Keys : pc[j] = "evict" /\ victim[j] = v}

Reach == Places /\ Stops /\ NoBrowserOutOfReach

Gated(k) == pc[k] = "gate"

(* The next free instant lies an interval after the last question and after     *)
(* every reserved one; reserved instants of an account lie an interval apart    *)
(* and, while they are to come, an interval after the last question.            *)
Spaced ==
  /\ \A a \in Accounts : due[a] + since[a] >= SubmitInterval
  /\ \A k \in Keys : Gated(k) => timer[k] + since[AccountOf[k]] >= SubmitInterval
  /\ \A k \in Keys : Gated(k) => due[AccountOf[k]] >= timer[k] + SubmitInterval
  /\ \A j, k \in Keys :
       Gated(j) /\ Gated(k) /\ j # k /\ AccountOf[j] = AccountOf[k] =>
         timer[j] >= timer[k] + SubmitInterval \/ timer[k] >= timer[j] + SubmitInterval

PoolInv == Reach /\ BrowsersWithinCap /\ Spaced

--------------------------------------------------------------------------------
(* The types.                                                                   *)

(* What one turn of the capacity loop does, whatever browsers run before it.    *)
LEMMA CapacityTypes ==
  ASSUME TypeOK, NEW k \in Keys, NEW running \in [Keys -> Int], Capacity(k, running)
  PROVE  /\ sessions' \subseteq sessions /\ unhealthy' \subseteq sessions'
         /\ age' \in [Keys -> 0..IdleLimit] /\ live' \in [Keys -> Int]
         /\ pc' \in [Keys -> JobPC] /\ victim' \in [Keys -> Keys]
         /\ UNCHANGED <<closing, stopping, due, timer, since, worker>>
<1>1. CASE Launch(k, running)
  BY <1>1, SessionAssumption DEF TypeOK, Capacity, Launch, Goto, JobPC, mapVars, gateVars
<1>2. CASE Evict(k, running)
  <2>1. PICK v \in sessions : Unregister({v}) /\ victim' = [victim EXCEPT ![k] = v]
    BY <1>2 DEF Evict
  <2>2. sessions' \subseteq sessions /\ unhealthy' \subseteq sessions'
    BY <2>1 DEF TypeOK, Unregister
  <2>3. age' \in [Keys -> 0..IdleLimit]
    <3>1. 0 \in 0..IdleLimit
      BY SessionAssumption
    <3>2. QED
      BY <2>1, <3>1 DEF TypeOK, Unregister
  <2>4. live' \in [Keys -> Int] /\ pc' \in [Keys -> JobPC] /\ victim' \in [Keys -> Keys]
    BY <1>2, <2>1 DEF TypeOK, Evict, Goto, JobPC
  <2>5. UNCHANGED <<closing, stopping, due, timer, since, worker>>
    BY DEF Capacity, gateVars
  <2>6. QED
    BY <2>2, <2>3, <2>4, <2>5
<1>3. CASE Sleep(k, running)
  BY <1>3, SessionAssumption DEF TypeOK, Capacity, Sleep, Goto, JobPC, mapVars, gateVars
<1>4. QED
  BY <1>1, <1>2, <1>3 DEF Capacity

LEMMA CreateTypes ==
  ASSUME TypeOK, NEW k \in Keys, NEW running \in [Keys -> Int], Create(k, running),
         relaunched' \subseteq Keys
  PROVE  TypeOK'
<1>1. Capacity(k, running) /\ creating' = creating \cup {k} /\ waits' = [waits EXCEPT ![k] = 0]
  BY DEF Create
<1>2. 0 \in 0..MaxWaits
  BY SessionAssumption
<1>3. QED
  BY <1>1, <1>2, CapacityTypes DEF TypeOK

LEMMA WithoutType == ASSUME TypeOK, NEW v \in Keys PROVE Without(v) \in [Keys -> Int]
BY DEF TypeOK, Without

LEMMA TypeStep == ASSUME TypeOK, [Next]_vars PROVE TypeOK'
<1> USE DEF mapVars, browserVars, jobVars, gateVars
<1>0. 0 \in 0..IdleLimit /\ 0 \in 0..MaxWaits /\ 0 \in 0..SubmitInterval
  BY SessionAssumption
<1>1. ASSUME NEW k \in Keys, StartJob(k) PROVE TypeOK'
  <2>1. CASE Reuse(k)
    BY <2>1 DEF TypeOK, Reuse, Goto, JobPC
  <2>2. CASE Discard(k)
    BY <1>0, <2>2 DEF TypeOK, Discard, Unregister, Goto, JobPC
  <2>3. CASE Open(k)
    <3>1. live \in [Keys -> Int] /\ relaunched' \subseteq Keys
      BY <2>3 DEF TypeOK, Open
    <3>2. QED
      BY <2>3, <3>1, CreateTypes DEF Open
  <2>4. QED
    BY <1>1, <2>1, <2>2, <2>3 DEF StartJob
<1>2. ASSUME NEW k \in Keys, Reopen(k) PROVE TypeOK'
  <2>1. Without(k) \in [Keys -> Int] /\ relaunched' \subseteq Keys
    BY <1>2, WithoutType DEF TypeOK, Reopen
  <2>2. QED
    BY <1>2, <2>1, CreateTypes DEF Reopen
<1>3. ASSUME NEW k \in Keys, EvictDone(k) PROVE TypeOK'
  <2>1. Without(victim[k]) \in [Keys -> Int]
    BY WithoutType DEF TypeOK
  <2>2. Capacity(k, Without(victim[k])) /\ UNCHANGED <<creating, waits, relaunched>>
    BY <1>3 DEF EvictDone
  <2>3. QED
    BY <2>1, <2>2, CapacityTypes DEF TypeOK
<1>4. ASSUME NEW k \in Keys, Wake(k) PROVE TypeOK'
  <2>1. Capacity(k, live) /\ UNCHANGED <<creating, relaunched>> /\ live \in [Keys -> Int]
    BY <1>4 DEF Wake, TypeOK
  <2>2. waits' \in [Keys -> 0..MaxWaits]
    BY <1>4, SessionAssumption DEF Wake, TypeOK
  <2>3. QED
    BY <2>1, <2>2, CapacityTypes DEF TypeOK
<1>5. ASSUME NEW k \in Keys, GiveUp(k) PROVE TypeOK'
  BY <1>0, <1>5 DEF TypeOK, GiveUp, Created, Goto, JobPC
<1>6. ASSUME NEW k \in Keys, Opened(k) PROVE TypeOK'
  BY <1>0, <1>6 DEF TypeOK, Opened, Created, Touched, Goto, JobPC
<1>7. ASSUME NEW k \in Keys, OpenFailed(k) PROVE TypeOK'
  BY <1>0, <1>7, WithoutType DEF TypeOK, OpenFailed, Created, Goto, JobPC
<1>8. ASSUME NEW k \in Keys, Prepare(k) PROVE TypeOK'
  BY <1>8 DEF TypeOK, Prepare, Goto, JobPC
<1>9. ASSUME NEW k \in Keys, Relaunch(k) PROVE TypeOK'
  <2>1. relaunched' \subseteq Keys
    BY <1>9 DEF TypeOK, Relaunch
  <2>2. CASE k \in sessions
    BY <1>0, <1>9, <2>1, <2>2 DEF TypeOK, Relaunch, Unregister, Goto, JobPC
  <2>3. CASE k \notin sessions
    <3>1. Create(k, live) /\ live \in [Keys -> Int]
      BY <1>9, <2>3 DEF Relaunch, TypeOK
    <3>2. QED
      BY <2>1, <3>1, CreateTypes
  <2>4. QED
    BY <2>2, <2>3
<1>10. ASSUME NEW k \in Keys, Reserve(k) PROVE TypeOK'
  <2>1. AccountOf[k] \in Accounts /\ SubmitInterval \in Nat
    BY SessionAssumption
  <2>2. timer' \in [Keys -> Nat] /\ due' \in [Accounts -> Nat]
    BY <1>10, <2>1 DEF TypeOK, Reserve
  <2>3. QED
    BY <1>10, <2>2 DEF TypeOK, Reserve, Goto, JobPC
<1>11. ASSUME NEW k \in Keys, Ask(k) PROVE TypeOK'
  BY <1>0, <1>11 DEF TypeOK, Ask, Goto, JobPC
<1>12. ASSUME NEW k \in Keys, Finish(k) PROVE TypeOK'
  BY <1>0, <1>12 DEF TypeOK, Finish, Goto, JobPC
<1>13. ASSUME NEW k \in Keys, StopAccount(k) PROVE TypeOK'
  BY <1>0, <1>13 DEF TypeOK, StopAccount, Unregister
<1>14. ASSUME NEW k \in Keys, BrowserDies(k) PROVE TypeOK'
  BY <1>14 DEF TypeOK, BrowserDies
<1>15. ASSUME NEW k \in Keys, CloseDone(k) PROVE TypeOK'
  BY <1>15, WithoutType DEF TypeOK, CloseDone
<1>16. ASSUME NEW k \in Keys, StopDone(k) PROVE TypeOK'
  BY <1>16, WithoutType DEF TypeOK, StopDone
<1>17. ASSUME Reap PROVE TypeOK'
  BY <1>0, <1>17 DEF TypeOK, Reap, Unregister
<1>18. ASSUME Tick PROVE TypeOK'
  <2>1. age' \in [Keys -> 0..IdleLimit]
    BY <1>18, SessionAssumption DEF TypeOK, Tick, Lower
  <2>2. timer' \in [Keys -> Nat] /\ due' \in [Accounts -> Nat]
    BY <1>18 DEF TypeOK, Tick, Later
  <2>3. since' \in [Accounts -> 0..SubmitInterval]
    BY <1>18, SessionAssumption DEF TypeOK, Tick, Lower
  <2>4. QED
    BY <1>18, <2>1, <2>2, <2>3 DEF TypeOK, Tick
<1>19. ASSUME Shutdown PROVE TypeOK'
  BY <1>19 DEF TypeOK, Shutdown
<1>20. ASSUME CloseAll PROVE TypeOK'
  BY <1>0, <1>20 DEF TypeOK, CloseAll, Unregister
<1>21. ASSUME Exit PROVE TypeOK'
  BY <1>0, <1>21, SessionAssumption DEF TypeOK, Exit, Restarted, JobPC
<1>22. CASE UNCHANGED vars
  BY <1>22 DEF TypeOK, vars
<1>23. QED
  BY <1>1, <1>2, <1>3, <1>4, <1>5, <1>6, <1>7, <1>8, <1>9, <1>10, <1>11, <1>12, <1>13,
     <1>14, <1>15, <1>16, <1>17, <1>18, <1>19, <1>20, <1>21, <1>22 DEF Next, JobStep

--------------------------------------------------------------------------------
(* Where a key may be, and how many browsers that allows.                       *)

LEMMA CapacityMoves ==
  ASSUME TypeOK, NEW k \in Keys, NEW running \in [Keys -> Int], Capacity(k, running)
  PROVE  /\ pc' = [pc EXCEPT ![k] = pc'[k]]
         /\ pc'[k] \in {"evict", "wait", "launch"}
         /\ sessions' \subseteq sessions
         /\ pc'[k] = "launch" => Occupied < MaxBrowsers
<1>1. CASE Launch(k, running)
  BY <1>1 DEF TypeOK, Launch, Goto, mapVars
<1>2. CASE Evict(k, running)
  <2>1. PICK v \in sessions : Unregister({v})
    BY <1>2 DEF Evict
  <2>2. QED
    BY <1>2, <2>1 DEF TypeOK, Evict, Goto, Unregister
<1>3. CASE Sleep(k, running)
  BY <1>3 DEF TypeOK, Sleep, Goto, mapVars
<1>4. QED
  BY <1>1, <1>2, <1>3 DEF Capacity

LEMMA CreateMoves ==
  ASSUME Places, NEW k \in Keys, k \notin sessions, NEW running \in [Keys -> Int],
         Create(k, running), pc[k] \in {"idle", "replace", "prepare"}
  PROVE  /\ OneBrowserPerKey' /\ Replaced'
         /\ pc' = [pc EXCEPT ![k] = pc'[k]] /\ sessions' \subseteq sessions
         /\ pc'[k] = "launch" => Occupied < MaxBrowsers
<1>1. Capacity(k, running) /\ creating' = creating \cup {k} /\ TypeOK
  BY DEF Create, Places
<1>2. /\ pc' = [pc EXCEPT ![k] = pc'[k]] /\ sessions' \subseteq sessions
      /\ pc'[k] \in {"evict", "wait", "launch"}
      /\ pc'[k] = "launch" => Occupied < MaxBrowsers
  BY <1>1, CapacityMoves
<1>3. \A j \in Keys : pc'[j] = IF j = k THEN pc'[k] ELSE pc[j]
  BY <1>1, <1>2 DEF TypeOK
<1>4. QED
  BY <1>1, <1>2, <1>3 DEF Places, OneBrowserPerKey, Replaced

(* A step that starts no browser keeps every key where it may be.               *)
PlacesKept == OneBrowserPerKey' /\ Replaced'
Fewer == sessions' \cup Launching' \subseteq sessions \cup Launching
(* A step that may start one has counted first.                                 *)
OneMore(k) ==
  /\ Occupied < MaxBrowsers
  /\ sessions' \subseteq sessions
  /\ Launching' \subseteq creating \cup {k}

LEMMA TurnCounts ==
  ASSUME Places, NEW k \in Keys, sessions' \subseteq sessions,
         pc' = [pc EXCEPT ![k] = pc'[k]],
         pc'[k] = "launch" => Occupied < MaxBrowsers
  PROVE  Fewer \/ OneMore(k)
<1>1. \A j \in Keys : pc'[j] = IF j = k THEN pc'[k] ELSE pc[j]
  BY DEF Places, TypeOK
<1>2. CASE pc'[k] = "launch"
  BY <1>1, <1>2 DEF Places, OneBrowserPerKey, OneMore, Launching
<1>3. CASE pc'[k] # "launch"
  BY <1>1, <1>3 DEF Fewer, Launching
<1>4. QED
  BY <1>2, <1>3

LEMMA CreateCounts ==
  ASSUME Places, NEW k \in Keys, k \notin sessions, NEW running \in [Keys -> Int],
         Create(k, running), pc[k] \in {"idle", "replace", "prepare"}
  PROVE  PlacesKept /\ (Fewer \/ OneMore(k))
BY CreateMoves, TurnCounts DEF PlacesKept

LEMMA AgainCounts ==
  ASSUME Places, NEW k \in Keys, NEW running \in [Keys -> Int], Capacity(k, running),
         creating' = creating, pc[k] \in {"evict", "wait"}
  PROVE  PlacesKept /\ (Fewer \/ OneMore(k))
<1>1. TypeOK
  BY DEF Places
<1>2. /\ pc' = [pc EXCEPT ![k] = pc'[k]] /\ sessions' \subseteq sessions
      /\ pc'[k] \in {"evict", "wait", "launch"}
      /\ pc'[k] = "launch" => Occupied < MaxBrowsers
  BY <1>1, CapacityMoves
<1>3. \A j \in Keys : pc'[j] = IF j = k THEN pc'[k] ELSE pc[j]
  BY <1>1, <1>2 DEF TypeOK
<1>4. PlacesKept
  BY <1>2, <1>3 DEF Places, OneBrowserPerKey, Replaced, PlacesKept
<1>5. QED
  BY <1>2, <1>4, TurnCounts

LEMMA PlacesStep ==
  ASSUME Places, [Next]_vars
  PROVE  PlacesKept /\ (Fewer \/ \E k \in Keys : OneMore(k))
<1> DEFINE Goal == PlacesKept /\ (Fewer \/ \E k \in Keys : OneMore(k))
<1> USE DEF mapVars, browserVars, jobVars, gateVars
<1>0. TypeOK
  BY DEF Places
<1>1. ASSUME NEW k \in Keys, StartJob(k) PROVE Goal
  <2>1. CASE Reuse(k)
    BY <1>0, <2>1 DEF Places, OneBrowserPerKey, Replaced, PlacesKept, Fewer, Launching, TypeOK, Reuse, Goto
  <2>2. CASE Discard(k)
    BY <1>0, <2>2
       DEF Places, OneBrowserPerKey, Replaced, PlacesKept, Fewer, Launching, TypeOK, Discard, Unregister, Goto
  <2>3. CASE Open(k)
    BY <1>0, <2>3, CreateCounts DEF Open, TypeOK
  <2>4. QED
    BY <1>1, <2>1, <2>2, <2>3 DEF StartJob
<1>2. ASSUME NEW k \in Keys, Reopen(k) PROVE Goal
  <2>1. Without(k) \in [Keys -> Int] /\ k \notin sessions
    BY <1>0, <1>2, WithoutType DEF Reopen, Places, Replaced
  <2>2. QED
    BY <1>2, <2>1, CreateCounts DEF Reopen
<1>3. ASSUME NEW k \in Keys, EvictDone(k) PROVE Goal
  <2>1. Without(victim[k]) \in [Keys -> Int]
    BY <1>0, WithoutType DEF TypeOK
  <2>2. Capacity(k, Without(victim[k])) /\ creating' = creating /\ pc[k] = "evict"
    BY <1>3 DEF EvictDone
  <2>3. QED
    BY <2>1, <2>2, AgainCounts
<1>4. ASSUME NEW k \in Keys, Wake(k) PROVE Goal
  BY <1>0, <1>4, AgainCounts DEF Wake, TypeOK
<1>5. ASSUME NEW k \in Keys, GiveUp(k) PROVE Goal
  BY <1>0, <1>5
     DEF Places, OneBrowserPerKey, Replaced, PlacesKept, Fewer, Launching, TypeOK, GiveUp, Created, Goto
<1>6. ASSUME NEW k \in Keys, Opened(k) PROVE Goal
  BY <1>0, <1>6
     DEF Places, OneBrowserPerKey, Replaced, PlacesKept, Fewer, Launching, TypeOK, Opened, Created, Goto
<1>7. ASSUME NEW k \in Keys, OpenFailed(k) PROVE Goal
  BY <1>0, <1>7
     DEF Places, OneBrowserPerKey, Replaced, PlacesKept, Fewer, Launching, TypeOK, OpenFailed, Created, Goto
<1>8. ASSUME NEW k \in Keys, Prepare(k) PROVE Goal
  BY <1>0, <1>8 DEF Places, OneBrowserPerKey, Replaced, PlacesKept, Fewer, Launching, TypeOK, Prepare, Goto
<1>9. ASSUME NEW k \in Keys, Relaunch(k) PROVE Goal
  <2>1. CASE k \in sessions
    BY <1>0, <1>9, <2>1
       DEF Places, OneBrowserPerKey, Replaced, PlacesKept, Fewer, Launching, TypeOK, Relaunch, Unregister, Goto
  <2>2. CASE k \notin sessions
    BY <1>0, <1>9, <2>2, CreateCounts DEF Relaunch, TypeOK
  <2>3. QED
    BY <2>1, <2>2
<1>10. ASSUME NEW k \in Keys, Reserve(k) PROVE Goal
  BY <1>0, <1>10 DEF Places, OneBrowserPerKey, Replaced, PlacesKept, Fewer, Launching, TypeOK, Reserve, Goto
<1>11. ASSUME NEW k \in Keys, Ask(k) PROVE Goal
  BY <1>0, <1>11 DEF Places, OneBrowserPerKey, Replaced, PlacesKept, Fewer, Launching, TypeOK, Ask, Goto
<1>12. ASSUME NEW k \in Keys, Finish(k) PROVE Goal
  BY <1>0, <1>12 DEF Places, OneBrowserPerKey, Replaced, PlacesKept, Fewer, Launching, TypeOK, Finish, Goto
<1>13. CASE UNCHANGED <<creating, pc>> /\ sessions' \subseteq sessions
  BY <1>13 DEF Places, OneBrowserPerKey, Replaced, PlacesKept, Fewer, Launching
<1>14. ASSUME NEW k \in Keys, StopAccount(k) \/ BrowserDies(k) \/ CloseDone(k) \/ StopDone(k) PROVE Goal
  BY <1>13, <1>14 DEF StopAccount, BrowserDies, CloseDone, StopDone, Unregister
<1>15. ASSUME Reap \/ Tick \/ Shutdown \/ CloseAll \/ UNCHANGED vars PROVE Goal
  BY <1>13, <1>15 DEF Reap, Tick, Shutdown, CloseAll, Unregister, vars
<1>16. ASSUME Exit PROVE Goal
  BY <1>16 DEF Exit, Restarted, OneBrowserPerKey, Replaced, PlacesKept, Fewer, Launching
<1>17. QED
  BY <1>1, <1>2, <1>3, <1>4, <1>5, <1>6, <1>7, <1>8, <1>9, <1>10, <1>11, <1>12, <1>14,
     <1>15, <1>16 DEF Next, JobStep

LEMMA PlacesInvariant == Places /\ [Next]_vars => Places'
BY PlacesStep, TypeStep DEF Places, PlacesKept

(* The check of the capacity loop counts the creations that wait or evict as    *)
(* well, so it leaves room for all of them.                                     *)
LEMMA CapStep == ASSUME Places, BrowsersWithinCap, [Next]_vars PROVE BrowsersWithinCap'
<1>1. IsFiniteSet(Keys) /\ sessions \subseteq Keys /\ creating \subseteq Keys /\ Launching \subseteq Keys
  BY SessionAssumption DEF Places, TypeOK, Launching
<1>2. IsFiniteSet(sessions) /\ IsFiniteSet(creating) /\ IsFiniteSet(sessions \cup Launching)
  BY <1>1, FS_Subset, FS_Union
<1>3. CASE Fewer
  <2>1. Cardinality(sessions' \cup Launching') <= Cardinality(sessions \cup Launching)
    BY <1>2, <1>3, FS_Subset DEF Fewer
  <2>2. /\ Cardinality(sessions' \cup Launching') \in Nat
        /\ Cardinality(sessions \cup Launching) \in Nat
    BY <1>2, <1>3, FS_Subset, FS_CardinalityType DEF Fewer
  <2>3. QED
    BY <2>1, <2>2, SessionAssumption DEF BrowsersWithinCap
<1>4. ASSUME NEW k \in Keys, OneMore(k) PROVE BrowsersWithinCap'
  <2> DEFINE More == creating \cup {k}
  <2>1. IsFiniteSet(More) /\ Cardinality(More) <= Cardinality(creating) + 1
    <3>1. Cardinality(creating) \in Nat
      BY <1>2, FS_CardinalityType
    <3>2. /\ IsFiniteSet(More)
          /\ Cardinality(More) = IF k \in creating THEN Cardinality(creating)
                                                  ELSE Cardinality(creating) + 1
      BY <1>2, FS_AddElement
    <3>3. QED
      BY <3>1, <3>2
  <2>2. IsFiniteSet(sessions \cup More)
    BY <1>2, <2>1, FS_Union
  <2>3. Cardinality(sessions \cup More) <= Cardinality(sessions) + Cardinality(More)
    <3>1. Cardinality(sessions \cup More)
            = Cardinality(sessions) + Cardinality(More) - Cardinality(sessions \cap More)
      BY <1>2, <2>1, FS_Union
    <3>2. /\ Cardinality(sessions \cap More) \in Nat /\ Cardinality(sessions) \in Nat
          /\ Cardinality(More) \in Nat
      BY <1>2, <2>1, FS_Intersection, FS_CardinalityType
    <3>3. QED
      BY <3>1, <3>2
  <2>4. sessions' \cup Launching' \subseteq sessions \cup More
    BY <1>4 DEF OneMore
  <2>5. /\ Cardinality(sessions' \cup Launching') <= Cardinality(sessions \cup More)
        /\ IsFiniteSet(sessions' \cup Launching')
    BY <2>2, <2>4, FS_Subset
  <2>6. /\ Cardinality(sessions' \cup Launching') \in Nat /\ Cardinality(sessions \cup More) \in Nat
        /\ Cardinality(sessions) \in Nat /\ Cardinality(creating) \in Nat
        /\ Cardinality(More) \in Nat
    BY <1>2, <2>1, <2>2, <2>5, FS_CardinalityType
  <2>7. Cardinality(sessions) + Cardinality(creating) < MaxBrowsers /\ MaxBrowsers \in Nat
    BY <1>4, SessionAssumption DEF OneMore, Occupied
  <2>8. QED
    BY <2>1, <2>3, <2>5, <2>6, <2>7 DEF BrowsersWithinCap
<1>5. QED
  BY <1>3, <1>4, PlacesStep

--------------------------------------------------------------------------------
(* Where the browsers are.                                                      *)

LEMMA EvictingIsFinite == ASSUME NEW v \in Keys PROVE Cardinality(Evicting(v)) \in Nat
<1>1. Evicting(v) \subseteq Keys /\ IsFiniteSet(Keys)
  BY SessionAssumption DEF Evicting
<1>2. QED
  BY <1>1, FS_Subset, FS_CardinalityType

(* One job goes on: it leaves the eviction it was in and enters another.        *)
LEMMA EvictingCounts ==
  ASSUME TypeOK, NEW k \in Keys, NEW v \in Keys,
         pc' = [pc EXCEPT ![k] = pc'[k]], victim' = [victim EXCEPT ![k] = victim'[k]]
  PROVE  /\ Cardinality(Evicting(v)) \in Nat /\ Cardinality(Evicting(v)') \in Nat
         /\ Cardinality(Evicting(v)') + Count(pc[k] = "evict" /\ victim[k] = v)
              = Cardinality(Evicting(v)) + Count(pc'[k] = "evict" /\ victim'[k] = v)
<1> DEFINE Rest == Evicting(v) \ {k}
<1>1. /\ \A j \in Keys : pc'[j] = IF j = k THEN pc'[k] ELSE pc[j]
      /\ \A j \in Keys : victim'[j] = IF j = k THEN victim'[k] ELSE victim[j]
  BY DEF TypeOK
<1>2. Rest \subseteq Keys /\ IsFiniteSet(Keys)
  BY SessionAssumption DEF Evicting
<1>3. IsFiniteSet(Rest) /\ Cardinality(Rest) \in Nat
  BY <1>2, FS_Subset, FS_CardinalityType
<1>4. Cardinality(Rest \cup {k}) = Cardinality(Rest) + 1
  BY <1>3, FS_AddElement
<1>5. Evicting(v) = IF pc[k] = "evict" /\ victim[k] = v THEN Rest \cup {k} ELSE Rest
  BY DEF Evicting
<1>6. Evicting(v)' = IF pc'[k] = "evict" /\ victim'[k] = v THEN Rest \cup {k} ELSE Rest
  BY <1>1 DEF Evicting
<1>7. Cardinality(Evicting(v)) = Cardinality(Rest) + Count(pc[k] = "evict" /\ victim[k] = v)
  BY <1>3, <1>4, <1>5 DEF Count
<1>8. Cardinality(Evicting(v)') = Cardinality(Rest) + Count(pc'[k] = "evict" /\ victim'[k] = v)
  BY <1>3, <1>4, <1>6 DEF Count
<1>9. /\ Count(pc[k] = "evict" /\ victim[k] = v) \in {0, 1}
      /\ Count(pc'[k] = "evict" /\ victim'[k] = v) \in {0, 1}
  BY DEF Count
<1>10. QED
  BY <1>3, <1>7, <1>8, <1>9

(* The browsers of a key that a job or a close is known to have.                *)
Held(v) ==
  Count(v \in sessions) + Count(pc[v] = "launch") + closing[v] + Count(v \in stopping)
    + Count(pc[v] = "replace")

LEMMA ReachOfKey == ASSUME NEW v \in Keys, NoBrowserOutOfReach
                    PROVE live[v] = Held(v) + Cardinality(Evicting(v))
BY DEF NoBrowserOutOfReach, Held, Evicting, Launching

LEMMA ReachOfKeys ==
  ASSUME \A v \in Keys : live'[v] = Held(v)' + Cardinality(Evicting(v)')
  PROVE  NoBrowserOutOfReach'
BY DEF NoBrowserOutOfReach, Held, Evicting, Launching

(* What one turn of the capacity loop starts and takes out of the map.          *)
LEMMA CapacityBrowsers ==
  ASSUME TypeOK, NEW k \in Keys, NEW running \in [Keys -> Int], Capacity(k, running),
         NEW v \in Keys
  PROVE  /\ victim' = [victim EXCEPT ![k] = victim'[k]]
         /\ live'[v] + Count(v \in sessions)
              = running[v] + Count(v \in sessions') + Count(v = k /\ pc'[k] = "launch")
                + Count(pc'[k] = "evict" /\ victim'[k] = v)
<1>1. CASE Launch(k, running)
  BY <1>1 DEF TypeOK, Launch, Goto, mapVars, Count
<1>2. CASE Evict(k, running)
  <2>1. PICK u \in sessions : Unregister({u}) /\ victim' = [victim EXCEPT ![k] = u]
    BY <1>2 DEF Evict
  <2>2. pc'[k] = "evict" /\ victim'[k] = u /\ live' = running /\ sessions' = sessions \ {u}
    BY <1>2, <2>1 DEF TypeOK, Evict, Goto, Unregister
  <2>3. QED
    BY <2>1, <2>2 DEF TypeOK, Count
<1>3. CASE Sleep(k, running)
  BY <1>3 DEF TypeOK, Sleep, Goto, mapVars, Count
<1>4. QED
  BY <1>1, <1>2, <1>3 DEF Capacity

LEMMA TurnReaches ==
  ASSUME TypeOK, NoBrowserOutOfReach, NEW k \in Keys, NEW running \in [Keys -> Int],
         Capacity(k, running), pc[k] # "launch",
         \A v \in Keys : running[v] + Count(v = k /\ pc[k] = "replace")
                           + Count(pc[k] = "evict" /\ victim[k] = v) = live[v]
  PROVE  NoBrowserOutOfReach'
<1> SUFFICES ASSUME NEW v \in Keys
             PROVE  live'[v] = Held(v)' + Cardinality(Evicting(v)')
  BY ReachOfKeys
<1>1. /\ pc' = [pc EXCEPT ![k] = pc'[k]] /\ pc'[k] \in {"evict", "wait", "launch"}
      /\ victim' = [victim EXCEPT ![k] = victim'[k]]
      /\ closing' = closing /\ stopping' = stopping
  BY CapacityMoves, CapacityBrowsers DEF Capacity
<1>2. pc'[v] = IF v = k THEN pc'[k] ELSE pc[v]
  BY <1>1 DEF TypeOK
<1>3. /\ Cardinality(Evicting(v)) \in Nat /\ Cardinality(Evicting(v)') \in Nat
      /\ Cardinality(Evicting(v)') + Count(pc[k] = "evict" /\ victim[k] = v)
           = Cardinality(Evicting(v)) + Count(pc'[k] = "evict" /\ victim'[k] = v)
  BY <1>1, EvictingCounts
<1>4. live'[v] + Count(v \in sessions)
        = running[v] + Count(v \in sessions') + Count(v = k /\ pc'[k] = "launch")
          + Count(pc'[k] = "evict" /\ victim'[k] = v)
  BY CapacityBrowsers
<1>5. live[v] = Held(v) + Cardinality(Evicting(v))
  BY ReachOfKey
<1>6. /\ live[v] \in Int /\ live'[v] \in Int /\ running[v] \in Int /\ closing[v] \in Int
  BY CapacityTypes DEF TypeOK
<1>7. Count(pc'[v] = "launch") + Count(pc'[v] = "replace") + Count(v = k /\ pc[k] = "replace")
        = Count(pc[v] = "launch") + Count(pc[v] = "replace") + Count(v = k /\ pc'[k] = "launch")
  BY <1>1, <1>2 DEF Count
<1>8. /\ Count(pc'[v] = "launch") \in Int /\ Count(pc'[v] = "replace") \in Int
      /\ Count(pc[v] = "launch") \in Int /\ Count(pc[v] = "replace") \in Int
      /\ Count(v \in sessions) \in Int /\ Count(v \in sessions') \in Int
      /\ Count(v \in stopping) \in Int
      /\ Count(v = k /\ pc[k] = "replace") \in Int /\ Count(v = k /\ pc'[k] = "launch") \in Int
      /\ Count(pc[k] = "evict" /\ victim[k] = v) \in Int
      /\ Count(pc'[k] = "evict" /\ victim'[k] = v) \in Int
  BY DEF Count
<1>9. running[v] + Count(v = k /\ pc[k] = "replace")
        + Count(pc[k] = "evict" /\ victim[k] = v) = live[v]
  OBVIOUS
<1>10. /\ Held(v) = Count(v \in sessions) + Count(pc[v] = "launch") + closing[v]
                      + Count(v \in stopping) + Count(pc[v] = "replace")
       /\ Held(v)' = Count(v \in sessions') + Count(pc'[v] = "launch") + closing[v]
                       + Count(v \in stopping) + Count(pc'[v] = "replace")
  BY <1>1 DEF Held
<1>11. live'[v] + Count(v \in sessions) + Count(v = k /\ pc[k] = "replace")
         = Held(v) + Cardinality(Evicting(v)') + Count(v \in sessions')
           + Count(v = k /\ pc'[k] = "launch")
  <2>1. Held(v) \in Int
    BY <1>6, <1>8, <1>10
  <2>2. QED
    BY <1>3, <1>4, <1>5, <1>6, <1>8, <1>9, <2>1
<1>12. Held(v)' + Count(v \in sessions) + Count(v = k /\ pc[k] = "replace")
         = Held(v) + Count(v \in sessions') + Count(v = k /\ pc'[k] = "launch")
  BY <1>6, <1>7, <1>8, <1>10
<1>13. Held(v) \in Int /\ Held(v)' \in Int
  BY <1>6, <1>8, <1>10
<1> DEFINE before == Count(v \in sessions) + Count(v = k /\ pc[k] = "replace")
           after == Count(v \in sessions') + Count(v = k /\ pc'[k] = "launch")
<1>14. before \in Int /\ after \in Int
  BY <1>8
<1>15. live'[v] + before = Held(v) + Cardinality(Evicting(v)') + after
  BY <1>3, <1>6, <1>8, <1>11, <1>13
<1>16. Held(v)' + before = Held(v) + after
  BY <1>6, <1>8, <1>12, <1>13
<1> HIDE DEF before, after
<1>17. QED
  BY <1>3, <1>6, <1>13, <1>14, <1>15, <1>16

(* A job goes on without the capacity loop, and a close begins or ends: nobody  *)
(* begins or ends an eviction.                                                  *)
LEMMA OthersReach ==
  ASSUME TypeOK, TypeOK', NoBrowserOutOfReach, victim' = victim,
         \A v \in Keys : (pc[v] = "evict") = (pc'[v] = "evict"),
         \A v \in Keys : live'[v] + Held(v) = live[v] + Held(v)'
  PROVE  NoBrowserOutOfReach'
<1> SUFFICES ASSUME NEW v \in Keys
             PROVE  live'[v] = Held(v)' + Cardinality(Evicting(v)')
  BY ReachOfKeys
<1>1. Evicting(v)' = Evicting(v)
  BY DEF Evicting
<1>2. live[v] = Held(v) + Cardinality(Evicting(v)) /\ live'[v] + Held(v) = live[v] + Held(v)'
  BY ReachOfKey
<1>3. Cardinality(Evicting(v)) \in Nat /\ live[v] \in Int /\ live'[v] \in Int
  BY EvictingIsFinite DEF TypeOK
<1>4. Held(v) \in Int /\ Held(v)' \in Int
  BY DEF Held, Count, TypeOK
<1>5. QED
  BY <1>1, <1>2, <1>3, <1>4

LEMMA ReachStep == ASSUME Reach, [Next]_vars PROVE NoBrowserOutOfReach' /\ Stops'
<1> DEFINE Goal == NoBrowserOutOfReach' /\ Stops'
<1> USE DEF mapVars, browserVars, jobVars, gateVars
<1>0. Places /\ TypeOK /\ TypeOK' /\ Stops /\ NoBrowserOutOfReach
  BY TypeStep DEF Reach, Places
<1>1. ASSUME NEW k \in Keys, StartJob(k) PROVE Goal
  <2>1. CASE Reuse(k)
    <3>1. /\ \A v \in Keys : (pc[v] = "evict") = (pc'[v] = "evict")
          /\ \A v \in Keys : live'[v] + Held(v) = live[v] + Held(v)'
      BY <1>0, <2>1 DEF TypeOK, Reuse, Goto, Held, Count
    <3>2. QED
      BY <1>0, <2>1, <3>1, OthersReach DEF Reuse, Stops
  <2>2. CASE Discard(k)
    <3>1. /\ \A v \in Keys : (pc[v] = "evict") = (pc'[v] = "evict")
          /\ \A v \in Keys : live'[v] + Held(v) = live[v] + Held(v)'
      BY <1>0, <2>2 DEF TypeOK, Discard, Unregister, Goto, Held, Count
    <3>2. QED
      BY <1>0, <2>2, <3>1, OthersReach DEF Discard, Stops
  <2>3. CASE Open(k)
    <3>1. /\ Capacity(k, live) /\ live \in [Keys -> Int] /\ pc[k] = "idle"
          /\ \A v \in Keys : live[v] + Count(v = k /\ pc[k] = "replace")
                               + Count(pc[k] = "evict" /\ victim[k] = v) = live[v]
      BY <1>0, <2>3 DEF TypeOK, Open, Create, Count
    <3>2. QED
      BY <1>0, <3>1, TurnReaches DEF Capacity, Stops
  <2>4. QED
    BY <1>1, <2>1, <2>2, <2>3 DEF StartJob
<1>2. ASSUME NEW k \in Keys, Reopen(k) PROVE Goal
  <2>1. /\ Capacity(k, Without(k)) /\ Without(k) \in [Keys -> Int] /\ pc[k] = "replace"
        /\ \A v \in Keys : Without(k)[v] + Count(v = k /\ pc[k] = "replace")
                             + Count(pc[k] = "evict" /\ victim[k] = v) = live[v]
    BY <1>0, <1>2, WithoutType DEF TypeOK, Reopen, Create, Count, Without
  <2>2. QED
    BY <1>0, <2>1, TurnReaches DEF Capacity, Stops
<1>3. ASSUME NEW k \in Keys, EvictDone(k) PROVE Goal
  <2>1. /\ Capacity(k, Without(victim[k])) /\ Without(victim[k]) \in [Keys -> Int]
        /\ pc[k] = "evict"
        /\ \A v \in Keys : Without(victim[k])[v] + Count(v = k /\ pc[k] = "replace")
                             + Count(pc[k] = "evict" /\ victim[k] = v) = live[v]
    BY <1>0, <1>3 DEF TypeOK, EvictDone, Count, Without
  <2>2. QED
    BY <1>0, <2>1, TurnReaches DEF Capacity, Stops
<1>4. ASSUME NEW k \in Keys, Wake(k) PROVE Goal
  <2>1. /\ Capacity(k, live) /\ live \in [Keys -> Int] /\ pc[k] = "wait"
        /\ \A v \in Keys : live[v] + Count(v = k /\ pc[k] = "replace")
                             + Count(pc[k] = "evict" /\ victim[k] = v) = live[v]
    BY <1>0, <1>4 DEF TypeOK, Wake, Count
  <2>2. QED
    BY <1>0, <2>1, TurnReaches DEF Capacity, Stops
<1>5. ASSUME NEW k \in Keys, GiveUp(k) PROVE Goal
  <2>1. /\ \A v \in Keys : (pc[v] = "evict") = (pc'[v] = "evict")
        /\ \A v \in Keys : live'[v] + Held(v) = live[v] + Held(v)'
    BY <1>0, <1>5 DEF TypeOK, GiveUp, Created, Goto, Held, Count
  <2>2. QED
    BY <1>0, <1>5, <2>1, OthersReach DEF GiveUp, Stops
<1>6. ASSUME NEW k \in Keys, Opened(k) PROVE Goal
  <2>1. /\ \A v \in Keys : (pc[v] = "evict") = (pc'[v] = "evict")
        /\ \A v \in Keys : live'[v] + Held(v) = live[v] + Held(v)'
    <3>1. k \notin sessions
      BY <1>0, <1>6 DEF Places, OneBrowserPerKey, Opened
    <3>2. QED
      BY <1>0, <1>6, <3>1 DEF TypeOK, Opened, Created, Goto, Held, Count
  <2>2. QED
    BY <1>0, <1>6, <2>1, OthersReach DEF Opened, Stops
<1>7. ASSUME NEW k \in Keys, OpenFailed(k) PROVE Goal
  <2>1. /\ \A v \in Keys : (pc[v] = "evict") = (pc'[v] = "evict")
        /\ \A v \in Keys : live'[v] + Held(v) = live[v] + Held(v)'
    BY <1>0, <1>7 DEF TypeOK, OpenFailed, Created, Goto, Without, Held, Count
  <2>2. QED
    BY <1>0, <1>7, <2>1, OthersReach DEF OpenFailed, Stops
<1>8. ASSUME NEW k \in Keys, Prepare(k) PROVE Goal
  <2>1. /\ \A v \in Keys : (pc[v] = "evict") = (pc'[v] = "evict")
        /\ \A v \in Keys : live'[v] + Held(v) = live[v] + Held(v)'
    BY <1>0, <1>8 DEF TypeOK, Prepare, Goto, Held, Count
  <2>2. QED
    BY <1>0, <1>8, <2>1, OthersReach DEF Prepare, Stops
<1>9. ASSUME NEW k \in Keys, Relaunch(k) PROVE Goal
  <2>1. CASE k \in sessions
    <3>1. /\ \A v \in Keys : (pc[v] = "evict") = (pc'[v] = "evict")
          /\ \A v \in Keys : live'[v] + Held(v) = live[v] + Held(v)'
      BY <1>0, <1>9, <2>1 DEF TypeOK, Relaunch, Unregister, Goto, Held, Count
    <3>2. QED
      BY <1>0, <1>9, <2>1, <3>1, OthersReach DEF Relaunch, Stops
  <2>2. CASE k \notin sessions
    <3>1. /\ Capacity(k, live) /\ live \in [Keys -> Int] /\ pc[k] = "prepare"
          /\ \A v \in Keys : live[v] + Count(v = k /\ pc[k] = "replace")
                               + Count(pc[k] = "evict" /\ victim[k] = v) = live[v]
      BY <1>0, <1>9, <2>2 DEF TypeOK, Relaunch, Create, Count
    <3>2. QED
      BY <1>0, <3>1, TurnReaches DEF Capacity, Stops
  <2>3. QED
    BY <2>1, <2>2
<1>10. ASSUME NEW k \in Keys, Reserve(k) PROVE Goal
  <2>1. /\ \A v \in Keys : (pc[v] = "evict") = (pc'[v] = "evict")
        /\ \A v \in Keys : live'[v] + Held(v) = live[v] + Held(v)'
    BY <1>0, <1>10 DEF TypeOK, Reserve, Goto, Held, Count
  <2>2. QED
    BY <1>0, <1>10, <2>1, OthersReach DEF Reserve, Stops
<1>11. ASSUME NEW k \in Keys, Ask(k) PROVE Goal
  <2>1. /\ \A v \in Keys : (pc[v] = "evict") = (pc'[v] = "evict")
        /\ \A v \in Keys : live'[v] + Held(v) = live[v] + Held(v)'
    BY <1>0, <1>11 DEF TypeOK, Ask, Goto, Held, Count
  <2>2. QED
    BY <1>0, <1>11, <2>1, OthersReach DEF Ask, Stops
<1>12. ASSUME NEW k \in Keys, Finish(k) PROVE Goal
  <2>1. /\ \A v \in Keys : (pc[v] = "evict") = (pc'[v] = "evict")
        /\ \A v \in Keys : live'[v] + Held(v) = live[v] + Held(v)'
    BY <1>0, <1>12 DEF TypeOK, Finish, Goto, Held, Count
  <2>2. QED
    BY <1>0, <1>12, <2>1, OthersReach DEF Finish, Stops
<1>13. ASSUME NEW k \in Keys, StopAccount(k) PROVE Goal
  <2>1. /\ \A v \in Keys : (pc[v] = "evict") = (pc'[v] = "evict")
        /\ \A v \in Keys : live'[v] + Held(v) = live[v] + Held(v)'
    BY <1>0, <1>13 DEF TypeOK, StopAccount, Unregister, Held, Count
  <2>2. QED
    BY <1>0, <1>13, <2>1, OthersReach DEF StopAccount, Stops
<1>14. ASSUME NEW k \in Keys, CloseDone(k) PROVE Goal
  <2>1. /\ \A v \in Keys : (pc[v] = "evict") = (pc'[v] = "evict")
        /\ \A v \in Keys : live'[v] + Held(v) = live[v] + Held(v)'
    BY <1>0, <1>14 DEF TypeOK, CloseDone, Without, Held, Count
  <2>2. QED
    BY <1>0, <1>14, <2>1, OthersReach DEF CloseDone, Stops
<1>15. ASSUME NEW k \in Keys, StopDone(k) PROVE Goal
  <2>1. /\ \A v \in Keys : (pc[v] = "evict") = (pc'[v] = "evict")
        /\ \A v \in Keys : live'[v] + Held(v) = live[v] + Held(v)'
    BY <1>0, <1>15 DEF TypeOK, StopDone, Without, Held, Count
  <2>2. QED
    BY <1>0, <1>15, <2>1, OthersReach DEF StopDone, Stops
<1>16. ASSUME NEW k \in Keys, BrowserDies(k) PROVE Goal
  <2>1. /\ \A v \in Keys : (pc[v] = "evict") = (pc'[v] = "evict")
        /\ \A v \in Keys : live'[v] + Held(v) = live[v] + Held(v)'
    BY <1>0, <1>16 DEF TypeOK, BrowserDies, Held, Count
  <2>2. QED
    BY <1>0, <1>16, <2>1, OthersReach DEF BrowserDies, Stops
<1>17. ASSUME Reap PROVE Goal
  <2>1. /\ \A v \in Keys : (pc[v] = "evict") = (pc'[v] = "evict")
        /\ \A v \in Keys : live'[v] + Held(v) = live[v] + Held(v)'
    BY <1>0, <1>17 DEF TypeOK, Reap, Unregister, Stale, Held, Count
  <2>2. QED
    BY <1>0, <1>17, <2>1, OthersReach DEF Reap, Stops
<1>18. ASSUME Tick PROVE Goal
  <2>1. /\ \A v \in Keys : (pc[v] = "evict") = (pc'[v] = "evict")
        /\ \A v \in Keys : live'[v] + Held(v) = live[v] + Held(v)'
    BY <1>0, <1>18 DEF TypeOK, Tick, Held, Count
  <2>2. QED
    BY <1>0, <1>18, <2>1, OthersReach DEF Tick, Stops
<1>19. ASSUME Shutdown PROVE Goal
  <2>1. /\ \A v \in Keys : (pc[v] = "evict") = (pc'[v] = "evict")
        /\ \A v \in Keys : live'[v] + Held(v) = live[v] + Held(v)'
    BY <1>0, <1>19 DEF TypeOK, Shutdown, Held, Count
  <2>2. QED
    BY <1>0, <1>19, <2>1, OthersReach DEF Shutdown, Stops
<1>20. ASSUME CloseAll PROVE Goal
  <2>1. /\ \A v \in Keys : (pc[v] = "evict") = (pc'[v] = "evict")
        /\ \A v \in Keys : live'[v] + Held(v) = live[v] + Held(v)'
    BY <1>0, <1>20 DEF TypeOK, CloseAll, Unregister, Stops, Held, Count
  <2>2. QED
    BY <1>0, <1>20, <2>1, OthersReach DEF CloseAll, Stops
<1>21. ASSUME Exit PROVE Goal
  <2>1. ASSUME NEW v \in Keys PROVE live'[v] = Held(v)' + Cardinality(Evicting(v)')
    <3>1. Evicting(v)' = {}
      BY <1>21 DEF Exit, Restarted, Evicting
    <3>2. Held(v)' = 0 /\ live'[v] = 0
      BY <1>21 DEF Exit, Restarted, Held, Count
    <3>3. QED
      BY <3>1, <3>2, FS_EmptySet
  <2>2. QED
    BY <1>21, <2>1, ReachOfKeys DEF Exit, Restarted, Stops
<1>22. CASE UNCHANGED vars
  BY <1>0, <1>22 DEF vars, NoBrowserOutOfReach, Stops, Launching
<1>23. QED
  BY <1>1, <1>2, <1>3, <1>4, <1>5, <1>6, <1>7, <1>8, <1>9, <1>10, <1>11, <1>12, <1>13,
     <1>14, <1>15, <1>16, <1>17, <1>18, <1>19, <1>20, <1>21, <1>22 DEF Next, JobStep

--------------------------------------------------------------------------------
(* The distances at the gate.                                                   *)

(* A step that neither lets a job into the gate nor out of it to its question.  *)
LEMMA GateUntouched ==
  ASSUME Spaced, UNCHANGED gateVars,
         \A k \in Keys : (pc'[k] = "gate" => pc[k] = "gate") /\ (pc'[k] = "ask" => pc[k] = "ask")
  PROVE  Spaced'
BY DEF Spaced, Gated, gateVars

(* What a step has to respect.                                                  *)
Respects == \A k \in Keys : pc[k] = "gate" /\ pc'[k] = "ask" => since[AccountOf[k]] = SubmitInterval

LEMMA ReserveSpaces == ASSUME TypeOK, Spaced, NEW k \in Keys, Reserve(k) PROVE Spaced' /\ Respects
<1> DEFINE a == AccountOf[k]
<1>1. /\ a \in Accounts /\ SubmitInterval \in Nat
      /\ \A j \in Keys : AccountOf[j] \in Accounts
  BY SessionAssumption
<1>2. /\ \A j \in Keys : timer'[j] = IF j = k THEN due[a] ELSE timer[j]
      /\ \A b \in Accounts : due'[b] = IF b = a THEN due[b] + SubmitInterval ELSE due[b]
      /\ since' = since
  BY <1>1 DEF TypeOK, Reserve, gateVars
<1>3. \A j \in Keys : (Gated(j)' => j = k \/ Gated(j)) /\ pc'[k] = "gate"
                      /\ (pc'[j] = "ask" => pc[j] = "ask")
  BY DEF TypeOK, Reserve, Goto, Gated
<1>4. /\ \A b \in Accounts : due[b] \in Nat /\ since[b] \in Int
      /\ \A j \in Keys : timer[j] \in Nat
  BY SessionAssumption DEF TypeOK
<1>5. \A b \in Accounts : due'[b] + since'[b] >= SubmitInterval
  BY <1>1, <1>2, <1>4 DEF Spaced
<1>6. \A j \in Keys : Gated(j)' => timer'[j] + since'[AccountOf[j]] >= SubmitInterval
  BY <1>1, <1>2, <1>3, <1>4 DEF Spaced
<1>7. \A j \in Keys : Gated(j)' => due'[AccountOf[j]] >= timer'[j] + SubmitInterval
  BY <1>1, <1>2, <1>3, <1>4 DEF Spaced
<1>8. ASSUME NEW i \in Keys, NEW j \in Keys, Gated(i)', Gated(j)', i # j,
             AccountOf[i] = AccountOf[j]
      PROVE  timer'[i] >= timer'[j] + SubmitInterval \/ timer'[j] >= timer'[i] + SubmitInterval
  BY <1>1, <1>2, <1>3, <1>4, <1>8 DEF Spaced
<1>9. Spaced'
  BY <1>5, <1>6, <1>7, <1>8 DEF Spaced
<1>10. QED
  BY <1>3, <1>9 DEF Respects

LEMMA AskSpaces == ASSUME TypeOK, Spaced, NEW k \in Keys, Ask(k) PROVE Spaced' /\ Respects
<1> DEFINE a == AccountOf[k]
<1>1. /\ a \in Accounts /\ SubmitInterval \in Nat
      /\ \A j \in Keys : AccountOf[j] \in Accounts
  BY SessionAssumption
<1>2. /\ timer' = timer /\ due' = due /\ timer[k] = 0 /\ Gated(k)
      /\ \A b \in Accounts : since'[b] = IF b = a THEN 0 ELSE since[b]
  BY <1>1 DEF TypeOK, Ask, Gated
<1>3. \A j \in Keys : (Gated(j)' => j # k /\ Gated(j)) /\ (pc'[j] = "ask" => j = k \/ pc[j] = "ask")
  BY DEF TypeOK, Ask, Goto, Gated
<1>4. /\ \A b \in Accounts : due[b] \in Nat /\ since[b] \in 0..SubmitInterval
      /\ \A j \in Keys : timer[j] \in Nat
  BY DEF TypeOK
<1>5. \A b \in Accounts : due'[b] + since'[b] >= SubmitInterval
  BY <1>1, <1>2, <1>4 DEF Spaced
<1>6. ASSUME NEW j \in Keys, Gated(j)' PROVE timer'[j] + since'[AccountOf[j]] >= SubmitInterval
  <2>1. CASE AccountOf[j] = a
    <3>1. timer[j] >= timer[k] + SubmitInterval \/ timer[k] >= timer[j] + SubmitInterval
      BY <1>2, <1>3, <1>6, <2>1 DEF Spaced
    <3>2. QED
      BY <1>1, <1>2, <1>4, <2>1, <3>1
  <2>2. CASE AccountOf[j] # a
    BY <1>1, <1>2, <1>3, <1>6, <2>2 DEF Spaced
  <2>3. QED
    BY <2>1, <2>2
<1>7. \A j \in Keys : Gated(j)' => due'[AccountOf[j]] >= timer'[j] + SubmitInterval
  BY <1>2, <1>3 DEF Spaced
<1>8. ASSUME NEW i \in Keys, NEW j \in Keys, Gated(i)', Gated(j)', i # j,
             AccountOf[i] = AccountOf[j]
      PROVE  timer'[i] >= timer'[j] + SubmitInterval \/ timer'[j] >= timer'[i] + SubmitInterval
  BY <1>2, <1>3, <1>8 DEF Spaced
<1>9. Spaced'
  BY <1>5, <1>6, <1>7, <1>8 DEF Spaced
<1>10. since[a] = SubmitInterval
  <2>1. timer[k] + since[a] >= SubmitInterval
    BY <1>2 DEF Spaced
  <2>2. QED
    BY <1>1, <1>2, <1>4, <2>1
<1>11. QED
  BY <1>3, <1>9, <1>10 DEF Respects

LEMMA TickSpaces == ASSUME TypeOK, Spaced, Tick PROVE Spaced' /\ Respects
<1>1. SubmitInterval \in Nat /\ \A j \in Keys : AccountOf[j] \in Accounts
  BY SessionAssumption
<1>2. /\ \A j \in Keys : timer'[j] = IF timer[j] - 1 > 0 THEN timer[j] - 1 ELSE 0
      /\ \A b \in Accounts : due'[b] = IF due[b] - 1 > 0 THEN due[b] - 1 ELSE 0
      /\ \A b \in Accounts : since'[b] = IF since[b] + 1 < SubmitInterval THEN since[b] + 1
                                                                        ELSE SubmitInterval
  BY DEF Tick, Lower, Later
<1>3. pc' = pc /\ \A j \in Keys : Gated(j) => timer[j] # 0
  BY DEF Tick, Gated
<1>4. /\ \A b \in Accounts : due[b] \in Nat /\ since[b] \in 0..SubmitInterval
      /\ \A j \in Keys : timer[j] \in Nat
  BY DEF TypeOK
<1>5. \A b \in Accounts : due'[b] + since'[b] >= SubmitInterval
  BY <1>1, <1>2, <1>4 DEF Spaced
<1>6. ASSUME NEW j \in Keys, Gated(j)
      PROVE  /\ timer'[j] + since'[AccountOf[j]] >= SubmitInterval
             /\ due'[AccountOf[j]] >= timer'[j] + SubmitInterval
  <2>1. /\ timer[j] + since[AccountOf[j]] >= SubmitInterval
        /\ due[AccountOf[j]] >= timer[j] + SubmitInterval
    BY <1>6 DEF Spaced
  <2>2. timer[j] \in Nat /\ timer[j] # 0 /\ timer'[j] = timer[j] - 1
    BY <1>2, <1>3, <1>4, <1>6
  <2>3. /\ AccountOf[j] \in Accounts
        /\ due[AccountOf[j]] \in Nat /\ since[AccountOf[j]] \in 0..SubmitInterval
    BY <1>1, <1>4
  <2>4. due'[AccountOf[j]] = due[AccountOf[j]] - 1
    BY <1>1, <1>2, <2>1, <2>2, <2>3
  <2>5. since'[AccountOf[j]] = since[AccountOf[j]] + 1 \/ since'[AccountOf[j]] = SubmitInterval
    BY <1>2, <2>3
  <2>6. QED
    BY <1>1, <2>1, <2>2, <2>3, <2>4, <2>5
<1>7. ASSUME NEW i \in Keys, NEW j \in Keys, Gated(i), Gated(j), i # j,
             AccountOf[i] = AccountOf[j]
      PROVE  timer'[i] >= timer'[j] + SubmitInterval \/ timer'[j] >= timer'[i] + SubmitInterval
  <2>1. timer[i] >= timer[j] + SubmitInterval \/ timer[j] >= timer[i] + SubmitInterval
    BY <1>7 DEF Spaced
  <2>2. timer[i] # 0 /\ timer[j] # 0 /\ timer[i] \in Nat /\ timer[j] \in Nat
    BY <1>3, <1>4, <1>7
  <2>3. timer'[i] = timer[i] - 1 /\ timer'[j] = timer[j] - 1
    BY <1>2, <2>2
  <2>4. QED
    BY <1>1, <2>1, <2>2, <2>3
<1>8. \A j \in Keys : Gated(j)' = Gated(j)
  BY <1>3 DEF Gated
<1>9. Spaced'
  BY <1>5, <1>6, <1>7, <1>8 DEF Spaced
<1>10. QED
  BY <1>3, <1>9 DEF Respects

LEMMA GateStep == ASSUME TypeOK, Spaced, [Next]_vars PROVE Spaced' /\ Respects
<1> DEFINE Still == /\ UNCHANGED gateVars
                    /\ \A k \in Keys : /\ pc'[k] = "gate" => pc[k] = "gate"
                                       /\ pc'[k] = "ask" => pc[k] = "ask"
<1>0. Still => Spaced' /\ Respects
  BY GateUntouched DEF Respects
<1>1. ASSUME NEW k \in Keys, NEW running \in [Keys -> Int], Capacity(k, running) PROVE Still
  <2>1. pc' = [pc EXCEPT ![k] = pc'[k]] /\ pc'[k] \in {"evict", "wait", "launch"}
    BY <1>1, CapacityMoves
  <2>2. QED
    BY <1>1, <2>1 DEF TypeOK, Capacity
<1>2. live \in [Keys -> Int] /\ \A v \in Keys : Without(v) \in [Keys -> Int]
  BY WithoutType DEF TypeOK
<1>3. ASSUME NEW k \in Keys, StartJob(k) PROVE Still
  <2>1. CASE Reuse(k) \/ Discard(k)
    BY <2>1 DEF TypeOK, Reuse, Discard, Goto
  <2>2. CASE Open(k)
    BY <1>1, <1>2, <2>2 DEF Open, Create
  <2>3. QED
    BY <1>3, <2>1, <2>2 DEF StartJob
<1>4. ASSUME NEW k \in Keys, Reopen(k) PROVE Still
  BY <1>1, <1>2, <1>4 DEF Reopen, Create
<1>5. ASSUME NEW k \in Keys, EvictDone(k) PROVE Still
  <2>1. victim[k] \in Keys /\ Capacity(k, Without(victim[k]))
    BY <1>5 DEF EvictDone, TypeOK
  <2>2. QED
    BY <1>1, <1>2, <2>1
<1>6. ASSUME NEW k \in Keys, Wake(k) PROVE Still
  BY <1>1, <1>2, <1>6 DEF Wake
<1>7. ASSUME NEW k \in Keys, Relaunch(k) PROVE Still
  <2>1. CASE k \in sessions
    BY <1>7, <2>1 DEF TypeOK, Relaunch, Goto
  <2>2. CASE k \notin sessions
    BY <1>1, <1>2, <1>7, <2>2 DEF Relaunch, Create
  <2>3. QED
    BY <2>1, <2>2
<1>8. ASSUME NEW k \in Keys, GiveUp(k) \/ OpenFailed(k) \/ Finish(k) PROVE Still
  BY <1>8 DEF TypeOK, GiveUp, OpenFailed, Finish, Goto
<1>9. ASSUME NEW k \in Keys, Opened(k) PROVE Still
  BY <1>9 DEF TypeOK, Opened, Goto
<1>10. ASSUME NEW k \in Keys, Prepare(k) PROVE Still
  BY <1>10 DEF TypeOK, Prepare, Goto
<1>11. ASSUME NEW k \in Keys, StopAccount(k) \/ BrowserDies(k) \/ CloseDone(k) \/ StopDone(k)
       PROVE  Still
  BY <1>11 DEF StopAccount, BrowserDies, CloseDone, StopDone
<1>12. CASE Reap \/ Shutdown \/ CloseAll \/ UNCHANGED vars
  <2>1. Still
    BY <1>12 DEF Reap, Shutdown, CloseAll, vars, gateVars
  <2>2. QED
    BY <1>0, <2>1
<1>13. CASE Exit
  <2>1. /\ \A k \in Keys : pc'[k] = "idle"
        /\ \A a \in Accounts : due'[a] = 0 /\ since'[a] = SubmitInterval
    BY <1>13 DEF Exit, Restarted
  <2>2. QED
    BY <2>1, SessionAssumption DEF Spaced, Gated, Respects
<1>14. QED
  BY <1>0, <1>3, <1>4, <1>5, <1>6, <1>7, <1>8, <1>9, <1>10, <1>11, <1>12, <1>13,
     ReserveSpaces, AskSpaces, TickSpaces DEF Next, JobStep

--------------------------------------------------------------------------------
(* The invariant and what follows from it.                                      *)

LEMMA PoolInit == ASSUME Init PROVE PoolInv
<1>1. TypeOK
  BY SessionAssumption DEF Init, TypeOK, JobPC
<1>2. OneBrowserPerKey /\ Replaced /\ Stops
  BY DEF Init, OneBrowserPerKey, Replaced, Stops
<1>3. NoBrowserOutOfReach
  <2>1. ASSUME NEW v \in Keys PROVE Evicting(v) = {}
    BY DEF Init, Evicting
  <2>2. QED
    BY <2>1, FS_EmptySet DEF Init, NoBrowserOutOfReach, Evicting, Count, Launching
<1>4. BrowsersWithinCap
  <2>1. sessions \cup Launching = {}
    BY DEF Init, Launching
  <2>2. QED
    BY <2>1, FS_EmptySet, SessionAssumption DEF BrowsersWithinCap
<1>5. Spaced
  BY SessionAssumption DEF Init, Spaced, Gated
<1>6. QED
  BY <1>1, <1>2, <1>3, <1>4, <1>5 DEF PoolInv, Reach, Places

LEMMA PoolStep == ASSUME PoolInv, [Next]_vars PROVE PoolInv' /\ Respects
<1>1. Reach /\ Places /\ TypeOK /\ BrowsersWithinCap /\ Spaced
  BY DEF PoolInv, Reach, Places
<1>2. Places' /\ NoBrowserOutOfReach' /\ Stops'
  BY <1>1, PlacesInvariant, ReachStep
<1>3. BrowsersWithinCap' /\ Spaced' /\ Respects
  BY <1>1, CapStep, GateStep
<1>4. QED
  BY <1>2, <1>3 DEF PoolInv, Reach

\* The inductive invariant, on which every theorem below rests.
THEOREM PoolInvariant == Spec => []PoolInv
<1>1. Init => PoolInv
  BY PoolInit
<1>2. PoolInv /\ [Next]_vars => PoolInv'
  BY PoolStep
<1>3. QED
  BY <1>1, <1>2, PTL DEF Spec

\* Every variable of the worker's maps, browsers and gate keeps its type.
THEOREM SessionsTypeCorrect == Spec => []TypeOK
<1>1. PoolInv => TypeOK
  BY DEF PoolInv, Reach, Places
<1>2. QED
  BY <1>1, PoolInvariant, PTL

\* However many jobs of however many accounts open, evict and relaunch at once, the machine
\* runs no more browsers than the maximum (ensureBrowserCapacity).
THEOREM CapHolds == Spec => []BrowsersWithinCap
<1>1. PoolInv => BrowsersWithinCap
  BY DEF PoolInv
<1>2. QED
  BY <1>1, PoolInvariant, PTL

\* Every browser process is known to a map, to a job or to a close, whatever fails.
THEOREM EveryBrowserIsReached == Spec => []NoBrowserOutOfReach
<1>1. PoolInv => NoBrowserOutOfReach
  BY DEF PoolInv, Reach
<1>2. QED
  BY <1>1, PoolInvariant, PTL

\* A session is never created next to another session of the same key (getSession).
THEOREM KeyHasOneBrowser == Spec => []OneBrowserPerKey
<1>1. PoolInv => OneBrowserPerKey
  BY DEF PoolInv, Reach, Places
<1>2. QED
  BY <1>1, PoolInvariant, PTL

\* Questions of one account are let through at least the submit interval apart, for any number
\* of slots that ask at once (waitForSubmitSlot).
THEOREM GateKeepsItsDistance == Spec => GateSpacing
<1>1. PoolInv /\ [Next]_vars =>
        [\A k \in Keys : pc[k] = "gate" /\ pc'[k] = "ask" => since[AccountOf[k]] = SubmitInterval]_vars
  BY PoolStep DEF Respects
<1>2. QED
  BY <1>1, PoolInvariant, PTL DEF Spec, GateSpacing
================================================================================

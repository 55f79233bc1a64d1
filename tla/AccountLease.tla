---------------------------- MODULE AccountLease ----------------------------
(***************************************************************************)
(* Who may drive an account's browser.  Before a job asks its prompt it     *)
(* takes a slot of the worker process's own semaphore for the account, a    *)
(* dedicated PostgreSQL connection, the advisory lock of (account, slot)    *)
(* and one of the provider's global slot locks; at the end it gives them    *)
(* back in the order of the code.  Worker processes share nothing but the   *)
(* locks.  One provider: keys of different providers never meet.            *)
(***************************************************************************)
EXTENDS Integers, FiniteSets, Sequences

CONSTANTS
    Workers,      \* worker processes
    Accounts,     \* the provider's accounts
    Jobs,         \* jobs, each of one account
    AccountOf,    \* the account of a job
    Slots,        \* browsers per account (slotsFor), also the provider's global slots
    PoolMax,      \* connections of a worker's PostgreSQL pool
    Nobody,
    MaxDeaths,    \* bound: worker processes and connections that die
    MaxFaults     \* bound: pool timeouts and failing queries

ASSUME LeaseAssumption ==
    /\ IsFiniteSet(Jobs)
    /\ AccountOf \in [Jobs -> Accounts]
    /\ Slots \in Nat \ {0} /\ PoolMax \in Nat \ {0}
    /\ Nobody \notin Jobs \cup Workers
    /\ MaxDeaths \in Nat /\ MaxFaults \in Nat

SlotRange == 0 .. Slots - 1

VARIABLES
    step,         \* where handleJob stands for each job
    worker,       \* the process that has the job
    slot,         \* the slot it was given
    candidate,    \* the global slot it tries or holds
    lost,         \* its connection has died and it does not know
    free,         \* per process and account: the semaphore's free slots
    waiting,      \* per process and account: jobs queued for a slot
    accountLock,  \* advisory locks of (account, slot)
    globalLock,   \* advisory locks of the global slots
    deaths, faults

lockVars == <<accountLock, globalLock>>
semVars  == <<free, waiting>>
vars == <<step, worker, slot, candidate, lost, semVars, lockVars, deaths, faults>>

\* A job in one of these has taken a connection from the pool.
Connected == {"account", "global", "run", "unlockSlot", "unlockAccount"}
InPool(w) == {j \in Jobs : worker[j] = w /\ step[j] \in Connected}

Init ==
    /\ step = [j \in Jobs |-> "queued"]
    /\ worker = [j \in Jobs |-> Nobody]
    /\ slot = [j \in Jobs |-> 0]
    /\ candidate = [j \in Jobs |-> 0]
    /\ lost = [j \in Jobs |-> FALSE]
    /\ free = [w \in Workers |-> [x \in Accounts |-> SlotRange]]
    /\ waiting = [w \in Workers |-> [x \in Accounts |-> <<>>]]
    /\ accountLock = [k \in Accounts \X SlotRange |-> Nobody]
    /\ globalLock = [n \in SlotRange |-> Nobody]
    /\ deaths = 0 /\ faults = 0

-----------------------------------------------------------------------------
(* The semaphore of one process and account *)

\* The account's BullMQ worker runs at most Slots jobs; a job first asks for a slot.
Claim(j, w) ==
    LET x == AccountOf[j]
    IN  /\ step[j] = "queued"
        /\ Cardinality({i \in Jobs : worker[i] = w /\ AccountOf[i] = x}) < Slots
        /\ worker' = [worker EXCEPT ![j] = w]
        /\ \/ \E s \in free[w][x] :
                 /\ \A t \in free[w][x] : s <= t
                 /\ slot' = [slot EXCEPT ![j] = s]
                 /\ free' = [free EXCEPT ![w][x] = @ \ {s}]
                 /\ step' = [step EXCEPT ![j] = "connect"]
                 /\ UNCHANGED waiting
           \/ /\ free[w][x] = {}
              /\ waiting' = [waiting EXCEPT ![w][x] = Append(@, j)]
              /\ step' = [step EXCEPT ![j] = "wait"]
              /\ UNCHANGED <<slot, free>>
        /\ UNCHANGED <<candidate, lost, lockVars, deaths, faults>>

\* A released slot is handed to the longest waiting job, or put back.  The step of
\* the releasing job becomes s in the same move.
ReleaseSlot(j, s) ==
    LET w == worker[j]
        x == AccountOf[j]
    IN  IF waiting[w][x] # <<>>
        THEN LET i == Head(waiting[w][x])
             IN  /\ slot' = [slot EXCEPT ![i] = slot[j]]
                 /\ waiting' = [waiting EXCEPT ![w][x] = Tail(@)]
                 /\ step' = [step EXCEPT ![i] = "connect", ![j] = s]
                 /\ UNCHANGED free
        ELSE /\ free' = [free EXCEPT ![w][x] = @ \cup {slot[j]}]
             /\ step' = [step EXCEPT ![j] = s]
             /\ UNCHANGED <<slot, waiting>>

\* The job returns to its queue and the process forgets it.
Leave(j) == worker' = [worker EXCEPT ![j] = Nobody]

-----------------------------------------------------------------------------
(* acquireAccountExecutionLease *)

Connect(j) ==
    /\ step[j] = "connect"
    /\ Cardinality(InPool(worker[j])) < PoolMax
    /\ step' = [step EXCEPT ![j] = "account"]
    /\ lost' = [lost EXCEPT ![j] = FALSE]
    /\ UNCHANGED <<worker, slot, candidate, semVars, lockVars, deaths, faults>>

\* A variant: the answer of pg_try_advisory_lock is not looked at.
TakeAccountLockAnyway(j) ==
    /\ step[j] = "account" /\ ~lost[j]
    /\ accountLock' = [accountLock EXCEPT ![<<AccountOf[j], slot[j]>>] = j]
    /\ candidate' = [candidate EXCEPT ![j] = 0]
    /\ step' = [step EXCEPT ![j] = "global"]
    /\ UNCHANGED <<worker, slot, lost, semVars, globalLock, deaths, faults>>

\* pg_try_advisory_lock never waits.  Without the account's lock the lease is null:
\* the slot goes back and the job is delayed.
TakeAccountLock(j) ==
    LET k == <<AccountOf[j], slot[j]>>
    IN  /\ step[j] = "account" /\ ~lost[j]
        /\ accountLock[k] = Nobody
        /\ accountLock' = [accountLock EXCEPT ![k] = j]
        /\ candidate' = [candidate EXCEPT ![j] = 0]
        /\ step' = [step EXCEPT ![j] = "global"]
        /\ UNCHANGED <<worker, slot, lost, semVars, globalLock, deaths, faults>>

\* A variant: the slot is kept when the lease is refused.
AccountIsLockedKeepsSlot(j) ==
    /\ step[j] = "account" /\ ~lost[j]
    /\ accountLock[<<AccountOf[j], slot[j]>>] # Nobody
    /\ step' = [step EXCEPT ![j] = "queued"]
    /\ Leave(j)
    /\ UNCHANGED <<slot, candidate, lost, semVars, lockVars, deaths, faults>>

AccountIsLocked(j) ==
    /\ step[j] = "account" /\ ~lost[j]
    /\ accountLock[<<AccountOf[j], slot[j]>>] # Nobody
    /\ ReleaseSlot(j, "queued")
    /\ Leave(j)
    /\ UNCHANGED <<candidate, lost, lockVars, deaths, faults>>

TakeGlobalLock(j) ==
    /\ step[j] = "global" /\ ~lost[j]
    /\ globalLock[candidate[j]] = Nobody
    /\ globalLock' = [globalLock EXCEPT ![candidate[j]] = j]
    /\ step' = [step EXCEPT ![j] = "run"]
    /\ UNCHANGED <<worker, slot, candidate, lost, semVars, accountLock, deaths, faults>>

NextGlobalSlot(j) ==
    /\ step[j] = "global" /\ ~lost[j]
    /\ globalLock[candidate[j]] # Nobody
    /\ candidate[j] + 1 < Slots
    /\ candidate' = [candidate EXCEPT ![j] = @ + 1]
    /\ UNCHANGED <<step, worker, slot, lost, semVars, lockVars, deaths, faults>>

\* A variant: without a global slot the account's lock is kept.
NoGlobalSlotKeepsLock(j) ==
    /\ step[j] = "global" /\ ~lost[j]
    /\ globalLock[candidate[j]] # Nobody
    /\ candidate[j] + 1 = Slots
    /\ ReleaseSlot(j, "queued")
    /\ Leave(j)
    /\ UNCHANGED <<candidate, lost, lockVars, deaths, faults>>

\* No global slot: the account's lock and the semaphore's slot go back.
NoGlobalSlot(j) ==
    LET k == <<AccountOf[j], slot[j]>>
    IN  /\ step[j] = "global" /\ ~lost[j]
        /\ globalLock[candidate[j]] # Nobody
        /\ candidate[j] + 1 = Slots
        /\ accountLock' = [accountLock EXCEPT ![k] = Nobody]
        /\ ReleaseSlot(j, "queued")
        /\ Leave(j)
        /\ UNCHANGED <<candidate, lost, globalLock, deaths, faults>>

\* What the locks become when the session of the jobs in S ends.
SessionsEnd(S) ==
    /\ accountLock' = [k \in Accounts \X SlotRange |->
          IF accountLock[k] \in S THEN Nobody ELSE accountLock[k]]
    /\ globalLock' = [n \in SlotRange |->
          IF globalLock[n] \in S THEN Nobody ELSE globalLock[n]]

\* The pool gives no connection in time, or a lock query fails.  The exception leaves
\* handleJob before its try block: the connection goes back, the slot does not.
AcquireThrows(j) ==
    /\ step[j] \in {"connect", "account", "global"}
    /\ \/ /\ faults < MaxFaults
          /\ faults' = faults + 1
       \/ /\ lost[j] /\ step[j] # "connect"
          /\ UNCHANGED faults
    /\ SessionsEnd({j})
    /\ step' = [step EXCEPT ![j] = "queued"]
    /\ Leave(j)
    /\ UNCHANGED <<slot, candidate, lost, semVars, deaths>>

-----------------------------------------------------------------------------
(* The end of handleJob, and of its connection or process *)

\* The finally block gives the slot back first, then the global and the account lock.
Finish(j) ==
    /\ step[j] = "run"
    /\ ReleaseSlot(j, "unlockSlot")
    /\ UNCHANGED <<worker, candidate, lost, lockVars, deaths, faults>>

UnlockSlot(j) ==
    /\ step[j] = "unlockSlot"
    /\ globalLock' = IF lost[j] THEN globalLock
                     ELSE [globalLock EXCEPT ![candidate[j]] = Nobody]
    /\ step' = [step EXCEPT ![j] = "unlockAccount"]
    /\ UNCHANGED <<worker, slot, candidate, lost, semVars, accountLock, deaths, faults>>

UnlockAccount(j) ==
    LET k == <<AccountOf[j], slot[j]>>
    IN  /\ step[j] = "unlockAccount"
        /\ accountLock' = IF lost[j] THEN accountLock
                          ELSE [accountLock EXCEPT ![k] = Nobody]
        /\ step' = [step EXCEPT ![j] = "queued"]
        /\ Leave(j)
        /\ UNCHANGED <<slot, candidate, lost, semVars, globalLock, deaths, faults>>

\* PostgreSQL ends the session of a connection; the job goes on and does not know.
ConnectionDies(j) ==
    /\ deaths < MaxDeaths
    /\ step[j] \in Connected /\ ~lost[j]
    /\ deaths' = deaths + 1
    /\ lost' = [lost EXCEPT ![j] = TRUE]
    /\ SessionsEnd({j})
    /\ UNCHANGED <<step, worker, slot, candidate, semVars, faults>>

\* A process dies with everything it holds; its jobs stall and are handed out again.
WorkerDies(w) ==
    LET mine == {j \in Jobs : worker[j] = w}
    IN  /\ deaths < MaxDeaths
        /\ mine # {}
        /\ deaths' = deaths + 1
        /\ SessionsEnd(mine)
        /\ step' = [j \in Jobs |-> IF j \in mine THEN "queued" ELSE step[j]]
        /\ worker' = [j \in Jobs |-> IF j \in mine THEN Nobody ELSE worker[j]]
        /\ free' = [free EXCEPT ![w] = [x \in Accounts |-> SlotRange]]
        /\ waiting' = [waiting EXCEPT ![w] = [x \in Accounts |-> <<>>]]
        /\ UNCHANGED <<slot, candidate, lost, faults>>

Acquire(j) == \/ Connect(j) \/ TakeAccountLock(j) \/ AccountIsLocked(j)
              \/ TakeGlobalLock(j) \/ NextGlobalSlot(j) \/ NoGlobalSlot(j) \/ AcquireThrows(j)
Release(j) == Finish(j) \/ UnlockSlot(j) \/ UnlockAccount(j)

Next == \/ \E j \in Jobs : Acquire(j) \/ Release(j) \/ ConnectionDies(j)
        \/ \E j \in Jobs, w \in Workers : Claim(j, w)
        \/ \E w \in Workers : WorkerDies(w)

Spec == Init /\ [][Next]_vars

-----------------------------------------------------------------------------
(* Properties *)

Steps == {"queued", "wait", "connect"} \cup Connected

\* Every variable has its type.
TypeOK ==
    /\ step \in [Jobs -> Steps]
    /\ worker \in [Jobs -> Workers \cup {Nobody}]
    /\ slot \in [Jobs -> SlotRange]
    /\ candidate \in [Jobs -> SlotRange]
    /\ lost \in [Jobs -> BOOLEAN]
    /\ free \in [Workers -> [Accounts -> SUBSET SlotRange]]
    /\ waiting \in [Workers -> [Accounts -> Seq(Jobs)]]
    /\ accountLock \in [Accounts \X SlotRange -> Jobs \cup {Nobody}]
    /\ globalLock \in [SlotRange -> Jobs \cup {Nobody}]
    /\ deaths \in 0..MaxDeaths /\ faults \in 0..MaxFaults

\* Jobs that drive a browser under a lease PostgreSQL still vouches for.
Leased == {j \in Jobs : step[j] = "run" /\ ~lost[j]}

\* One slot of an account is driven by one job, across all worker processes: with one
\* slot per account, the account's login is never used twice at a time.
OneJobPerSlot ==
    \A i, j \in Leased : i # j => <<AccountOf[i], slot[i]>> # <<AccountOf[j], slot[j]>>

\* The provider's jobs never exceed its global slots, whatever the number of processes.
ProviderCeiling == Cardinality(Leased) <= Slots

\* Within a process two jobs are never given the same slot, hence never the same page;
\* this needs no lock and holds even for jobs whose connection died.
OneJobPerPage ==
    \A i, j \in Jobs :
        /\ i # j /\ worker[i] = worker[j] /\ AccountOf[i] = AccountOf[j]
        /\ step[i] \in {"connect", "account", "global", "run"}
        /\ step[j] \in {"connect", "account", "global", "run"}
        => slot[i] # slot[j]

\* What a lease promises: the page, the account's slot and a share of the provider's
\* ceiling are its job's alone, across processes that share only PostgreSQL.
LeasesKept == OneJobPerSlot /\ OneJobPerPage /\ ProviderCeiling

\* No lock outlives its job: whoever holds one is still on the way to giving it back.
NoStrandedLock ==
    /\ \A k \in Accounts \X SlotRange : accountLock[k] # Nobody =>
          LET j == accountLock[k]
          IN  /\ step[j] \in {"global", "run", "unlockSlot", "unlockAccount"}
              /\ ~lost[j]
    /\ \A n \in SlotRange : globalLock[n] # Nobody =>
          step[globalLock[n]] \in {"run", "unlockSlot"} /\ ~lost[globalLock[n]]

\* The slots of a semaphore that jobs of its process have in their hands.
InHand(w, x) ==
    {slot[j] : j \in {i \in Jobs : worker[i] = w /\ AccountOf[i] = x
                        /\ step[i] \in {"connect", "account", "global", "run"}}}

\* The slots that no semaphore will give out again while its process lives.
Leaked == {k \in Workers \X Accounts \X SlotRange :
              k[3] \notin free[k[1]][k[2]] \cup InHand(k[1], k[2])}

\* A semaphore loses a slot only to an exception of acquireAccountExecutionLease, one for
\* each, however the leases are refused, handed on and returned: worker.js:878 calls the
\* leak that ends with a concurrency of 0 the thing to avoid.
LeaksAccounted == Cardinality(Leaked) <= faults + deaths
=============================================================================

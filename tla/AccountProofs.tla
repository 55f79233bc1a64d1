---------------------------- MODULE AccountProofs ----------------------------
(***************************************************************************)
(* Proofs about the accounts, for every number of processes, handlers,      *)
(* accounts, jobs and slots.  AccountLease: typing, mutual exclusion on     *)
(* (account, slot), the provider's ceiling, the advisory locks, and how     *)
(* many slots can be lost.  AccountSafety: typing, how far the limits of    *)
(* the safety policy can be overrun, and that a block stops the questions.  *)
(***************************************************************************)
EXTENDS AccountLease, AccountSafety, FunctionTheorems, FiniteSetTheorems, TLAPS

-----------------------------------------------------------------------------
(* The leases: the invariant *)

\* Jobs queued for a slot are in step "wait", each once, in the queue of their own
\* process and account; a job that is not queued belongs to a process.
Waiters ==
    /\ \A j \in Jobs : step[j] = "queued" \/ worker[j] \in Workers
    /\ \A w \in Workers, x \in Accounts : \A n \in 1..Len(waiting[w][x]) :
          /\ step[waiting[w][x][n]] = "wait"
          /\ worker[waiting[w][x][n]] = w
          /\ AccountOf[waiting[w][x][n]] = x
    /\ \A w \in Workers, x \in Accounts : \A m, n \in 1..Len(waiting[w][x]) :
          m # n => waiting[w][x][m] # waiting[w][x][n]

\* A lock is held by a job exactly while the job is at the steps that need it and its
\* connection lives.
AccountSteps == {"global", "run", "unlockSlot", "unlockAccount"}
GlobalSteps  == {"run", "unlockSlot"}
Key(j) == <<AccountOf[j], slot[j]>>
Keys   == Accounts \X SlotRange

HoldsItsLocks(j) ==
    /\ step[j] \in AccountSteps /\ ~lost[j] => accountLock[Key(j)] = j
    /\ step[j] \in GlobalSteps /\ ~lost[j] => globalLock[candidate[j]] = j
    /\ \A k \in Keys : accountLock[k] = j => step[j] \in AccountSteps /\ ~lost[j] /\ k = Key(j)
    /\ \A n \in SlotRange : globalLock[n] = j
          => step[j] \in GlobalSteps /\ ~lost[j] /\ n = candidate[j]

LocksMatch == \A j \in Jobs : HoldsItsLocks(j)

\* A slot in a job's hands is not free, and in no other job's hands.
Holding == {"connect", "account", "global", "run"}

Semaphore ==
    /\ \A j \in Jobs : step[j] \in Holding => slot[j] \notin free[worker[j]][AccountOf[j]]
    /\ OneJobPerPage

LeaseInv == TypeOK /\ Waiters /\ LocksMatch /\ Semaphore

\* The account's lock of a job is one of the locks.
LEMMA KeyType ==
    ASSUME TypeOK, NEW j \in Jobs
    PROVE  <<AccountOf[j], slot[j]>> \in Accounts \X SlotRange
BY LeaseAssumption DEF TypeOK

\* Giving a slot back moves the job on and at most wakes one waiting job.
LEMMA ReleaseEffect ==
    ASSUME TypeOK, Waiters, NEW j \in Jobs, NEW s \in Steps,
           step[j] \notin {"queued", "wait"}, ReleaseSlot(j, s)
    PROVE  /\ step' \in [Jobs -> Steps] /\ slot' \in [Jobs -> SlotRange]
           /\ free' \in [Workers -> [Accounts -> SUBSET SlotRange]]
           /\ waiting' \in [Workers -> [Accounts -> Seq(Jobs)]]
           /\ step'[j] = s /\ slot'[j] = slot[j]
           /\ \A i \in Jobs \ {j} :
                 \/ step'[i] = step[i] /\ slot'[i] = slot[i]
                 \/ step[i] = "wait" /\ step'[i] = "connect"
<1> DEFINE w == worker[j]
           x == AccountOf[j]
           q == waiting[w][x]
<1> USE DEF TypeOK
<1>1. w \in Workers /\ x \in Accounts /\ q \in Seq(Jobs)
  BY LeaseAssumption DEF Waiters
<1>2. CASE q # <<>>
  <2>1. Head(q) \in Jobs /\ Tail(q) \in Seq(Jobs) /\ Head(q) = q[1] /\ 1 \in 1..Len(q)
    BY <1>1, <1>2
  <2>2. step[Head(q)] = "wait" /\ Head(q) # j
    BY <1>1, <2>1 DEF Waiters
  <2>3. /\ slot' = [slot EXCEPT ![Head(q)] = slot[j]]
        /\ waiting' = [waiting EXCEPT ![w][x] = Tail(@)]
        /\ step' = [step EXCEPT ![Head(q)] = "connect", ![j] = s]
        /\ free' = free
    BY <1>2 DEF ReleaseSlot
  <2>4. waiting' \in [Workers -> [Accounts -> Seq(Jobs)]]
    BY <1>1, <2>1, <2>3
  <2>5. step' \in [Jobs -> Steps] /\ slot' \in [Jobs -> SlotRange]
    BY <2>1, <2>3 DEF Steps
  <2>6. QED
    BY <2>1, <2>2, <2>3, <2>4, <2>5
<1>3. CASE q = <<>>
  <2>1. /\ free' = [free EXCEPT ![w][x] = @ \cup {slot[j]}]
        /\ step' = [step EXCEPT ![j] = s]
        /\ slot' = slot /\ waiting' = waiting
    BY <1>3 DEF ReleaseSlot
  <2>2. free' \in [Workers -> [Accounts -> SUBSET SlotRange]]
    BY <1>1, <2>1
  <2>3. QED
    BY <2>1, <2>2
<1>4. QED
  BY <1>2, <1>3

\* It keeps the queues in order, whether or not the job leaves its process.
LEMMA ReleaseKeepsWaiters ==
    ASSUME TypeOK, Waiters, NEW j \in Jobs, NEW s \in Steps \ {"wait"},
           step[j] \notin {"queued", "wait"}, ReleaseSlot(j, s),
           \/ worker' = worker
           \/ s = "queued" /\ worker' = [worker EXCEPT ![j] = Nobody]
    PROVE  Waiters'
<1> USE DEF TypeOK
<1>1. \A i \in Jobs \ {j} : worker'[i] = worker[i]
  OBVIOUS
<1>2. ASSUME NEW i \in Jobs PROVE step'[i] = "queued" \/ worker'[i] \in Workers
  <2>1. step'[j] = s /\ worker[j] \in Workers
    BY ReleaseEffect DEF Waiters
  <2>2. CASE i = j
    BY <2>1, <2>2
  <2>3. CASE i # j
    <3>1. step[i] = "queued" => step'[i] = "queued"
      BY <2>3, ReleaseEffect
    <3>2. step[i] = "queued" \/ worker[i] \in Workers
      BY DEF Waiters
    <3>3. QED
      BY <1>1, <2>3, <3>1, <3>2
  <2>4. QED
    BY <2>2, <2>3
<1> DEFINE w == worker[j]
           x == AccountOf[j]
           q == waiting[w][x]
<1>3. w \in Workers /\ x \in Accounts /\ q \in Seq(Jobs)
  BY LeaseAssumption DEF Waiters
<1>4. ASSUME NEW v \in Workers, NEW y \in Accounts, waiting'[v][y] = waiting[v][y],
             q = <<>> \/ <<v, y>> # <<w, x>>, NEW n \in 1..Len(waiting[v][y])
      PROVE  /\ step'[waiting[v][y][n]] = "wait"
             /\ worker'[waiting[v][y][n]] = v
  <2> DEFINE i == waiting[v][y][n]
  <2>0. waiting[v][y] \in Seq(Jobs)
    OBVIOUS
  <2>1. i \in Jobs /\ step[i] = "wait" /\ worker[i] = v /\ AccountOf[i] = y /\ i # j
    BY <2>0 DEF Waiters
  <2>2. q # <<>> => Head(q) # i
    <3>1. ASSUME q # <<>> PROVE 1 \in 1..Len(q) /\ Head(q) = q[1]
      BY <1>3, <3>1
    <3>2. ASSUME q # <<>> PROVE worker[q[1]] = w /\ AccountOf[q[1]] = x
      BY <1>3, <3>1, <3>2 DEF Waiters
    <3>3. q # <<>> => v # w \/ y # x
      BY <1>4
    <3>4. QED
      BY <2>1, <3>1, <3>2, <3>3
  <2>3. step'[i] = step[i]
    BY <2>1, <2>2 DEF ReleaseSlot
  <2>4. QED
    BY <1>1, <2>1, <2>3
<1>5. CASE q = <<>>
  <2>1. waiting' = waiting
    BY <1>5 DEF ReleaseSlot
  <2>2. ASSUME NEW v \in Workers, NEW y \in Accounts, NEW n \in 1..Len(waiting'[v][y])
        PROVE  /\ step'[waiting'[v][y][n]] = "wait"
               /\ worker'[waiting'[v][y][n]] = v
               /\ AccountOf[waiting'[v][y][n]] = y
    <3>1. n \in 1..Len(waiting[v][y])
      BY <2>1
    <3>2. QED
      BY <1>4, <1>5, <2>1, <3>1 DEF Waiters
  <2>3. ASSUME NEW v \in Workers, NEW y \in Accounts, NEW m \in 1..Len(waiting'[v][y]),
               NEW n \in 1..Len(waiting'[v][y]), m # n
        PROVE  waiting'[v][y][m] # waiting'[v][y][n]
    BY <2>1, <2>3 DEF Waiters
  <2>4. QED
    BY <1>2, <2>2, <2>3 DEF Waiters
<1>6. CASE q # <<>>
  <2>1. waiting' = [waiting EXCEPT ![w][x] = Tail(q)]
    BY <1>6 DEF ReleaseSlot
  <2>2. \A v \in Workers, y \in Accounts :
           waiting'[v][y] = IF <<v, y>> = <<w, x>> THEN Tail(q) ELSE waiting[v][y]
    BY <1>3, <2>1
  <2>3. /\ Len(Tail(q)) = Len(q) - 1 /\ Len(q) \in Nat
        /\ \A n \in 1..Len(Tail(q)) : Tail(q)[n] = q[n + 1] /\ n + 1 \in 1..Len(q)
        /\ 1 \in 1..Len(q) /\ Head(q) = q[1]
    BY <1>3, <1>6
  <2>4. ASSUME NEW n \in 1..Len(Tail(q))
        PROVE  step'[Tail(q)[n]] = "wait" /\ worker'[Tail(q)[n]] = w
               /\ AccountOf[Tail(q)[n]] = x
    <3> DEFINE i == q[n + 1]
    <3>1. n + 1 # 1 /\ n + 1 \in 1..Len(q) /\ Tail(q)[n] = i
      BY <2>3
    <3>2. i \in Jobs /\ step[i] = "wait" /\ worker[i] = w /\ AccountOf[i] = x /\ i # j
          /\ i # Head(q)
      BY <1>3, <2>3, <3>1 DEF Waiters
    <3>3. step'[i] = step[i]
      BY <1>6, <3>2 DEF ReleaseSlot
    <3>4. QED
      BY <1>1, <3>1, <3>2, <3>3
  <2>5. ASSUME NEW m \in 1..Len(Tail(q)), NEW n \in 1..Len(Tail(q)), m # n
        PROVE  Tail(q)[m] # Tail(q)[n]
    BY <1>3, <2>3, <2>5 DEF Waiters
  <2>6. ASSUME NEW v \in Workers, NEW y \in Accounts
        PROVE  /\ \A n \in 1..Len(waiting'[v][y]) :
                     /\ step'[waiting'[v][y][n]] = "wait"
                     /\ worker'[waiting'[v][y][n]] = v
                     /\ AccountOf[waiting'[v][y][n]] = y
               /\ \A m, n \in 1..Len(waiting'[v][y]) :
                     m # n => waiting'[v][y][m] # waiting'[v][y][n]
    <3>1. CASE <<v, y>> = <<w, x>>
      <4>1. v = w /\ y = x /\ waiting'[v][y] = Tail(q)
        BY <2>2, <3>1
      <4>2. QED
        <5> HIDE DEF TypeOK, w, x, q
        <5>1. QED
          BY <2>4, <2>5, <4>1
    <3>2. CASE <<v, y>> # <<w, x>>
      <4>1. waiting'[v][y] = waiting[v][y]
        BY <2>2, <3>2
      <4>2. \A n \in 1..Len(waiting[v][y]) :
               /\ step'[waiting[v][y][n]] = "wait"
               /\ worker'[waiting[v][y][n]] = v
        <5> HIDE DEF TypeOK, w, x, q
        <5>1. QED
          BY <1>4, <3>2, <4>1
      <4>3. /\ \A n \in 1..Len(waiting[v][y]) : AccountOf[waiting[v][y][n]] = y
            /\ \A m, n \in 1..Len(waiting[v][y]) :
                  m # n => waiting[v][y][m] # waiting[v][y][n]
        <5> HIDE DEF TypeOK, w, x, q
        <5>1. QED
          BY DEF Waiters
      <4>4. QED
        <5> HIDE DEF TypeOK, w, x, q
        <5>1. QED
          BY <4>1, <4>2, <4>3
    <3>3. QED
      BY <3>1, <3>2
  <2>7. QED
    BY <1>2, <2>6 DEF Waiters
<1>7. QED
  BY <1>5, <1>6

\* So does any other step of a job that is neither queued nor waiting for a slot.
LEMMA StepKeepsWaiters ==
    ASSUME TypeOK, Waiters, NEW j \in Jobs, NEW s \in Steps \ {"wait"},
           step[j] \notin {"queued", "wait"}, waiting' = waiting,
           step' = [step EXCEPT ![j] = s],
           \/ worker' = worker
           \/ s = "queued" /\ worker' = [worker EXCEPT ![j] = Nobody]
    PROVE  Waiters'
<1> USE DEF TypeOK
<1>1. ASSUME NEW i \in Jobs PROVE step'[i] = "queued" \/ worker'[i] \in Workers
  <2>1. step[i] = "queued" \/ worker[i] \in Workers
    BY DEF Waiters
  <2>2. QED
    BY <2>1
<1>2. ASSUME NEW v \in Workers, NEW y \in Accounts, NEW n \in 1..Len(waiting[v][y])
      PROVE  /\ step'[waiting[v][y][n]] = "wait"
             /\ worker'[waiting[v][y][n]] = v
             /\ AccountOf[waiting[v][y][n]] = y
  <2>1. waiting[v][y] \in Seq(Jobs)
    OBVIOUS
  <2>2. waiting[v][y][n] \in Jobs \ {j}
    BY <2>1 DEF Waiters
  <2>3. QED
    BY <2>2 DEF Waiters
<1>3. ASSUME NEW v \in Workers, NEW y \in Accounts, NEW m \in 1..Len(waiting[v][y]),
             NEW n \in 1..Len(waiting[v][y]), m # n
      PROVE  waiting[v][y][m] # waiting[v][y][n]
  BY <1>3 DEF Waiters
<1>4. ASSUME NEW v \in Workers, NEW y \in Accounts
      PROVE  /\ \A n \in 1..Len(waiting'[v][y]) :
                   /\ step'[waiting'[v][y][n]] = "wait"
                   /\ worker'[waiting'[v][y][n]] = v
                   /\ AccountOf[waiting'[v][y][n]] = y
             /\ \A m, n \in 1..Len(waiting'[v][y]) :
                   m # n => waiting'[v][y][m] # waiting'[v][y][n]
  <2>1. waiting'[v][y] = waiting[v][y]
    OBVIOUS
  <2>2. QED
    BY <1>2, <1>3, <2>1
<1>5. QED
  <2> HIDE DEF TypeOK
  <2>1. QED
    BY <1>1, <1>4 DEF Waiters

\* A claimed job gets a slot or queues behind the others, and is not there already.
LEMMA ClaimKeepsWaiters ==
    ASSUME TypeOK, Waiters, NEW j \in Jobs, NEW w \in Workers, Claim(j, w)
    PROVE  Waiters'
<1> USE DEF TypeOK
<1> DEFINE x == AccountOf[j]
<1>1. /\ x \in Accounts /\ step[j] = "queued" /\ worker' = [worker EXCEPT ![j] = w]
      /\ \A i \in Jobs \ {j} : step'[i] = step[i] /\ worker'[i] = worker[i]
      /\ worker'[j] = w
  BY LeaseAssumption DEF Claim
<1>2. ASSUME NEW i \in Jobs PROVE step'[i] = "queued" \/ worker'[i] \in Workers
  BY <1>1 DEF Waiters
<1>3. ASSUME NEW v \in Workers, NEW y \in Accounts, NEW n \in 1..Len(waiting[v][y])
      PROVE  /\ waiting[v][y][n] \in Jobs \ {j}
             /\ step'[waiting[v][y][n]] = "wait"
             /\ worker'[waiting[v][y][n]] = v
             /\ AccountOf[waiting[v][y][n]] = y
  <2>1. waiting[v][y] \in Seq(Jobs)
    OBVIOUS
  <2>2. waiting[v][y][n] \in Jobs \ {j}
    BY <1>1, <2>1 DEF Waiters
  <2>3. QED
    BY <1>1, <2>2 DEF Waiters
<1>4. CASE waiting' = waiting
  <2>1. ASSUME NEW v \in Workers, NEW y \in Accounts, NEW n \in 1..Len(waiting'[v][y])
        PROVE  /\ step'[waiting'[v][y][n]] = "wait"
               /\ worker'[waiting'[v][y][n]] = v
               /\ AccountOf[waiting'[v][y][n]] = y
    <3>1. n \in 1..Len(waiting[v][y])
      BY <1>4
    <3>2. QED
      BY <1>3, <1>4, <3>1
  <2>2. ASSUME NEW v \in Workers, NEW y \in Accounts, NEW m \in 1..Len(waiting'[v][y]),
               NEW n \in 1..Len(waiting'[v][y]), m # n
        PROVE  waiting'[v][y][m] # waiting'[v][y][n]
    BY <1>4, <2>2 DEF Waiters
  <2>3. QED
    BY <1>2, <2>1, <2>2 DEF Waiters
<1>5. CASE waiting' = [waiting EXCEPT ![w][x] = Append(waiting[w][x], j)]
           /\ step' = [step EXCEPT ![j] = "wait"]
  <2> DEFINE q == waiting[w][x]
  <2>1. q \in Seq(Jobs) /\ Len(q) \in Nat /\ Len(Append(q, j)) = Len(q) + 1
        /\ Append(q, j)[Len(q) + 1] = j
        /\ \A n \in 1..Len(q) : Append(q, j)[n] = q[n]
    BY <1>1
  <2>2. \A v \in Workers, y \in Accounts :
           waiting'[v][y] = IF v = w /\ y = x THEN Append(q, j) ELSE waiting[v][y]
    BY <1>1, <1>5
  <2>3. step'[j] = "wait"
    BY <1>5
  <2>4. ASSUME NEW v \in Workers, NEW y \in Accounts, NEW n \in 1..Len(waiting'[v][y])
        PROVE  /\ step'[waiting'[v][y][n]] = "wait"
               /\ worker'[waiting'[v][y][n]] = v
               /\ AccountOf[waiting'[v][y][n]] = y
    <3>1. CASE v = w /\ y = x
      <4>0. waiting'[v][y] = Append(q, j)
        BY <2>2, <3>1
      <4>1. n \in 1..Len(q) \/ n = Len(q) + 1
        BY <2>1, <2>4, <4>0
      <4>2. CASE n \in 1..Len(q)
        BY <1>3, <2>1, <3>1, <4>0, <4>2
      <4>3. CASE n = Len(q) + 1
        BY <1>1, <2>1, <2>3, <3>1, <4>0, <4>3
      <4>4. QED
        BY <4>1, <4>2, <4>3
    <3>2. CASE ~(v = w /\ y = x)
      BY <1>3, <2>2, <3>2
    <3>3. QED
      BY <3>1, <3>2
  <2>5. ASSUME NEW v \in Workers, NEW y \in Accounts, NEW m \in 1..Len(waiting'[v][y]),
               NEW n \in 1..Len(waiting'[v][y]), m # n
        PROVE  waiting'[v][y][m] # waiting'[v][y][n]
    <3>1. CASE v = w /\ y = x
      <4>0. waiting'[v][y] = Append(q, j)
        BY <2>2, <3>1
      <4>1. /\ n \in 1..Len(q) \/ n = Len(q) + 1
            /\ m \in 1..Len(q) \/ m = Len(q) + 1
        <5> HIDE DEF TypeOK, q
        <5>1. Len(waiting'[v][y]) = Len(q) + 1
          BY <2>1, <4>0
        <5>2. n \in 1..(Len(q) + 1) /\ m \in 1..(Len(q) + 1)
          BY <5>1
        <5>3. QED
          BY <2>1, <5>2
      <4>2. \A k \in 1..Len(q) : q[k] # j
        BY <1>1, <1>3
      <4>3. m \in 1..Len(q) /\ n \in 1..Len(q) => q[m] # q[n]
        BY <1>1, <2>5 DEF Waiters
      <4>4. QED
        BY <2>1, <2>5, <4>0, <4>1, <4>2, <4>3
    <3>2. CASE ~(v = w /\ y = x)
      BY <2>2, <2>5, <3>2 DEF Waiters
    <3>3. QED
      BY <3>1, <3>2
  <2>6. QED
    BY <1>2, <2>4, <2>5 DEF Waiters
<1>6. QED
  BY <1>4, <1>5 DEF Claim

\* A process that dies empties its own queues; nobody else waits in them.
LEMMA DeathKeepsWaiters ==
    ASSUME TypeOK, Waiters, NEW w \in Workers, WorkerDies(w)
    PROVE  Waiters'
<1> USE DEF TypeOK
<1>1. \A i \in Jobs : /\ step'[i] = IF worker[i] = w THEN "queued" ELSE step[i]
                      /\ worker'[i] = IF worker[i] = w THEN Nobody ELSE worker[i]
  BY DEF WorkerDies
<1>2. \A v \in Workers, y \in Accounts :
         waiting'[v][y] = IF v = w THEN <<>> ELSE waiting[v][y]
  BY DEF WorkerDies
<1>3. ASSUME NEW i \in Jobs PROVE step'[i] = "queued" \/ worker'[i] \in Workers
  BY <1>1 DEF Waiters
<1>4. ASSUME NEW v \in Workers, NEW y \in Accounts, NEW n \in 1..Len(waiting'[v][y])
      PROVE  v # w /\ waiting'[v][y] = waiting[v][y] /\ n \in 1..Len(waiting[v][y])
  <2>1. v # w
    <3>1. SUFFICES ASSUME v = w PROVE FALSE
      OBVIOUS
    <3>2. waiting'[v][y] = <<>>
      BY <1>2, <3>1
    <3>3. QED
      BY <1>4, <3>2
  <2>2. QED
    BY <1>2, <1>4, <2>1
<1>5. ASSUME NEW v \in Workers, NEW y \in Accounts, NEW n \in 1..Len(waiting'[v][y])
      PROVE  /\ step'[waiting'[v][y][n]] = "wait"
             /\ worker'[waiting'[v][y][n]] = v
             /\ AccountOf[waiting'[v][y][n]] = y
  <2>1. waiting[v][y] \in Seq(Jobs)
    OBVIOUS
  <2>2. waiting[v][y][n] \in Jobs /\ worker[waiting[v][y][n]] = v
    BY <1>4, <2>1 DEF Waiters
  <2>3. QED
    BY <1>1, <1>4, <2>2 DEF Waiters
<1>6. ASSUME NEW v \in Workers, NEW y \in Accounts, NEW m \in 1..Len(waiting'[v][y]),
             NEW n \in 1..Len(waiting'[v][y]), m # n
      PROVE  waiting'[v][y][m] # waiting'[v][y][n]
  BY <1>4, <1>6 DEF Waiters
<1>7. QED
  BY <1>3, <1>5, <1>6 DEF Waiters

LEMMA WaitersStep ==
    ASSUME TypeOK, Waiters, [Next]_vars
    PROVE  Waiters'
<1>1. CASE UNCHANGED vars
  BY <1>1 DEF Waiters, vars, semVars, lockVars
<1>2. ASSUME NEW j \in Jobs, Acquire(j) PROVE Waiters'
  <2>1. CASE Connect(j)
    BY <2>1, StepKeepsWaiters DEF Connect, Steps, Connected, semVars
  <2>2. CASE TakeAccountLock(j)
    BY <2>2, StepKeepsWaiters DEF TakeAccountLock, Steps, Connected, semVars
  <2>3. CASE AccountIsLocked(j)
    BY <2>3, ReleaseKeepsWaiters DEF AccountIsLocked, Leave, Steps
  <2>4. CASE TakeGlobalLock(j)
    BY <2>4, StepKeepsWaiters DEF TakeGlobalLock, Steps, Connected, semVars
  <2>5. CASE NextGlobalSlot(j)
    BY <2>5 DEF NextGlobalSlot, Waiters, semVars
  <2>6. CASE NoGlobalSlot(j)
    BY <2>6, ReleaseKeepsWaiters DEF NoGlobalSlot, Leave, Steps
  <2>7. CASE AcquireThrows(j)
    BY <2>7, StepKeepsWaiters DEF AcquireThrows, Leave, Steps, semVars
  <2>8. QED
    BY <1>2, <2>1, <2>2, <2>3, <2>4, <2>5, <2>6, <2>7 DEF Acquire
<1>3. ASSUME NEW j \in Jobs, Release(j) PROVE Waiters'
  <2>1. CASE Finish(j)
    BY <2>1, ReleaseKeepsWaiters DEF Finish, Steps, Connected
  <2>2. CASE UnlockSlot(j)
    BY <2>2, StepKeepsWaiters DEF UnlockSlot, Steps, Connected, semVars
  <2>3. CASE UnlockAccount(j)
    BY <2>3, StepKeepsWaiters DEF UnlockAccount, Leave, Steps, semVars
  <2>4. QED
    BY <1>3, <2>1, <2>2, <2>3 DEF Release
<1>4. ASSUME NEW j \in Jobs, ConnectionDies(j) PROVE Waiters'
  BY <1>4 DEF ConnectionDies, Waiters, semVars
<1>5. QED
  BY <1>1, <1>2, <1>3, <1>4, ClaimKeepsWaiters, DeathKeepsWaiters DEF Next

-----------------------------------------------------------------------------
(* The leases: typing *)

LEMMA TypeStep ==
    ASSUME TypeOK, Waiters, [Next]_vars
    PROVE  TypeOK'
<1> USE LeaseAssumption
<1>0. \A j \in Jobs : AccountOf[j] \in Accounts /\ Key(j) \in Keys
  BY KeyType DEF Key, Keys
<1>1. CASE UNCHANGED vars
  BY <1>1 DEF TypeOK, vars, semVars, lockVars
<1>2. ASSUME NEW j \in Jobs, Acquire(j) PROVE TypeOK'
  <2>1. CASE Connect(j)
    BY <2>1 DEF Connect, TypeOK, Steps, Connected, semVars, lockVars
  <2>2. CASE TakeAccountLock(j)
    <3>1. 0 \in SlotRange
      BY DEF SlotRange
    <3>2. accountLock' \in [Accounts \X SlotRange -> Jobs \cup {Nobody}]
      BY <2>2 DEF TakeAccountLock, TypeOK
    <3>3. QED
      BY <2>2, <3>1, <3>2 DEF TakeAccountLock, TypeOK, Steps, Connected, semVars
  <2>3. CASE AccountIsLocked(j)
    <3>1. step[j] \notin {"queued", "wait"} /\ "queued" \in Steps /\ ReleaseSlot(j, "queued")
      BY <2>3 DEF AccountIsLocked, Steps
    <3>2. QED
      BY <2>3, <3>1, ReleaseEffect DEF AccountIsLocked, Leave, TypeOK, lockVars
  <2>4. CASE TakeGlobalLock(j)
    BY <2>4 DEF TakeGlobalLock, TypeOK, Steps, Connected, semVars
  <2>5. CASE NextGlobalSlot(j)
    <3>1. candidate[j] + 1 \in SlotRange
      BY <2>5 DEF NextGlobalSlot, TypeOK, SlotRange
    <3>2. QED
      BY <2>5, <3>1 DEF NextGlobalSlot, TypeOK, semVars, lockVars
  <2>6. CASE NoGlobalSlot(j)
    <3>1. step[j] \notin {"queued", "wait"} /\ "queued" \in Steps /\ ReleaseSlot(j, "queued")
      BY <2>6 DEF NoGlobalSlot, Steps
    <3>2. accountLock' \in [Accounts \X SlotRange -> Jobs \cup {Nobody}]
      BY <2>6 DEF NoGlobalSlot, TypeOK
    <3>3. QED
      BY <2>6, <3>1, <3>2, ReleaseEffect DEF NoGlobalSlot, Leave, TypeOK
  <2>7. CASE AcquireThrows(j)
    <3>1. faults' \in 0..MaxFaults
      BY <2>7 DEF AcquireThrows, TypeOK
    <3>2. QED
      BY <2>7, <3>1 DEF AcquireThrows, SessionsEnd, Leave, TypeOK, Steps, semVars
  <2>8. QED
    BY <1>2, <2>1, <2>2, <2>3, <2>4, <2>5, <2>6, <2>7 DEF Acquire
<1>3. ASSUME NEW j \in Jobs, Release(j) PROVE TypeOK'
  <2>1. CASE Finish(j)
    <3>1. step[j] \notin {"queued", "wait"} /\ "unlockSlot" \in Steps
          /\ ReleaseSlot(j, "unlockSlot")
      BY <2>1 DEF Finish, Steps, Connected
    <3>2. QED
      BY <2>1, <3>1, ReleaseEffect DEF Finish, TypeOK, lockVars
  <2>2. CASE UnlockSlot(j)
    BY <2>2 DEF UnlockSlot, TypeOK, Steps, Connected, semVars
  <2>3. CASE UnlockAccount(j)
    <3>1. accountLock' \in [Accounts \X SlotRange -> Jobs \cup {Nobody}]
      BY <2>3 DEF UnlockAccount, TypeOK
    <3>2. QED
      BY <2>3, <3>1 DEF UnlockAccount, Leave, TypeOK, Steps, semVars
  <2>4. QED
    BY <1>3, <2>1, <2>2, <2>3 DEF Release
<1>4. ASSUME NEW j \in Jobs, ConnectionDies(j) PROVE TypeOK'
  <2>1. deaths' \in 0..MaxDeaths
    BY <1>4 DEF ConnectionDies, TypeOK
  <2>2. QED
    BY <1>4, <2>1 DEF ConnectionDies, SessionsEnd, TypeOK, semVars
<1>5. ASSUME NEW j \in Jobs, NEW w \in Workers, Claim(j, w) PROVE TypeOK'
  <2>1. /\ worker' = [worker EXCEPT ![j] = w]
        /\ UNCHANGED <<candidate, lost, accountLock, globalLock, deaths, faults>>
    BY <1>5 DEF Claim, lockVars
  <2>2. ASSUME NEW s \in free[w][AccountOf[j]],
               slot' = [slot EXCEPT ![j] = s],
               free' = [free EXCEPT ![w][AccountOf[j]] = @ \ {s}],
               step' = [step EXCEPT ![j] = "connect"], waiting' = waiting
        PROVE  TypeOK'
    <3>1. s \in SlotRange
      BY <1>0 DEF TypeOK
    <3>2. free' \in [Workers -> [Accounts -> SUBSET SlotRange]]
      BY <1>0, <2>2 DEF TypeOK
    <3>3. QED
      BY <2>1, <2>2, <3>1, <3>2 DEF TypeOK, Steps
  <2>3. ASSUME waiting' = [waiting EXCEPT ![w][AccountOf[j]] = Append(@, j)],
               step' = [step EXCEPT ![j] = "wait"], slot' = slot, free' = free
        PROVE  TypeOK'
    <3>1. Append(waiting[w][AccountOf[j]], j) \in Seq(Jobs)
      BY <1>0 DEF TypeOK
    <3>2. waiting' \in [Workers -> [Accounts -> Seq(Jobs)]]
      BY <1>0, <2>3, <3>1 DEF TypeOK
    <3>3. QED
      BY <2>1, <2>3, <3>2 DEF TypeOK, Steps
  <2>4. QED
    BY <1>5, <2>2, <2>3 DEF Claim
<1>6. ASSUME NEW w \in Workers, WorkerDies(w) PROVE TypeOK'
  <2>1. deaths' \in 0..MaxDeaths
    BY <1>6 DEF WorkerDies, TypeOK
  <2>2. waiting' \in [Workers -> [Accounts -> Seq(Jobs)]]
    <3>1. [x \in Accounts |-> <<>>] \in [Accounts -> Seq(Jobs)]
      OBVIOUS
    <3>2. QED
      BY <1>6, <3>1 DEF WorkerDies, TypeOK
  <2>3. QED
    BY <1>6, <2>1, <2>2 DEF WorkerDies, SessionsEnd, TypeOK, Steps
<1>7. QED
  BY <1>1, <1>2, <1>3, <1>4, <1>5, <1>6 DEF Next

-----------------------------------------------------------------------------
(* The leases: the locks *)

\* A step of job j that touches no lock of another job, and moves others only before
\* they have a lock, leaves the others' locks right.
LEMMA OthersHoldTheirLocks ==
    ASSUME TypeOK, LocksMatch, NEW j \in Jobs, NEW i \in Jobs \ {j},
           lost'[i] = lost[i], candidate'[i] = candidate[i],
           \/ step'[i] = step[i] /\ slot'[i] = slot[i]
           \/ step[i] \notin AccountSteps /\ step'[i] \notin AccountSteps,
           \A k \in Keys : \/ accountLock'[k] = accountLock[k]
                           \/ {accountLock[k], accountLock'[k]} \subseteq {j, Nobody},
           \A n \in SlotRange : \/ globalLock'[n] = globalLock[n]
                                \/ {globalLock[n], globalLock'[n]} \subseteq {j, Nobody}
    PROVE  HoldsItsLocks(i)'
<1>1. i # Nobody /\ Key(i) \in Keys /\ candidate[i] \in SlotRange
  BY LeaseAssumption, KeyType DEF Key, Keys, TypeOK
<1>2. HoldsItsLocks(i)
  BY DEF LocksMatch
<1>3. \A k \in Keys : accountLock'[k] = i <=> accountLock[k] = i
  BY <1>1
<1>4. \A n \in SlotRange : globalLock'[n] = i <=> globalLock[n] = i
  BY <1>1
<1>5. CASE step'[i] = step[i] /\ slot'[i] = slot[i]
  BY <1>1, <1>2, <1>3, <1>4, <1>5 DEF HoldsItsLocks, Key
<1>6. CASE step[i] \notin AccountSteps /\ step'[i] \notin AccountSteps
  BY <1>1, <1>2, <1>3, <1>4, <1>6 DEF HoldsItsLocks, Key, AccountSteps, GlobalSteps
<1>7. QED
  BY <1>5, <1>6

LEMMA LocksStep ==
    ASSUME TypeOK, Waiters, LocksMatch, [Next]_vars
    PROVE  LocksMatch'
<1> USE LeaseAssumption
<1> USE DEF AccountSteps, GlobalSteps
<1>0. \A j \in Jobs : /\ AccountOf[j] \in Accounts /\ Key(j) \in Keys
                      /\ candidate[j] \in SlotRange /\ j # Nobody /\ HoldsItsLocks(j)
  BY KeyType DEF Key, Keys, TypeOK, LocksMatch
<1>1. CASE UNCHANGED vars
  BY <1>1 DEF LocksMatch, HoldsItsLocks, Key, Keys, vars, semVars, lockVars
<1>2. ASSUME NEW j \in Jobs, Acquire(j) PROVE LocksMatch'
  <2>1. CASE Connect(j)
    BY <1>0, <2>1 DEF Connect, LocksMatch, HoldsItsLocks, Key, Keys, TypeOK, semVars, lockVars
  <2>2. CASE TakeAccountLock(j)
    <3>1. HoldsItsLocks(j)'
      <4>1. /\ step[j] = "account" /\ step' = [step EXCEPT ![j] = "global"]
            /\ accountLock' = [accountLock EXCEPT ![Key(j)] = j]
            /\ UNCHANGED <<slot, lost, globalLock>>
        BY <2>2 DEF TakeAccountLock, Key, semVars
      <4>2. /\ step'[j] = "global" /\ Key(j)' = Key(j) /\ Key(j) \in Keys
            /\ \A k \in Keys : accountLock'[k] = IF k = Key(j) THEN j ELSE accountLock[k]
        BY <1>0, <4>1 DEF Keys, Key, TypeOK
      <4>3. /\ \A k \in Keys : accountLock[k] # j
            /\ \A n \in SlotRange : globalLock[n] # j
        BY <1>0, <4>1 DEF HoldsItsLocks
      <4>4. ~lost[j]
        BY <2>2 DEF TakeAccountLock
      <4>5. QED
        BY <4>1, <4>2, <4>3, <4>4 DEF HoldsItsLocks
    <3>2. ASSUME NEW i \in Jobs \ {j} PROVE HoldsItsLocks(i)'
      <4>1. /\ UNCHANGED <<slot, lost, globalLock>>
            /\ step' = [step EXCEPT ![j] = "global"]
            /\ candidate' = [candidate EXCEPT ![j] = 0]
            /\ accountLock[Key(j)] = Nobody /\ accountLock' = [accountLock EXCEPT ![Key(j)] = j]
        BY <2>2 DEF TakeAccountLock, Key, semVars
      <4>2. step'[i] = step[i] /\ slot'[i] = slot[i] /\ lost'[i] = lost[i]
            /\ candidate'[i] = candidate[i]
        BY <4>1 DEF TypeOK
      <4>3. \A k \in Keys : \/ accountLock'[k] = accountLock[k]
                             \/ {accountLock[k], accountLock'[k]} \subseteq {j, Nobody}
        BY <1>0, <4>1 DEF TypeOK, Keys
      <4>4. QED
        BY <4>1, <4>2, <4>3, OthersHoldTheirLocks
    <3>3. QED
      BY <3>1, <3>2 DEF LocksMatch
  <2>3. CASE AccountIsLocked(j)
    <3>1. ReleaseSlot(j, "queued") /\ "queued" \in Steps /\ step[j] \notin {"queued", "wait"}
      BY <2>3 DEF AccountIsLocked, Steps
    <3>2. /\ step'[j] = "queued" /\ slot'[j] = slot[j]
          /\ \A i \in Jobs \ {j} :
                 \/ step'[i] = step[i] /\ slot'[i] = slot[i]
                 \/ step[i] = "wait" /\ step'[i] = "connect"
      BY <3>1, ReleaseEffect
    <3>3. HoldsItsLocks(j)'
      BY <1>0, <2>3, <3>2 DEF AccountIsLocked, HoldsItsLocks, Key, Keys, lockVars
    <3>4. \A i \in Jobs \ {j} : HoldsItsLocks(i)'
      BY <2>3, <3>2, OthersHoldTheirLocks DEF AccountIsLocked, lockVars
    <3>5. QED
      BY <3>3, <3>4 DEF LocksMatch
  <2>4. CASE TakeGlobalLock(j)
    <3>1. HoldsItsLocks(j)'
      BY <1>0, <2>4 DEF TakeGlobalLock, HoldsItsLocks, Key, Keys, TypeOK, semVars
    <3>2. \A i \in Jobs \ {j} : HoldsItsLocks(i)'
      BY <1>0, <2>4, OthersHoldTheirLocks DEF TakeGlobalLock, TypeOK, semVars
    <3>3. QED
      BY <3>1, <3>2 DEF LocksMatch
  <2>5. CASE NextGlobalSlot(j)
    BY <1>0, <2>5
       DEF NextGlobalSlot, LocksMatch, HoldsItsLocks, Key, Keys, TypeOK, semVars, lockVars
  <2>6. CASE NoGlobalSlot(j)
    <3>1. ReleaseSlot(j, "queued") /\ "queued" \in Steps /\ step[j] \notin {"queued", "wait"}
      BY <2>6 DEF NoGlobalSlot, Steps
    <3>2. /\ step'[j] = "queued" /\ slot'[j] = slot[j]
          /\ \A i \in Jobs \ {j} :
                 \/ step'[i] = step[i] /\ slot'[i] = slot[i]
                 \/ step[i] = "wait" /\ step'[i] = "connect"
      BY <3>1, ReleaseEffect
    <3>3. /\ \A k \in Keys : accountLock'[k] = IF k = Key(j) THEN Nobody ELSE accountLock[k]
          /\ step[j] = "global" /\ ~lost[j] /\ globalLock' = globalLock
          /\ candidate' = candidate /\ lost' = lost
      BY <2>6 DEF NoGlobalSlot, TypeOK, Key, Keys
    <3>4. HoldsItsLocks(j)'
      <4>1. Key(j)' = Key(j) /\ Keys' = Keys
        BY <3>2 DEF Key, Keys
      <4>2. QED
        BY <1>0, <3>2, <3>3, <4>1 DEF HoldsItsLocks
    <3>5. \A i \in Jobs \ {j} : HoldsItsLocks(i)'
      <4>1. accountLock[Key(j)] = j
        BY <1>0, <3>3 DEF HoldsItsLocks
      <4>2. \A k \in Keys : \/ accountLock'[k] = accountLock[k]
                            \/ {accountLock[k], accountLock'[k]} \subseteq {j, Nobody}
        BY <3>3, <4>1
      <4>3. QED
        BY <3>2, <3>3, <4>2, OthersHoldTheirLocks
    <3>6. QED
      BY <3>4, <3>5 DEF LocksMatch
  <2>7. CASE AcquireThrows(j)
    <3>1. HoldsItsLocks(j)'
      BY <1>0, <2>7 DEF AcquireThrows, SessionsEnd, HoldsItsLocks, Key, Keys, TypeOK, semVars
    <3>2. \A i \in Jobs \ {j} : HoldsItsLocks(i)'
      BY <1>0, <2>7, OthersHoldTheirLocks
         DEF AcquireThrows, SessionsEnd, Keys, TypeOK, semVars
    <3>3. QED
      BY <3>1, <3>2 DEF LocksMatch
  <2>8. QED
    BY <1>2, <2>1, <2>2, <2>3, <2>4, <2>5, <2>6, <2>7 DEF Acquire
<1>3. ASSUME NEW j \in Jobs, Release(j) PROVE LocksMatch'
  <2>1. CASE Finish(j)
    <3>1. ReleaseSlot(j, "unlockSlot") /\ "unlockSlot" \in Steps
          /\ step[j] \notin {"queued", "wait"}
      BY <2>1 DEF Finish, Steps, Connected
    <3>2. /\ step'[j] = "unlockSlot" /\ slot'[j] = slot[j]
          /\ \A i \in Jobs \ {j} :
                 \/ step'[i] = step[i] /\ slot'[i] = slot[i]
                 \/ step[i] = "wait" /\ step'[i] = "connect"
      BY <3>1, ReleaseEffect
    <3>3. HoldsItsLocks(j)'
      BY <1>0, <2>1, <3>2 DEF Finish, HoldsItsLocks, Key, Keys, lockVars
    <3>4. \A i \in Jobs \ {j} : HoldsItsLocks(i)'
      BY <2>1, <3>2, OthersHoldTheirLocks DEF Finish, lockVars
    <3>5. QED
      BY <3>3, <3>4 DEF LocksMatch
  <2>2. CASE UnlockSlot(j)
    <3>1. \A n \in SlotRange :
             globalLock'[n] = IF ~lost[j] /\ n = candidate[j] THEN Nobody ELSE globalLock[n]
      BY <2>2 DEF UnlockSlot, TypeOK
    <3>2. HoldsItsLocks(j)'
      BY <1>0, <2>2, <3>1 DEF UnlockSlot, HoldsItsLocks, Key, Keys, TypeOK, semVars
    <3>3. \A i \in Jobs \ {j} : HoldsItsLocks(i)'
      BY <1>0, <2>2, <3>1, OthersHoldTheirLocks
         DEF UnlockSlot, HoldsItsLocks, TypeOK, semVars
    <3>4. QED
      BY <3>2, <3>3 DEF LocksMatch
  <2>3. CASE UnlockAccount(j)
    <3>1. \A k \in Keys :
             accountLock'[k] = IF ~lost[j] /\ k = Key(j) THEN Nobody ELSE accountLock[k]
      BY <2>3 DEF UnlockAccount, TypeOK, Key, Keys
    <3>2. /\ step[j] = "unlockAccount" /\ step'[j] = "queued"
          /\ \A i \in Jobs \ {j} : step'[i] = step[i]
          /\ UNCHANGED <<slot, candidate, lost, globalLock>>
      BY <2>3 DEF UnlockAccount, TypeOK, semVars
    <3>3. HoldsItsLocks(j)'
      BY <1>0, <3>1, <3>2 DEF HoldsItsLocks, Keys
    <3>5. \A i \in Jobs \ {j} : HoldsItsLocks(i)'
      <4>1. ~lost[j] => accountLock[Key(j)] = j
        BY <1>0, <3>2 DEF HoldsItsLocks
      <4>2. \A k \in Keys : \/ accountLock'[k] = accountLock[k]
                            \/ {accountLock[k], accountLock'[k]} \subseteq {j, Nobody}
        BY <3>1, <4>1
      <4>3. QED
        BY <3>2, <4>2, OthersHoldTheirLocks
    <3>6. QED
      BY <3>3, <3>5 DEF LocksMatch
  <2>4. QED
    BY <1>3, <2>1, <2>2, <2>3 DEF Release
<1>4. ASSUME NEW j \in Jobs, ConnectionDies(j) PROVE LocksMatch'
  <2>1. HoldsItsLocks(j)'
    BY <1>0, <1>4 DEF ConnectionDies, SessionsEnd, HoldsItsLocks, Key, Keys, TypeOK, semVars
  <2>2. \A i \in Jobs \ {j} : HoldsItsLocks(i)'
    BY <1>0, <1>4, OthersHoldTheirLocks DEF ConnectionDies, SessionsEnd, Keys, TypeOK, semVars
  <2>3. QED
    BY <2>1, <2>2 DEF LocksMatch
<1>5. ASSUME NEW j \in Jobs, NEW w \in Workers, Claim(j, w) PROVE LocksMatch'
  <2>1. /\ step[j] = "queued" /\ step'[j] \in {"connect", "wait"}
        /\ \A i \in Jobs \ {j} : step'[i] = step[i] /\ slot'[i] = slot[i]
        /\ candidate' = candidate /\ lost' = lost
        /\ accountLock' = accountLock /\ globalLock' = globalLock
    BY <1>5 DEF Claim, TypeOK, lockVars
  <2>2. HoldsItsLocks(j)'
    BY <1>0, <2>1 DEF HoldsItsLocks, Keys
  <2>3. \A i \in Jobs \ {j} : HoldsItsLocks(i)'
    BY <1>0, <2>1, OthersHoldTheirLocks
  <2>4. QED
    BY <2>2, <2>3 DEF LocksMatch
<1>6. ASSUME NEW w \in Workers, WorkerDies(w) PROVE LocksMatch'
  <2> DEFINE mine == {j \in Jobs : worker[j] = w}
  <2>1. /\ \A k \in Keys :
              accountLock'[k] = IF accountLock[k] \in mine THEN Nobody ELSE accountLock[k]
        /\ \A n \in SlotRange :
              globalLock'[n] = IF globalLock[n] \in mine THEN Nobody ELSE globalLock[n]
        /\ \A j \in Jobs : step'[j] = IF j \in mine THEN "queued" ELSE step[j]
        /\ slot' = slot /\ candidate' = candidate /\ lost' = lost
    BY <1>6 DEF WorkerDies, SessionsEnd, Keys
  <2>2. ASSUME NEW i \in Jobs PROVE HoldsItsLocks(i)'
    BY <1>0, <2>1 DEF HoldsItsLocks, Key, Keys
  <2>3. QED
    BY <2>2 DEF LocksMatch
<1>7. QED
  BY <1>1, <1>2, <1>3, <1>4, <1>5, <1>6 DEF Next

-----------------------------------------------------------------------------
(* The leases: the semaphore *)

\* A released slot goes to the head of the queue or back to the free ones: never both.
LEMMA ReleaseKeepsSemaphore ==
    ASSUME TypeOK, Waiters, Semaphore, NEW j \in Jobs, NEW s \in Steps \ Holding,
           step[j] \in Holding, ReleaseSlot(j, s),
           \/ worker' = worker
           \/ worker' = [worker EXCEPT ![j] = Nobody]
    PROVE  Semaphore'
<1> USE DEF TypeOK, Holding
<1> DEFINE w == worker[j]
           x == AccountOf[j]
           q == waiting[w][x]
<1>1. w \in Workers /\ x \in Accounts /\ q \in Seq(Jobs)
  BY LeaseAssumption DEF Waiters
<1>2. \A i \in Jobs \ {j} : worker'[i] = worker[i]
  OBVIOUS
<1>3. /\ \A i \in Jobs : step[i] \in Holding => slot[i] \notin free[worker[i]][AccountOf[i]]
      /\ \A i \in Jobs \ {j} : step[i] \in Holding /\ worker[i] = w /\ AccountOf[i] = x
                                  => slot[i] # slot[j]
      /\ \A i, l \in Jobs : /\ i # l /\ worker[i] = worker[l] /\ AccountOf[i] = AccountOf[l]
                            /\ step[i] \in Holding /\ step[l] \in Holding
                            => slot[i] # slot[l]
  BY DEF Semaphore, OneJobPerPage
<1>4. CASE q = <<>>
  <2>1. /\ free' = [free EXCEPT ![w][x] = @ \cup {slot[j]}]
        /\ step' = [step EXCEPT ![j] = s] /\ slot' = slot
    BY <1>4 DEF ReleaseSlot
  <2>2. \A v \in Workers, y \in Accounts :
           free'[v][y] = IF v = w /\ y = x THEN free[v][y] \cup {slot[j]} ELSE free[v][y]
    BY <1>1, <2>1
  <2>3. \A i \in Jobs : step'[i] \in Holding => i # j /\ step[i] = step'[i]
    BY <2>1
  <2>4. \A i \in Jobs : step'[i] \in Holding => worker[i] \in Workers /\ AccountOf[i] \in Accounts
    BY <2>3, LeaseAssumption DEF Waiters
  <2>5. \A i \in Jobs : step'[i] \in Holding => slot'[i] \notin free'[worker'[i]][AccountOf[i]]
    BY <1>2, <1>3, <2>1, <2>2, <2>3, <2>4
  <2>6. OneJobPerPage'
    BY <1>2, <1>3, <2>1, <2>3 DEF OneJobPerPage
  <2>7. QED
    BY <2>5, <2>6 DEF Semaphore
<1>5. CASE q # <<>>
  <2> DEFINE h == Head(q)
  <2>1. h \in Jobs /\ h = q[1] /\ 1 \in 1..Len(q)
    BY <1>1, <1>5
  <2>2. step[h] = "wait" /\ h # j /\ worker[h] = w /\ AccountOf[h] = x
    BY <1>1, <2>1 DEF Waiters
  <2>3. /\ slot' = [slot EXCEPT ![h] = slot[j]] /\ free' = free
        /\ step' = [step EXCEPT ![h] = "connect", ![j] = s]
    BY <1>5 DEF ReleaseSlot
  <2>4. /\ \A i \in Jobs \ {h} : step'[i] \in Holding
               => i # j /\ step[i] = step'[i] /\ slot'[i] = slot[i]
        /\ slot'[h] = slot[j] /\ worker'[h] = w
    BY <1>2, <2>1, <2>2, <2>3
  <2>5. \A i \in Jobs : step'[i] \in Holding => slot'[i] \notin free'[worker'[i]][AccountOf[i]]
    <3>1. ASSUME NEW i \in Jobs \ {h}, step'[i] \in Holding
          PROVE  slot'[i] \notin free'[worker'[i]][AccountOf[i]]
      <4>1. i # j /\ step[i] \in Holding /\ slot'[i] = slot[i]
        BY <2>4, <3>1
      <4>2. worker'[i] = worker[i] /\ slot[i] \notin free[worker[i]][AccountOf[i]]
        BY <1>2, <1>3, <4>1
      <4>3. QED
        BY <2>3, <4>1, <4>2
    <3>2. slot'[h] \notin free'[worker'[h]][AccountOf[h]]
      <4>1. slot[j] \notin free[w][x]
        BY <1>3
      <4>2. QED
        BY <2>2, <2>3, <2>4, <4>1
    <3>3. QED
      BY <3>1, <3>2
  <2>6. OneJobPerPage'
    <3>1. ASSUME NEW i \in Jobs \ {h}, NEW l \in Jobs \ {h}, i # l,
                 worker'[i] = worker'[l], AccountOf[i] = AccountOf[l],
                 step'[i] \in Holding, step'[l] \in Holding
          PROVE  slot'[i] # slot'[l]
      <4>1. /\ i # j /\ step[i] \in Holding /\ slot'[i] = slot[i]
            /\ l # j /\ step[l] \in Holding /\ slot'[l] = slot[l]
        BY <2>4, <3>1
      <4>2. worker[i] = worker[l]
        BY <1>2, <3>1, <4>1
      <4>3. QED
        <5> HIDE DEF TypeOK, w, x, q, h, Holding
        <5>1. QED
          BY <1>3, <3>1, <4>1, <4>2
    <3>2. ASSUME NEW i \in Jobs \ {h}, worker'[i] = worker'[h], AccountOf[i] = AccountOf[h],
                 step'[i] \in Holding
          PROVE  slot'[i] # slot'[h]
      <4>1. i # j /\ step[i] \in Holding /\ slot'[i] = slot[i]
        BY <2>4, <3>2
      <4>2. worker[i] = w /\ AccountOf[i] = x
        BY <1>2, <2>2, <2>4, <3>2, <4>1
      <4>3. slot[i] # slot[j]
        BY <1>3, <4>1, <4>2
      <4>4. QED
        BY <2>4, <4>1, <4>3
    <3>3. QED
      <4> HIDE DEF TypeOK, w, x, q, h
      <4>1. QED
        BY <3>1, <3>2 DEF OneJobPerPage
  <2>7. QED
    BY <2>5, <2>6 DEF Semaphore
<1>6. QED
  BY <1>4, <1>5

\* A step that leaves the semaphores alone only has to keep the holders among the holders.
LEMMA StepKeepsSemaphore ==
    ASSUME Semaphore, slot' = slot, free' = free,
           \A i \in Jobs : step'[i] \in Holding => step[i] \in Holding /\ worker'[i] = worker[i]
    PROVE  Semaphore'
BY DEF Semaphore, OneJobPerPage, Holding

LEMMA SemaphoreStep ==
    ASSUME TypeOK, Waiters, Semaphore, [Next]_vars
    PROVE  Semaphore'
<1> USE DEF Holding
<1>1. CASE UNCHANGED vars
  BY <1>1 DEF Semaphore, OneJobPerPage, vars, semVars, lockVars
<1>2. ASSUME NEW j \in Jobs, Acquire(j) PROVE Semaphore'
  <2>1. CASE Connect(j)
    BY <2>1, StepKeepsSemaphore DEF Connect, TypeOK, semVars
  <2>2. CASE TakeAccountLock(j)
    BY <2>2, StepKeepsSemaphore DEF TakeAccountLock, TypeOK, semVars
  <2>3. CASE AccountIsLocked(j)
    BY <2>3, ReleaseKeepsSemaphore DEF AccountIsLocked, Leave, Steps
  <2>4. CASE TakeGlobalLock(j)
    BY <2>4, StepKeepsSemaphore DEF TakeGlobalLock, TypeOK, semVars
  <2>5. CASE NextGlobalSlot(j)
    BY <2>5, StepKeepsSemaphore DEF NextGlobalSlot, TypeOK, semVars
  <2>6. CASE NoGlobalSlot(j)
    BY <2>6, ReleaseKeepsSemaphore DEF NoGlobalSlot, Leave, Steps
  <2>7. CASE AcquireThrows(j)
    BY <2>7, StepKeepsSemaphore DEF AcquireThrows, Leave, TypeOK, semVars
  <2>8. QED
    BY <1>2, <2>1, <2>2, <2>3, <2>4, <2>5, <2>6, <2>7 DEF Acquire
<1>3. ASSUME NEW j \in Jobs, Release(j) PROVE Semaphore'
  <2>1. CASE Finish(j)
    BY <2>1, ReleaseKeepsSemaphore DEF Finish, Steps, Connected
  <2>2. CASE UnlockSlot(j)
    BY <2>2, StepKeepsSemaphore DEF UnlockSlot, TypeOK, semVars
  <2>3. CASE UnlockAccount(j)
    BY <2>3, StepKeepsSemaphore DEF UnlockAccount, Leave, TypeOK, semVars
  <2>4. QED
    BY <1>3, <2>1, <2>2, <2>3 DEF Release
<1>4. ASSUME NEW j \in Jobs, ConnectionDies(j) PROVE Semaphore'
  BY <1>4, StepKeepsSemaphore DEF ConnectionDies, semVars
<1>5. ASSUME NEW j \in Jobs, NEW w \in Workers, Claim(j, w) PROVE Semaphore'
  <2> DEFINE x == AccountOf[j]
  <2>1. /\ x \in Accounts /\ step[j] = "queued" /\ worker'[j] = w
        /\ \A i \in Jobs \ {j} : worker'[i] = worker[i] /\ step'[i] = step[i]
    BY <1>5, LeaseAssumption DEF Claim, TypeOK
  <2>2. CASE free' = free /\ slot' = slot /\ step'[j] = "wait"
    BY <2>1, <2>2, StepKeepsSemaphore
  <2>3. ASSUME NEW s \in free[w][x], slot' = [slot EXCEPT ![j] = s],
               free' = [free EXCEPT ![w][x] = @ \ {s}], step'[j] = "connect"
        PROVE  Semaphore'
    <3>1. \A v \in Workers, y \in Accounts :
             free'[v][y] = IF v = w /\ y = x THEN free[v][y] \ {s} ELSE free[v][y]
      BY <2>1, <2>3 DEF TypeOK
    <3>2. slot'[j] = s /\ \A i \in Jobs \ {j} : slot'[i] = slot[i]
      BY <2>3 DEF TypeOK
    <3>3. \A i \in Jobs : step[i] \in Holding => worker[i] \in Workers /\ AccountOf[i] \in Accounts
      BY LeaseAssumption DEF Waiters
    <3>4. \A i \in Jobs : step'[i] \in Holding => slot'[i] \notin free'[worker'[i]][AccountOf[i]]
      <4>1. slot'[j] \notin free'[worker'[j]][AccountOf[j]]
        BY <2>1, <3>1, <3>2
      <4>2. ASSUME NEW i \in Jobs \ {j}, step'[i] \in Holding
            PROVE  slot'[i] \notin free'[worker'[i]][AccountOf[i]]
        <5>1. worker'[i] = worker[i] /\ slot'[i] = slot[i] /\ step[i] \in Holding
          BY <2>1, <3>2, <4>2
        <5>2. slot[i] \notin free[worker[i]][AccountOf[i]]
          BY <5>1 DEF Semaphore
        <5>3. free'[worker[i]][AccountOf[i]] \subseteq free[worker[i]][AccountOf[i]]
          BY <3>1, <3>3, <5>1
        <5>4. QED
          BY <5>1, <5>2, <5>3
      <4>3. QED
        BY <4>1, <4>2
    <3>5. OneJobPerPage'
      BY <2>1, <2>3, <3>2 DEF Semaphore, OneJobPerPage
    <3>6. QED
      BY <3>4, <3>5 DEF Semaphore
  <2>4. QED
    <3>1. ASSUME NEW s \in free[w][x], step' = [step EXCEPT ![j] = "connect"]
          PROVE  step'[j] = "connect"
      BY <3>1 DEF TypeOK
    <3>2. ASSUME step' = [step EXCEPT ![j] = "wait"] PROVE step'[j] = "wait"
      BY <3>2 DEF TypeOK
    <3>3. QED
      BY <1>5, <2>2, <2>3, <3>1, <3>2 DEF Claim
<1>6. ASSUME NEW w \in Workers, WorkerDies(w) PROVE Semaphore'
  <2>1. \A i \in Jobs : step'[i] \in Holding
           => step[i] \in Holding /\ worker'[i] = worker[i] /\ worker[i] # w
    BY <1>6 DEF WorkerDies
  <2>2. \A v \in Workers \ {w} : free'[v] = free[v]
    BY <1>6 DEF WorkerDies, TypeOK
  <2>3. \A i \in Jobs : step[i] \in Holding => worker[i] \in Workers
    BY DEF Waiters
  <2>4. slot' = slot
    BY <1>6 DEF WorkerDies
  <2>5. QED
    BY <2>1, <2>2, <2>3, <2>4 DEF Semaphore, OneJobPerPage
<1>7. QED
  BY <1>1, <1>2, <1>3, <1>4, <1>5, <1>6 DEF Next

-----------------------------------------------------------------------------
(* The leases: slots that are lost *)

\* The slot s of account x in process w can be given out again: it is free, or a job that
\* will release it has it in its hands.
Covered(w, x, s) ==
    \/ s \in free[w][x]
    \/ \E j \in Jobs : /\ worker[j] = w /\ AccountOf[j] = x
                       /\ step[j] \in Holding /\ slot[j] = s

\* Jobs that will lose their slot when they notice that their connection is dead.
Unnoticed == {j \in Jobs : lost[j] /\ step[j] \in {"account", "global"}}

\* A fault costs a slot at once; a death only when it is noticed.
LeakCount ==
    /\ IsFiniteSet(Leaked)
    /\ Cardinality(Leaked) + Cardinality(Unnoticed) <= faults + deaths

LEMMA CoveredIsKept ==
    ASSUME \A w \in Workers, x \in Accounts, s \in SlotRange :
              Covered(w, x, s) => Covered(w, x, s)'
    PROVE  Leaked' \subseteq Leaked
BY DEF Leaked, InHand, Covered, Holding

\* Giving a slot back loses none: it goes to the free ones or into a waiting job's hands.
LEMMA ReleaseKeepsCovered ==
    ASSUME TypeOK, Waiters, NEW j \in Jobs, NEW s \in Steps,
           step[j] \in Holding, ReleaseSlot(j, s),
           \/ worker' = worker
           \/ worker' = [worker EXCEPT ![j] = Nobody]
    PROVE  Leaked' \subseteq Leaked
<1> USE DEF TypeOK, Holding
<1> DEFINE w == worker[j]
           x == AccountOf[j]
           q == waiting[w][x]
<1>1. w \in Workers /\ x \in Accounts /\ q \in Seq(Jobs)
  BY LeaseAssumption DEF Waiters
<1>2. \A i \in Jobs \ {j} : worker'[i] = worker[i]
  OBVIOUS
<1>3. \A i \in Jobs \ {j} : step[i] \in Holding => step'[i] = step[i] /\ slot'[i] = slot[i]
  BY ReleaseEffect
<1>4. ASSUME NEW v \in Workers, NEW y \in Accounts, NEW t \in SlotRange, Covered(v, y, t)
      PROVE  Covered(v, y, t)'
  <2>1. CASE q = <<>>
    <3>1. free' = [free EXCEPT ![w][x] = @ \cup {slot[j]}]
      BY <2>1 DEF ReleaseSlot
    <3>2. free[v][y] \subseteq free'[v][y] /\ slot[j] \in free'[w][x]
      BY <1>1, <3>1
    <3>3. QED
      BY <1>2, <1>3, <1>4, <3>2 DEF Covered
  <2>2. CASE q # <<>>
    <3> DEFINE h == Head(q)
    <3>1. h \in Jobs /\ h = q[1] /\ 1 \in 1..Len(q)
      BY <1>1, <2>2
    <3>2. step[h] = "wait" /\ h # j /\ worker[h] = w /\ AccountOf[h] = x
      BY <1>1, <3>1 DEF Waiters
    <3>3. /\ slot' = [slot EXCEPT ![h] = slot[j]] /\ free' = free
          /\ step' = [step EXCEPT ![h] = "connect", ![j] = s]
      BY <2>2 DEF ReleaseSlot
    <3>4. /\ slot'[h] = slot[j] /\ worker'[h] = w /\ step'[h] = "connect"
      BY <1>2, <3>1, <3>2, <3>3
    <3>5. CASE t \in free[v][y]
      BY <3>3, <3>5 DEF Covered
    <3>6. ASSUME NEW i \in Jobs, worker[i] = v, AccountOf[i] = y, step[i] \in Holding, slot[i] = t
          PROVE  Covered(v, y, t)'
      <4>1. CASE i = j
        BY <3>1, <3>2, <3>4, <3>6, <4>1 DEF Covered
      <4>2. CASE i # j
        BY <1>2, <1>3, <3>6, <4>2 DEF Covered
      <4>3. QED
        BY <4>1, <4>2
    <3>7. QED
      BY <1>4, <3>5, <3>6 DEF Covered
  <2>3. QED
    BY <2>1, <2>2
<1>5. QED
  BY <1>4, CoveredIsKept

\* A step that leaves the free slots alone only has to leave the holders in place.
LEMMA StepKeepsCovered ==
    ASSUME slot' = slot, free' = free,
           \A i \in Jobs : step[i] \in Holding => step'[i] \in Holding /\ worker'[i] = worker[i]
    PROVE  Leaked' \subseteq Leaked
<1>1. ASSUME NEW w \in Workers, NEW x \in Accounts, NEW s \in SlotRange, Covered(w, x, s)
      PROVE  Covered(w, x, s)'
  BY <1>1 DEF Covered
<1>2. QED
  BY <1>1, CoveredIsKept

\* The effect of a step on the slots and on the jobs with a dead connection.
LEMMA CountStep ==
    ASSUME TypeOK, LeakCount, TypeOK', NEW lk, NEW un,
           \/ lk = {} /\ un = {} /\ faults' = faults /\ deaths' >= deaths
           \/ lk = {} /\ (\E j \in Jobs : un = {j}) /\ faults' = faults /\ deaths' = deaths + 1
           \/ (\E k : lk = {k}) /\ un = {} /\ faults' = faults + 1 /\ deaths' = deaths,
           Leaked' \subseteq Leaked \cup lk, Unnoticed' \subseteq Unnoticed \cup un
    PROVE  LeakCount'
<1>1. IsFiniteSet(Unnoticed) /\ IsFiniteSet(Leaked)
  BY LeaseAssumption, FS_Subset DEF Unnoticed, LeakCount
<1>2. /\ IsFiniteSet(Leaked \cup lk) /\ IsFiniteSet(Unnoticed \cup un)
      /\ Cardinality(Leaked \cup lk) \in Nat /\ Cardinality(Unnoticed \cup un) \in Nat
      /\ Cardinality(Leaked \cup lk) + Cardinality(Unnoticed \cup un) <= faults' + deaths'
  <2>1. /\ Cardinality(Leaked) \in Nat /\ Cardinality(Unnoticed) \in Nat
        /\ faults \in Nat /\ deaths \in Nat /\ faults' \in Nat /\ deaths' \in Nat
    BY <1>1, FS_CardinalityType DEF TypeOK
  <2>2. CASE lk = {} /\ un = {} /\ faults' = faults /\ deaths' >= deaths
    <3>1. Leaked \cup lk = Leaked /\ Unnoticed \cup un = Unnoticed
      BY <2>2
    <3>2. QED
      BY <1>1, <2>1, <2>2, <3>1 DEF LeakCount
  <2>3. ASSUME NEW j \in Jobs, lk = {}, un = {j}, faults' = faults, deaths' = deaths + 1
        PROVE  <1>2!:
    <3>1. Leaked \cup lk = Leaked
      BY <2>3
    <3>2. /\ IsFiniteSet(Unnoticed \cup {j})
          /\ Cardinality(Unnoticed \cup {j}) \in {Cardinality(Unnoticed), Cardinality(Unnoticed) + 1}
      BY <1>1, FS_AddElement
    <3>3. QED
      BY <1>1, <2>1, <2>3, <3>1, <3>2 DEF LeakCount
  <2>4. ASSUME NEW k, lk = {k}, un = {}, faults' = faults + 1, deaths' = deaths
        PROVE  <1>2!:
    <3>1. Unnoticed \cup un = Unnoticed
      BY <2>4
    <3>2. /\ IsFiniteSet(Leaked \cup {k})
          /\ Cardinality(Leaked \cup {k}) \in {Cardinality(Leaked), Cardinality(Leaked) + 1}
      BY <1>1, FS_AddElement
    <3>3. QED
      BY <1>1, <2>1, <2>4, <3>1, <3>2 DEF LeakCount
  <2>5. QED
    BY <2>2, <2>3, <2>4
<1>3. /\ IsFiniteSet(Leaked') /\ Cardinality(Leaked') <= Cardinality(Leaked \cup lk)
      /\ Cardinality(Leaked') \in Nat
  BY <1>2, FS_Subset, FS_CardinalityType
<1>4. Cardinality(Unnoticed') <= Cardinality(Unnoticed \cup un) /\ Cardinality(Unnoticed') \in Nat
  BY <1>2, FS_Subset, FS_CardinalityType
<1>5. faults' \in Nat /\ deaths' \in Nat
  BY DEF TypeOK
<1>6. QED
  BY <1>2, <1>3, <1>4, <1>5 DEF LeakCount

\* A slot lost to a connection that had died is paid for by the death.
LEMMA LossIsNoticed ==
    ASSUME TypeOK, LeakCount, NEW j \in Unnoticed, NEW k,
           Leaked' \subseteq Leaked \cup {k}, Unnoticed' = Unnoticed \ {j},
           faults' = faults, deaths' = deaths
    PROVE  LeakCount'
<1>1. IsFiniteSet(Unnoticed) /\ IsFiniteSet(Leaked)
  BY LeaseAssumption, FS_Subset DEF Unnoticed, LeakCount
<1>2. Cardinality(Unnoticed') = Cardinality(Unnoticed) - 1
  BY <1>1, FS_RemoveElement
<1>3. /\ IsFiniteSet(Leaked \cup {k})
      /\ Cardinality(Leaked \cup {k}) \in {Cardinality(Leaked), Cardinality(Leaked) + 1}
  BY <1>1, FS_AddElement
<1>4. IsFiniteSet(Leaked') /\ Cardinality(Leaked') <= Cardinality(Leaked \cup {k})
  BY <1>3, FS_Subset
<1>5. /\ Cardinality(Leaked) \in Nat /\ Cardinality(Leaked') \in Nat
      /\ Cardinality(Leaked \cup {k}) \in Nat /\ Cardinality(Unnoticed) \in Nat
  BY <1>1, <1>3, <1>4, FS_CardinalityType
<1>6. faults \in Nat /\ deaths \in Nat
  BY DEF TypeOK
<1>7. QED
  BY <1>2, <1>3, <1>4, <1>5, <1>6 DEF LeakCount

LEMMA LeakStep ==
    ASSUME LeaseInv, LeaseInv', LeakCount, [Next]_vars
    PROVE  LeakCount'
<1> USE DEF Holding
<1>0. TypeOK /\ Waiters /\ TypeOK'
  BY DEF LeaseInv
\* It suffices that a step without fault or death loses no slot and kills no connection.
<1>1. ASSUME Leaked' \subseteq Leaked, Unnoticed' \subseteq Unnoticed,
             faults' = faults, deaths' = deaths
      PROVE  LeakCount'
  <2>1. deaths' >= deaths
    BY <1>0, <1>1 DEF TypeOK
  <2>2. QED
    BY <1>0, <1>1, <2>1, CountStep
<1>2. CASE UNCHANGED vars
  <2>1. Leaked' = Leaked /\ Unnoticed' = Unnoticed
    BY <1>2 DEF vars, semVars, lockVars, Leaked, InHand, Unnoticed
  <2>2. QED
    BY <1>1, <1>2, <2>1 DEF vars
<1>3. ASSUME NEW j \in Jobs, Acquire(j) PROVE LeakCount'
  <2>1. CASE Connect(j)
    <3>1. Leaked' \subseteq Leaked
      BY <1>0, <2>1, StepKeepsCovered DEF Connect, semVars, TypeOK
    <3>2. Unnoticed' \subseteq Unnoticed
      BY <1>0, <2>1 DEF Connect, Unnoticed, TypeOK
    <3>3. QED
      BY <1>1, <2>1, <3>1, <3>2 DEF Connect
  <2>2. CASE TakeAccountLock(j)
    <3>1. Leaked' \subseteq Leaked
      BY <1>0, <2>2, StepKeepsCovered DEF TakeAccountLock, semVars, TypeOK
    <3>2. Unnoticed' \subseteq Unnoticed
      BY <1>0, <2>2 DEF TakeAccountLock, Unnoticed, TypeOK
    <3>3. QED
      BY <1>1, <2>2, <3>1, <3>2 DEF TakeAccountLock
  <2>3. CASE AccountIsLocked(j)
    <3>1. ReleaseSlot(j, "queued") /\ "queued" \in Steps /\ step[j] = "account"
      BY <2>3 DEF AccountIsLocked, Steps
    <3>2. Leaked' \subseteq Leaked
      BY <1>0, <2>3, <3>1, ReleaseKeepsCovered DEF AccountIsLocked, Leave
    <3>3. Unnoticed' \subseteq Unnoticed
      BY <1>0, <2>3, <3>1, ReleaseEffect DEF AccountIsLocked, Unnoticed
    <3>4. QED
      BY <1>1, <2>3, <3>2, <3>3 DEF AccountIsLocked
  <2>4. CASE TakeGlobalLock(j)
    <3>1. Leaked' \subseteq Leaked
      BY <1>0, <2>4, StepKeepsCovered DEF TakeGlobalLock, semVars, TypeOK
    <3>2. Unnoticed' \subseteq Unnoticed
      BY <1>0, <2>4 DEF TakeGlobalLock, Unnoticed, TypeOK
    <3>3. QED
      BY <1>1, <2>4, <3>1, <3>2 DEF TakeGlobalLock
  <2>5. CASE NextGlobalSlot(j)
    <3>1. Leaked' \subseteq Leaked
      BY <2>5, StepKeepsCovered DEF NextGlobalSlot, semVars
    <3>2. Unnoticed' \subseteq Unnoticed
      BY <2>5 DEF NextGlobalSlot, Unnoticed
    <3>3. QED
      BY <1>1, <2>5, <3>1, <3>2 DEF NextGlobalSlot
  <2>6. CASE NoGlobalSlot(j)
    <3>1. ReleaseSlot(j, "queued") /\ "queued" \in Steps /\ step[j] = "global"
      BY <2>6 DEF NoGlobalSlot, Steps
    <3>2. Leaked' \subseteq Leaked
      BY <1>0, <2>6, <3>1, ReleaseKeepsCovered DEF NoGlobalSlot, Leave
    <3>3. Unnoticed' \subseteq Unnoticed
      BY <1>0, <2>6, <3>1, ReleaseEffect DEF NoGlobalSlot, Unnoticed
    <3>4. QED
      BY <1>1, <2>6, <3>2, <3>3 DEF NoGlobalSlot
  <2>7. CASE AcquireThrows(j)
    <3> DEFINE k == <<worker[j], AccountOf[j], slot[j]>>
    <3>1. Leaked' \subseteq Leaked \cup {k}
      <4>1. free' = free /\ slot' = slot
            /\ \A i \in Jobs \ {j} : worker'[i] = worker[i] /\ step'[i] = step[i]
        BY <1>0, <2>7 DEF AcquireThrows, Leave, semVars, TypeOK
      <4>2. ASSUME NEW w \in Workers, NEW x \in Accounts, NEW s \in SlotRange,
                   Covered(w, x, s), <<w, x, s>> # k
            PROVE  Covered(w, x, s)'
        BY <4>1, <4>2 DEF Covered
      <4>3. QED
        BY <4>2 DEF Leaked, InHand, Covered
    <3>2. Unnoticed' = Unnoticed \ {j}
      BY <1>0, <2>7 DEF AcquireThrows, Unnoticed, TypeOK
    <3>3. deaths' = deaths
      BY <2>7 DEF AcquireThrows
    <3>4. CASE faults' = faults + 1
      BY <1>0, <3>1, <3>2, <3>3, <3>4, CountStep
    <3>5. CASE lost[j] /\ step[j] # "connect" /\ faults' = faults
      \* The connection was counted when it died.
      <4>1. j \in Unnoticed
        BY <2>7, <3>5 DEF AcquireThrows, Unnoticed
      <4>2. QED
        BY <1>0, <3>1, <3>2, <3>3, <3>5, <4>1, LossIsNoticed
    <3>6. QED
      BY <2>7, <3>4, <3>5 DEF AcquireThrows
  <2>8. QED
    BY <1>3, <2>1, <2>2, <2>3, <2>4, <2>5, <2>6, <2>7 DEF Acquire
<1>4. ASSUME NEW j \in Jobs, Release(j) PROVE LeakCount'
  <2>1. CASE Finish(j)
    <3>1. ReleaseSlot(j, "unlockSlot") /\ "unlockSlot" \in Steps /\ step[j] = "run"
      BY <2>1 DEF Finish, Steps, Connected
    <3>2. Leaked' \subseteq Leaked
      BY <1>0, <2>1, <3>1, ReleaseKeepsCovered DEF Finish
    <3>3. Unnoticed' \subseteq Unnoticed
      BY <1>0, <2>1, <3>1, ReleaseEffect DEF Finish, Unnoticed
    <3>4. QED
      BY <1>1, <2>1, <3>2, <3>3 DEF Finish
  <2>2. CASE UnlockSlot(j)
    <3>1. Leaked' \subseteq Leaked
      BY <1>0, <2>2, StepKeepsCovered DEF UnlockSlot, semVars, TypeOK
    <3>2. Unnoticed' \subseteq Unnoticed
      BY <1>0, <2>2 DEF UnlockSlot, Unnoticed, TypeOK
    <3>3. QED
      BY <1>1, <2>2, <3>1, <3>2 DEF UnlockSlot
  <2>3. CASE UnlockAccount(j)
    <3>1. Leaked' \subseteq Leaked
      BY <1>0, <2>3, StepKeepsCovered DEF UnlockAccount, Leave, semVars, TypeOK
    <3>2. Unnoticed' \subseteq Unnoticed
      BY <1>0, <2>3 DEF UnlockAccount, Unnoticed, TypeOK
    <3>3. QED
      BY <1>1, <2>3, <3>1, <3>2 DEF UnlockAccount
  <2>4. QED
    BY <1>4, <2>1, <2>2, <2>3 DEF Release
<1>5. ASSUME NEW j \in Jobs, ConnectionDies(j) PROVE LeakCount'
  <2>1. Leaked' \subseteq Leaked
    BY <1>5, StepKeepsCovered DEF ConnectionDies, semVars
  <2>2. Unnoticed' \subseteq Unnoticed \cup {j}
    BY <1>0, <1>5 DEF ConnectionDies, Unnoticed, TypeOK
  <2>3. faults' = faults /\ deaths' = deaths + 1
    BY <1>5 DEF ConnectionDies
  <2>4. QED
    BY <1>0, <2>1, <2>2, <2>3, CountStep
<1>6. ASSUME NEW j \in Jobs, NEW w \in Workers, Claim(j, w) PROVE LeakCount'
  <2> DEFINE x == AccountOf[j]
  <2>1. /\ x \in Accounts /\ step[j] = "queued" /\ worker'[j] = w
        /\ \A i \in Jobs \ {j} : /\ worker'[i] = worker[i] /\ step'[i] = step[i]
                                 /\ slot'[i] = slot[i]
    BY <1>0, <1>6, LeaseAssumption DEF Claim, TypeOK
  <2>2. ASSUME NEW v \in Workers, NEW y \in Accounts, NEW t \in SlotRange, Covered(v, y, t)
        PROVE  Covered(v, y, t)'
    <3>1. CASE free' = free
      BY <2>1, <2>2, <3>1 DEF Covered
    <3>2. ASSUME NEW s \in free[w][x], slot' = [slot EXCEPT ![j] = s],
                 free' = [free EXCEPT ![w][x] = @ \ {s}],
                 step' = [step EXCEPT ![j] = "connect"]
          PROVE  Covered(v, y, t)'
      <4>1. slot'[j] = s /\ step'[j] = "connect"
        BY <1>0, <3>2 DEF TypeOK
      <4>2. free'[v][y] = IF v = w /\ y = x THEN free[v][y] \ {s} ELSE free[v][y]
        BY <1>0, <2>1, <3>2 DEF TypeOK
      <4>3. CASE <<v, y, t>> = <<w, x, s>>
        BY <2>1, <4>1, <4>3 DEF Covered
      <4>4. CASE <<v, y, t>> # <<w, x, s>>
        BY <2>1, <2>2, <4>2, <4>4 DEF Covered
      <4>5. QED
        BY <4>3, <4>4
    <3>3. QED
      BY <1>6, <3>1, <3>2 DEF Claim
  <2>3. Leaked' \subseteq Leaked
    BY <2>2, CoveredIsKept
  <2>4. step'[j] \notin {"account", "global"} /\ lost' = lost
    BY <1>0, <1>6 DEF Claim, TypeOK
  <2>5. Unnoticed' \subseteq Unnoticed
    BY <2>1, <2>4 DEF Unnoticed
  <2>6. QED
    BY <1>1, <1>6, <2>3, <2>5 DEF Claim
<1>7. ASSUME NEW w \in Workers, WorkerDies(w) PROVE LeakCount'
  <2> DEFINE mine == {j \in Jobs : worker[j] = w}
  <2>1. /\ \A j \in Jobs : step'[j] = IF j \in mine THEN "queued" ELSE step[j]
        /\ \A j \in Jobs : worker'[j] = IF j \in mine THEN Nobody ELSE worker[j]
        /\ \A v \in Workers : free'[v] = IF v = w THEN [x \in Accounts |-> SlotRange] ELSE free[v]
        /\ slot' = slot /\ lost' = lost
    BY <1>0, <1>7 DEF WorkerDies, TypeOK
  <2>2. ASSUME NEW v \in Workers, NEW y \in Accounts, NEW t \in SlotRange, Covered(v, y, t)
        PROVE  Covered(v, y, t)'
    <3>1. CASE v = w
      BY <2>1, <3>1 DEF Covered
    <3>2. CASE v # w
      BY <2>1, <2>2, <3>2 DEF Covered
    <3>3. QED
      BY <3>1, <3>2
  <2>3. Leaked' \subseteq Leaked
    BY <2>2, CoveredIsKept
  <2>4. Unnoticed' \subseteq Unnoticed
    BY <2>1 DEF Unnoticed
  <2>5. faults' = faults /\ deaths' >= deaths
    BY <1>0, <1>7 DEF WorkerDies, TypeOK
  <2>6. QED
    BY <1>0, <2>3, <2>4, <2>5, CountStep
<1>8. QED
  BY <1>2, <1>3, <1>4, <1>5, <1>6, <1>7 DEF Next

-----------------------------------------------------------------------------
(* The leases: the theorems *)

LEMMA InvInit == ASSUME Init PROVE LeaseInv
<1>1. TypeOK
  <2>1. 0 \in SlotRange /\ deaths \in 0..MaxDeaths /\ faults \in 0..MaxFaults
    BY LeaseAssumption DEF Init, SlotRange
  <2>2. waiting \in [Workers -> [Accounts -> Seq(Jobs)]]
    <3>1. [x \in Accounts |-> <<>>] \in [Accounts -> Seq(Jobs)]
      OBVIOUS
    <3>2. QED
      BY <3>1 DEF Init
  <2>3. QED
    BY <2>1, <2>2 DEF Init, TypeOK, Steps
<1>2. Waiters
  <2>1. \A w \in Workers, x \in Accounts : 1..Len(waiting[w][x]) = {}
    BY DEF Init
  <2>2. \A j \in Jobs : step[j] = "queued"
    BY DEF Init
  <2>3. QED
    BY <2>1, <2>2 DEF Waiters
<1>3. LocksMatch
  BY LeaseAssumption
     DEF Init, LocksMatch, HoldsItsLocks, AccountSteps, GlobalSteps, Keys
<1>4. Semaphore
  BY DEF Init, Semaphore, Holding, OneJobPerPage
<1>5. QED
  BY <1>1, <1>2, <1>3, <1>4 DEF LeaseInv

LEMMA InvStep == ASSUME LeaseInv, [Next]_vars PROVE LeaseInv'
BY TypeStep, WaitersStep, LocksStep, SemaphoreStep DEF LeaseInv

\* The inductive invariant behind every theorem about leases.
THEOREM LeaseInvariant == Spec => []LeaseInv
<1>1. Init => LeaseInv
  BY InvInit
<1>2. LeaseInv /\ [Next]_vars => LeaseInv'
  BY InvStep
<1>3. QED
  BY <1>1, <1>2, PTL DEF Spec

\* Every variable keeps its type.
THEOREM LeaseTypeCorrect == Spec => []TypeOK
<1>1. LeaseInv => TypeOK
  BY DEF LeaseInv
<1>2. QED
  BY <1>1, LeaseInvariant, PTL

\* However many processes run, an account's slot is driven by one job under its lease.
THEOREM SlotIsExclusive == Spec => []OneJobPerSlot
<1>1. LeaseInv => OneJobPerSlot
  <2>1. SUFFICES ASSUME LeaseInv, NEW i \in Leased, NEW j \in Leased, Key(i) = Key(j)
                 PROVE  i = j
    BY DEF OneJobPerSlot, Key
  <2>2. accountLock[Key(i)] = i /\ accountLock[Key(j)] = j
    BY <2>1 DEF LeaseInv, LocksMatch, HoldsItsLocks, Leased, AccountSteps
  <2>3. QED
    BY <2>1, <2>2
<1>2. QED
  BY <1>1, LeaseInvariant, PTL

\* The provider never has more leased jobs than global slots: distinct leased jobs hold
\* distinct global locks.
THEOREM CeilingHolds == Spec => []ProviderCeiling
<1>1. LeaseInv => ProviderCeiling
  <2> DEFINE f == [j \in Leased |-> candidate[j]]
  <2>1. SUFFICES ASSUME LeaseInv PROVE Cardinality(Leased) <= Slots
    BY DEF ProviderCeiling
  <2>2. f \in [Leased -> SlotRange]
    BY <2>1 DEF LeaseInv, TypeOK, Leased
  <2>3. \A i, j \in Leased : f[i] = f[j] => i = j
    BY <2>1 DEF LeaseInv, LocksMatch, HoldsItsLocks, Leased, GlobalSteps
  <2>4. f \in Injection(Leased, SlotRange)
    BY <2>2, <2>3, Fun_IsInj
  <2>5. IsFiniteSet(SlotRange) /\ Cardinality(SlotRange) = Slots
    <3>1. Slots \in Nat \ {0} /\ 0 \in Int /\ Slots - 1 \in Int
      BY LeaseAssumption
    <3>2. QED
      BY <3>1, FS_Interval DEF SlotRange
  <2>6. QED
    BY <2>4, <2>5, FS_Injection
<1>2. QED
  BY <1>1, LeaseInvariant, PTL

\* Within a process no two jobs hold the same slot of an account.
THEOREM PageIsExclusive == Spec => []OneJobPerPage
<1>1. LeaseInv => OneJobPerPage
  BY DEF LeaseInv, Semaphore
<1>2. QED
  BY <1>1, LeaseInvariant, PTL

\* A lock that is held is held by a job that is on its way to giving it back.
THEOREM LocksAreReturned == Spec => []NoStrandedLock
<1>1. LeaseInv => NoStrandedLock
  <2>1. SUFFICES ASSUME LeaseInv PROVE NoStrandedLock
    OBVIOUS
  <2>2. /\ \A k \in Keys : accountLock[k] \in Jobs \cup {Nobody}
        /\ \A n \in SlotRange : globalLock[n] \in Jobs \cup {Nobody}
    BY <2>1 DEF LeaseInv, TypeOK, Keys
  <2>3. QED
    BY <2>1, <2>2
       DEF LeaseInv, LocksMatch, HoldsItsLocks, NoStrandedLock, AccountSteps, GlobalSteps, Keys
<1>2. QED
  BY <1>1, LeaseInvariant, PTL

\* What a lease is for: its slot, its page and its share of the provider are the job's own
\* (acquireAccountExecutionLease and the semaphore of handleJob together).
THEOREM LeasesAreKept == Spec => []LeasesKept
  <1>1. OneJobPerSlot /\ OneJobPerPage /\ ProviderCeiling => LeasesKept
    BY DEF LeasesKept
  <1> QED
    BY <1>1, SlotIsExclusive, PageIsExclusive, CeilingHolds, PTL

\* A semaphore loses no slot but to an exception of the acquisition, one for each: refused
\* leases, handed-on slots and every order of release give back what they took.
THEOREM LeaksAreAccounted == Spec => []LeaksAccounted
<1>1. Init => LeakCount
  <2>1. SUFFICES ASSUME Init PROVE LeakCount
    OBVIOUS
  <2>2. Leaked = {} /\ Unnoticed = {}
    BY <2>1 DEF Init, Leaked, Unnoticed
  <2>3. QED
    BY <2>1, <2>2, FS_EmptySet DEF Init, LeakCount
<1>2. LeaseInv /\ LeaseInv' /\ LeakCount /\ [Next]_vars => LeakCount'
  BY LeakStep
<1>3. LeaseInv /\ LeakCount => LeaksAccounted
  <2>1. SUFFICES ASSUME TypeOK, LeakCount PROVE LeaksAccounted
    BY DEF LeaseInv
  <2>2. IsFiniteSet(Unnoticed) /\ IsFiniteSet(Leaked)
    BY <2>1, LeaseAssumption, FS_Subset DEF Unnoticed, LeakCount
  <2>3. /\ Cardinality(Unnoticed) \in Nat /\ Cardinality(Leaked) \in Nat
        /\ faults \in Nat /\ deaths \in Nat
    BY <2>1, <2>2, FS_CardinalityType DEF TypeOK
  <2>4. QED
    BY <2>1, <2>3 DEF LeakCount, LeaksAccounted
<1>4. QED
  BY <1>1, <1>2, <1>3, LeaseInvariant, PTL DEF Spec

-----------------------------------------------------------------------------
(* The safety policy: sets of assignments *)

\* Sets of assignments are finite, and a part of one is no larger.
LEMMA AssignmentSets ==
    ASSUME NEW T \in SUBSET Assignments, NEW S \in SUBSET T
    PROVE  /\ IsFiniteSet(T) /\ Cardinality(T) \in Nat
           /\ Cardinality(S) \in Nat /\ Cardinality(S) <= Cardinality(T)
<1>1. IsFiniteSet(T)
  BY SafetyAssumption, FS_Subset
<1>2. QED
  BY <1>1, FS_Subset, FS_CardinalityType

\* What gains one assignment at most is larger by one at most.
LEMMA OneMore ==
    ASSUME NEW T \in SUBSET Assignments, NEW S, NEW j \in Assignments, S \subseteq T \cup {j}
    PROVE  Cardinality(S) \in Nat /\ Cardinality(S) <= Cardinality(T) + 1
<1>1. T \cup {j} \in SUBSET Assignments /\ IsFiniteSet(T)
  BY AssignmentSets
<1>2. Cardinality(T \cup {j}) <= Cardinality(T) + 1
  BY <1>1, FS_AddElement, AssignmentSets
<1>3. QED
  BY <1>1, <1>2, AssignmentSets

\* What loses one is smaller by one.
LEMMA OneLess ==
    ASSUME NEW T \in SUBSET Assignments, NEW j \in T, NEW S, S \subseteq T \ {j}
    PROVE  Cardinality(S) \in Nat /\ Cardinality(S) <= Cardinality(T) - 1
<1>1. IsFiniteSet(T) /\ T \ {j} \in SUBSET Assignments
  BY AssignmentSets
<1>2. Cardinality(T \ {j}) = Cardinality(T) - 1
  BY <1>1, FS_RemoveElement
<1>3. QED
  BY <1>1, <1>2, AssignmentSets

\* Two sets together are no larger than both.
LEMMA JointSets ==
    ASSUME NEW S \in SUBSET Assignments, NEW T \in SUBSET Assignments
    PROVE  Cardinality(S \cup T) <= Cardinality(S) + Cardinality(T)
<1>1. IsFiniteSet(S) /\ IsFiniteSet(T) /\ S \cap T \in SUBSET Assignments
  BY AssignmentSets
<1>2. Cardinality(S) \in Nat /\ Cardinality(T) \in Nat /\ Cardinality(S \cap T) \in Nat
  BY <1>1, AssignmentSets
<1>3. Cardinality(S \cup T) = Cardinality(S) + Cardinality(T) - Cardinality(S \cap T)
  BY <1>1, FS_Union
<1>4. QED
  BY <1>2, <1>3

\* The sets the policy speaks of.
LEMMA PolicySets ==
    /\ Ready \in SUBSET Busy /\ Cooling \in SUBSET Busy /\ Asking \in SUBSET Busy
    /\ Busy \in SUBSET Assignments /\ InWindow \in SUBSET Assignments
    /\ Cardinality(Ready) \in Nat /\ Cardinality(Cooling) \in Nat /\ Cardinality(Busy) \in Nat
    /\ Cardinality(InWindow) \in Nat
    /\ Cardinality(Ready) <= Cardinality(Busy) /\ Cardinality(Cooling) <= Cardinality(Busy)
<1>1. /\ Ready \in SUBSET Busy /\ Cooling \in SUBSET Busy /\ Asking \in SUBSET Busy
      /\ Busy \in SUBSET Assignments /\ InWindow \in SUBSET Assignments
  BY DEF Ready, Cooling, Asking, Busy, InWindow
<1>2. QED
  BY <1>1, AssignmentSets

\* They change only at the job that moves.
LEMMA MovesSets ==
    ASSUME SafetyTypeOK, NEW j \in Assignments,
           NEW l \in {"queued", "ready", "asking", "saved", "cool", "done", "skipped"}, Goto(j, l)
    PROVE  /\ Ready' = IF l = "ready" THEN Ready \cup {j} ELSE Ready \ {j}
           /\ Asking' = IF l = "asking" THEN Asking \cup {j} ELSE Asking \ {j}
           /\ Cooling' = IF l = "cool" THEN Cooling \cup {j} ELSE Cooling \ {j}
           /\ Busy' = IF l \in {"queued", "done", "skipped"} THEN Busy \ {j} ELSE Busy \cup {j}
<1>1. pc \in [Assignments -> {"queued", "ready", "asking", "saved", "cool", "done", "skipped"}]
  BY DEF SafetyTypeOK
<1>2. \A i \in Assignments : pc'[i] = IF i = j THEN l ELSE pc[i]
  BY <1>1 DEF Goto
<1>3. QED
  BY <1>2 DEF Ready, Asking, Cooling, Busy

-----------------------------------------------------------------------------
(* The safety policy: the invariant *)

\* No more jobs are in work than there are handlers.
BusyBounded == Cardinality(Busy) <= Handlers

\* Jobs that have made their check count as questions of the day.
DayAccounted == lane # "paced" => runsToday + Cardinality(Ready) <= DailyLimit + Handlers - 1

\* So they do for the window, until their row is saved.
InDemand == InWindow \cup Ready \cup Asking
WindowAccounted == Cardinality(InDemand) <= WindowLimit + Handlers - 1

\* The ghost counts no more than the row; past the maximum there is a job about to start
\* the cooldown, or its worker has died.
StreakAccounted ==
    /\ streak <= failures
    /\ streak <= MaxFailures - 1 + Cardinality(Cooling) + stalls

\* The block stands in the row, so that only jobs that have made their check go on.
BlockInRow ==
    manual => /\ lane # "paced" /\ paused /\ cooldown = NULL
              /\ late + Cardinality(Ready) <= Handlers

SafetyInv ==
    SafetyTypeOK /\ BusyBounded /\ DayAccounted /\ WindowAccounted /\ StreakAccounted /\ BlockInRow

-----------------------------------------------------------------------------
(* The safety policy: typing *)

\* A pause begins with its counts at their types.
LEMMA PauseTypes ==
    ASSUME SafetyTypeOK, NEW m \in BOOLEAN, NewPause(m)
    PROVE  manual' \in BOOLEAN /\ late' \in Nat /\ streak' \in Nat
BY DEF SafetyTypeOK, NewPause

LEMMA AttemptTypes ==
    ASSUME SafetyTypeOK, NEW j \in Assignments,
           Pass(j) \/ Skip(j) \/ Begin(j) \/ Save(j) \/ OpenFails(j) \/ Succeed(j)
    PROVE  SafetyTypeOK'
<1> USE SafetyAssumption DEF SafetyTypeOK, Goto, Untouched, rowVars, ghosts, NewPause, Statuses
<1>1. CASE Pass(j)
  BY <1>1 DEF Pass
<1>2. CASE Skip(j)
  BY <1>2 DEF Skip
<1>3. CASE Begin(j)
  BY <1>3 DEF Begin
<1>4. CASE Save(j)
  BY <1>4 DEF Save, SaveRow
<1>5. CASE OpenFails(j)
  BY <1>5 DEF OpenFails, End
<1>6. CASE Succeed(j)
  BY <1>6 DEF Succeed
<1>7. QED
  BY <1>1, <1>2, <1>3, <1>4, <1>5, <1>6

\* A delay is a number of ticks.
LEMMA RetryTimesType ==
    ASSUME SafetyTypeOK
    PROVE  RetryTimes \subseteq Nat
BY SafetyAssumption DEF SafetyTypeOK, RetryTimes, When, InWindow

LEMMA RecordTypes ==
    ASSUME SafetyTypeOK, NEW j \in Assignments,
           \/ Delay(j) \/ RecordBlock(j) \/ RecordNothing(j) \/ CountFailure(j)
           \/ StartCooldown(j) \/ Die(j)
    PROVE  SafetyTypeOK'
<1> USE SafetyAssumption DEF SafetyTypeOK, Goto, Untouched, rowVars, ghosts, Statuses
<1>1. CASE Delay(j)
  <2>1. PICK t \in Nat : delay' = [delay EXCEPT ![j] = t]
    BY <1>1, RetryTimesType DEF Delay
  <2>2. QED
    BY <1>1, <2>1 DEF Delay
<1>2. CASE RecordBlock(j)
  <2>1. PICK m \in BOOLEAN : Block(m)
    BY <1>2 DEF RecordBlock
  <2>2. QED
    BY <1>2, <2>1, PauseTypes DEF RecordBlock, Block
<1>3. CASE RecordNothing(j)
  BY <1>3 DEF RecordNothing, End
<1>4. CASE CountFailure(j)
  BY <1>4 DEF CountFailure, End
<1>5. CASE StartCooldown(j)
  <2>1. manual' \in BOOLEAN /\ late' \in Nat /\ streak' \in Nat
    BY <1>5, PauseTypes DEF StartCooldown
  <2>2. pc' \in [Assignments -> {"queued", "ready", "asking", "saved", "cool", "done", "skipped"}]
    BY <1>5 DEF StartCooldown, End
  <2>3. QED
    BY <1>5, <2>1, <2>2 DEF StartCooldown
<1>6. CASE Die(j)
  BY <1>6 DEF Die
<1>7. QED
  BY <1>1, <1>2, <1>3, <1>4, <1>5, <1>6

LEMMA OperatorTypes ==
    ASSUME SafetyTypeOK, Resume \/ Switch \/ LoginConnected \/ LoginBlocked \/ Tick
    PROVE  SafetyTypeOK'
<1> USE SafetyAssumption
    DEF SafetyTypeOK, Command, rowVars, jobVars, ghosts, Statuses
<1>1. CASE Resume
  <2>1. manual' \in BOOLEAN /\ late' \in Nat /\ streak' \in Nat
    BY <1>1, PauseTypes DEF Resume
  <2>2. /\ status' \in Statuses /\ paused' \in BOOLEAN
        /\ cooldown' \in 0..Cooldown \cup {NULL} /\ failures' \in Nat
    BY <1>1 DEF Resume
  <2>3. QED
    BY <1>1, <2>1, <2>2 DEF Resume
<1>2. CASE Switch
  BY <1>2 DEF Switch
<1>3. CASE LoginConnected
  <2>1. manual' \in BOOLEAN /\ late' \in Nat /\ streak' \in Nat
    BY <1>3, PauseTypes DEF LoginConnected
  <2>2. status' \in Statuses /\ paused' \in BOOLEAN
    <3>1. CASE cooldown \notin {NULL, 0}
      BY <1>3, <3>1 DEF LoginConnected
    <3>2. CASE cooldown \in {NULL, 0}
      BY <1>3, <3>2 DEF LoginConnected
    <3>3. QED
      BY <3>1, <3>2
  <2>3. cooldown' = cooldown /\ failures' \in {0, failures}
    BY <1>3 DEF LoginConnected
  <2>4. QED
    BY <1>3, <2>1, <2>2, <2>3 DEF LoginConnected
<1>4. CASE LoginBlocked
  <2>1. manual' \in BOOLEAN /\ late' \in Nat /\ streak' \in Nat
    BY <1>4, PauseTypes DEF LoginBlocked, Block
  <2>2. /\ status' \in Statuses /\ paused' \in BOOLEAN
        /\ cooldown' \in 0..Cooldown \cup {NULL} /\ failures' \in Nat
    BY <1>4 DEF LoginBlocked, Block
  <2>3. QED
    BY <1>4, <2>1, <2>2 DEF LoginBlocked, Block
<1>5. CASE Tick
  BY <1>5 DEF Tick, Age, Lower, Later
<1>6. QED
  BY <1>1, <1>2, <1>3, <1>4, <1>5

LEMMA SafetyTypeStep ==
    ASSUME SafetyTypeOK, [SafetyNext]_safetyVars
    PROVE  SafetyTypeOK'
<1>1. CASE \E j \in Assignments : JobStep(j) \/ Die(j)
  BY <1>1, AttemptTypes, RecordTypes DEF JobStep
<1>2. CASE Resume \/ Switch \/ LoginConnected \/ LoginBlocked \/ Tick
  BY <1>2, OperatorTypes
<1>3. CASE UNCHANGED safetyVars
  BY <1>3 DEF safetyVars, SafetyTypeOK, rowVars, jobVars, ghosts
<1>4. QED
  BY <1>1, <1>2, <1>3 DEF SafetyNext

-----------------------------------------------------------------------------
(* The safety policy: what a step does to the counts *)

\* A job that goes where End sends it is out of work.
LEMMA EndStops ==
    ASSUME SafetyTypeOK, NEW j \in Assignments, End(j)
    PROVE  /\ Ready' = Ready \ {j} /\ Asking' = Asking \ {j} /\ Cooling' = Cooling \ {j}
           /\ Busy' = Busy \ {j}
BY MovesSets DEF End

\* Only Pass puts a job to work, under the bound.
LEMMA BusyStep ==
    ASSUME SafetyTypeOK, BusyBounded, [SafetyNext]_safetyVars
    PROVE  BusyBounded'
<1>1. SUFFICES \/ Busy' \subseteq Busy
               \/ \E j \in Assignments : Busy' \subseteq Busy \cup {j} /\ Cardinality(Busy) < Handlers
  <2>1. CASE Busy' \subseteq Busy
    <3>1. Cardinality(Busy') <= Cardinality(Busy) /\ Cardinality(Busy') \in Nat
      BY <2>1, PolicySets, AssignmentSets
    <3>2. QED
      BY <3>1, PolicySets, SafetyAssumption DEF BusyBounded
  <2>2. CASE \E j \in Assignments : Busy' \subseteq Busy \cup {j} /\ Cardinality(Busy) < Handlers
    <3>1. Cardinality(Busy') <= Cardinality(Busy) + 1 /\ Cardinality(Busy') \in Nat
      BY <2>2, PolicySets, OneMore
    <3>2. QED
      BY <2>2, <3>1, PolicySets, SafetyAssumption DEF BusyBounded
  <2>3. QED
    BY <1>1, <2>1, <2>2
<1>2. CASE \E j \in Assignments : JobStep(j) \/ Die(j)
  <2>1. PICK j \in Assignments : JobStep(j) \/ Die(j)
    BY <1>2
  <2>2. CASE Pass(j)
    BY <2>2, MovesSets DEF Pass, Claimable
  <2>3. CASE Delay(j)
    BY <2>3 DEF Delay, Busy
  <2>4. CASE Skip(j)
    BY <2>4, MovesSets DEF Skip
  <2>5. CASE Begin(j)
    BY <2>5, MovesSets DEF Begin, Busy
  <2>6. CASE Save(j)
    BY <2>6, MovesSets DEF Save, Busy
  <2>7. CASE OpenFails(j)
    BY <2>7, EndStops DEF OpenFails
  <2>8. CASE Succeed(j)
    BY <2>8, MovesSets DEF Succeed
  <2>9. CASE RecordBlock(j)
    BY <2>9, MovesSets DEF RecordBlock
  <2>10. CASE RecordNothing(j)
    BY <2>10, EndStops, MovesSets DEF RecordNothing
  <2>11. CASE CountFailure(j)
    BY <2>11, EndStops, MovesSets DEF CountFailure, Busy
  <2>12. CASE StartCooldown(j)
    BY <2>12, EndStops DEF StartCooldown
  <2>13. CASE Die(j)
    BY <2>13, MovesSets DEF Die
  <2>14. QED
    BY <2>1, <2>2, <2>3, <2>4, <2>5, <2>6, <2>7, <2>8, <2>9, <2>10, <2>11, <2>12, <2>13
    DEF JobStep
<1>3. CASE Resume \/ Switch \/ LoginConnected \/ LoginBlocked \/ Tick
  BY <1>3 DEF Resume, Switch, LoginConnected, LoginBlocked, Tick, jobVars, Busy
<1>4. CASE UNCHANGED safetyVars
  BY <1>4 DEF safetyVars, jobVars, Busy
<1>5. QED
  BY <1>2, <1>3, <1>4 DEF SafetyNext

\* A job passes the check only below every limit.
LEMMA PassBelowLimits ==
    ASSUME SafetyTypeOK, RetryTimes = {}
    PROVE  /\ lane # "paced" => runsToday < DailyLimit
           /\ Cardinality(InWindow) < WindowLimit
<1>1. lane # "paced" => runsToday < DailyLimit
  BY SafetyAssumption DEF RetryTimes, When, SafetyTypeOK
<1>2. Cardinality(InWindow) < WindowLimit
  <2>1. SUFFICES ASSUME Cardinality(InWindow) >= WindowLimit PROVE FALSE
    BY PolicySets, SafetyAssumption
  <2>2. InWindow # {}
    BY <2>1, FS_EmptySet, SafetyAssumption
  <2>3. QED
    BY <2>1, <2>2 DEF RetryTimes, When
<1>3. QED
  BY <1>1, <1>2

\* A job that passes was not in work, so that those ready afterwards fit the handlers.
LEMMA PassFits ==
    ASSUME SafetyTypeOK, NEW j \in Assignments, Pass(j)
    PROVE  Ready' = Ready \cup {j} /\ Cardinality(Ready') \in Nat /\ Cardinality(Ready') <= Handlers
<1>1. Ready' = Ready \cup {j} /\ Cardinality(Busy) < Handlers
  BY MovesSets DEF Pass, Claimable
<1>2. Ready \in SUBSET Assignments /\ Cardinality(Ready) <= Cardinality(Busy)
  BY PolicySets
<1>3. Cardinality(Ready') <= Cardinality(Ready) + 1 /\ Cardinality(Ready') \in Nat
  BY <1>1, <1>2, OneMore
<1>4. QED
  BY <1>1, <1>2, <1>3, PolicySets, SafetyAssumption

\* What any other step does to the jobs that have made their check: Begin takes one away.
LEMMA OthersKeepReady ==
    ASSUME SafetyTypeOK, NEW j \in Assignments, JobStep(j) \/ Die(j), ~Pass(j)
    PROVE  /\ Ready' \subseteq Ready /\ Cardinality(Ready') \in Nat
           /\ Cardinality(Ready') <= Cardinality(Ready)
           /\ Begin(j) => Cardinality(Ready') <= Cardinality(Ready) - 1
<1>1. Begin(j) => j \in Ready /\ Ready' = Ready \ {j}
  BY MovesSets DEF Begin, Ready
<1>2. Ready' \subseteq Ready
  <2>1. CASE Delay(j)
    BY <2>1 DEF Delay, Ready
  <2>2. CASE Skip(j) \/ Begin(j) \/ Save(j) \/ Succeed(j) \/ RecordBlock(j) \/ Die(j)
    BY <2>2, MovesSets DEF Skip, Begin, Save, Succeed, RecordBlock, Die
  <2>3. CASE OpenFails(j) \/ StartCooldown(j)
    BY <2>3, EndStops DEF OpenFails, StartCooldown
  <2>4. CASE RecordNothing(j) \/ CountFailure(j)
    BY <2>4, EndStops, MovesSets DEF RecordNothing, CountFailure
  <2>5. QED
    BY <2>1, <2>2, <2>3, <2>4 DEF JobStep
<1>3. Ready \in SUBSET Assignments
  BY DEF Ready
<1>4. QED
  BY <1>1, <1>2, <1>3, OneLess, AssignmentSets

-----------------------------------------------------------------------------
(* The safety policy: one lemma for each part of the invariant *)

\* What the operator, the clock and a stutter leave alone.
LEMMA QuietKeepsSets ==
    ASSUME Resume \/ Switch \/ LoginConnected \/ LoginBlocked \/ Tick \/ UNCHANGED safetyVars
    PROVE  Ready' = Ready /\ Asking' = Asking /\ Cooling' = Cooling /\ lane' = lane /\ stalls' = stalls
BY DEF Resume, Switch, LoginConnected, LoginBlocked, Block, Tick, safetyVars, jobVars,
       Ready, Asking, Cooling

\* Begin turns a job that is ready into a question of the day, and a new day only lowers
\* the count.
LEMMA DayStep ==
    ASSUME SafetyTypeOK, SafetyTypeOK', BusyBounded, DayAccounted, [SafetyNext]_safetyVars
    PROVE  DayAccounted'
<1> USE SafetyAssumption DEF DayAccounted
<1>1. runsToday \in Nat /\ runsToday' \in Nat
  BY DEF SafetyTypeOK
<1>2. ASSUME NEW j \in Assignments, JobStep(j) \/ Die(j)
      PROVE  DayAccounted'
  <2>1. CASE Pass(j)
    <3>1. runsToday' = runsToday /\ lane' = lane /\ RetryTimes = {}
      BY <2>1 DEF Pass, Untouched, rowVars
    <3>2. QED
      BY <1>1, <2>1, <3>1, PassBelowLimits, PassFits, PolicySets
  <2>2. CASE ~Pass(j)
    <3>1. lane' = lane /\ runsToday' = IF Begin(j) THEN runsToday + 1 ELSE runsToday
      BY <1>2, <2>2 DEF JobStep, Delay, Skip, Begin, Save, OpenFails, Succeed, RecordBlock, Block,
         RecordNothing, CountFailure, StartCooldown, Die, Untouched, rowVars
    <3>2. QED
      BY <1>1, <1>2, <2>2, <3>1, OthersKeepReady, PolicySets
  <2>3. QED
    BY <2>1, <2>2
<1>3. ASSUME Resume \/ Switch \/ LoginConnected \/ LoginBlocked \/ Tick \/ UNCHANGED safetyVars
      PROVE  DayAccounted'
  <2>1. Ready' = Ready /\ lane' = lane
    BY <1>3, QuietKeepsSets
  <2>2. runsToday' <= runsToday
    <3>1. CASE Tick
      BY <1>1, <3>1 DEF Tick
    <3>2. CASE ~Tick
      <4>1. runsToday' = runsToday
        BY <1>3, <3>2 DEF Resume, Switch, LoginConnected, LoginBlocked, Block, safetyVars, rowVars
      <4>2. QED
        BY <1>1, <4>1
    <3>3. QED
      BY <3>1, <3>2
  <2>3. QED
    BY <1>1, <2>1, <2>2, PolicySets
<1>4. QED
  BY <1>2, <1>3 DEF SafetyNext

\* Those in demand change by the job that passes; what is saved was asked, and time only
\* takes rows out of the window.
LEMMA DemandStep ==
    ASSUME SafetyTypeOK, [SafetyNext]_safetyVars
    PROVE  \/ InDemand' \subseteq InDemand
           \/ \E j \in Assignments : Pass(j) /\ InDemand' = InWindow \cup Ready' \cup Asking'
                                     /\ InWindow' = InWindow /\ Asking' = Asking
<1> USE DEF InDemand
<1>1. ASSUME NEW j \in Assignments, rows' = rows PROVE InWindow' = InWindow
  BY <1>1 DEF InWindow
<1>2. ASSUME NEW j \in Assignments, JobStep(j) \/ Die(j)
      PROVE  \/ InDemand' \subseteq InDemand
             \/ /\ Pass(j) /\ InDemand' = InWindow \cup Ready' \cup Asking'
                /\ InWindow' = InWindow /\ Asking' = Asking
  <2>1. CASE Pass(j)
    <3>1. Asking' = Asking \ {j} /\ rows' = rows /\ j \notin Asking
      BY <2>1, MovesSets DEF Pass, Claimable, Asking
    <3>2. QED
      BY <1>1, <2>1, <3>1
  <2>2. CASE Delay(j)
    BY <2>2 DEF Delay, InWindow, Ready, Asking
  <2>3. CASE Begin(j)
    <3>1. Asking' = Asking \cup {j} /\ Ready' = Ready \ {j} /\ rows' = rows /\ j \in Ready
      BY <2>3, MovesSets DEF Begin, Ready
    <3>2. QED
      BY <1>1, <3>1
  <2>4. CASE Save(j)
    <3>1. Asking' = Asking \ {j} /\ Ready' = Ready \ {j} /\ j \in Asking
      BY <2>4, MovesSets DEF Save, Asking
    <3>2. InWindow' \subseteq InWindow \cup {j}
      <4>1. \A i \in Assignments \ {j} : rows'[i] = rows[i]
        BY <2>4 DEF Save, SaveRow, SafetyTypeOK
      <4>2. QED
        BY <4>1 DEF InWindow
    <3>3. QED
      BY <3>1, <3>2
  <2>5. CASE Skip(j) \/ Succeed(j) \/ RecordBlock(j) \/ Die(j)
    <3>1. Asking' = Asking \ {j} /\ Ready' = Ready \ {j} /\ rows' = rows
      BY <2>5, MovesSets DEF Skip, Succeed, RecordBlock, Die
    <3>2. QED
      BY <1>1, <3>1
  <2>6. CASE OpenFails(j) \/ StartCooldown(j)
    <3>1. Asking' = Asking \ {j} /\ Ready' = Ready \ {j} /\ rows' = rows
      BY <2>6, EndStops DEF OpenFails, StartCooldown
    <3>2. QED
      BY <1>1, <3>1
  <2>7. CASE RecordNothing(j) \/ CountFailure(j)
    <3>1. Asking' = Asking \ {j} /\ Ready' = Ready \ {j} /\ rows' = rows
      BY <2>7, EndStops, MovesSets DEF RecordNothing, CountFailure
    <3>2. QED
      BY <1>1, <3>1
  <2>8. QED
    BY <1>2, <2>1, <2>2, <2>3, <2>4, <2>5, <2>6, <2>7 DEF JobStep
<1>3. ASSUME Resume \/ Switch \/ LoginConnected \/ LoginBlocked \/ Tick \/ UNCHANGED safetyVars
      PROVE  InDemand' \subseteq InDemand
  <2>1. InWindow' \subseteq InWindow
    <3>1. CASE Tick
      <4>1. \A i \in Assignments :
               rows'[i] = IF rows[i] = NULL THEN NULL ELSE Lower(rows[i] + 1, Window)
        BY <3>1 DEF Tick, Age
      <4>2. ASSUME NEW i \in Assignments, rows'[i] \in 0..(Window - 1)
            PROVE  rows[i] \in 0..(Window - 1)
        <5>1. rows[i] \in 0..Window \cup {NULL}
          BY DEF SafetyTypeOK
        <5>2. QED
          BY <4>1, <4>2, <5>1, SafetyAssumption DEF Lower
      <4>3. QED
        BY <4>2 DEF InWindow
    <3>2. CASE ~Tick
      BY <1>3, <3>2 DEF Resume, Switch, LoginConnected, LoginBlocked, safetyVars, jobVars, InWindow
    <3>3. QED
      BY <3>1, <3>2
  <2>2. QED
    BY <1>3, <2>1, QuietKeepsSets
<1>4. QED
  BY <1>2, <1>3 DEF SafetyNext

LEMMA WindowStep ==
    ASSUME SafetyTypeOK, BusyBounded, WindowAccounted, [SafetyNext]_safetyVars
    PROVE  WindowAccounted'
<1>1. InDemand \in SUBSET Assignments
  BY DEF InDemand, InWindow, Ready, Asking
<1>2. CASE InDemand' \subseteq InDemand
  BY <1>1, <1>2, AssignmentSets, SafetyAssumption DEF WindowAccounted
<1>3. CASE \E j \in Assignments : Pass(j) /\ InDemand' = InWindow \cup Ready' \cup Asking'
                                 /\ InWindow' = InWindow /\ Asking' = Asking
  <2>1. PICK j \in Assignments : Pass(j) /\ InDemand' = InWindow \cup Ready' \cup Asking
    BY <1>3
  <2>2. Ready' = Ready \cup {j} /\ Cardinality(Busy) < Handlers /\ RetryTimes = {}
    BY <2>1, PassFits DEF Pass, Claimable
  <2>3. Cardinality(InWindow) < WindowLimit
    BY <2>2, PassBelowLimits
  <2>4. InDemand' \subseteq (InWindow \cup Busy) \cup {j} /\ InWindow \cup Busy \in SUBSET Assignments
    BY <2>1, <2>2, PolicySets
  <2>5. Cardinality(InWindow \cup Busy) <= Cardinality(InWindow) + Cardinality(Busy)
    BY PolicySets, JointSets
  <2>6. Cardinality(InDemand') <= Cardinality(InWindow \cup Busy) + 1 /\ Cardinality(InDemand') \in Nat
    BY <2>4, OneMore
  <2>7. QED
    BY <2>2, <2>3, <2>4, <2>5, <2>6, PolicySets, AssignmentSets, SafetyAssumption DEF WindowAccounted
<1>4. QED
  BY <1>2, <1>3, DemandStep

\* Failure by failure the ghost follows the row; the failure that reaches the maximum
\* leaves its job about to start the cooldown, unless its worker dies.
LEMMA StreakStep ==
    ASSUME SafetyTypeOK, SafetyTypeOK', StreakAccounted, [SafetyNext]_safetyVars
    PROVE  StreakAccounted'
<1>1. /\ streak \in Nat /\ failures \in Nat /\ streak' \in Nat /\ failures' \in Nat
      /\ stalls \in Nat /\ stalls' \in Nat /\ MaxFailures \in Nat \ {0}
      /\ Cardinality(Cooling) \in Nat /\ Cooling \in SUBSET Assignments
  BY SafetyAssumption, PolicySets DEF SafetyTypeOK, Cooling
<1>2. Cardinality(Cooling') \in Nat
  <2>1. Cooling' \in SUBSET Assignments
    BY DEF Cooling
  <2>2. QED
    BY <2>1, AssignmentSets
<1>3. ASSUME streak' = 0 PROVE StreakAccounted'
  BY <1>1, <1>2, <1>3 DEF StreakAccounted
<1>4. ASSUME streak' = streak, failures' = failures, stalls' = stalls, Cooling \subseteq Cooling',
             Cooling' \in SUBSET Assignments
      PROVE  StreakAccounted'
  <2>1. Cardinality(Cooling) <= Cardinality(Cooling')
    BY <1>4, AssignmentSets
  <2>2. QED
    BY <1>1, <1>2, <1>4, <2>1 DEF StreakAccounted
<1>5. ASSUME NEW j \in Assignments, JobStep(j) \/ Die(j)
      PROVE  StreakAccounted'
  <2>1. CASE Pass(j) \/ Delay(j) \/ Skip(j) \/ Begin(j) \/ Save(j) \/ OpenFails(j) \/ RecordNothing(j)
    <3>1. streak' = streak /\ failures' = failures /\ stalls' = stalls
      BY <2>1 DEF Pass, Delay, Skip, Begin, Save, OpenFails, RecordNothing, Untouched, rowVars, ghosts
    <3>2. j \notin Cooling
      BY <2>1 DEF Pass, Delay, Skip, Begin, Save, OpenFails, RecordNothing, Claimable, Cooling
    <3>3. Cooling' = Cooling
      <4>1. CASE Delay(j)
        BY <4>1 DEF Delay, Cooling
      <4>2. CASE Pass(j) \/ Skip(j) \/ Begin(j) \/ Save(j)
        BY <3>2, <4>2, MovesSets DEF Pass, Skip, Begin, Save
      <4>3. CASE OpenFails(j) \/ RecordNothing(j)
        BY <3>2, <4>3, EndStops, MovesSets DEF OpenFails, RecordNothing
      <4>4. QED
        BY <2>1, <4>1, <4>2, <4>3
    <3>4. QED
      BY <1>1, <1>4, <3>1, <3>3
  <2>2. CASE Succeed(j) \/ RecordBlock(j) \/ StartCooldown(j)
    <3>1. streak' = 0
      BY <2>2 DEF Succeed, RecordBlock, Block, StartCooldown, NewPause
    <3>2. QED
      BY <1>3, <3>1
  <2>3. CASE CountFailure(j)
    <3>1. streak' = streak + 1 /\ failures' = failures + 1 /\ stalls' = stalls /\ j \notin Cooling
      BY <2>3 DEF CountFailure, Cooling
    <3>2. CASE failures + 1 >= MaxFailures
      <4>1. Cooling' = Cooling \cup {j}
        BY <2>3, <3>2, MovesSets DEF CountFailure, ReachesMaximum
      <4>2. Cardinality(Cooling') = Cardinality(Cooling) + 1
        BY <1>1, <3>1, <4>1, AssignmentSets, FS_AddElement
      <4>3. QED
        BY <1>1, <3>1, <4>2 DEF StreakAccounted
    <3>3. CASE ~(failures + 1 >= MaxFailures)
      BY <1>1, <1>2, <3>1, <3>3 DEF StreakAccounted
    <3>4. QED
      BY <3>2, <3>3
  <2>4. CASE Die(j)
    <3>1. streak' = streak /\ failures' = failures /\ stalls' = stalls + 1
      BY <2>4 DEF Die, rowVars, ghosts
    <3>2. Cooling' = Cooling \ {j}
      BY <2>4, MovesSets DEF Die
    <3>3. Cardinality(Cooling) <= Cardinality(Cooling') + 1
      BY <1>1, <3>2, OneMore
    <3>4. QED
      BY <1>1, <1>2, <3>1, <3>3 DEF StreakAccounted
  <2>5. QED
    BY <1>5, <2>1, <2>2, <2>3, <2>4 DEF JobStep
<1>6. ASSUME Resume \/ Switch \/ LoginConnected \/ LoginBlocked \/ Tick \/ UNCHANGED safetyVars
      PROVE  StreakAccounted'
  <2>1. streak' = 0 \/ (streak' = streak /\ failures' = failures)
    BY <1>6 DEF Resume, Switch, LoginConnected, LoginBlocked, Block, Tick, safetyVars, rowVars, ghosts,
                NewPause
  <2>2. QED
    BY <1>1, <1>3, <1>4, <1>6, <2>1, QuietKeepsSets
<1>7. QED
  BY <1>5, <1>6 DEF SafetyNext

\* A block that needs a person is written in one statement: from then on no job passes, and
\* each that had passed before asks once.
LEMMA BlockStep ==
    ASSUME SafetyTypeOK, SafetyTypeOK', BusyBounded, BusyBounded', BlockInRow,
           [SafetyNext]_safetyVars
    PROVE  BlockInRow'
<1>1. /\ late \in Nat /\ late' \in Nat /\ Handlers \in Nat
      /\ Cardinality(Ready) \in Nat /\ Cardinality(Ready) <= Handlers
  BY SafetyAssumption, PolicySets DEF SafetyTypeOK, BusyBounded
<1>2. Cardinality(Ready') \in Nat /\ Cardinality(Ready') <= Handlers
  <2>1. Ready' \in SUBSET Busy' /\ Busy' \in SUBSET Assignments
    BY DEF Ready, Busy
  <2>2. QED
    BY <2>1, AssignmentSets, SafetyAssumption DEF BusyBounded
<1>3. ASSUME manual' = FALSE PROVE BlockInRow'
  BY <1>3 DEF BlockInRow
<1>4. ASSUME manual' = manual, manual => late' = late, lane' = lane, paused' = paused,
             manual => cooldown' = cooldown, Cardinality(Ready') <= Cardinality(Ready)
      PROVE  BlockInRow'
  BY <1>1, <1>2, <1>4 DEF BlockInRow
<1>5. ASSUME Block(TRUE), lane = "credentialed", Cardinality(Ready') <= Cardinality(Ready)
      PROVE  BlockInRow'
  <2>1. /\ manual' = TRUE /\ paused' = TRUE /\ cooldown' = NULL /\ lane' = lane
        /\ late' = IF manual THEN late ELSE 0
    BY <1>5 DEF Block, NewPause
  <2>2. late' + Cardinality(Ready') <= Handlers
    BY <1>1, <1>2, <1>5, <2>1 DEF BlockInRow
  <2>3. QED
    BY <1>5, <2>1, <2>2 DEF BlockInRow
<1>6. ASSUME NEW j \in Assignments, JobStep(j) \/ Die(j)
      PROVE  BlockInRow'
  <2>1. CASE Pass(j)
    <3>1. manual' = manual /\ ~manual
      BY <2>1 DEF Pass, Untouched, ghosts, Halted, BlockInRow
    <3>2. QED
      BY <3>1 DEF BlockInRow
  <2>2. CASE Begin(j)
    <3>1. /\ manual' = manual /\ lane' = lane /\ paused' = paused
          /\ late' = IF manual THEN late + 1 ELSE late
          /\ cooldown' = cooldown \/ cooldown' = NULL
      BY <2>2 DEF Begin
    <3>2. Cardinality(Ready') <= Cardinality(Ready) - 1
      BY <1>6, <2>2, OthersKeepReady DEF Begin, Pass, Claimable
    <3>3. QED
      BY <1>1, <1>2, <3>1, <3>2 DEF BlockInRow
  <2>3. CASE ~Pass(j) /\ ~Begin(j)
    <3>1. Cardinality(Ready') <= Cardinality(Ready)
      BY <1>6, <2>3, OthersKeepReady
    <3>2. CASE Delay(j) \/ Skip(j) \/ Save(j) \/ OpenFails(j) \/ RecordNothing(j) \/ CountFailure(j) \/ Die(j)
      <4>1. manual' = manual /\ late' = late /\ lane' = lane /\ paused' = paused /\ cooldown' = cooldown
        BY <3>2 DEF Delay, Skip, Save, OpenFails, RecordNothing, CountFailure, Die, Untouched, rowVars,
                    ghosts
      <4>2. QED
        BY <1>4, <3>1, <4>1
    <3>3. CASE Succeed(j) \/ StartCooldown(j)
      BY <1>3, <3>3 DEF Succeed, StartCooldown, NewPause
    <3>4. CASE RecordBlock(j)
      <4>1. PICK m \in BOOLEAN : Block(m)
        BY <3>4 DEF RecordBlock
      <4>2. CASE m
        BY <1>5, <3>1, <3>4, <4>1, <4>2 DEF RecordBlock
      <4>3. CASE ~m
        BY <1>3, <4>1, <4>3 DEF Block, NewPause
      <4>4. QED
        BY <4>2, <4>3
    <3>5. QED
      BY <1>6, <2>3, <3>2, <3>3, <3>4 DEF JobStep
  <2>4. QED
    BY <2>1, <2>2, <2>3
<1>7. ASSUME Resume \/ Switch \/ LoginConnected \/ LoginBlocked \/ Tick \/ UNCHANGED safetyVars
      PROVE  BlockInRow'
  <2>1. Cardinality(Ready') <= Cardinality(Ready)
    BY <1>1, <1>7, QuietKeepsSets
  <2>2. CASE Resume
    BY <1>3, <2>2 DEF Resume, NewPause
  <2>3. CASE LoginBlocked
    BY <1>5, <2>1, <2>3 DEF LoginBlocked
  <2>4. CASE LoginConnected
    BY <1>3, <1>4, <2>1, <2>4 DEF LoginConnected, NewPause, ghosts
  <2>5. CASE Switch \/ UNCHANGED safetyVars
    BY <1>4, <2>1, <2>5 DEF Switch, safetyVars, ghosts, rowVars
  <2>6. CASE Tick
    <3>1. /\ manual' = manual /\ late' = late /\ lane' = lane /\ paused' = paused
          /\ cooldown = NULL => cooldown' = NULL
      BY <2>6 DEF Tick, ghosts
    <3>2. QED
      BY <1>4, <2>1, <3>1 DEF BlockInRow
  <2>7. QED
    BY <1>7, <2>2, <2>3, <2>4, <2>5, <2>6
<1>8. QED
  BY <1>6, <1>7 DEF SafetyNext

-----------------------------------------------------------------------------
(* The safety policy: the theorems *)

\* At first no job is in work and nothing has been asked.
LEMMA SafetyInitially == SafetyInit => SafetyInv
<1> SUFFICES ASSUME SafetyInit PROVE SafetyInv
  OBVIOUS
<1> USE SafetyAssumption
<1>1. SafetyTypeOK
  <2>1. /\ rows \in [Assignments -> 0..Window \cup {NULL}]
        /\ pc \in [Assignments -> {"queued", "ready", "asking", "saved", "cool", "done", "skipped"}]
        /\ delay \in [Assignments -> Nat] /\ waits \in [Assignments -> 0..MaxWaits]
        /\ attempts \in [Assignments -> Nat] /\ asked \in [Assignments -> 0..Window]
    BY DEF SafetyInit
  <2>2. /\ cooldown \in 0..Cooldown \cup {NULL} /\ failures \in Nat /\ runsToday \in Nat
        /\ sinceRun \in 0..MinGap /\ midnight \in 1..Day
    BY DEF SafetyInit
  <2>3. /\ late \in Nat /\ streak \in Nat
        /\ commands \in 0..MaxCommands /\ stalls \in 0..MaxStalls
    BY DEF SafetyInit
  <2>4. /\ lane \in {"credentialed", "throttled", "paced"} /\ status \in Statuses
        /\ enabled \in BOOLEAN /\ paused \in BOOLEAN /\ manual \in BOOLEAN
    BY DEF SafetyInit, Statuses
  <2>5. QED
    BY <2>1, <2>2, <2>3, <2>4 DEF SafetyTypeOK
<1>2. Busy = {} /\ Ready = {} /\ Asking = {} /\ Cooling = {} /\ InWindow = {}
  BY DEF SafetyInit, Busy, Ready, Asking, Cooling, InWindow
<1>3. InDemand = {} /\ Cardinality({}) = 0
  BY <1>2, FS_EmptySet DEF InDemand
<1>4. BusyBounded /\ WindowAccounted
  BY <1>2, <1>3 DEF BusyBounded, WindowAccounted
<1>5. DayAccounted /\ StreakAccounted /\ BlockInRow
  BY <1>2, <1>3 DEF SafetyInit, DayAccounted, StreakAccounted, BlockInRow
<1>6. QED
  BY <1>1, <1>4, <1>5 DEF SafetyInv

LEMMA SafetyInvStep == SafetyInv /\ [SafetyNext]_safetyVars => SafetyInv'
<1> SUFFICES ASSUME SafetyInv, [SafetyNext]_safetyVars PROVE SafetyInv'
  OBVIOUS
<1>1. SafetyTypeOK' /\ BusyBounded'
  BY SafetyTypeStep, BusyStep DEF SafetyInv
<1>2. QED
  BY <1>1, DayStep, WindowStep, StreakStep, BlockStep DEF SafetyInv

LEMMA SafetyIsInductive == SafetySpec => []SafetyInv
BY SafetyInitially, SafetyInvStep, PTL DEF SafetySpec

\* The row of the account, the jobs and the ghosts always have their types.
THEOREM SafetyTypeCorrect == SafetySpec => []SafetyTypeOK
<1>1. SafetyInv => SafetyTypeOK
  BY DEF SafetyInv
<1>2. QED
  BY <1>1, SafetyIsInductive, PTL

\* However the handlers' checks and their later counting interleave, the limit of the day
\* and of the window is passed by the handlers at most, and an account that keeps failing
\* is cooled down (accountAvailability, beginAccountRun, persistRun, recordAccountFailure).
THEOREM LimitsAreKept == SafetySpec => []LimitsKept
<1>1. SafetyInv => LimitsKept
  <2> SUFFICES ASSUME SafetyInv PROVE LimitsKept
    OBVIOUS
  <2> USE SafetyAssumption DEF SafetyInv
  <2>1. DailyLimitKept
    BY PolicySets DEF DailyLimitKept, DayAccounted, SafetyTypeOK
  <2>2. WindowLimitKept
    <3>1. InDemand \in SUBSET Assignments /\ InWindow \in SUBSET InDemand
      BY DEF InDemand, InWindow, Ready, Asking
    <3>2. QED
      BY <3>1, AssignmentSets DEF WindowLimitKept, WindowAccounted
  <2>3. StreakBounded
    BY PolicySets DEF StreakBounded, StreakAccounted, BusyBounded, SafetyTypeOK
  <2>4. QED
    BY <2>1, <2>2, <2>3 DEF LimitsKept
<1>2. QED
  BY <1>1, SafetyIsInductive, PTL

\* After a block that needs a person only the jobs that had made their check before are
\* still asked (recordAccountFailure, classifyAccountState).
THEOREM BlockIsRespected == SafetySpec => []BlockStopsAsking
<1>1. SafetyInv => BlockStopsAsking
  BY PolicySets, SafetyAssumption DEF SafetyInv, BlockInRow, BlockStopsAsking, SafetyTypeOK
<1>2. QED
  BY <1>1, SafetyIsInductive, PTL
=============================================================================

------------------------------ MODULE RemoteAuthProofs ------------------------------
(* Proofs about RemoteAuth, for any number of cancellations and failing queries:      *)
(* what is shown as connected was stored, a completed session stays as it is but for  *)
(* one correction, and a cancellation is seen at the next poll.                       *)
EXTENDS RemoteAuth, TLAPS

\* Only a stored login leaves "connected" to be written.
ResultIsStored == result = "connected" => saved

\* Who still has something to write owns the row, and nobody begins twice.
Owning ==
  /\ finish # "none" => finished
  /\ finish \in {"report", "write"} => owned
  /\ ~finished /\ (known \/ pc \notin {"claim", "gone"}) => owned

\* A row that is completed and owned was cancelled: its owner has not written yet.
OwnedMeansCancelled == completed /\ owned => status = "cancelled"

\* After one look at a completed session the owner comes no farther than the heartbeat.
Looked ==
  /\ looks <= 1
  /\ looks = 1 => completed /\ pc \in {"save", "wait", "idle", "beat", "gone"}

AuthInv ==
  /\ TypeOK /\ ConnectedIsStored /\ CompletedIsTerminal
  /\ ResultIsStored /\ Owning /\ OwnedMeansCancelled /\ Looked

\* What SettledOnce says of a step.
Settles ==
  completed => completed' /\ (status' # status => status = "cancelled" /\ owned /\ ~owned')

USE DEF Terminal, Statuses, rowVars, runVars, Row, Rest, NoFault

--------------------------------------------------------------------------------
(* finish and abandon *)

LEMMA BeginOnce ==
  ASSUME TypeOK, Owning, NEW how \in {"report", "drop"}, NEW s \in Terminal,
         owned \/ finished, Begin(how, s)
  PROVE  /\ finished' = TRUE /\ known' = known
         /\ finish' \in {"none", "report", "drop", "write"} /\ result' \in Terminal
         /\ finish' \in {"report", "write"} => owned
         /\ result' \in {result, s}
  <1>1. CASE finished
    BY <1>1 DEF TypeOK, Owning, Begin
  <1>2. CASE ~finished
    BY <1>2 DEF TypeOK, Owning, Begin
  <1> QED
    BY <1>1, <1>2

LEMMA AbandonOnce ==
  ASSUME TypeOK, Owning, owned \/ finished, Abandon
  PROVE  /\ finished' = TRUE /\ known' = known
         /\ finish' \in {"none", "report", "drop", "write"} /\ result' \in Terminal
         /\ finish' \in {"report", "write"} => owned
         /\ result' = result
  <1>1. result \in Terminal
    BY DEF TypeOK
  <1> HIDE DEF Terminal
  <1> QED
    BY <1>1, BeginOnce DEF Abandon

\* The facts about a step that begins the end with the status s, or leaves the runtime
\* alone, and does not touch the row: all but the inspections are kept.
LEMMA RowKeeps ==
  ASSUME AuthInv, TypeOK', UNCHANGED <<status, completed, owned>>,
         saved => saved', result' = "connected" => result = "connected" \/ saved',
         finish' # "none" => finished',
         finish' \in {"report", "write"} => owned,
         ~finished' /\ (known' \/ pc' \notin {"claim", "gone"}) => owned,
         Looked'
  PROVE  AuthInv' /\ Settles
  <1>1. ConnectedIsStored' /\ CompletedIsTerminal' /\ ResultIsStored' /\ Settles
    BY DEF AuthInv, ConnectedIsStored, CompletedIsTerminal, ResultIsStored, Settles
  <1>2. Owning' /\ OwnedMeansCancelled'
    BY DEF AuthInv, Owning, OwnedMeansCancelled
  <1> QED
    BY <1>1, <1>2 DEF AuthInv

--------------------------------------------------------------------------------
(* Steps that leave the row as it is *)

LEMMA CloseBrowserKeeps == ASSUME AuthInv, CloseBrowser PROVE AuthInv' /\ Settles
  <1>1. TypeOK'
    BY AuthAssumption DEF AuthInv, TypeOK, CloseBrowser
  <1>2. UNCHANGED <<status, completed, owned>> /\ (saved => saved') /\ result' = result
    BY DEF CloseBrowser
  <1>3. /\ finish' # "none" => finished'
        /\ finish' \in {"report", "write"} => owned
        /\ ~finished' /\ (known' \/ pc' \notin {"claim", "gone"}) => owned
    BY DEF AuthInv, TypeOK, Owning, CloseBrowser
  <1>4. Looked'
    BY DEF AuthInv, TypeOK, Looked, CloseBrowser
  <1> QED
    BY <1>1, <1>2, <1>3, <1>4, RowKeeps

LEMMA ClaimThrowsKeeps == ASSUME AuthInv, ClaimThrows PROVE AuthInv' /\ Settles
  <1>1. TypeOK'
    BY AuthAssumption DEF AuthInv, TypeOK, ClaimThrows
  <1>2. UNCHANGED <<status, completed, owned>> /\ (saved => saved') /\ result' = result
    BY DEF ClaimThrows
  <1>3. /\ finish' # "none" => finished'
        /\ finish' \in {"report", "write"} => owned
        /\ ~finished' /\ (known' \/ pc' \notin {"claim", "gone"}) => owned
    BY DEF AuthInv, TypeOK, Owning, ClaimThrows
  <1>4. Looked'
    BY DEF AuthInv, TypeOK, Looked, ClaimThrows
  <1> QED
    BY <1>1, <1>2, <1>3, <1>4, RowKeeps

LEMMA StartThrowsKeeps == ASSUME AuthInv, StartThrows PROVE AuthInv' /\ Settles
  <1>1. TypeOK'
    BY AuthAssumption DEF AuthInv, TypeOK, StartThrows
  <1>2. UNCHANGED <<status, completed, owned>> /\ (saved => saved') /\ result' = result
    BY DEF StartThrows
  <1>3. /\ finish' # "none" => finished'
        /\ finish' \in {"report", "write"} => owned
        /\ ~finished' /\ (known' \/ pc' \notin {"claim", "gone"}) => owned
    BY DEF AuthInv, TypeOK, Owning, StartThrows
  <1>4. Looked'
    BY DEF AuthInv, TypeOK, Looked, StartThrows
  <1> QED
    BY <1>1, <1>2, <1>3, <1>4, RowKeeps

LEMMA LaunchKeeps == ASSUME AuthInv, Launch PROVE AuthInv' /\ Settles
  <1>1. TypeOK'
    BY AuthAssumption DEF AuthInv, TypeOK, Launch
  <1>2. UNCHANGED <<status, completed, owned>> /\ (saved => saved') /\ result' = result
    BY DEF Launch
  <1>3. /\ finish' # "none" => finished'
        /\ finish' \in {"report", "write"} => owned
        /\ ~finished' /\ (known' \/ pc' \notin {"claim", "gone"}) => owned
    BY DEF AuthInv, TypeOK, Owning, Launch
  <1>4. Looked'
    BY DEF AuthInv, TypeOK, Looked, Launch
  <1> QED
    BY <1>1, <1>2, <1>3, <1>4, RowKeeps

LEMMA OpenKeeps == ASSUME AuthInv, Open PROVE AuthInv' /\ Settles
  <1>1. TypeOK'
    BY AuthAssumption DEF AuthInv, TypeOK, Open
  <1>2. UNCHANGED <<status, completed, owned>> /\ (saved => saved') /\ result' = result
    BY DEF Open
  <1>3. /\ finish' # "none" => finished'
        /\ finish' \in {"report", "write"} => owned
        /\ ~finished' /\ (known' \/ pc' \notin {"claim", "gone"}) => owned
    BY DEF AuthInv, TypeOK, Owning, Open
  <1>4. Looked'
    BY DEF AuthInv, TypeOK, Looked, Open
  <1> QED
    BY <1>1, <1>2, <1>3, <1>4, RowKeeps

LEMMA PollKeeps == ASSUME AuthInv, Poll PROVE AuthInv' /\ Settles
  <1>1. TypeOK'
    BY AuthAssumption DEF AuthInv, TypeOK, Poll
  <1>2. UNCHANGED <<status, completed, owned>> /\ (saved => saved') /\ result' = result
    BY DEF Poll
  <1>3. /\ finish' # "none" => finished'
        /\ finish' \in {"report", "write"} => owned
        /\ ~finished' /\ (known' \/ pc' \notin {"claim", "gone"}) => owned
    BY DEF AuthInv, TypeOK, Owning, Poll
  <1>4. Looked'
    BY DEF AuthInv, TypeOK, Looked, Poll
  <1> QED
    BY <1>1, <1>2, <1>3, <1>4, RowKeeps

LEMMA LookKeeps == ASSUME AuthInv, Look PROVE AuthInv' /\ Settles
  <1>1. TypeOK'
    BY AuthAssumption DEF AuthInv, TypeOK, Look
  <1>2. UNCHANGED <<status, completed, owned>> /\ (saved => saved') /\ result' = result
    BY DEF Look
  <1>3. /\ finish' # "none" => finished'
        /\ finish' \in {"report", "write"} => owned
        /\ ~finished' /\ (known' \/ pc' \notin {"claim", "gone"}) => owned
    BY DEF AuthInv, TypeOK, Owning, Look
  <1>4. Looked'
    BY DEF AuthInv, TypeOK, Looked, Look
  <1> QED
    BY <1>1, <1>2, <1>3, <1>4, RowKeeps

LEMMA ExpireKeeps == ASSUME AuthInv, Expire PROVE AuthInv' /\ Settles
  <1>1. TypeOK'
    BY AuthAssumption DEF AuthInv, TypeOK, Expire
  <1>2. UNCHANGED <<status, completed, owned>> /\ (saved => saved') /\ result' = result
    BY DEF Expire
  <1>3. /\ finish' # "none" => finished'
        /\ finish' \in {"report", "write"} => owned
        /\ ~finished' /\ (known' \/ pc' \notin {"claim", "gone"}) => owned
    BY DEF AuthInv, TypeOK, Owning, Expire
  <1>4. Looked'
    BY DEF AuthInv, TypeOK, Looked, Expire
  <1> QED
    BY <1>1, <1>2, <1>3, <1>4, RowKeeps


\* The process is gone, by itself or not.
LEMMA DownKeeps == ASSUME AuthInv, Exit \/ Die PROVE AuthInv' /\ Settles
  <1>1. /\ node' = "down" /\ browser' = "none" /\ known' = FALSE /\ finish' = "none"
        /\ pc' = "gone"
        /\ UNCHANGED <<status, completed, owned, expired, finished, result, answered, saved, looks,
                       cancels, faults>>
    BY DEF Exit, Die, Down
  <1>2. known' \in BOOLEAN /\ finish' \in {"none", "report", "drop", "write"}
    BY <1>1
  <1>3. TypeOK'
    BY <1>1, <1>2 DEF AuthInv, TypeOK
  <1>4. Looked'
    BY <1>1 DEF AuthInv, Looked
  <1> QED
    BY <1>1, <1>3, <1>4, RowKeeps

\* A step that begins the end, and otherwise only moves the runtime to "gone".
LEMMA EndKeeps ==
  ASSUME AuthInv, NEW how \in {"report", "drop"}, NEW s \in Terminal, Begin(how, s),
         owned \/ finished, saved => saved', s = "connected" => saved',
         saved' \in BOOLEAN, faults' \in 0..MaxFaults, pc' = "gone" \/ pc' = pc,
         UNCHANGED <<status, completed, owned, expired, answered, browser, cancels>>,
         node' \in {"up", "stopping", "down"}, looks' \in Nat, Looked'
  PROVE  AuthInv' /\ Settles
  <1>1. /\ finished' = TRUE /\ known' = known
        /\ finish' \in {"none", "report", "drop", "write"} /\ result' \in Terminal
        /\ finish' \in {"report", "write"} => owned
        /\ result' \in {result, s}
    BY BeginOnce DEF AuthInv
  <1>2. TypeOK'
    BY <1>1 DEF AuthInv, TypeOK
  <1>3. result' = "connected" => result = "connected" \/ saved'
    BY <1>1
  <1> QED
    BY <1>1, <1>2, <1>3, RowKeeps

LEMMA GoneIsLooked == ASSUME AuthInv, pc' = "gone" \/ pc' = pc, UNCHANGED <<looks, completed>> PROVE Looked'
  BY DEF AuthInv, Looked

LEMMA BrowserFailsKeeps == ASSUME AuthInv, BrowserFails PROVE AuthInv' /\ Settles
  <1>1. /\ owned \/ finished
        /\ pc' = "gone" /\ Begin("report", "failed")
        /\ UNCHANGED <<status, completed, owned, expired, answered, browser, saved, node, looks,
                       cancels, faults>>
    BY DEF BrowserFails, Finish, AuthInv, Owning, TypeOK
  <1>2. Looked' /\ saved \in BOOLEAN /\ faults \in 0..MaxFaults /\ looks \in Nat
        /\ node \in {"up", "stopping", "down"}
    BY <1>1, GoneIsLooked DEF AuthInv, TypeOK
  <1> QED
    BY <1>1, <1>2, EndKeeps

LEMMA ThrowsKeeps ==
  ASSUME AuthInv, NEW l \in {"beat", "persist", "save", "wait"}, Throws(l)
  PROVE  AuthInv' /\ Settles
  <1>1. /\ owned \/ finished
        /\ pc' = "gone" /\ Begin("report", "failed") /\ faults' \in 0..MaxFaults
        /\ UNCHANGED <<status, completed, owned, expired, answered, browser, saved, node, looks,
                       cancels>>
    BY AuthAssumption DEF Throws, Finish, AuthInv, Owning, TypeOK
  <1>2. Looked' /\ saved \in BOOLEAN /\ looks \in Nat /\ node \in {"up", "stopping", "down"}
    BY <1>1, GoneIsLooked DEF AuthInv, TypeOK
  <1> QED
    BY <1>1, <1>2, EndKeeps

LEMMA SaveKeeps == ASSUME AuthInv, Save PROVE AuthInv' /\ Settles
  <1>1. /\ owned \/ finished
        /\ pc' = "gone" /\ Begin("report", "connected") /\ saved' = TRUE
        /\ UNCHANGED <<status, completed, owned, expired, answered, browser, node, looks,
                       cancels, faults>>
    BY DEF Save, Finish, AuthInv, Owning, TypeOK
  <1>2. Looked' /\ looks \in Nat /\ node \in {"up", "stopping", "down"} /\ faults \in 0..MaxFaults
    BY <1>1, GoneIsLooked DEF AuthInv, TypeOK
  <1> QED
    BY <1>1, <1>2, EndKeeps

LEMMA BeatKeeps == ASSUME AuthInv, Beat PROVE AuthInv' /\ Settles
  <1>1. /\ pc = "beat" /\ (owned \/ finished) /\ result \in Terminal
        /\ saved \in BOOLEAN /\ faults \in 0..MaxFaults /\ looks \in Nat
        /\ node \in {"up", "stopping", "down"}
        /\ result = "connected" => saved
        /\ UNCHANGED <<status, completed, owned, expired, answered, browser, saved, node, looks,
                       cancels, faults>>
    BY DEF Beat, AuthInv, Owning, TypeOK, ResultIsStored
  <1>2. CASE pc' = "gone" /\ Begin("drop", result)
    <2>1. Looked'
      BY <1>1, <1>2, GoneIsLooked
    <2> HIDE DEF Terminal
    <2> QED
      BY <1>1, <1>2, <2>1, EndKeeps
  <1>3. CASE pc' = "gone" /\ Begin("report", "expired")
    <2>1. Looked'
      BY <1>1, <1>3, GoneIsLooked
    <2> QED
      BY <1>1, <1>3, <2>1, EndKeeps
  <1>4. CASE Touchable /\ pc' = "look" /\ UNCHANGED runVars
    <2>1. TypeOK'
      BY <1>1, <1>4 DEF AuthInv, TypeOK
    <2>2. Looked'
      BY <1>1, <1>4 DEF AuthInv, Looked, Touchable, TypeOK
    <2> QED
      BY <1>1, <1>4, <2>1, <2>2, RowKeeps DEF AuthInv, Owning
  <1> QED
    BY <1>2, <1>3, <1>4 DEF Beat, Abandon, Finish

LEMMA PersistKeeps == ASSUME AuthInv, Persist PROVE AuthInv' /\ Settles
  <1>1. /\ pc = "persist" /\ (owned \/ finished) /\ result \in Terminal
        /\ saved \in BOOLEAN /\ faults \in 0..MaxFaults /\ looks \in Nat
        /\ node \in {"up", "stopping", "down"}
        /\ result = "connected" => saved
        /\ UNCHANGED <<status, completed, owned, expired, answered, browser, saved, node, looks,
                       cancels, faults>>
    BY DEF Persist, AuthInv, Owning, TypeOK, ResultIsStored
  <1>2. CASE pc' = "gone" /\ Begin("drop", result)
    <2>1. Looked'
      BY <1>1, <1>2, GoneIsLooked
    <2> HIDE DEF Terminal
    <2> QED
      BY <1>1, <1>2, <2>1, EndKeeps
  <1>3. CASE Touchable /\ pc' = "inspect" /\ UNCHANGED runVars
    <2>1. TypeOK'
      BY <1>1, <1>3 DEF AuthInv, TypeOK
    <2>2. Looked'
      BY <1>1, <1>3 DEF AuthInv, Looked, Touchable, TypeOK
    <2> QED
      BY <1>1, <1>3, <2>1, <2>2, RowKeeps DEF AuthInv, Owning
  <1> QED
    BY <1>2, <1>3 DEF Persist, Abandon

\* An inspection of a completed session is the first, since the owner has come from the
\* heartbeat before the session was completed.
LEMMA InspectKeeps == ASSUME AuthInv, Inspect PROVE AuthInv' /\ Settles
  <1>1. /\ pc = "inspect" /\ (owned \/ finished) /\ looks = 0
        /\ saved \in BOOLEAN /\ faults \in 0..MaxFaults
        /\ node \in {"up", "stopping", "down"} /\ completed \in BOOLEAN
        /\ UNCHANGED <<status, completed, owned, expired, answered, browser, saved, node,
                       cancels, faults>>
        /\ looks' = (IF completed THEN looks + 1 ELSE looks)
    BY DEF Inspect, AuthInv, Owning, TypeOK, Looked
  <1>2. looks' \in Nat /\ looks' <= 1 /\ (looks' = 1 => completed)
    BY <1>1
  <1>3. CASE pc' = "gone" /\ Begin("report", "blocked")
    <2>1. Looked'
      BY <1>1, <1>2, <1>3 DEF Looked
    <2> QED
      BY <1>1, <1>2, <1>3, <2>1, EndKeeps
  <1>4. CASE pc' \in {"save", "wait"} /\ UNCHANGED runVars
    <2>1. TypeOK'
      BY <1>1, <1>2, <1>4 DEF AuthInv, TypeOK
    <2>2. Looked'
      BY <1>1, <1>2, <1>4 DEF Looked
    <2> QED
      BY <1>1, <1>4, <2>1, <2>2, RowKeeps DEF AuthInv, Owning
  <1> QED
    BY <1>3, <1>4 DEF Inspect, Finish

LEMMA ShutdownKeeps == ASSUME AuthInv, Shutdown PROVE AuthInv' /\ Settles
  <1>1. /\ node' = "stopping" /\ (pc' = "gone" \/ pc' = pc)
        /\ saved \in BOOLEAN /\ faults \in 0..MaxFaults /\ looks \in Nat
        /\ UNCHANGED <<status, completed, owned, expired, answered, browser, saved, looks,
                       cancels, faults>>
    BY DEF Shutdown, AuthInv, TypeOK
  <1>2. Looked'
    BY <1>1, GoneIsLooked
  <1>3. CASE known /\ Begin("report", "failed")
    <2>1. owned \/ finished
      BY <1>3 DEF AuthInv, Owning
    <2> QED
      BY <1>1, <1>2, <1>3, <2>1, EndKeeps
  <1>4. CASE UNCHANGED runVars
    <2>1. TypeOK'
      BY <1>1, <1>4 DEF AuthInv, TypeOK
    <2>2. ~finished' /\ (known' \/ pc' \notin {"claim", "gone"}) => owned
      BY <1>1, <1>4 DEF AuthInv, Owning
    <2> QED
      BY <1>1, <1>2, <1>4, <2>1, <2>2, RowKeeps DEF AuthInv, Owning
  <1> QED
    BY <1>3, <1>4 DEF Shutdown, Finish

--------------------------------------------------------------------------------
(* Steps that write the row *)

LEMMA ClaimKeeps == ASSUME AuthInv, Claim PROVE AuthInv' /\ Settles
  <1>1. CASE /\ ~completed /\ owned' = TRUE /\ known' = TRUE /\ pc' = "start"
             /\ UNCHANGED <<status, completed, finished, finish, result>> /\ Rest /\ NoFault
    <2>1. TypeOK'
      BY <1>1 DEF AuthInv, TypeOK
    <2>2. ConnectedIsStored' /\ CompletedIsTerminal' /\ ResultIsStored' /\ Settles
      BY <1>1 DEF AuthInv, ConnectedIsStored, CompletedIsTerminal, ResultIsStored, Settles
    <2>3. Owning' /\ OwnedMeansCancelled' /\ Looked'
      BY <1>1 DEF AuthInv, Owning, OwnedMeansCancelled, Looked
    <2> QED
      BY <2>1, <2>2, <2>3 DEF AuthInv
  <1>2. CASE /\ pc' = "gone" /\ pc = "claim" /\ UNCHANGED <<owned, known>>
             /\ UNCHANGED <<status, completed, finished, finish, result>> /\ Rest /\ NoFault
    <2>1. TypeOK' /\ Looked'
      BY <1>2 DEF AuthInv, TypeOK, Looked
    <2> QED
      BY <1>2, <2>1, RowKeeps DEF AuthInv, Owning
  <1> QED
    BY <1>1, <1>2 DEF Claim

LEMMA TouchKeeps ==
  ASSUME AuthInv, NEW s \in {"starting", "waiting"},
         status' = IF Touchable THEN s ELSE status,
         pc \notin {"claim", "gone"}, TypeOK', Looked',
         UNCHANGED <<completed, owned, runVars, saved>>
  PROVE  AuthInv' /\ Settles
  <1>1. CASE Touchable
    <2>1. ConnectedIsStored' /\ CompletedIsTerminal' /\ ResultIsStored' /\ Settles
      BY <1>1 DEF AuthInv, ConnectedIsStored, CompletedIsTerminal, ResultIsStored, Settles,
         Touchable
    <2>2. Owning' /\ OwnedMeansCancelled'
      BY <1>1 DEF AuthInv, Owning, OwnedMeansCancelled, Touchable
    <2> QED
      BY <2>1, <2>2 DEF AuthInv
  <1>2. CASE ~Touchable
    BY <1>2, RowKeeps DEF AuthInv, Owning
  <1> QED
    BY <1>1, <1>2

LEMMA StartKeeps == ASSUME AuthInv, Start PROVE AuthInv' /\ Settles
  <1>1. TypeOK' /\ Looked'
    BY DEF AuthInv, TypeOK, Looked, Start
  <1> QED
    BY <1>1, TouchKeeps DEF Start

LEMMA WaitKeeps == ASSUME AuthInv, Wait PROVE AuthInv' /\ Settles
  <1>1. TypeOK' /\ Looked'
    BY DEF AuthInv, TypeOK, Looked, Wait
  <1> QED
    BY <1>1, TouchKeeps DEF Wait

LEMMA WriteKeeps == ASSUME AuthInv, WriteResult PROVE AuthInv' /\ Settles
  <1>1. /\ finish = "write" /\ finish' = "none" /\ known' = FALSE /\ finished
        /\ result \in Terminal
        /\ UNCHANGED <<expired, finished, result, pc, answered, browser, saved, node, looks, cancels>>
    BY DEF WriteResult, AuthInv, Owning, TypeOK
  <1>2. CASE status' = result /\ completed' = TRUE /\ owned' = FALSE /\ UNCHANGED faults
    <2>1. TypeOK'
      <3>1. known' \in BOOLEAN /\ completed' \in BOOLEAN /\ owned' \in BOOLEAN
        BY <1>1, <1>2
      <3>2. status' \in Statuses /\ finish' \in {"none", "report", "drop", "write"}
        BY <1>1, <1>2
      <3>3. faults' \in 0..MaxFaults /\ cancels' \in 0..MaxCancels /\ looks' \in Nat
        BY <1>1, <1>2 DEF AuthInv, TypeOK
      <3> QED
        BY <1>1, <3>1, <3>2, <3>3 DEF AuthInv, TypeOK
    <2>2. ConnectedIsStored' /\ CompletedIsTerminal' /\ ResultIsStored'
      BY <1>1, <1>2 DEF AuthInv, ConnectedIsStored, CompletedIsTerminal, ResultIsStored
    <2>3. Settles
      BY <1>1, <1>2 DEF AuthInv, Owning, OwnedMeansCancelled, Settles
    <2>4. Owning' /\ OwnedMeansCancelled' /\ Looked'
      BY <1>1, <1>2 DEF AuthInv, Owning, OwnedMeansCancelled, Looked
    <2> QED
      BY <2>1, <2>2, <2>3, <2>4 DEF AuthInv
  <1>3. CASE faults < MaxFaults /\ faults' = faults + 1 /\ UNCHANGED rowVars
    <2>1. faults' \in 0..MaxFaults
      BY <1>3, AuthAssumption DEF AuthInv, TypeOK
    <2>2. TypeOK'
      <3>1. UNCHANGED <<status, completed, owned>>
        BY <1>3
      <3>2. known' \in BOOLEAN /\ finish' \in {"none", "report", "drop", "write"}
        BY <1>1
      <3> QED
        BY <1>1, <2>1, <3>1, <3>2 DEF AuthInv, TypeOK
    <2>3. Looked'
      BY <1>1, <1>3 DEF AuthInv, Looked
    <2> QED
      BY <1>1, <1>3, <2>2, <2>3, RowKeeps DEF AuthInv
  <1> QED
    BY <1>2, <1>3 DEF WriteResult

LEMMA CancelKeeps == ASSUME AuthInv, CancelHere \/ CancelElsewhere PROVE AuthInv' /\ Settles
  <1>1. /\ status' = (IF completed THEN status ELSE "cancelled") /\ completed' = TRUE
        /\ owned' = owned /\ cancels' \in 0..MaxCancels
        /\ UNCHANGED <<expired, answered, browser, saved, node, looks, faults>>
        /\ pc' = "gone" \/ pc' = pc
    BY AuthAssumption DEF CancelHere, CancelElsewhere, Cancel, AuthInv, TypeOK
  <1>2. /\ finish' \in {"none", "report", "drop", "write"} /\ result' \in Terminal
        /\ known' = known /\ finished' \in BOOLEAN
        /\ finish' \in {"report", "write"} => owned
        /\ finish' # "none" => finished'
        /\ finished => finished'
        /\ result' = "connected" => result = "connected"
    <2>1. CASE UNCHANGED runVars
      BY <2>1 DEF AuthInv, TypeOK, Owning
    <2>2. CASE known /\ Begin("report", "cancelled")
      <3>1. owned \/ finished
        BY <2>2 DEF AuthInv, Owning
      <3> QED
        BY <2>2, <3>1, BeginOnce DEF AuthInv, TypeOK
    <2> QED
      BY <2>1, <2>2 DEF CancelHere, CancelElsewhere, Finish
  <1>3. TypeOK'
    BY <1>1, <1>2 DEF AuthInv, TypeOK
  <1>4. ConnectedIsStored' /\ CompletedIsTerminal' /\ ResultIsStored' /\ Settles
    BY <1>1, <1>2 DEF AuthInv, ConnectedIsStored, CompletedIsTerminal, ResultIsStored, Settles
  <1>5. Owning'
    BY <1>1, <1>2 DEF AuthInv, Owning, TypeOK
  <1>6. OwnedMeansCancelled' /\ Looked'
    BY <1>1 DEF AuthInv, OwnedMeansCancelled, Looked
  <1> QED
    BY <1>3, <1>4, <1>5, <1>6 DEF AuthInv

--------------------------------------------------------------------------------
(* The theorems *)

LEMMA StepKeeps == AuthInv /\ [Next]_vars => AuthInv' /\ Settles
  <1> SUFFICES ASSUME AuthInv, [Next]_vars PROVE AuthInv' /\ Settles
    OBVIOUS
  <1>1. CASE StartStep
    BY <1>1, ClaimKeeps, ClaimThrowsKeeps, StartKeeps, StartThrowsKeeps, LaunchKeeps, OpenKeeps
    DEF StartStep
  <1>2. CASE CaptureStep
    BY <1>2, BeatKeeps, LookKeeps, PersistKeeps, InspectKeeps, SaveKeeps, WaitKeeps,
       BrowserFailsKeeps, ThrowsKeeps DEF CaptureStep
  <1>3. CASE Poll \/ FinishStep \/ Expire
    BY <1>3, PollKeeps, CloseBrowserKeeps, WriteKeeps, ExpireKeeps DEF FinishStep
  <1>4. CASE CancelHere \/ CancelElsewhere \/ Shutdown \/ Exit \/ Die
    BY <1>4, CancelKeeps, ShutdownKeeps, DownKeeps
  <1>5. CASE UNCHANGED vars
    <2>1. /\ UNCHANGED <<status, completed, owned, expired, known, finished, finish, result>>
          /\ UNCHANGED <<pc, answered, browser, saved, node, looks, cancels, faults>>
      BY <1>5 DEF vars
    <2>2. TypeOK' /\ Looked'
      BY <2>1 DEF AuthInv, TypeOK, Looked
    <2> QED
      BY <2>1, <2>2, RowKeeps DEF AuthInv, Owning
  <1> QED
    BY <1>1, <1>2, <1>3, <1>4, <1>5 DEF Next

\* The inductive invariant of the module, on which every theorem below rests.
THEOREM AuthInvariant == Spec => []AuthInv
  <1>1. ASSUME Init PROVE AuthInv
    <2>1. cancels \in 0..MaxCancels /\ faults \in 0..MaxFaults /\ looks \in Nat
      BY <1>1, AuthAssumption DEF Init
    <2>2. /\ completed \in BOOLEAN /\ owned \in BOOLEAN /\ expired \in BOOLEAN
          /\ known \in BOOLEAN /\ finished \in BOOLEAN /\ answered \in BOOLEAN
          /\ saved \in BOOLEAN
      BY <1>1 DEF Init
    <2>3. TypeOK
      BY <1>1, <2>1, <2>2 DEF Init, TypeOK
    <2>4. ConnectedIsStored /\ CompletedIsTerminal /\ ResultIsStored
      BY <1>1 DEF Init, ConnectedIsStored, CompletedIsTerminal, ResultIsStored
    <2>5. Owning /\ OwnedMeansCancelled /\ Looked
      BY <1>1 DEF Init, Owning, OwnedMeansCancelled, Looked
    <2> QED
      BY <2>3, <2>4, <2>5 DEF AuthInv
  <1> QED
    BY <1>1, StepKeeps, PTL DEF Spec

\* Every variable keeps its type.
THEOREM AuthTypeCorrect == Spec => []TypeOK
  <1>1. AuthInv => TypeOK
    BY DEF AuthInv
  <1> QED
    BY <1>1, AuthInvariant, PTL

\* A login that is shown as connected has been stored (finish is called after saveAuth).
THEOREM ConnectedLoginsAreStored == Spec => []ConnectedIsStored
  <1>1. AuthInv => ConnectedIsStored
    BY DEF AuthInv
  <1> QED
    BY <1>1, AuthInvariant, PTL

\* completed_at is set exactly when the status is terminal, whoever wrote it.
THEOREM CompletionIsTerminal == Spec => []CompletedIsTerminal
  <1>1. AuthInv => CompletedIsTerminal
    BY DEF AuthInv
  <1> QED
    BY <1>1, AuthInvariant, PTL

\* A cancelled session is inspected once more at most, however many cancellations arrive.
THEOREM CancellationIsSeen == Spec => []CancelIsSeen
  <1>1. AuthInv => CancelIsSeen
    BY DEF AuthInv, Looked, CancelIsSeen
  <1> QED
    BY <1>1, AuthInvariant, PTL

\* The status of a completed session changes once at most, from cancelled to what its owner
\* had found.
THEOREM SessionsSettleOnce == Spec => SettledOnce
  <1>1. AuthInv /\ [Next]_vars =>
          [completed => completed' /\
             (status' # status => status = "cancelled" /\ owned /\ ~owned')]_vars
    BY StepKeeps DEF Settles
  <1> QED
    BY <1>1, AuthInvariant, PTL DEF Spec, SettledOnce

\* What the row of a login says is so: connected means stored, completed_at means terminal.
THEOREM StatusesAreTrue == Spec => []StatusIsTrue
  <1>1. ConnectedIsStored /\ CompletedIsTerminal => StatusIsTrue
    BY DEF StatusIsTrue
  <1> QED
    BY <1>1, ConnectedLoginsAreStored, CompletionIsTerminal, PTL
================================================================================

------------------------------- MODULE RemoteAuth -------------------------------
(* One remote login (api/remote-auth.js): the row of service_auth_sessions, the  *)
(* runtime and the browser on the API node that has created it, the polls of    *)
(* that node, and cancellations that may arrive at any node.  Only the request   *)
(* that creates a session starts it (api-server.js:585), so it has one owner.    *)
(* A query is a step; a call of the browser is a step that may fail.             *)
EXTENDS Naturals

CONSTANTS
  MaxCancels,  \* bound: cancellations
  MaxFaults    \* bound: queries that throw

ASSUME AuthAssumption == MaxCancels \in Nat /\ MaxFaults \in Nat

VARIABLES
  status, completed, owned,   \* status, completed_at, runtime_owner of the row
  expired,     \* expires_at has passed
  known,       \* the runtime is in the map `runtimes'
  pc,          \* where startRemoteAuthSession and its polls are
  answered,    \* the first capture is over and the client knows the id
  finished,    \* runtime.finished
  finish,      \* what finish or abandon still has to do
  result,      \* the status that finish will write
  browser,     \* the browser process
  saved,       \* the login is stored and the account marked as connected
  node,        \* the API process that owns the session
  looks,       \* ghost: inspections of the page since the row was completed
  cancels, faults

rowVars == <<status, completed, owned>>
runVars == <<known, finished, finish, result>>
vars == <<rowVars, expired, runVars, pc, answered, browser, saved, node, looks, cancels, faults>>

Terminal == {"connected", "blocked", "expired", "failed", "cancelled"}
Statuses == Terminal \cup {"pending", "starting", "waiting"}

Init ==
  /\ status = "pending" /\ completed = FALSE /\ owned = FALSE /\ expired = FALSE
  /\ pc = "claim" /\ answered = FALSE
  /\ known = FALSE /\ finished = FALSE /\ finish = "none" /\ result = "failed"
  /\ browser = "none" /\ saved = FALSE /\ node = "up"
  /\ looks = 0 /\ cancels = 0 /\ faults = 0

--------------------------------------------------------------------------------
(* finish and abandon: the first caller wins, everybody else returns at once.    *)

\* A variant: every caller goes on.
BeginAgain(how, s) ==
  /\ finished' = TRUE /\ result' = s
  /\ finish' = IF how = "report" /\ browser = "none" THEN "write" ELSE how
  /\ UNCHANGED known

(* There is nothing to close while the browser is still being launched. *)
Begin(how, s) ==
  IF finished
    THEN UNCHANGED runVars
    ELSE /\ finished' = TRUE /\ result' = s
         /\ finish' = IF how = "report" /\ browser = "none" THEN "write" ELSE how
         /\ UNCHANGED known

Finish(s) == Begin("report", s)
\* A variant: an abandoned browser is left open.
AbandonOnly == finished' = TRUE /\ known' = FALSE /\ UNCHANGED <<finish, result>>

Abandon == Begin("drop", result)

CloseBrowser ==
  /\ finish \in {"report", "drop"}
  /\ browser' = "none"
  /\ finish' = IF finish = "report" THEN "write" ELSE "none"
  /\ known' = (finish = "report")
  /\ UNCHANGED <<rowVars, expired, finished, result, pc, answered, saved, node, looks, cancels, faults>>

(* The UPDATE looks at the owner and not at completed_at; an error is ignored. *)
WriteResult ==
  /\ finish = "write"
  /\ finish' = "none" /\ known' = FALSE
  /\ \/ /\ status' = result /\ completed' = TRUE /\ owned' = FALSE
        /\ UNCHANGED faults
     \/ /\ faults < MaxFaults /\ faults' = faults + 1
        /\ UNCHANGED rowVars
  /\ UNCHANGED <<expired, finished, result, pc, answered, browser, saved, node, looks, cancels>>

--------------------------------------------------------------------------------
(* The request that starts the session, and the polls of its timer.             *)

Row == UNCHANGED rowVars
Rest == UNCHANGED <<expired, answered, browser, saved, node, looks, cancels>>
NoFault == UNCHANGED faults

(* A query throws: the poll ends in its catch block. *)
Throws(l) ==
  /\ pc = l
  /\ faults < MaxFaults /\ faults' = faults + 1
  /\ pc' = "gone"
  /\ Finish("failed")
  /\ Row /\ Rest

(* claimRuntime; nobody claims again a session that has expired by now. *)
Claim ==
  /\ pc = "claim"
  /\ IF ~completed /\ ~expired
       THEN owned' = TRUE /\ known' = TRUE /\ pc' = "start"
       ELSE pc' = "gone" /\ UNCHANGED <<owned, known>>
  /\ UNCHANGED <<status, completed, finished, finish, result>> /\ Rest /\ NoFault

ClaimThrows ==
  /\ pc = "claim"
  /\ faults < MaxFaults /\ faults' = faults + 1
  /\ pc' = "gone"
  /\ UNCHANGED runVars /\ Row /\ Rest

\* A variant: a completed row is touched like any other.
TouchableByOwner == owned

Touchable == owned /\ ~completed

(* The first touch is made outside the try block. *)
Start ==
  /\ pc = "start"
  /\ status' = IF Touchable THEN "starting" ELSE status
  /\ pc' = "launch"
  /\ UNCHANGED <<completed, owned, runVars>> /\ Rest /\ NoFault

StartThrows ==
  /\ pc = "start"
  /\ faults < MaxFaults /\ faults' = faults + 1
  /\ pc' = "gone"
  /\ UNCHANGED runVars /\ Row /\ Rest

Launch ==
  /\ pc = "launch"
  /\ browser' = "live" /\ pc' = "open"
  /\ UNCHANGED <<runVars, expired, answered, saved, node, looks, cancels>> /\ Row /\ NoFault

(* Any call of the browser may fail, and does when the browser is closed. *)
BrowserFails ==
  /\ pc \in {"launch", "open", "look", "inspect", "save"}
  /\ pc' = "gone"
  /\ Finish("failed")
  /\ Row /\ Rest /\ NoFault

(* The login page is open: the first capture follows, or nothing if the runtime  *)
(* has been finished meanwhile.                                                  *)
Open ==
  /\ pc = "open" /\ browser = "live"
  /\ pc' = IF finished THEN "gone" ELSE "beat"
  /\ UNCHANGED runVars /\ Row /\ Rest /\ NoFault

Poll ==
  /\ pc = "idle" /\ ~finished
  /\ pc' = "beat"
  /\ UNCHANGED runVars /\ Row /\ Rest /\ NoFault

(* The heartbeat: lost means closed by a cancellation, expired means finish. *)
Beat ==
  /\ pc = "beat"
  /\ IF ~Touchable THEN pc' = "gone" /\ Abandon
     ELSE IF expired THEN pc' = "gone" /\ Finish("expired")
     ELSE pc' = "look" /\ UNCHANGED runVars
  /\ Row /\ Rest /\ NoFault

(* QR refresh and screenshot. *)
Look ==
  /\ pc = "look"
  /\ pc' = "persist"
  /\ UNCHANGED runVars /\ Row /\ Rest /\ NoFault

Persist ==
  /\ pc = "persist"
  /\ IF Touchable THEN pc' = "inspect" /\ UNCHANGED runVars
                  ELSE pc' = "gone" /\ Abandon
  /\ Row /\ Rest /\ NoFault

(* inspectSession: logged in, blocked by the provider, or not yet logged in. *)
Inspect ==
  /\ pc = "inspect" /\ browser = "live"
  /\ \/ pc' = "save" /\ UNCHANGED runVars
     \/ pc' = "gone" /\ Finish("blocked")
     \/ pc' = "wait" /\ UNCHANGED runVars
  /\ looks' = IF completed THEN looks + 1 ELSE looks
  /\ UNCHANGED <<expired, answered, browser, saved, node, cancels>> /\ Row /\ NoFault

\* A variant: the result is reported before the login is stored.
SaveLater ==
  /\ pc = "save" /\ browser = "live"
  /\ pc' = "gone"
  /\ Finish("connected")
  /\ UNCHANGED <<expired, answered, browser, saved, node, looks, cancels>> /\ Row /\ NoFault

(* saveAuth and markLoginConnected come before the result is reported. *)
Save ==
  /\ pc = "save" /\ browser = "live"
  /\ saved' = TRUE /\ pc' = "gone"
  /\ Finish("connected")
  /\ UNCHANGED <<expired, answered, browser, node, looks, cancels>> /\ Row /\ NoFault

(* Not logged in yet: the timer polls on unless the runtime has been finished. *)
Wait ==
  /\ pc = "wait"
  /\ status' = IF Touchable THEN "waiting" ELSE status
  /\ pc' = IF finished THEN "gone" ELSE "idle"
  /\ answered' = TRUE
  /\ UNCHANGED <<completed, owned, runVars, expired, browser, saved, node, looks, cancels>>
  /\ NoFault

CaptureStep == Beat \/ Look \/ Persist \/ Inspect \/ Save \/ Wait \/ BrowserFails
               \/ \E l \in {"beat", "persist", "save", "wait"} : Throws(l)
StartStep == Claim \/ ClaimThrows \/ Start \/ StartThrows \/ Launch \/ Open

--------------------------------------------------------------------------------
(* cancelRemoteAuthSession at the owner's node or at another one; the client    *)
(* learns the id of a session from the answer to the request that started it.   *)

Cancel ==
  /\ cancels < MaxCancels /\ cancels' = cancels + 1
  /\ answered \/ pc = "gone"
  /\ status' = IF completed THEN status ELSE "cancelled"
  /\ completed' = TRUE
  /\ UNCHANGED owned

CancelHere ==
  /\ node # "down"
  /\ Cancel
  /\ IF known THEN Finish("cancelled") ELSE UNCHANGED runVars
  /\ pc' = IF pc = "idle" THEN "gone" ELSE pc
  /\ UNCHANGED <<expired, answered, browser, saved, node, looks, faults>>

CancelElsewhere ==
  /\ Cancel
  /\ UNCHANGED <<expired, runVars, pc, answered, browser, saved, node, looks, faults>>

Expire ==
  /\ ~expired
  /\ expired' = TRUE
  /\ UNCHANGED <<rowVars, runVars, pc, answered, browser, saved, node, looks, cancels, faults>>

(* shutdownRemoteAuthSessions; the process exits when its requests are answered. *)
Shutdown ==
  /\ node = "up"
  /\ node' = "stopping"
  /\ IF known THEN Finish("failed") ELSE UNCHANGED runVars
  /\ pc' = IF pc = "idle" THEN "gone" ELSE pc
  /\ UNCHANGED <<expired, answered, browser, saved, looks, cancels, faults>> /\ Row

Down ==
  /\ node' = "down" /\ browser' = "none" /\ known' = FALSE /\ finish' = "none" /\ pc' = "gone"
  /\ UNCHANGED <<rowVars, expired, finished, result, answered, saved, looks, cancels, faults>>

Exit == node = "stopping" /\ finish = "none" /\ pc = "gone" /\ Down

Die == node # "down" /\ Down

FinishStep == CloseBrowser \/ WriteResult

Next ==
  \/ StartStep \/ CaptureStep \/ Poll \/ FinishStep
  \/ CancelHere \/ CancelElsewhere \/ Expire \/ Shutdown \/ Exit \/ Die

Spec == Init /\ [][Next]_vars

(* Every await returns, the timer fires, the clock passes expires_at and a       *)
(* stopping process exits; nothing makes it stop or die, or makes anyone cancel. *)
Fairness ==
  /\ WF_vars(StartStep \/ CaptureStep) /\ WF_vars(Poll) /\ WF_vars(FinishStep)
  /\ WF_vars(Expire) /\ WF_vars(Exit)

FairSpec == Spec /\ Fairness

--------------------------------------------------------------------------------
TypeOK ==
  /\ status \in Statuses /\ completed \in BOOLEAN /\ owned \in BOOLEAN /\ expired \in BOOLEAN
  /\ known \in BOOLEAN /\ finished \in BOOLEAN
  /\ pc \in {"claim", "start", "launch", "open", "idle", "beat", "look", "persist", "inspect",
             "save", "wait", "gone"}
  /\ answered \in BOOLEAN
  /\ finish \in {"none", "report", "drop", "write"} /\ result \in Terminal
  /\ browser \in {"none", "live"} /\ saved \in BOOLEAN /\ node \in {"up", "stopping", "down"}
  /\ looks \in Nat /\ cancels \in 0..MaxCancels /\ faults \in 0..MaxFaults

(* A login that is shown as connected has been stored and the account marked,    *)
(* whatever cancelled, expired or shut down in between.                          *)
ConnectedIsStored == status = "connected" => saved

(* completed_at and a terminal status belong together.                          *)
CompletedIsTerminal == completed <=> status \in Terminal

(* The row tells the truth whoever wrote it last: the owner, a cancellation at   *)
(* any node, an expiry or a shutdown.                                            *)
StatusIsTrue == ConnectedIsStored /\ CompletedIsTerminal

(* A completed session changes its status only from cancelled to what its own    *)
(* browser had already found (finish does not look at completed_at), and once.   *)
SettledOnce ==
  [][completed => completed' /\ (status' # status => status = "cancelled" /\ owned /\ ~owned')]_vars

(* After a cancellation at any node the owner inspects the page at most once     *)
(* more (docs/RUNTIME_HARDENING.md:52: the owner checks durable state on every   *)
(* poll).                                                                        *)
CancelIsSeen == looks <= 1

(* The browser of a completed session is closed, also when the session was       *)
(* cancelled on another node.                                                    *)
BrowserCloses == completed ~> browser = "none"

(* A started session comes to an end when no query fails and its node lives.     *)
Concludes == known ~> (completed \/ faults > 0 \/ node = "down")

(* A login ends, in its row and in its browser.                                  *)
LoginsEnd == BrowserCloses /\ Concludes
================================================================================

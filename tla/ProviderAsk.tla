---------------------------- MODULE ProviderAsk ----------------------------
(***************************************************************************)
(* One job and the Doubao page.  Each attempt of the job drives the page:   *)
(* start a clean conversation, fill the question in and verify it, press    *)
(* the button or the Enter key, wait for a sign that the platform has taken *)
(* the question, then poll until the answer is there.  How the attempt      *)
(* ended, and whether it says that nothing was submitted, decides whether   *)
(* the queue may try again.  The page and the platform behind it are        *)
(* external: they may lag, drop a question or fail at every step.           *)
(***************************************************************************)
EXTENDS Integers, FiniteSets

CONSTANTS
    MaxAttempts,        \* jobAttempts
    SettlePolls,        \* config.conversationSettleMs, in polls
    FillAttempts,       \* of fillVerifiedPrompt
    StablePolls,        \* config.stablePolls
    LandingPolls,       \* CONVERSATION_LANDING_WAIT_MS, in polls
    SilentPolls,        \* the first-token window, in polls
    BudgetPolls,        \* config.timeoutMs, in polls
    MaxDeaths           \* bound: workers that die in an attempt

ASSUME AskAssumption ==
    /\ {MaxAttempts, FillAttempts, StablePolls} \subseteq Nat \ {0}
    /\ {SettlePolls, LandingPolls, SilentPolls, BudgetPolls, MaxDeaths} \subseteq Nat
    /\ SilentPolls <= BudgetPolls

VARIABLES
    pc,                 \* executeDoubaoPrompt and its callees
    ask,                \* their locals
    page,               \* what the browser shows
    attempt, outcome,   \* of the job; the outcome of its last attempt
    sent,               \* what has reached the platform: <<text, conversation>>
    deliveries,         \* how often, over all attempts
    delivered,          \* in this attempt: "no", "button" or "enter"
    excused,            \* attempts whose repetition is accepted, and deaths
    deaths

askVars == <<pc, ask, page, attempt, outcome, sent, deliveries, delivered, excused, deaths>>

jobVars  == <<attempt, outcome, excused, deaths>>
sendVars == <<sent, deliveries, delivered>>

\* The length of the answer on the page, or read from it.
Nothing  == 0
Fragment == 1           \* shorter than MIN_ANSWER_CHARS, or a placeholder
Partial  == 2
Whole    == 3

NoAsk == [submitting |-> FALSE, empty |-> 0, tries |-> 0, byButton |-> FALSE,
          waited |-> 0, best |-> Nothing, last |-> Nothing, stable |-> 0, read |-> Nothing]

NoOutcome == [code |-> "none", submitted |-> FALSE, answer |-> Nothing]

\* prepareWindow gives an attempt its window; the page may still be in a conversation.
Pages == {[conversation |-> c, box |-> b, answer |-> Nothing, generating |-> FALSE,
           landed |-> (c = "old")] : c \in {"old", "fresh"}, b \in {"empty", "residue"}}

AskInit ==
    /\ pc = "healthy" /\ ask = NoAsk /\ page \in Pages
    /\ attempt = 1 /\ outcome = NoOutcome
    /\ sent = {} /\ deliveries = 0 /\ delivered = "no"
    /\ excused = 0 /\ deaths = 0

-----------------------------------------------------------------------------
(* The end of an attempt *)

\* withExecutionStage fills promptSubmitted in when the thrower left it open.
Ends(code, submitted, answer) ==
    /\ pc' = "ended"
    /\ outcome' = [code |-> code, submitted |-> submitted, answer |-> answer]
    /\ UNCHANGED <<ask, page, attempt, sendVars, excused, deaths>>

Throws(code) == Ends(code, ask.submitting, Nothing)

Goto(next) == pc' = next /\ UNCHANGED <<page, jobVars, sendVars>>

-----------------------------------------------------------------------------
(* A healthy page and a clean conversation *)

\* requireHealthySession, before and after the conversation is started.
Healthy ==
    /\ pc \in {"healthy", "healthy again"}
    /\ \/ /\ ask' = [ask EXCEPT !.submitting = (pc = "healthy again")]
          /\ Goto(IF pc = "healthy" THEN "clean" ELSE "fill")
       \/ Throws("PAGE_CHANGED")
       \/ Throws("ACCOUNT_BLOCKED")

\* startCleanConversation clicks its way to a new conversation, or believes that it did;
\* then it waits for an input and clears it.
Clean ==
    /\ pc = "clean"
    /\ \/ /\ pc' = "empty"
          /\ \E c \in {page.conversation, "fresh"}, b \in {"empty", "residue"} :
                page' = [page EXCEPT !.conversation = c, !.box = b, !.landed = (c = "old")]
          /\ UNCHANGED <<ask, jobVars, sendVars>>
       \/ Throws("PAGE_CHANGED")

EmptyPolls == 2         \* polls running

\* waitForEmptyConversation: a conversation that is being drawn anew may look empty once,
\* but not twice running.
LookEmpty ==
    /\ pc = "empty" /\ ask.empty < EmptyPolls /\ ask.waited < SettlePolls
    /\ \/ /\ page.conversation = "fresh" \/ ask.empty = 0
          /\ ask' = [ask EXCEPT !.empty = @ + 1, !.waited = @ + 1]
       \/ /\ page.conversation = "old"
          /\ ask' = [ask EXCEPT !.empty = 0, !.waited = @ + 1]
    /\ Goto("empty")

WaitOver == [ask EXCEPT !.waited = 0]

\* A variant that trusts the click (clickedNewConversation).
AssertClicked ==
    /\ pc = "empty"
    /\ ask' = WaitOver /\ Goto("healthy again")

\* assertFreshConversation
AssertFresh ==
    /\ pc = "empty"
    /\ \/ ask.empty >= EmptyPolls /\ ask' = WaitOver /\ Goto("healthy again")
       \/ /\ ask.empty < EmptyPolls /\ ask.waited = SettlePolls
          /\ Ends("RESET_FAILED", FALSE, Nothing)

-----------------------------------------------------------------------------
(* submitPrompt *)

\* fillVerifiedPrompt clears, fills and reads back, after the promotions were dismissed; a
\* text that is not the question's is never sent.
Fill ==
    /\ pc = "fill"
    /\ \/ /\ ask' = ask /\ pc' = "click"
          /\ page' = [page EXCEPT !.box = "prompt"]
          /\ UNCHANGED <<jobVars, sendVars>>
       \/ /\ ask.tries + 1 < FillAttempts
          /\ ask' = [ask EXCEPT !.tries = @ + 1]
          /\ Goto("fill")
       \/ /\ ask.tries + 1 = FillAttempts
          /\ \/ Ends("PAGE_CHANGED", FALSE, Nothing)
             \/ Ends("SUBMISSION_FAILED", FALSE, Nothing)

\* The platform takes what the input holds, and the input is empty.
Deliver(by) ==
    /\ page.box # "empty"
    /\ sent' = sent \cup {<<page.box, page.conversation>>}
    /\ deliveries' = deliveries + 1
    /\ delivered' = by
    /\ \E landed \in BOOLEAN :
          page' = [page EXCEPT !.box = "empty", !.landed = landed, !.generating = TRUE]

\* tryClickSend.  A click may land and still be reported as failed.
Click ==
    /\ pc \in {"click", "click again"}
    /\ \/ /\ Deliver("button")
          /\ \/ /\ ask' = [ask EXCEPT !.byButton = TRUE]
                /\ pc' = "confirm"
             \/ /\ ask' = ask
                /\ pc' = IF pc = "click" THEN "clear" ELSE "enter"
       \/ /\ ask' = ask
          /\ pc' = IF pc = "click" THEN "clear" ELSE "enter"
          /\ UNCHANGED <<page, sendVars>>
    /\ UNCHANGED jobVars

\* The third look for a promotion decides between a second click and the Enter key.
Clear ==
    /\ pc = "clear"
    /\ ask' = ask
    /\ \E next \in {"click again", "enter"} : Goto(next)

\* Without an input, or with one that ignores the key, nothing happens.
Enter ==
    /\ pc = "enter"
    /\ ask' = ask /\ pc' = "confirm"
    /\ \/ Deliver("enter")
       \/ UNCHANGED <<page, sendVars>>
    /\ UNCHANGED jobVars

\* A variant that reports a question without confirmation as unsent.
UnconfirmedUnsent == Ends("SUBMISSION_FAILED", FALSE, Nothing)

Unconfirmed == Throws("SUBMISSION_FAILED")

\* finishSubmit: what was taken may show a sign in time; what was not shows none.
Confirm ==
    /\ pc = "confirm"
    /\ \/ delivered # "no" /\ ask' = ask /\ Goto("poll")
       \/ Unconfirmed

-----------------------------------------------------------------------------
(* waitForAnswer *)

\* External: the platform writes the answer, lands in the conversation, and stops.
Write ==
    /\ page.generating /\ pc \in {"confirm", "poll", "decide"}
    /\ \E a \in page.answer..Whole, landed \in {page.landed, TRUE} :
          page' = [page EXCEPT !.answer = a, !.landed = landed, !.generating = (a # Whole)]
    /\ page' # page
    /\ UNCHANGED <<pc, ask, jobVars, sendVars>>

\* External: the question is dropped without a word.
Drop ==
    /\ page.generating /\ page.answer = Nothing /\ pc \in {"confirm", "poll", "decide"}
    /\ page' = [page EXCEPT !.generating = FALSE]
    /\ UNCHANGED <<pc, ask, jobVars, sendVars>>

Substantive(a) == IF a >= Partial THEN a ELSE Nothing

\* A variant that never ends the loop.
TimeLeftAlways == TRUE

TimeLeft == ask.waited < BudgetPolls

\* The head of the loop and the candidates on the page, which may be drawn anew.  A wrong
\* host and an error shown by the provider are thrown.
Poll ==
    /\ pc = "poll" /\ TimeLeft
    /\ \/ /\ \E a \in {Substantive(page.answer), Nothing} :
                ask' = [ask EXCEPT !.read = a, !.best = IF a > @ THEN a ELSE @]
          /\ Goto("decide")
       \/ Throws("PAGE_CHANGED")
       \/ Throws("NETWORK_ERROR")
       \/ Throws("RATE_LIMITED")

Streak == IF ask.read = Nothing THEN 0
          ELSE IF ask.read = ask.last THEN ask.stable + 1 ELSE 1

NotLanded == ~page.landed /\ ask.best = Nothing /\ ask.waited >= LandingPolls
Dropped   == ask.best = Nothing /\ ask.waited >= SilentPolls
Complete  == ask.read # Nothing /\ ~page.generating /\ Streak >= StablePolls

\* The rest of the loop's body: whether it is still generating is read after the text.
Decide ==
    /\ pc = "decide"
    /\ \/ (NotLanded \/ Dropped) /\ Ends("ANSWER_NOT_FOUND", TRUE, Nothing)
       \/ /\ ~(NotLanded \/ Dropped)
          /\ ask' = [ask EXCEPT !.stable = Streak, !.last = ask.read,
                                !.waited = IF @ < BudgetPolls THEN @ + 1 ELSE @]
          /\ Goto(IF Complete THEN "citations" ELSE "poll")

BudgetSpent ==
    /\ pc = "poll" /\ ~TimeLeft
    /\ IF ask.best # Nothing THEN Throws("TIMEOUT")
                             ELSE Ends("ANSWER_NOT_FOUND", TRUE, Nothing)

HasCitations == ask.byButton

\* extractVisibleCitations, and the end of executeDoubaoPrompt.
Citations ==
    /\ pc = "citations"
    /\ \/ HasCitations /\ Ends("success", TRUE, ask.read)
       \/ ~HasCitations /\ Ends("SUBMIT_DEGRADED", TRUE, ask.read)
       \/ Throws("UNKNOWN")

\* External: the browser goes away under a call.
Breaks ==
    /\ pc \notin {"ended", "done", "failed"}
    /\ Throws("UNKNOWN")

-----------------------------------------------------------------------------
(* The job *)

Retryable == {"TIMEOUT", "NETWORK_ERROR", "RESET_FAILED", "SUBMISSION_FAILED",
              "PAGE_CHANGED", "ANSWER_NOT_FOUND", "SUBMIT_DEGRADED"}
Unsafe    == {"TIMEOUT", "NETWORK_ERROR", "SUBMISSION_FAILED", "PAGE_CHANGED"}

\* The codes whose repetition may ask a second time, which the code accepts.
Accepted  == {"ANSWER_NOT_FOUND", "SUBMIT_DEGRADED"}

\* A variant that goes by the code alone.
CanRetryCode == outcome.code \in Retryable

\* canRetryOutcome
CanRetry == outcome.code \in Retryable /\ (outcome.code \in Unsafe => ~outcome.submitted)

NewAttempt ==
    /\ pc' = "healthy" /\ ask' = NoAsk /\ page' \in Pages /\ delivered' = "no"

\* The processor throws; the queue tries again unless it was told not to.
Retry ==
    /\ pc = "ended" /\ outcome.code # "success" /\ CanRetry /\ attempt < MaxAttempts
    /\ attempt' = attempt + 1
    /\ excused' = IF outcome.code \in Accepted THEN excused + 1 ELSE excused
    /\ NewAttempt
    /\ UNCHANGED <<outcome, sent, deliveries, deaths>>

GiveUp ==
    /\ pc = "ended" /\ outcome.code # "success"
    /\ ~CanRetry \/ attempt = MaxAttempts
    /\ pc' = "failed"
    /\ UNCHANGED <<ask, page, jobVars, sendVars>>

Succeed ==
    /\ pc = "ended" /\ outcome.code = "success"
    /\ pc' = "done"
    /\ UNCHANGED <<ask, page, jobVars, sendVars>>

\* External: the worker dies and the stalled job is run again, as the same attempt.
Die ==
    /\ pc \notin {"done", "failed"} /\ deaths < MaxDeaths
    /\ deaths' = deaths + 1 /\ excused' = excused + 1
    /\ NewAttempt
    /\ UNCHANGED <<attempt, outcome, sent, deliveries>>

-----------------------------------------------------------------------------
Driver ==
    \/ Healthy \/ Clean \/ LookEmpty \/ AssertFresh \/ Fill \/ Click \/ Clear \/ Enter
    \/ Confirm \/ Poll \/ Decide \/ BudgetSpent \/ Citations
    \/ Retry \/ GiveUp \/ Succeed

AskNext == Driver \/ Write \/ Drop \/ Breaks \/ Die

AskSpec == AskInit /\ [][AskNext]_askVars

\* Every wait of the driver has a deadline; the page owes it nothing.
AskFairSpec == AskSpec /\ WF_askVars(Driver)

-----------------------------------------------------------------------------
(* Properties *)

Codes == Retryable \cup {"none", "success", "ACCOUNT_BLOCKED", "RATE_LIMITED", "UNKNOWN"}
PCs   == {"healthy", "clean", "empty", "healthy again", "fill", "click", "clear",
          "click again", "enter", "confirm", "poll", "decide", "citations", "ended",
          "done", "failed"}

Lengths == {Nothing, Fragment, Partial, Whole}

AskRecord  == [submitting : BOOLEAN, empty : 0..2, tries : 0..(FillAttempts - 1),
               byButton : BOOLEAN, waited : Nat, best : Lengths, last : Lengths,
               stable : Nat, read : Lengths]
PageRecord == [conversation : {"old", "fresh"}, box : {"empty", "residue", "prompt"},
               answer : Lengths, generating : BOOLEAN, landed : BOOLEAN]

\* Every variable keeps its type, and no loop outlasts its budget.
AskTypeOK ==
    /\ pc \in PCs
    /\ ask \in AskRecord
    /\ pc = "empty" => ask.waited <= SettlePolls
    /\ pc \in {"poll", "decide", "citations"} => ask.waited <= BudgetPolls
    /\ page \in PageRecord
    /\ attempt \in 1..MaxAttempts
    /\ outcome \in [code : Codes, submitted : BOOLEAN, answer : Lengths]
    /\ sent \subseteq {"residue", "prompt"} \X {"old", "fresh"}
    /\ deliveries \in Nat /\ delivered \in {"no", "button", "enter"}
    /\ excused \in Nat /\ deaths \in 0..MaxDeaths

\* Nothing but the question of the job ever reaches the platform, and only as the first
\* turn of a conversation: no residue of the question before, no follow-up to it
\* (assertFreshConversation, fillVerifiedPrompt).
AskedCleanly == sent \subseteq {<<"prompt", "fresh">>}

\* promptSubmitted: false is only ever said of an attempt in which nothing was sent,
\* whatever a click or a key did that the driver took for a failure.
UnsentMeansUnsent == pc = "ended" /\ ~outcome.submitted => delivered = "no"

\* The platform sees the question again only for an attempt whose repetition is accepted
\* (RETRYABLE_CODES says why) or for a worker that died, once for each.
RepeatsAccounted == deliveries <= 1 + excused

\* A collected answer was sent with the button in the attempt that returned it: an answer
\* to the Enter key, which comes without its citations, is never recorded as a success.
SuccessIsCitable == pc = "done" => delivered = "button" /\ outcome.answer >= Partial

\* What an attempt says of itself is true: that nothing was submitted, or that its answer
\* may be cited.
OutcomeIsTrue == UnsentMeansUnsent /\ SuccessIsCitable

\* Every job comes to an end although the page may lag, stall or drop the question.
AskConcludes == <>(pc \in {"done", "failed"})
=============================================================================

-------------------------- MODULE WebhookDelivery --------------------------
(***************************************************************************)
(* The webhook workers: each polls service_webhook_events for an event that *)
(* is due, claims it, POSTs it to every endpoint of the tenant one after    *)
(* the other, and writes the outcome of the attempt into the event's row.   *)
(* The events are those that the triggers, the API and the publication of a *)
(* report insert; endpoints are registered and removed through the API.     *)
(***************************************************************************)
EXTENDS Integers, FiniteSets, FiniteSetsExt

CONSTANTS
    Workers,
    Events, Endpoints,  \* identifiers: PostgreSQL hands them out in increasing order
    MaxAttempts,        \* ONEGL_WEBHOOK_MAX_ATTEMPTS
    MaxMishaps          \* bound: lost answers, failed queries and stopped workers

ASSUME WebhookAssumption ==
    /\ IsFiniteSet(Workers) /\ IsFiniteSet(Endpoints)
    /\ Events \subseteq Nat /\ Endpoints \subseteq Nat
    /\ MaxAttempts \in Nat \ {0} /\ MaxMishaps \in Nat

VARIABLES
    status, attempts,   \* of each event ("none": not inserted yet)
    due,                \* next_attempt_at <= now()
    known,              \* the endpoints that were registered when the event was inserted
    registry,           \* of each endpoint: "new", "enabled" or "removed"
    successes,          \* service_webhook_deliveries with status 'success'
    receipts,           \* how often an endpoint has accepted an event
    worker,             \* processEvent of each worker
    mishaps

vars == <<status, attempts, due, known, registry, successes, receipts, worker, mishaps>>

eventVars == <<status, attempts, due, known>>

Pairs  == Events \X Endpoints
NoWork == [pc |-> "idle", event |-> 0, attempt |-> 0, todo |-> {}, ok |-> FALSE,
           failed |-> FALSE]

Enabled == {p \in Endpoints : registry[p] = "enabled"}

Init ==
    /\ status = [e \in Events |-> "none"]
    /\ attempts = [e \in Events |-> 0]
    /\ due = [e \in Events |-> TRUE]
    /\ known = [e \in Events |-> {}]
    /\ registry \in [Endpoints -> {"new", "enabled"}]
    /\ successes = {}
    /\ receipts = [pair \in Pairs |-> 0]
    /\ worker = [w \in Workers |-> NoWork]
    /\ mishaps = 0

-----------------------------------------------------------------------------
(* The tenant, its endpoints and the clock *)

\* ON CONFLICT (event_key) DO NOTHING: a repeated insertion changes nothing.
Emit(e) ==
    /\ status[e] = "none"
    /\ status' = [status EXCEPT ![e] = "queued"]
    /\ known' = [known EXCEPT ![e] = Enabled]
    /\ UNCHANGED <<attempts, due, registry, successes, receipts, worker, mishaps>>

Register(p) ==
    /\ registry[p] = "new"
    /\ registry' = [registry EXCEPT ![p] = "enabled"]
    /\ UNCHANGED <<eventVars, successes, receipts, worker, mishaps>>

\* ON DELETE CASCADE takes the endpoint's deliveries with it.
Remove(p) ==
    /\ registry[p] = "enabled"
    /\ registry' = [registry EXCEPT ![p] = "removed"]
    /\ successes' = {pair \in successes : pair[2] # p}
    /\ UNCHANGED <<eventVars, receipts, worker, mishaps>>

BackoffEnds(e) ==
    /\ ~due[e]
    /\ due' = [due EXCEPT ![e] = TRUE]
    /\ UNCHANGED <<status, attempts, known, registry, successes, receipts, worker, mishaps>>

-----------------------------------------------------------------------------
(* The loop of a worker *)

\* A variant that leaves the events in delivery alone.
ClaimableQueued == {e \in Events : /\ status[e] = "queued"
                                   /\ due[e] /\ attempts[e] < MaxAttempts}

\* An event in delivery stays claimable: that is how the event of a worker that has
\* stopped is taken up again.
Claimable == {e \in Events : /\ status[e] \in {"queued", "delivering"}
                             /\ due[e] /\ attempts[e] < MaxAttempts}

\* The lowest identifier goes first; SKIP LOCKED passes over the one that another idle
\* worker is just claiming.
Claim(w) ==
    /\ worker[w].pc = "idle" /\ Claimable # {}
    /\ \E e \in Claimable :
          /\ \/ e = Min(Claimable)
             \/ \E v \in Workers \ {w} : worker[v].pc = "idle"
          /\ status' = [status EXCEPT ![e] = "delivering"]
          /\ attempts' = [attempts EXCEPT ![e] = @ + 1]
          /\ worker' = [worker EXCEPT ![w] =
                [NoWork EXCEPT !.pc = "read", !.event = e, !.attempt = attempts[e] + 1]]
    /\ UNCHANGED <<due, known, registry, successes, receipts, mishaps>>

\* matchingEndpoints
ReadEndpoints(w) ==
    /\ worker[w].pc = "read"
    /\ worker' = [worker EXCEPT ![w].pc = "check", ![w].todo = Enabled]
    /\ UNCHANGED <<eventVars, registry, successes, receipts, mishaps>>

Endpoint(w) == Min(worker[w].todo)
Pair(w)     == <<worker[w].event, Endpoint(w)>>

\* A variant that trusts nothing of the earlier attempts.
NeverDelivered(w) == FALSE

AlreadyDelivered(w) == Pair(w) \in successes

\* alreadyDelivered skips the endpoints of earlier attempts.
Check(w) ==
    /\ worker[w].pc = "check" /\ worker[w].todo # {}
    /\ worker' = IF AlreadyDelivered(w)
                 THEN [worker EXCEPT ![w].todo = @ \ {Endpoint(w)}]
                 ELSE [worker EXCEPT ![w].pc = "post"]
    /\ UNCHANGED <<eventVars, registry, successes, receipts, mishaps>>

\* The endpoint accepts the event, refuses it, or accepts it and the answer is lost.
Post(w) ==
    /\ worker[w].pc = "post"
    /\ \E accepted, answered \in BOOLEAN :
          /\ accepted \/ answered
          /\ worker' = [worker EXCEPT ![w].pc = "record", ![w].ok = accepted /\ answered]
          /\ receipts' = IF accepted THEN [receipts EXCEPT ![Pair(w)] = @ + 1] ELSE receipts
          /\ IF answered THEN UNCHANGED mishaps
                         ELSE mishaps < MaxMishaps /\ mishaps' = mishaps + 1
    /\ UNCHANGED <<eventVars, registry, successes>>

\* A variant in which only the last endpoint decides.
LastFailed(w) == ~worker[w].ok

\* One endpoint that did not accept the event fails the attempt.
AnyFailed(w) == worker[w].failed \/ ~worker[w].ok

\* The delivery refers to an endpoint that still exists: otherwise the foreign key
\* refuses the row and the exception ends the attempt, with the event in delivery.
Record(w) ==
    /\ worker[w].pc = "record"
    /\ \/ /\ Endpoint(w) \in Enabled
          /\ successes' = IF worker[w].ok THEN successes \cup {Pair(w)} ELSE successes
          /\ worker' = [worker EXCEPT ![w].pc = "check", ![w].todo = @ \ {Endpoint(w)},
                                      ![w].failed = AnyFailed(w)]
       \/ /\ Endpoint(w) \notin Enabled
          /\ worker' = [worker EXCEPT ![w] = NoWork]
          /\ UNCHANGED successes
    /\ UNCHANGED <<eventVars, registry, receipts, mishaps>>

\* A variant that allows one attempt more than the claim does.
OutcomeLate(w) ==
    IF ~worker[w].failed THEN "delivered"
    ELSE IF worker[w].attempt > MaxAttempts THEN "failed" ELSE "queued"

\* The outcome of an attempt.  None of the updates looks at what the row has become.
Outcome(w) ==
    IF ~worker[w].failed THEN "delivered"
    ELSE IF worker[w].attempt >= MaxAttempts THEN "failed" ELSE "queued"

Finish(w) ==
    /\ worker[w].pc = "check" /\ worker[w].todo = {}
    /\ LET e == worker[w].event IN
          /\ status' = [status EXCEPT ![e] = Outcome(w)]
          /\ due' = IF Outcome(w) = "queued" THEN [due EXCEPT ![e] = FALSE] ELSE due
    /\ worker' = [worker EXCEPT ![w] = NoWork]
    /\ UNCHANGED <<attempts, known, registry, successes, receipts, mishaps>>

\* A query throws, or the worker stops: what it was doing is forgotten.
Abandon(w) ==
    /\ worker[w].pc # "idle"
    /\ mishaps < MaxMishaps /\ mishaps' = mishaps + 1
    /\ worker' = [worker EXCEPT ![w] = NoWork]
    /\ UNCHANGED <<eventVars, registry, successes, receipts>>

-----------------------------------------------------------------------------
Work(w) == \/ Claim(w) \/ ReadEndpoints(w) \/ Check(w) \/ Post(w) \/ Record(w) \/ Finish(w)

Next == \/ \E e \in Events : Emit(e) \/ BackoffEnds(e)
        \/ \E p \in Endpoints : Register(p) \/ Remove(p)
        \/ \E w \in Workers : Work(w) \/ Abandon(w)

Spec == Init /\ [][Next]_vars

\* Every worker polls every two seconds, every request times out, and time passes.
FairSpec ==
    /\ Spec
    /\ \A w \in Workers : WF_vars(Work(w))
    /\ \A e \in Events : WF_vars(BackoffEnds(e))

-----------------------------------------------------------------------------
WorkRecord ==
    [pc : {"idle", "read", "check", "post", "record"}, event : Nat,
     attempt : 0..MaxAttempts, todo : SUBSET Endpoints, ok : BOOLEAN, failed : BOOLEAN]

TypeOK ==
    /\ status \in [Events -> {"none", "queued", "delivering", "delivered", "failed"}]
    /\ attempts \in [Events -> 0..MaxAttempts]
    /\ due \in [Events -> BOOLEAN]
    /\ known \in [Events -> SUBSET Endpoints]
    /\ registry \in [Endpoints -> {"new", "enabled", "removed"}]
    /\ successes \subseteq Pairs
    /\ receipts \in [Pairs -> Nat]
    /\ worker \in [Workers -> WorkRecord]
    /\ \A w \in Workers :
          /\ worker[w].pc # "idle" => worker[w].event \in Events
          /\ worker[w].pc \in {"post", "record"} => worker[w].todo # {}
    /\ mishaps \in 0..MaxMishaps

\* An event is only called delivered once every endpoint that was there when it happened,
\* and still is, has accepted it: no endpoint hides behind the success of another one,
\* of an earlier attempt or of another worker.
DeliveredMeansReceived ==
    \A e \in Events : status[e] = "delivered" =>
        \A p \in known[e] : registry[p] = "enabled" => receipts[<<e, p>>] > 0

\* At-least-once has a price that the retries do not raise: besides one receipt for each
\* worker that may be at the same event, only a lost answer or a lost worker repeats an
\* event to an endpoint, whatever the other endpoints answer.
DuplicatesBounded ==
    \A e \in Events : \A p \in Enabled :
        receipts[<<e, p>>] <= Cardinality(Workers) + mishaps

\* No event is forgotten while it has attempts left, whoever stops on the way.
NoEventForgotten ==
    \A e \in Events :
        status[e] = "queued" ~> (status[e] \in {"delivered", "failed"} \/ attempts[e] = MaxAttempts)

\* Nobody removes an endpoint.
AllKept == \A p \in Endpoints : registry[p] # "removed"

\* With one worker at an event at a time, no mishap and no endpoint removed, every event
\* is concluded in the end, and stays so.
Alone ==
    \A v, w \in Workers :
        v # w /\ worker[v].pc # "idle" /\ worker[w].pc # "idle"
           => worker[v].event # worker[w].event
AloneConcludes ==
    \A e \in Events :
        [](Alone /\ mishaps = 0 /\ AllKept) /\ <>(status[e] # "none")
           => <>[](status[e] \in {"delivered", "failed"})
=============================================================================

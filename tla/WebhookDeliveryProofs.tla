----------------------- MODULE WebhookDeliveryProofs -----------------------
(***************************************************************************)
(* Proofs about WebhookDelivery: typing, and that an event is only called   *)
(* delivered once the endpoints that were there for it have accepted it.    *)
(***************************************************************************)
EXTENDS WebhookDelivery, FiniteSetTheorems, WellFoundedInduction, TLAPS

\* An endpoint an event was meant for existed when the event was inserted.
KnownOnce == \A e \in Events : \A p \in known[e] : registry[p] # "new"

\* A worker is at an event that has been inserted.
Taken == \A w \in Workers : worker[w].pc # "idle" => status[worker[w].event] # "none"

\* What is recorded, or about to be recorded, as a success has been accepted.
Accepted ==
    /\ \A pair \in successes : receipts[pair] > 0
    /\ \A w \in Workers :
          worker[w].pc = "record" /\ worker[w].ok => receipts[Pair(w)] > 0

\* As long as an attempt has not failed, an endpoint the event is meant for is still to
\* be visited or has its success.
Covered ==
    \A w \in Workers :
       worker[w].pc \in {"check", "post", "record"} /\ ~worker[w].failed =>
          \A p \in known[worker[w].event] : registry[p] = "enabled" =>
             p \in worker[w].todo \/ <<worker[w].event, p>> \in successes

WebhookInv ==
    TypeOK /\ KnownOnce /\ Taken /\ Accepted /\ Covered /\ DeliveredMeansReceived

-----------------------------------------------------------------------------
(* The least element of a finite set of natural numbers *)

\* Min of the community modules yields a member of the set.
LEMMA MinIsMember ==
    ASSUME NEW S \in SUBSET Nat, IsFiniteSet(S), S # {}
    PROVE  Min(S) \in S
<1> DEFINE Below(x) == {y \in S : y < x}
           T == {Below(x) : x \in S}
<1>1. T \subseteq SUBSET S /\ T # {}
  OBVIOUS
<1>2. IsWellFoundedOn(StrictSubsetOrdering(S), SUBSET S)
  BY FS_StrictSubsetOrderingWellFounded, FS_FiniteSubsetsOfFinite
<1> HIDE DEF T
<1>3. \E B \in T : \A C \in T : <<C, B>> \notin StrictSubsetOrdering(S)
  BY <1>1, <1>2, WFMin
<1>4. PICK x \in S : \A C \in T : <<C, Below(x)>> \notin StrictSubsetOrdering(S)
  BY <1>3 DEF T
<1>5. ASSUME NEW y \in S, y < x PROVE FALSE
  <2>1. Below(y) \in T /\ Below(y) \in SUBSET S /\ Below(x) \in SUBSET S
    BY DEF T
  <2>2. x \in Nat /\ \A z \in S : z \in Nat
    OBVIOUS
  <2>3. y \in Below(x) /\ y \notin Below(y) /\ \A z \in Below(y) : z \in Below(x)
    <3>1. y \in Below(x) /\ y \notin Below(y)
      BY <1>5, <2>2
    <3>2. \A z \in Below(y) : z \in Below(x)
      BY <1>5, <2>2
    <3>3. QED
      BY <3>1, <3>2
  <2> HIDE DEF Below
  <2>4. <<Below(y), Below(x)>> \in StrictSubsetOrdering(S)
    BY <2>1, <2>3 DEF StrictSubsetOrdering
  <2>5. QED
    BY <1>4, <2>1, <2>4
<1>6. \A y \in S : x <= y
  BY <1>5
<1>7. QED
  BY <1>6 DEF Min

\* The endpoint a worker is at is one of those it has still to visit.
LEMMA EndpointIsTodo ==
    ASSUME TypeOK, NEW w \in Workers, worker[w].pc # "idle", worker[w].todo # {}
    PROVE  /\ Endpoint(w) \in worker[w].todo /\ Endpoint(w) \in Endpoints
           /\ Pair(w) \in Pairs
<1>1. worker[w].todo \subseteq Endpoints /\ worker[w].event \in Events
  BY DEF TypeOK, WorkRecord
<1>2. worker[w].todo \in SUBSET Nat /\ IsFiniteSet(worker[w].todo)
  BY <1>1, WebhookAssumption, FS_Subset
<1>3. Endpoint(w) \in worker[w].todo
  BY <1>2, MinIsMember DEF Endpoint
<1>4. QED
  BY <1>1, <1>3 DEF Pair, Pairs

-----------------------------------------------------------------------------
(* Types *)

\* The resting worker is a worker.
LEMMA NoWorkType == NoWork \in WorkRecord
BY WebhookAssumption DEF NoWork, WorkRecord

\* A step of one worker keeps the workers well typed when its new record is well formed.
LEMMA WorkerType ==
    ASSUME TypeOK, NEW w \in Workers, NEW r \in WorkRecord,
           worker' = [worker EXCEPT ![w] = r],
           r.pc # "idle" => r.event \in Events,
           r.pc \in {"post", "record"} => r.todo # {}
    PROVE  /\ worker' \in [Workers -> WorkRecord]
           /\ \A v \in Workers :
                 /\ worker'[v].pc # "idle" => worker'[v].event \in Events
                 /\ worker'[v].pc \in {"post", "record"} => worker'[v].todo # {}
BY DEF TypeOK

LEMMA WebhookTypeStep == TypeOK /\ [Next]_vars => TypeOK'
<1> SUFFICES ASSUME TypeOK, [Next]_vars PROVE TypeOK'
  OBVIOUS
<1> DEFINE WorkersTyped ==
      /\ worker' \in [Workers -> WorkRecord]
      /\ \A v \in Workers :
            /\ worker'[v].pc # "idle" => worker'[v].event \in Events
            /\ worker'[v].pc \in {"post", "record"} => worker'[v].todo # {}
<1>0. Enabled \subseteq Endpoints
  BY DEF Enabled
<1>1. ASSUME NEW e \in Events, Emit(e) PROVE TypeOK'
  BY <1>0, <1>1 DEF Emit, TypeOK
<1>2. ASSUME NEW e \in Events, BackoffEnds(e) PROVE TypeOK'
  BY <1>2 DEF BackoffEnds, TypeOK
<1>3. ASSUME NEW p \in Endpoints, Register(p) PROVE TypeOK'
  BY <1>3 DEF Register, TypeOK, eventVars
<1>4. ASSUME NEW p \in Endpoints, Remove(p) PROVE TypeOK'
  BY <1>4 DEF Remove, TypeOK, eventVars
<1>5. ASSUME NEW w \in Workers, Claim(w) PROVE TypeOK'
  <2>1. PICK e \in Claimable :
          /\ status' = [status EXCEPT ![e] = "delivering"]
          /\ attempts' = [attempts EXCEPT ![e] = @ + 1]
          /\ worker' = [worker EXCEPT ![w] =
                [NoWork EXCEPT !.pc = "read", !.event = e, !.attempt = attempts[e] + 1]]
    BY <1>5 DEF Claim
  <2>2. e \in Events /\ e \in Nat /\ attempts[e] + 1 \in 0..MaxAttempts
    BY WebhookAssumption DEF Claimable, TypeOK
  <2>3. [NoWork EXCEPT !.pc = "read", !.event = e, !.attempt = attempts[e] + 1]
           \in WorkRecord
    BY <2>2 DEF NoWork, WorkRecord
  <2>4. /\ [NoWork EXCEPT !.pc = "read", !.event = e, !.attempt = attempts[e] + 1].event = e
        /\ [NoWork EXCEPT !.pc = "read", !.event = e, !.attempt = attempts[e] + 1].pc = "read"
    BY DEF NoWork
  <2>5. WorkersTyped
    BY <2>1, <2>2, <2>3, <2>4, WorkerType
  <2>6. QED
    BY <1>5, <2>1, <2>2, <2>5 DEF Claim, TypeOK
<1>6. ASSUME NEW w \in Workers, ReadEndpoints(w) PROVE TypeOK'
  <2>1. worker' = [worker EXCEPT ![w] =
                      [worker[w] EXCEPT !.pc = "check", !.todo = Enabled]]
    BY <1>6 DEF ReadEndpoints
  <2>2. [worker[w] EXCEPT !.pc = "check", !.todo = Enabled] \in WorkRecord
    BY <1>0 DEF TypeOK, WorkRecord
  <2>3. /\ [worker[w] EXCEPT !.pc = "check", !.todo = Enabled].event \in Events
        /\ [worker[w] EXCEPT !.pc = "check", !.todo = Enabled].pc = "check"
    BY <1>6 DEF ReadEndpoints, TypeOK, WorkRecord
  <2>4. WorkersTyped
    BY <2>1, <2>2, <2>3, WorkerType
  <2>5. QED
    BY <1>6, <2>4 DEF ReadEndpoints, TypeOK, eventVars
<1>7. ASSUME NEW w \in Workers, Check(w) PROVE TypeOK'
  <2>1. worker[w].event \in Events /\ worker[w] \in WorkRecord
    BY <1>7 DEF Check, TypeOK
  <2>2. CASE AlreadyDelivered(w)
    <3> DEFINE r == [worker[w] EXCEPT !.todo = worker[w].todo \ {Endpoint(w)}]
    <3>1. worker' = [worker EXCEPT ![w] = r]
      BY <1>7, <2>2 DEF Check
    <3>2. r \in WorkRecord /\ r.event \in Events /\ r.pc = "check"
      BY <1>7, <2>1 DEF Check, WorkRecord
    <3> HIDE DEF r
    <3>3. WorkersTyped
      BY <3>1, <3>2, WorkerType
    <3>4. QED
      BY <1>7, <3>3 DEF Check, TypeOK, eventVars
  <2>3. CASE ~AlreadyDelivered(w)
    <3> DEFINE r == [worker[w] EXCEPT !.pc = "post"]
    <3>1. worker' = [worker EXCEPT ![w] = r]
      BY <1>7, <2>3 DEF Check
    <3>2. r \in WorkRecord /\ r.event \in Events /\ r.todo # {}
      BY <1>7, <2>1 DEF Check, WorkRecord
    <3> HIDE DEF r
    <3>3. WorkersTyped
      BY <3>1, <3>2, WorkerType
    <3>4. QED
      BY <1>7, <3>3 DEF Check, TypeOK, eventVars
  <2>4. QED
    BY <2>2, <2>3
<1>8. ASSUME NEW w \in Workers, Post(w) PROVE TypeOK'
  <2>1. PICK accepted \in BOOLEAN, answered \in BOOLEAN :
          /\ worker' = [worker EXCEPT ![w].pc = "record", ![w].ok = accepted /\ answered]
          /\ receipts' = IF accepted THEN [receipts EXCEPT ![Pair(w)] = @ + 1] ELSE receipts
          /\ IF answered THEN UNCHANGED mishaps
                         ELSE mishaps < MaxMishaps /\ mishaps' = mishaps + 1
    BY <1>8 DEF Post
  <2>2. worker[w] \in WorkRecord /\ worker[w].event \in Events /\ worker[w].todo # {}
    BY <1>8 DEF Post, TypeOK
  <2>3. Pair(w) \in Pairs
    BY <1>8, <2>2, EndpointIsTodo DEF Post
  <2>4. receipts' \in [Pairs -> Nat]
    BY <2>1, <2>3 DEF TypeOK
  <2>5. mishaps' \in 0..MaxMishaps
    BY <2>1, WebhookAssumption DEF TypeOK
  <2> DEFINE r == [worker[w] EXCEPT !.pc = "record", !.ok = accepted /\ answered]
  <2>6. worker' = [worker EXCEPT ![w] = r]
    BY <2>1
  <2>7. (accepted /\ answered) \in BOOLEAN
    OBVIOUS
  <2>8. r \in WorkRecord /\ r.event \in Events /\ r.todo # {}
    BY <2>2, <2>7 DEF WorkRecord
  <2> HIDE DEF r
  <2>9. WorkersTyped
    BY <2>6, <2>8, WorkerType
  <2>10. QED
    BY <1>8, <2>4, <2>5, <2>9 DEF Post, TypeOK, eventVars
<1>9. ASSUME NEW w \in Workers, Record(w) PROVE TypeOK'
  <2>1. worker[w] \in WorkRecord /\ worker[w].event \in Events /\ worker[w].todo # {}
    BY <1>9 DEF Record, TypeOK
  <2>2. Pair(w) \in Pairs
    BY <1>9, <2>1, EndpointIsTodo DEF Record
  <2>3. successes' \subseteq Pairs
    BY <1>9, <2>2 DEF Record, TypeOK
  <2>4. CASE Endpoint(w) \in Enabled
    <3> DEFINE r == [worker[w] EXCEPT !.pc = "check",
                        !.todo = worker[w].todo \ {Endpoint(w)}, !.failed = AnyFailed(w)]
    <3>1. worker' = [worker EXCEPT ![w] = r]
      BY <1>9, <2>4 DEF Record
    <3>2. AnyFailed(w) \in BOOLEAN
      BY <2>1 DEF AnyFailed, WorkRecord
    <3>3. r \in WorkRecord /\ r.event \in Events /\ r.pc = "check"
      BY <2>1, <3>2 DEF WorkRecord
    <3> HIDE DEF r
    <3>4. WorkersTyped
      BY <3>1, <3>3, WorkerType
    <3>5. QED
      BY <1>9, <2>3, <3>4 DEF Record, TypeOK, eventVars
  <2>5. CASE Endpoint(w) \notin Enabled
    <3>1. worker' = [worker EXCEPT ![w] = NoWork]
      BY <1>9, <2>5 DEF Record
    <3>2. NoWork.pc = "idle"
      BY DEF NoWork
    <3>3. WorkersTyped
      BY <3>1, <3>2, NoWorkType, WorkerType
    <3>4. QED
      BY <1>9, <2>3, <3>3 DEF Record, TypeOK, eventVars
  <2>6. QED
    BY <2>4, <2>5
<1>10. ASSUME NEW w \in Workers, Finish(w) PROVE TypeOK'
  <2>1. worker' = [worker EXCEPT ![w] = NoWork] /\ NoWork.pc = "idle"
    BY <1>10 DEF Finish, NoWork
  <2>2. WorkersTyped
    BY <2>1, NoWorkType, WorkerType
  <2>3. Outcome(w) \in {"delivered", "failed", "queued"}
    BY DEF Outcome
  <2>4. /\ status' \in [Events -> {"none", "queued", "delivering", "delivered", "failed"}]
        /\ due' \in [Events -> BOOLEAN]
    BY <1>10, <2>3 DEF Finish, TypeOK
  <2>5. QED
    BY <1>10, <2>2, <2>4 DEF Finish, TypeOK
<1>11. ASSUME NEW w \in Workers, Abandon(w) PROVE TypeOK'
  <2>1. worker' = [worker EXCEPT ![w] = NoWork] /\ NoWork.pc = "idle"
    BY <1>11 DEF Abandon, NoWork
  <2>2. WorkersTyped
    BY <2>1, NoWorkType, WorkerType
  <2>3. mishaps' \in 0..MaxMishaps
    BY <1>11, WebhookAssumption DEF Abandon, TypeOK
  <2>4. QED
    BY <1>11, <2>2, <2>3 DEF Abandon, TypeOK, eventVars
<1>12. CASE UNCHANGED vars
  BY <1>12 DEF vars, TypeOK
<1>13. QED
  BY <1>1, <1>2, <1>3, <1>4, <1>5, <1>6, <1>7, <1>8, <1>9, <1>10, <1>11, <1>12
     DEF Next, Work

-----------------------------------------------------------------------------
(* The invariant *)

\* What the invariant says of one worker.
WorkerSound(w) ==
    /\ worker[w].pc # "idle" => status[worker[w].event] # "none"
    /\ worker[w].pc = "record" /\ worker[w].ok => receipts[Pair(w)] > 0
    /\ worker[w].pc \in {"check", "post", "record"} /\ ~worker[w].failed =>
          \A p \in known[worker[w].event] : registry[p] = "enabled" =>
             p \in worker[w].todo \/ <<worker[w].event, p>> \in successes

EventsSound ==
    KnownOnce /\ DeliveredMeansReceived /\ \A pair \in successes : receipts[pair] > 0

\* The invariant is one statement about the events and one about every worker.
LEMMA InvParts ==
    WebhookInv <=> TypeOK /\ EventsSound /\ \A w \in Workers : WorkerSound(w)
BY DEF WebhookInv, EventsSound, WorkerSound, Taken, Accepted, Covered

LEMMA InvPartsNext ==
    ASSUME TypeOK', EventsSound', \A w \in Workers : WorkerSound(w)'
    PROVE  WebhookInv'
BY DEF WebhookInv, EventsSound, WorkerSound, Taken, Accepted, Covered

\* A resting worker has nothing to say.
LEMMA RestIsSound ==
    ASSUME TypeOK, NEW w \in Workers, worker' = [worker EXCEPT ![w] = NoWork]
    PROVE  WorkerSound(w)'
<1>1. worker'[w].pc = "idle"
  BY DEF TypeOK, NoWork
<1>2. QED
  BY <1>1 DEF WorkerSound

\* A worker stays sound when its own record stays, events stay inserted, receipts stay,
\* what is enabled or known does not grow, and what is enabled keeps its successes.
LEMMA OthersStaySound ==
    ASSUME NEW w \in Workers, WorkerSound(w), worker'[w] = worker[w],
           TypeOK, TypeOK',
           \A e \in Events : status[e] # "none" => status'[e] # "none",
           \A pair \in Pairs : receipts[pair] > 0 => receipts'[pair] > 0,
           \A e \in Events : status[e] # "none" => known'[e] = known[e],
           \A e \in Events : \A p \in known[e] :
              registry'[p] = "enabled" => registry[p] = "enabled",
           \A pair \in successes : registry'[pair[2]] = "enabled" => pair \in successes'
    PROVE  WorkerSound(w)'
<1> USE DEF WorkerSound
<1>1. CASE worker[w].pc = "idle"
  BY <1>1
<1>2. CASE worker[w].pc # "idle"
  <2>1. worker[w].event \in Events /\ status[worker[w].event] # "none"
    BY <1>2 DEF TypeOK
  <2>2. known'[worker[w].event] = known[worker[w].event]
    BY <2>1
  <2>3. worker[w].pc = "record" => Pair(w)' = Pair(w) /\ Pair(w) \in Pairs
    BY <1>2, EndpointIsTodo DEF Pair, Endpoint, TypeOK
  <2>4. \A p : <<worker[w].event, p>>[2] = p
    OBVIOUS
  <2>5. \A p \in known[worker[w].event] : registry'[p] = "enabled" =>
           /\ registry[p] = "enabled"
           /\ <<worker[w].event, p>> \in successes => <<worker[w].event, p>> \in successes'
    BY <2>1, <2>4
  <2>6. status'[worker[w].event] # "none"
    BY <2>1
  <2>7. (worker[w].pc = "record" /\ worker[w].ok => receipts[Pair(w)] > 0)'
    BY <2>3
  <2>8. (worker[w].pc \in {"check", "post", "record"} /\ ~worker[w].failed =>
          \A p \in known[worker[w].event] : registry[p] = "enabled" =>
             p \in worker[w].todo \/ <<worker[w].event, p>> \in successes)'
    BY <2>2, <2>5
  <2>9. QED
    BY <2>6, <2>7, <2>8
<1>3. QED
  BY <1>1, <1>2

\* A step of one worker that leaves events, endpoints and deliveries alone.
LEMMA QuietStep ==
    ASSUME WebhookInv, TypeOK', NEW w \in Workers, NEW r,
           worker' = [worker EXCEPT ![w] = r], WorkerSound(w)',
           UNCHANGED <<eventVars, registry, successes, receipts>>
    PROVE  WebhookInv'
<1>1. EventsSound'
  BY InvParts DEF EventsSound, KnownOnce, DeliveredMeansReceived, eventVars
<1>2. \A v \in Workers \ {w} : worker'[v] = worker[v]
  BY InvParts DEF TypeOK
<1>3. \A v \in Workers \ {w} : WorkerSound(v)'
  BY <1>2, InvParts, OthersStaySound DEF eventVars
<1>4. QED
  BY <1>1, <1>3, InvPartsNext

LEMMA WebhookStep == WebhookInv /\ [Next]_vars => WebhookInv'
<1> SUFFICES ASSUME WebhookInv, [Next]_vars PROVE WebhookInv'
  OBVIOUS
<1> TypeOK /\ TypeOK' /\ EventsSound /\ \A w \in Workers : WorkerSound(w)
  BY WebhookTypeStep, InvParts
<1> KnownOnce /\ DeliveredMeansReceived
  BY DEF EventsSound
<1>1. ASSUME NEW e \in Events, Emit(e) PROVE WebhookInv'
  <2>1. /\ status[e] = "none" /\ status' = [status EXCEPT ![e] = "queued"]
        /\ known' = [known EXCEPT ![e] = Enabled]
        /\ UNCHANGED <<registry, successes, receipts, worker>>
    BY <1>1 DEF Emit
  <2>2. KnownOnce'
    BY <2>1 DEF KnownOnce, Enabled, TypeOK
  <2>3. DeliveredMeansReceived'
    BY <2>1 DEF DeliveredMeansReceived, TypeOK
  <2>4. EventsSound'
    BY <2>1, <2>2, <2>3 DEF EventsSound
  <2>5. \A d \in Events : status[d] # "none" => status'[d] # "none" /\ known'[d] = known[d]
    BY <2>1 DEF TypeOK
  <2>6. \A w \in Workers : WorkerSound(w)'
    BY <2>1, <2>5, OthersStaySound
  <2>7. QED
    BY <2>4, <2>6, InvPartsNext
<1>2. ASSUME NEW e \in Events, BackoffEnds(e) PROVE WebhookInv'
  BY <1>2 DEF BackoffEnds, WebhookInv, KnownOnce, Taken, Accepted, Covered, Pair, Endpoint,
              DeliveredMeansReceived
<1>3. ASSUME NEW p \in Endpoints, Register(p) PROVE WebhookInv'
  <2>1. /\ registry[p] = "new" /\ registry' = [registry EXCEPT ![p] = "enabled"]
        /\ UNCHANGED <<status, known, successes, receipts, worker>>
    BY <1>3 DEF Register, eventVars
  <2>2. \A e \in Events : \A q \in known[e] : q # p /\ registry'[q] = registry[q]
    BY <2>1 DEF KnownOnce, TypeOK
  <2>3. EventsSound'
    BY <2>1, <2>2 DEF EventsSound, KnownOnce, DeliveredMeansReceived
  <2>4. \A w \in Workers : WorkerSound(w)'
    BY <2>1, <2>2, OthersStaySound
  <2>5. QED
    BY <2>3, <2>4, InvPartsNext
<1>4. ASSUME NEW p \in Endpoints, Remove(p) PROVE WebhookInv'
  <2>1. /\ registry[p] = "enabled" /\ registry' = [registry EXCEPT ![p] = "removed"]
        /\ successes' = {pair \in successes : pair[2] # p}
        /\ UNCHANGED <<status, known, receipts, worker>>
    BY <1>4 DEF Remove, eventVars
  <2>2. \A e \in Events : \A q \in known[e] :
           /\ registry'[q] = "enabled" => registry[q] = "enabled"
           /\ registry'[q] = "new" => registry[q] = "new"
    BY <2>1 DEF TypeOK
  <2>3. EventsSound'
    BY <2>1, <2>2 DEF EventsSound, KnownOnce, DeliveredMeansReceived
  <2>4. registry'[p] = "removed"
    BY <2>1 DEF TypeOK
  <2>5. \A pair \in successes : registry'[pair[2]] = "enabled" => pair \in successes'
    BY <2>1, <2>4
  <2>6. \A w \in Workers : WorkerSound(w)'
    BY <2>1, <2>2, <2>5, OthersStaySound
  <2>7. QED
    BY <2>3, <2>6, InvPartsNext
<1>5. ASSUME NEW w \in Workers, Claim(w) PROVE WebhookInv'
  <2>1. PICK e \in Claimable :
          /\ status' = [status EXCEPT ![e] = "delivering"]
          /\ worker' = [worker EXCEPT ![w] =
                [NoWork EXCEPT !.pc = "read", !.event = e, !.attempt = attempts[e] + 1]]
    BY <1>5 DEF Claim
  <2>2. e \in Events /\ UNCHANGED <<known, registry, successes, receipts>>
    BY <1>5 DEF Claim, Claimable
  <2>3. EventsSound'
    BY <2>1, <2>2 DEF EventsSound, KnownOnce, DeliveredMeansReceived, TypeOK
  <2>4. \A d \in Events : status[d] # "none" => status'[d] # "none"
    BY <2>1, <2>2 DEF TypeOK
  <2>5. worker'[w].pc = "read" /\ worker'[w].event = e /\ status'[e] # "none"
    BY <2>1, <2>2 DEF TypeOK, NoWork
  <2>6. WorkerSound(w)'
    BY <2>5 DEF WorkerSound
  <2>7. \A v \in Workers \ {w} : worker'[v] = worker[v]
    BY <2>1 DEF TypeOK
  <2>8. \A v \in Workers \ {w} : WorkerSound(v)'
    BY <2>2, <2>4, <2>7, OthersStaySound
  <2>9. QED
    BY <2>3, <2>6, <2>8, InvPartsNext
<1>6. ASSUME NEW w \in Workers, ReadEndpoints(w) PROVE WebhookInv'
  <2>1. /\ worker[w].pc = "read"
        /\ worker' = [worker EXCEPT ![w] =
                         [worker[w] EXCEPT !.pc = "check", !.todo = Enabled]]
        /\ UNCHANGED <<eventVars, registry, successes, receipts>>
    BY <1>6 DEF ReadEndpoints
  <2>2. /\ worker'[w].pc = "check" /\ worker'[w].todo = Enabled
        /\ worker'[w].event = worker[w].event
    BY <2>1 DEF TypeOK, WorkRecord
  <2>3. known[worker[w].event] \subseteq Endpoints
    BY <2>1 DEF TypeOK
  <2>4. WorkerSound(w)'
    BY <2>1, <2>2, <2>3 DEF WorkerSound, Enabled, eventVars
  <2>5. QED
    BY <2>1, <2>4, QuietStep
<1>7. ASSUME NEW w \in Workers, Check(w) PROVE WebhookInv'
  <2>1. /\ worker[w].pc = "check" /\ UNCHANGED <<eventVars, registry, successes, receipts>>
    BY <1>7 DEF Check
  <2>2. CASE AlreadyDelivered(w)
    <3>1. worker' = [worker EXCEPT ![w] =
                        [worker[w] EXCEPT !.todo = worker[w].todo \ {Endpoint(w)}]]
      BY <1>7, <2>2 DEF Check
    <3>2. /\ worker'[w].pc = "check" /\ worker'[w].todo = worker[w].todo \ {Endpoint(w)}
          /\ worker'[w].event = worker[w].event /\ worker'[w].failed = worker[w].failed
      BY <2>1, <3>1 DEF TypeOK, WorkRecord
    <3>3. <<worker[w].event, Endpoint(w)>> \in successes
      BY <2>2 DEF AlreadyDelivered, Pair
    <3>4. WorkerSound(w)'
      BY <2>1, <3>2, <3>3 DEF WorkerSound, eventVars
    <3>5. QED
      BY <2>1, <3>1, <3>4, QuietStep
  <2>3. CASE ~AlreadyDelivered(w)
    <3>1. worker' = [worker EXCEPT ![w] = [worker[w] EXCEPT !.pc = "post"]]
      BY <1>7, <2>3 DEF Check
    <3>2. /\ worker'[w].pc = "post" /\ worker'[w].todo = worker[w].todo
          /\ worker'[w].event = worker[w].event /\ worker'[w].failed = worker[w].failed
      BY <3>1 DEF TypeOK, WorkRecord
    <3>3. WorkerSound(w)'
      BY <2>1, <3>2 DEF WorkerSound, eventVars
    <3>4. QED
      BY <2>1, <3>1, <3>3, QuietStep
  <2>4. QED
    BY <2>2, <2>3
<1>8. ASSUME NEW w \in Workers, Post(w) PROVE WebhookInv'
  <2>1. PICK accepted \in BOOLEAN, answered \in BOOLEAN :
          /\ worker' = [worker EXCEPT ![w].pc = "record", ![w].ok = accepted /\ answered]
          /\ receipts' = IF accepted THEN [receipts EXCEPT ![Pair(w)] = @ + 1] ELSE receipts
    BY <1>8 DEF Post
  <2>2. worker[w].pc = "post" /\ UNCHANGED <<status, known, registry, successes>>
    BY <1>8 DEF Post, eventVars
  <2>3. Pair(w) \in Pairs
    BY <2>2, EndpointIsTodo DEF TypeOK
  <2>4. \A pair \in Pairs : receipts[pair] > 0 => receipts'[pair] > 0
    BY <2>1, <2>3 DEF TypeOK
  <2>5. (accepted /\ answered) => receipts'[Pair(w)] > 0
    BY <2>1, <2>3 DEF TypeOK
  <2>6. EventsSound'
    BY <2>2, <2>4 DEF EventsSound, KnownOnce, DeliveredMeansReceived, TypeOK, Pairs
  <2>7. /\ worker'[w].pc = "record" /\ worker'[w].ok = (accepted /\ answered)
        /\ worker'[w].todo = worker[w].todo /\ worker'[w].event = worker[w].event
        /\ worker'[w].failed = worker[w].failed
    BY <2>1 DEF TypeOK, WorkRecord
  <2>8. Pair(w)' = Pair(w)
    BY <2>7 DEF Pair, Endpoint
  <2>9. WorkerSound(w)'
    BY <2>2, <2>5, <2>7, <2>8 DEF WorkerSound
  <2>10. \A v \in Workers \ {w} : worker'[v] = worker[v]
    BY <2>1 DEF TypeOK
  <2>11. \A v \in Workers \ {w} : WorkerSound(v)'
    BY <2>2, <2>4, <2>10, OthersStaySound
  <2>12. QED
    BY <2>6, <2>9, <2>11, InvPartsNext
<1>9. ASSUME NEW w \in Workers, Record(w) PROVE WebhookInv'
  <2>1. worker[w].pc = "record" /\ UNCHANGED <<eventVars, registry, receipts>>
    BY <1>9 DEF Record
  <2>2. CASE Endpoint(w) \in Enabled
    <3>1. /\ successes' = IF worker[w].ok THEN successes \cup {Pair(w)} ELSE successes
          /\ worker' = [worker EXCEPT ![w] = [worker[w] EXCEPT !.pc = "check",
                           !.todo = worker[w].todo \ {Endpoint(w)}, !.failed = AnyFailed(w)]]
      BY <1>9, <2>2 DEF Record
    <3>2. /\ worker'[w].pc = "check" /\ worker'[w].todo = worker[w].todo \ {Endpoint(w)}
          /\ worker'[w].event = worker[w].event /\ worker'[w].failed = AnyFailed(w)
      BY <3>1 DEF TypeOK, WorkRecord
    <3>3. worker[w].ok => Pair(w) \in successes' /\ receipts[Pair(w)] > 0
      BY <2>1, <3>1 DEF WorkerSound
    <3>4. successes \subseteq successes' /\ \A pair \in successes' : receipts'[pair] > 0
      BY <2>1, <3>1, <3>3 DEF EventsSound
    <3>5. EventsSound'
      BY <2>1, <3>4 DEF EventsSound, KnownOnce, DeliveredMeansReceived, eventVars
    <3>6. WorkerSound(w)'
      BY <2>1, <3>2, <3>3, <3>4 DEF WorkerSound, AnyFailed, Pair, eventVars
    <3>7. \A v \in Workers \ {w} : worker'[v] = worker[v]
      BY <3>1 DEF TypeOK
    <3>8. \A v \in Workers \ {w} : WorkerSound(v)'
      BY <2>1, <3>4, <3>7, OthersStaySound DEF eventVars
    <3>9. QED
      BY <3>5, <3>6, <3>8, InvPartsNext
  <2>3. CASE Endpoint(w) \notin Enabled
    <3>1. worker' = [worker EXCEPT ![w] = NoWork] /\ UNCHANGED successes
      BY <1>9, <2>3 DEF Record
    <3>2. QED
      BY <2>1, <3>1, RestIsSound, QuietStep
  <2>4. QED
    BY <2>2, <2>3
<1>10. ASSUME NEW w \in Workers, Finish(w) PROVE WebhookInv'
  <2> DEFINE e == worker[w].event
  <2>1. /\ worker[w].pc = "check" /\ worker[w].todo = {}
        /\ status' = [status EXCEPT ![e] = Outcome(w)]
        /\ worker' = [worker EXCEPT ![w] = NoWork]
        /\ UNCHANGED <<known, registry, successes, receipts>>
    BY <1>10 DEF Finish
  <2>2. e \in Events
    BY <2>1 DEF TypeOK
  <2>3. Outcome(w) = "delivered" => ~worker[w].failed
    BY DEF Outcome
  <2>4. Outcome(w) = "delivered" =>
           \A p \in known[e] : registry[p] = "enabled" => receipts[<<e, p>>] > 0
    BY <2>1, <2>3 DEF WorkerSound, EventsSound
  <2>5. DeliveredMeansReceived'
    BY <2>1, <2>2, <2>4 DEF DeliveredMeansReceived, TypeOK
  <2>6. EventsSound'
    BY <2>1, <2>5 DEF EventsSound, KnownOnce
  <2>7. Outcome(w) # "none"
    BY DEF Outcome
  <2>8. \A d \in Events : status[d] # "none" => status'[d] # "none"
    BY <2>1, <2>2, <2>7 DEF TypeOK
  <2>9. \A v \in Workers \ {w} : worker'[v] = worker[v]
    BY <2>1 DEF TypeOK
  <2>10. \A v \in Workers \ {w} : WorkerSound(v)'
    BY <2>1, <2>8, <2>9, OthersStaySound
  <2>11. WorkerSound(w)'
    BY <2>1, RestIsSound
  <2>12. QED
    BY <2>6, <2>10, <2>11, InvPartsNext
<1>11. ASSUME NEW w \in Workers, Abandon(w) PROVE WebhookInv'
  BY <1>11, RestIsSound, QuietStep DEF Abandon
<1>12. CASE UNCHANGED vars
  BY <1>12 DEF vars, WebhookInv, KnownOnce, Taken, Accepted, Covered, Pair, Endpoint,
               DeliveredMeansReceived
<1>13. QED
  BY <1>1, <1>2, <1>3, <1>4, <1>5, <1>6, <1>7, <1>8, <1>9, <1>10, <1>11, <1>12
     DEF Next, Work

LEMMA WebhookInit == Init => WebhookInv
<1> SUFFICES ASSUME Init PROVE WebhookInv
  OBVIOUS
<1>1. \A w \in Workers : worker[w] = NoWork /\ worker[w].pc = "idle"
  BY DEF Init, NoWork
<1>2. TypeOK
  BY <1>1, NoWorkType, WebhookAssumption DEF Init, TypeOK
<1>3. QED
  BY <1>1, <1>2 DEF Init, WebhookInv, KnownOnce, Taken, Accepted, Covered,
                    DeliveredMeansReceived

LEMMA WebhookInvariant == Spec => []WebhookInv
BY WebhookInit, WebhookStep, PTL DEF Spec

-----------------------------------------------------------------------------
(* Duplicates *)

\* The workers that are about to post event e to endpoint p, and those that are about to
\* record that p has accepted it.
AtPost(e, p) ==
    {w \in Workers : worker[w].pc = "post" /\ worker[w].event = e /\ Endpoint(w) = p}
AtRecord(e, p) ==
    {w \in Workers : /\ worker[w].pc = "record" /\ worker[w].ok
                     /\ worker[w].event = e /\ Endpoint(w) = p}

\* Until its success is recorded, every receipt is one about to be recorded or a mishap;
\* afterwards only those that were about to post can add to the receipts.
PairCount(e, p) ==
    /\ <<e, p>> \notin successes =>
          receipts[<<e, p>>] <= Cardinality(AtRecord(e, p)) + mishaps
    /\ <<e, p>> \in successes =>
          receipts[<<e, p>>] + Cardinality(AtPost(e, p)) <= Cardinality(Workers) + mishaps

\* Nobody knows an endpoint that is not registered yet.
Unknown(p) ==
    /\ \A w \in Workers : p \notin worker[w].todo
    /\ \A e \in Events : receipts[<<e, p>>] = 0 /\ <<e, p>> \notin successes

CountInv ==
    \A p \in Endpoints :
       /\ registry[p] = "new" => Unknown(p)
       /\ registry[p] = "enabled" => \A e \in Events : PairCount(e, p)

LEMMA CountTypes ==
    ASSUME TypeOK, NEW e \in Events, NEW p \in Endpoints
    PROVE  /\ receipts[<<e, p>>] \in Nat /\ mishaps \in Nat
           /\ IsFiniteSet(AtPost(e, p)) /\ Cardinality(AtPost(e, p)) \in Nat
           /\ IsFiniteSet(AtRecord(e, p)) /\ Cardinality(AtRecord(e, p)) \in Nat
           /\ Cardinality(Workers) \in Nat
           /\ Cardinality(AtPost(e, p)) + Cardinality(AtRecord(e, p)) <= Cardinality(Workers)
<1>1. receipts[<<e, p>>] \in Nat /\ mishaps \in Nat
  BY WebhookAssumption DEF TypeOK, Pairs
<1>2. /\ AtPost(e, p) \subseteq Workers /\ AtRecord(e, p) \subseteq Workers
      /\ AtPost(e, p) \cap AtRecord(e, p) = {}
  BY DEF AtPost, AtRecord
<1>3. /\ IsFiniteSet(AtPost(e, p)) /\ IsFiniteSet(AtRecord(e, p))
      /\ IsFiniteSet(AtPost(e, p) \cup AtRecord(e, p))
      /\ Cardinality(AtPost(e, p) \cup AtRecord(e, p)) <= Cardinality(Workers)
  <2>1. AtPost(e, p) \cup AtRecord(e, p) \subseteq Workers
    BY <1>2
  <2>2. QED
    BY <1>2, <2>1, WebhookAssumption, FS_Subset
<1>4. /\ Cardinality(AtPost(e, p)) \in Nat /\ Cardinality(AtRecord(e, p)) \in Nat
      /\ Cardinality(Workers) \in Nat
  BY <1>3, WebhookAssumption, FS_CardinalityType
<1>5. Cardinality(AtPost(e, p) \cup AtRecord(e, p))
         = Cardinality(AtPost(e, p)) + Cardinality(AtRecord(e, p))
         - Cardinality(AtPost(e, p) \cap AtRecord(e, p))
  BY <1>3, FS_Union
<1>6. Cardinality(AtPost(e, p) \cap AtRecord(e, p)) = 0
  BY <1>2, FS_EmptySet
<1>7. QED
  BY <1>1, <1>3, <1>4, <1>5, <1>6

\* A step keeps the count of a pair if it makes no receipt and no success of it, takes no
\* worker from the record and, once there is a success, adds none to the post.
LEMMA QuietCount ==
    ASSUME TypeOK, TypeOK', NEW e \in Events, NEW p \in Endpoints, PairCount(e, p),
           receipts'[<<e, p>>] = receipts[<<e, p>>],
           <<e, p>> \in successes' <=> <<e, p>> \in successes,
           mishaps' >= mishaps,
           AtRecord(e, p) \subseteq AtRecord(e, p)',
           <<e, p>> \in successes => AtPost(e, p)' \subseteq AtPost(e, p)
    PROVE  PairCount(e, p)'
<1>1. /\ receipts[<<e, p>>] \in Nat /\ mishaps \in Nat /\ Cardinality(Workers) \in Nat
      /\ IsFiniteSet(AtPost(e, p)) /\ Cardinality(AtPost(e, p)) \in Nat
      /\ Cardinality(AtRecord(e, p)) \in Nat
  BY CountTypes
<1>2. /\ mishaps' \in Nat /\ IsFiniteSet(AtRecord(e, p)')
      /\ Cardinality(AtRecord(e, p)') \in Nat /\ Cardinality(AtPost(e, p)') \in Nat
  <2>1. IsFiniteSet(AtRecord(e, p)') /\ IsFiniteSet(AtPost(e, p)')
    <3>1. AtRecord(e, p)' \subseteq Workers /\ AtPost(e, p)' \subseteq Workers
      BY DEF AtRecord, AtPost
    <3>2. QED
      BY <3>1, WebhookAssumption, FS_Subset
  <2>2. QED
    BY <2>1, FS_CardinalityType, WebhookAssumption DEF TypeOK
<1>3. CASE <<e, p>> \notin successes
  <2>1. Cardinality(AtRecord(e, p)) <= Cardinality(AtRecord(e, p)')
    BY <1>2, FS_Subset
  <2>2. receipts[<<e, p>>] <= Cardinality(AtRecord(e, p)) + mishaps
    BY <1>3 DEF PairCount
  <2>3. receipts'[<<e, p>>] <= Cardinality(AtRecord(e, p)') + mishaps'
    BY <1>1, <1>2, <2>1, <2>2
  <2>4. QED
    BY <1>3, <2>3 DEF PairCount
<1>4. CASE <<e, p>> \in successes
  <2>1. Cardinality(AtPost(e, p)') <= Cardinality(AtPost(e, p))
    BY <1>1, <1>4, FS_Subset
  <2>2. receipts[<<e, p>>] + Cardinality(AtPost(e, p)) <= Cardinality(Workers) + mishaps
    BY <1>4 DEF PairCount
  <2>3. receipts'[<<e, p>>] + Cardinality(AtPost(e, p)') <= Cardinality(Workers) + mishaps'
    BY <1>1, <1>2, <2>1, <2>2
  <2>4. QED
    BY <1>4, <2>3 DEF PairCount
<1>5. QED
  BY <1>3, <1>4

\* The other workers are where they were.
LEMMA OthersCount ==
    ASSUME NEW e, NEW p, NEW w \in Workers,
           \A v \in Workers \ {w} : worker'[v] = worker[v]
    PROVE  /\ AtPost(e, p)' \subseteq AtPost(e, p) \cup {w}
           /\ AtPost(e, p) \subseteq AtPost(e, p)' \cup {w}
           /\ AtRecord(e, p)' \subseteq AtRecord(e, p) \cup {w}
           /\ AtRecord(e, p) \subseteq AtRecord(e, p)' \cup {w}
BY DEF AtPost, AtRecord, Endpoint

\* A step of a worker that is not about to record a success, and does not begin to post.
LEMMA IdleCount ==
    ASSUME TypeOK, TypeOK', NEW e \in Events, NEW p \in Endpoints, PairCount(e, p),
           receipts' = receipts, successes' = successes, mishaps' >= mishaps,
           NEW w \in Workers, \A v \in Workers \ {w} : worker'[v] = worker[v],
           worker[w].pc # "record", worker'[w].pc # "post"
    PROVE  PairCount(e, p)'
<1>1. w \notin AtRecord(e, p) /\ w \notin AtPost(e, p)'
  BY DEF AtRecord, AtPost
<1>2. AtRecord(e, p) \subseteq AtRecord(e, p)' /\ AtPost(e, p)' \subseteq AtPost(e, p)
  BY <1>1, OthersCount
<1>3. QED
  BY <1>2, QuietCount

\* An answer, or the loss of one, adds at most what it takes from the workers at the post.
LEMMA PostCount ==
    ASSUME TypeOK, TypeOK', NEW e \in Events, NEW p \in Endpoints, PairCount(e, p),
           NEW w \in Workers, Post(w)
    PROVE  PairCount(e, p)'
<1>1. PICK accepted \in BOOLEAN, answered \in BOOLEAN :
        /\ accepted \/ answered
        /\ worker' = [worker EXCEPT ![w].pc = "record", ![w].ok = accepted /\ answered]
        /\ receipts' = IF accepted THEN [receipts EXCEPT ![Pair(w)] = @ + 1] ELSE receipts
        /\ IF answered THEN UNCHANGED mishaps
                       ELSE mishaps < MaxMishaps /\ mishaps' = mishaps + 1
  BY DEF Post
<1>2. successes' = successes /\ worker[w].pc = "post"
  BY DEF Post
<1>3. \A v \in Workers \ {w} : worker'[v] = worker[v]
  BY <1>1 DEF TypeOK
<1>4. /\ worker'[w].pc = "record" /\ (worker'[w].ok <=> accepted /\ answered)
      /\ worker'[w].event = worker[w].event /\ worker'[w].todo = worker[w].todo
  BY <1>1 DEF TypeOK, WorkRecord
<1>5. w \notin AtRecord(e, p) /\ w \notin AtPost(e, p)'
  BY <1>2, <1>4 DEF AtRecord, AtPost
<1>6. AtRecord(e, p) \subseteq AtRecord(e, p)' /\ AtPost(e, p)' \subseteq AtPost(e, p) \ {w}
  BY <1>3, <1>5, OthersCount
<1>7. /\ mishaps' >= mishaps /\ mishaps \in Nat /\ mishaps' \in Nat
      /\ ~answered => mishaps' = mishaps + 1
  BY <1>1, WebhookAssumption DEF TypeOK
<1>8. CASE Pair(w) # <<e, p>> \/ ~accepted
  <2>1. receipts'[<<e, p>>] = receipts[<<e, p>>]
    BY <1>1, <1>8 DEF TypeOK, Pairs
  <2>2. QED
    BY <1>2, <1>6, <1>7, <2>1, QuietCount
<1>9. CASE Pair(w) = <<e, p>> /\ accepted
  <2>1. receipts'[<<e, p>>] = receipts[<<e, p>>] + 1
    BY <1>1, <1>9 DEF TypeOK, Pairs
  <2>2. w \in AtPost(e, p)
    BY <1>2, <1>9 DEF AtPost, Pair
  <2>3. /\ receipts[<<e, p>>] \in Nat /\ Cardinality(Workers) \in Nat
        /\ IsFiniteSet(AtPost(e, p)) /\ Cardinality(AtPost(e, p)) \in Nat
        /\ IsFiniteSet(AtRecord(e, p)) /\ Cardinality(AtRecord(e, p)) \in Nat
    BY CountTypes
  <2>4. IsFiniteSet(AtRecord(e, p)') /\ IsFiniteSet(AtPost(e, p)')
    <3>1. AtRecord(e, p)' \subseteq Workers /\ AtPost(e, p)' \subseteq Workers
      BY DEF AtRecord, AtPost
    <3>2. QED
      BY <3>1, WebhookAssumption, FS_Subset
  <2>5. Cardinality(AtRecord(e, p)') \in Nat /\ Cardinality(AtPost(e, p)') \in Nat
    BY <2>4, FS_CardinalityType
  <2>6. CASE <<e, p>> \in successes
    <3>1. Cardinality(AtPost(e, p) \ {w}) = Cardinality(AtPost(e, p)) - 1
      BY <2>2, <2>3, FS_RemoveElement
    <3>2. IsFiniteSet(AtPost(e, p) \ {w})
      BY <2>3, FS_RemoveElement
    <3>3. Cardinality(AtPost(e, p)') <= Cardinality(AtPost(e, p) \ {w})
      BY <1>6, <3>2, FS_Subset
    <3>4. receipts[<<e, p>>] + Cardinality(AtPost(e, p)) <= Cardinality(Workers) + mishaps
      BY <2>6 DEF PairCount
    <3>5. receipts'[<<e, p>>] + Cardinality(AtPost(e, p)') <= Cardinality(Workers) + mishaps'
      BY <1>7, <2>1, <2>3, <2>5, <3>1, <3>3, <3>4
    <3>6. QED
      BY <1>2, <2>6, <3>5 DEF PairCount
  <2>7. CASE <<e, p>> \notin successes /\ answered
    <3>1. w \in AtRecord(e, p)'
      BY <1>4, <1>9, <2>7 DEF AtRecord, Pair, Endpoint
    <3>2. Cardinality(AtRecord(e, p) \cup {w}) = Cardinality(AtRecord(e, p)) + 1
      BY <1>5, <2>3, FS_AddElement
    <3>3. Cardinality(AtRecord(e, p) \cup {w}) <= Cardinality(AtRecord(e, p)')
      <4>1. AtRecord(e, p) \cup {w} \subseteq AtRecord(e, p)'
        BY <1>6, <3>1
      <4>2. QED
        BY <2>4, <4>1, FS_Subset
    <3>4. receipts[<<e, p>>] <= Cardinality(AtRecord(e, p)) + mishaps
      BY <2>7 DEF PairCount
    <3>5. receipts'[<<e, p>>] <= Cardinality(AtRecord(e, p)') + mishaps'
      BY <1>7, <2>1, <2>3, <2>5, <3>2, <3>3, <3>4
    <3>6. QED
      BY <1>2, <2>7, <3>5 DEF PairCount
  <2>8. CASE <<e, p>> \notin successes /\ ~answered
    <3>1. Cardinality(AtRecord(e, p)) <= Cardinality(AtRecord(e, p)')
      BY <1>6, <2>4, FS_Subset
    <3>2. receipts[<<e, p>>] <= Cardinality(AtRecord(e, p)) + mishaps
      BY <2>8 DEF PairCount
    <3>3. receipts'[<<e, p>>] <= Cardinality(AtRecord(e, p)') + mishaps'
      BY <1>7, <2>1, <2>3, <2>5, <2>8, <3>1, <3>2
    <3>4. QED
      BY <1>2, <2>8, <3>3 DEF PairCount
  <2>9. QED
    BY <2>6, <2>7, <2>8
<1>10. QED
  BY <1>8, <1>9

\* The first success of a pair is recorded when every receipt is accounted for.
LEMMA RecordCount ==
    ASSUME TypeOK, TypeOK', NEW e \in Events, NEW p \in Enabled, PairCount(e, p),
           NEW w \in Workers, Record(w)
    PROVE  PairCount(e, p)'
<1>0. p \in Endpoints /\ Endpoints = Endpoints
  BY DEF Enabled
<1>1. /\ receipts' = receipts /\ mishaps' = mishaps /\ worker[w].pc = "record"
      /\ mishaps \in Nat
  BY WebhookAssumption DEF Record, TypeOK
<1>2. /\ \A v \in Workers \ {w} : worker'[v] = worker[v]
      /\ worker'[w].pc \in {"check", "idle"}
  BY DEF Record, TypeOK, WorkRecord, NoWork
<1>3. w \notin AtPost(e, p)' /\ AtPost(e, p)' \subseteq AtPost(e, p)
  <2>1. w \notin AtPost(e, p)'
    BY <1>2 DEF AtPost
  <2>2. QED
    BY <1>2, <2>1, OthersCount
<1>4. CASE w \notin AtRecord(e, p)
  <2>1. AtRecord(e, p) \subseteq AtRecord(e, p)'
    <3>1. AtRecord(e, p) \subseteq AtRecord(e, p)' \cup {w}
      BY <1>2, OthersCount
    <3>2. QED
      BY <1>4, <3>1
  <2>2. <<e, p>> \in successes' <=> <<e, p>> \in successes
    BY <1>1, <1>4 DEF Record, AtRecord, Pair
  <2>3. QED
    BY <1>0, <1>1, <1>3, <2>1, <2>2, QuietCount
<1>5. CASE w \in AtRecord(e, p)
  <2>1. <<e, p>> \in successes'
    BY <1>5 DEF Record, AtRecord, Pair
  <2>2. /\ receipts[<<e, p>>] \in Nat /\ Cardinality(Workers) \in Nat
        /\ IsFiniteSet(AtPost(e, p)) /\ Cardinality(AtPost(e, p)) \in Nat
        /\ Cardinality(AtRecord(e, p)) \in Nat
        /\ Cardinality(AtPost(e, p)) + Cardinality(AtRecord(e, p)) <= Cardinality(Workers)
    BY <1>0, CountTypes
  <2>3. receipts[<<e, p>>] + Cardinality(AtPost(e, p)) <= Cardinality(Workers) + mishaps
    BY <1>1, <2>2 DEF PairCount
  <2>4. IsFiniteSet(AtPost(e, p)') /\ Cardinality(AtPost(e, p)') <= Cardinality(AtPost(e, p))
    BY <1>3, <2>2, FS_Subset
  <2>5. Cardinality(AtPost(e, p)') \in Nat
    BY <2>4, FS_CardinalityType
  <2>6. receipts'[<<e, p>>] + Cardinality(AtPost(e, p)') <= Cardinality(Workers) + mishaps'
    BY <1>1, <2>2, <2>3, <2>4, <2>5
  <2>7. QED
    BY <2>1, <2>6 DEF PairCount
<1>6. QED
  BY <1>4, <1>5

\* A worker that is lost leaves at most its own receipt unrecorded: the mishap.
LEMMA AbandonCount ==
    ASSUME TypeOK, TypeOK', NEW e \in Events, NEW p \in Endpoints, PairCount(e, p),
           NEW w \in Workers, Abandon(w)
    PROVE  PairCount(e, p)'
<1>1. /\ receipts' = receipts /\ successes' = successes /\ mishaps' = mishaps + 1
      /\ \A v \in Workers \ {w} : worker'[v] = worker[v]
      /\ worker'[w].pc = "idle"
  BY DEF Abandon, TypeOK, NoWork
<1>2. /\ receipts[<<e, p>>] \in Nat /\ mishaps \in Nat
      /\ IsFiniteSet(AtRecord(e, p)) /\ Cardinality(AtRecord(e, p)) \in Nat
  BY CountTypes
<1>3. AtPost(e, p)' \subseteq AtPost(e, p)
  BY <1>1, OthersCount DEF AtPost
<1>4. CASE w \notin AtRecord(e, p)
  <2>1. AtRecord(e, p) \subseteq AtRecord(e, p)' /\ mishaps' >= mishaps
    <3>1. AtRecord(e, p) \subseteq AtRecord(e, p)' \cup {w}
      BY <1>1, OthersCount
    <3>2. QED
      BY <1>1, <1>2, <1>4, <3>1
  <2>2. QED
    BY <1>1, <1>3, <2>1, QuietCount
<1>5. CASE w \in AtRecord(e, p)
  <2>1. AtRecord(e, p) \ {w} \subseteq AtRecord(e, p)'
    BY <1>1, OthersCount
  <2>2. IsFiniteSet(AtRecord(e, p)')
    <3>1. AtRecord(e, p)' \subseteq Workers
      BY DEF AtRecord
    <3>2. QED
      BY <3>1, WebhookAssumption, FS_Subset
  <2>3. /\ Cardinality(AtRecord(e, p) \ {w}) = Cardinality(AtRecord(e, p)) - 1
        /\ Cardinality(AtRecord(e, p) \ {w}) <= Cardinality(AtRecord(e, p)')
        /\ Cardinality(AtRecord(e, p)') \in Nat
    BY <1>2, <1>5, <2>1, <2>2, FS_RemoveElement, FS_Subset, FS_CardinalityType
  <2>4. CASE <<e, p>> \notin successes
    BY <1>1, <1>2, <2>3, <2>4 DEF PairCount
  <2>5. CASE <<e, p>> \in successes
    <3>1. /\ IsFiniteSet(AtPost(e, p)) /\ Cardinality(AtPost(e, p)) \in Nat
          /\ Cardinality(Workers) \in Nat
      BY CountTypes
    <3>2. IsFiniteSet(AtPost(e, p)') /\ Cardinality(AtPost(e, p)') <= Cardinality(AtPost(e, p))
      BY <1>3, <3>1, FS_Subset
    <3>3. Cardinality(AtPost(e, p)') \in Nat
      BY <3>2, FS_CardinalityType
    <3>4. QED
      BY <1>1, <1>2, <2>5, <3>1, <3>2, <3>3 DEF PairCount
  <2>6. QED
    BY <2>4, <2>5
<1>6. QED
  BY <1>4, <1>5

LEMMA CountStep ==
    ASSUME TypeOK, TypeOK', CountInv, [Next]_vars
    PROVE  CountInv'
\* It suffices to look at one endpoint; a registration is the only way to become known.
<1>1. ASSUME \A p \in Endpoints : registry'[p] = "new" => registry[p] = "new",
             \A p \in Endpoints : registry'[p] = "new" => Unknown(p)',
             \A p \in Endpoints, e \in Events :
                registry[p] = "enabled" /\ registry'[p] = "enabled" /\ PairCount(e, p)
                   => PairCount(e, p)',
             \A p \in Endpoints : registry'[p] = "enabled" => registry[p] = "enabled"
      PROVE  CountInv'
  BY <1>1 DEF CountInv
\* A step of one worker that receives nothing and learns of registered endpoints only.
<1>2. ASSUME NEW w \in Workers, registry' = registry,
             \A v \in Workers \ {w} : worker'[v] = worker[v],
             worker'[w].todo \subseteq worker[w].todo \cup Enabled,
             \A p \in Endpoints, e \in Events : registry[p] = "new" /\ receipts[<<e, p>>] = 0
                /\ <<e, p>> \notin successes /\ p \notin worker[w].todo
                   => receipts'[<<e, p>>] = 0 /\ <<e, p>> \notin successes',
             \A p \in Enabled, e \in Events : PairCount(e, p) => PairCount(e, p)'
      PROVE  CountInv'
  <2>1. ASSUME NEW p \in Endpoints, registry'[p] = "new" PROVE Unknown(p)'
    <3>1. Unknown(p) /\ p \notin Enabled
      BY <1>2, <2>1 DEF CountInv, Enabled
    <3>2. QED
      BY <1>2, <2>1, <3>1 DEF Unknown
  <2>2. QED
    BY <1>1, <1>2, <2>1 DEF Enabled
<1>3. ASSUME UNCHANGED <<worker, registry, successes, receipts, mishaps>> PROVE CountInv'
  BY <1>3 DEF CountInv, Unknown, PairCount, AtPost, AtRecord, Endpoint
<1>4. ASSUME NEW e \in Events, Emit(e) \/ BackoffEnds(e) PROVE CountInv'
  BY <1>3, <1>4 DEF Emit, BackoffEnds
<1>5. ASSUME NEW q \in Endpoints, Register(q) PROVE CountInv'
  <2>1. /\ registry[q] = "new" /\ registry' = [registry EXCEPT ![q] = "enabled"]
        /\ UNCHANGED <<worker, successes, receipts, mishaps>>
    BY <1>5 DEF Register
  <2>2. ASSUME NEW e \in Events PROVE PairCount(e, q)
    <3>1. receipts[<<e, q>>] = 0 /\ <<e, q>> \notin successes
      BY <2>1 DEF CountInv, Unknown
    <3>2. Cardinality(AtRecord(e, q)) \in Nat /\ mishaps \in Nat
      BY CountTypes
    <3>3. QED
      BY <3>1, <3>2 DEF PairCount
  <2>3. ASSUME NEW e \in Events, NEW p \in Endpoints, PairCount(e, p) PROVE PairCount(e, p)'
    BY <2>1, <2>3 DEF PairCount, AtPost, AtRecord, Endpoint
  <2>4. ASSUME NEW p \in Endpoints, Unknown(p) PROVE Unknown(p)'
    BY <2>1, <2>4 DEF Unknown
  <2>5. QED
    BY <2>1, <2>2, <2>3, <2>4 DEF CountInv, TypeOK
<1>6. ASSUME NEW q \in Endpoints, Remove(q) PROVE CountInv'
  <2>1. /\ registry' = [registry EXCEPT ![q] = "removed"]
        /\ successes' = {pair \in successes : pair[2] # q}
        /\ UNCHANGED <<worker, receipts, mishaps>>
    BY <1>6 DEF Remove
  <2>2. ASSUME NEW e \in Events, NEW p \in Endpoints \ {q}, PairCount(e, p) PROVE PairCount(e, p)'
    <3>1. <<e, p>> \in successes' <=> <<e, p>> \in successes
      BY <2>1
    <3>2. QED
      BY <2>1, <2>2, <3>1 DEF PairCount, AtPost, AtRecord, Endpoint
  <2>3. ASSUME NEW p \in Endpoints, Unknown(p) PROVE Unknown(p)'
    BY <2>1, <2>3 DEF Unknown
  <2>4. QED
    BY <2>1, <2>2, <2>3 DEF CountInv, TypeOK
<1>7. ASSUME NEW w \in Workers, Claim(w) PROVE CountInv'
  <2>1. PICK e \in Claimable : worker' = [worker EXCEPT ![w] =
                [NoWork EXCEPT !.pc = "read", !.event = e, !.attempt = attempts[e] + 1]]
    BY <1>7 DEF Claim
  <2>2. /\ \A v \in Workers \ {w} : worker'[v] = worker[v]
        /\ worker[w].pc = "idle" /\ worker'[w].pc = "read" /\ worker'[w].todo = {}
    BY <1>7, <2>1 DEF Claim, NoWork, TypeOK
  <2>3. UNCHANGED <<registry, successes, receipts, mishaps>> /\ mishaps' >= mishaps
    BY <1>7, WebhookAssumption DEF Claim, TypeOK
  <2>4. \A p \in Enabled, f \in Events : PairCount(f, p) => PairCount(f, p)'
    BY <2>2, <2>3, IdleCount DEF Enabled
  <2>5. QED
    BY <1>2, <2>2, <2>3, <2>4
<1>8. ASSUME NEW w \in Workers, ReadEndpoints(w) PROVE CountInv'
  <2>1. /\ \A v \in Workers \ {w} : worker'[v] = worker[v]
        /\ worker[w].pc = "read" /\ worker'[w].pc = "check" /\ worker'[w].todo = Enabled
    BY <1>8 DEF ReadEndpoints, TypeOK, WorkRecord
  <2>2. UNCHANGED <<registry, successes, receipts, mishaps>> /\ mishaps' >= mishaps
    BY <1>8, WebhookAssumption DEF ReadEndpoints, TypeOK
  <2>3. \A p \in Enabled, f \in Events : PairCount(f, p) => PairCount(f, p)'
    BY <2>1, <2>2, IdleCount DEF Enabled
  <2>4. QED
    BY <1>2, <2>1, <2>2, <2>3
<1>9. ASSUME NEW w \in Workers, Check(w) PROVE CountInv'
  <2>1. UNCHANGED <<registry, successes, receipts, mishaps>> /\ mishaps' >= mishaps
    BY <1>9, WebhookAssumption DEF Check, TypeOK
  <2>2. /\ \A v \in Workers \ {w} : worker'[v] = worker[v]
        /\ worker[w].pc = "check" /\ worker'[w].todo \subseteq worker[w].todo
    BY <1>9 DEF Check, TypeOK, WorkRecord
  <2>3. CASE AlreadyDelivered(w)
    <3>1. worker'[w].pc = "check"
      BY <1>9, <2>3 DEF Check, TypeOK, WorkRecord
    <3>2. \A p \in Enabled, f \in Events : PairCount(f, p) => PairCount(f, p)'
      BY <2>1, <2>2, <3>1, IdleCount DEF Enabled
    <3>3. QED
      BY <1>2, <2>1, <2>2, <3>2
  <2>4. CASE ~AlreadyDelivered(w)
    <3>1. /\ worker'[w].pc = "post" /\ worker'[w].event = worker[w].event
          /\ worker'[w].todo = worker[w].todo
      BY <1>9, <2>4 DEF Check, TypeOK, WorkRecord
    <3>2. ASSUME NEW p \in Enabled, NEW f \in Events, PairCount(f, p) PROVE PairCount(f, p)'
      <4>1. AtRecord(f, p) \subseteq AtRecord(f, p)'
        <5>1. AtRecord(f, p) \subseteq AtRecord(f, p)' \cup {w}
          BY <2>2, OthersCount
        <5>2. w \notin AtRecord(f, p)
          BY <2>2 DEF AtRecord
        <5>3. QED
          BY <5>1, <5>2
      <4>2. w \in AtPost(f, p)' => <<f, p>> \notin successes
        BY <2>4, <3>1 DEF AtPost, AlreadyDelivered, Pair, Endpoint
      <4>3. <<f, p>> \in successes => AtPost(f, p)' \subseteq AtPost(f, p)
        BY <2>2, <4>2, OthersCount
      <4>4. QED
        BY <2>1, <3>2, <4>1, <4>3, QuietCount DEF Enabled
    <3>3. QED
      BY <1>2, <2>1, <2>2, <3>2
  <2>5. QED
    BY <2>3, <2>4
<1>10. ASSUME NEW w \in Workers, Post(w) PROVE CountInv'
  <2>1. PICK accepted \in BOOLEAN, answered \in BOOLEAN :
          /\ worker' = [worker EXCEPT ![w].pc = "record", ![w].ok = accepted /\ answered]
          /\ receipts' = IF accepted THEN [receipts EXCEPT ![Pair(w)] = @ + 1] ELSE receipts
    BY <1>10 DEF Post
  <2>2. registry' = registry /\ successes' = successes
    BY <1>10 DEF Post
  <2>3. worker'[w].todo = worker[w].todo /\ \A v \in Workers \ {w} : worker'[v] = worker[v]
    BY <2>1 DEF TypeOK, WorkRecord
  <2>4. Endpoint(w) \in worker[w].todo
    BY <1>10, EndpointIsTodo DEF Post, TypeOK
  <2>5. ASSUME NEW p \in Endpoints, NEW e \in Events, p \notin worker[w].todo
        PROVE  receipts'[<<e, p>>] = receipts[<<e, p>>]
    <3>1. Pair(w) # <<e, p>> /\ <<e, p>> \in Pairs
      BY <2>4, <2>5 DEF Pair, Pairs
    <3>2. QED
      BY <2>1, <3>1 DEF TypeOK
  <2>6. \A p \in Enabled, f \in Events : PairCount(f, p) => PairCount(f, p)'
    BY <1>10, PostCount DEF Enabled
  <2>7. QED
    BY <1>2, <2>2, <2>3, <2>5, <2>6
<1>11. ASSUME NEW w \in Workers, Record(w) PROVE CountInv'
  <2>1. registry' = registry /\ receipts' = receipts /\ successes' \subseteq successes \cup {Pair(w)}
    BY <1>11 DEF Record
  <2>2. /\ \A v \in Workers \ {w} : worker'[v] = worker[v]
        /\ worker'[w].todo \subseteq worker[w].todo
    BY <1>11 DEF Record, TypeOK, WorkRecord, NoWork
  <2>3. Endpoint(w) \in worker[w].todo
    BY <1>11, EndpointIsTodo DEF Record, TypeOK
  <2>4. \A p \in Endpoints, e \in Events : p \notin worker[w].todo => Pair(w) # <<e, p>>
    BY <2>3 DEF Pair
  <2>5. \A p \in Enabled, f \in Events : PairCount(f, p) => PairCount(f, p)'
    BY <1>11, RecordCount
  <2>6. QED
    BY <1>2, <2>1, <2>2, <2>4, <2>5
<1>12. ASSUME NEW w \in Workers, Finish(w) PROVE CountInv'
  <2>1. UNCHANGED <<registry, successes, receipts, mishaps>> /\ mishaps' >= mishaps
    BY <1>12, WebhookAssumption DEF Finish, TypeOK
  <2>2. /\ \A v \in Workers \ {w} : worker'[v] = worker[v]
        /\ worker[w].pc = "check" /\ worker'[w].pc = "idle" /\ worker'[w].todo = {}
    BY <1>12 DEF Finish, TypeOK, NoWork
  <2>3. \A p \in Enabled, f \in Events : PairCount(f, p) => PairCount(f, p)'
    BY <2>1, <2>2, IdleCount DEF Enabled
  <2>4. QED
    BY <1>2, <2>1, <2>2, <2>3
<1>13. ASSUME NEW w \in Workers, Abandon(w) PROVE CountInv'
  <2>1. UNCHANGED <<registry, successes, receipts>>
    BY <1>13 DEF Abandon
  <2>2. /\ \A v \in Workers \ {w} : worker'[v] = worker[v]
        /\ worker'[w].todo = {}
    BY <1>13 DEF Abandon, TypeOK, NoWork
  <2>3. \A p \in Enabled, f \in Events : PairCount(f, p) => PairCount(f, p)'
    BY <1>13, AbandonCount DEF Enabled
  <2>4. QED
    BY <1>2, <2>1, <2>2, <2>3
<1>14. CASE UNCHANGED vars
  BY <1>3, <1>14 DEF vars
<1>15. QED
  BY <1>4, <1>5, <1>6, <1>7, <1>8, <1>9, <1>10, <1>11, <1>12, <1>13, <1>14 DEF Next, Work

-----------------------------------------------------------------------------
(* Theorems *)

\* The state of the delivery is well typed.
THEOREM DeliveryTypeCorrect == Spec => []TypeOK
BY WebhookInvariant, PTL DEF WebhookInv

\* However many workers share an event, retry it, lose an answer or stop, and whatever
\* endpoints come and go: the event is called delivered only after each endpoint that
\* was there for it, and still is, has accepted it.
THEOREM DeliveredIsReceived == Spec => []DeliveredMeansReceived
BY WebhookInvariant, PTL DEF WebhookInv

\* What the retries cost an endpoint: one receipt for each worker that may be at the same
\* event, and one for each lost answer, failed query or lost worker - however many
\* endpoints, events and attempts there are.
THEOREM DuplicatesAreBounded == Spec => []DuplicatesBounded
<1>1. Init => CountInv
  <2>1. SUFFICES ASSUME Init PROVE CountInv
    OBVIOUS
  <2>2. \A w \in Workers : worker[w].todo = {}
    BY <2>1 DEF Init, NoWork
  <2>3. ASSUME NEW p \in Endpoints, NEW e \in Events PROVE PairCount(e, p)
    <3>1. receipts[<<e, p>>] = 0 /\ <<e, p>> \notin successes
      BY <2>1 DEF Init, Pairs
    <3>2. Cardinality(AtRecord(e, p)) \in Nat /\ mishaps \in Nat
      BY <2>1, WebhookInit, CountTypes DEF WebhookInv
    <3>3. QED
      BY <3>1, <3>2 DEF PairCount
  <2>4. QED
    BY <2>1, <2>2, <2>3 DEF CountInv, Unknown, Init, Pairs
<1>2. TypeOK /\ TypeOK' /\ CountInv /\ [Next]_vars => CountInv'
  BY CountStep
<1>3. TypeOK /\ CountInv => DuplicatesBounded
  <2>1. SUFFICES ASSUME TypeOK, CountInv, NEW e \in Events, NEW p \in Enabled
                 PROVE  receipts[<<e, p>>] <= Cardinality(Workers) + mishaps
    BY DEF DuplicatesBounded
  <2>2. p \in Endpoints /\ PairCount(e, p)
    BY <2>1 DEF Enabled, CountInv
  <2>3. /\ receipts[<<e, p>>] \in Nat /\ mishaps \in Nat /\ Cardinality(Workers) \in Nat
        /\ Cardinality(AtPost(e, p)) \in Nat /\ Cardinality(AtRecord(e, p)) \in Nat
        /\ Cardinality(AtPost(e, p)) + Cardinality(AtRecord(e, p)) <= Cardinality(Workers)
    BY <2>1, <2>2, CountTypes
  <2>4. QED
    BY <2>2, <2>3 DEF PairCount
<1>4. QED
  BY <1>1, <1>2, <1>3, DeliveryTypeCorrect, PTL DEF Spec
=============================================================================

-------------------------- MODULE RevisionRequests --------------------------
(***************************************************************************)
(* Requests for a new revision of one report: POST                          *)
(* /v1/reports/{id}/revisions, with or without an Idempotency-Key, and the  *)
(* publication by the analysis worker, which takes the same way without a   *)
(* key.  A key is reserved before the route runs and keeps the outcome; the *)
(* revisions are numbered by an optimistic insertion.  Every statement is a *)
(* step of its own: any two requests interleave between them.               *)
(***************************************************************************)
EXTENDS Integers, Sequences, FiniteSets

CONSTANTS
    Requests,           \* requests that may overlap
    Keys,               \* Idempotency-Keys that clients use, and use again
    NoKey,
    Contents,           \* 1..n: the states of the report, by content hash
    MaxRequests,        \* bound: requests begun
    MaxMishaps          \* bound: failed statements, lost answers and deaths

ASSUME RevisionAssumption ==
    /\ NoKey \notin Keys
    /\ Contents \subseteq Nat /\ MaxRequests \in Nat /\ MaxMishaps \in Nat

VARIABLES
    live,               \* the content a revision made now would have
    revisions,          \* service_report_revisions: the content of each number
    key,                \* service_idempotency_keys: "free", "held" or "stored"
    stored,             \* the outcome kept for each key
    request,            \* the requests in progress
    ran,                \* how often the route ran for each key
    received,           \* what clients have been answered: <<key, outcome>>
    begun, mishaps

vars == <<live, revisions, key, stored, request, ran, received, begun, mishaps>>

keyVars == <<key, stored, ran>>

\* An outcome is a revision, or an error in its place.
Error   == [revision |-> 0, content |-> 0, created |-> FALSE]
Outcome == [revision : Nat, content : Contents \cup {0}, created : BOOLEAN]
Idle    == [pc |-> "idle", key |-> NoKey, content |-> 0, latest |-> 0, outcome |-> Error]

Init ==
    /\ live \in Contents /\ revisions = <<>>
    /\ key = [k \in Keys |-> "free"]
    /\ stored = [k \in Keys |-> Error]
    /\ request = [r \in Requests |-> Idle]
    /\ ran = [k \in Keys |-> 0]
    /\ received = {} /\ begun = 0 /\ mishaps = 0

Mishap == mishaps < MaxMishaps /\ mishaps' = mishaps + 1

\* Collection, analysis and curation change what the report says, also back again.
Change ==
    /\ live' \in Contents \ {live}
    /\ UNCHANGED <<revisions, keyVars, request, received, begun, mishaps>>

-----------------------------------------------------------------------------
(* beginSaasIdempotency *)

Goto(r, pc) == request' = [request EXCEPT ![r].pc = pc]

\* INSERT ... ON CONFLICT DO NOTHING reserves the key for one of those that bring it.
Begin(r) ==
    /\ request[r].pc = "idle" /\ begun < MaxRequests
    /\ begun' = begun + 1
    /\ \E k \in Keys \cup {NoKey} :
          LET free == k = NoKey \/ key[k] = "free" IN
          /\ request' = [request EXCEPT ![r] =
                [Idle EXCEPT !.key = k, !.pc = IF free THEN "build" ELSE "resolve"]]
          /\ IF k # NoKey /\ free
             THEN /\ key' = [key EXCEPT ![k] = "held"]
                  /\ ran' = [ran EXCEPT ![k] = @ + 1]
             ELSE UNCHANGED <<key, ran>>
    /\ UNCHANGED <<live, revisions, stored, received, mishaps>>

\* A variant that answers with what the report has become.
ResolveLatest(r) ==
    /\ request[r].pc = "resolve"
    /\ LET k == request[r].key
           n == Len(revisions) IN
       received' = IF key[k] = "stored" /\ n > 0
                   THEN received \cup
                        {<<k, [revision |-> n, content |-> revisions[n], created |-> FALSE]>>}
                   ELSE received
    /\ request' = [request EXCEPT ![r] = Idle]
    /\ UNCHANGED <<live, revisions, keyVars, begun, mishaps>>

\* A kept outcome is replayed; without one, or with another body, the answer is 409.
Resolve(r) ==
    /\ request[r].pc = "resolve"
    /\ LET k == request[r].key IN
       received' = IF key[k] = "stored" THEN received \cup {<<k, stored[k]>>} ELSE received
    /\ request' = [request EXCEPT ![r] = Idle]
    /\ UNCHANGED <<live, revisions, keyVars, begun, mishaps>>

-----------------------------------------------------------------------------
(* createReportRevision *)

Revision(n, created) == [revision |-> n, content |-> revisions[n], created |-> created]

Returns(r, outcome) ==
    request' = [request EXCEPT ![r].pc = "store", ![r].outcome = outcome]

Latest == Len(revisions)
IsLatest(c) == Latest > 0 /\ revisions[Latest] = c

\* buildLiveReportContract; a report that is not there, or a scope that is missing, is an
\* error outcome like any other.
Build(r) ==
    /\ request[r].pc = "build"
    /\ \/ request' = [request EXCEPT ![r].pc = "latest", ![r].content = live]
       \/ Returns(r, Error)
    /\ UNCHANGED <<live, revisions, keyVars, received, begun, mishaps>>

\* The content hash decides whether there is anything new.
Replays(c) == IsLatest(c)

ReadLatest(r) ==
    /\ request[r].pc = "latest"
    /\ IF Replays(request[r].content)
       THEN Returns(r, Revision(Latest, FALSE))
       ELSE request' = [request EXCEPT ![r].pc = "insert", ![r].latest = Latest]
    /\ UNCHANGED <<live, revisions, keyVars, received, begun, mishaps>>

\* A variant that does not look whether its row was inserted.
InsertAssumed(r) ==
    /\ request[r].pc = "insert"
    /\ LET c == request[r].content
           n == request[r].latest + 1 IN
       /\ revisions' = IF n = Latest + 1 THEN Append(revisions, c) ELSE revisions
       /\ Returns(r, [revision |-> n, content |-> c, created |-> TRUE])
    /\ UNCHANGED <<live, keyVars, received, begun, mishaps>>

\* (report_id, revision) is unique: the second to insert a number changes nothing.
Insert(r) ==
    /\ request[r].pc = "insert"
    /\ LET c == request[r].content
           n == request[r].latest + 1 IN
       IF n = Latest + 1
       THEN /\ revisions' = Append(revisions, c)
            /\ Returns(r, [revision |-> n, content |-> c, created |-> TRUE])
       ELSE /\ Goto(r, "reread")
            /\ UNCHANGED revisions
    /\ UNCHANGED <<live, keyVars, received, begun, mishaps>>

\* The loser reads the latest again,
Reread(r) ==
    /\ request[r].pc = "reread"
    /\ IF IsLatest(request[r].content)
       THEN Returns(r, Revision(Latest, FALSE))
       ELSE Goto(r, "search")
    /\ UNCHANGED <<live, revisions, keyVars, received, begun, mishaps>>

\* looks for the newest revision with its content,
Search(r) ==
    /\ request[r].pc = "search"
    /\ LET same == {n \in 1..Latest : revisions[n] = request[r].content} IN
       IF same # {}
       THEN \E n \in same : (\A m \in same : m <= n) /\ Returns(r, Revision(n, FALSE))
       ELSE Goto(r, "winner")
    /\ UNCHANGED <<live, revisions, keyVars, received, begun, mishaps>>

\* and in the end returns the latest, whatever it says.
Winner(r) ==
    /\ request[r].pc = "winner"
    /\ Returns(r, Revision(Latest, FALSE))
    /\ UNCHANGED <<live, revisions, keyVars, received, begun, mishaps>>

-----------------------------------------------------------------------------
(* The answer *)

\* A variant that keeps successes only.
KeepsSuccess(outcome) == outcome # Error

Keeps(outcome) == TRUE

\* completeSaasIdempotency, before a success or an error is sent; that it may fail is
\* logged and forgotten.
Store(r) ==
    /\ request[r].pc = "store"
    /\ LET k == request[r].key IN
       \/ /\ k # NoKey /\ Keeps(request[r].outcome)
          /\ key' = [key EXCEPT ![k] = "stored"]
          /\ stored' = [stored EXCEPT ![k] = request[r].outcome]
          /\ UNCHANGED mishaps
       \/ /\ IF k # NoKey /\ Keeps(request[r].outcome) THEN Mishap ELSE UNCHANGED mishaps
          /\ UNCHANGED <<key, stored>>
    /\ Goto(r, "send")
    /\ UNCHANGED <<live, revisions, ran, received, begun>>

\* The client hears the answer, or the connection is lost.
Send(r) ==
    /\ request[r].pc = "send"
    /\ \/ received' = received \cup {<<request[r].key, request[r].outcome>>}
          /\ UNCHANGED mishaps
       \/ UNCHANGED received /\ Mishap
    /\ request' = [request EXCEPT ![r] = Idle]
    /\ UNCHANGED <<live, revisions, keyVars, begun>>

\* A failed statement of the route is an error outcome; one of the reservation leaves
\* nothing behind.
Throws(r) ==
    /\ Mishap
    /\ \/ /\ request[r].pc \in {"build", "latest", "insert", "reread", "search", "winner"}
          /\ Returns(r, Error)
       \/ /\ request[r].pc = "resolve"
          /\ request' = [request EXCEPT ![r] = Idle]
    /\ UNCHANGED <<live, revisions, keyVars, received, begun>>

\* The API process dies with the request.
Die(r) ==
    /\ request[r].pc # "idle" /\ Mishap
    /\ request' = [request EXCEPT ![r] = Idle]
    /\ UNCHANGED <<live, revisions, keyVars, received, begun>>

-----------------------------------------------------------------------------
Handle(r) ==
    \/ Begin(r) \/ Resolve(r) \/ Build(r) \/ ReadLatest(r) \/ Insert(r) \/ Reread(r)
    \/ Search(r) \/ Winner(r) \/ Store(r) \/ Send(r)

Next == Change \/ \E r \in Requests : Handle(r) \/ Throws(r) \/ Die(r)

Spec == Init /\ [][Next]_vars

-----------------------------------------------------------------------------
(* Properties *)

PCs == {"idle", "resolve", "build", "latest", "insert", "reread", "search", "winner",
        "store", "send"}

\* Every variable keeps its type: what is stored, carried and numbered is an outcome or the
\* content of a revision.
TypeOK ==
    /\ live \in Contents /\ revisions \in Seq(Contents)
    /\ key \in [Keys -> {"free", "held", "stored"}]
    /\ stored \in [Keys -> Outcome]
    /\ request \in [Requests -> [pc : PCs, key : Keys \cup {NoKey},
                                 content : Contents \cup {0}, latest : Nat,
                                 outcome : Outcome]]
    /\ ran \in [Keys -> Nat]
    /\ received \subseteq (Keys \cup {NoKey}) \X Outcome
    /\ begun \in 0..MaxRequests /\ mishaps \in 0..MaxMishaps

\* The route runs at most once for a key, however often the client repeats the request and
\* whichever process died with it.
KeyRunsOnce == \A k \in Keys : ran[k] <= 1

\* The first outcome of a key is kept: whoever is answered, once or again, is answered the
\* same (docs/SAAS_PRODUCTION_CONTRACT.md), a change of the report in between or not.
OneOutcomePerKey ==
    \A a, b \in received : a[1] = b[1] /\ a[1] # NoKey => a[2] = b[2]

\* A repeated request is the same request: it runs nothing again and is answered as the
\* first one was.
Idempotence == KeyRunsOnce /\ OneOutcomePerKey

\* Two revisions that follow each other differ: requests that race to record the same
\* content make one revision of it.
NeighboursDiffer == \A n \in 1..(Latest - 1) : revisions[n] # revisions[n + 1]

\* What a client is told of a revision is what the table holds under that number, also
\* when the insertion was lost to another request.
AnswersAreRevisions ==
    \A a \in received : a[2] # Error =>
        a[2].revision \in 1..Latest /\ revisions[a[2].revision] = a[2].content

\* The revisions of a report are a history without repetitions, and what clients are told
\* is in it.
RevisionsAreTrue == NeighboursDiffer /\ AnswersAreRevisions

Holder(k) == \E r \in Requests : request[r].pc \notin {"idle", "resolve"} /\ request[r].key = k

\* A key is left without an outcome only by a process that died or a statement that failed:
\* no way through the route, errors included, forgets to keep one.
HeldKeysAccounted ==
    Cardinality({k \in Keys : key[k] = "held" /\ ~Holder(k)}) <= mishaps
=============================================================================

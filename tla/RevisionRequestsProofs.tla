----------------------- MODULE RevisionRequestsProofs -----------------------
(***************************************************************************)
(* Proofs about RevisionRequests, for any requests, keys, contents and any  *)
(* number of mishaps.  The first part is about the numbers of the revisions *)
(* and the outcomes that name them, the second about the keys.              *)
(***************************************************************************)
EXTENDS RevisionRequests, FiniteSetTheorems, TLAPS

-----------------------------------------------------------------------------
(* The first part: numbers and outcomes *)

Routed == {"latest", "insert", "reread", "search", "winner"}

RequestType == [pc : PCs, key : Keys \cup {NoKey}, content : Contents \cup {0},
                latest : Nat, outcome : Outcome]

\* What an outcome says is what the table v holds.
Real(o, v) == o # Error => o.revision \in 1..Len(v) /\ v[o.revision] = o.content

\* A request that finds its key taken has one.  On its way it knows a content, has not read
\* ahead of the table, has found another content in the row it read, and has lost to somebody.
Sound(q, v) ==
    /\ q.pc = "resolve" => q.key \in Keys
    /\ q.pc \in Routed => q.content \in Contents
    /\ q.pc = "insert" =>
          /\ q.latest <= Len(v)
          /\ q.latest = Len(v) /\ Len(v) > 0 => v[Len(v)] # q.content
    /\ q.pc \in {"reread", "search", "winner"} => Len(v) > 0
    /\ Real(q.outcome, v)

NumberInv ==
    /\ TypeOK
    /\ \A r \in Requests : Sound(request[r], revisions)
    /\ \A k \in Keys : Real(stored[k], revisions)
    /\ \A a \in received : Real(a[2], revisions)
    /\ NeighboursDiffer

LEMMA ErrorIsReal ==
    ASSUME NEW v PROVE Error \in Outcome /\ Real(Error, v)
  BY DEF Error, Outcome, Real

LEMMA IdleIsSound ==
    ASSUME NEW v PROVE Idle \in RequestType /\ Sound(Idle, v)
  <1>1. Error \in Outcome /\ Real(Error, v)
    BY ErrorIsReal
  <1>2. Idle \in RequestType
    BY <1>1 DEF Idle, RequestType, PCs
  <1>3. Idle.pc = "idle" /\ Idle.outcome = Error
    BY DEF Idle
  <1> QED
    BY <1>1, <1>2, <1>3 DEF Sound, Routed

\* A revision that is in the table makes a real outcome.
LEMMA RevisionIsReal ==
    ASSUME revisions \in Seq(Contents), NEW n \in 1..Latest, NEW b \in BOOLEAN
    PROVE  Revision(n, b) \in Outcome /\ Real(Revision(n, b), revisions)
  <1>1. n \in Nat /\ revisions[n] \in Contents
    BY DEF Latest
  <1> QED
    BY <1>1 DEF Revision, Outcome, Real, Latest

\* The table only grows: what was real stays real.
LEMMA RealIsKept ==
    ASSUME NEW v \in Seq(Contents), NEW c \in Contents, NEW o \in Outcome, Real(o, v)
    PROVE  Real(o, Append(v, c))
  <1>1. Len(Append(v, c)) = Len(v) + 1 /\ \A n \in 1..Len(v) : Append(v, c)[n] = v[n]
    OBVIOUS
  <1>2. Len(v) \in Nat
    OBVIOUS
  <1> QED
    BY <1>1, <1>2 DEF Real

\* The request that has inserted a number leaves the others behind it.
LEMMA SoundIsKept ==
    ASSUME NEW v \in Seq(Contents), NEW c \in Contents, NEW q \in RequestType, Sound(q, v)
    PROVE  Sound(q, Append(v, c))
  <1>1. Len(Append(v, c)) = Len(v) + 1 /\ Len(v) \in Nat /\ q.latest \in Nat
    BY DEF RequestType
  <1>2. Real(q.outcome, Append(v, c))
    BY RealIsKept DEF Sound, RequestType
  <1> QED
    BY <1>1, <1>2 DEF Sound

\* An answer that a request has found is its outcome from then on.
LEMMA ReturnIsSound ==
    ASSUME TypeOK, NEW r \in Requests, NEW o \in Outcome, NEW v, Real(o, v), Returns(r, o)
    PROVE  /\ request' \in [Requests -> RequestType]
           /\ Sound(request'[r], v)
           /\ \A s \in Requests : s # r => request'[s] = request[s]
           /\ request'[r].pc = "store" /\ request'[r].key = request[r].key
  <1>1. request \in [Requests -> RequestType]
    BY DEF TypeOK, RequestType
  <1>2. request'[r] = [request[r] EXCEPT !.pc = "store", !.outcome = o]
    BY <1>1 DEF Returns
  <1>3. "store" \in PCs
    BY DEF PCs
  <1>4. request[r] \in RequestType
    BY <1>1
  <1>5. /\ request'[r] \in RequestType
        /\ request'[r].pc = "store" /\ request'[r].outcome = o
        /\ request'[r].key = request[r].key
    BY <1>2, <1>3, <1>4 DEF RequestType
  <1>6. \A s \in Requests : s # r => request'[s] = request[s]
    BY <1>1 DEF Returns
  <1>7. request' \in [Requests -> RequestType]
    BY <1>1, <1>5, <1>6 DEF Returns
  <1>8. Sound(request'[r], v)
    BY <1>5 DEF Sound, Routed
  <1> QED
    BY <1>5, <1>6, <1>7, <1>8

\* The other steps change the request's place and what they say they change.
LEMMA GotoStep ==
    ASSUME TypeOK, NEW r \in Requests, NEW pc \in PCs, Goto(r, pc)
    PROVE  /\ request' \in [Requests -> RequestType]
           /\ \A s \in Requests : s # r => request'[s] = request[s]
           /\ request'[r] = [request[r] EXCEPT !.pc = pc]
           /\ request'[r].pc = pc /\ request'[r].key = request[r].key
           /\ request'[r].content = request[r].content
           /\ request'[r].latest = request[r].latest
           /\ request'[r].outcome = request[r].outcome
  <1>1. request \in [Requests -> RequestType]
    BY DEF TypeOK, RequestType
  <1>2. request'[r] = [request[r] EXCEPT !.pc = pc]
    BY <1>1 DEF Goto
  <1>3. request[r] \in RequestType
    BY <1>1
  <1>4. request'[r] \in RequestType
    BY <1>2, <1>3 DEF RequestType
  <1>5. request' \in [Requests -> RequestType]
    BY <1>1, <1>2, <1>4 DEF Goto
  <1>6. /\ request'[r].pc = pc /\ request'[r].key = request[r].key
        /\ request'[r].content = request[r].content
        /\ request'[r].latest = request[r].latest
        /\ request'[r].outcome = request[r].outcome
    BY <1>2, <1>3 DEF RequestType
  <1> QED
    BY <1>1, <1>2, <1>5, <1>6 DEF Goto

-----------------------------------------------------------------------------
(* The steps *)

\* A step that leaves the table and the kept outcomes alone and moves one request soundly.
LEMMA OneRequestMoves ==
    ASSUME NumberInv, NEW r \in Requests,
           request' \in [Requests -> RequestType],
           Sound(request'[r], revisions),
           \A s \in Requests : s # r => request'[s] = request[s],
           UNCHANGED <<live, revisions, key, stored, ran>>,
           received' \subseteq (Keys \cup {NoKey}) \X Outcome,
           \A a \in received' : Real(a[2], revisions),
           begun' \in 0..MaxRequests, mishaps' \in 0..MaxMishaps
    PROVE  NumberInv'
  <1>1. TypeOK'
    BY DEF NumberInv, TypeOK, RequestType
  <1>2. \A s \in Requests : Sound(request'[s], revisions')
    BY DEF NumberInv
  <1>3. /\ \A k \in Keys : Real(stored'[k], revisions')
        /\ \A a \in received' : Real(a[2], revisions')
    BY DEF NumberInv
  <1>4. NeighboursDiffer'
    BY DEF NumberInv, NeighboursDiffer, Latest
  <1> QED
    BY <1>1, <1>2, <1>3, <1>4 DEF NumberInv

\* The same for a step that hears no answer.
LEMMA OneRequestReturns ==
    ASSUME NumberInv, NEW r \in Requests, NEW o \in Outcome, Real(o, revisions),
           Returns(r, o), UNCHANGED <<live, revisions, key, stored, ran, received>>,
           begun' \in 0..MaxRequests, mishaps' \in 0..MaxMishaps
    PROVE  NumberInv'
  <1>1. TypeOK
    BY DEF NumberInv
  <1>2. /\ request' \in [Requests -> RequestType]
        /\ Sound(request'[r], revisions)
        /\ \A s \in Requests : s # r => request'[s] = request[s]
    BY <1>1, ReturnIsSound
  <1>3. /\ received' \subseteq (Keys \cup {NoKey}) \X Outcome
        /\ \A a \in received' : Real(a[2], revisions)
    BY DEF NumberInv, TypeOK
  <1> QED
    BY <1>2, <1>3, OneRequestMoves

LEMMA OneRequestGoes ==
    ASSUME NumberInv, NEW r \in Requests, NEW pc \in PCs, Goto(r, pc),
           Sound([request[r] EXCEPT !.pc = pc], revisions),
           UNCHANGED <<live, revisions, key, stored, ran, received>>,
           begun' \in 0..MaxRequests, mishaps' \in 0..MaxMishaps
    PROVE  NumberInv'
  <1>1. TypeOK
    BY DEF NumberInv
  <1>2. /\ request' \in [Requests -> RequestType]
        /\ request'[r] = [request[r] EXCEPT !.pc = pc]
        /\ \A s \in Requests : s # r => request'[s] = request[s]
    BY <1>1, GotoStep
  <1>3. /\ received' \subseteq (Keys \cup {NoKey}) \X Outcome
        /\ \A a \in received' : Real(a[2], revisions)
    BY DEF NumberInv, TypeOK
  <1> QED
    BY <1>2, <1>3, OneRequestMoves

\* A request that ends is idle, whatever it has been answered.
LEMMA OneRequestEnds ==
    ASSUME NumberInv, NEW r \in Requests, request' = [request EXCEPT ![r] = Idle],
           UNCHANGED <<live, revisions, key, stored, ran>>,
           received' \subseteq (Keys \cup {NoKey}) \X Outcome,
           \A a \in received' : Real(a[2], revisions),
           begun' \in 0..MaxRequests, mishaps' \in 0..MaxMishaps
    PROVE  NumberInv'
  <1>1. request \in [Requests -> RequestType]
    BY DEF NumberInv, TypeOK, RequestType
  <1>2. Idle \in RequestType /\ Sound(Idle, revisions)
    BY IdleIsSound
  <1>3. /\ request' \in [Requests -> RequestType]
        /\ request'[r] = Idle
        /\ \A s \in Requests : s # r => request'[s] = request[s]
    BY <1>1, <1>2
  <1> QED
    BY <1>2, <1>3, OneRequestMoves

LEMMA MishapCounts ==
    ASSUME TypeOK, Mishap PROVE mishaps' \in 0..MaxMishaps
  BY RevisionAssumption DEF TypeOK, Mishap

\* What a request knows of itself.
LEMMA RequestKnows ==
    ASSUME NumberInv, NEW r \in Requests
    PROVE  /\ request[r] \in RequestType /\ Sound(request[r], revisions)
           /\ request[r].pc \in PCs /\ request[r].key \in Keys \cup {NoKey}
           /\ request[r].content \in Contents \cup {0} /\ request[r].latest \in Nat
           /\ request[r].outcome \in Outcome
           /\ revisions \in Seq(Contents) /\ Latest \in Nat
           /\ begun \in 0..MaxRequests /\ mishaps \in 0..MaxMishaps
  <1>1. request[r] \in RequestType
    BY DEF NumberInv, TypeOK, RequestType
  <1>2. revisions \in Seq(Contents) /\ Latest \in Nat
    BY DEF NumberInv, TypeOK, Latest
  <1> QED
    BY <1>1, <1>2 DEF NumberInv, TypeOK, RequestType

LEMMA BeginNumbers == ASSUME NumberInv, NEW r \in Requests, Begin(r) PROVE NumberInv'
  <1>1. PICK k \in Keys \cup {NoKey} :
          LET free == k = NoKey \/ key[k] = "free" IN
          /\ request' = [request EXCEPT ![r] =
                [Idle EXCEPT !.key = k, !.pc = IF free THEN "build" ELSE "resolve"]]
          /\ IF k # NoKey /\ free
             THEN /\ key' = [key EXCEPT ![k] = "held"]
                  /\ ran' = [ran EXCEPT ![k] = @ + 1]
             ELSE UNCHANGED <<key, ran>>
    BY DEF Begin
  <1> DEFINE q == [Idle EXCEPT !.key = k,
                               !.pc = IF k = NoKey \/ key[k] = "free" THEN "build" ELSE "resolve"]
  <1>2. Error \in Outcome /\ Real(Error, revisions)
    BY ErrorIsReal
  <1>3. q.outcome = Error /\ q.pc \in {"build", "resolve"}
    BY DEF Idle
  <1>4. q \in RequestType
    BY <1>2 DEF Idle, RequestType, PCs
  <1>5. Sound(q, revisions)
    BY <1>2, <1>3 DEF Sound, Routed
  <1>6. request \in [Requests -> RequestType]
    BY DEF NumberInv, TypeOK, RequestType
  <1>7. /\ request' = [request EXCEPT ![r] = q]
        /\ key' \in [Keys -> {"free", "held", "stored"}]
        /\ ran' \in [Keys -> Nat]
    <2>1. request' = [request EXCEPT ![r] = q]
      BY <1>1
    <2>2. /\ key \in [Keys -> {"free", "held", "stored"}] /\ ran \in [Keys -> Nat]
          /\ \/ key' = [key EXCEPT ![k] = "held"] /\ ran' = [ran EXCEPT ![k] = @ + 1]
             \/ key' = key /\ ran' = ran
      BY <1>1 DEF NumberInv, TypeOK
    <2> QED
      BY <2>1, <2>2
  <1>8. request' \in [Requests -> RequestType]
    BY <1>4, <1>6, <1>7
  <1>9. \A s \in Requests : Sound(request'[s], revisions)
    BY <1>5, <1>6, <1>7 DEF NumberInv
  <1>10. UNCHANGED <<live, revisions, stored, received, mishaps>>
    BY DEF Begin
  <1>11. begun' \in 0..MaxRequests
    BY RevisionAssumption DEF Begin, NumberInv, TypeOK
  <1>12. TypeOK'
    BY <1>7, <1>8, <1>10, <1>11 DEF NumberInv, TypeOK, RequestType
  <1>13. NeighboursDiffer'
    BY <1>10 DEF NumberInv, NeighboursDiffer, Latest
  <1> QED
    BY <1>9, <1>10, <1>12, <1>13 DEF NumberInv

LEMMA InsertNumbers == ASSUME NumberInv, NEW r \in Requests, Insert(r) PROVE NumberInv'
  <1> DEFINE c == request[r].content
             n == request[r].latest + 1
             o == [revision |-> n, content |-> c, created |-> TRUE]
  <1>1. /\ request[r] \in RequestType /\ Sound(request[r], revisions)
        /\ request[r].latest \in Nat /\ revisions \in Seq(Contents) /\ Latest \in Nat
        /\ begun \in 0..MaxRequests /\ mishaps \in 0..MaxMishaps
    BY RequestKnows
  <1>2. request[r].pc = "insert" /\ UNCHANGED <<live, key, stored, ran, received, begun, mishaps>>
    BY DEF Insert, keyVars
  <1>3. c \in Contents /\ request[r].latest <= Latest
    BY <1>1, <1>2 DEF Sound, Routed, Latest
  <1>4. CASE n = Latest + 1
    <2>1. revisions' = Append(revisions, c) /\ Returns(r, o)
      BY <1>4 DEF Insert
    <2>2. /\ revisions' \in Seq(Contents) /\ Len(revisions') = Latest + 1
          /\ revisions'[Latest + 1] = c
          /\ \A m \in 1..Latest : revisions'[m] = revisions[m]
      BY <1>1, <1>3, <2>1 DEF Latest
    <2>3. o \in Outcome
      BY <1>1, <1>3 DEF Outcome
    <2>4. Real(o, revisions')
      BY <1>1, <1>4, <2>2 DEF Real
    <2>5. TypeOK
      BY DEF NumberInv
    <2>6. /\ request' \in [Requests -> RequestType] /\ Sound(request'[r], revisions')
          /\ \A s \in Requests : s # r => request'[s] = request[s]
      BY <2>1, <2>3, <2>4, <2>5, ReturnIsSound
    <2>7. ASSUME NEW s \in Requests, s # r PROVE Sound(request'[s], revisions')
      <3>1. request[s] \in RequestType /\ Sound(request[s], revisions)
        BY RequestKnows
      <3>2. Sound(request[s], Append(revisions, c))
        BY <1>1, <1>3, <3>1, SoundIsKept
      <3> QED
        BY <2>1, <2>6, <2>7, <3>2
    <2>8. ASSUME NEW k \in Keys PROVE Real(stored'[k], revisions')
      <3>1. stored[k] \in Outcome /\ Real(stored[k], revisions)
        BY DEF NumberInv, TypeOK
      <3> QED
        BY <1>1, <1>2, <1>3, <2>1, <3>1, RealIsKept
    <2>9. ASSUME NEW a \in received' PROVE Real(a[2], revisions')
      <3>1. a[2] \in Outcome /\ Real(a[2], revisions)
        BY <1>2 DEF NumberInv, TypeOK
      <3> QED
        BY <1>1, <1>3, <2>1, <3>1, RealIsKept
    <2>10. NeighboursDiffer'
      <3>1. SUFFICES ASSUME NEW m \in 1..(Len(revisions') - 1)
                     PROVE revisions'[m] # revisions'[m + 1]
        BY DEF NeighboursDiffer, Latest
      <3>2. CASE m = Latest
        <4>1. request[r].latest = Latest /\ Latest > 0
          BY <1>1, <1>4, <3>2
        <4>2. revisions[Latest] # c
          BY <1>1, <1>2, <4>1 DEF Sound, Latest
        <4> QED
          BY <1>1, <2>2, <3>2, <4>1, <4>2
      <3>3. CASE m # Latest
        <4>1. m \in 1..(Latest - 1) /\ m \in 1..Latest /\ m + 1 \in 1..Latest
          BY <1>1, <2>2, <3>3
        <4> QED
          BY <2>2, <4>1 DEF NumberInv, NeighboursDiffer
      <3> QED
        BY <3>2, <3>3
    <2>11. TypeOK'
      BY <1>2, <2>2, <2>6 DEF NumberInv, TypeOK, RequestType
    <2> QED
      BY <2>6, <2>7, <2>8, <2>9, <2>10, <2>11 DEF NumberInv
  <1>5. CASE n # Latest + 1
    <2>1. Goto(r, "reread") /\ revisions' = revisions
      BY <1>5 DEF Insert
    <2>2. "reread" \in PCs /\ Len(revisions) > 0
      BY <1>1, <1>3, <1>5 DEF PCs, Latest
    <2>3. Sound([request[r] EXCEPT !.pc = "reread"], revisions)
      BY <1>1, <1>3, <2>2 DEF Sound, RequestType
    <2> QED
      BY <1>1, <1>2, <2>1, <2>2, <2>3, OneRequestGoes
  <1> QED
    BY <1>4, <1>5

LEMMA BuildNumbers == ASSUME NumberInv, NEW r \in Requests, Build(r) PROVE NumberInv'
  <1>1. /\ request[r] \in RequestType /\ Sound(request[r], revisions)
        /\ begun \in 0..MaxRequests /\ mishaps \in 0..MaxMishaps
    BY RequestKnows
  <1>2. UNCHANGED <<live, revisions, key, stored, ran, received, begun, mishaps>>
    BY DEF Build, keyVars
  <1>3. Error \in Outcome /\ Real(Error, revisions)
    BY ErrorIsReal
  <1>4. CASE Returns(r, Error)
    BY <1>1, <1>2, <1>3, <1>4, OneRequestReturns
  <1>5. CASE request' = [request EXCEPT ![r].pc = "latest", ![r].content = live]
    <2> DEFINE q == [request[r] EXCEPT !.pc = "latest", !.content = live]
    <2>1. live \in Contents /\ request \in [Requests -> RequestType]
      BY DEF NumberInv, TypeOK, RequestType
    <2>2. request' = [request EXCEPT ![r] = q]
      BY <1>5, <2>1
    <2>3. q \in RequestType /\ q.pc = "latest" /\ q.content = live /\ q.outcome = request[r].outcome
      BY <1>1, <2>1 DEF RequestType, PCs
    <2>4. Sound(q, revisions)
      BY <1>1, <2>1, <2>3 DEF Sound
    <2> HIDE DEF q
    <2>5. /\ request' \in [Requests -> RequestType] /\ request'[r] = q
          /\ \A s \in Requests : s # r => request'[s] = request[s]
      BY <2>1, <2>2, <2>3
    <2>6. /\ received' \subseteq (Keys \cup {NoKey}) \X Outcome
          /\ \A a \in received' : Real(a[2], revisions)
      BY <1>2 DEF NumberInv, TypeOK
    <2> QED
      BY <1>1, <1>2, <2>4, <2>5, <2>6, OneRequestMoves
  <1> QED
    BY <1>4, <1>5 DEF Build

LEMMA ReadLatestNumbers == ASSUME NumberInv, NEW r \in Requests, ReadLatest(r) PROVE NumberInv'
  <1>1. /\ request[r] \in RequestType /\ Sound(request[r], revisions)
        /\ revisions \in Seq(Contents) /\ Latest \in Nat
        /\ begun \in 0..MaxRequests /\ mishaps \in 0..MaxMishaps
    BY RequestKnows
  <1>2. /\ UNCHANGED <<live, revisions, key, stored, ran, received, begun, mishaps>>
        /\ request[r].pc = "latest" /\ request[r].content \in Contents
    BY <1>1 DEF ReadLatest, keyVars, Sound, Routed
  <1>3. CASE IsLatest(request[r].content)
    <2>1. Latest \in 1..Latest /\ Returns(r, Revision(Latest, FALSE))
      <3>1. Latest \in 1..Latest
        BY <1>1, <1>3 DEF IsLatest
      <3>2. Returns(r, Revision(Latest, FALSE))
        BY <1>3 DEF ReadLatest, Replays
      <3> QED
        BY <3>1, <3>2
    <2>2. Revision(Latest, FALSE) \in Outcome /\ Real(Revision(Latest, FALSE), revisions)
      BY <1>1, <2>1, RevisionIsReal
    <2> QED
      BY <1>1, <1>2, <2>1, <2>2, OneRequestReturns
  <1>4. CASE ~IsLatest(request[r].content)
    <2> DEFINE q == [request[r] EXCEPT !.pc = "insert", !.latest = Latest]
    <2>1. request \in [Requests -> RequestType]
      BY DEF NumberInv, TypeOK, RequestType
    <2>2. request' = [request EXCEPT ![r] = q]
      BY <1>4, <2>1 DEF ReadLatest, Replays
    <2>3. /\ q \in RequestType /\ q.pc = "insert" /\ q.latest = Latest
          /\ q.content = request[r].content /\ q.outcome = request[r].outcome
      BY <1>1 DEF RequestType, PCs
    <2>4. Sound(q, revisions)
      BY <1>1, <1>2, <1>4, <2>3 DEF Sound, IsLatest, Latest
    <2> HIDE DEF q
    <2>5. /\ request' \in [Requests -> RequestType] /\ request'[r] = q
          /\ \A s \in Requests : s # r => request'[s] = request[s]
      BY <2>1, <2>2, <2>3
    <2>6. /\ received' \subseteq (Keys \cup {NoKey}) \X Outcome
          /\ \A a \in received' : Real(a[2], revisions)
      BY <1>2 DEF NumberInv, TypeOK
    <2> QED
      BY <1>1, <1>2, <2>4, <2>5, <2>6, OneRequestMoves
  <1> QED
    BY <1>3, <1>4

LEMMA LoserNumbers ==
    ASSUME NumberInv, NEW r \in Requests, Reread(r) \/ Search(r) \/ Winner(r) PROVE NumberInv'
  <1>1. /\ request[r] \in RequestType /\ Sound(request[r], revisions)
        /\ revisions \in Seq(Contents) /\ Latest \in Nat
        /\ begun \in 0..MaxRequests /\ mishaps \in 0..MaxMishaps
    BY RequestKnows
  <1>2. /\ UNCHANGED <<live, revisions, key, stored, ran, received, begun, mishaps>>
        /\ request[r].pc \in {"reread", "search", "winner"}
    BY DEF Reread, Search, Winner, keyVars
  <1>3. Latest \in 1..Latest /\ Latest > 0 /\ request[r].content \in Contents
    BY <1>1, <1>2 DEF Sound, Routed, Latest
  <1>4. ASSUME NEW n \in 1..Latest, Returns(r, Revision(n, FALSE)) PROVE NumberInv'
    <2>1. Revision(n, FALSE) \in Outcome /\ Real(Revision(n, FALSE), revisions)
      BY <1>1, RevisionIsReal
    <2> QED
      BY <1>1, <1>2, <1>4, <2>1, OneRequestReturns
  <1>5. ASSUME NEW pc \in {"search", "winner"}, Goto(r, pc) PROVE NumberInv'
    <2>1. pc \in PCs
      BY DEF PCs
    <2>2. Sound([request[r] EXCEPT !.pc = pc], revisions)
      BY <1>1, <1>3 DEF Sound, RequestType, Latest
    <2> QED
      BY <1>1, <1>2, <1>5, <2>1, <2>2, OneRequestGoes
  <1>6. CASE Reread(r)
    BY <1>3, <1>4, <1>5, <1>6 DEF Reread
  <1>7. CASE Search(r)
    BY <1>4, <1>5, <1>7 DEF Search
  <1>8. CASE Winner(r)
    BY <1>3, <1>4, <1>8 DEF Winner
  <1> QED
    BY <1>6, <1>7, <1>8

LEMMA StoreNumbers == ASSUME NumberInv, NEW r \in Requests, Store(r) PROVE NumberInv'
  <1> DEFINE k == request[r].key
  <1>1. /\ request[r] \in RequestType /\ Sound(request[r], revisions)
        /\ request[r].outcome \in Outcome /\ k \in Keys \cup {NoKey}
        /\ begun \in 0..MaxRequests /\ mishaps \in 0..MaxMishaps
    BY RequestKnows
  <1>2. /\ Goto(r, "send") /\ "send" \in PCs
        /\ UNCHANGED <<live, revisions, ran, received, begun>>
        /\ \/ /\ k \in Keys /\ key' = [key EXCEPT ![k] = "stored"]
              /\ stored' = [stored EXCEPT ![k] = request[r].outcome]
           \/ UNCHANGED <<key, stored>>
    BY <1>1 DEF Store, PCs
  <1>3. TypeOK
    BY DEF NumberInv
  <1>4. mishaps' \in 0..MaxMishaps
    BY <1>1, <1>3, MishapCounts DEF Store
  <1>5. Real(request[r].outcome, revisions)
    BY <1>1 DEF Sound
  <1>6. key' \in [Keys -> {"free", "held", "stored"}] /\ stored' \in [Keys -> Outcome]
    BY <1>1, <1>2, <1>3 DEF TypeOK
  <1>7. \A j \in Keys : Real(stored'[j], revisions)
    <2>1. stored \in [Keys -> Outcome] /\ \A j \in Keys : Real(stored[j], revisions)
      BY DEF NumberInv, TypeOK
    <2> QED
      BY <1>2, <1>5, <2>1
  <1>8. /\ request' \in [Requests -> RequestType]
        /\ \A s \in Requests : s # r => request'[s] = request[s]
        /\ request'[r].pc = "send" /\ request'[r].outcome = request[r].outcome
    BY <1>2, <1>3, GotoStep
  <1>9. Sound(request'[r], revisions)
    BY <1>5, <1>8 DEF Sound, Routed
  <1>10. TypeOK'
    BY <1>2, <1>3, <1>4, <1>6, <1>8 DEF TypeOK, RequestType
  <1>11. NeighboursDiffer'
    BY <1>2 DEF NumberInv, NeighboursDiffer, Latest
  <1> QED
    BY <1>2, <1>7, <1>8, <1>9, <1>10, <1>11 DEF NumberInv

\* The steps that end a request, with an answer or without.
LEMMA EndNumbers ==
    ASSUME NumberInv, NEW r \in Requests, Resolve(r) \/ Send(r) \/ Die(r) \/ Throws(r)
    PROVE  NumberInv'
  <1>1. /\ request[r] \in RequestType /\ Sound(request[r], revisions)
        /\ request[r].outcome \in Outcome /\ request[r].key \in Keys \cup {NoKey}
        /\ begun \in 0..MaxRequests /\ mishaps \in 0..MaxMishaps
    BY RequestKnows
  <1>2. TypeOK
    BY DEF NumberInv
  <1>3. /\ UNCHANGED <<live, revisions, key, stored, ran>>
        /\ begun' \in 0..MaxRequests /\ mishaps' \in 0..MaxMishaps
    BY <1>1, <1>2, MishapCounts DEF Resolve, Send, Die, Throws, keyVars
  <1>4. /\ received \subseteq (Keys \cup {NoKey}) \X Outcome
        /\ \A a \in received : Real(a[2], revisions)
    BY DEF NumberInv, TypeOK
  <1>5. CASE Resolve(r)
    <2>1. request' = [request EXCEPT ![r] = Idle]
      BY <1>5 DEF Resolve
    <2>2. CASE received' = received
      BY <1>3, <1>4, <2>1, <2>2, OneRequestEnds
    <2>3. CASE received' # received
      <3> DEFINE k == request[r].key
      <3>1. key[k] = "stored" /\ received' = received \cup {<<k, stored[k]>>}
        BY <1>5, <2>3 DEF Resolve
      <3>2. k \in Keys
        BY <1>1, <1>5 DEF Resolve, Sound
      <3>3. stored[k] \in Outcome /\ Real(stored[k], revisions)
        BY <3>2 DEF NumberInv, TypeOK
      <3>4. /\ received' \subseteq (Keys \cup {NoKey}) \X Outcome
            /\ \A a \in received' : Real(a[2], revisions)
        BY <1>4, <3>1, <3>2, <3>3
      <3> QED
        BY <1>3, <2>1, <3>4, OneRequestEnds
    <2> QED
      BY <2>2, <2>3
  <1>6. CASE Send(r)
    <2>1. Real(request[r].outcome, revisions)
      BY <1>1 DEF Sound
    <2>2. request' = [request EXCEPT ![r] = Idle]
      BY <1>6 DEF Send
    <2>3. /\ received' \subseteq (Keys \cup {NoKey}) \X Outcome
          /\ \A a \in received' : Real(a[2], revisions)
      BY <1>1, <1>4, <1>6, <2>1 DEF Send
    <2> QED
      BY <1>3, <2>2, <2>3, OneRequestEnds
  <1>7. ASSUME request' = [request EXCEPT ![r] = Idle], received' = received PROVE NumberInv'
    BY <1>3, <1>4, <1>7, OneRequestEnds
  <1>8. CASE Die(r)
    BY <1>7, <1>8 DEF Die
  <1>9. CASE Throws(r)
    <2>1. Error \in Outcome /\ Real(Error, revisions)
      BY ErrorIsReal
    <2>2. received' = received
      BY <1>9 DEF Throws
    <2>3. CASE Returns(r, Error)
      BY <1>1, <1>3, <2>1, <2>2, <2>3, OneRequestReturns
    <2>4. CASE request' = [request EXCEPT ![r] = Idle]
      BY <1>7, <2>2, <2>4
    <2> QED
      BY <1>9, <2>3, <2>4 DEF Throws
  <1> QED
    BY <1>5, <1>6, <1>8, <1>9

LEMMA NumbersHold == NumberInv /\ [Next]_vars => NumberInv'
  <1> SUFFICES ASSUME NumberInv, [Next]_vars PROVE NumberInv'
    OBVIOUS
  <1>1. CASE Change
    <2>1. /\ live' \in Contents
          /\ UNCHANGED <<revisions, key, stored, ran, request, received, begun, mishaps>>
      BY <1>1 DEF Change, keyVars
    <2> QED
      BY <2>1 DEF NumberInv, TypeOK, NeighboursDiffer, Latest
  <1>2. CASE UNCHANGED vars
    BY <1>2 DEF vars, keyVars, NumberInv, TypeOK, NeighboursDiffer, Latest
  <1>3. ASSUME NEW r \in Requests, Handle(r) \/ Throws(r) \/ Die(r) PROVE NumberInv'
    <2>1. CASE Begin(r)
      BY <2>1, BeginNumbers
    <2>2. CASE Resolve(r) \/ Send(r) \/ Throws(r) \/ Die(r)
      BY <2>2, EndNumbers
    <2>3. CASE Build(r)
      BY <2>3, BuildNumbers
    <2>4. CASE ReadLatest(r)
      BY <2>4, ReadLatestNumbers
    <2>5. CASE Insert(r)
      BY <2>5, InsertNumbers
    <2>6. CASE Reread(r) \/ Search(r) \/ Winner(r)
      BY <2>6, LoserNumbers
    <2>7. CASE Store(r)
      BY <2>7, StoreNumbers
    <2> QED
      BY <1>3, <2>1, <2>2, <2>3, <2>4, <2>5, <2>6, <2>7 DEF Handle
  <1> QED
    BY <1>1, <1>2, <1>3 DEF Next

LEMMA NumbersBegin == Init => NumberInv
  <1> SUFFICES ASSUME Init PROVE NumberInv
    OBVIOUS
  <1>1. /\ Error \in Outcome /\ Real(Error, revisions)
        /\ Idle \in RequestType /\ Sound(Idle, revisions)
    BY ErrorIsReal, IdleIsSound
  <1>2. TypeOK
    BY <1>1, RevisionAssumption DEF Init, TypeOK, RequestType
  <1>3. \A r \in Requests : Sound(request[r], revisions)
    BY <1>1 DEF Init
  <1>4. /\ \A k \in Keys : Real(stored[k], revisions)
        /\ \A a \in received : Real(a[2], revisions)
    BY <1>1 DEF Init
  <1>5. NeighboursDiffer
    BY DEF Init, NeighboursDiffer, Latest
  <1> QED
    BY <1>2, <1>3, <1>4, <1>5 DEF NumberInv

LEMMA NumberInvariant == Spec => []NumberInv
  BY NumbersBegin, NumbersHold, PTL DEF Spec

\* Every variable keeps its type (TypeOK), for any number of requests, keys and mishaps.
THEOREM RequestsTypeCorrect == Spec => []TypeOK
  <1>1. NumberInv => TypeOK
    BY DEF NumberInv
  <1> QED
    BY <1>1, NumberInvariant, PTL

\* Requests that race to record the same content make one revision of it.
THEOREM NoRevisionTwice == Spec => []NeighboursDiffer
  <1>1. NumberInv => NeighboursDiffer
    BY DEF NumberInv
  <1> QED
    BY <1>1, NumberInvariant, PTL

\* Whatever a client is told of a revision is in the table under that number.
THEOREM AnswersAreReal == Spec => []AnswersAreRevisions
  <1>1. NumberInv => AnswersAreRevisions
    BY DEF NumberInv, Real, AnswersAreRevisions, Latest
  <1> QED
    BY <1>1, NumberInvariant, PTL

-----------------------------------------------------------------------------
(* The second part: keys *)

Building == Routed \cup {"build", "store"}
Owns(q, k) == q.key = k /\ q.pc \in Building \cup {"send"}

KeyInv ==
    /\ \A k \in Keys : ran[k] <= 1 /\ (key[k] = "free" => ran[k] = 0)
    /\ \A k \in Keys, r \in Requests : Owns(request[r], k) =>
          /\ key[k] # "free"
          /\ request[r].pc # "send" => key[k] = "held"
          /\ key[k] = "stored" => request[r].outcome = stored[k]
    /\ \A k \in Keys, r, s \in Requests :
          Owns(request[r], k) /\ Owns(request[s], k) => r = s
    /\ \A a \in received, k \in Keys : a[1] = k =>
          /\ key[k] # "free"
          /\ key[k] = "stored" => a[2] = stored[k]
          /\ key[k] = "held" => \A r \in Requests : ~Owns(request[r], k)
    /\ OneOutcomePerKey

\* The keys whose outcome nobody will keep any more.
Lost == {k \in Keys : key[k] = "held" /\
                      \A r \in Requests : Owns(request[r], k) => request[r].pc = "send"}

LostInv == IsFiniteSet(Lost) /\ Cardinality(Lost) <= mishaps

\* The steps of the route between the reservation and the outcome.
Routing(r) ==
    /\ request[r].pc \in Building \ {"store"} /\ request'[r].pc \in Building
    /\ request'[r].key = request[r].key
    /\ \A s \in Requests : s # r => request'[s] = request[s]
    /\ UNCHANGED <<key, stored, ran, received>>
    /\ mishaps' = mishaps \/ mishaps' = mishaps + 1

LEMMA RoutedSteps ==
    ASSUME NumberInv, NEW r \in Requests,
           \/ Build(r) \/ ReadLatest(r) \/ Insert(r) \/ Reread(r) \/ Search(r) \/ Winner(r)
           \/ Throws(r) /\ request[r].pc # "resolve"
    PROVE  Routing(r)
  <1>1. /\ request[r].pc \in Building \ {"store"}
        /\ UNCHANGED <<key, stored, ran, received>>
        /\ mishaps' = mishaps \/ mishaps' = mishaps + 1
    BY DEF Build, ReadLatest, Insert, Reread, Search, Winner, Throws, Mishap, keyVars,
           Building, Routed
  <1>2. request \in [Requests -> RequestType] /\ request[r] \in RequestType
    BY DEF NumberInv, TypeOK, RequestType
  <1>3. ASSUME NEW o, Returns(r, o) PROVE Routing(r)
    <2>1. request'[r] = [request[r] EXCEPT !.pc = "store", !.outcome = o]
      BY <1>2, <1>3 DEF Returns
    <2>2. request'[r].pc = "store" /\ request'[r].key = request[r].key
      BY <1>2, <2>1 DEF RequestType
    <2>3. \A s \in Requests : s # r => request'[s] = request[s]
      BY <1>2, <1>3 DEF Returns
    <2> QED
      BY <1>1, <2>2, <2>3 DEF Routing, Building
  <1>4. ASSUME NEW pc \in {"reread", "search", "winner"}, Goto(r, pc) PROVE Routing(r)
    <2>1. TypeOK /\ pc \in PCs
      BY DEF NumberInv, PCs
    <2>2. /\ request'[r].pc = pc /\ request'[r].key = request[r].key
          /\ \A s \in Requests : s # r => request'[s] = request[s]
      BY <1>4, <2>1, GotoStep
    <2> QED
      BY <1>1, <2>2 DEF Routing, Building, Routed
  <1>5. CASE Build(r)
    <2>1. CASE request' = [request EXCEPT ![r].pc = "latest", ![r].content = live]
      <3>1. /\ request'[r].pc = "latest" /\ request'[r].key = request[r].key
            /\ \A s \in Requests : s # r => request'[s] = request[s]
        BY <1>2, <2>1 DEF RequestType
      <3> QED
        BY <1>1, <3>1 DEF Routing, Building, Routed
    <2> QED
      BY <1>3, <1>5, <2>1 DEF Build
  <1>6. CASE ReadLatest(r)
    <2>1. CASE request' = [request EXCEPT ![r].pc = "insert", ![r].latest = Latest]
      <3>1. /\ request'[r].pc = "insert" /\ request'[r].key = request[r].key
            /\ \A s \in Requests : s # r => request'[s] = request[s]
        BY <1>2, <2>1 DEF RequestType
      <3> QED
        BY <1>1, <3>1 DEF Routing, Building, Routed
    <2>2. \/ Returns(r, Revision(Latest, FALSE))
          \/ request' = [request EXCEPT ![r].pc = "insert", ![r].latest = Latest]
      BY <1>6 DEF ReadLatest
    <2> QED
      BY <1>3, <2>1, <2>2
  <1>7. CASE Insert(r)
    BY <1>3, <1>4, <1>7 DEF Insert
  <1>8. CASE Reread(r)
    BY <1>3, <1>4, <1>8 DEF Reread
  <1>9. CASE Search(r)
    BY <1>3, <1>4, <1>9 DEF Search
  <1>10. CASE Winner(r)
    BY <1>3, <1>10 DEF Winner
  <1>11. CASE Throws(r) /\ request[r].pc # "resolve"
    BY <1>3, <1>11 DEF Throws
  <1> QED
    BY <1>5, <1>6, <1>7, <1>8, <1>9, <1>10, <1>11

\* A request on its way keeps what it owns; nothing else happens to the keys.
LEMMA RoutingKeys ==
    ASSUME NumberInv, KeyInv, LostInv, NEW r \in Requests, Routing(r) PROVE KeyInv' /\ LostInv'
  <1>1. \A s \in Requests, k \in Keys :
           /\ Owns(request'[s], k) <=> Owns(request[s], k)
           /\ request'[s].pc = "send" <=> request[s].pc = "send"
           /\ Owns(request'[s], k) /\ request'[s].pc = "send" => request'[s] = request[s]
    BY DEF Routing, Owns, Building, Routed
  <1>2. \A k \in Keys : Owns(request[r], k) => key[k] = "held"
    BY DEF KeyInv, Routing, Building, Routed
  <1>3. UNCHANGED <<key, stored, ran, received>>
    BY DEF Routing
  <1>4. \A k \in Keys, s \in Requests : Owns(request'[s], k) =>
          /\ key'[k] # "free"
          /\ request'[s].pc # "send" => key'[k] = "held"
          /\ key'[k] = "stored" => request'[s].outcome = stored'[k]
    <2>1. SUFFICES ASSUME NEW k \in Keys, NEW s \in Requests, Owns(request'[s], k)
                   PROVE  /\ key[k] # "free"
                          /\ request'[s].pc # "send" => key[k] = "held"
                          /\ key[k] = "stored" => request'[s].outcome = stored[k]
      BY <1>3
    <2>2. CASE s = r
      BY <1>1, <1>2, <2>1, <2>2
    <2>3. CASE s # r
      BY <1>1, <2>1, <2>3 DEF Routing, KeyInv
    <2> QED
      BY <2>2, <2>3
  <1>5. KeyInv'
    BY <1>1, <1>3, <1>4 DEF KeyInv, OneOutcomePerKey
  <1>6. Lost' = Lost
    BY <1>1, <1>3 DEF Lost
  <1>7. mishaps \in Nat /\ mishaps <= mishaps'
    BY DEF Routing, NumberInv, TypeOK
  <1>8. LostInv'
    <2>1. IsFiniteSet(Lost) /\ Cardinality(Lost) <= mishaps /\ Cardinality(Lost) \in Nat
      BY FS_CardinalityType DEF LostInv
    <2>2. Cardinality(Lost) <= mishaps'
      BY <1>7, <2>1 DEF Routing
    <2> QED
      BY <1>6, <2>1, <2>2 DEF LostInv
  <1> QED
    BY <1>5, <1>8

\* A key is lost in a mishap only, and one at a time.
LEMMA LosesOne ==
    ASSUME TypeOK, LostInv, NEW k, Lost' \subseteq Lost \cup {k}, mishaps' = mishaps + 1
    PROVE  LostInv'
  <1>1. /\ IsFiniteSet(Lost \cup {k}) /\ Cardinality(Lost) \in Nat
        /\ Cardinality(Lost \cup {k}) <= Cardinality(Lost) + 1
    <2>1. IsFiniteSet(Lost)
      BY DEF LostInv
    <2>2. Cardinality(Lost) \in Nat
      BY <2>1, FS_CardinalityType
    <2>3. /\ IsFiniteSet(Lost \cup {k})
          /\ Cardinality(Lost \cup {k}) =
               IF k \in Lost THEN Cardinality(Lost) ELSE Cardinality(Lost) + 1
      BY <2>1, FS_AddElement
    <2> QED
      BY <2>2, <2>3
  <1>2. /\ IsFiniteSet(Lost') /\ Cardinality(Lost') <= Cardinality(Lost \cup {k})
        /\ Cardinality(Lost') \in Nat /\ Cardinality(Lost \cup {k}) \in Nat
    BY <1>1, FS_Subset, FS_CardinalityType
  <1>3. mishaps \in Nat /\ Cardinality(Lost) <= mishaps
    BY DEF TypeOK, LostInv
  <1>4. Cardinality(Lost') <= mishaps'
    BY <1>1, <1>2, <1>3
  <1> QED
    BY <1>2, <1>4 DEF LostInv

LEMMA LosesNone ==
    ASSUME TypeOK, LostInv, Lost' \subseteq Lost,
           mishaps' = mishaps \/ mishaps' = mishaps + 1
    PROVE  LostInv'
  <1>1. /\ IsFiniteSet(Lost') /\ Cardinality(Lost') <= Cardinality(Lost)
        /\ Cardinality(Lost') \in Nat /\ Cardinality(Lost) \in Nat
    BY FS_Subset, FS_CardinalityType DEF LostInv
  <1>2. mishaps \in Nat /\ Cardinality(Lost) <= mishaps
    BY DEF TypeOK, LostInv
  <1>3. Cardinality(Lost') <= mishaps'
    BY <1>1, <1>2
  <1> QED
    BY <1>1, <1>3 DEF LostInv

LEMMA BeginKeys ==
    ASSUME NumberInv, KeyInv, LostInv, NEW r \in Requests, Begin(r) PROVE KeyInv' /\ LostInv'
  <1>1. request[r].pc = "idle" /\ UNCHANGED <<stored, received, mishaps>>
    BY DEF Begin
  <1>2. PICK k \in Keys \cup {NoKey} :
          LET free == k = NoKey \/ key[k] = "free" IN
          /\ request' = [request EXCEPT ![r] =
                [Idle EXCEPT !.key = k, !.pc = IF free THEN "build" ELSE "resolve"]]
          /\ IF k # NoKey /\ free
             THEN /\ key' = [key EXCEPT ![k] = "held"]
                  /\ ran' = [ran EXCEPT ![k] = @ + 1]
             ELSE UNCHANGED <<key, ran>>
    BY DEF Begin
  <1>3. /\ \A s \in Requests : s # r => request'[s] = request[s]
        /\ request'[r].key = k
        /\ request'[r].pc = IF k = NoKey \/ key[k] = "free" THEN "build" ELSE "resolve"
    <2>1. request \in [Requests -> RequestType]
      BY DEF NumberInv, TypeOK, RequestType
    <2> QED
      BY <1>2, <2>1 DEF Idle
  <1>4. \A j \in Keys : ~Owns(request[r], j)
    BY <1>1 DEF Owns, Building, Routed
  <1>5. CASE k \in Keys /\ key[k] = "free"
    <2>1. /\ key' = [key EXCEPT ![k] = "held"] /\ ran' = [ran EXCEPT ![k] = @ + 1]
          /\ request'[r].pc = "build"
      BY <1>2, <1>3, <1>5, RevisionAssumption
    <2>2. /\ key'[k] = "held" /\ ran[k] = 0 /\ ran'[k] = 1
          /\ \A j \in Keys : j # k => key'[j] = key[j] /\ ran'[j] = ran[j]
      BY <1>5, <2>1 DEF NumberInv, TypeOK, KeyInv
    <2>3. /\ \A j \in Keys : Owns(request'[r], j) <=> j = k
          /\ \A s \in Requests : ~Owns(request[s], k)
      BY <1>3, <1>5, <2>1 DEF Owns, Building, KeyInv
    <2>4. \A a \in received : a[1] # k
      BY <1>5 DEF KeyInv
    <2>5. \A j \in Keys : ran'[j] <= 1 /\ (key'[j] = "free" => ran'[j] = 0)
      BY <2>2 DEF KeyInv
    <2>6. \A j \in Keys, s \in Requests : Owns(request'[s], j) =>
            /\ key'[j] # "free"
            /\ request'[s].pc # "send" => key'[j] = "held"
            /\ key'[j] = "stored" => request'[s].outcome = stored'[j]
      <3>1. SUFFICES ASSUME NEW j \in Keys, NEW s \in Requests, Owns(request'[s], j)
                     PROVE  /\ key'[j] # "free"
                            /\ request'[s].pc # "send" => key'[j] = "held"
                            /\ key'[j] = "stored" => request'[s].outcome = stored[j]
        BY <1>1
      <3>2. CASE j = k
        BY <1>3, <2>2, <3>2
      <3>3. CASE j # k
        <4>1. s # r /\ Owns(request[s], j)
          BY <1>3, <2>3, <3>1, <3>3
        <4> QED
          BY <1>3, <2>2, <3>3, <4>1 DEF KeyInv
      <3> QED
        BY <3>2, <3>3
    <2>7. \A j \in Keys, s, u \in Requests :
            Owns(request'[s], j) /\ Owns(request'[u], j) => s = u
      BY <1>3, <2>3 DEF KeyInv
    <2>8. \A a \in received', j \in Keys : a[1] = j =>
            /\ key'[j] # "free"
            /\ key'[j] = "stored" => a[2] = stored'[j]
            /\ key'[j] = "held" => \A s \in Requests : ~Owns(request'[s], j)
      BY <1>1, <1>3, <2>2, <2>3, <2>4 DEF KeyInv
    <2>9. KeyInv'
      BY <1>1, <2>5, <2>6, <2>7, <2>8 DEF KeyInv, OneOutcomePerKey
    <2>10. Lost' \subseteq Lost
      BY <1>3, <1>4, <2>1, <2>2, <2>3 DEF Lost
    <2> QED
      BY <1>1, <2>9, <2>10, LosesNone DEF NumberInv
  <1>6. CASE ~(k \in Keys /\ key[k] = "free")
    <2>1. UNCHANGED <<key, ran>>
      BY <1>2, <1>6
    <2>2. \A j \in Keys : ~Owns(request'[r], j)
      BY <1>3, <1>6, RevisionAssumption DEF Owns, Building, Routed
    <2>3. KeyInv'
      BY <1>1, <1>3, <1>4, <2>1, <2>2 DEF KeyInv, OneOutcomePerKey
    <2>4. Lost' \subseteq Lost
      BY <1>3, <1>4, <2>1, <2>2 DEF Lost
    <2> QED
      BY <1>1, <2>3, <2>4, LosesNone DEF NumberInv
  <1> QED
    BY <1>5, <1>6

LEMMA StoreKeys ==
    ASSUME NumberInv, KeyInv, LostInv, NEW r \in Requests, Store(r) PROVE KeyInv' /\ LostInv'
  <1> DEFINE k == request[r].key
             o == request[r].outcome
  <1>1. request[r].pc = "store" /\ UNCHANGED <<ran, received>>
    BY DEF Store
  <1>2. TypeOK /\ "send" \in PCs
    BY DEF NumberInv, PCs
  <1>3. /\ \A s \in Requests : s # r => request'[s] = request[s]
        /\ request'[r].pc = "send" /\ request'[r].key = k /\ request'[r].outcome = o
    BY <1>2, GotoStep DEF Store
  <1>4. \A s \in Requests, j \in Keys : Owns(request'[s], j) <=> Owns(request[s], j)
    BY <1>1, <1>3 DEF Owns, Building
  <1>5. k \in Keys \cup {NoKey}
    BY RequestKnows
  <1>6. CASE k \in Keys
    <2>1. Owns(request[r], k) /\ key[k] = "held"
      BY <1>1, <1>6 DEF Owns, Building, KeyInv
    <2>2. \A a \in received : a[1] # k
      BY <1>6, <2>1 DEF KeyInv
    <2>3. \A j \in Keys : j # k => ~Owns(request[r], j)
      BY DEF Owns
    <2>4. \A s \in Requests : s # r => ~Owns(request[s], k)
      BY <1>6, <2>1 DEF KeyInv
    <2>5. CASE key' = [key EXCEPT ![k] = "stored"] /\ stored' = [stored EXCEPT ![k] = o]
               /\ mishaps' = mishaps
      <3>1. /\ key'[k] = "stored" /\ stored'[k] = o
            /\ \A j \in Keys : j # k => key'[j] = key[j] /\ stored'[j] = stored[j]
        BY <1>2, <1>6, <2>5 DEF TypeOK
      <3>2. \A j \in Keys : ran'[j] <= 1 /\ (key'[j] = "free" => ran'[j] = 0)
        BY <1>1, <3>1 DEF KeyInv
      <3>3. \A j \in Keys, s \in Requests : Owns(request'[s], j) =>
              /\ key'[j] # "free"
              /\ request'[s].pc # "send" => key'[j] = "held"
              /\ key'[j] = "stored" => request'[s].outcome = stored'[j]
        <4>1. SUFFICES ASSUME NEW j \in Keys, NEW s \in Requests, Owns(request'[s], j)
                       PROVE  /\ key'[j] # "free"
                              /\ request'[s].pc # "send" => key'[j] = "held"
                              /\ key'[j] = "stored" => request'[s].outcome = stored'[j]
          OBVIOUS
        <4>2. Owns(request[s], j)
          BY <1>4, <4>1
        <4>3. CASE j = k
          BY <1>3, <2>4, <3>1, <4>2, <4>3
        <4>4. CASE j # k
          <5>1. s # r
            BY <2>3, <4>2, <4>4
          <5> QED
            BY <1>3, <3>1, <4>2, <4>4, <5>1 DEF KeyInv
        <4> QED
          BY <4>3, <4>4
      <3>4. \A a \in received', j \in Keys : a[1] = j =>
              /\ key'[j] # "free"
              /\ key'[j] = "stored" => a[2] = stored'[j]
              /\ key'[j] = "held" => \A s \in Requests : ~Owns(request'[s], j)
        BY <1>1, <1>4, <2>2, <3>1 DEF KeyInv
      <3>5. KeyInv'
        BY <1>1, <1>4, <3>2, <3>3, <3>4 DEF KeyInv, OneOutcomePerKey
      <3>6. Lost' \subseteq Lost
        <4>1. SUFFICES ASSUME NEW j \in Lost' PROVE j \in Lost
          OBVIOUS
        <4>2. j \in Keys /\ j # k /\ key[j] = "held"
          BY <3>1, <4>1 DEF Lost
        <4>3. ASSUME NEW s \in Requests, Owns(request[s], j) PROVE request[s].pc = "send"
          <5>1. s # r /\ Owns(request'[s], j)
            BY <1>4, <2>3, <4>2, <4>3
          <5> QED
            BY <1>3, <4>1, <5>1 DEF Lost
        <4> QED
          BY <4>2, <4>3 DEF Lost
      <3> QED
        BY <1>2, <2>5, <3>5, <3>6, LosesNone
    <2>6. CASE UNCHANGED <<key, stored>> /\ mishaps' = mishaps + 1
      <3>1. \A j \in Keys, s \in Requests : Owns(request'[s], j) =>
              /\ key'[j] # "free"
              /\ request'[s].pc # "send" => key'[j] = "held"
              /\ key'[j] = "stored" => request'[s].outcome = stored'[j]
        BY <1>3, <1>4, <2>6 DEF KeyInv
      <3>2. KeyInv'
        BY <1>1, <1>4, <2>6, <3>1 DEF KeyInv, OneOutcomePerKey
      <3>3. Lost' \subseteq Lost \cup {k}
        <4>1. SUFFICES ASSUME NEW j \in Lost', j # k PROVE j \in Lost
          OBVIOUS
        <4>2. j \in Keys /\ key[j] = "held"
          BY <2>6, <4>1 DEF Lost
        <4>3. ASSUME NEW s \in Requests, Owns(request[s], j) PROVE request[s].pc = "send"
          <5>1. s # r /\ Owns(request'[s], j)
            BY <1>4, <2>3, <4>1, <4>2, <4>3
          <5> QED
            BY <1>3, <4>1, <5>1 DEF Lost
        <4> QED
          BY <4>2, <4>3 DEF Lost
      <3> QED
        BY <1>2, <2>6, <3>2, <3>3, LosesOne
    <2> QED
      BY <1>6, <2>5, <2>6, RevisionAssumption DEF Store, Keeps, Mishap
  <1>7. CASE k \notin Keys
    <2>1. UNCHANGED <<key, stored, mishaps>>
      BY <1>5, <1>7 DEF Store
    <2>2. \A j \in Keys : ~Owns(request[r], j)
      BY <1>7 DEF Owns
    <2>3. \A j \in Keys, s \in Requests : Owns(request'[s], j) =>
            /\ key'[j] # "free"
            /\ request'[s].pc # "send" => key'[j] = "held"
            /\ key'[j] = "stored" => request'[s].outcome = stored'[j]
      BY <1>3, <1>4, <2>1, <2>2 DEF KeyInv
    <2>4. KeyInv'
      BY <1>1, <1>4, <2>1, <2>3 DEF KeyInv, OneOutcomePerKey
    <2>5. Lost' \subseteq Lost
      BY <1>3, <1>4, <2>1, <2>2 DEF Lost
    <2> QED
      BY <1>2, <2>1, <2>4, <2>5, LosesNone
  <1> QED
    BY <1>6, <1>7

\* A request ends: the key it owned, if it did, is nobody's.
LEMMA EndKeys ==
    ASSUME NumberInv, KeyInv, LostInv, NEW r \in Requests,
           Resolve(r) \/ Send(r) \/ Die(r) \/ (Throws(r) /\ request[r].pc = "resolve")
    PROVE  KeyInv' /\ LostInv'
  <1> DEFINE k == request[r].key
  <1>1. /\ request' = [request EXCEPT ![r] = Idle]
        /\ UNCHANGED <<key, stored, ran>>
    <2>1. ASSUME NEW o, Returns(r, o), request[r].pc \in Routed \cup {"build"} PROVE request[r].pc # "resolve"
      BY <2>1 DEF Routed
    <2> QED
      BY <2>1 DEF Resolve, Send, Die, Throws, keyVars
  <1>2. /\ \A s \in Requests : s # r => request'[s] = request[s]
        /\ \A j \in Keys : ~Owns(request'[r], j)
    <2>1. request \in [Requests -> RequestType]
      BY DEF NumberInv, TypeOK, RequestType
    <2> QED
      BY <1>1, <2>1 DEF Idle, Owns, Building, Routed
  <1>3. \A j \in Keys, s \in Requests : Owns(request'[s], j) =>
          Owns(request[s], j) /\ request'[s] = request[s]
    BY <1>2
  <1>4. k \in Keys \cup {NoKey} /\ TypeOK
    BY RequestKnows DEF NumberInv
  <1>5. CASE received' = received
    <2>1. KeyInv'
      BY <1>1, <1>3, <1>5 DEF KeyInv, OneOutcomePerKey
    <2>2. Lost' \subseteq Lost \cup {k}
      BY <1>1, <1>2 DEF Lost, Owns
    <2>3. CASE mishaps' = mishaps + 1
      BY <1>4, <2>1, <2>2, <2>3, LosesOne
    <2>4. CASE mishaps' # mishaps + 1
      <3>1. mishaps' = mishaps /\ (Resolve(r) \/ Send(r))
        <4>1. CASE Resolve(r)
          BY <4>1 DEF Resolve
        <4>2. CASE Send(r)
          BY <2>4, <4>2 DEF Send, Mishap
        <4>3. ~Mishap
          BY <2>4 DEF Mishap
        <4> QED
          BY <4>1, <4>2, <4>3 DEF Die, Throws
      <3>2. \A j \in Keys : Owns(request[r], j) => request[r].pc = "send"
        BY <3>1 DEF Resolve, Send, Owns, Building, Routed
      <3>3. Lost' \subseteq Lost
        BY <1>1, <1>2, <3>2 DEF Lost
      <3> QED
        BY <1>4, <2>1, <3>1, <3>3, LosesNone
    <2> QED
      BY <2>3, <2>4
  <1>6. ASSUME NEW o, received' = received \cup {<<k, o>>}, mishaps' = mishaps,
               \/ Send(r) /\ o = request[r].outcome
               \/ Resolve(r) /\ k \in Keys /\ key[k] = "stored" /\ o = stored[k]
        PROVE  KeyInv' /\ LostInv'
    <2>1. \A j \in Keys : Owns(request[r], j) => request[r].pc = "send"
      BY <1>6 DEF Resolve, Send, Owns, Building, Routed
    <2>2. LostInv'
      <3>1. Lost' \subseteq Lost
        BY <1>1, <1>2, <2>1 DEF Lost
      <3> QED
        BY <1>4, <1>6, <3>1, LosesNone
    <2>3. ASSUME k \in Keys
          PROVE  /\ key[k] # "free"
                 /\ key[k] = "stored" => o = stored[k]
                 /\ key[k] = "held" => /\ \A s \in Requests : Owns(request[s], k) => s = r
                                       /\ \A a \in received : a[1] # k
      <3>1. CASE Send(r) /\ o = request[r].outcome
        <4>1. Owns(request[r], k)
          BY <3>1 DEF Send, Owns
        <4> QED
          BY <2>3, <3>1, <4>1 DEF KeyInv
      <3>2. CASE Resolve(r) /\ key[k] = "stored" /\ o = stored[k]
        BY <3>2
      <3> QED
        BY <1>6, <3>1, <3>2
    <2>4. \A a \in received', j \in Keys : a[1] = j =>
            /\ key'[j] # "free"
            /\ key'[j] = "stored" => a[2] = stored'[j]
            /\ key'[j] = "held" => \A s \in Requests : ~Owns(request'[s], j)
      <3>1. SUFFICES ASSUME NEW a \in received', a[1] \in Keys
                     PROVE  /\ key[a[1]] # "free"
                            /\ key[a[1]] = "stored" => a[2] = stored[a[1]]
                            /\ key[a[1]] = "held" =>
                                  \A s \in Requests : ~Owns(request'[s], a[1])
        BY <1>1
      <3>2. CASE a \in received
        BY <1>3, <3>1, <3>2 DEF KeyInv
      <3>3. CASE a = <<k, o>>
        BY <1>2, <1>3, <2>3, <3>1, <3>3
      <3> QED
        BY <1>6, <3>2, <3>3
    <2>5. OneOutcomePerKey'
      <3>1. SUFFICES ASSUME NEW a \in received', NEW b \in received', a[1] = b[1], a[1] # NoKey
                     PROVE  a[2] = b[2]
        BY DEF OneOutcomePerKey
      <3>2. /\ received \subseteq (Keys \cup {NoKey}) \X Outcome
            /\ a[1] \in Keys
        BY <1>4, <1>6, <3>1 DEF TypeOK
      <3>3. CASE key[a[1]] = "stored"
        BY <1>1, <2>4, <3>1, <3>2, <3>3
      <3>4. CASE key[a[1]] # "stored"
        <4>1. key[a[1]] = "held"
          BY <1>1, <1>4, <2>4, <3>2, <3>4 DEF TypeOK
        <4>2. CASE a[1] = k
          BY <1>6, <2>3, <3>1, <3>2, <4>1, <4>2
        <4>3. CASE a[1] # k
          BY <1>6, <3>1, <4>3 DEF KeyInv, OneOutcomePerKey
        <4> QED
          BY <4>2, <4>3
      <3> QED
        BY <3>3, <3>4
    <2>6. KeyInv'
      BY <1>1, <1>3, <2>4, <2>5 DEF KeyInv
    <2> QED
      BY <2>2, <2>6
  <1>7. CASE received' # received
    <2>1. CASE Send(r)
      BY <1>6, <1>7, <2>1 DEF Send
    <2>2. CASE Resolve(r)
      <3>1. k \in Keys
        BY <2>2, RequestKnows DEF Resolve, Sound
      <3>2. key[k] = "stored" /\ received' = received \cup {<<k, stored[k]>>} /\ mishaps' = mishaps
        BY <1>7, <2>2 DEF Resolve
      <3> QED
        BY <1>6, <2>2, <3>1, <3>2
    <2> QED
      BY <1>7, <2>1, <2>2 DEF Die, Throws
  <1> QED
    BY <1>5, <1>7

LEMMA KeysHold == NumberInv /\ KeyInv /\ LostInv /\ [Next]_vars => KeyInv' /\ LostInv'
  <1> SUFFICES ASSUME NumberInv, KeyInv, LostInv, [Next]_vars PROVE KeyInv' /\ LostInv'
    OBVIOUS
  <1>1. CASE Change \/ UNCHANGED vars
    <2>1. UNCHANGED <<key, stored, ran, request, received, mishaps>>
      BY <1>1 DEF Change, vars, keyVars
    <2>2. KeyInv'
      BY <2>1 DEF KeyInv, OneOutcomePerKey
    <2>3. Lost' = Lost
      BY <2>1 DEF Lost
    <2> QED
      BY <2>1, <2>2, <2>3 DEF LostInv
  <1>2. ASSUME NEW r \in Requests, Handle(r) \/ Throws(r) \/ Die(r) PROVE KeyInv' /\ LostInv'
    <2>1. CASE Begin(r)
      BY <2>1, BeginKeys
    <2>2. CASE Resolve(r) \/ Send(r) \/ Die(r) \/ (Throws(r) /\ request[r].pc = "resolve")
      BY <2>2, EndKeys
    <2>3. CASE \/ Build(r) \/ ReadLatest(r) \/ Insert(r) \/ Reread(r) \/ Search(r) \/ Winner(r)
               \/ Throws(r) /\ request[r].pc # "resolve"
      BY <2>3, RoutedSteps, RoutingKeys
    <2>4. CASE Store(r)
      BY <2>4, StoreKeys
    <2> QED
      BY <1>2, <2>1, <2>2, <2>3, <2>4 DEF Handle
  <1> QED
    BY <1>1, <1>2 DEF Next

LEMMA KeysBegin == Init => KeyInv /\ LostInv
  <1> SUFFICES ASSUME Init PROVE KeyInv /\ LostInv
    OBVIOUS
  <1>1. KeyInv
    BY DEF Init, KeyInv, OneOutcomePerKey, Owns, Building, Routed, Idle
  <1>2. Lost = {}
    BY DEF Init, Lost
  <1>3. mishaps = 0
    BY DEF Init
  <1> QED
    BY <1>1, <1>2, <1>3, FS_EmptySet DEF LostInv

LEMMA KeyInvariant == Spec => [](KeyInv /\ LostInv)
  <1>1. Init => NumberInv /\ KeyInv /\ LostInv
    BY NumbersBegin, KeysBegin
  <1>2. NumberInv /\ KeyInv /\ LostInv /\ [Next]_vars => (NumberInv /\ KeyInv /\ LostInv)'
    BY NumbersHold, KeysHold
  <1> QED
    BY <1>1, <1>2, PTL DEF Spec

\* The route runs at most once for a key, whatever overlaps, fails or dies.
THEOREM RouteRunsOnce == Spec => []KeyRunsOnce
  <1>1. KeyInv => KeyRunsOnce
    BY DEF KeyInv, KeyRunsOnce
  <1> QED
    BY <1>1, KeyInvariant, PTL

\* Whoever is answered for a key, once or again, is answered the same.
THEOREM OneOutcome == Spec => []OneOutcomePerKey
  <1>1. KeyInv => OneOutcomePerKey
    BY DEF KeyInv
  <1> QED
    BY <1>1, KeyInvariant, PTL

\* Every key without an outcome that nobody is at has its mishap.
THEOREM HeldKeysHaveReasons == Spec => []HeldKeysAccounted
  <1>1. TypeOK /\ LostInv => HeldKeysAccounted
    <2> SUFFICES ASSUME TypeOK, LostInv PROVE HeldKeysAccounted
      OBVIOUS
    <2> DEFINE S == {k \in Keys : key[k] = "held" /\ ~Holder(k)}
    <2>1. S \subseteq Lost
      BY DEF Lost, Holder, Owns, Building, Routed
    <2>2. /\ Cardinality(S) <= Cardinality(Lost) /\ IsFiniteSet(S)
      BY <2>1, FS_Subset DEF LostInv
    <2>3. Cardinality(S) \in Nat /\ Cardinality(Lost) \in Nat /\ mishaps \in Nat
      BY <2>2, FS_CardinalityType DEF LostInv, TypeOK
    <2>4. Cardinality(S) <= mishaps
      BY <2>2, <2>3 DEF LostInv
    <2> QED
      BY <2>4 DEF HeldKeysAccounted
  <1> QED
    BY <1>1, KeyInvariant, RequestsTypeCorrect, PTL

\* A key runs its route at most once, and all its answers are one answer.
THEOREM KeysAreIdempotent == Spec => []Idempotence
  <1>1. KeyRunsOnce /\ OneOutcomePerKey => Idempotence
    BY DEF Idempotence
  <1> QED
    BY <1>1, RouteRunsOnce, OneOutcome, PTL

\* Neighbouring revisions differ, and every answer names a revision that exists.
THEOREM RevisionsAreTrueAlways == Spec => []RevisionsAreTrue
  <1>1. NeighboursDiffer /\ AnswersAreRevisions => RevisionsAreTrue
    BY DEF RevisionsAreTrue
  <1> QED
    BY <1>1, NoRevisionTwice, AnswersAreReal, PTL
=============================================================================

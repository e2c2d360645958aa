--------------------------- MODULE GatewayProofs ----------------------------
(***************************************************************************)
(* Proofs about the gateway: type correctness, the bound of the rate       *)
(* limiter, and what the health check and the lists of a query tell.       *)
(***************************************************************************)
EXTENDS Gateway, FiniteSetTheorems, TLAPS

-----------------------------------------------------------------------------
(* The inductive invariants.                                                *)

\* The requests of an address that have arrived.
Counted(a) == {r \in Requests : Address[r] = a /\ phase[r] # "idle"}

HitsInv == \A a \in Addresses : hits[a] <= Cardinality(Counted(a))

\* The requests of an address admitted at the moment u or later.
Within(a, u) == {r \in Requests : Address[r] = a /\ admitted[r] >= u}

\* How many requests the present window of an address has admitted.
Spent(a) == IF hits[a] < Limit THEN hits[a] ELSE Limit

\* What windows that have ended, and those that a restart has forgotten, may have
\* admitted in an interval as long as a window.
Earlier == restarts * Limit + Limit - 1

\* The most an address may have got through since u: a window that began at u or
\* later may follow another one; one that began before u has admitted its first
\* request before u.
Allowance(a, u) ==
    IF resetTime[a] = 0 THEN Earlier
    ELSE IF u + Window <= resetTime[a] THEN Earlier + Spent(a)
    ELSE Spent(a) - 1

WindowInv ==
    /\ \A r \in Requests : admitted[r] <= now
    /\ \A a \in Addresses :
          /\ resetTime[a] > 0 => hits[a] >= 1 /\ resetTime[a] <= now + Window
          /\ \A u \in 0..MaxTime :
                now < u + Window => Cardinality(Within(a, u)) <= Allowance(a, u)

\* The services of a fan out are still asked, have failed, or have answered; those
\* that are up now, and those that are not, have been seen so.
FanOutKept(r) ==
    /\ phase[r] = "idle" => failed[r] = {}
    /\ phase[r] = "fanOut" =>
          /\ asked[r] \subseteq FanOutOf(r)
          /\ failed[r] \subseteq seenBad[r]
          /\ FanOutOf(r) \ (asked[r] \union failed[r]) \subseteq seenUp[r]
          /\ FanOutOf(r) \intersect Up \subseteq seenUp[r]
          /\ FanOutOf(r) \ Up \subseteq seenBad[r]

FanOutInv == \A r \in Requests : FanOutKept(r)

-----------------------------------------------------------------------------
(* Types.                                                                   *)

Phases == {"idle", "proxied", "fanOut", "answered", "cut"}
Codes == {0, 200, 400, 401, 403, 405, 413, 415, 429, 500, 502, 503, 504}

\* The types of the variables of the requests.
RequestsOK ==
    /\ phase \in [Requests -> Phases]
    /\ status \in [Requests -> Codes]
    /\ asked \in [Requests -> SUBSET Services]
    /\ failed \in [Requests -> SUBSET Services]
    /\ \A r \in Requests :
          /\ status[r] # 0 <=> phase[r] = "answered"
          /\ asked[r] # {} => phase[r] \in {"proxied", "fanOut"}
    /\ seenUp \in [Requests -> SUBSET Services]
    /\ seenBad \in [Requests -> SUBSET Services]

\* The types of the variables of the limiter.
LimiterOK ==
    /\ hits \in [Addresses -> 0..Cardinality(Requests)]
    /\ resetTime \in [Addresses -> 0..MaxTime + Window]
    /\ admitted \in [Requests -> -1..MaxTime]

\* The types of the counters of what happens around the gateway.
CountersOK ==
    /\ changes \in 0..MaxChanges
    /\ restarts \in 0..MaxChanges
    /\ changes + restarts <= MaxChanges

LEMMA TypeParts ==
    TypeOK <=> /\ now \in 0..MaxTime
               /\ LimiterOK
               /\ expiry \in [Users -> 0..MaxTime + Lifetime]
               /\ RequestsOK
               /\ service \in [Services -> ServiceStates]
               /\ CountersOK
PROOF
<1>1. Phases = {"idle", "proxied", "fanOut", "answered", "cut"}
    BY Zenon DEF Phases
<1>2. Codes = {0, 200, 400, 401, 403, 405, 413, 415, 429, 500, 502, 503, 504}
    BY Zenon DEF Codes
<1> DEFINE Parts == /\ now \in 0..MaxTime
                    /\ LimiterOK
                    /\ expiry \in [Users -> 0..MaxTime + Lifetime]
                    /\ RequestsOK
                    /\ service \in [Services -> ServiceStates]
                    /\ CountersOK
<1>3. TypeOK => Parts
    BY <1>1, <1>2, Zenon DEF TypeOK, LimiterOK, RequestsOK, CountersOK
<1>4. Parts => TypeOK
    BY <1>1, <1>2, Zenon DEF TypeOK, LimiterOK, RequestsOK, CountersOK
<1> QED
    BY <1>3, <1>4

LEMMA TypePartsPrimed ==
    ASSUME now' \in 0..MaxTime,
           LimiterOK',
           expiry' \in [Users -> 0..MaxTime + Lifetime],
           RequestsOK',
           service' \in [Services -> ServiceStates],
           CountersOK'
    PROVE  TypeOK'
PROOF
<1>1. Phases = {"idle", "proxied", "fanOut", "answered", "cut"}
    BY Zenon DEF Phases
<1>2. Codes = {0, 200, 400, 401, 403, 405, 413, 415, 429, 500, 502, 503, 504}
    BY Zenon DEF Codes
<1> QED
    BY <1>1, <1>2, Zenon DEF TypeOK, LimiterOK, RequestsOK, CountersOK

LEMMA SubsetOfRequests ==
    ASSUME NEW T, T \subseteq Requests
    PROVE  /\ IsFiniteSet(T)
           /\ Cardinality(T) \in Nat
           /\ Cardinality(T) <= Cardinality(Requests)
PROOF
    BY FS_Subset, FS_CardinalityType, GatewayConstants

LEMMA RequestsFinite == IsFiniteSet(Requests) /\ Cardinality(Requests) \in Nat
PROOF
    BY FS_CardinalityType, GatewayConstants

\* The services that a fan out or a proxied request concerns are services.
LEMMA RouteTypes ==
    ASSUME NEW r \in Requests
    PROVE  /\ Route[r].asks \in SUBSET Services
           /\ Route[r].kind \in Kinds
           /\ FanOutOf(r) \in SUBSET Services
           /\ Address[r] \in Addresses
           /\ User[r] \in Users
PROOF
<1>1. Route[r] \in [kind : Kinds, asks : SUBSET Services]
    BY GatewayConstants
<1>2. Route[r].asks \in SUBSET Services /\ Route[r].kind \in Kinds
    BY <1>1
<1>3. FanOutOf(r) \in SUBSET Services
    BY <1>2 DEF FanOutOf
<1> QED
    BY <1>2, <1>3 DEF Addresses, Users

LEMMA InitTypes == Init => TypeOK
PROOF
<1> SUFFICES ASSUME Init
            PROVE  TypeOK
    OBVIOUS
<1>1. now \in 0..MaxTime /\ CountersOK
    BY GatewayConstants DEF Init, CountersOK
<1>2. LimiterOK
    BY GatewayConstants, RequestsFinite DEF Init, LimiterOK
<1>3. expiry \in [Users -> 0..MaxTime + Lifetime]
    BY GatewayConstants DEF Init
<1>4. RequestsOK
    BY DEF Init, RequestsOK, Phases, Codes
<1>5. service \in [Services -> ServiceStates]
    BY DEF Init, ServiceStates
<1> QED
    BY <1>1, <1>2, <1>3, <1>4, <1>5, TypeParts

\* An answer is a status of a request that has no calls open any more.
LEMMA AnsweredTypes ==
    ASSUME RequestsOK, NEW r \in Requests, NEW code \in Codes \ {0}, Answered(r, code),
           asked' \in [Requests -> SUBSET Services], asked'[r] = {},
           \A q \in Requests \ {r} : asked'[q] = asked[q],
           failed' \in [Requests -> SUBSET Services],
           seenUp' \in [Requests -> SUBSET Services],
           seenBad' \in [Requests -> SUBSET Services]
    PROVE  RequestsOK' /\ phase'[r] # "idle"
PROOF
<1>1. phase' \in [Requests -> Phases] /\ status' \in [Requests -> Codes]
    BY DEF RequestsOK, Answered, Phases
<1>2. phase'[r] = "answered" /\ status'[r] = code
    BY DEF RequestsOK, Answered
<1>3. ASSUME NEW q \in Requests
      PROVE  /\ status'[q] # 0 <=> phase'[q] = "answered"
             /\ asked'[q] # {} => phase'[q] \in {"proxied", "fanOut"}
  <2>1. CASE q = r
      BY <1>2, <2>1
  <2>2. CASE q # r
    <3>1. status'[q] = status[q] /\ phase'[q] = phase[q] /\ asked'[q] = asked[q]
        BY <2>2 DEF RequestsOK, Answered
    <3> QED
        BY <3>1 DEF RequestsOK
  <2> QED
      BY <2>1, <2>2
<1> QED
    BY <1>1, <1>2, <1>3 DEF RequestsOK

\* A request that is answered at once had no calls open.
LEMMA AnswerTypes ==
    ASSUME RequestsOK, NEW r \in Requests, phase[r] = "idle", NEW code \in Codes \ {0},
           Answered(r, code), UNCHANGED <<asked, failed, seenUp, seenBad>>
    PROVE  RequestsOK' /\ phase'[r] # "idle"
PROOF
<1>1. asked[r] = {}
    BY DEF RequestsOK
<1>2. asked' \in [Requests -> SUBSET Services] /\ failed' \in [Requests -> SUBSET Services]
      /\ seenUp' \in [Requests -> SUBSET Services] /\ seenBad' \in [Requests -> SUBSET Services]
    BY DEF RequestsOK
<1> QED
    BY <1>1, <1>2, AnsweredTypes

\* A request that opens calls: Proxy and FanOut.
LEMMA OpenTypes ==
    ASSUME RequestsOK, NEW r \in Requests, phase[r] = "idle", NEW S \in SUBSET Services,
           NEW to \in {"proxied", "fanOut"},
           phase' = [phase EXCEPT ![r] = to], asked' = [asked EXCEPT ![r] = S],
           UNCHANGED <<status, failed>>,
           seenUp' \in [Requests -> SUBSET Services],
           seenBad' \in [Requests -> SUBSET Services]
    PROVE  RequestsOK' /\ phase'[r] # "idle"
PROOF
<1>1. phase' \in [Requests -> Phases] /\ asked' \in [Requests -> SUBSET Services]
    BY DEF RequestsOK, Phases
<1>2. phase'[r] = to /\ status[r] = 0
    BY DEF RequestsOK
<1>3. ASSUME NEW q \in Requests
      PROVE  /\ status'[q] # 0 <=> phase'[q] = "answered"
             /\ asked'[q] # {} => phase'[q] \in {"proxied", "fanOut"}
  <2>1. CASE q = r
      BY <1>2, <2>1
  <2>2. CASE q # r
    <3>1. status'[q] = status[q] /\ phase'[q] = phase[q] /\ asked'[q] = asked[q]
        BY <2>2 DEF RequestsOK
    <3> QED
        BY <3>1 DEF RequestsOK
  <2> QED
      BY <2>1, <2>2
<1>4. status' \in [Requests -> Codes] /\ failed' \in [Requests -> SUBSET Services]
    BY DEF RequestsOK
<1>5. phase'[r] # "idle"
    BY <1>2
<1> QED
    BY <1>1, <1>3, <1>4, <1>5 DEF RequestsOK

LEMMA ErrorCodes ==
    ASSUME NEW error
    PROVE  mapErrorToStatusCode(error) \in Codes \ {0}
PROOF
<1>1. mapErrorToStatusCode(error) \in {500, 502, 504}
    BY DEF mapErrorToStatusCode
<1> QED
    BY <1>1 DEF Codes

\* What every way to take a request does: it has arrived, and no other request moves.
Arrives(r) ==
    /\ phase'[r] # "idle"
    /\ \A q \in Requests \ {r} : phase'[q] = phase[q]
    /\ expiry' \in [Users -> 0..MaxTime + Lifetime]
    /\ RequestsOK'

LEMMA AnswerArrives ==
    ASSUME TypeOK, NEW r \in Requests, phase[r] = "idle", NEW code \in Codes \ {0},
           Answer(r, code)
    PROVE  Arrives(r)
PROOF
<1>1. RequestsOK /\ expiry \in [Users -> 0..MaxTime + Lifetime]
    BY TypeParts
<1>2. Answered(r, code) /\ UNCHANGED <<asked, failed, seenUp, seenBad>>
    BY DEF Answer
<1>3. expiry' \in [Users -> 0..MaxTime + Lifetime]
    BY <1>1 DEF Answer
<1>4. \A q \in Requests \ {r} : phase'[q] = phase[q]
    BY <1>1, <1>2 DEF Answered, RequestsOK
<1>5. RequestsOK' /\ phase'[r] # "idle"
    BY <1>1, <1>2, AnswerTypes
<1> QED
    BY <1>3, <1>4, <1>5 DEF Arrives

LEMMA LoginArrives ==
    ASSUME TypeOK, NEW r \in Requests, phase[r] = "idle", loginHandler(r)
    PROVE  Arrives(r)
PROOF
<1>1. RequestsOK /\ expiry \in [Users -> 0..MaxTime + Lifetime] /\ now \in 0..MaxTime
    BY TypeParts
<1>2. 200 \in Codes \ {0} /\ {400, 401} \subseteq Codes \ {0}
    BY DEF Codes
<1>3. CASE \E code \in {400, 401} : Answer(r, code)
    BY <1>2, <1>3, AnswerArrives
<1>4. CASE /\ Answered(r, 200)
           /\ expiry' = [expiry EXCEPT ![User[r]] = now + Lifetime]
           /\ UNCHANGED <<asked, failed, seenUp, seenBad>>
  <2>1. now + Lifetime \in 0..MaxTime + Lifetime
      BY <1>1, GatewayConstants
  <2>2. expiry' \in [Users -> 0..MaxTime + Lifetime]
      BY <1>1, <1>4, <2>1
  <2>3. \A q \in Requests \ {r} : phase'[q] = phase[q]
      BY <1>1, <1>4 DEF Answered, RequestsOK
  <2>4. RequestsOK' /\ phase'[r] # "idle"
      BY <1>1, <1>2, <1>4, AnswerTypes
  <2> QED
      BY <2>2, <2>3, <2>4 DEF Arrives
<1> QED
    BY <1>3, <1>4 DEF loginHandler

LEMMA ProxyArrives ==
    ASSUME TypeOK, NEW r \in Requests, phase[r] = "idle", Proxy(r)
    PROVE  Arrives(r)
PROOF
<1>1. RequestsOK /\ expiry \in [Users -> 0..MaxTime + Lifetime]
    BY TypeParts
<1>2. Route[r].asks \in SUBSET Services
    BY RouteTypes
<1>3. /\ phase' = [phase EXCEPT ![r] = "proxied"]
      /\ asked' = [asked EXCEPT ![r] = Route[r].asks]
      /\ UNCHANGED <<status, failed>>
      /\ UNCHANGED <<expiry, seenUp, seenBad>>
    BY DEF Proxy
<1>4. seenUp' \in [Requests -> SUBSET Services] /\ seenBad' \in [Requests -> SUBSET Services]
    BY <1>1, <1>3 DEF RequestsOK
<1>5. "proxied" \in {"proxied", "fanOut"}
    OBVIOUS
<1>6. RequestsOK' /\ phase'[r] # "idle"
    BY <1>1, <1>2, <1>3, <1>4, <1>5, OpenTypes, Zenon
<1>7. \A q \in Requests \ {r} : phase'[q] = phase[q]
    BY <1>1, <1>3 DEF RequestsOK
<1> QED
    BY <1>1, <1>3, <1>6, <1>7 DEF Arrives

LEMMA FanOutArrives ==
    ASSUME TypeOK, NEW r \in Requests, phase[r] = "idle", FanOut(r)
    PROVE  Arrives(r)
PROOF
<1>1. RequestsOK /\ expiry \in [Users -> 0..MaxTime + Lifetime]
    BY TypeParts
<1>2. FanOutOf(r) \in SUBSET Services
    BY RouteTypes
<1>3. /\ phase' = [phase EXCEPT ![r] = "fanOut"]
      /\ asked' = [asked EXCEPT ![r] = FanOutOf(r)]
      /\ UNCHANGED <<status, failed>>
      /\ seenUp' = [seenUp EXCEPT ![r] = Up \intersect FanOutOf(r)]
      /\ seenBad' = [seenBad EXCEPT ![r] = FanOutOf(r) \ Up]
      /\ UNCHANGED expiry
    BY DEF FanOut
<1>4. Up \intersect FanOutOf(r) \in SUBSET Services /\ FanOutOf(r) \ Up \in SUBSET Services
    BY <1>2
<1>5. seenUp' \in [Requests -> SUBSET Services] /\ seenBad' \in [Requests -> SUBSET Services]
    BY <1>1, <1>3, <1>4 DEF RequestsOK
<1>6. "fanOut" \in {"proxied", "fanOut"}
    OBVIOUS
<1>7. RequestsOK' /\ phase'[r] # "idle"
    BY <1>1, <1>2, <1>3, <1>5, <1>6, OpenTypes, Zenon
<1>8. \A q \in Requests \ {r} : phase'[q] = phase[q]
    BY <1>1, <1>3 DEF RequestsOK
<1> QED
    BY <1>1, <1>3, <1>7, <1>8 DEF Arrives

LEMMA QueryArrives ==
    ASSUME TypeOK, NEW r \in Requests, phase[r] = "idle", queryHandler(r)
    PROVE  Arrives(r)
PROOF
<1>1. DocumentErrors \subseteq Codes \ {0} /\ 500 \in Codes \ {0}
    BY DEF DocumentErrors, Codes
<1>2. CASE FanOut(r)
    BY <1>2, FanOutArrives
<1>3. CASE \E code \in DocumentErrors : Answer(r, code)
    BY <1>1, <1>3, AnswerArrives
<1>4. CASE Answer(r, 500)
    BY <1>1, <1>4, AnswerArrives
<1> QED
    BY <1>2, <1>3, <1>4, Zenon DEF queryHandler

LEMMA ReceiveArrives ==
    ASSUME TypeOK, NEW r \in Requests, Receive(r)
    PROVE  Arrives(r)
PROOF
<1>1. phase[r] = "idle"
    BY DEF Receive
<1>2. {200, 401, 403, 429} \subseteq Codes \ {0}
    BY DEF Codes
<1>3. CASE \E error \in BodyErrors : errorHandler(r, error)
    BY <1>1, <1>3, AnswerArrives, ErrorCodes DEF errorHandler
<1>4. CASE Pass(r)
  <2>1. CASE Answer(r, 429) \/ Answer(r, 401)
      BY <1>1, <1>2, <2>1, AnswerArrives
  <2>2. CASE Dispatch(r)
    <3>1. CASE loginHandler(r)
        BY <1>1, <3>1, LoginArrives
    <3>2. CASE Answer(r, 200) \/ Answer(r, 403)
        BY <1>1, <1>2, <3>2, AnswerArrives
    <3>3. CASE Proxy(r)
        BY <1>1, <3>3, ProxyArrives
    <3>4. CASE FanOut(r)
        BY <1>1, <3>4, FanOutArrives
    <3>5. CASE queryHandler(r)
        BY <1>1, <3>5, QueryArrives
    <3> QED
        BY <2>2, <3>1, <3>2, <3>3, <3>4, <3>5, Zenon DEF Dispatch
  <2> QED
      BY <1>4, <2>1, <2>2, Zenon DEF Pass
<1> QED
    BY <1>3, <1>4, Zenon DEF Receive

-----------------------------------------------------------------------------
(* The counters of the limiter.                                             *)

LEMMA CountedGrows ==
    ASSUME TypeOK, NEW r \in Requests, phase[r] = "idle", Arrives(r), NEW a \in Addresses
    PROVE  Cardinality(Counted(a)') = IF a = Address[r] THEN Cardinality(Counted(a)) + 1
                                                         ELSE Cardinality(Counted(a))
PROOF
<1>1. IsFiniteSet(Counted(a))
    BY SubsetOfRequests DEF Counted
<1>2. CASE a = Address[r]
  <2>1. Counted(a)' = Counted(a) \union {r}
      BY <1>2 DEF Counted, Arrives
  <2>2. r \notin Counted(a)
      BY DEF Counted
  <2> QED
      BY <1>1, <1>2, <2>1, <2>2, FS_AddElement
<1>3. CASE a # Address[r]
  <2>1. Counted(a)' = Counted(a)
      BY <1>3 DEF Counted, Arrives
  <2> QED
      BY <1>3, <2>1
<1> QED
    BY <1>2, <1>3

\* A hit is counted for the request that has arrived.
LEMMA HitTypes ==
    ASSUME TypeOK, HitsInv, NEW r \in Requests, phase[r] = "idle", Arrives(r), CountHit(r)
    PROVE  LimiterOK' /\ HitsInv'
PROOF
<1> DEFINE a == Address[r]
<1>1. a \in Addresses /\ now \in 0..MaxTime /\ LimiterOK
    BY TypeParts, RouteTypes
<1>2. /\ hits' = [hits EXCEPT ![a] = HitsNow(a)]
      /\ resetTime' = IF Expired(a) THEN [resetTime EXCEPT ![a] = now + Window] ELSE resetTime
      /\ admitted' = IF Limited(a) THEN admitted ELSE [admitted EXCEPT ![r] = now]
    BY DEF CountHit
<1>3. \A b \in Addresses : /\ hits[b] \in Nat
                           /\ hits[b] <= Cardinality(Counted(b))
                           /\ Cardinality(Counted(b)) \in Nat
  <2>1. \A b \in Addresses : Cardinality(Counted(b)) \in Nat
      BY SubsetOfRequests DEF Counted
  <2>2. \A b \in Addresses : hits[b] \in Nat
      BY <1>1, RequestsFinite DEF LimiterOK
  <2> QED
      BY <2>1, <2>2 DEF HitsInv
<1>4. HitsNow(a) \in Nat /\ HitsNow(a) <= Cardinality(Counted(a)) + 1
    BY <1>1, <1>3 DEF HitsNow
<1>5. \A b \in Addresses : /\ hits'[b] \in Nat
                           /\ hits'[b] <= Cardinality(Counted(b)')
  <2> TAKE b \in Addresses
  <2>1. CASE b = a
    <3>1. hits'[b] = HitsNow(a)
        BY <1>1, <1>2, <2>1 DEF LimiterOK
    <3>2. Cardinality(Counted(b)') = Cardinality(Counted(a)) + 1
        BY <2>1, CountedGrows
    <3> QED
        BY <1>4, <3>1, <3>2
  <2>2. CASE b # a
    <3>1. hits'[b] = hits[b]
        BY <1>1, <1>2, <2>2 DEF LimiterOK
    <3>2. Cardinality(Counted(b)') = Cardinality(Counted(b))
        BY <2>2, CountedGrows
    <3> QED
        BY <1>3, <3>1, <3>2
  <2> QED
      BY <2>1, <2>2
<1>6. \A b \in Addresses : Cardinality(Counted(b)') <= Cardinality(Requests)
                           /\ Cardinality(Counted(b)') \in Nat
    BY SubsetOfRequests DEF Counted
<1>7. \A b \in Addresses : hits'[b] \in 0..Cardinality(Requests)
    BY <1>5, <1>6, RequestsFinite
<1>8. hits' \in [Addresses -> 0..Cardinality(Requests)]
  <2>1. hits' = [b \in Addresses |-> hits'[b]]
      BY <1>1, <1>2 DEF LimiterOK
  <2> QED
      BY <1>7, <2>1
<1>9. resetTime' \in [Addresses -> 0..MaxTime + Window]
  <2>1. now + Window \in 0..MaxTime + Window
      BY <1>1, GatewayConstants
  <2> QED
      BY <1>1, <1>2, <2>1 DEF LimiterOK
<1>10. admitted' \in [Requests -> -1..MaxTime]
  <2>1. now \in -1..MaxTime
      BY <1>1, GatewayConstants
  <2> QED
      BY <1>1, <1>2, <2>1 DEF LimiterOK
<1> QED
    BY <1>5, <1>8, <1>9, <1>10 DEF LimiterOK, HitsInv

LEMMA ReceiveTypes ==
    ASSUME TypeOK, HitsInv, NEW r \in Requests, Receive(r)
    PROVE  TypeOK' /\ HitsInv'
PROOF
<1>1. Arrives(r) /\ phase[r] = "idle" /\ UNCHANGED <<now, service, changes, restarts>>
    BY ReceiveArrives DEF Receive
<1>2. LimiterOK' /\ HitsInv'
  <2>1. CASE CountHit(r)
      BY <1>1, <2>1, HitTypes
  <2>2. CASE UNCHANGED limiterVars
    <3>1. LimiterOK /\ hits' = hits /\ resetTime' = resetTime /\ admitted' = admitted
        BY <2>2, TypeParts DEF limiterVars
    <3>2. LimiterOK'
        BY <3>1 DEF LimiterOK
    <3>3. \A b \in Addresses : /\ hits[b] \in Nat
                               /\ Cardinality(Counted(b)) \in Nat
        BY <3>1, RequestsFinite, SubsetOfRequests DEF LimiterOK, Counted
    <3>4. \A b \in Addresses : Cardinality(Counted(b)) <= Cardinality(Counted(b)')
        BY <1>1, <3>3, CountedGrows
    <3>5. \A b \in Addresses : Cardinality(Counted(b)') \in Nat
        BY SubsetOfRequests DEF Counted
    <3>6. HitsInv'
        BY <3>1, <3>3, <3>4, <3>5 DEF HitsInv
    <3> QED
        BY <3>2, <3>6
  <2> QED
      BY <2>1, <2>2, Zenon DEF Receive, Pass
<1>3. RequestsOK' /\ expiry' \in [Users -> 0..MaxTime + Lifetime]
    BY <1>1 DEF Arrives
<1>4. now' \in 0..MaxTime /\ service' \in [Services -> ServiceStates] /\ CountersOK'
    BY <1>1, TypeParts DEF CountersOK
<1>5. TypeOK'
    BY <1>2, <1>3, <1>4, TypePartsPrimed
<1> QED
    BY <1>2, <1>5

-----------------------------------------------------------------------------
(* The steps that admit nobody.                                             *)

LEMMA LimiterKept ==
    ASSUME LimiterOK, UNCHANGED limiterVars
    PROVE  LimiterOK'
PROOF
    BY DEF LimiterOK, limiterVars

\* A request that has arrived has not come back.
LEMMA HitsKept ==
    ASSUME TypeOK, HitsInv, UNCHANGED hits,
           \A q \in Requests : phase[q] # "idle" => phase'[q] # "idle"
    PROVE  HitsInv'
PROOF
<1> SUFFICES ASSUME NEW a \in Addresses
            PROVE  hits'[a] <= Cardinality(Counted(a)')
    BY DEF HitsInv
<1>1. Counted(a) \subseteq Counted(a)'
    BY DEF Counted
<1>2. IsFiniteSet(Counted(a)') /\ Cardinality(Counted(a)') \in Nat
    BY SubsetOfRequests DEF Counted
<1>3. Cardinality(Counted(a)) \in Nat
    BY SubsetOfRequests DEF Counted
<1>4. Cardinality(Counted(a)) <= Cardinality(Counted(a)')
    BY <1>1, <1>2, FS_Subset
<1>5. hits[a] \in Nat
    BY TypeParts, RequestsFinite DEF LimiterOK
<1> QED
    BY <1>2, <1>3, <1>4, <1>5 DEF HitsInv

LEMMA SettleTypes ==
    ASSUME TypeOK, HitsInv, NEW r \in Requests, Settle(r)
    PROVE  TypeOK' /\ HitsInv'
PROOF
<1>1. /\ RequestsOK /\ LimiterOK /\ now \in 0..MaxTime
      /\ expiry \in [Users -> 0..MaxTime + Lifetime]
      /\ service \in [Services -> ServiceStates] /\ CountersOK
    BY TypeParts
<1>2. Settled
    BY DEF Settle, ProxyAnswers, ProxyFails, CheckFails, CheckAnswers, EndFanOut
<1>3. ASSUME RequestsOK', \A q \in Requests : phase[q] # "idle" => phase'[q] # "idle"
      PROVE  TypeOK' /\ HitsInv'
  <2>1. HitsInv'
      BY <1>2, <1>3, HitsKept DEF Settled, limiterVars
  <2>2. LimiterOK'
      BY <1>1, <1>2, LimiterKept DEF Settled
  <2>3. /\ now' \in 0..MaxTime /\ expiry' \in [Users -> 0..MaxTime + Lifetime]
        /\ service' \in [Services -> ServiceStates] /\ CountersOK'
      BY <1>1, <1>2 DEF Settled, CountersOK
  <2> QED
      BY <1>3, <2>1, <2>2, <2>3, TypePartsPrimed
<1>4. ASSUME NEW code \in Codes \ {0}, Answered(r, code),
             asked' \in [Requests -> SUBSET Services], asked'[r] = {},
             \A q \in Requests \ {r} : asked'[q] = asked[q],
             failed' \in [Requests -> SUBSET Services],
             seenUp' \in [Requests -> SUBSET Services],
             seenBad' \in [Requests -> SUBSET Services]
      PROVE  TypeOK' /\ HitsInv'
  <2>1. RequestsOK' /\ phase'[r] # "idle"
      BY <1>1, <1>4, AnsweredTypes
  <2>2. \A q \in Requests : phase[q] # "idle" => phase'[q] # "idle"
      BY <1>1, <1>4, <2>1 DEF Answered, RequestsOK
  <2> QED
      BY <1>3, <2>1, <2>2
<1>5. 200 \in Codes \ {0} /\ 500 \in Codes \ {0} /\ 503 \in Codes \ {0}
    BY DEF Codes
<1>6. ASSUME UNCHANGED <<failed, seenUp, seenBad>>
      PROVE  /\ failed' \in [Requests -> SUBSET Services]
             /\ seenUp' \in [Requests -> SUBSET Services]
             /\ seenBad' \in [Requests -> SUBSET Services]
    BY <1>1, <1>6 DEF RequestsOK
<1>7. CASE ProxyAnswers(r)
  <2>1. PICK code \in {200, 500} : Answered(r, code)
      BY <1>7 DEF ProxyAnswers
  <2>2. asked' = [asked EXCEPT ![r] = {}] /\ UNCHANGED <<failed, seenUp, seenBad>>
      BY <1>7 DEF ProxyAnswers, Seen
  <2>3. code \in Codes \ {0}
      BY <1>5
  <2>4. /\ failed' \in [Requests -> SUBSET Services]
        /\ seenUp' \in [Requests -> SUBSET Services]
        /\ seenBad' \in [Requests -> SUBSET Services]
      BY <1>6, <2>2
  <2>5. /\ asked' \in [Requests -> SUBSET Services] /\ asked'[r] = {}
        /\ \A q \in Requests \ {r} : asked'[q] = asked[q]
      BY <1>1, <2>2 DEF RequestsOK
  <2> QED
      BY <1>4, <2>1, <2>3, <2>4, <2>5
<1>8. CASE ProxyFails(r)
  <2>1. PICK error \in SocketErrors : Answered(r, mapErrorToStatusCode(error))
      BY <1>8 DEF ProxyFails
  <2>2. asked' = [asked EXCEPT ![r] = {}] /\ UNCHANGED <<failed, seenUp, seenBad>>
      BY <1>8 DEF ProxyFails, Seen
  <2>3. mapErrorToStatusCode(error) \in Codes \ {0}
      BY ErrorCodes
  <2>4. /\ failed' \in [Requests -> SUBSET Services]
        /\ seenUp' \in [Requests -> SUBSET Services]
        /\ seenBad' \in [Requests -> SUBSET Services]
      BY <1>6, <2>2
  <2>5. /\ asked' \in [Requests -> SUBSET Services] /\ asked'[r] = {}
        /\ \A q \in Requests \ {r} : asked'[q] = asked[q]
      BY <1>1, <2>2 DEF RequestsOK
  <2> QED
      BY <1>4, <2>1, <2>3, <2>4, <2>5
<1>9. CASE EndFanOut(r)
  <2>1. PICK code \in {200, 503} : Answered(r, code)
    <3>1. Answered(r, IF Route[r].kind = "health" THEN HealthStatus(r) ELSE 200)
        BY <1>9 DEF EndFanOut
    <3>2. (IF Route[r].kind = "health" THEN HealthStatus(r) ELSE 200) \in {200, 503}
        BY DEF HealthStatus
    <3> QED
        BY <3>1, <3>2
  <2>2. /\ asked[r] = {} /\ asked' = asked
        /\ failed' = [failed EXCEPT ![r] = {}]
        /\ seenUp' = [seenUp EXCEPT ![r] = {}]
        /\ seenBad' = [seenBad EXCEPT ![r] = {}]
      BY <1>9 DEF EndFanOut
  <2>3. /\ failed' \in [Requests -> SUBSET Services]
        /\ seenUp' \in [Requests -> SUBSET Services]
        /\ seenBad' \in [Requests -> SUBSET Services]
      BY <1>1, <2>2 DEF RequestsOK
  <2>4. /\ asked' \in [Requests -> SUBSET Services] /\ asked'[r] = {}
        /\ \A q \in Requests \ {r} : asked'[q] = asked[q]
      BY <1>1, <2>2 DEF RequestsOK
  <2>5. code \in Codes \ {0}
      BY <1>5
  <2> QED
      BY <1>4, <2>1, <2>3, <2>4, <2>5
<1>10. ASSUME NEW s \in Services, CheckFails(r, s) \/ CheckAnswers(r, s)
       PROVE  TypeOK' /\ HitsInv'
  <2>1. /\ phase[r] = "fanOut" /\ phase' = phase /\ status' = status
        /\ asked' = [asked EXCEPT ![r] = @ \ {s}]
        /\ UNCHANGED <<seenUp, seenBad>>
      BY <1>10 DEF CheckFails, CheckAnswers, Seen
  <2>2. failed' \in [Requests -> SUBSET Services]
    <3>1. CASE CheckFails(r, s)
      <4>1. failed' = [failed EXCEPT ![r] = @ \union {s}]
          BY <3>1 DEF CheckFails, Emptied
      <4> QED
          BY <1>1, <4>1 DEF RequestsOK
    <3>2. CASE CheckAnswers(r, s)
        BY <1>1, <3>2 DEF RequestsOK, CheckAnswers
    <3> QED
        BY <1>10, <3>1, <3>2
  <2>3. asked' \in [Requests -> SUBSET Services]
      BY <1>1, <2>1 DEF RequestsOK
  <2>4. \A q \in Requests : asked'[q] \subseteq asked[q]
      BY <1>1, <2>1 DEF RequestsOK
  <2>5. RequestsOK'
      BY <1>1, <2>1, <2>2, <2>3, <2>4 DEF RequestsOK
  <2> QED
      BY <1>3, <2>1, <2>5
<1> QED
    BY <1>7, <1>8, <1>9, <1>10 DEF Settle

LEMMA TickTypes ==
    ASSUME TypeOK, HitsInv, Tick
    PROVE  TypeOK' /\ HitsInv'
PROOF
<1>1. now' \in 0..MaxTime
    BY TypeParts, GatewayConstants DEF Tick
<1>2. LimiterOK'
    BY TypeParts, LimiterKept DEF Tick
<1>3. RequestsOK'
    BY TypeParts DEF Tick, RequestsOK, requestVars
<1>4. /\ expiry' \in [Users -> 0..MaxTime + Lifetime]
      /\ service' \in [Services -> ServiceStates] /\ CountersOK'
    BY TypeParts DEF Tick, CountersOK
<1>5. HitsInv'
    BY HitsKept DEF Tick, limiterVars, requestVars
<1> QED
    BY <1>1, <1>2, <1>3, <1>4, <1>5, TypePartsPrimed

\* A service that changes is noted by the requests that ask it.
LEMMA ServiceChangesTypes ==
    ASSUME TypeOK, HitsInv, NEW s \in Services, NEW to \in ServiceStates, ServiceChanges(s, to)
    PROVE  TypeOK' /\ HitsInv'
PROOF
<1>1. /\ RequestsOK /\ LimiterOK /\ CountersOK
      /\ service \in [Services -> ServiceStates]
      /\ now \in 0..MaxTime /\ expiry \in [Users -> 0..MaxTime + Lifetime]
    BY TypeParts
<1>2. CountersOK' /\ service' \in [Services -> ServiceStates]
  <2>1. CountersOK'
      BY <1>1, GatewayConstants DEF ServiceChanges, MayChange, CountersOK
  <2>2. service' \in [Services -> ServiceStates]
      BY <1>1 DEF ServiceChanges
  <2> QED
      BY <2>1, <2>2
<1>3. UNCHANGED <<now, limiterVars, expiry, phase, status>>
    BY DEF ServiceChanges
<1>4. LimiterOK'
    BY <1>1, <1>3, LimiterKept
<1>5. \A r \in Requests : seenUp[r] \in SUBSET Services /\ seenBad[r] \in SUBSET Services
                          /\ FanOutOf(r) \in SUBSET Services
                          /\ asked[r] \in SUBSET Services /\ failed[r] \in SUBSET Services
    BY <1>1, RouteTypes DEF RequestsOK
<1>6. seenUp' \in [Requests -> SUBSET Services] /\ seenBad' \in [Requests -> SUBSET Services]
  <2>1. CASE to = "up"
    <3>1. /\ seenUp' = [r \in Requests |-> IF phase[r] = "fanOut"
                                            THEN seenUp[r] \union ({s} \intersect FanOutOf(r))
                                            ELSE seenUp[r]]
          /\ seenBad' = seenBad
        BY <2>1 DEF ServiceChanges
    <3> QED
        BY <1>1, <1>5, <3>1 DEF RequestsOK
  <2>2. CASE to # "up"
    <3>1. /\ seenBad' = [r \in Requests |-> IF phase[r] = "fanOut"
                                            THEN seenBad[r] \union ({s} \intersect FanOutOf(r))
                                            ELSE seenBad[r]]
          /\ seenUp' = seenUp
        BY <2>2 DEF ServiceChanges
    <3> QED
        BY <1>1, <1>5, <3>1 DEF RequestsOK
  <2> QED
      BY <2>1, <2>2
<1>7. /\ asked' \in [Requests -> SUBSET Services] /\ failed' \in [Requests -> SUBSET Services]
      /\ \A r \in Requests : asked'[r] \subseteq asked[r]
  <2>1. CASE to = "down"
    <3>1. /\ asked' = [r \in Requests |-> asked[r] \ {s}]
          /\ failed' = [r \in Requests |-> IF phase[r] = "fanOut"
                                            THEN failed[r] \union (asked[r] \intersect {s})
                                            ELSE failed[r]]
        BY <2>1 DEF ServiceChanges
    <3> QED
        BY <1>5, <3>1
  <2>2. CASE to # "down"
    <3>1. asked' = asked /\ failed' = failed
        BY <2>2 DEF ServiceChanges
    <3> QED
        BY <1>1, <3>1 DEF RequestsOK
  <2> QED
      BY <2>1, <2>2
<1>8. RequestsOK'
    BY <1>1, <1>3, <1>6, <1>7 DEF RequestsOK
<1>9. HitsInv'
    BY <1>3, HitsKept DEF limiterVars
<1> QED
    BY <1>1, <1>2, <1>3, <1>4, <1>8, <1>9, TypePartsPrimed

LEMMA RestartTypes ==
    ASSUME TypeOK, HitsInv, Restart
    PROVE  TypeOK' /\ HitsInv'
PROOF
<1>1. /\ RequestsOK /\ LimiterOK /\ CountersOK
      /\ now \in 0..MaxTime /\ expiry \in [Users -> 0..MaxTime + Lifetime]
      /\ service \in [Services -> ServiceStates]
    BY TypeParts
<1>2. CountersOK'
    BY <1>1, GatewayConstants DEF Restart, MayChange, CountersOK
<1>3. LimiterOK'
    BY <1>1, GatewayConstants, RequestsFinite DEF Restart, LimiterOK
<1>4. /\ phase' = [r \in Requests |-> IF phase[r] \in {"proxied", "fanOut"} THEN "cut" ELSE phase[r]]
      /\ asked' = [r \in Requests |-> {}]
      /\ failed' = [r \in Requests |-> {}]
      /\ seenUp' = [r \in Requests |-> {}]
      /\ seenBad' = [r \in Requests |-> {}]
      /\ UNCHANGED <<now, expiry, status, service>>
    BY DEF Restart
<1>5. RequestsOK'
    BY <1>1, <1>4 DEF RequestsOK, Phases
<1>6. HitsInv'
  <2>1. \A a \in Addresses : hits'[a] = 0 /\ Cardinality(Counted(a)') \in Nat
      BY SubsetOfRequests DEF Restart, Counted
  <2> QED
      BY <2>1 DEF HitsInv
<1>7. /\ now' \in 0..MaxTime /\ expiry' \in [Users -> 0..MaxTime + Lifetime]
      /\ service' \in [Services -> ServiceStates]
    BY <1>1, <1>4
<1> QED
    BY <1>2, <1>3, <1>5, <1>6, <1>7, TypePartsPrimed

LEMMA StutterTypes ==
    ASSUME TypeOK, HitsInv, UNCHANGED vars
    PROVE  TypeOK' /\ HitsInv'
PROOF
<1>1. UNCHANGED <<now, hits, resetTime, admitted, expiry, phase, status, asked, failed,
                  seenUp, seenBad, service, changes, restarts>>
    BY DEF vars, limiterVars, requestVars
<1>2. TypeOK'
    BY <1>1 DEF TypeOK
<1>3. HitsInv'
    BY <1>1, HitsKept
<1> QED
    BY <1>2, <1>3

LEMMA InitHits == Init => HitsInv
PROOF
<1> SUFFICES ASSUME Init, NEW a \in Addresses
            PROVE  hits[a] <= Cardinality(Counted(a))
    BY DEF HitsInv
<1>1. hits[a] = 0 /\ Cardinality(Counted(a)) \in Nat
    BY SubsetOfRequests DEF Init, Counted
<1> QED
    BY <1>1

LEMMA TypesInductive ==
    ASSUME TypeOK, HitsInv, [Next]_vars
    PROVE  TypeOK' /\ HitsInv'
PROOF
<1>1. CASE \E r \in Requests : Receive(r) \/ Settle(r)
    BY <1>1, ReceiveTypes, SettleTypes
<1>2. CASE Tick
    BY <1>2, TickTypes
<1>3. CASE \E s \in Services, to \in ServiceStates : ServiceChanges(s, to)
    BY <1>3, ServiceChangesTypes
<1>4. CASE Restart
    BY <1>4, RestartTypes
<1>5. CASE UNCHANGED vars
    BY <1>5, StutterTypes
<1> QED
    BY <1>1, <1>2, <1>3, <1>4, <1>5, Zenon DEF Next

\* Every variable of the gateway keeps its type: a request has a status exactly when it
\* is answered, one that the handlers, the limiter, graphqlHTTP or the mapping of errors
\* give; calls are open only while it is under way; and the limiter has never counted
\* more than has arrived.
THEOREM TypeCorrect == Spec => []TypeOK
PROOF
<1>1. Init => TypeOK /\ HitsInv
    BY InitTypes, InitHits
<1>2. TypeOK /\ HitsInv /\ [Next]_vars => (TypeOK /\ HitsInv)'
    BY TypesInductive
<1>3. TypeOK /\ HitsInv => TypeOK
    OBVIOUS
<1> QED
    BY <1>1, <1>2, <1>3, PTL DEF Spec

-----------------------------------------------------------------------------
(* The rate limiter.                                                        *)

LEMMA ProductIsNat == \A m, n \in Nat : m * n \in Nat
PROOF
    OBVIOUS

LEMMA EarlierIsNat ==
    ASSUME restarts \in Nat
    PROVE  Earlier \in Nat /\ Earlier >= Limit - 1
PROOF
<1>1. restarts * Limit \in Nat
    BY GatewayConstants
<1> QED
    BY <1>1, GatewayConstants DEF Earlier

LEMMA EarlierGrows ==
    ASSUME restarts \in Nat, restarts' = restarts + 1
    PROVE  Earlier' = Earlier + Limit
PROOF
<1>1. (restarts + 1) * Limit = restarts * Limit + Limit
    BY GatewayConstants
<1>2. restarts * Limit \in Nat
    BY GatewayConstants
<1> QED
    BY <1>1, <1>2, GatewayConstants DEF Earlier

LEMMA SpentBounds ==
    ASSUME NEW a \in Addresses, hits[a] \in Nat
    PROVE  /\ Spent(a) \in 0..Limit
           /\ hits[a] >= 1 => Spent(a) >= 1
PROOF
    BY GatewayConstants DEF Spent

LEMMA WithinIsFinite ==
    ASSUME NEW a, NEW u
    PROVE  /\ IsFiniteSet(Within(a, u)) /\ Cardinality(Within(a, u)) \in Nat
           /\ IsFiniteSet(Within(a, u)') /\ Cardinality(Within(a, u)') \in Nat
PROOF
<1>1. Within(a, u) \subseteq Requests /\ Within(a, u)' \subseteq Requests
    BY DEF Within
<1> QED
    BY <1>1, SubsetOfRequests

\* The types as they are used in what follows.
LEMMA LimiterTypes ==
    ASSUME TypeOK
    PROVE  /\ now \in 0..MaxTime /\ now \in Nat
           /\ restarts \in Nat
           /\ \A a \in Addresses : hits[a] \in Nat /\ resetTime[a] \in Nat
           /\ \A r \in Requests : admitted[r] \in -1..MaxTime
           /\ Limit \in Nat /\ Limit >= 1 /\ Window \in Nat /\ Window >= 1 /\ MaxTime \in Nat
PROOF
    BY TypeParts, GatewayConstants, RequestsFinite DEF LimiterOK, CountersOK

LEMMA InitWindow == Init => WindowInv
PROOF
<1> SUFFICES ASSUME Init
            PROVE  WindowInv
    OBVIOUS
<1>1. TypeOK
    BY InitTypes
<1>2. \A r \in Requests : admitted[r] <= now
    BY DEF Init
<1>3. ASSUME NEW a \in Addresses, NEW u \in 0..MaxTime
      PROVE  Cardinality(Within(a, u)) <= Allowance(a, u)
  <2>1. Within(a, u) = {}
      BY <1>3, GatewayConstants DEF Within, Init
  <2>2. Cardinality(Within(a, u)) = 0
      BY <2>1, FS_EmptySet
  <2>3. Allowance(a, u) = Earlier
      BY DEF Allowance, Init
  <2> QED
      BY <1>1, <2>2, <2>3, EarlierIsNat, LimiterTypes
<1>4. \A a \in Addresses : resetTime[a] = 0
    BY DEF Init
<1> QED
    BY <1>2, <1>3, <1>4 DEF WindowInv

\* Nobody is admitted: what is left is that no allowance shrinks.
LEMMA WindowKept ==
    ASSUME TypeOK, TypeOK', WindowInv, admitted' = admitted, now <= now',
           \A a \in Addresses :
              /\ resetTime'[a] > 0 => hits'[a] >= 1 /\ resetTime'[a] <= now' + Window
              /\ \A u \in 0..MaxTime : now' < u + Window => Allowance(a, u) <= Allowance(a, u)',
           \A a \in Addresses : \A u \in 0..MaxTime :
              Allowance(a, u) \in Int /\ Allowance(a, u)' \in Int
    PROVE  WindowInv'
PROOF
<1>1. /\ now \in Nat /\ \A r \in Requests : admitted[r] \in -1..MaxTime
      /\ Window \in Nat /\ MaxTime \in Nat
    BY LimiterTypes
<1>2. now' \in Nat
    BY GatewayConstants DEF TypeOK
<1>3. \A r \in Requests : admitted'[r] <= now'
    BY <1>1, <1>2 DEF WindowInv
<1>4. ASSUME NEW a \in Addresses, NEW u \in 0..MaxTime, now' < u + Window
      PROVE  Cardinality(Within(a, u)') <= Allowance(a, u)'
  <2>1. Within(a, u)' = Within(a, u)
      BY DEF Within
  <2>2. now < u + Window
      BY <1>1, <1>2, <1>4
  <2>3. Cardinality(Within(a, u)) <= Allowance(a, u)
      BY <2>2 DEF WindowInv
  <2>4. Allowance(a, u) <= Allowance(a, u)'
      BY <1>4
  <2>5. Cardinality(Within(a, u)) \in Nat
      BY WithinIsFinite
  <2>6. Allowance(a, u) \in Int /\ Allowance(a, u)' \in Int
      OBVIOUS
  <2> QED
      BY <2>1, <2>3, <2>4, <2>5, <2>6
<1> QED
    BY <1>3, <1>4 DEF WindowInv

LEMMA AllowanceIsInt ==
    ASSUME TypeOK, NEW a \in Addresses, NEW u \in 0..MaxTime
    PROVE  Allowance(a, u) \in Int
PROOF
<1>1. Earlier \in Nat /\ Spent(a) \in 0..Limit /\ Limit \in Nat
    BY LimiterTypes, EarlierIsNat, SpentBounds
<1>2. Earlier + Spent(a) \in Int /\ Spent(a) - 1 \in Int /\ Earlier \in Int
    BY <1>1
<1> QED
    BY <1>2, Zenon DEF Allowance

LEMMA AllowanceIsIntPrimed ==
    ASSUME TypeOK', NEW a \in Addresses, NEW u \in 0..MaxTime
    PROVE  Allowance(a, u)' \in Int
PROOF
<1>1. restarts' \in Nat /\ hits'[a] \in Nat /\ Limit \in Nat /\ Limit >= 1
    BY GatewayConstants, RequestsFinite DEF TypeOK
<1>2. restarts' * Limit \in Nat
    BY <1>1, ProductIsNat
<1>3. Earlier' \in Nat
  <2>1. Earlier' = restarts' * Limit + Limit - 1
      BY DEF Earlier
  <2>2. \A p, l \in Nat : l >= 1 => p + l - 1 \in Nat
      OBVIOUS
  <2> QED
      BY <1>1, <1>2, <2>1, <2>2, Zenon
<1>4. Spent(a)' \in Nat
    BY <1>1 DEF Spent
<1>5. Earlier' + Spent(a)' \in Int /\ Spent(a)' - 1 \in Int /\ Earlier' \in Int
    BY <1>3, <1>4
<1> QED
    BY <1>5, Zenon DEF Allowance

\* A step that does not touch the limiter.
LEMMA WindowUntouched ==
    ASSUME TypeOK, TypeOK', WindowInv, UNCHANGED limiterVars, now <= now',
           restarts' = restarts \/ restarts' = restarts + 1
    PROVE  WindowInv'
PROOF
<1>1. hits' = hits /\ resetTime' = resetTime /\ admitted' = admitted
    BY DEF limiterVars
<1>2. /\ now \in Nat /\ now' \in Nat /\ restarts \in Nat
      /\ Limit \in Nat /\ Limit >= 1 /\ Window \in Nat
      /\ \A a \in Addresses : hits[a] \in Nat /\ resetTime[a] \in Nat
    BY LimiterTypes, GatewayConstants DEF TypeOK
<1>3. Earlier' = Earlier \/ Earlier' = Earlier + Limit
    BY <1>2, EarlierGrows DEF Earlier
<1>4. Earlier \in Nat
    BY <1>2, EarlierIsNat
<1>5. ASSUME NEW a \in Addresses, NEW u \in 0..MaxTime
      PROVE  Allowance(a, u) <= Allowance(a, u)'
  <2>1. Spent(a)' = Spent(a) /\ Spent(a) \in 0..Limit
      BY <1>1, <1>2, SpentBounds DEF Spent
  <2> QED
      BY <1>1, <1>2, <1>3, <1>4, <2>1 DEF Allowance
<1>6. ASSUME NEW a \in Addresses, resetTime'[a] > 0
      PROVE  hits'[a] >= 1 /\ resetTime'[a] <= now' + Window
    BY <1>1, <1>2, <1>6 DEF WindowInv
<1> QED
    BY <1>1, <1>5, <1>6, WindowKept, AllowanceIsInt, AllowanceIsIntPrimed

\* A restart forgets the window, and pays for it with a limit more.
LEMMA RestartWindow ==
    ASSUME TypeOK, TypeOK', WindowInv, Restart
    PROVE  WindowInv'
PROOF
<1>1. /\ hits' = [a \in Addresses |-> 0] /\ resetTime' = [a \in Addresses |-> 0]
      /\ admitted' = admitted /\ now' = now /\ restarts' = restarts + 1
    BY DEF Restart
<1>2. /\ now \in Nat /\ restarts \in Nat /\ Limit \in Nat /\ Limit >= 1
      /\ \A a \in Addresses : hits[a] \in Nat
    BY LimiterTypes
<1>3. Earlier' = Earlier + Limit /\ Earlier \in Nat
    BY <1>1, <1>2, EarlierGrows, EarlierIsNat
<1>4. ASSUME NEW a \in Addresses, NEW u \in 0..MaxTime
      PROVE  Allowance(a, u) <= Allowance(a, u)'
  <2>1. Allowance(a, u)' = Earlier + Limit
      BY <1>1, <1>3 DEF Allowance
  <2>2. Spent(a) \in 0..Limit
      BY <1>2, SpentBounds
  <2>3. /\ Earlier <= Earlier + Limit /\ Earlier + Spent(a) <= Earlier + Limit
        /\ Spent(a) - 1 <= Earlier + Limit
      BY <1>2, <1>3, <2>2
  <2> QED
      BY <2>1, <2>3, Zenon DEF Allowance
<1>5. \A a \in Addresses : resetTime'[a] = 0
    BY <1>1
<1>6. now <= now'
    BY <1>1, <1>2
<1> QED
    BY <1>1, <1>4, <1>5, <1>6, WindowKept, AllowanceIsInt, AllowanceIsIntPrimed

\* Who is admitted is one more since every u up to now.
LEMMA OneMoreWithin ==
    ASSUME NEW r \in Requests, admitted' = [admitted EXCEPT ![r] = now], NEW a, NEW u,
           admitted \in [Requests -> Int]
    PROVE  Cardinality(Within(a, u)') <=
              Cardinality(Within(a, u)) + (IF a = Address[r] THEN 1 ELSE 0)
PROOF
<1>1. IsFiniteSet(Within(a, u)) /\ Cardinality(Within(a, u)) \in Nat
      /\ Cardinality(Within(a, u)') \in Nat
    BY WithinIsFinite
<1>2. CASE a = Address[r]
  <2>1. Within(a, u)' \subseteq Within(a, u) \union {r}
      BY DEF Within
  <2>2. /\ IsFiniteSet(Within(a, u) \union {r})
        /\ Cardinality(Within(a, u) \union {r}) <= Cardinality(Within(a, u)) + 1
        /\ Cardinality(Within(a, u) \union {r}) \in Nat
    <3>1. /\ IsFiniteSet(Within(a, u) \union {r})
          /\ Cardinality(Within(a, u) \union {r}) =
                IF r \in Within(a, u) THEN Cardinality(Within(a, u))
                                     ELSE Cardinality(Within(a, u)) + 1
        BY <1>1, FS_AddElement, Zenon
    <3> QED
        BY <1>1, <3>1
  <2>3. Cardinality(Within(a, u)') <= Cardinality(Within(a, u) \union {r})
      BY <2>1, <2>2, FS_Subset
  <2> QED
      BY <1>1, <1>2, <2>2, <2>3
<1>3. CASE a # Address[r]
  <2>1. Within(a, u)' = Within(a, u)
      BY <1>3 DEF Within
  <2> QED
      BY <1>1, <1>3, <2>1
<1> QED
    BY <1>2, <1>3

\* Nobody is admitted at a time that is still to come.
LEMMA NothingLater ==
    ASSUME TypeOK', \A r \in Requests : admitted'[r] <= now', NEW a, NEW u \in Nat, u > now'
    PROVE  Cardinality(Within(a, u)') = 0
PROOF
<1>1. now' \in Nat /\ \A r \in Requests : admitted'[r] \in Int
    BY GatewayConstants DEF TypeOK
<1>2. Within(a, u)' = {}
    BY <1>1 DEF Within
<1> QED
    BY <1>2, FS_EmptySet

\* A hit keeps the window in bounds: the first request after the end of a window adds
\* one to what the window before it has admitted, every other one is within the limit.
LEMMA HitWindow ==
    ASSUME TypeOK, TypeOK', WindowInv, NEW r \in Requests, CountHit(r),
           now' = now, restarts' = restarts
    PROVE  WindowInv'
PROOF
<1> DEFINE a == Address[r]
<1>1. a \in Addresses
    BY RouteTypes
<1>2. /\ now \in Nat /\ now \in 0..MaxTime
      /\ Limit \in Nat /\ Limit >= 1 /\ Window \in Nat /\ Window >= 1 /\ MaxTime \in Nat
      /\ restarts \in Nat
      /\ \A b \in Addresses : hits[b] \in Nat /\ resetTime[b] \in Nat
      /\ \A q \in Requests : admitted[q] \in -1..MaxTime
    BY LimiterTypes
<1>3. /\ hits' = [hits EXCEPT ![a] = HitsNow(a)]
      /\ resetTime' = IF Expired(a) THEN [resetTime EXCEPT ![a] = now + Window] ELSE resetTime
      /\ admitted' = IF Limited(a) THEN admitted ELSE [admitted EXCEPT ![r] = now]
    BY DEF CountHit
<1>4. LimiterOK /\ hits \in [Addresses -> Nat] /\ resetTime \in [Addresses -> Nat]
      /\ admitted \in [Requests -> Int]
    BY TypeParts, GatewayConstants, RequestsFinite DEF LimiterOK
<1>5. Earlier' = Earlier /\ Earlier \in Nat /\ Earlier >= Limit - 1
    BY <1>2, EarlierIsNat DEF Earlier
<1>6. /\ hits'[a] = HitsNow(a)
      /\ \A b \in Addresses \ {a} : hits'[b] = hits[b] /\ resetTime'[b] = resetTime[b]
    BY <1>1, <1>3, <1>4
<1>7. \A q \in Requests : admitted'[q] <= now'
  <2> TAKE q \in Requests
  <2>1. admitted[q] <= now
      BY DEF WindowInv
  <2>2. admitted'[q] = admitted[q] \/ admitted'[q] = now
      BY <1>3, <1>4
  <2> QED
      BY <1>2, <2>1, <2>2
<1>8. ASSUME NEW b \in Addresses \ {a}
      PROVE  /\ resetTime'[b] > 0 => hits'[b] >= 1 /\ resetTime'[b] <= now' + Window
             /\ \A u \in 0..MaxTime :
                   now' < u + Window => Cardinality(Within(b, u)') <= Allowance(b, u)'
  <2>1. resetTime'[b] > 0 => hits'[b] >= 1 /\ resetTime'[b] <= now' + Window
      BY <1>6 DEF WindowInv
  <2>2. ASSUME NEW u \in 0..MaxTime, now' < u + Window
        PROVE  Cardinality(Within(b, u)') <= Allowance(b, u)'
    <3>1. Within(b, u)' = Within(b, u)
        BY <1>3, <1>4 DEF Within
    <3>2. Allowance(b, u)' = Allowance(b, u)
        BY <1>5, <1>6 DEF Allowance, Spent
    <3>3. Cardinality(Within(b, u)) <= Allowance(b, u)
        BY <2>2 DEF WindowInv
    <3> QED
        BY <3>1, <3>2, <3>3
  <2> QED
      BY <2>1, <2>2
<1>9. CASE Expired(a)
  <2>1. hits'[a] = 1 /\ resetTime'[a] = now + Window /\ ~Limited(a)
      BY <1>1, <1>2, <1>3, <1>4, <1>6, <1>9 DEF HitsNow, Limited
  <2>2. Spent(a)' = 1
      BY <1>2, <2>1 DEF Spent
  <2>3. ASSUME NEW u \in 0..MaxTime, now' < u + Window
        PROVE  Cardinality(Within(a, u)') <= Allowance(a, u)'
    <3>1. CASE u <= now
      <4>1. Allowance(a, u)' = Earlier + 1
          BY <1>2, <1>5, <2>1, <2>2, <3>1 DEF Allowance
      <4>2. Cardinality(Within(a, u)) <= Allowance(a, u)
          BY <1>1, <2>3 DEF WindowInv
      <4>3. Allowance(a, u) <= Earlier
        <5>1. resetTime[a] <= now
            BY <1>9 DEF Expired
        <5>2. resetTime[a] < u + Window
            BY <1>1, <1>2, <2>3, <5>1
        <5>3. Spent(a) - 1 <= Earlier
            BY <1>1, <1>2, <1>5, SpentBounds
        <5>4. Allowance(a, u) = Earlier \/ Allowance(a, u) = Spent(a) - 1
            BY <1>1, <1>2, <5>2 DEF Allowance
        <5> QED
            BY <1>5, <5>3, <5>4
      <4>4. Cardinality(Within(a, u)') <= Cardinality(Within(a, u)) + 1
          BY <1>3, <1>4, <2>1, OneMoreWithin
      <4>5. Cardinality(Within(a, u)) \in Nat /\ Cardinality(Within(a, u)') \in Nat
            /\ Allowance(a, u) \in Int
          BY <1>1, WithinIsFinite, AllowanceIsInt
      <4> QED
          BY <1>5, <4>1, <4>2, <4>3, <4>4, <4>5
    <3>2. CASE u > now
      <4>1. Cardinality(Within(a, u)') = 0
          BY <1>2, <1>7, <3>2, NothingLater
      <4>2. Allowance(a, u)' = 0
          BY <1>2, <2>1, <2>2, <3>2 DEF Allowance
      <4> QED
          BY <4>1, <4>2
    <3> QED
        BY <1>2, <3>1, <3>2
  <2>4. resetTime'[a] > 0 => hits'[a] >= 1 /\ resetTime'[a] <= now' + Window
      BY <1>2, <2>1
  <2> QED
      BY <1>7, <1>8, <2>3, <2>4 DEF WindowInv
<1>10. CASE ~Expired(a)
  <2>1. hits'[a] = hits[a] + 1 /\ resetTime'[a] = resetTime[a] /\ resetTime[a] > now
      BY <1>1, <1>2, <1>3, <1>6, <1>10 DEF HitsNow, Expired
  <2>2. hits[a] >= 1 /\ resetTime[a] <= now + Window
      BY <1>1, <1>2, <2>1 DEF WindowInv
  <2>3. ASSUME NEW u \in 0..MaxTime, now' < u + Window
        PROVE  Cardinality(Within(a, u)') <= Allowance(a, u)'
    <3>1. Cardinality(Within(a, u)) <= Allowance(a, u)
        BY <1>1, <2>3 DEF WindowInv
    <3>2. /\ Cardinality(Within(a, u)) \in Nat /\ Cardinality(Within(a, u)') \in Nat
          /\ Allowance(a, u) \in Int /\ Allowance(a, u)' \in Int
        BY <1>1, WithinIsFinite, AllowanceIsInt, AllowanceIsIntPrimed
    <3>3. Spent(a) \in Nat /\ Spent(a)' \in Nat
        BY <1>1, <1>2, <2>1 DEF Spent
    <3>4. CASE Limited(a)
      <4>1. Within(a, u)' = Within(a, u)
          BY <1>3, <3>4 DEF Within
      <4>2. Spent(a) <= Spent(a)'
          BY <1>1, <1>2, <2>1 DEF Spent
      <4>3. Allowance(a, u) <= Allowance(a, u)'
          BY <1>1, <1>2, <1>5, <2>1, <3>3, <4>2 DEF Allowance
      <4> QED
          BY <3>1, <3>2, <4>1, <4>3
    <3>5. CASE ~Limited(a)
      <4>1. Spent(a)' = Spent(a) + 1
          BY <1>1, <1>2, <1>10, <2>1, <3>5 DEF Spent, Limited, HitsNow
      <4>2. Allowance(a, u)' = Allowance(a, u) + 1
          BY <1>1, <1>2, <1>5, <2>1, <3>3, <4>1 DEF Allowance
      <4>3. Cardinality(Within(a, u)') <= Cardinality(Within(a, u)) + 1
          BY <1>3, <1>4, <3>5, OneMoreWithin
      <4> QED
          BY <3>1, <3>2, <4>2, <4>3
    <3> QED
        BY <3>4, <3>5
  <2>4. resetTime'[a] > 0 => hits'[a] >= 1 /\ resetTime'[a] <= now' + Window
      BY <1>1, <1>2, <2>1, <2>2
  <2> QED
      BY <1>7, <1>8, <2>3, <2>4 DEF WindowInv
<1> QED
    BY <1>9, <1>10

LEMMA WindowInductive ==
    ASSUME TypeOK, TypeOK', WindowInv, [Next]_vars
    PROVE  WindowInv'
PROOF
<1>1. now \in Nat /\ restarts \in Nat
    BY LimiterTypes
<1>2. ASSUME NEW r \in Requests, Receive(r)
      PROVE  WindowInv'
  <2>1. now' = now /\ restarts' = restarts
      BY <1>2 DEF Receive
  <2>2. CASE CountHit(r)
      BY <2>1, <2>2, HitWindow
  <2>3. CASE UNCHANGED limiterVars
      BY <1>1, <2>1, <2>3, WindowUntouched
  <2> QED
      BY <1>2, <2>2, <2>3, Zenon DEF Receive, Pass
<1>3. ASSUME NEW r \in Requests, Settle(r)
      PROVE  WindowInv'
  <2>1. Settled
      BY <1>3 DEF Settle, ProxyAnswers, ProxyFails, CheckFails, CheckAnswers, EndFanOut
  <2> QED
      BY <1>1, <2>1, WindowUntouched DEF Settled
<1>4. CASE Tick
    BY <1>1, <1>4, WindowUntouched DEF Tick
<1>5. ASSUME NEW s \in Services, NEW to \in ServiceStates, ServiceChanges(s, to)
      PROVE  WindowInv'
    BY <1>1, <1>5, WindowUntouched DEF ServiceChanges
<1>6. CASE Restart
    BY <1>6, RestartWindow
<1>7. CASE UNCHANGED vars
    BY <1>1, <1>7, WindowUntouched DEF vars
<1> QED
    BY <1>2, <1>3, <1>4, <1>5, <1>6, <1>7, Zenon DEF Next

\* The interval of the property begins at some u.
LEMMA WindowBounds ==
    ASSUME TypeOK, WindowInv
    PROVE  RateBounded
PROOF
<1> SUFFICES ASSUME NEW a \in Addresses
            PROVE  Cardinality(LatelyAdmitted(a)) < (2 + restarts) * Limit
    BY DEF RateBounded
<1>1. /\ now \in Nat /\ now \in 0..MaxTime
      /\ Limit \in Nat /\ Limit >= 1 /\ Window \in Nat /\ Window >= 1 /\ MaxTime \in Nat
      /\ restarts \in Nat /\ hits[a] \in Nat /\ resetTime[a] \in Nat
      /\ \A q \in Requests : admitted[q] \in -1..MaxTime
    BY LimiterTypes
<1>2. PICK u \in 0..MaxTime :
         /\ now < u + Window
         /\ \A t \in Int : t >= 0 /\ now < t + Window => t >= u
  <2>1. CASE now < Window
    <3>1. 0 \in 0..MaxTime /\ now < 0 + Window
        BY <1>1, <2>1
    <3> QED
        BY <3>1
  <2>2. CASE now >= Window
    <3>1. now - Window + 1 \in 0..MaxTime /\ now < (now - Window + 1) + Window
          /\ \A t \in Int : now < t + Window => t >= now - Window + 1
        BY <1>1, <2>2
    <3> QED
        BY <3>1
  <2> QED
      BY <1>1, <2>1, <2>2
<1>3. LatelyAdmitted(a) \subseteq Within(a, u)
  <2> SUFFICES ASSUME NEW q \in LatelyAdmitted(a)
              PROVE  q \in Within(a, u)
      OBVIOUS
  <2>1. q \in Requests /\ Address[q] = a /\ admitted[q] >= 0 /\ now < admitted[q] + Window
      BY DEF LatelyAdmitted
  <2>2. admitted[q] \in Int
      BY <1>1, <2>1
  <2>3. admitted[q] >= u
      BY <1>2, <2>1, <2>2
  <2> QED
      BY <2>1, <2>3 DEF Within
<1>4. IsFiniteSet(Within(a, u)) /\ Cardinality(Within(a, u)) \in Nat
    BY WithinIsFinite
<1>5. Cardinality(LatelyAdmitted(a)) <= Cardinality(Within(a, u))
    BY <1>3, <1>4, FS_Subset
<1>6. Cardinality(Within(a, u)) <= Allowance(a, u)
    BY <1>2 DEF WindowInv
<1>7. Allowance(a, u) <= Earlier + Limit
  <2>1. Spent(a) \in 0..Limit /\ Earlier \in Nat
      BY <1>1, SpentBounds, EarlierIsNat
  <2>2. /\ Earlier <= Earlier + Limit /\ Earlier + Spent(a) <= Earlier + Limit
        /\ Spent(a) - 1 <= Earlier + Limit
      BY <1>1, <2>1
  <2> QED
      BY <2>2, Zenon DEF Allowance
<1>8. (2 + restarts) * Limit = Earlier + Limit + 1
  <2>1. (2 + restarts) * Limit = restarts * Limit + Limit + Limit
      BY <1>1
  <2>2. restarts * Limit \in Nat
      BY <1>1, ProductIsNat
  <2> QED
      BY <1>1, <2>1, <2>2 DEF Earlier
<1>9. /\ Cardinality(LatelyAdmitted(a)) \in Nat /\ Earlier + Limit \in Nat
      /\ Allowance(a, u) \in Int
  <2>1. Cardinality(LatelyAdmitted(a)) \in Nat
      BY SubsetOfRequests DEF LatelyAdmitted
  <2> QED
      BY <1>1, <2>1, EarlierIsNat, AllowanceIsInt
<1> QED
    BY <1>4, <1>5, <1>6, <1>7, <1>8, <1>9

\* The rate limiter lets less than twice the limit through in any interval as long as a
\* window, for any limit, window and requests, and one limit more for each restart;
\* however often services change meanwhile.
THEOREM RateIsBounded == Spec => []RateBounded
PROOF
<1>1. Init => TypeOK /\ HitsInv /\ WindowInv
    BY InitTypes, InitHits, InitWindow
<1>2. TypeOK /\ HitsInv /\ WindowInv /\ [Next]_vars => (TypeOK /\ HitsInv /\ WindowInv)'
  <2> SUFFICES ASSUME TypeOK, HitsInv, WindowInv, [Next]_vars
              PROVE  (TypeOK /\ HitsInv /\ WindowInv)'
      OBVIOUS
  <2>1. TypeOK' /\ HitsInv'
      BY TypesInductive
  <2> QED
      BY <2>1, WindowInductive
<1>3. TypeOK /\ HitsInv /\ WindowInv => RateBounded
    BY WindowBounds
<1> QED
    BY <1>1, <1>2, <1>3, PTL DEF Spec

-----------------------------------------------------------------------------
(* The health check and the lists of a query.                               *)

LEMMA InitFanOut == Init => FanOutInv
PROOF
    BY DEF Init, FanOutInv, FanOutKept

\* A request whose own variables do not change, while no service does.
LEMMA OthersKept ==
    ASSUME FanOutInv, service' = service, NEW q \in Requests, phase'[q] = phase[q],
           asked'[q] = asked[q], failed'[q] = failed[q],
           seenUp'[q] = seenUp[q], seenBad'[q] = seenBad[q]
    PROVE  FanOutKept(q)'
PROOF
<1>1. Up' = Up
    BY DEF Up
<1>2. FanOutOf(q)' = FanOutOf(q)
    BY DEF FanOutOf
<1>3. FanOutKept(q)
    BY DEF FanOutInv
<1> QED
    BY <1>1, <1>2, <1>3 DEF FanOutKept

LEMMA ReceiveFanOut ==
    ASSUME TypeOK, FanOutInv, NEW r \in Requests, Receive(r)
    PROVE  FanOutInv'
PROOF
<1>1. RequestsOK /\ phase[r] = "idle" /\ service' = service
    BY TypeParts DEF Receive
<1>2. CASE FanOut(r)
  <2>1. ASSUME NEW q \in Requests \ {r}
        PROVE  FanOutKept(q)'
    <3>1. /\ phase'[q] = phase[q] /\ asked'[q] = asked[q] /\ failed'[q] = failed[q]
          /\ seenUp'[q] = seenUp[q] /\ seenBad'[q] = seenBad[q]
        BY <1>1, <1>2 DEF FanOut, RequestsOK
    <3> QED
        BY <1>1, <3>1, OthersKept
  <2>2. FanOutKept(r)'
    <3>1. /\ phase'[r] = "fanOut" /\ asked'[r] = FanOutOf(r) /\ failed'[r] = failed[r]
          /\ seenUp'[r] = Up \intersect FanOutOf(r) /\ seenBad'[r] = FanOutOf(r) \ Up
        BY <1>1, <1>2 DEF FanOut, RequestsOK
    <3>2. Up' = Up /\ FanOutOf(r)' = FanOutOf(r)
        BY <1>1 DEF Up, FanOutOf
    <3>3. failed[r] = {}
        BY <1>1 DEF FanOutInv, FanOutKept
    <3> QED
        BY <3>1, <3>2, <3>3 DEF FanOutKept
  <2> QED
      BY <2>1, <2>2 DEF FanOutInv
<1>3. ASSUME NEW to \in {"answered", "proxied"}, phase' = [phase EXCEPT ![r] = to],
             \A q \in Requests \ {r} : asked'[q] = asked[q],
             UNCHANGED <<failed, seenUp, seenBad>>
      PROVE  FanOutInv'
  <2>1. ASSUME NEW q \in Requests \ {r}
        PROVE  FanOutKept(q)'
    <3>1. /\ phase'[q] = phase[q] /\ asked'[q] = asked[q] /\ failed'[q] = failed[q]
          /\ seenUp'[q] = seenUp[q] /\ seenBad'[q] = seenBad[q]
        BY <1>1, <1>3 DEF RequestsOK
    <3> QED
        BY <1>1, <3>1, OthersKept
  <2>2. phase'[r] # "idle" /\ phase'[r] # "fanOut"
      BY <1>1, <1>3 DEF RequestsOK
  <2>3. FanOutKept(r)'
      BY <2>2 DEF FanOutKept
  <2> QED
      BY <2>1, <2>3 DEF FanOutInv
<1>4. ASSUME NEW code, Answer(r, code)
      PROVE  FanOutInv'
    BY <1>3, <1>4, Zenon DEF Answer, Answered
<1>5. CASE loginHandler(r)
    BY <1>3, <1>4, <1>5, Zenon DEF loginHandler, Answered
<1>6. CASE Proxy(r)
  <2>1. \A q \in Requests \ {r} : asked'[q] = asked[q]
      BY <1>1, <1>6 DEF Proxy, RequestsOK
  <2> QED
      BY <1>3, <1>6, <2>1, Zenon DEF Proxy
<1>7. CASE Pass(r)
    BY <1>2, <1>4, <1>5, <1>6, <1>7, Zenon DEF Pass, Dispatch, queryHandler
<1> QED
    BY <1>4, <1>7, Zenon DEF Receive, errorHandler

LEMMA SettleFanOut ==
    ASSUME TypeOK, FanOutInv, NEW r \in Requests, Settle(r)
    PROVE  FanOutInv'
PROOF
<1>1. RequestsOK
    BY TypeParts
<1>2. service' = service
    BY DEF Settle, ProxyAnswers, ProxyFails, CheckFails, CheckAnswers, EndFanOut, Settled
<1>3. Up' = Up /\ FanOutOf(r)' = FanOutOf(r) /\ FanOutOf(r) \in SUBSET Services
    BY <1>2, RouteTypes DEF Up, FanOutOf
<1>4. ASSUME NEW q \in Requests \ {r}
      PROVE  FanOutKept(q)'
  <2>1. /\ phase'[q] = phase[q] /\ asked'[q] = asked[q] /\ failed'[q] = failed[q]
        /\ seenUp'[q] = seenUp[q] /\ seenBad'[q] = seenBad[q]
      BY <1>1 DEF Settle, ProxyAnswers, ProxyFails, CheckFails, CheckAnswers, EndFanOut,
                  Answered, Seen, RequestsOK
  <2> QED
      BY <1>2, <2>1, OthersKept
<1>5. FanOutKept(r)
    BY DEF FanOutInv
<1>6. CASE ProxyAnswers(r) \/ ProxyFails(r) \/ EndFanOut(r)
  <2>1. phase'[r] = "answered"
      BY <1>1, <1>6 DEF ProxyAnswers, ProxyFails, EndFanOut, Answered, RequestsOK
  <2>2. FanOutKept(r)'
      BY <2>1 DEF FanOutKept
  <2> QED
      BY <1>4, <2>2 DEF FanOutInv
<1>7. ASSUME NEW s \in Services, CheckFails(r, s)
      PROVE  FanOutInv'
  <2>1. /\ phase'[r] = "fanOut" /\ phase[r] = "fanOut" /\ s \in asked[r] /\ s \notin Up
        /\ asked'[r] = asked[r] \ {s} /\ failed'[r] = failed[r] \union {s}
        /\ seenUp'[r] = seenUp[r] /\ seenBad'[r] = seenBad[r]
      BY <1>1, <1>7 DEF CheckFails, Fails, Emptied, Seen, Up, RequestsOK
  <2>2. s \in seenBad[r]
      BY <1>5, <2>1 DEF FanOutKept
  <2>3. FanOutKept(r)'
      BY <1>3, <1>5, <2>1, <2>2 DEF FanOutKept
  <2> QED
      BY <1>4, <2>3 DEF FanOutInv
<1>8. ASSUME NEW s \in Services, CheckAnswers(r, s)
      PROVE  FanOutInv'
  <2>1. /\ phase'[r] = "fanOut" /\ phase[r] = "fanOut" /\ s \in asked[r] /\ s \in Up
        /\ asked'[r] = asked[r] \ {s} /\ failed'[r] = failed[r]
        /\ seenUp'[r] = seenUp[r] /\ seenBad'[r] = seenBad[r]
      BY <1>1, <1>8 DEF CheckAnswers, Seen, Up, RequestsOK
  <2>2. s \in seenUp[r]
      BY <1>5, <2>1 DEF FanOutKept
  <2>3. FanOutKept(r)'
      BY <1>3, <1>5, <2>1, <2>2 DEF FanOutKept
  <2> QED
      BY <1>4, <2>3 DEF FanOutInv
<1> QED
    BY <1>6, <1>7, <1>8 DEF Settle

\* A service that changes is noted before the request can rely on it.
LEMMA ServiceChangesFanOut ==
    ASSUME TypeOK, FanOutInv, NEW s \in Services, NEW to \in ServiceStates, ServiceChanges(s, to)
    PROVE  FanOutInv'
PROOF
<1> SUFFICES ASSUME NEW r \in Requests
            PROVE  FanOutKept(r)'
    BY DEF FanOutInv
<1>1. RequestsOK /\ service \in [Services -> ServiceStates]
    BY TypeParts
<1>2. FanOutKept(r) /\ FanOutOf(r)' = FanOutOf(r) /\ phase' = phase
    BY DEF FanOutInv, FanOutOf, ServiceChanges
<1>3. service' = [service EXCEPT ![s] = to]
    BY DEF ServiceChanges
<1>4. /\ s \in Up' <=> to = "up"
      /\ \A t \in Services \ {s} : t \in Up' <=> t \in Up
    BY <1>1, <1>3 DEF Up
<1>5. FanOutOf(r) \in SUBSET Services
    BY RouteTypes
<1>6. CASE phase[r] = "idle"
  <2>1. failed'[r] = failed[r]
      BY <1>6 DEF ServiceChanges
  <2> QED
      BY <1>2, <1>6, <2>1 DEF FanOutKept
<1>7. CASE phase[r] = "fanOut"
  <2>1. /\ asked[r] \subseteq FanOutOf(r)
        /\ failed[r] \subseteq seenBad[r]
        /\ FanOutOf(r) \ (asked[r] \union failed[r]) \subseteq seenUp[r]
        /\ FanOutOf(r) \intersect Up \subseteq seenUp[r]
        /\ FanOutOf(r) \ Up \subseteq seenBad[r]
      BY <1>2, <1>7 DEF FanOutKept
  <2>2. CASE to = "up"
    <3>1. /\ seenUp'[r] = seenUp[r] \union ({s} \intersect FanOutOf(r))
          /\ seenBad'[r] = seenBad[r] /\ asked'[r] = asked[r] /\ failed'[r] = failed[r]
        BY <1>7, <2>2 DEF ServiceChanges
    <3>2. /\ FanOutOf(r) \intersect Up' \subseteq seenUp'[r]
          /\ FanOutOf(r) \ Up' \subseteq seenBad'[r]
        BY <1>4, <1>5, <2>1, <2>2, <3>1
    <3> QED
        BY <1>2, <1>7, <2>1, <3>1, <3>2 DEF FanOutKept
  <2>3. CASE to # "up"
    <3>1. /\ seenBad'[r] = seenBad[r] \union ({s} \intersect FanOutOf(r))
          /\ seenUp'[r] = seenUp[r]
        BY <1>7, <2>3 DEF ServiceChanges
    <3>2. /\ FanOutOf(r) \intersect Up' \subseteq seenUp'[r]
          /\ FanOutOf(r) \ Up' \subseteq seenBad'[r]
        BY <1>4, <1>5, <2>1, <2>3, <3>1
    <3>3. /\ asked'[r] \subseteq asked[r] /\ failed[r] \subseteq failed'[r]
          /\ failed'[r] \subseteq failed[r] \union (asked[r] \intersect {s})
          /\ asked[r] \subseteq asked'[r] \union failed'[r]
        BY <1>7 DEF ServiceChanges
    <3>4. failed'[r] \subseteq seenBad'[r]
        BY <2>1, <3>1, <3>3
    <3>5. FanOutOf(r) \ (asked'[r] \union failed'[r]) \subseteq seenUp'[r]
        BY <2>1, <3>1, <3>3
    <3>6. asked'[r] \subseteq FanOutOf(r)
        BY <2>1, <3>3
    <3> QED
        BY <1>2, <1>7, <3>2, <3>4, <3>5, <3>6 DEF FanOutKept
  <2> QED
      BY <2>2, <2>3
<1> QED
    BY <1>2, <1>6, <1>7 DEF FanOutKept

LEMMA FanOutInductive ==
    ASSUME TypeOK, FanOutInv, [Next]_vars
    PROVE  FanOutInv'
PROOF
<1>1. CASE \E r \in Requests : Receive(r) \/ Settle(r)
    BY <1>1, ReceiveFanOut, SettleFanOut
<1>2. CASE Tick \/ UNCHANGED vars
  <2>1. UNCHANGED <<phase, asked, failed, seenUp, seenBad, service>>
      BY <1>2 DEF Tick, vars, requestVars
  <2> QED
      BY <2>1, OthersKept DEF FanOutInv
<1>3. CASE \E s \in Services, to \in ServiceStates : ServiceChanges(s, to)
    BY <1>3, ServiceChangesFanOut
<1>4. CASE Restart
  <2>1. \A r \in Requests : failed'[r] = {} /\ phase'[r] # "fanOut"
      BY <1>4 DEF Restart
  <2> QED
      BY <2>1 DEF FanOutInv, FanOutKept
<1> QED
    BY <1>1, <1>2, <1>3, <1>4, Zenon DEF Next

\* A fan out ends by EndFanOut only.
LEMMA EndsByAnswer ==
    ASSUME TypeOK, [Next]_vars, NEW r \in Requests, Ends(r)
    PROVE  EndFanOut(r)
PROOF
<1>1. RequestsOK /\ phase[r] = "fanOut" /\ phase'[r] = "answered"
    BY TypeParts DEF Ends
<1>2. phase'[r] # phase[r]
    BY <1>1
<1>3. CASE \E q \in Requests : Receive(q)
  <2>1. PICK q \in Requests : Receive(q)
      BY <1>3
  <2>2. q # r
      BY <1>1, <2>1 DEF Receive
  <2>3. phase'[r] = phase[r]
      BY <2>1, <2>2, ReceiveArrives DEF Arrives
  <2> QED
      BY <1>2, <2>3
<1>4. CASE \E q \in Requests : Settle(q)
  <2>1. PICK q \in Requests : Settle(q)
      BY <1>4
  <2>2. CASE q # r
    <3>1. phase'[r] = phase[r]
        BY <1>1, <2>1, <2>2 DEF Settle, ProxyAnswers, ProxyFails, CheckFails, CheckAnswers,
                                EndFanOut, Answered, RequestsOK
    <3> QED
        BY <1>2, <3>1
  <2>3. CASE q = r
      BY <1>1, <1>2, <2>1, <2>3 DEF Settle, ProxyAnswers, ProxyFails, CheckFails, CheckAnswers
  <2> QED
      BY <2>2, <2>3
<1>5. CASE Tick \/ UNCHANGED vars \/ \E s \in Services, to \in ServiceStates : ServiceChanges(s, to)
  <2>1. phase' = phase
      BY <1>5 DEF Tick, vars, requestVars, ServiceChanges
  <2> QED
      BY <1>2, <2>1
<1>6. CASE Restart
    BY <1>1, <1>6 DEF Restart
<1> QED
    BY <1>3, <1>4, <1>5, <1>6, Zenon DEF Next

LEMMA FanOutStep ==
    ASSUME TypeOK, FanOutInv, [Next]_vars, NEW r \in Requests, Ends(r)
    PROVE  /\ Route[r].kind = "health" =>
                 IF status'[r] = 200 THEN seenUp[r] = Services ELSE seenBad[r] # {}
           /\ Route[r].kind = "query" =>
                 failed[r] \subseteq seenBad[r] /\ Route[r].asks \ failed[r] \subseteq seenUp[r]
PROOF
<1>1. EndFanOut(r) /\ RequestsOK
    BY EndsByAnswer, TypeParts
<1>2. phase[r] = "fanOut" /\ asked[r] = {}
    BY <1>1 DEF EndFanOut
<1>3. failed[r] \subseteq seenBad[r] /\ FanOutOf(r) \ failed[r] \subseteq seenUp[r]
    BY <1>2 DEF FanOutInv, FanOutKept
<1>4. CASE Route[r].kind = "health"
  <2>1. status'[r] = HealthStatus(r) /\ FanOutOf(r) = Services
      BY <1>1, <1>4 DEF EndFanOut, Answered, RequestsOK, FanOutOf
  <2>2. seenUp[r] \subseteq Services
      BY <1>1 DEF RequestsOK
  <2>3. CASE failed[r] = {}
    <3>1. Services \subseteq seenUp[r]
        BY <1>3, <2>1, <2>3
    <3>2. seenUp[r] = Services
        BY <2>2, <3>1
    <3> QED
        BY <1>4, <2>1, <2>3, <3>2 DEF HealthStatus
  <2>4. CASE failed[r] # {}
      BY <1>3, <1>4, <2>1, <2>4 DEF HealthStatus
  <2> QED
      BY <2>3, <2>4
<1>5. CASE Route[r].kind = "query"
  <2>1. FanOutOf(r) = Route[r].asks
      BY <1>5 DEF FanOutOf
  <2> QED
      BY <1>3, <1>5, <2>1
<1> QED
    BY <1>4, <1>5

\* /health/all says ok only if every service was up at some time during the check, and
\* otherwise only if one was not, for any services and however they change meanwhile.
THEOREM HealthIsTrue == Spec => HealthFits
PROOF
<1>1. Init => TypeOK /\ HitsInv /\ FanOutInv
    BY InitTypes, InitHits, InitFanOut
<1>2. TypeOK /\ HitsInv /\ FanOutInv /\ [Next]_vars => (TypeOK /\ HitsInv /\ FanOutInv)'
    BY TypesInductive, FanOutInductive
<1>3. TypeOK /\ FanOutInv /\ [Next]_vars =>
        [\A r \in Requests : Ends(r) /\ Route[r].kind = "health" =>
            IF status'[r] = 200 THEN seenUp[r] = Services ELSE seenBad[r] # {}]_vars
    BY FanOutStep
<1> QED
    BY <1>1, <1>2, <1>3, PTL DEF Spec, HealthFits

\* A list of a query is empty for want of an answer only if its own service was not up
\* at some time of the query, and otherwise has an answer of one that was.
THEOREM ListsAreTrue == Spec => ListsFit
PROOF
<1>1. Init => TypeOK /\ HitsInv /\ FanOutInv
    BY InitTypes, InitHits, InitFanOut
<1>2. TypeOK /\ HitsInv /\ FanOutInv /\ [Next]_vars => (TypeOK /\ HitsInv /\ FanOutInv)'
    BY TypesInductive, FanOutInductive
<1>3. TypeOK /\ FanOutInv /\ [Next]_vars =>
        [\A r \in Requests : Ends(r) /\ Route[r].kind = "query" =>
            failed[r] \subseteq seenBad[r] /\ Route[r].asks \ failed[r] \subseteq seenUp[r]]_vars
    BY FanOutStep
<1> QED
    BY <1>1, <1>2, <1>3, PTL DEF Spec, ListsFit
=============================================================================

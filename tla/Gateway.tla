------------------------------ MODULE Gateway -------------------------------
(***************************************************************************)
(* The API gateway: the chain of middleware every request goes through,    *)
(* the window of the rate limiter, tokens that expire, requests that are   *)
(* proxied to a service, and requests for which the gateway itself asks    *)
(* services: /health/all and the GraphQL queries.                          *)
(*                                                                         *)
(* The chain up to the answer, the proxied request or the calls of a fan   *)
(* out runs without giving the event loop away, so it is one action.       *)
(***************************************************************************)
EXTENDS Integers, FiniteSets

CONSTANTS
    Requests,   \* the requests of a behaviour
    Address,    \* the client IP each request comes from
    User,       \* the user whose token it carries, or whose password it sends
    Route,      \* what it asks for: its kind, and the services that this concerns
    Garbled,    \* the requests whose body express.json may fail to read
    Admins,     \* the users with the role admin
    Services,   \* the services behind the gateway
    Limit,      \* RATE_LIMIT_PER_MINUTE
    Window,     \* the length of a window of the limiter
    Lifetime,   \* how long a token is valid
    MaxTime,    \* bound: the end of time
    MaxChanges  \* bound: how often services change or the gateway restarts, in all

Proxied == {"public", "signedIn", "admin"}

FansOut == {"health", "query"}
Kinds == Proxied \union FansOut \union {"login", "me", "status"}

ASSUME GatewayConstants ==
    /\ IsFiniteSet(Requests)
    /\ Route \in [Requests -> [kind : Kinds, asks : SUBSET Services]]
    /\ Garbled \subseteq Requests
    /\ DOMAIN Address = Requests /\ DOMAIN User = Requests
    /\ Limit \in Nat \ {0} /\ Window \in Nat \ {0} /\ Lifetime \in Nat \ {0}
    /\ MaxTime \in Nat /\ MaxChanges \in Nat

Addresses == {Address[r] : r \in Requests}
Users == {User[r] : r \in Requests}

VARIABLES
    now,        \* the time
    hits,       \* the requests the limiter has counted in the window of an address
    resetTime,  \* when that window ends
    expiry,     \* when the token of a user expires; 0: the user has none
    phase,      \* how far a request has come
    status,     \* the status it is answered with; 0: none yet
    asked,      \* the services a request has an open call to
    failed,     \* the services whose answer to a fan out was a failure
    service,    \* "up", "down" (refuses), "hung" (never answers), "failing" (with 500)
    admitted,   \* history: when a request passed the limiter; -1: it has not
    seenUp,     \* history: the services that were up at some time in a fan out
    seenBad,    \* history: the services that were not
    changes,    \* how often a service has changed
    restarts    \* how often the gateway has restarted

limiterVars == <<hits, resetTime, admitted>>
requestVars == <<phase, status, asked, failed, seenUp, seenBad>>
vars == <<now, limiterVars, expiry, requestVars, service, changes, restarts>>

ServiceStates == {"up", "down", "hung", "failing"}

TypeOK ==
    /\ now \in 0..MaxTime
    /\ hits \in [Addresses -> 0..Cardinality(Requests)]
    /\ resetTime \in [Addresses -> 0..MaxTime + Window]
    /\ expiry \in [Users -> 0..MaxTime + Lifetime]
    /\ phase \in [Requests -> {"idle", "proxied", "fanOut", "answered", "cut"}]
    /\ status \in [Requests -> {0, 200, 400, 401, 403, 405, 413, 415, 429, 500, 502, 503, 504}]
    /\ asked \in [Requests -> SUBSET Services]
    /\ failed \in [Requests -> SUBSET Services]
    /\ \A r \in Requests :
          /\ status[r] # 0 <=> phase[r] = "answered"
          /\ asked[r] # {} => phase[r] \in {"proxied", "fanOut"}
    /\ service \in [Services -> ServiceStates]
    /\ admitted \in [Requests -> -1..MaxTime]
    /\ seenUp \in [Requests -> SUBSET Services]
    /\ seenBad \in [Requests -> SUBSET Services]
    /\ changes \in 0..MaxChanges
    /\ restarts \in 0..MaxChanges
    /\ changes + restarts <= MaxChanges

Up == {s \in Services : service[s] = "up"}

Init ==
    /\ now = 0
    /\ hits = [a \in Addresses |-> 0]
    /\ resetTime = [a \in Addresses |-> 0]
    /\ expiry \in [Users -> 0..Lifetime]
    /\ phase = [r \in Requests |-> "idle"]
    /\ status = [r \in Requests |-> 0]
    /\ asked = [r \in Requests |-> {}]
    /\ failed = [r \in Requests |-> {}]
    /\ service = [s \in Services |-> "up"]
    /\ admitted = [r \in Requests |-> -1]
    /\ seenUp = [r \in Requests |-> {}]
    /\ seenBad = [r \in Requests |-> {}]
    /\ changes = 0
    /\ restarts = 0

-----------------------------------------------------------------------------
(* The rate limiter: the first request after the end of a window begins the *)
(* next one.  Rejected requests are counted too.                            *)

Expired(a) == resetTime[a] <= now

\* Mutant: the limiter is put in the chain twice.
HitsNowMutant(a) == IF Expired(a) THEN 2 ELSE hits[a] + 2

HitsNow(a) == IF Expired(a) THEN 1 ELSE hits[a] + 1

\* Mutant: the request itself is not counted.
LimitedMutant(a) == HitsNow(a) - 1 > Limit

Limited(a) == HitsNow(a) > Limit

CountHit(r) ==
    LET a == Address[r]
    IN  /\ hits' = [hits EXCEPT ![a] = HitsNow(a)]
        /\ resetTime' = IF Expired(a) THEN [resetTime EXCEPT ![a] = now + Window] ELSE resetTime
        /\ admitted' = IF Limited(a) THEN admitted ELSE [admitted EXCEPT ![r] = now]

-----------------------------------------------------------------------------
(* Authentication and authorization.                                        *)

NeedsNoToken(r) == Route[r].kind \in {"login", "public", "status"}

\* jwt.verify refuses a token from the moment it expires.
SignedIn(r) == expiry[User[r]] > now

MayCreate(r) == User[r] \in Admins

-----------------------------------------------------------------------------
(* Errors. *)

\* The errors of a socket that a proxied request can end with.
SocketErrors ==
    {"ECONNREFUSED", "ECONNRESET", "ENOTFOUND", "EHOSTUNREACH", "ENETUNREACH", "ETIMEDOUT"}

\* The errors of express.json, as far as the mapping tells them apart: the upload was
\* broken off; the text is not JSON, and the message quotes from it a word the mapping
\* looks for; or anything else.
BodyErrors == {"ECONNABORTED", "timeout", "Network", "other"}

\* The callers of axios catch its errors, so that none of them is mapped.
mapErrorToStatusCode(error) ==
    CASE error \in {"ECONNABORTED", "timeout"} -> 504
      [] error \in {"ECONNREFUSED", "EHOSTUNREACH", "ENETUNREACH", "Network"} -> 502
      [] OTHER -> 500

-----------------------------------------------------------------------------
(* The handlers.                                                            *)

\* The products of a GraphQL document are the catalog's, customerOrders the order
\* service's, a customerDashboard that of the orders and the notifications.
FanOutOf(r) == IF Route[r].kind = "health" THEN Services ELSE Route[r].asks

Answered(r, code) ==
    /\ phase' = [phase EXCEPT ![r] = "answered"]
    /\ status' = [status EXCEPT ![r] = code]

Answer(r, code) == Answered(r, code) /\ UNCHANGED <<expiry, asked, failed, seenUp, seenBad>>

errorHandler(r, error) == Answer(r, mapErrorToStatusCode(error))

loginHandler(r) ==
    \/ /\ Answered(r, 200)
       /\ expiry' = [expiry EXCEPT ![User[r]] = now + Lifetime]
       /\ UNCHANGED <<asked, failed, seenUp, seenBad>>
    \/ \E code \in {400, 401} : Answer(r, code)

Proxy(r) ==
    /\ phase' = [phase EXCEPT ![r] = "proxied"]
    /\ asked' = [asked EXCEPT ![r] = Route[r].asks]
    /\ UNCHANGED <<expiry, status, failed, seenUp, seenBad>>

FanOut(r) ==
    /\ phase' = [phase EXCEPT ![r] = "fanOut"]
    /\ asked' = [asked EXCEPT ![r] = FanOutOf(r)]
    /\ seenUp' = [seenUp EXCEPT ![r] = Up \intersect FanOutOf(r)]
    /\ seenBad' = [seenBad EXCEPT ![r] = FanOutOf(r) \ Up]
    /\ UNCHANGED <<expiry, status, failed>>

\* The statuses with which graphqlHTTP refuses a document that it cannot read, that
\* does not fit the schema, or that came with the wrong method.
DocumentErrors == {400, 405, 413, 415}

\* customerDashboard may not be null: if it is that of another customer, its resolver
\* throws, the answer has no data, and its status is 500, whatever else was asked for.
queryHandler(r) ==
    \/ FanOut(r)
    \/ \E code \in DocumentErrors : Answer(r, code)
    \/ Answer(r, 500)

Dispatch(r) ==
    \/ Route[r].kind = "login" /\ loginHandler(r)
    \/ Route[r].kind \in {"me", "status"} /\ Answer(r, 200)
    \/ Route[r].kind \in Proxied \ {"admin"} /\ Proxy(r)
    \/ Route[r].kind = "admin" /\ ~MayCreate(r) /\ Answer(r, 403)
    \/ Route[r].kind = "admin" /\ MayCreate(r) /\ Proxy(r)
    \/ Route[r].kind = "query" /\ queryHandler(r)
    \/ Route[r].kind = "health" /\ FanOut(r)

Pass(r) ==
    /\ CountHit(r)
    /\ \/ Limited(Address[r]) /\ Answer(r, 429)
       \/ ~Limited(Address[r]) /\ ~NeedsNoToken(r) /\ ~SignedIn(r) /\ Answer(r, 401)
       \/ ~Limited(Address[r]) /\ (NeedsNoToken(r) \/ SignedIn(r)) /\ Dispatch(r)

\* express.json comes before the limiter: a body that it cannot read ends in
\* errorHandler, and is not counted.
Receive(r) ==
    /\ phase[r] = "idle"
    /\ \/ Pass(r)
       \/ /\ r \in Garbled
          /\ \E error \in BodyErrors : errorHandler(r, error)
          /\ UNCHANGED limiterVars
    /\ UNCHANGED <<now, service, changes, restarts>>

-----------------------------------------------------------------------------
(* The answers of the services.                                             *)

Settled == UNCHANGED <<now, limiterVars, expiry, service, changes, restarts>>

Seen == UNCHANGED <<seenUp, seenBad>>

\* Whatever a service answers goes back to the client.
ProxyAnswers(r) ==
    /\ phase[r] = "proxied"
    /\ \E s \in asked[r] :
          \/ service[s] = "up" /\ Answered(r, 200)
          \/ service[s] = "failing" /\ Answered(r, 500)
    /\ asked' = [asked EXCEPT ![r] = {}]
    /\ UNCHANGED failed
    /\ Settled /\ Seen

\* The connection is refused, or was open and has broken.
ProxyFails(r) ==
    /\ phase[r] = "proxied"
    /\ \A s \in asked[r] : service[s] = "down"
    /\ \E error \in SocketErrors : Answered(r, mapErrorToStatusCode(error))
    /\ asked' = [asked EXCEPT ![r] = {}]
    /\ UNCHANGED failed
    /\ Settled /\ Seen

\* Mutant: axios.get without a timeout.
FailsMutant(s) == service[s] \in {"down", "failing"}

\* A service refuses, answers with an error, or does not answer for five seconds.
Fails(s) == service[s] # "up"

\* Mutant: one catch around all the calls of a document.
EmptiedMutant(r, s) == FanOutOf(r)

Emptied(r, s) == {s}

CheckFails(r, s) ==
    /\ phase[r] = "fanOut"
    /\ s \in asked[r] /\ Fails(s)
    /\ asked' = [asked EXCEPT ![r] = @ \ {s}]
    /\ failed' = [failed EXCEPT ![r] = @ \union Emptied(r, s)]
    /\ UNCHANGED <<phase, status>>
    /\ Settled /\ Seen

CheckAnswers(r, s) ==
    /\ phase[r] = "fanOut"
    /\ s \in asked[r] /\ service[s] = "up"
    /\ asked' = [asked EXCEPT ![r] = @ \ {s}]
    /\ UNCHANGED <<phase, status, failed>>
    /\ Settled /\ Seen

\* Mutant: degraded only if every service is down.
HealthStatusMutant(r) == IF failed[r] # Services THEN 200 ELSE 503

\* "ok" is 200; any service that is down makes "degraded", which is 503.
HealthStatus(r) == IF failed[r] = {} THEN 200 ELSE 503

\* A resolver turns a failure into an empty list, which the status does not show.
EndFanOut(r) ==
    /\ phase[r] = "fanOut"
    /\ asked[r] = {}
    /\ Answered(r, IF Route[r].kind = "health" THEN HealthStatus(r) ELSE 200)
    /\ failed' = [failed EXCEPT ![r] = {}]
    /\ seenUp' = [seenUp EXCEPT ![r] = {}]
    /\ seenBad' = [seenBad EXCEPT ![r] = {}]
    /\ UNCHANGED asked
    /\ Settled

Settle(r) ==
    \/ ProxyAnswers(r)
    \/ ProxyFails(r)
    \/ \E s \in Services : CheckFails(r, s) \/ CheckAnswers(r, s)
    \/ EndFanOut(r)

-----------------------------------------------------------------------------
(* What happens around the gateway, and its own restart.                    *)

Tick ==
    /\ now < MaxTime
    /\ now' = now + 1
    /\ UNCHANGED <<limiterVars, expiry, requestVars, service, changes, restarts>>

MayChange == changes + restarts < MaxChanges

\* A service that goes down breaks the calls it has not answered.
ServiceChanges(s, to) ==
    /\ MayChange
    /\ changes' = changes + 1
    /\ service[s] # to
    /\ service' = [service EXCEPT ![s] = to]
    /\ LET Noted(seen, r) ==
               IF phase[r] = "fanOut" THEN seen[r] \union ({s} \intersect FanOutOf(r)) ELSE seen[r]
       IN  IF to = "up"
           THEN seenUp' = [r \in Requests |-> Noted(seenUp, r)] /\ UNCHANGED seenBad
           ELSE seenBad' = [r \in Requests |-> Noted(seenBad, r)] /\ UNCHANGED seenUp
    /\ IF to = "down"
       THEN /\ asked' = [r \in Requests |-> asked[r] \ {s}]
            /\ failed' = [r \in Requests |-> IF phase[r] = "fanOut" THEN failed[r] \union (asked[r] \intersect {s})
                                            ELSE failed[r]]
       ELSE UNCHANGED <<asked, failed>>
    /\ UNCHANGED <<now, limiterVars, expiry, phase, status, restarts>>

\* The store of the limiter is in memory; tokens are with the clients.
Restart ==
    /\ MayChange
    /\ restarts' = restarts + 1
    /\ hits' = [a \in Addresses |-> 0]
    /\ resetTime' = [a \in Addresses |-> 0]
    /\ phase' = [r \in Requests |-> IF phase[r] \in {"proxied", "fanOut"} THEN "cut" ELSE phase[r]]
    /\ asked' = [r \in Requests |-> {}]
    /\ failed' = [r \in Requests |-> {}]
    /\ seenUp' = [r \in Requests |-> {}]
    /\ seenBad' = [r \in Requests |-> {}]
    /\ UNCHANGED <<now, admitted, expiry, status, service, changes>>

Next ==
    \/ \E r \in Requests : Receive(r) \/ Settle(r)
    \/ Tick
    \/ \E s \in Services, to \in ServiceStates : ServiceChanges(s, to)
    \/ Restart

Spec == Init /\ [][Next]_vars

FairSpec == Spec /\ WF_vars(\E r \in Requests : Settle(r))

-----------------------------------------------------------------------------
(* Correctness.                                                             *)

\* The requests of an address admitted within the length of a window.
LatelyAdmitted(a) ==
    {r \in Requests : Address[r] = a /\ admitted[r] >= 0 /\ now < admitted[r] + Window}

\* An address gets less than twice the limit through in any time as long as a
\* window, wherever the windows of the limiter happen to lie; each restart, which
\* forgets the window, adds at most one limit more, and nothing else does.
RateBounded ==
    \A a \in Addresses : Cardinality(LatelyAdmitted(a)) < (2 + restarts) * Limit

Ends(r) == phase[r] = "fanOut" /\ phase'[r] = "answered"

\* /health/all says ok only if every service was up at some time during the check,
\* and otherwise only if one of them was not, although the services are asked
\* at different moments and change meanwhile.
HealthFits ==
    [][\A r \in Requests : Ends(r) /\ Route[r].kind = "health" =>
          IF status'[r] = 200 THEN seenUp[r] = Services ELSE seenBad[r] # {}]_vars

\* A list of a query is empty for want of an answer only if its service was not up at
\* some time of the query, and has an answer only from one that was; what becomes of
\* one list does not depend on the services of the others, and a document that was
\* executed is answered with 200 whichever of them are empty.
ListsFit ==
    [][\A r \in Requests : Ends(r) /\ Route[r].kind = "query" =>
          failed[r] \subseteq seenBad[r] /\ Route[r].asks \ failed[r] \subseteq seenUp[r]]_vars

\* A request for which the gateway asks services itself ends whatever they do; one
\* that it proxies, which has no timeout, ends if its service does not hang for ever.
\* A request comes once, so none is waiting in the end if every one of them ends.
EveryRequestEnds ==
    /\ <>[](\A r \in Requests : phase[r] # "fanOut")
    /\ \A s \in UNION {Route[r].asks : r \in {q \in Requests : Route[q].kind \in Proxied}} :
          <>[](service[s] # "hung")
             => <>[](\A r \in Requests : phase[r] = "proxied" => s \notin Route[r].asks)
=============================================================================

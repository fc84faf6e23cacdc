---------------------------- MODULE RateLimiter ----------------------------
(***************************************************************************)
(* The relayer's sliding-window limit on requests (relayer/src/index.ts):  *)
(* a list of times for each client, cleaned on every check and by a timer. *)
(* Requests of one client within a millisecond leave equal times, so an    *)
(* entry also tells which request left it.                                 *)
(***************************************************************************)
EXTENDS Clock, FiniteSets

CONSTANTS
    Ip, Request,
    RATE_LIMIT_WINDOW, RATE_LIMIT_MAX

ASSUME LimiterAssumption ==
    /\ IsFiniteSet(Request)
    /\ RATE_LIMIT_WINDOW \in Nat
    /\ RATE_LIMIT_MAX \in Nat
    /\ MaxTime \in Nat

VARIABLES
    rateLimitMap,          \* the entries of each client; none where the map has no key
    admitted, refused      \* history: the checks of this run of the server

limiterVars == <<now, rateLimitMap, admitted, refused>>

Entry == [ip : Ip, id : Request, at : Nat]
Check(ip, id) == [ip |-> ip, id |-> id, at |-> now]

\* Mutants: entries count a moment too short, or too long.
recentShort(ip) == {t \in rateLimitMap[ip] : now - t.at + 1 < RATE_LIMIT_WINDOW}
recentLong(ip) == {t \in rateLimitMap[ip] : now - t.at <= RATE_LIMIT_WINDOW}

recent(ip) == {t \in rateLimitMap[ip] : now - t.at < RATE_LIMIT_WINDOW}

LimiterInit ==
    /\ rateLimitMap = [ip \in Ip |-> {}]
    /\ admitted = {} /\ refused = {}

\* checkRateLimit returns true: the old entries go, the new one is added.
Admit(ip, id) ==
    /\ Cardinality(recent(ip)) < RATE_LIMIT_MAX
    /\ rateLimitMap' = [rateLimitMap EXCEPT ![ip] = recent(ip) \cup {Check(ip, id)}]
    /\ admitted' = admitted \cup {Check(ip, id)}
    /\ UNCHANGED <<now, refused>>

\* checkRateLimit returns false, and leaves no trace of the request.
Refuse(ip, id) ==
    /\ Cardinality(recent(ip)) >= RATE_LIMIT_MAX
    /\ refused' = refused \cup {Check(ip, id)}
    /\ UNCHANGED <<now, rateLimitMap, admitted>>

checkRateLimit(ip, id) == Admit(ip, id) \/ Refuse(ip, id)

\* The timer drops the entries, and the clients, that no longer count.
CleanUp ==
    /\ rateLimitMap' = [ip \in Ip |-> recent(ip)]
    /\ UNCHANGED <<now, admitted, refused>>

\* A restart of the server: the map is in memory only.
Restart ==
    /\ rateLimitMap' = [ip \in Ip |-> {}]
    /\ admitted' = {} /\ refused' = {}
    /\ UNCHANGED now

Elapse == Advance /\ UNCHANGED <<rateLimitMap, admitted, refused>>

\* The limiter by itself; Relay composes it with the requests it checks.
LimiterNext ==
    \/ \E ip \in Ip, id \in Request : checkRateLimit(ip, id)
    \/ CleanUp
    \/ Restart
    \/ Elapse

LimiterSpec == now = 0 /\ LimiterInit /\ [][LimiterNext]_limiterVars

SW == INSTANCE SlidingWindow WITH Window <- RATE_LIMIT_WINDOW, Limit <- RATE_LIMIT_MAX

\* However checks, the cleaning timer and time interleave, a run of the server
\* never admits more than RATE_LIMIT_MAX requests of a client in a window.
LimitHolds == SW!LimitHolds

\* The pruned lists decide exactly as the whole history would: nobody is let in
\* over the limit and nobody is turned away below it.
SlidesTheWindow == SW!Spec

=============================================================================

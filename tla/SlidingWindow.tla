--------------------------- MODULE SlidingWindow ---------------------------
(***************************************************************************)
(* What the relayer's rate limiter promises: of each client at most so     *)
(* many requests are admitted in any window, and none is refused unless    *)
(* the window that ends now is full.                                       *)
(***************************************************************************)
EXTENDS Clock, FiniteSets

CONSTANTS Ip, Request, Window, Limit

VARIABLES admitted, refused      \* the requests so far: who, which, when

vars == <<now, admitted, refused>>

Check(ip, id) == [ip |-> ip, id |-> id, at |-> now]

\* The requests of a client admitted in the window that ends at t.
InWindow(ip, t) == {a \in admitted : a.ip = ip /\ a.at <= t /\ t - a.at < Window}

Init == now \in Nat /\ admitted = {} /\ refused = {}

Admit(ip, id) ==
    /\ Cardinality(InWindow(ip, now)) < Limit
    /\ admitted' = admitted \cup {Check(ip, id)}
    /\ UNCHANGED <<now, refused>>

Refuse(ip, id) ==
    /\ Cardinality(InWindow(ip, now)) >= Limit
    /\ refused' = refused \cup {Check(ip, id)}
    /\ UNCHANGED <<now, admitted>>

Pass == now' \in Nat /\ now' >= now /\ UNCHANGED <<admitted, refused>>

\* A new run of the server owes nothing to the last one.
Forget == admitted' = {} /\ refused' = {} /\ UNCHANGED now

Next ==
    \/ \E ip \in Ip, id \in Request : Admit(ip, id) \/ Refuse(ip, id)
    \/ Pass
    \/ Forget

Spec == Init /\ [][Next]_vars

\* No window of time, of those that end by the bound, holds more than Limit
\* admitted requests of one client.
LimitHolds == \A ip \in Ip : \A t \in 0..MaxTime : Cardinality(InWindow(ip, t)) <= Limit

=============================================================================

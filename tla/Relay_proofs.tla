---------------------------- MODULE Relay_proofs ----------------------------
(***************************************************************************)
(* Proofs about the relayer, for every set of clients, requests and        *)
(* scenarios, every limit and every length of a run.  First its rate       *)
(* limiter: the invariant ties the pruned lists to the whole history of    *)
(* admitted requests: what is recent in a client's list is what that       *)
(* client was admitted in the window that ends now.  Then the session key, *)
(* the program's handlers as the relayer runs them, and the pipeline that  *)
(* composes the three.                                                     *)
(***************************************************************************)
EXTENDS Relay, FiniteSetTheorems, TLAPS


Win(ip, t) == {a \in admitted : a.ip = ip /\ a.at <= t /\ t - a.at < RATE_LIMIT_WINDOW}

LimiterTypeOK ==
    /\ now \in Nat
    /\ rateLimitMap \in [Ip -> SUBSET Entry]
    /\ admitted \in SUBSET Entry
    /\ IsFiniteSet(admitted)

Past == \A a \in admitted : a.at <= now

Linked == \A ip \in Ip : recent(ip) = Win(ip, now)

Bounded == \A ip \in Ip : \A t \in Nat : Cardinality(Win(ip, t)) <= RATE_LIMIT_MAX

LimiterInv == LimiterTypeOK /\ Past /\ Linked /\ Bounded

\* The abstract specification counts as the limiter does.
LEMMA SameCount == \A S : SW!Cardinality(S) = Cardinality(S)
BY DEF SW!Cardinality, Cardinality

-----------------------------------------------------------------------------
(* Windows of the history are finite sets *)

LEMMA WinFinite ==
    ASSUME LimiterTypeOK, NEW ip, NEW t
    PROVE  /\ IsFiniteSet(Win(ip, t)) /\ Cardinality(Win(ip, t)) \in Nat
<1>1. Win(ip, t) \subseteq admitted /\ IsFiniteSet(admitted) BY DEF Win, LimiterTypeOK
<1>2. IsFiniteSet(Win(ip, t)) BY <1>1, FS_Subset
<1> QED BY <1>2, FS_CardinalityType

\* A check made now is an entry.
LEMMA CheckIsEntry ==
    ASSUME NEW ip \in Ip, NEW id \in Request, now \in Nat
    PROVE  /\ Check(ip, id) \in Entry
           /\ Check(ip, id).ip = ip /\ Check(ip, id).at = now
BY DEF Check, Entry

\* With one more element a set is at most one larger.
LEMMA OneMore ==
    ASSUME NEW S, NEW T, NEW c, IsFiniteSet(T), S \subseteq T \cup {c}
    PROVE  Cardinality(S) \in Nat /\ Cardinality(S) <= Cardinality(T) + 1
<1>1. /\ IsFiniteSet(T \cup {c})
      /\ Cardinality(T \cup {c}) = IF c \in T THEN Cardinality(T) ELSE Cardinality(T) + 1
    BY FS_AddElement
<1>2. Cardinality(S) <= Cardinality(T \cup {c}) /\ Cardinality(S) \in Nat
    BY <1>1, FS_Subset, FS_CardinalityType
<1>3. Cardinality(T) \in Nat BY FS_CardinalityType
<1> QED BY <1>1, <1>2, <1>3

-----------------------------------------------------------------------------
(* The steps *)

LEMMA InitInv == now = 0 /\ LimiterInit => LimiterInv
<1> SUFFICES ASSUME now = 0, LimiterInit PROVE LimiterInv OBVIOUS
<1>1. IsFiniteSet({}) /\ Cardinality({}) = 0 BY FS_EmptySet
<1>2. \A ip, t : Win(ip, t) = {} BY DEF LimiterInit, Win
<1>3. LimiterTypeOK BY <1>1 DEF LimiterInit, LimiterTypeOK
<1>4. Past BY DEF LimiterInit, Past
<1>5. Linked BY <1>2 DEF LimiterInit, Linked, recent
<1>6. Bounded BY <1>1, <1>2, LimiterAssumption DEF Bounded
<1> QED BY <1>3, <1>4, <1>5, <1>6 DEF LimiterInv

LEMMA AdmitInv ==
    ASSUME NEW ip \in Ip, NEW id \in Request, LimiterInv, Admit(ip, id)
    PROVE  LimiterInv'
<1> DEFINE c == Check(ip, id)
<1>1. c \in Entry /\ c.ip = ip /\ c.at = now BY CheckIsEntry DEF LimiterInv, LimiterTypeOK
<1>2. /\ now' = now /\ admitted' = admitted \cup {c}
      /\ rateLimitMap' = [rateLimitMap EXCEPT ![ip] = recent(ip) \cup {c}]
      /\ Cardinality(recent(ip)) < RATE_LIMIT_MAX
    BY DEF Admit
<1> HIDE DEF c
<1>3. LimiterTypeOK'
    <2>1. IsFiniteSet(admitted \cup {c}) BY FS_AddElement DEF LimiterInv, LimiterTypeOK
    <2>2. recent(ip) \in SUBSET Entry BY DEF LimiterInv, LimiterTypeOK, recent
    <2> QED BY <1>1, <1>2, <2>1, <2>2 DEF LimiterInv, LimiterTypeOK
<1>4. Past' BY <1>1, <1>2 DEF LimiterInv, Past, LimiterTypeOK
<1>5. Linked'
    <2> SUFFICES ASSUME NEW j \in Ip PROVE recent(j)' = Win(j, now)' BY DEF Linked
    <2>1. recent(j) = Win(j, now) BY DEF LimiterInv, Linked
    <2>2. CASE j = ip
        <3>1. rateLimitMap'[j] = recent(j) \cup {c}
            BY <1>2, <2>2 DEF LimiterInv, LimiterTypeOK
        <3>2. recent(j)' = {t \in recent(j) \cup {c} : now - t.at < RATE_LIMIT_WINDOW}
            BY <1>2, <3>1 DEF recent
        <3>3. Win(j, now)' = {a \in admitted \cup {c} : a.ip = j /\ a.at <= now /\ now - a.at < RATE_LIMIT_WINDOW}
            BY <1>2 DEF Win
        <3>4. now <= now BY DEF LimiterInv, LimiterTypeOK
        <3> QED BY <1>1, <2>1, <2>2, <3>2, <3>3, <3>4 DEF Win
    <2>3. CASE j # ip
        <3>1. rateLimitMap'[j] = rateLimitMap[j] BY <1>2, <2>3 DEF LimiterInv, LimiterTypeOK
        <3>2. recent(j)' = recent(j) BY <1>2, <3>1 DEF recent
        <3>3. Win(j, now)' = Win(j, now) BY <1>1, <1>2, <2>3 DEF Win
        <3> QED BY <2>1, <3>2, <3>3
    <2> QED BY <2>2, <2>3
<1>6. Bounded'
    <2> SUFFICES ASSUME NEW j \in Ip, NEW t \in Nat
                 PROVE  Cardinality(Win(j, t)') <= RATE_LIMIT_MAX
        BY DEF Bounded, Win
    <2>1. CASE j # ip \/ t < now
        <3>1. Win(j, t)' = Win(j, t)
            BY <1>1, <1>2, <2>1, LimiterAssumption DEF Win, LimiterInv, LimiterTypeOK
        <3> QED BY <3>1 DEF LimiterInv, Bounded
    <2>2. CASE j = ip /\ now <= t
        <3>1. Win(j, t)' \subseteq Win(ip, now) \cup {c}
            <4> SUFFICES ASSUME NEW a \in Win(j, t)', a # c PROVE a \in Win(ip, now) OBVIOUS
            <4>1. a \in admitted /\ a.ip = ip /\ t - a.at < RATE_LIMIT_WINDOW
                BY <1>2, <2>2 DEF Win
            <4>2. a.at <= now /\ a.at \in Nat
                BY <4>1 DEF LimiterInv, Past, LimiterTypeOK, Entry
            <4>3. now - a.at < RATE_LIMIT_WINDOW
                BY <2>2, <4>1, <4>2, LimiterAssumption DEF LimiterInv, LimiterTypeOK
            <4> QED BY <4>1, <4>2, <4>3 DEF Win
        <3>2. IsFiniteSet(Win(ip, now)) /\ Cardinality(Win(ip, now)) \in Nat
            BY WinFinite DEF LimiterInv
        <3>3. Cardinality(Win(ip, now)) < RATE_LIMIT_MAX BY <1>2 DEF LimiterInv, Linked
        <3>4. /\ Cardinality(Win(j, t)') \in Nat
              /\ Cardinality(Win(j, t)') <= Cardinality(Win(ip, now)) + 1
            BY <3>1, <3>2, OneMore
        <3> QED BY <3>2, <3>3, <3>4, LimiterAssumption
    <2> QED BY <2>1, <2>2 DEF LimiterInv, LimiterTypeOK
<1> QED BY <1>3, <1>4, <1>5, <1>6 DEF LimiterInv

LEMMA CleanUpInv == LimiterInv /\ CleanUp => LimiterInv'
<1> SUFFICES ASSUME LimiterInv, CleanUp PROVE LimiterInv' OBVIOUS
<1>1. /\ rateLimitMap' = [ip \in Ip |-> recent(ip)]
      /\ now' = now /\ admitted' = admitted
    BY DEF CleanUp
<1>2. \A ip \in Ip : recent(ip) \in SUBSET Entry BY DEF LimiterInv, LimiterTypeOK, recent
<1>3. LimiterTypeOK' BY <1>1, <1>2 DEF LimiterInv, LimiterTypeOK
<1>4. Past' BY <1>1 DEF LimiterInv, Past
<1>5. \A ip, t : Win(ip, t)' = Win(ip, t) BY <1>1 DEF Win
<1>6. Bounded' BY <1>5 DEF LimiterInv, Bounded
<1>7. Linked'
    <2> SUFFICES ASSUME NEW ip \in Ip PROVE recent(ip)' = Win(ip, now)' BY DEF Linked
    <2>1. recent(ip)' = recent(ip) BY <1>1 DEF recent
    <2> QED BY <1>1, <1>5, <2>1 DEF LimiterInv, Linked, Win
<1> QED BY <1>3, <1>4, <1>6, <1>7 DEF LimiterInv

LEMMA RestartInv == LimiterInv /\ Restart => LimiterInv'
<1> SUFFICES ASSUME LimiterInv, Restart PROVE LimiterInv' OBVIOUS
<1>1. rateLimitMap' = [ip \in Ip |-> {}] /\ admitted' = {} /\ now' = now BY DEF Restart
<1>2. IsFiniteSet({}) /\ Cardinality({}) = 0 BY FS_EmptySet
<1>3. \A ip, t : Win(ip, t)' = {} BY <1>1 DEF Win
<1>4. LimiterTypeOK' BY <1>1, <1>2 DEF LimiterInv, LimiterTypeOK
<1>5. Past' BY <1>1 DEF Past
<1>6. Linked' BY <1>1 DEF Linked, recent, Win
<1>7. Bounded'
    <2> SUFFICES ASSUME NEW ip \in Ip, NEW t \in Nat
                 PROVE  Cardinality(Win(ip, t)') <= RATE_LIMIT_MAX
        BY DEF Bounded, Win
    <2>1. Cardinality(Win(ip, t)') = 0 BY <1>2, <1>3
    <2> QED BY <2>1, LimiterAssumption
<1> QED BY <1>4, <1>5, <1>6, <1>7 DEF LimiterInv

\* Time makes entries old; it makes the admitted requests old alike.
LEMMA ElapseInv == LimiterInv /\ Elapse => LimiterInv'
<1> SUFFICES ASSUME LimiterInv, Elapse PROVE LimiterInv' OBVIOUS
<1>1. now' = now + 1 /\ rateLimitMap' = rateLimitMap /\ admitted' = admitted
    BY DEF Elapse, Advance
<1>2. now \in Nat BY DEF LimiterInv, LimiterTypeOK
<1>3. LimiterTypeOK' BY <1>1 DEF LimiterInv, LimiterTypeOK
<1>4. \A a \in admitted : a.at \in Nat /\ a.at <= now
    BY DEF LimiterInv, LimiterTypeOK, Past, Entry
<1>5. Past' BY <1>1, <1>2, <1>4 DEF Past
<1>6. Bounded' BY <1>1 DEF LimiterInv, Bounded, Win
<1>7. Linked'
    <2> SUFFICES ASSUME NEW ip \in Ip PROVE recent(ip)' = Win(ip, now)' BY DEF Linked
    <2>1. recent(ip) = Win(ip, now) BY DEF LimiterInv, Linked
    <2>2. /\ recent(ip)' = {t \in rateLimitMap[ip] : (now + 1) - t.at < RATE_LIMIT_WINDOW}
          /\ \A t \in rateLimitMap[ip] : t.at \in Nat
        BY <1>1 DEF recent, LimiterInv, LimiterTypeOK, Entry
    <2>3. Win(ip, now)' = {a \in admitted : a.ip = ip /\ a.at <= now + 1
                                              /\ (now + 1) - a.at < RATE_LIMIT_WINDOW}
        BY <1>1 DEF Win
    <2>4. ASSUME NEW x \in recent(ip)' PROVE x \in Win(ip, now)'
        <3>1. x \in recent(ip) BY <1>2, <2>2, LimiterAssumption DEF recent
        <3> QED BY <1>2, <1>4, <2>1, <2>2, <2>3, <3>1 DEF Win
    <2>5. ASSUME NEW x \in Win(ip, now)' PROVE x \in recent(ip)'
        <3>1. /\ x \in admitted /\ x.ip = ip /\ x.at \in Nat /\ x.at <= now
              /\ (now + 1) - x.at < RATE_LIMIT_WINDOW
            BY <1>4, <2>3
        <3>2. x \in recent(ip) BY <1>2, <2>1, <3>1, LimiterAssumption DEF Win
        <3> QED BY <2>2, <3>1, <3>2 DEF recent
    <2> QED BY <2>4, <2>5
<1> QED BY <1>3, <1>5, <1>6, <1>7 DEF LimiterInv

LEMMA StutterInv == LimiterInv /\ UNCHANGED <<now, rateLimitMap, admitted>> => LimiterInv'
<1> SUFFICES ASSUME LimiterInv, UNCHANGED <<now, rateLimitMap, admitted>> PROVE LimiterInv'
    OBVIOUS
<1> QED BY DEF LimiterInv, LimiterTypeOK, Past, Linked, Bounded, Win, recent

LEMMA NextInv == LimiterInv /\ [LimiterNext]_limiterVars => LimiterInv'
<1> SUFFICES ASSUME LimiterInv, [LimiterNext]_limiterVars PROVE LimiterInv' OBVIOUS
<1>1. ASSUME NEW ip \in Ip, NEW id \in Request, Admit(ip, id) PROVE LimiterInv'
    BY <1>1, AdmitInv
<1>2. ASSUME NEW ip \in Ip, NEW id \in Request, Refuse(ip, id) PROVE LimiterInv'
    BY <1>2, StutterInv DEF Refuse
<1>3. CASE CleanUp BY <1>3, CleanUpInv
<1>4. CASE Restart BY <1>4, RestartInv
<1>5. CASE Elapse BY <1>5, ElapseInv
<1>6. CASE UNCHANGED limiterVars BY <1>6, StutterInv DEF limiterVars
<1> QED BY <1>1, <1>2, <1>3, <1>4, <1>5, <1>6 DEF LimiterNext, checkRateLimit

\* The inductive invariant of the limiter, in every reachable state.
THEOREM LimiterInvariant == LimiterSpec => []LimiterInv
<1>1. now = 0 /\ LimiterInit => LimiterInv BY InitInv
<1>2. LimiterInv /\ [LimiterNext]_limiterVars => LimiterInv' BY NextInv
<1> QED BY <1>1, <1>2, PTL DEF LimiterSpec

\* index.ts 22-35: never more than RATE_LIMIT_MAX requests of one client are
\* admitted within a window, whatever the limit, the window and the clients.
THEOREM LimitHoldsAlways == LimiterSpec => []LimitHolds
<1>1. LimiterInv => LimitHolds
    <2> SUFFICES ASSUME LimiterInv, NEW ip \in Ip, NEW t \in 0..MaxTime
                 PROVE  Cardinality(SW!InWindow(ip, t)) <= RATE_LIMIT_MAX
        BY SameCount DEF LimitHolds, SW!LimitHolds
    <2>1. SW!InWindow(ip, t) = Win(ip, t) BY DEF SW!InWindow, Win
    <2>2. t \in Nat BY LimiterAssumption
    <2> QED BY <2>1, <2>2 DEF LimiterInv, Bounded
<1> QED BY <1>1, LimiterInvariant, PTL

\* Every step of the limiter is a step of the sliding window or leaves it alone.
LEMMA StepRefines == LimiterInv /\ [LimiterNext]_limiterVars => [SW!Next]_SW!vars
<1> SUFFICES ASSUME LimiterInv, [LimiterNext]_limiterVars PROVE [SW!Next]_SW!vars OBVIOUS
<1>1. \A ip \in Ip : recent(ip) = SW!InWindow(ip, now)
    BY DEF LimiterInv, Linked, Win, SW!InWindow
<1>2. \A ip, id : SW!Check(ip, id) = Check(ip, id) BY DEF SW!Check, Check
<1>3. ASSUME NEW ip \in Ip, NEW id \in Request, Admit(ip, id) PROVE SW!Admit(ip, id)
    BY <1>1, <1>2, <1>3, SameCount DEF Admit, SW!Admit
<1>4. ASSUME NEW ip \in Ip, NEW id \in Request, Refuse(ip, id) PROVE SW!Refuse(ip, id)
    BY <1>1, <1>2, <1>4, SameCount DEF Refuse, SW!Refuse
<1>5. CASE CleanUp BY <1>5 DEF CleanUp, SW!vars
<1>6. CASE Restart BY <1>6 DEF Restart, SW!Next, SW!Forget
<1>7. CASE Elapse
    <2>1. now' \in Nat /\ now' >= now /\ UNCHANGED <<admitted, refused>>
        BY <1>7 DEF Elapse, Advance, LimiterInv, LimiterTypeOK
    <2> QED BY <2>1 DEF SW!Next, SW!Pass
<1>8. CASE UNCHANGED limiterVars BY <1>8 DEF limiterVars, SW!vars
<1> QED
    <2>1. CASE LimiterNext
        <3>1. CASE \E ip \in Ip, id \in Request : checkRateLimit(ip, id)
            BY <1>3, <1>4, <3>1 DEF checkRateLimit, SW!Next
        <3> QED BY <1>5, <1>6, <1>7, <2>1, <3>1 DEF LimiterNext
    <2> QED BY <1>8, <2>1

\* index.ts 22-45: the lists, pruned on every check and by the timer, make the
\* decisions the abstract sliding window makes from the whole history.
THEOREM LimiterRefines == LimiterSpec => SlidesTheWindow
<1>1. now = 0 /\ LimiterInit => SW!Init BY DEF LimiterInit, SW!Init
<1>2. LimiterInv /\ [LimiterNext]_limiterVars => [SW!Next]_SW!vars BY StepRefines
<1> QED BY <1>1, <1>2, LimiterInvariant, PTL DEF LimiterSpec, SlidesTheWindow, SW!Spec

-----------------------------------------------------------------------------
(* The handlers of the program keep the accounts well formed *)

WellFormed(c) ==
    /\ c \in Accounts
    /\ c.sessions \subseteq [delegate : Key, expires_at : Nat]
    /\ Bonded(c)

\* A failing handler changes nothing.
LEMMA OutcomeKeeps ==
    ASSUME NEW ok, NEW c, NEW then, WellFormed(c), ok => WellFormed(then)
    PROVE  WellFormed(Outcome(ok, c, then).accounts)
BY DEF Outcome, Ok, Err

\* A merchant that opens was not there, so it was not closing.
LEMMA CreateKeeps ==
    ASSUME NEW c, WellFormed(c), NEW m \in Mint
    PROVE  WellFormed(create_mint_and_config(c, m).accounts)
<1> DEFINE new == [exists |-> TRUE, is_active |-> TRUE, current_supply |-> 0,
                   close_window_ends_at |-> 0]
           d == [c EXCEPT !.config[m] = new]
<1>1. ASSUME ~c.config[m].exists PROVE WellFormed(d)
    <2>1. new \in MerchantConfig /\ c.config \in [Mint -> MerchantConfig]
        BY DEF WellFormed, Accounts, MerchantConfig
    <2> HIDE DEF new
    <2>2. d \in Accounts /\ d.sessions = c.sessions /\ d.bond = c.bond
          /\ \A n \in Mint : n # m => d.config[n] = c.config[n]
        BY <2>1 DEF WellFormed, Accounts
    <2> HIDE DEF d
    <2>3. Bonded(d) BY <1>1, <2>2 DEF WellFormed, Bonded, SomeClosing
    <2> QED BY <2>2, <2>3 DEF WellFormed
<1> HIDE DEF d
<1>2. WellFormed(Outcome(~c.config[m].exists, c, d).accounts) BY <1>1, OutcomeKeeps
<1> QED BY <1>2 DEF create_mint_and_config, d, new

LEMMA IssueKeeps ==
    ASSUME NEW c, WellFormed(c), NEW m \in Mint, NEW amount \in Nat
    PROVE  WellFormed(issue_first_tokens_and_lock(c, m, amount).accounts)
<1> DEFINE d == [c EXCEPT !.config[m].current_supply = @ + amount]
           ok == c.config[m].exists /\ c.config[m].current_supply + amount <= U64Max
<1>1. WellFormed(d)
    <2>1. c.config \in [Mint -> MerchantConfig] /\ c.config[m].current_supply + amount \in Nat
        BY DEF WellFormed, Accounts, MerchantConfig
    <2>2. d \in Accounts /\ d.sessions = c.sessions /\ d.bond = c.bond
          /\ \A n \in Mint : /\ d.config[n].exists = c.config[n].exists
                             /\ d.config[n].is_active = c.config[n].is_active
        BY <2>1 DEF WellFormed, Accounts, MerchantConfig
    <2> HIDE DEF d
    <2>3. Bonded(d) BY <2>2 DEF WellFormed, Bonded, SomeClosing
    <2> QED BY <2>2, <2>3 DEF WellFormed
<1> HIDE DEF d, ok
<1>2. WellFormed(Outcome(ok, c, d).accounts) BY <1>1, OutcomeKeeps
<1> QED BY <1>2 DEF issue_first_tokens_and_lock, d, ok

\* A bond some lamports are taken of: of an amount that leaves the minimum, or
\* after a merchant began to close.
LEMMA TakenKeeps ==
    ASSUME NEW c, WellFormed(c), NEW b \in Bond, NEW amount \in Nat,
           amount <= c.bond[b].bonded_lamports,
           \/ SomeClosing(c)
           \/ c.bond[b].bonded_lamports - amount >= c.bond[b].min_required_lamports
    PROVE  WellFormed([c EXCEPT !.bond[b].bonded_lamports = @ - amount])
<1> DEFINE d == [c EXCEPT !.bond[b].bonded_lamports = @ - amount]
<1>1. c.bond \in [Bond -> MerchantBond] /\ c.bond[b].bonded_lamports - amount \in Nat
    BY DEF WellFormed, Accounts, MerchantBond
<1>2. /\ d \in Accounts /\ d.sessions = c.sessions /\ d.config = c.config
      /\ d.bond[b].bonded_lamports = c.bond[b].bonded_lamports - amount
      /\ d.bond[b].min_required_lamports = c.bond[b].min_required_lamports
      /\ \A e \in Bond : e # b => d.bond[e] = c.bond[e]
    BY <1>1 DEF WellFormed, Accounts, MerchantBond
<1> HIDE DEF d
<1>3. SomeClosing(d) <=> SomeClosing(c) BY <1>2 DEF SomeClosing
<1>4. Bonded(d)
    <2>1. CASE SomeClosing(c) BY <1>3, <2>1 DEF Bonded
    <2>2. CASE ~SomeClosing(c)
        <3>1. d.bond[b].bonded_lamports >= d.bond[b].min_required_lamports BY <1>2, <2>2
        <3>2. ASSUME NEW e \in Bond, e # b
              PROVE  d.bond[e].bonded_lamports >= d.bond[e].min_required_lamports
            BY <1>2, <2>2, <3>2 DEF WellFormed, Bonded
        <3> QED BY <3>1, <3>2 DEF Bonded
    <2> QED BY <2>1, <2>2
<1> QED BY <1>2, <1>4 DEF WellFormed, d

\* bond_management.rs 40-52: what is withdrawn leaves the minimum.
LEMMA WithdrawKeeps ==
    ASSUME NEW c, WellFormed(c), NEW b \in Bond, NEW amount \in Nat
    PROVE  WellFormed(withdraw_bond(c, b, amount).accounts)
<1> DEFINE d == [c EXCEPT !.bond[b].bonded_lamports = @ - amount]
           ok == /\ ~c.bond[b].is_locked
                 /\ saturating_sub(c.bond[b].bonded_lamports, amount)
                        >= c.bond[b].min_required_lamports
                 /\ amount <= c.bond[b].bonded_lamports
<1>1. ASSUME ok PROVE WellFormed(d)
    <2>1. c.bond[b].bonded_lamports \in Nat /\ c.bond[b].min_required_lamports \in Nat
        BY DEF WellFormed, Accounts, MerchantBond
    <2>2. c.bond[b].bonded_lamports - amount >= c.bond[b].min_required_lamports
        BY <1>1, <2>1 DEF saturating_sub
    <2> QED BY <1>1, <2>2, TakenKeeps
<1> HIDE DEF d, ok
<1>2. WellFormed(Outcome(ok, c, d).accounts) BY <1>1, OutcomeKeeps
<1> QED BY <1>2 DEF withdraw_bond, d, ok

\* A merchant that begins to close: from here on nothing is said of the bonds.
LEMMA InitiateKeeps ==
    ASSUME NEW c, WellFormed(c), NEW m \in Mint, NEW time \in Nat
    PROVE  WellFormed(initiate_close_merchant(c, m, time).accounts)
<1> DEFINE d == [c EXCEPT !.config[m].is_active = FALSE,
                          !.config[m].close_window_ends_at = time + CLOSE_WINDOW]
           ok == c.config[m].exists /\ c.config[m].is_active
<1>1. ASSUME ok PROVE WellFormed(d)
    <2>1. time + CLOSE_WINDOW \in Nat BY ChainAssumption
    <2>2. c.config \in [Mint -> MerchantConfig] BY DEF WellFormed, Accounts
    <2>3. d \in Accounts /\ d.sessions = c.sessions
          /\ d.config[m].exists /\ ~d.config[m].is_active
        BY <1>1, <2>1, <2>2 DEF WellFormed, Accounts, MerchantConfig
    <2> HIDE DEF d
    <2> QED BY <2>3 DEF WellFormed, Bonded, SomeClosing
<1> HIDE DEF d, ok
<1>2. WellFormed(Outcome(ok, c, d).accounts) BY <1>1, OutcomeKeeps
<1> QED BY <1>2 DEF initiate_close_merchant, d, ok

LEMMA FinalizeKeeps ==
    ASSUME NEW c, WellFormed(c), NEW m, NEW time
    PROVE  WellFormed(finalize_close_merchant(c, m, time).accounts)
BY DEF finalize_close_merchant, Outcome, Ok, Err

LEMMA ModuloNat ==
    ASSUME NEW n \in Nat, NEW k \in Nat
    PROVE  n % (k + 1) \in Nat
OBVIOUS

LEMMA QuotientNat ==
    ASSUME NEW n \in Nat, NEW k \in Nat, k > 0
    PROVE  n \div k \in Nat
OBVIOUS

LEMMA ProductNat ==
    ASSUME NEW n \in Nat, NEW k \in Nat
    PROVE  n * k \in Nat
OBVIOUS

\* bond_management.rs 135-143: the share is a u64, whatever the casts cut off.
LEMMA ShareNat ==
    ASSUME NEW lamports \in Nat, NEW tokens \in Nat, NEW current \in Nat
    PROVE  BondShare(lamports, tokens, current) \in Nat
<1> DEFINE supply == IF current = 0 THEN 1 ELSE current
           pct == ((tokens * PCT) \div supply) % (U64Max + 1)
<1>1. PCT \in Nat /\ PCT > 0 /\ U64Max \in Nat BY ChainAssumption
<1>2. supply \in Nat /\ supply > 0 OBVIOUS
<1>3. pct \in Nat
    <2> HIDE DEF supply
    <2>1. tokens * PCT \in Nat BY <1>1, ProductNat
    <2>2. (tokens * PCT) \div supply \in Nat BY <1>2, <2>1, QuotientNat
    <2> QED BY <1>1, <2>2, ModuloNat
<1>4. BondShare(lamports, tokens, current) = ((lamports * pct) \div PCT) % (U64Max + 1)
    BY DEF BondShare
<1> HIDE DEF pct
<1>5. lamports * pct \in Nat BY <1>3, ProductNat
<1>6. (lamports * pct) \div PCT \in Nat BY <1>1, <1>5, QuotientNat
<1> QED BY <1>1, <1>4, <1>6, ModuloNat

\* The share of a holder may bring a bond below its minimum, but only after a
\* merchant has begun to close, whom create_mint_and_config never opens again.
LEMMA RedeemKeeps ==
    ASSUME NEW c, WellFormed(c), NEW m \in Mint, NEW b \in Bond, NEW holder_tokens \in Nat
    PROVE  WellFormed(redeem_bond_share(c, m, b, holder_tokens).accounts)
<1> DEFINE bond_share == BondShare(c.bond[b].bonded_lamports, holder_tokens,
                                   c.config[m].current_supply)
           d == [c EXCEPT !.bond[b].bonded_lamports = @ - bond_share]
           ok == /\ c.config[m].exists /\ ~c.config[m].is_active
                 /\ holder_tokens <= U64Max
                 /\ bond_share <= c.bond[b].bonded_lamports
<1>1. c.bond[b].bonded_lamports \in Nat /\ c.config[m].current_supply \in Nat
    BY DEF WellFormed, Accounts, MerchantBond, MerchantConfig
<1>2. bond_share \in Nat BY <1>1, ShareNat
<1> HIDE DEF bond_share
<1>3. ASSUME ok PROVE WellFormed(d)
    <2>1. SomeClosing(c) BY <1>3 DEF SomeClosing
    <2> QED BY <1>2, <1>3, <2>1, TakenKeeps
<1> HIDE DEF d, ok
<1>4. WellFormed(Outcome(ok, c, d).accounts) BY <1>3, OutcomeKeeps
<1> QED BY <1>4 DEF redeem_bond_share, d, ok, bond_share

LEMMA SessionsKeep ==
    ASSUME NEW c, WellFormed(c), NEW delegate \in Key, NEW expires_at \in Nat, NEW time
    PROVE  /\ WellFormed(create_session_key(c, delegate, expires_at, time).accounts)
           /\ WellFormed(revoke_session_key(c, delegate).accounts)
<1> DEFINE d == [c EXCEPT !.sessions = @ \cup {[delegate |-> delegate, expires_at |-> expires_at]}]
           ok == (\A s \in c.sessions : s.delegate # delegate) /\ expires_at > time
           e == [c EXCEPT !.sessions = {s \in @ : s.delegate # delegate}]
           found == \E s \in c.sessions : s.delegate = delegate
<1>1. Key \subseteq Nat BY DEF Key
<1>2. WellFormed(d) BY <1>1 DEF WellFormed, Accounts, Bonded, SomeClosing
<1>3. WellFormed(e) BY DEF WellFormed, Accounts, Bonded, SomeClosing
<1> HIDE DEF d, e, ok, found
<1>4. WellFormed(Outcome(ok, c, d).accounts) BY <1>2, OutcomeKeeps
<1>5. WellFormed(Outcome(found, c, e).accounts) BY <1>3, OutcomeKeeps
<1> QED BY <1>4, <1>5 DEF create_session_key, revoke_session_key, d, e, ok, found

\* Whatever instruction is executed, the accounts it leaves are well formed.
LEMMA RunKeeps ==
    ASSUME NEW p \in Instruction, NEW c, WellFormed(c), NEW time \in Nat
    PROVE  WellFormed(Run(p, c, time).accounts)
<1>1. CASE p.op = "create" BY <1>1, CreateKeeps DEF Run, Instruction
<1>2. CASE p.op = "issue"
    BY <1>2, IssueKeeps DEF Run, Instruction
<1>3. CASE p.op = "withdraw"
    BY <1>3, WithdrawKeeps DEF Run, Instruction
<1>4. CASE p.op = "initiate" BY <1>4, InitiateKeeps DEF Run, Instruction
<1>5. CASE p.op = "finalize" BY <1>5, FinalizeKeeps DEF Run
<1>6. CASE p.op = "redeem"
    BY <1>6, RedeemKeeps DEF Run, Instruction
<1>7. CASE p.op = "register"
    BY <1>7, SessionsKeep DEF Run, Instruction
<1>8. CASE p.op = "revoke"
    BY <1>8, SessionsKeep DEF Run, Instruction
<1> QED BY <1>1, <1>2, <1>3, <1>4, <1>5, <1>6, <1>7, <1>8 DEF Instruction

-----------------------------------------------------------------------------
(* The key of the tab *)

KeysTypeOK ==
    /\ currentInfo \in SessionKeyInfo \cup {NoKey}
    /\ stored \in SessionKeyInfo \cup {NoKey, Unreadable}
    /\ generated \in 0..MaxKeys

KeysInv == KeysTypeOK /\ MemoryMatchesStorage

LEMMA KeysInitInv == KeysInit => KeysInv
BY KeysAssumption DEF KeysInit, KeysInv, KeysTypeOK, MemoryMatchesStorage

\* session-keys.ts 36-94: the key a caller gets is one of the tab's, and both
\* copies of it are written together.
LEMMA KeyGot ==
    ASSUME KeysInv, now \in Nat, NEW got, getOrCreateSessionKey(got)
    PROVE  /\ got \in SessionKeyInfo
           /\ currentInfo' \in SessionKeyInfo \cup {NoKey}
           /\ stored' \in SessionKeyInfo \cup {NoKey, Unreadable}
           /\ generated' \in 0..MaxKeys
           /\ MemoryMatchesStorage'
<1>1. CASE Live(currentInfo) /\ got = currentInfo /\ UNCHANGED <<currentInfo, stored, generated>>
    BY <1>1 DEF Live, KeysInv, KeysTypeOK, MemoryMatchesStorage
<1>2. CASE /\ ~Live(currentInfo) /\ Live(stored) /\ got = stored
           /\ currentInfo' = stored /\ UNCHANGED <<stored, generated>>
    BY <1>2 DEF Live, KeysInv, KeysTypeOK, MemoryMatchesStorage
<1>3. CASE /\ ~Live(currentInfo) /\ ~Live(stored) /\ got = Fresh
           /\ generated < MaxKeys /\ generated' = generated + 1
           /\ currentInfo' = Fresh /\ stored' = Fresh
    <2>1. generated + 1 \in Key /\ generated + 1 \in 0..MaxKeys
        BY <1>3, KeysAssumption DEF KeysInv, KeysTypeOK, Key
    <2>2. now + SESSION_DURATION \in Nat BY KeysAssumption
    <2>3. Fresh \in SessionKeyInfo BY <2>1, <2>2 DEF Fresh, SessionKeyInfo
    <2> QED BY <1>3, <2>1, <2>3 DEF MemoryMatchesStorage
<1> QED BY <1>1, <1>2, <1>3 DEF getOrCreateSessionKey

LEMMA KeyStepInv ==
    ASSUME KeysInv, now \in Nat, KeyStep
    PROVE  KeysInv'
<1> USE DEF KeysInv, KeysTypeOK
<1>1. CASE GetKey
    <2>1. PICK got : getOrCreateSessionKey(got) BY <1>1 DEF GetKey
    <2> QED BY <2>1, KeyGot
<1>2. CASE markSessionKeyRegistered
    <2>1. currentInfo \in SessionKeyInfo /\ stored = currentInfo
        BY <1>2 DEF markSessionKeyRegistered, MemoryMatchesStorage
    <2>2. /\ currentInfo' = [currentInfo EXCEPT !.registeredOnChain = TRUE]
          /\ stored' = [stored EXCEPT !.registeredOnChain = TRUE]
          /\ UNCHANGED generated
        BY <1>2, <2>1 DEF markSessionKeyRegistered
    <2>3. currentInfo' \in SessionKeyInfo BY <2>1, <2>2 DEF SessionKeyInfo
    <2> QED BY <2>1, <2>2, <2>3 DEF MemoryMatchesStorage
<1>3. CASE destroySessionKey BY <1>3 DEF destroySessionKey, MemoryMatchesStorage
<1>4. CASE RefreshPage BY <1>4 DEF RefreshPage, MemoryMatchesStorage
<1> QED BY <1>1, <1>2, <1>3, <1>4 DEF KeyStep

LEMMA KeysKept == KeysInv /\ UNCHANGED keyVars => KeysInv'
BY DEF keyVars, KeysInv, KeysTypeOK, MemoryMatchesStorage

-----------------------------------------------------------------------------
(* The pipeline *)

PipeTypeOK ==
    /\ scenario \in Scenario
    /\ asked \in [Request -> [ip : Ip \cup {"none"}, payload : Instruction \cup {NoTx, Junk}]]
    /\ client \in [Request -> {"idle", "waiting", "success", "failed"}]
    /\ server \in [Request -> {"none", "arriving", "simulating", "sending", "gone"}
                               \cup Answers \cup OnItsWay]
    /\ tx \in [Request -> {"none", "pending", "landed", "reverted", "dropped"}]
    /\ overtaken \in [Request -> BOOLEAN]
    /\ health \in [state : {"idle", "asked", "answering", "erring", "online", "offline"},
                   since : Nat]
    /\ WellFormed(accounts)

\* How far a request has come, as its client, the server and the network see it.
Coherent(r) ==
    /\ client[r] = "idle" => server[r] = "none" /\ tx[r] = "none"
    /\ server[r] # "none" => asked[r].ip \in Ip
    /\ \/ server[r] \in {"simulating", "sending", "200", "okSent"}
       \/ tx[r] # "none" \/ client[r] = "success"
       => asked[r].payload \in Instruction
    /\ server[r] \in {"200", "okSent"} \/ client[r] = "success" => tx[r] # "none"
    /\ tx[r] # "none" => server[r] \notin {"none", "arriving", "simulating", "sending"}
    /\ (server[r] = "sending" \/ tx[r] = "pending") /\ ~overtaken[r]
       => Run(asked[r].payload, accounts, now).ok
    /\ tx[r] = "reverted" => overtaken[r]

PipeInv == PipeTypeOK /\ \A r \in Request : Coherent(r)

RelayInv ==
    /\ LimiterInv /\ refused \subseteq Entry /\ now <= MaxTime
    /\ KeysInv
    /\ PipeInv

\* A request nothing happens to stays coherent.
LEMMA OthersCoherent ==
    ASSUME NEW s \in Request, Coherent(s),
           asked'[s] = asked[s], client'[s] = client[s], server'[s] = server[s],
           tx'[s] = tx[s], overtaken'[s] = overtaken[s],
           accounts' = accounts, now' = now
    PROVE  Coherent(s)'
BY DEF Coherent

LEMMA PipeKept == PipeInv /\ UNCHANGED <<pipeVars, now>> => PipeInv'
BY DEF pipeVars, PipeInv, PipeTypeOK, Coherent

\* A step that concerns one request only, and neither time nor the accounts.
LEMMA OneMoves ==
    ASSUME NEW r \in Request, PipeInv, PipeTypeOK', Coherent(r)',
           accounts' = accounts, now' = now,
           \A s \in Request \ {r} : /\ asked'[s] = asked[s] /\ client'[s] = client[s]
                                    /\ server'[s] = server[s] /\ tx'[s] = tx[s]
                                    /\ overtaken'[s] = overtaken[s]
    PROVE  PipeInv'
<1>1. ASSUME NEW s \in Request, s # r PROVE Coherent(s)'
    <2>1. Coherent(s) BY DEF PipeInv
    <2> QED BY <1>1, <2>1, OthersCoherent
<1>2. \A s \in Request : Coherent(s)' BY <1>1
<1> QED BY <1>2 DEF PipeInv

\* What the app may ask for.
LEMMA PayloadsTyped ==
    ASSUME PipeInv, KeysInv
    PROVE  Payloads \subseteq Instruction \cup {NoTx, Junk}
<1>1. scenario.payloads \subseteq Instruction \cup {NoTx, Junk}
    BY ScenarioAssumption DEF PipeInv, PipeTypeOK
<1>2. ASSUME currentInfo # NoKey
      PROVE  [op |-> "register", key |-> currentInfo.key, expires_at |-> currentInfo.expiresAt]
                \in Instruction
    <2>1. currentInfo.key \in Key /\ currentInfo.expiresAt \in Nat
        BY <1>2 DEF KeysInv, KeysTypeOK, SessionKeyInfo
    <2> QED BY <2>1 DEF Instruction
<1> QED BY <1>1, <1>2 DEF Payloads

LEMMA AskInv ==
    ASSUME PipeInv, KeysInv, NEW r \in Request, NEW ip \in scenario.from, NEW p \in Payloads,
           relayTransaction(r, ip, p)
    PROVE  PipeInv'
<1>1. ip \in Ip BY ScenarioAssumption DEF PipeInv, PipeTypeOK
<1>2. p \in Instruction \cup {NoTx, Junk} BY PayloadsTyped
<1>3. /\ client[r] = "idle"
      /\ asked' = [asked EXCEPT ![r] = [ip |-> ip, payload |-> p]]
      /\ client' = [client EXCEPT ![r] = "waiting"]
      /\ server' = [server EXCEPT ![r] = "arriving"]
      /\ UNCHANGED <<scenario, tx, overtaken, accounts, health, now>>
    BY DEF relayTransaction, limiterVars
<1>4. PipeTypeOK' BY <1>1, <1>2, <1>3 DEF PipeInv, PipeTypeOK
<1>5. tx[r] = "none" BY <1>3 DEF PipeInv, Coherent
<1>6. /\ asked'[r] = [ip |-> ip, payload |-> p] /\ client'[r] = "waiting"
      /\ server'[r] = "arriving"
    BY <1>3 DEF PipeInv, PipeTypeOK
<1>7. Coherent(r)' BY <1>1, <1>3, <1>5, <1>6 DEF Coherent
<1> QED BY <1>3, <1>4, <1>7, OneMoves DEF PipeInv, PipeTypeOK

LEMMA DisconnectInv ==
    ASSUME PipeInv, NEW r \in Request, Disconnect(r)
    PROVE  PipeInv'
<1>1. /\ client[r] = "waiting"
      /\ client' = [client EXCEPT ![r] = "failed"]
      /\ server' = IF server[r] = "arriving" THEN [server EXCEPT ![r] = "gone"] ELSE server
      /\ UNCHANGED <<scenario, asked, tx, overtaken, accounts, health, now>>
    BY DEF Disconnect, limiterVars
<1>2. PipeTypeOK' BY <1>1 DEF PipeInv, PipeTypeOK
<1>3. /\ Coherent(r) /\ client'[r] = "failed"
      /\ server'[r] = IF server[r] = "arriving" THEN "gone" ELSE server[r]
    BY <1>1 DEF PipeInv, PipeTypeOK
<1>4. Coherent(r)' BY <1>1, <1>3 DEF Coherent
<1> QED BY <1>1, <1>2, <1>4, OneMoves DEF PipeInv, PipeTypeOK

\* index.ts 65-96: only a transaction gets past the first checks.
LEMMA ReceiveInv ==
    ASSUME PipeInv, NEW r \in Request, Receive(r)
    PROVE  PipeInv'
<1> DEFINE next == CASE asked[r].payload = NoTx -> "400"
                     [] asked[r].payload = Junk -> "500"
                     [] OTHER -> "simulating"
<1>1. next \in {"400", "500", "simulating"} /\ (next = "simulating" => asked[r].payload \in Instruction)
    BY DEF PipeInv, PipeTypeOK
<1>2. /\ server[r] = "arriving"
      /\ server' = [server EXCEPT ![r] = next] \/ server' = [server EXCEPT ![r] = "429"]
      /\ UNCHANGED <<scenario, asked, client, tx, overtaken, accounts, health, now>>
    BY DEF Receive, Status, Admit, Refuse
<1> HIDE DEF next
<1>3. PipeTypeOK' BY <1>1, <1>2 DEF PipeInv, PipeTypeOK, Answers
<1>4. Coherent(r) /\ server'[r] \in {"400", "429", "500", "simulating"}
      /\ (server'[r] = "simulating" => asked[r].payload \in Instruction)
    BY <1>1, <1>2 DEF PipeInv, PipeTypeOK
<1>5. tx[r] = "none" /\ client[r] # "idle" /\ asked[r].ip \in Ip
    <2>1. tx[r] = "none" BY <1>2, <1>4 DEF PipeInv, PipeTypeOK, Coherent
    <2> QED BY <1>2, <1>4, <2>1 DEF Coherent
<1>6. Coherent(r)' BY <1>2, <1>4, <1>5 DEF Coherent
<1> QED BY <1>2, <1>3, <1>6, OneMoves DEF PipeInv, PipeTypeOK

\* index.ts 98-106: what goes on to be sent succeeded on the accounts of the time.
LEMMA SimulateInv ==
    ASSUME PipeInv, NEW r \in Request, Simulate(r)
    PROVE  PipeInv'
<1> DEFINE ok == Run(asked[r].payload, accounts, now).ok
<1>1. /\ server[r] = "simulating"
      /\ \/ server' = [server EXCEPT ![r] = IF ok THEN "sending" ELSE "400"]
         \/ server' = [server EXCEPT ![r] = "500"]
      /\ overtaken' = [overtaken EXCEPT ![r] = FALSE]
      /\ UNCHANGED <<scenario, asked, client, tx, accounts, health, now>>
    BY DEF Simulate, Status, limiterVars
<1> HIDE DEF ok
<1>2. PipeTypeOK' BY <1>1 DEF PipeInv, PipeTypeOK, Answers
<1>3. /\ server'[r] \in {"sending", "400", "500"} /\ (server'[r] = "sending" => ok)
      /\ client[r] \notin {"idle", "success"} /\ tx[r] = "none"
      /\ asked[r].ip \in Ip /\ asked[r].payload \in Instruction
    <2>1. Coherent(r) BY DEF PipeInv
    <2>2. server'[r] \in {"sending", "400", "500"} /\ (server'[r] = "sending" => ok)
        BY <1>1 DEF PipeInv, PipeTypeOK
    <2>3. tx[r] = "none" BY <1>1, <2>1 DEF Coherent
    <2> QED BY <1>1, <2>1, <2>2, <2>3 DEF Coherent
<1>4. Coherent(r)' BY <1>1, <1>3 DEF Coherent, ok
<1> QED BY <1>1, <1>2, <1>4, OneMoves DEF PipeInv, PipeTypeOK

LEMMA SendInv ==
    ASSUME PipeInv, NEW r \in Request, Send(r)
    PROVE  PipeInv'
<1>1. /\ server[r] = "sending"
      /\ \/ server' = [server EXCEPT ![r] = "200"] /\ tx' = [tx EXCEPT ![r] = "pending"]
         \/ /\ server' = [server EXCEPT ![r] = "500"]
            /\ tx' = [tx EXCEPT ![r] = "pending"] \/ tx' = tx
      /\ UNCHANGED <<scenario, asked, client, overtaken, accounts, health, now>>
    BY DEF Send, Status, limiterVars
<1>2. PipeTypeOK' BY <1>1 DEF PipeInv, PipeTypeOK, Answers
<1>3. Coherent(r) /\ tx[r] = "none" BY <1>1 DEF PipeInv, Coherent
<1>4. \/ server'[r] = "200" /\ tx'[r] = "pending"
      \/ server'[r] = "500" /\ tx'[r] \in {"pending", "none"}
    BY <1>1, <1>3 DEF PipeInv, PipeTypeOK
<1>5. Coherent(r)' BY <1>1, <1>3, <1>4 DEF Coherent
<1> QED BY <1>1, <1>2, <1>5, OneMoves DEF PipeInv, PipeTypeOK

LEMMA AnswerInv ==
    ASSUME PipeInv, NEW r \in Request, Answer(r)
    PROVE  PipeInv'
<1> DEFINE sent == IF server[r] = "200" THEN "okSent" ELSE "errorSent"
<1>1. /\ server[r] \in Answers
      /\ server' = [server EXCEPT ![r] = sent]
      /\ UNCHANGED <<scenario, asked, client, tx, overtaken, accounts, health, now>>
    BY DEF Answer, Status, limiterVars
<1>2. sent \in OnItsWay BY DEF OnItsWay
<1>3. sent = "okSent" => server[r] = "200" OBVIOUS
<1> HIDE DEF sent
<1>4. PipeTypeOK' BY <1>1, <1>2 DEF PipeInv, PipeTypeOK
<1>5. Coherent(r) /\ server'[r] = sent BY <1>1 DEF PipeInv, PipeTypeOK
<1>6. client[r] # "idle" /\ asked[r].ip \in Ip BY <1>1, <1>5 DEF Coherent, Answers
<1>7. Coherent(r)' BY <1>1, <1>2, <1>3, <1>5, <1>6 DEF Coherent, OnItsWay
<1> QED BY <1>1, <1>4, <1>7, OneMoves DEF PipeInv, PipeTypeOK

\* relayer.ts 41-54: success is what the app makes of a 200, and of nothing else.
LEMMA DeliverInv ==
    ASSUME PipeInv, NEW r \in Request, Deliver(r)
    PROVE  PipeInv'
<1>1. /\ server[r] \in OnItsWay
      /\ server' = [server EXCEPT ![r] = "gone"]
      /\ client' = IF client[r] = "waiting"
                   THEN [client EXCEPT ![r] = IF server[r] = "okSent" THEN "success" ELSE "failed"]
                   ELSE client
      /\ UNCHANGED <<scenario, asked, tx, overtaken, accounts, health, now>>
    BY DEF Deliver, Status, limiterVars
<1>2. PipeTypeOK' BY <1>1 DEF PipeInv, PipeTypeOK
<1>3. Coherent(r) /\ client[r] # "idle" BY <1>1 DEF PipeInv, Coherent, OnItsWay
<1>4. /\ server'[r] = "gone" /\ client'[r] # "idle"
      /\ client'[r] = "success" => client[r] = "success" \/ server[r] = "okSent"
    BY <1>1, <1>3 DEF PipeInv, PipeTypeOK
<1>5. asked[r].ip \in Ip BY <1>1, <1>3 DEF Coherent, OnItsWay
<1>6. Coherent(r)' BY <1>1, <1>3, <1>4, <1>5 DEF Coherent
<1> QED BY <1>1, <1>2, <1>6, OneMoves DEF PipeInv, PipeTypeOK

\* External.  A transaction the network executes was simulated; unless it was
\* overtaken it does what it did then.  What it changes overtakes the others.
LEMMA LandInv ==
    ASSUME PipeInv, now \in Nat, NEW r \in Request, Land(r)
    PROVE  PipeInv'
<1> DEFINE outcome == Run(asked[r].payload, accounts, now)
           after == IF outcome.ok THEN "landed" ELSE "reverted"
<1>1. /\ tx[r] = "pending"
      /\ tx' = [tx EXCEPT ![r] = after]
      /\ accounts' = outcome.accounts
      /\ overtaken' = [s \in Request |-> overtaken[s] \/ (s # r /\ accounts' # accounts)]
      /\ UNCHANGED <<scenario, asked, client, server, health, now>>
    BY DEF Land, Overtake, limiterVars
<1>2. Coherent(r) /\ asked[r].payload \in Instruction
    BY <1>1 DEF PipeInv, Coherent
<1>3. WellFormed(accounts')
    BY <1>1, <1>2, RunKeeps DEF PipeInv, PipeTypeOK
<1>4. after \in {"landed", "reverted"} /\ (after = "reverted" => ~outcome.ok) OBVIOUS
<1>5. after = "reverted" => overtaken[r] BY <1>1, <1>2, <1>4 DEF Coherent
<1> HIDE DEF after, outcome
<1>6. PipeTypeOK' BY <1>1, <1>3, <1>4 DEF PipeInv, PipeTypeOK
<1>7. tx'[r] = after /\ overtaken'[r] = overtaken[r]
    BY <1>1 DEF PipeInv, PipeTypeOK
<1>8. server[r] \notin {"none", "arriving", "simulating", "sending"} BY <1>1, <1>2 DEF Coherent
<1>9. Coherent(r)' BY <1>1, <1>2, <1>4, <1>5, <1>7, <1>8 DEF Coherent
<1>10. ASSUME NEW s \in Request, s # r PROVE Coherent(s)'
    <2>1. Coherent(s) /\ tx'[s] = tx[s] BY <1>1, <1>10 DEF PipeInv, PipeTypeOK
    <2>2. CASE accounts' = accounts
        <3>1. overtaken'[s] = overtaken[s] BY <1>1, <2>2 DEF PipeInv, PipeTypeOK
        <3> QED BY <1>1, <2>1, <2>2, <3>1, OthersCoherent
    <2>3. CASE accounts' # accounts
        <3>1. overtaken'[s] = TRUE BY <1>1, <1>10, <2>3
        <3> QED BY <1>1, <2>1, <3>1 DEF Coherent
    <2> QED BY <2>2, <2>3
<1>11. \A s \in Request : Coherent(s)' BY <1>9, <1>10
<1> QED BY <1>6, <1>11 DEF PipeInv

LEMMA ExpireInv ==
    ASSUME PipeInv, NEW r \in Request, Expire(r)
    PROVE  PipeInv'
<1>1. /\ tx[r] = "pending" /\ tx' = [tx EXCEPT ![r] = "dropped"]
      /\ UNCHANGED <<scenario, asked, client, server, overtaken, accounts, health, now>>
    BY DEF Expire, limiterVars
<1>2. PipeTypeOK' BY <1>1 DEF PipeInv, PipeTypeOK
<1>3. Coherent(r) /\ tx'[r] = "dropped" BY <1>1 DEF PipeInv, PipeTypeOK
<1>4. Coherent(r)' BY <1>1, <1>3 DEF Coherent
<1> QED BY <1>1, <1>2, <1>4, OneMoves DEF PipeInv, PipeTypeOK

\* index.ts 18-23, 108: a restart forgets what the server was at; what it was
\* sending was simulated, and may be on the network.
LEMMA RestartServerInv ==
    ASSUME PipeInv, RestartServer
    PROVE  PipeInv'
<1>1. PICK sent \in SUBSET {r \in Request : server[r] = "sending"} :
        tx' = [r \in Request |-> IF r \in sent THEN "pending" ELSE tx[r]]
    BY DEF RestartServer
<1>2. /\ server' = [r \in Request |-> IF AtServer(r) THEN "gone" ELSE server[r]]
      /\ client' = [r \in Request |-> IF AtServer(r) /\ client[r] = "waiting"
                                      THEN "failed" ELSE client[r]]
      /\ UNCHANGED <<scenario, asked, overtaken, accounts, health, now>>
    BY DEF RestartServer, Restart
<1>3. PipeTypeOK' BY <1>1, <1>2 DEF PipeInv, PipeTypeOK
<1>4. ASSUME NEW r \in Request PROVE Coherent(r)'
    <2>1. Coherent(r) BY DEF PipeInv
    <2>2. /\ server'[r] = IF AtServer(r) THEN "gone" ELSE server[r]
          /\ client'[r] = IF AtServer(r) /\ client[r] = "waiting" THEN "failed" ELSE client[r]
          /\ tx'[r] = IF r \in sent THEN "pending" ELSE tx[r]
          /\ r \in sent => server[r] = "sending"
        BY <1>1, <1>2
    <2>3. CASE r \in sent
        <3>1. /\ server[r] = "sending" /\ AtServer(r) /\ server'[r] = "gone" /\ tx'[r] = "pending"
              /\ client[r] # "idle" /\ asked[r].payload \in Instruction /\ asked[r].ip \in Ip
              /\ ~overtaken[r] => Run(asked[r].payload, accounts, now).ok
            BY <2>1, <2>2, <2>3 DEF Coherent, AtServer
        <3>2. client'[r] # "idle" BY <2>2, <3>1
        <3> QED BY <1>2, <3>1, <3>2 DEF Coherent
    <2>4. CASE r \notin sent /\ AtServer(r)
        <3>1. server'[r] = "gone" /\ tx'[r] = tx[r] /\ server[r] # "none"
              /\ (client'[r] = "idle" => client[r] = "idle")
              /\ (client'[r] = "success" => client[r] = "success")
            BY <2>2, <2>4 DEF AtServer, Answers
        <3> QED BY <1>2, <2>1, <3>1 DEF Coherent
    <2>5. CASE r \notin sent /\ ~AtServer(r)
        <3>1. server'[r] = server[r] /\ tx'[r] = tx[r] /\ client'[r] = client[r] BY <2>2, <2>5
        <3> QED BY <1>2, <2>1, <3>1 DEF Coherent
    <2> QED BY <2>3, <2>4, <2>5
<1> QED BY <1>3, <1>4 DEF PipeInv

LEMMA TickInv ==
    ASSUME PipeInv, Tick
    PROVE  PipeInv'
<1>1. /\ overtaken' = [r \in Request |-> TRUE]
      /\ UNCHANGED <<scenario, asked, client, server, tx, accounts, health>>
    BY DEF Tick
<1>2. PipeTypeOK' BY <1>1 DEF PipeInv, PipeTypeOK
<1>3. ASSUME NEW r \in Request PROVE Coherent(r)'
    BY <1>1 DEF PipeInv, Coherent
<1> QED BY <1>2, <1>3 DEF PipeInv

LEMMA HealthInv ==
    ASSUME PipeInv, now \in Nat, Health
    PROVE  PipeInv'
<1>1. PICK before, after :
        /\ HealthStep(before, after)
        /\ after \in {"asked", "answering", "erring", "online", "offline"}
    BY DEF Health, checkRelayerHealth, GetBalance, HealthAnswer, HealthLost, HealthExpired
<1>2. /\ health' = [state |-> after, since |-> IF before = "idle" THEN now ELSE health.since]
      /\ UNCHANGED <<scenario, asked, client, server, tx, overtaken, accounts, now>>
    BY <1>1 DEF HealthStep, limiterVars
<1>3. PipeTypeOK' BY <1>1, <1>2 DEF PipeInv, PipeTypeOK
<1>4. ASSUME NEW r \in Request PROVE Coherent(r)'
    BY <1>2 DEF PipeInv, Coherent
<1> QED BY <1>3, <1>4 DEF PipeInv

-----------------------------------------------------------------------------
(* The composition *)

\* The limiter the requests pass through takes the steps of the limiter alone.
LEMMA LimiterSteps == RelayInv /\ [Next]_relayVars => [LimiterNext]_limiterVars
<1> SUFFICES ASSUME RelayInv, [Next]_relayVars, limiterVars' # limiterVars PROVE LimiterNext
    OBVIOUS
<1>1. ASSUME NEW r \in Request, Receive(r) PROVE LimiterNext
    <2>1. asked[r].ip \in Ip BY <1>1 DEF Receive, RelayInv, PipeInv, Coherent
    <2>2. checkRateLimit(asked[r].ip, r) BY <1>1 DEF Receive, checkRateLimit
    <2> QED BY <2>1, <2>2 DEF LimiterNext
<1>2. ASSUME NEW r \in Request, Pipeline(r) PROVE LimiterNext
    BY <1>1, <1>2 DEF Pipeline, relayTransaction, Disconnect, Simulate, Send, Answer,
                      Deliver, Land, Expire
<1>3. CASE RestartServer BY <1>3 DEF RestartServer, LimiterNext
<1>4. CASE CleanUpMap BY <1>4 DEF CleanUpMap, LimiterNext
<1>5. CASE Tick BY <1>5 DEF Tick, LimiterNext
<1>6. ASSUME Health PROVE LimiterNext
    BY <1>6 DEF Health, checkRelayerHealth, GetBalance, HealthAnswer, HealthLost, HealthExpired,
                HealthStep
<1>7. ASSUME KeyStep PROVE LimiterNext BY <1>7 DEF KeyStep
<1> QED BY <1>2, <1>3, <1>4, <1>5, <1>6, <1>7 DEF Next, relayVars

\* The checks a client was refused are entries, and time stops at its bound.
LEMMA BoundsKept ==
    ASSUME RelayInv, [LimiterNext]_limiterVars
    PROVE  refused' \subseteq Entry /\ now' <= MaxTime
<1> USE DEF RelayInv, LimiterInv, LimiterTypeOK
<1>1. CASE \E ip \in Ip, id \in Request : checkRateLimit(ip, id)
    <2>1. PICK ip \in Ip, id \in Request : checkRateLimit(ip, id) BY <1>1
    <2>2. Check(ip, id) \in Entry BY CheckIsEntry
    <2> QED BY <2>1, <2>2 DEF checkRateLimit, Admit, Refuse
<1>2. CASE CleanUp \/ Restart BY <1>2 DEF CleanUp, Restart
<1>3. CASE Elapse BY <1>3, LimiterAssumption DEF Elapse, Advance
<1>4. CASE UNCHANGED limiterVars BY <1>4 DEF limiterVars
<1> QED BY <1>1, <1>2, <1>3, <1>4 DEF LimiterNext

LEMMA RelayInitInv == Init => RelayInv
<1> SUFFICES ASSUME Init PROVE RelayInv OBVIOUS
<1>1. LimiterInv BY InitInv DEF Init
<1>2. refused \subseteq Entry /\ now <= MaxTime BY LimiterAssumption DEF Init, LimiterInit
<1>3. KeysInv BY KeysInitInv DEF Init
<1>4. PipeTypeOK
    <2>1. WellFormed(accounts) BY ScenarioAssumption DEF Init, WellFormed
    <2> QED BY <2>1 DEF Init, PipeTypeOK, NotYet, Silent
<1>5. ASSUME NEW r \in Request PROVE Coherent(r)
    BY DEF Init, Coherent
<1> QED BY <1>1, <1>2, <1>3, <1>4, <1>5 DEF RelayInv, PipeInv

LEMMA RelayNextInv == RelayInv /\ [Next]_relayVars => RelayInv'
<1> SUFFICES ASSUME RelayInv, [Next]_relayVars PROVE RelayInv' OBVIOUS
<1> USE DEF RelayInv
<1>1. [LimiterNext]_limiterVars BY LimiterSteps
<1>2. LimiterInv' BY <1>1, NextInv
<1>3. refused' \subseteq Entry /\ now' <= MaxTime BY <1>1, BoundsKept
<1>4. now \in Nat BY DEF LimiterInv, LimiterTypeOK
<1> SUFFICES KeysInv' /\ PipeInv' BY <1>2, <1>3
<1>5. ASSUME NEW r \in Request, Pipeline(r) PROVE KeysInv' /\ PipeInv'
    <2>1. KeysInv'
        BY <1>5, KeysKept DEF Pipeline, relayTransaction, Disconnect, Receive, Simulate, Send,
                              Answer, Deliver, Land, Expire
    <2>2. ASSUME NEW ip \in scenario.from, NEW p \in Payloads, relayTransaction(r, ip, p)
          PROVE  PipeInv'
        BY <2>2, AskInv
    <2>3. PipeInv'
        BY <1>4, <1>5, <2>2, DisconnectInv, ReceiveInv, SimulateInv, SendInv, AnswerInv,
           DeliverInv, LandInv, ExpireInv DEF Pipeline
    <2> QED BY <2>1, <2>3
<1>6. CASE RestartServer
    BY <1>6, KeysKept, RestartServerInv DEF RestartServer
<1>7. CASE CleanUpMap BY <1>7, KeysKept, PipeKept DEF CleanUpMap, CleanUp
<1>8. CASE Tick BY <1>8, KeysKept, TickInv DEF Tick
<1>9. CASE Health
    <2>1. UNCHANGED keyVars
        BY <1>9 DEF Health, checkRelayerHealth, GetBalance, HealthAnswer, HealthLost,
                    HealthExpired, HealthStep
    <2> QED BY <1>4, <1>9, <2>1, KeysKept, HealthInv
<1>10. CASE KeyStep
    BY <1>4, <1>10, KeyStepInv, PipeKept DEF KeyStep, limiterVars
<1>11. CASE UNCHANGED relayVars
    BY <1>11, KeysKept, PipeKept DEF relayVars, limiterVars
<1> QED BY <1>5, <1>6, <1>7, <1>8, <1>9, <1>10, <1>11 DEF Next

\* The inductive invariant of the pipeline, in every reachable state.
THEOREM RelayInvariant == Spec => []RelayInv
<1>1. Init => RelayInv BY RelayInitInv
<1>2. RelayInv /\ [Next]_relayVars => RelayInv' BY RelayNextInv
<1> QED BY <1>1, <1>2, PTL DEF Spec

\* The type invariant of the pipeline, of the limiter's map and history and of
\* the session key, for every scenario and every length of a run.
THEOREM RelayTypes == Spec => []RelayTypeOK
<1>1. RelayInv => RelayTypeOK
    BY LimiterAssumption
    DEF RelayInv, LimiterInv, LimiterTypeOK, KeysInv, KeysTypeOK, PipeInv, PipeTypeOK,
        WellFormed, RelayTypeOK
<1> QED BY <1>1, RelayInvariant, PTL

\* session-keys.ts 36-131: the stored copy of the key follows the one in memory.
THEOREM RefreshFindsTheKey == Spec => []MemoryMatchesStorage
<1>1. RelayInv => MemoryMatchesStorage BY DEF RelayInv, KeysInv
<1> QED BY <1>1, RelayInvariant, PTL

\* index.ts 65-119 and relayer.ts 41-61: the app reports success only for a
\* transaction that went to the network, whatever is lost and restarted.
THEOREM SuccessMeansBroadcast == Spec => []SuccessWasBroadcast
<1>1. RelayInv => SuccessWasBroadcast
    BY ScenarioAssumption DEF RelayInv, PipeInv, Coherent, SuccessWasBroadcast
<1> QED BY <1>1, RelayInvariant, PTL

\* index.ts 98-106: a transaction the relayer pays for reverts only if time or
\* the accounts moved on after its simulation.
THEOREM RevertsOnlyIfOvertaken == Spec => []RevertedOnlyIfOvertaken
<1>1. RelayInv => RevertedOnlyIfOvertaken
    BY DEF RelayInv, PipeInv, Coherent, RevertedOnlyIfOvertaken
<1> QED BY <1>1, RelayInvariant, PTL

\* bond_management.rs 32-151: whatever instructions are executed in whatever
\* order on whichever accounts, the bonds cover their minimum until some merchant
\* begins to close.
THEOREM BondsHold == Spec => []BondsHoldUntilAClose
<1>1. RelayInv => BondsHoldUntilAClose
    BY DEF RelayInv, PipeInv, PipeTypeOK, WellFormed, BondsHoldUntilAClose
<1> QED BY <1>1, RelayInvariant, PTL

\* Composed with the requests, the server, the network and the chain, the
\* limiter does what it does alone: so what is proved of it holds of the relayer.
THEOREM RelayKeepsLimiter == Spec => LimiterSpec
<1>1. Init => now = 0 /\ LimiterInit BY DEF Init
<1>2. RelayInv /\ [Next]_relayVars => [LimiterNext]_limiterVars BY LimiterSteps
<1> QED BY <1>1, <1>2, RelayInvariant, PTL DEF Spec, LimiterSpec

\* index.ts 22-45: no window of time holds more admitted requests of a client
\* than the limit, in the relayer as a whole.
THEOREM RelayLimitHolds == Spec => []LimitHolds
BY RelayKeepsLimiter, LimitHoldsAlways, PTL

\* The relayer as a whole makes the decisions of the abstract sliding window.
THEOREM RelaySlidesTheWindow == Spec => SlidesTheWindow
BY RelayKeepsLimiter, LimiterRefines, PTL

=============================================================================

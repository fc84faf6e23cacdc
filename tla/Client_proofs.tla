---------------------------- MODULE Client_proofs ----------------------------
(***************************************************************************)
(* Proofs about the app in one browser tab, for every set of accounts,     *)
(* builds and addresses, every number of writes, of requests in flight and *)
(* of timers.  The invariant has a part for each module: what the provider *)
(* has and what is saved, the addresses the mounted hook may still get     *)
(* answers about, and the timers of the scan page.  The layouts need no    *)
(* invariant: that the decoders read them right is a theorem about any     *)
(* struct and the readers that are its types in order.                     *)
(***************************************************************************)
EXTENDS Client, SequenceTheorems, FiniteSetTheorems, WellFoundedInduction, TLAPS

-----------------------------------------------------------------------------
(* Signing in *)

SignInTypeOK ==
    /\ env \in Envs /\ loading \in BOOLEAN
    /\ account \in Account \cup {NoAddr} /\ role \in Roles \cup {NoRole}
    /\ modal \in {"closed", "choose", "form"}
    /\ page \in Pages /\ nav \in Pages \cup {NoPage} /\ back \in Pages \cup {NoPage}
    /\ pending \in Roles \cup {NoRole} /\ confirming \in BOOLEAN
    /\ saved \in Session \cup {NoSession, Garbled} /\ foreign \in BOOLEAN

\* A role needs an account; until the session is read there is neither, nor a
\* modal; and the modal is open only while nobody is signed in.
Provider ==
    /\ account = NoAddr => role = NoRole
    /\ loading => account = NoAddr /\ modal = "closed"
    /\ modal # "closed" => account = NoAddr

SignInInv == SignInTypeOK /\ Provider /\ ReloadRestoresSession /\ SignedInLeavesLogin

LEMMA HomeIsAPage == \A r : Home(r) \in Pages
BY DEF Home, Pages, MerchantTabs, ConsumerTabs

\* auth.tsx 97-110: the role replaces that of a saved session, and of nothing else.
LEMMA WithRoleTyped ==
    ASSUME NEW r \in Roles \cup {NoRole}
    PROVE  /\ \A s \in Session \cup {NoSession, Garbled} :
                WithRole(s, r) \in Session \cup {NoSession, Garbled}
           /\ \A a \in Account, q \in Roles \cup {NoRole} :
                Saved(a, q) \in Session /\ WithRole(Saved(a, q), r) = Saved(a, r)
<1>1. \A s \in Session : [s EXCEPT !.role = r] \in Session BY DEF Session
<1>2. \A a \in Account, q \in Roles \cup {NoRole} :
        Saved(a, q) \in Session /\ [Saved(a, q) EXCEPT !.role = r] = Saved(a, r)
    BY DEF Session, Saved
<1> QED BY <1>1, <1>2 DEF WithRole

\* Where the login page sends a user is a page.
LEMMA EffectsTyped ==
    ASSUME NEW p, NEW a, NEW r \in Roles \cup {NoRole}, NEW pend \in Roles \cup {NoRole},
           NEW n \in Pages \cup {NoPage}
    PROVE  /\ RoleAfterEffects(p, a, r, pend) \in Roles \cup {NoRole}
           /\ NavAfterEffects(p, a, r, pend, n) \in Pages \cup {NoPage}
           /\ p = "/login" /\ a # NoAddr /\ RoleAfterEffects(p, a, r, pend) # NoRole
              => NavAfterEffects(p, a, r, pend, n) = Home(RoleAfterEffects(p, a, r, pend))
BY HomeIsAPage DEF RoleAfterEffects, NavAfterEffects

LEMMA SignInInitInv == SignInInit => SignInInv
BY DEF SignInInit, SignInInv, SignInTypeOK, Provider, ReloadRestoresSession, SignedInLeavesLogin,
       Pages, MerchantTabs, ConsumerTabs

LEMMA RestoreInv == SignInInv /\ Restore => SignInInv'
<1> SUFFICES ASSUME SignInInv, Restore PROVE SignInInv' OBVIOUS
<1> USE DEF SignInInv
<1>1. CASE saved \in Session
    <2>1. /\ account' = saved.account /\ role' = saved.role /\ saved' = saved
          /\ saved.account \in Account /\ saved.role \in Roles \cup {NoRole}
          /\ saved = Saved(saved.account, saved.role)
        BY <1>1, SignInAssumption DEF Restore, Session, Saved
    <2>2. /\ loading' = FALSE /\ foreign' = FALSE
          /\ nav' = NavAfterEffects(page, account', role', NoRole, nav)
          /\ modal = "closed"
          /\ UNCHANGED <<env, modal, page, back, pending, confirming>>
        BY DEF Restore, Provider
    <2>3. RoleAfterEffects(page, account', role', NoRole) = role' BY DEF RoleAfterEffects
    <2>4. /\ nav' \in Pages \cup {NoPage}
          /\ page = "/login" /\ account' # NoAddr /\ role' # NoRole => nav' = Home(role')
        BY <2>1, <2>2, <2>3, EffectsTyped DEF SignInTypeOK
    <2> QED BY <2>1, <2>2, <2>4, SignInAssumption
            DEF SignInTypeOK, Provider, ReloadRestoresSession, SignedInLeavesLogin
<1>2. CASE saved \notin Session
    <2>1. /\ account' = NoAddr /\ role' = NoRole /\ saved' = NoSession
          /\ loading' = FALSE /\ foreign' = FALSE /\ modal = "closed"
          /\ UNCHANGED <<env, modal, page, back, pending, confirming>>
        BY <1>2 DEF Restore, SignInTypeOK, Provider
    <2>2. nav' = nav BY <2>1 DEF Restore, NavAfterEffects
    <2> QED BY <2>1, <2>2
            DEF SignInTypeOK, Provider, ReloadRestoresSession, SignedInLeavesLogin
<1> QED BY <1>1, <1>2

LEMMA ChooseRealmInv ==
    ASSUME SignInInv, NEW r \in Roles, ChooseRealm(r)
    PROVE  SignInInv'
<1> USE DEF SignInInv
<1>1. /\ page = "/login" /\ ~loading /\ modal = "closed" /\ pending' = r
      /\ UNCHANGED <<env, loading, account, page, back, confirming, foreign>>
    BY DEF ChooseRealm
<1>2. CASE account # NoAddr
    <2>1. role' = r /\ saved' = WithRole(saved, r) /\ nav' = Home(r) /\ modal' = modal
        BY <1>2 DEF ChooseRealm
    <2>2. saved' \in Session \cup {NoSession, Garbled} BY <2>1, WithRoleTyped DEF SignInTypeOK
    <2>3. ~foreign => saved' = Saved(account, r)
        <3>1. ~foreign => saved = Saved(account, role)
            BY <1>1, <1>2 DEF ReloadRestoresSession
        <3> QED BY <1>2, <2>1, <3>1, WithRoleTyped DEF SignInTypeOK
    <2> QED BY <1>1, <1>2, <2>1, <2>2, <2>3, HomeIsAPage
            DEF SignInTypeOK, Provider, ReloadRestoresSession, SignedInLeavesLogin
<1>3. CASE account = NoAddr
    BY <1>1, <1>3 DEF ChooseRealm, SignInTypeOK, Provider, ReloadRestoresSession,
                      SignedInLeavesLogin
<1> QED BY <1>2, <1>3

LEMMA handleLoginInv ==
    ASSUME SignInInv, NEW a \in Account, handleLogin(a)
    PROVE  SignInInv'
<1> USE DEF SignInInv
<1>1. /\ modal = "form" /\ modal' = "closed" /\ account' = a
      /\ role' = RoleAfterEffects(page, a, role, pending)
      /\ saved' = WithRole(Saved(a, role), role')
      /\ nav' = NavAfterEffects(page, a, role, pending, nav)
      /\ pending' = NoRole /\ foreign' = FALSE
      /\ UNCHANGED <<env, loading, page, back, confirming>>
    BY DEF handleLogin
<1>2. a # NoAddr BY SignInAssumption
<1>3. /\ role' \in Roles \cup {NoRole} /\ nav' \in Pages \cup {NoPage}
      /\ page = "/login" /\ role' # NoRole => nav' = Home(role')
    BY <1>1, <1>2, EffectsTyped DEF SignInTypeOK
<1>4. saved' = Saved(a, role') /\ saved' \in Session
    BY <1>1, <1>3, WithRoleTyped DEF SignInTypeOK
<1>5. ~loading BY <1>1 DEF Provider
<1> QED BY <1>1, <1>2, <1>3, <1>4, <1>5
        DEF SignInTypeOK, Provider, ReloadRestoresSession, SignedInLeavesLogin

LEMMA MountInv ==
    ASSUME SignInInv, NEW p \in Pages, NEW b \in Pages \cup {NoPage}, Mount(p, b)
    PROVE  SignInInv'
<1> USE DEF SignInInv
<1>1. /\ page' = p /\ back' = b /\ nav' = NavAfterEffects(p, account, role, NoRole, NoPage)
      /\ pending' = NoRole /\ confirming' = FALSE
      /\ UNCHANGED <<env, loading, account, role, modal, saved, foreign>>
    BY DEF Mount
<1>2. RoleAfterEffects(p, account, role, NoRole) = role BY DEF RoleAfterEffects
<1>3. /\ nav' \in Pages \cup {NoPage}
      /\ p = "/login" /\ account # NoAddr /\ role # NoRole => nav' = Home(role)
    BY <1>1, <1>2, EffectsTyped DEF SignInTypeOK
<1> QED BY <1>1, <1>3 DEF SignInTypeOK, Provider, ReloadRestoresSession, SignedInLeavesLogin

LEMMA OtherTabInv == SignInInv /\ OtherTab => SignInInv'
<1> SUFFICES ASSUME SignInInv, OtherTab PROVE SignInInv' OBVIOUS
<1> USE DEF SignInInv
<1>1. saved' \in Session \cup {NoSession, Garbled}
    BY WithRoleTyped DEF OtherTab, SignInTypeOK
<1> QED BY <1>1 DEF OtherTab, SignInTypeOK, Provider, ReloadRestoresSession, SignedInLeavesLogin

LEMMA SignInNextInv == SignInInv /\ SignInNext => SignInInv'
<1> SUFFICES ASSUME SignInInv, SignInNext PROVE SignInInv' OBVIOUS
<1> USE DEF SignInInv
<1>1. CASE Restore BY <1>1, RestoreInv
<1>2. CASE \E r \in Roles : ChooseRealm(r) BY <1>2, ChooseRealmInv
<1>3. CASE PickProvider \/ BackToProviders \/ CloseModal
    BY <1>3 DEF PickProvider, BackToProviders, CloseModal, SignInTypeOK, Provider,
                ReloadRestoresSession, SignedInLeavesLogin
<1>4. CASE \E a \in Account : handleLogin(a) BY <1>4, handleLoginInv
<1>5. CASE \E answer \in BOOLEAN : AskLogout(answer)
    BY <1>5 DEF AskLogout, SignInTypeOK, Provider, ReloadRestoresSession, SignedInLeavesLogin
<1>6. CASE handleLogout
    BY <1>6 DEF handleLogout, SignInTypeOK, Provider, ReloadRestoresSession,
                SignedInLeavesLogin, Pages
<1>7. CASE SwitchRole
    BY <1>7 DEF SwitchRole, SignInTypeOK, Provider, ReloadRestoresSession,
                SignedInLeavesLogin, Pages
<1>8. CASE Arrive
    <2>1. nav \in Pages /\ Mount(nav, IF nav = "/login" THEN page ELSE NoPage)
        BY <1>8 DEF Arrive, SignInTypeOK
    <2>2. (IF nav = "/login" THEN page ELSE NoPage) \in Pages \cup {NoPage}
        BY DEF SignInTypeOK
    <2> QED BY <2>1, <2>2, MountInv
<1>9. CASE \E p \in Pages : Visit(p) BY <1>9, MountInv DEF Visit
<1>10. CASE GoBack BY <1>10, MountInv DEF GoBack, SignInTypeOK
<1>11. CASE OtherTab BY <1>11, OtherTabInv
<1> QED BY <1>1, <1>2, <1>3, <1>4, <1>5, <1>6, <1>7, <1>8, <1>9, <1>10, <1>11 DEF SignInNext

LEMMA ReloadInv == SignInInv /\ Reload => SignInInv'
BY DEF Reload, SignInInv, SignInTypeOK, Provider, ReloadRestoresSession, SignedInLeavesLogin

LEMMA SignInKept == SignInInv /\ UNCHANGED signInVars => SignInInv'
BY DEF signInVars, SignInInv, SignInTypeOK, Provider, ReloadRestoresSession, SignedInLeavesLogin

-----------------------------------------------------------------------------
(* The scan page *)

ScanInv ==
    /\ scan \in {"idle", "scanning"} \cup Verdicts
    /\ verdicts \in Seq(Verdicts) /\ rests \in Nat
    /\ Len(verdicts) + rests <= MaxTimers
    /\ ScanNeverStuck

LEMMA ScanResets ==
    /\ ScanInit => ScanInv
    /\ ScanLeft => ScanInv'
<1>1. <<>> \in Seq(Verdicts) /\ Len(<<>>) + 0 <= MaxTimers
    <2>1. <<>> \in Seq(Verdicts) /\ Len(<<>>) = 0 OBVIOUS
    <2> QED BY <2>1, TimersAssumption
<1>2. ScanInit => ScanInv BY <1>1 DEF ScanInit, ScanInv, ScanNeverStuck, Verdicts
<1>3. ScanLeft => ScanInv' BY <1>1 DEF ScanLeft, ScanInv, ScanNeverStuck, Verdicts
<1> QED BY <1>2, <1>3

LEMMA ScanKept == ScanInv /\ UNCHANGED scanVars => ScanInv'
BY DEF scanVars, ScanInv, ScanNeverStuck

\* scan/page.tsx 15-23: a scan is always followed by its verdict, a verdict by
\* the return to rest.
LEMMA ScanNextInv == ScanInv /\ ScanNext => ScanInv'
<1> SUFFICES ASSUME ScanInv, ScanNext PROVE ScanInv' OBVIOUS
<1> USE DEF ScanInv
<1>1. ASSUME NEW v \in Verdicts, handleScan(v) PROVE ScanInv'
    <2>1. /\ scan' = "scanning" /\ verdicts' = Append(verdicts, v) /\ rests' = rests
          /\ Len(verdicts) + rests < MaxTimers
        BY <1>1 DEF handleScan
    <2>2. verdicts' \in Seq(Verdicts) /\ Len(verdicts') = Len(verdicts) + 1 BY <2>1
    <2>3. verdicts' # <<>> BY <2>2
    <2> QED BY <2>1, <2>2, <2>3, TimersAssumption DEF ScanNeverStuck, Verdicts
<1>2. CASE Judge
    <2>1. /\ verdicts # <<>> /\ scan' = Head(verdicts)
          /\ verdicts' = Tail(verdicts) /\ rests' = rests + 1
        BY <1>2 DEF Judge
    <2>2. /\ scan' \in Verdicts /\ verdicts' \in Seq(Verdicts)
          /\ Len(verdicts') = Len(verdicts) - 1 /\ Len(verdicts) \in Nat
        BY <2>1
    <2>3. rests' \in Nat /\ rests' > 0 /\ Len(verdicts') + rests' <= MaxTimers
        BY <2>1, <2>2, TimersAssumption
    <2> QED BY <2>2, <2>3 DEF ScanNeverStuck, Verdicts
<1>3. CASE Rest
    BY <1>3, TimersAssumption DEF Rest, ScanNeverStuck, Verdicts
<1> QED BY <1>1, <1>2, <1>3 DEF ScanNext

-----------------------------------------------------------------------------
(* Sequences of requests *)

\* RemoveAt drops one element and keeps the others.
LEMMA RemoveAtProperties ==
    ASSUME NEW S, NEW s \in Seq(S), NEW i \in DOMAIN s
    PROVE  /\ RemoveAt(s, i) \in Seq(S)
           /\ Len(RemoveAt(s, i)) = Len(s) - 1
           /\ \A j \in DOMAIN RemoveAt(s, i) : \E k \in DOMAIN s : RemoveAt(s, i)[j] = s[k]
<1> DEFINE a == SubSeq(s, 1, i - 1)
           b == SubSeq(s, i + 1, Len(s))
<1>1. i \in 1..Len(s) /\ Len(s) \in Nat OBVIOUS
<1>2. /\ a \in Seq(S) /\ Len(a) = i - 1
      /\ \A j \in 1..(i - 1) : a[j] = s[j]
    BY <1>1
<1>3. /\ b \in Seq(S) /\ Len(b) = Len(s) - i
      /\ \A j \in 1..(Len(s) - i) : b[j] = s[j + i]
    BY <1>1
<1>4. RemoveAt(s, i) = a \o b BY DEF RemoveAt
<1> HIDE DEF a, b
<1>5. /\ a \o b \in Seq(S) /\ Len(a \o b) = Len(s) - 1
      /\ \A j \in 1..(Len(s) - 1) :
            (a \o b)[j] = IF j <= i - 1 THEN a[j] ELSE b[j - (i - 1)]
    BY <1>1, <1>2, <1>3
<1>6. ASSUME NEW j \in 1..(Len(s) - 1) PROVE \E k \in DOMAIN s : (a \o b)[j] = s[k]
    <2>1. CASE j <= i - 1
        <3>1. (a \o b)[j] = s[j] /\ j \in DOMAIN s BY <1>1, <1>2, <1>5, <2>1
        <3> QED BY <3>1
    <2>2. CASE ~(j <= i - 1)
        <3>1. j - (i - 1) \in 1..(Len(s) - i) /\ (j - (i - 1)) + i = j + 1 BY <1>1, <2>2
        <3>2. (a \o b)[j] = b[j - (i - 1)] BY <1>5, <2>2
        <3>3. b[j - (i - 1)] = s[j + 1] BY <1>3, <3>1
        <3>4. j + 1 \in DOMAIN s BY <1>1
        <3> QED BY <3>2, <3>3, <3>4
    <2> QED BY <2>1, <2>2
<1>7. DOMAIN (a \o b) = 1..(Len(s) - 1) BY <1>1, <1>5
<1> QED BY <1>4, <1>5, <1>6, <1>7

\* Every request of a queue is about an address of A.
About(s, A) == \A i \in DOMAIN s : s[i].of \in A

LEMMA AboutNothing == \A A : About(<<>>, A)
BY DEF About

LEMMA RemoveAbout ==
    ASSUME NEW A, NEW s \in Seq(Request), About(s, A), NEW i \in DOMAIN s
    PROVE  About(RemoveAt(s, i), A)
<1> SUFFICES ASSUME NEW j \in DOMAIN RemoveAt(s, i) PROVE RemoveAt(s, i)[j].of \in A
    BY DEF About
<1>1. PICK k \in DOMAIN s : RemoveAt(s, i)[j] = s[k] BY RemoveAtProperties
<1> QED BY <1>1 DEF About

\* The effect's fetch is one request about the address, or none without one.
LEMMA AskedProperties ==
    ASSUME NEW a \in Addr \cup {NoAddr}, NEW s \in Seq(Request)
    PROVE  /\ Asked(a) \in Seq(Request) /\ s \o Asked(a) \in Seq(Request)
           /\ Len(Asked(a)) \in Nat /\ Len(Asked(a)) <= 1
           /\ Len(s \o Asked(a)) <= Len(s) + 1
           /\ \A A : a \in A => About(Asked(a), A)
           /\ \A A : About(s, A) /\ a \in A => About(s \o Asked(a), A)
           /\ a = NoAddr => Asked(a) = <<>> /\ s \o Asked(a) = s
<1>1. CASE a = NoAddr
    <2>1. Asked(a) = <<>> /\ s \o <<>> = s /\ Len(<<>>) = 0 /\ Len(s) \in Nat
        BY <1>1 DEF Asked
    <2> QED BY <2>1, AboutNothing
<1>2. CASE a # NoAddr
    <2> DEFINE q == [of |-> a, reply |-> Waiting]
    <2>1. q \in Request /\ q.of = a BY <1>2 DEF Request
    <2>2. Asked(a) = <<q>> BY <1>2 DEF Asked
    <2> HIDE DEF q
    <2>3. /\ <<q>> \in Seq(Request) /\ Len(<<q>>) = 1
          /\ s \o <<q>> \in Seq(Request) /\ Len(s \o <<q>>) = Len(s) + 1
          /\ Len(s) \in Nat
        BY <2>1
    <2>4. /\ DOMAIN <<q>> = {1} /\ <<q>>[1] = q OBVIOUS
    <2>5. \A i \in DOMAIN (s \o <<q>>) : (s \o <<q>>)[i] = q \/ (\E k \in DOMAIN s : (s \o <<q>>)[i] = s[k])
        <3> TAKE i \in DOMAIN (s \o <<q>>)
        <3>1. i \in 1..(Len(s) + 1) BY <2>3
        <3>2. CASE i <= Len(s)
            <4>1. i \in DOMAIN s /\ (s \o <<q>>)[i] = s[i] BY <2>1, <2>3, <3>1, <3>2
            <4> QED BY <4>1
        <3>3. CASE i = Len(s) + 1
            BY <2>3, <3>3
        <3> QED BY <2>3, <3>1, <3>2, <3>3
    <2>6. \A A : a \in A => About(<<q>>, A) BY <2>1, <2>4 DEF About
    <2>7. ASSUME NEW A, About(s, A), a \in A PROVE About(s \o <<q>>, A)
        BY <2>1, <2>5, <2>7 DEF About
    <2> QED BY <1>2, <2>2, <2>3, <2>6, <2>7
<1> QED BY <1>1, <1>2

-----------------------------------------------------------------------------
(* Whose data the hook may still get *)

\* Nobody is signed in, and somebody may be without the page being left.
Early == loading \/ modal # "closed"

\* The addresses whose answers can still reach the hook: of the account and the
\* build; after a sign-out any, until the page is left to sign in again.
Owners ==
    IF Early THEN {env}
    ELSE IF account # NoAddr THEN {account, env} ELSE Addr \cup {NoAddr}

\* One request more for each change of the wallet a page may live through.
Allowance ==
    IF Early THEN MaxInFlight
    ELSE IF account # NoAddr THEN MaxInFlight + 1 ELSE MaxInFlight + 2

FeedTypeOK ==
    /\ hook \in Hooks /\ chain \in [Addr -> Version]
    /\ shown \in Data \cup {Loading, Missing, Errored}
    /\ flight \in Seq(Request)

FeedInv ==
    /\ FeedTypeOK
    /\ ~Mounted(page) => shown = Loading /\ flight = <<>>
    /\ Len(flight) <= Allowance
    /\ About(flight, Owners)
    /\ shown \in Data => shown.of \in Owners
    /\ hook \in OwnFlag => About(flight, {Given})

LEMMA AboutMore == \A s, A, B : About(s, A) /\ A \subseteq B => About(s, B)
BY DEF About

LEMMA AllowanceAtLeast ==
    /\ Allowance \in Nat /\ Allowance >= MaxInFlight
    /\ Allowance' \in Nat /\ Allowance' >= MaxInFlight
BY FeedAssumption DEF Allowance

\* The address a page gives a hook is one the hook may ask about.
LEMMA GivenOwned ==
    /\ SignInInv => Given \in Addr \cup {NoAddr} /\ (Given # NoAddr => Given \in Owners)
    /\ SignInInv' => Given' \in Addr \cup {NoAddr} /\ (Given' # NoAddr => Given' \in Owners')
<1>1. SignInInv => Given \in Addr \cup {NoAddr} /\ (Given # NoAddr => Given \in Owners)
    BY FeedAssumption
    DEF SignInInv, SignInTypeOK, Provider, Given, HookArgument, useWallet, Owners, Early
<1>2. SignInInv' => Given' \in Addr \cup {NoAddr} /\ (Given' # NoAddr => Given' \in Owners')
    BY FeedAssumption
    DEF SignInInv, SignInTypeOK, Provider, Given, HookArgument, useWallet, Owners, Early
<1> QED BY <1>1, <1>2

\* No hook lives on the login page.
LEMMA LoginUnmounted == hook \in Hooks => ~Mounted("/login")
BY DEF Hooks, SharedFlag, OwnFlag, Mounted, HookPages

\* While a page other than the login page stays, an account appears only where
\* one could, or disappears; what the hook may get, and has room for, grows.
LEMMA WalletMoves ==
    ASSUME SignInInv, SignInNext, page' = page, page # "/login"
    PROVE  /\ env' = env
           /\ \/ account' = account /\ (Early' => Early)
              \/ Early /\ account = NoAddr /\ ~Early'
              \/ account' = NoAddr /\ account # NoAddr /\ ~Early /\ ~Early'
<1> USE DEF SignInInv
<1>1. CASE Restore
    BY <1>1 DEF Restore, Early, Provider
<1>2. CASE \E r \in Roles : ChooseRealm(r) BY <1>2 DEF ChooseRealm
<1>3. CASE PickProvider \/ BackToProviders \/ CloseModal
    BY <1>3 DEF PickProvider, BackToProviders, CloseModal, Early
<1>4. CASE \E a \in Account : handleLogin(a)
    BY <1>4 DEF handleLogin, Early, Provider
<1>5. CASE \E answer \in BOOLEAN : AskLogout(answer) BY <1>5 DEF AskLogout, Early
<1>6. CASE handleLogout BY <1>6 DEF handleLogout, Early, Provider
<1>7. CASE SwitchRole BY <1>7 DEF SwitchRole, Early
<1>8. CASE Arrive \/ GoBack \/ (\E p \in Pages : Visit(p))
    BY <1>8 DEF Arrive, GoBack, Visit, Mount, Early
<1>9. CASE OtherTab BY <1>9 DEF OtherTab, Early
<1> QED BY <1>1, <1>2, <1>3, <1>4, <1>5, <1>6, <1>7, <1>8, <1>9 DEF SignInNext

LEMMA MovesWiden ==
    ASSUME SignInInv, SignInInv', SignInNext, page' = page, page # "/login", hook' = hook
    PROVE  /\ Owners \subseteq Owners'
           /\ Allowance <= Allowance'
           /\ Given' # Given => Allowance + 1 <= Allowance'
<1>1. /\ env' = env
      /\ \/ account' = account /\ (Early' => Early)
         \/ Early /\ account = NoAddr /\ ~Early'
         \/ account' = NoAddr /\ account # NoAddr /\ ~Early /\ ~Early'
    BY WalletMoves
<1>2. /\ env \in Addr \cup {NoAddr} /\ account \in Addr \cup {NoAddr}
      /\ Early => account = NoAddr
    BY FeedAssumption DEF SignInInv, SignInTypeOK, Provider, Early
<1>3. Given' # Given => account' # account
    BY <1>1 DEF Given, HookArgument, useWallet
<1>4. Owners \subseteq Owners'
    <2> HIDE DEF Early
    <2> QED BY <1>1, <1>2 DEF Owners
<1>5. MaxInFlight \in Nat BY FeedAssumption
<1>6. Allowance <= Allowance' BY <1>1, <1>2, <1>5 DEF Allowance
<1>7. account' # account => Allowance + 1 <= Allowance'
    BY <1>1, <1>2, <1>5 DEF Allowance
<1> QED BY <1>3, <1>4, <1>6, <1>7

-----------------------------------------------------------------------------
(* The hook follows the page and the wallet *)

\* hooks.ts: a fresh state and at most one request, about an address of its own.
LEMMA MountFeedInv ==
    ASSUME SignInInv', hook' = hook, hook \in Hooks, chain' \in [Addr -> Version],
           Mounted(page)', MountFeed(Given')
    PROVE  FeedInv'
<1> DEFINE a == Given'
<1>1. a \in Addr \cup {NoAddr} /\ (a # NoAddr => a \in Owners') BY GivenOwned
<1>2. shown' = (IF a = NoAddr THEN Missing ELSE Loading) /\ flight' = Asked(a)
    BY DEF MountFeed
<1> HIDE DEF a
<1>3. <<>> \in Seq(Request) OBVIOUS
<1>4. flight' \in Seq(Request) /\ Len(flight') \in Nat /\ Len(flight') <= 1
    BY <1>1, <1>2, <1>3, AskedProperties
<1>5. Len(flight') <= Allowance' BY <1>4, AllowanceAtLeast, FeedAssumption
<1>6. About(flight', Owners')
    <2>1. CASE a = NoAddr
        <3>1. flight' = <<>> BY <1>2, <2>1 DEF Asked
        <3> QED BY <3>1, AboutNothing
    <2>2. CASE a # NoAddr BY <1>1, <1>2, <1>3, <2>2, AskedProperties
    <2> QED BY <2>1, <2>2
<1>7. About(flight', {a}) BY <1>1, <1>2, <1>3, AskedProperties
<1>8. shown' \in {Loading, Missing} /\ shown' \notin Data BY <1>2, FeedAssumption
<1>9. FeedTypeOK' BY <1>4, <1>8 DEF FeedTypeOK
<1>10. (About(flight, Owners))' /\ (About(flight, {Given}))'
    BY <1>6, <1>7 DEF About, a
<1> QED BY <1>5, <1>8, <1>9, <1>10 DEF FeedInv

LEMMA UnmountFeedInv ==
    ASSUME hook' = hook, hook \in Hooks, chain' \in [Addr -> Version], UnmountFeed
    PROVE  FeedInv'
<1>1. shown' = Loading /\ flight' = <<>> BY DEF UnmountFeed
<1>2. flight' \in Seq(Request) /\ Len(flight') = 0 BY <1>1
<1>3. Len(flight') <= Allowance' BY <1>2, AllowanceAtLeast, FeedAssumption
<1>4. (About(flight, Owners))' /\ (About(flight, {Given}))' BY <1>1 DEF About
<1>5. FeedTypeOK' /\ shown' \notin Data BY <1>1, <1>2, FeedAssumption DEF FeedTypeOK
<1> QED BY <1>1, <1>3, <1>4, <1>5 DEF FeedInv

\* hooks.ts: the effect runs again for another address; requests under the shared
\* flag still count, those under a flag of the effect's own do not.
LEMMA RerunInv ==
    ASSUME SignInInv, SignInInv', FeedInv, SignInNext, hook' = hook, chain' = chain,
           page' = page, Mounted(page), Given' # Given, Rerun(Given')
    PROVE  FeedInv'
<1> DEFINE a == Given'
           kept == IF hook \in SharedFlag THEN flight ELSE <<>>
<1>1. page # "/login" BY LoginUnmounted DEF FeedInv, FeedTypeOK
<1>2. Owners \subseteq Owners' /\ Allowance + 1 <= Allowance' BY <1>1, MovesWiden
<1>3. a \in Addr \cup {NoAddr} /\ (a # NoAddr => a \in Owners') BY GivenOwned
<1>4. shown' = (IF a = NoAddr THEN Missing ELSE shown) /\ flight' = kept \o Asked(a)
    BY DEF Rerun
<1>5. /\ kept \in Seq(Request) /\ Len(kept) \in Nat /\ Len(kept) <= Allowance
      /\ About(kept, Owners)
    <2>1. CASE hook \in SharedFlag
        <3>1. kept = flight BY <2>1
        <3>2. Len(flight) \in Nat BY DEF FeedInv, FeedTypeOK
        <3> HIDE DEF kept
        <3> QED BY <3>1, <3>2 DEF FeedInv, FeedTypeOK
    <2>2. CASE hook \notin SharedFlag
        <3>1. kept = <<>> BY <2>2
        <3> HIDE DEF kept
        <3>2. kept \in Seq(Request) /\ Len(kept) = 0 BY <3>1
        <3>3. About(kept, Owners) BY <3>1, AboutNothing
        <3> QED BY <3>2, <3>3, AllowanceAtLeast, FeedAssumption
    <2> QED BY <2>1, <2>2
<1>6. hook \in OwnFlag => kept = <<>> BY DEF SharedFlag, OwnFlag
<1> HIDE DEF a, kept
<1>7. About(kept, Owners') BY <1>2, <1>5, AboutMore
<1>8. About(flight', Owners')
    <2>1. CASE a = NoAddr BY <1>3, <1>4, <1>5, <1>7, <2>1, AskedProperties
    <2>2. CASE a # NoAddr BY <1>3, <1>4, <1>5, <1>7, <2>2, AskedProperties
    <2> QED BY <2>1, <2>2
<1>9. hook \in OwnFlag => About(flight', {a})
    BY <1>3, <1>4, <1>5, <1>6, AskedProperties, AboutNothing
<1>10. flight' \in Seq(Request) /\ Len(flight') <= Len(kept) + 1 /\ Len(flight') \in Nat
    BY <1>3, <1>4, <1>5, AskedProperties
<1>11. Len(flight') <= Allowance' BY <1>2, <1>5, <1>10, AllowanceAtLeast
<1>12. (About(flight, Owners))' /\ (hook \in OwnFlag => (About(flight, {Given}))')
    BY <1>8, <1>9 DEF About, a
<1>13. shown' \in Data => shown'.of \in Owners'
    BY <1>2, <1>4, FeedAssumption DEF FeedInv
<1>14. FeedTypeOK' BY <1>4, <1>10 DEF FeedInv, FeedTypeOK
<1>15. Mounted(page)' BY DEF Mounted
<1> QED BY <1>11, <1>12, <1>13, <1>14, <1>15 DEF FeedInv

LEMMA FollowInv ==
    ASSUME SignInInv, SignInInv', FeedInv, SignInNext, Follow
    PROVE  FeedInv'
<1>1. /\ hook' = hook /\ chain' = chain /\ hook \in Hooks /\ chain' \in [Addr -> Version]
      /\ Mounted(page)' <=> Mounted(page')
    BY DEF Follow, FeedInv, FeedTypeOK, Mounted
<1>2. CASE ~Mounted(page') BY <1>1, <1>2, UnmountFeedInv DEF Follow
<1>3. CASE Mounted(page') /\ page' # page
    <2>1. MountFeed(Given') BY <1>3 DEF Follow
    <2> QED BY <1>1, <1>3, <2>1, MountFeedInv
<1>4. CASE page' = page /\ Mounted(page) /\ Given' # Given
    <2>1. Rerun(Given') BY <1>4 DEF Follow
    <2> QED BY <1>1, <1>4, <2>1, RerunInv
<1>5. CASE page' = page /\ Mounted(page) /\ Given' = Given
    <2>1. shown' = shown /\ flight' = flight BY <1>5 DEF Follow
    <2>2. page # "/login" BY <1>1, <1>5, LoginUnmounted
    <2>3. Owners \subseteq Owners' /\ Allowance <= Allowance' BY <1>1, <1>5, <2>2, MovesWiden
    <2>4. About(flight, Owners') BY <2>3, AboutMore DEF FeedInv
    <2>5. (About(flight, Owners))' BY <2>1, <2>4 DEF About
    <2>6. (About(flight, {Given}))' <=> About(flight, {Given}) BY <1>5, <2>1 DEF About
    <2>7. Len(flight) \in Nat /\ Len(flight) <= Allowance BY DEF FeedInv, FeedTypeOK
    <2>8. Len(flight') <= Allowance' BY <2>1, <2>3, <2>7, AllowanceAtLeast
    <2> QED BY <1>1, <1>5, <2>1, <2>3, <2>5, <2>6, <2>8 DEF FeedInv, FeedTypeOK
<1> QED BY <1>2, <1>3, <1>4, <1>5

LEMMA FollowReloadInv ==
    ASSUME SignInInv', FeedInv, FollowReload
    PROVE  FeedInv'
<1>1. /\ hook' = hook /\ hook \in Hooks /\ chain' \in [Addr -> Version]
      /\ Mounted(page)' <=> Mounted(page')
    BY DEF FollowReload, FeedInv, FeedTypeOK, Mounted
<1>2. CASE Mounted(page')
    <2>1. MountFeed(Given') BY <1>2 DEF FollowReload
    <2> QED BY <1>1, <1>2, <2>1, MountFeedInv
<1>3. CASE ~Mounted(page') BY <1>1, <1>3, UnmountFeedInv DEF FollowReload
<1> QED BY <1>2, <1>3

\* A step of the hook only: it keeps what the tab says of it.
LEMMA FeedStays ==
    ASSUME UNCHANGED <<signInVars, hook>>
    PROVE  /\ Owners' = Owners /\ Allowance' = Allowance /\ Given' = Given
           /\ page' = page /\ (Mounted(page)' <=> Mounted(page))
BY DEF signInVars, Owners, Allowance, Early, Given, useWallet, Mounted

\* What the conjuncts of FeedInv come to after such a step.
LEMMA FeedAfter ==
    ASSUME FeedInv, UNCHANGED <<signInVars, hook>>, Mounted(page),
           chain' \in [Addr -> Version],
           shown' \in Data \cup {Loading, Missing, Errored},
           shown' \in Data => shown'.of \in Owners,
           flight' \in Seq(Request), Len(flight') <= Allowance,
           About(flight', Owners), hook \in OwnFlag => About(flight', {Given})
    PROVE  FeedInv'
<1>1. /\ Owners' = Owners /\ Allowance' = Allowance /\ Given' = Given
      /\ (Mounted(page)' <=> Mounted(page))
    BY FeedStays
<1>2. (About(flight, Owners))' /\ (hook \in OwnFlag => (About(flight, {Given}))')
    BY <1>1 DEF About
<1> QED BY <1>1, <1>2 DEF FeedInv, FeedTypeOK

\* A hook that has requests, or whose interval fires, is mounted.
LEMMA InFlightMounted == FeedInv => \A i \in DOMAIN flight : Mounted(page)
BY DEF FeedInv

LEMMA PollInv ==
    ASSUME SignInInv, FeedInv, Poll, UNCHANGED signInVars
    PROVE  FeedInv'
<1>1. /\ hook' = hook /\ chain' = chain /\ Mounted(page)
      /\ Len(flight) < MaxInFlight
      /\ chain \in [Addr -> Version] /\ flight \in Seq(Request)
      /\ shown \in Data \cup {Loading, Missing, Errored}
    BY DEF Poll, FeedInv, FeedTypeOK
<1>2. CASE Given # NoAddr /\ flight' = flight \o Asked(Given) /\ shown' = shown
    <2>1. Given \in Addr \cup {NoAddr} /\ Given \in Owners BY <1>2, GivenOwned
    <2>2. /\ flight' \in Seq(Request) /\ Len(flight') <= Len(flight) + 1
          /\ Len(flight') \in Nat /\ Len(flight) \in Nat
        BY <1>1, <1>2, <2>1, AskedProperties
    <2>3. Len(flight') <= Allowance BY <1>1, <2>2, AllowanceAtLeast, FeedAssumption
    <2>4. About(flight', Owners)
        BY <1>1, <1>2, <2>1, AskedProperties DEF FeedInv
    <2>5. hook \in OwnFlag => About(flight', {Given})
        BY <1>1, <1>2, <2>1, AskedProperties DEF FeedInv
    <2>6. shown' \in Data => shown'.of \in Owners BY <1>2 DEF FeedInv
    <2> QED BY <1>1, <1>2, <2>2, <2>3, <2>4, <2>5, <2>6, FeedAfter
<1>3. CASE shown' = Missing /\ flight' = flight
    <2>1. shown' \notin Data BY <1>3, FeedAssumption
    <2>2. Len(flight') <= Allowance /\ About(flight', Owners)
          /\ (hook \in OwnFlag => About(flight', {Given}))
        BY <1>3 DEF FeedInv
    <2> QED BY <1>1, <1>3, <2>1, <2>2, FeedAfter
<1> QED BY <1>2, <1>3 DEF Poll

LEMMA ServeInv ==
    ASSUME FeedInv, NEW i \in DOMAIN flight, Serve(i), UNCHANGED signInVars
    PROVE  FeedInv'
<1> DEFINE reply == IF Exists(hook) THEN chain[flight[i].of] ELSE 0
           q == [flight[i] EXCEPT !.reply = reply]
<1>1. /\ flight \in Seq(Request) /\ chain \in [Addr -> Version]
      /\ Mounted(page) /\ Len(flight) \in Nat
    BY InFlightMounted DEF FeedInv, FeedTypeOK
<1>2. flight[i] \in Request BY <1>1
<1>3. reply \in Version
    <2>1. flight[i].of \in Addr BY <1>2 DEF Request
    <2>2. 0 \in Version BY FeedAssumption DEF Version
    <2> QED BY <1>1, <2>1, <2>2
<1>4. flight' = [flight EXCEPT ![i] = q] /\ UNCHANGED <<hook, shown, chain>> BY DEF Serve
<1> HIDE DEF reply
<1>5. q \in Request /\ q.of = flight[i].of BY <1>2, <1>3 DEF Request
<1> HIDE DEF q
<1>6. /\ flight' \in Seq(Request) /\ Len(flight') = Len(flight)
      /\ DOMAIN flight' = DOMAIN flight
      /\ \A j \in DOMAIN flight : flight'[j] = IF j = i THEN q ELSE flight[j]
    BY <1>1, <1>4, <1>5
<1>7. \A A : About(flight, A) => About(flight', A) BY <1>5, <1>6 DEF About
<1>8. /\ Len(flight') <= Allowance /\ About(flight', Owners)
      /\ hook \in OwnFlag => About(flight', {Given})
      /\ shown' \in Data \cup {Loading, Missing, Errored}
      /\ shown' \in Data => shown'.of \in Owners
    BY <1>4, <1>6, <1>7 DEF FeedInv, FeedTypeOK
<1> QED BY <1>1, <1>4, <1>6, <1>8, FeedAfter

\* An answer, or a failure, takes one request out of the queue.
LEMMA RemoveInv ==
    ASSUME FeedInv, NEW i \in DOMAIN flight, UNCHANGED <<signInVars, hook, chain>>,
           flight' = RemoveAt(flight, i),
           shown' \in Data \cup {Loading, Missing, Errored},
           shown' \in Data => shown'.of \in Owners
    PROVE  FeedInv'
<1>1. /\ flight \in Seq(Request) /\ chain' \in [Addr -> Version]
      /\ Mounted(page) /\ Len(flight) \in Nat
    BY InFlightMounted DEF FeedInv, FeedTypeOK
<1>2. flight' \in Seq(Request) /\ Len(flight') = Len(flight) - 1
    BY <1>1, RemoveAtProperties
<1>3. Len(flight') <= Allowance BY <1>1, <1>2, AllowanceAtLeast DEF FeedInv
<1>4. About(flight', Owners) BY <1>1, RemoveAbout DEF FeedInv
<1>5. hook \in OwnFlag => About(flight', {Given}) BY <1>1, RemoveAbout DEF FeedInv
<1> QED BY <1>1, <1>2, <1>3, <1>4, <1>5, FeedAfter

\* What an answer shows is about the address that was asked about.
LEMMA ShowingTyped ==
    ASSUME NEW q \in Request, q.reply # Waiting
    PROVE  /\ Showing(q) \in Data \cup {Missing}
           /\ Showing(q) \in Data => Showing(q).of = q.of
BY FeedAssumption DEF Showing, Request, Data

LEMMA DeliverInv ==
    ASSUME FeedInv, NEW i \in DOMAIN flight, Deliver(i), UNCHANGED signInVars
    PROVE  FeedInv'
<1>1. flight[i] \in Request /\ flight[i].of \in Owners BY DEF FeedInv, FeedTypeOK, About
<1>2. /\ flight[i].reply # Waiting /\ shown' = Showing(flight[i])
      /\ flight' = RemoveAt(flight, i) /\ UNCHANGED <<hook, chain>>
    BY DEF Deliver
<1>3. /\ shown' \in Data \cup {Loading, Missing, Errored}
      /\ shown' \in Data => shown'.of \in Owners
    BY <1>1, <1>2, ShowingTyped
<1> QED BY <1>2, <1>3, RemoveInv

LEMMA FailInv ==
    ASSUME FeedInv, NEW i \in DOMAIN flight, Fail(i), UNCHANGED signInVars
    PROVE  FeedInv'
<1>1. /\ shown' \in {Missing, Errored}
      /\ flight' = RemoveAt(flight, i) /\ UNCHANGED <<hook, chain>>
    BY DEF Fail
<1>2. shown' \notin Data BY <1>1, FeedAssumption
<1> QED BY <1>1, <1>2, RemoveInv

LEMMA FeedKept ==
    ASSUME FeedInv, UNCHANGED <<signInVars, hook, shown, flight>>, chain' \in [Addr -> Version]
    PROVE  FeedInv'
<1>1. /\ Owners' = Owners /\ Allowance' = Allowance /\ Given' = Given
      /\ (Mounted(page)' <=> Mounted(page))
    BY FeedStays
<1>2. /\ (About(flight, Owners))' <=> About(flight, Owners)
      /\ (About(flight, {Given}))' <=> About(flight, {Given})
    BY <1>1 DEF About
<1> QED BY <1>1, <1>2 DEF FeedInv, FeedTypeOK

LEMMA PublishInv ==
    ASSUME FeedInv, NEW a \in Publishing, Publish(a), UNCHANGED signInVars
    PROVE  FeedInv'
<1>1. a \in Addr /\ chain \in [Addr -> Version] BY FeedAssumption DEF FeedInv, FeedTypeOK
<1>2. chain[a] + 1 \in Version
    <2>1. chain[a] \in Version BY <1>1
    <2> QED BY <2>1, FeedAssumption DEF Publish, Version
<1>3. chain' \in [Addr -> Version] BY <1>1, <1>2 DEF Publish
<1> QED BY <1>3, FeedKept DEF Publish

-----------------------------------------------------------------------------
(* The tab *)

ClientInv == SignInInv /\ FeedInv /\ ScanInv

LEMMA ClientInitInv == Init => ClientInv
<1> SUFFICES ASSUME Init PROVE ClientInv OBVIOUS
<1>1. SignInInv BY SignInInitInv DEF Init
<1>2. ScanInv BY ScanResets DEF Init
<1>3. hook \in Hooks /\ chain \in [Addr -> Version]
    <2>1. {0, 1} \subseteq Version BY FeedAssumption DEF Version
    <2> QED BY <2>1 DEF Init
<1>4. Given \in Addr \cup {NoAddr} /\ (Given # NoAddr => Given \in Owners)
    BY <1>1, GivenOwned
<1>5. <<>> \in Seq(Request) /\ Len(<<>>) = 0 OBVIOUS
<1>6. /\ flight \in Seq(Request) /\ Len(flight) \in Nat /\ Len(flight) <= 1
      /\ About(flight, {Given})
    <2>1. CASE Mounted(page) BY <1>4, <1>5, <2>1, AskedProperties DEF Init
    <2>2. CASE ~Mounted(page) BY <1>5, <2>2, AboutNothing DEF Init
    <2> QED BY <2>1, <2>2
<1>7. About(flight, Owners)
    <2>1. CASE flight = <<>> BY <2>1, AboutNothing
    <2>2. CASE flight # <<>>
        <3>1. Given # NoAddr BY <2>2 DEF Init, Asked
        <3> QED BY <1>4, <1>6, <3>1, AboutMore
    <2> QED BY <2>1, <2>2
<1>8. Len(flight) <= Allowance BY <1>6, AllowanceAtLeast, FeedAssumption
<1>9. shown \in {Loading, Missing} /\ shown \notin Data BY FeedAssumption DEF Init
<1>10. ~Mounted(page) => shown = Loading /\ flight = <<>> BY DEF Init
<1>11. FeedInv BY <1>3, <1>6, <1>7, <1>8, <1>9, <1>10 DEF FeedInv, FeedTypeOK
<1> QED BY <1>1, <1>2, <1>11 DEF ClientInv

LEMMA ClientNextInv == ClientInv /\ [Next]_clientVars => ClientInv'
<1> SUFFICES ASSUME ClientInv, [Next]_clientVars PROVE ClientInv' OBVIOUS
<1> USE DEF ClientInv
<1>1. CASE Browse
    <2>1. SignInNext /\ Follow /\ ScanFollows BY <1>1 DEF Browse
    <2>2. SignInInv' BY <2>1, SignInNextInv
    <2>3. FeedInv' BY <2>1, <2>2, FollowInv
    <2>4. ScanInv' BY <2>1, ScanKept, ScanResets DEF ScanFollows
    <2> QED BY <2>2, <2>3, <2>4
<1>2. CASE Refresh
    <2>1. Reload /\ FollowReload /\ ScanLeft BY <1>2 DEF Refresh
    <2>2. SignInInv' BY <2>1, ReloadInv
    <2>3. FeedInv' BY <2>1, <2>2, FollowReloadInv
    <2> QED BY <2>1, <2>2, <2>3, ScanResets
<1>3. CASE Scan
    <2>1. ScanNext /\ UNCHANGED <<signInVars, feedVars>> BY <1>3 DEF Scan, tabVars
    <2>2. chain' \in [Addr -> Version] /\ UNCHANGED <<signInVars, hook, shown, flight>>
        BY <2>1 DEF feedVars, FeedInv, FeedTypeOK
    <2>3. FeedInv' BY <2>2, FeedKept
    <2> QED BY <2>1, <2>3, SignInKept, ScanNextInv
<1>4. CASE UNCHANGED <<signInVars, scanVars>> /\ FeedInv'
    BY <1>4, SignInKept, ScanKept
<1>5. CASE Tick BY <1>4, <1>5, PollInv DEF Tick
<1>6. CASE Answer BY <1>4, <1>6, ServeInv DEF Answer
<1>7. CASE Receive BY <1>4, <1>7, DeliverInv DEF Receive
<1>8. CASE Lose BY <1>4, <1>8, FailInv DEF Lose
<1>9. CASE Write BY <1>4, <1>9, PublishInv DEF Write
<1>10. CASE UNCHANGED clientVars
    <2>1. UNCHANGED <<signInVars, scanVars>> /\ UNCHANGED <<hook, shown, flight, chain>>
        BY <1>10 DEF clientVars, tabVars, feedVars
    <2>2. chain' \in [Addr -> Version] BY <2>1 DEF FeedInv, FeedTypeOK
    <2> QED BY <1>4, <2>1, <2>2, FeedKept
<1> QED BY <1>1, <1>2, <1>3, <1>5, <1>6, <1>7, <1>8, <1>9, <1>10 DEF Next

\* The inductive invariant of the tab, in every reachable state.
THEOREM ClientInvariant == Spec => []ClientInv
<1>1. Init => ClientInv BY ClientInitInv
<1>2. ClientInv /\ [Next]_clientVars => ClientInv' BY ClientNextInv
<1> QED BY <1>1, <1>2, PTL DEF Spec

\* The type invariant of the tab; a page never has more than two requests in
\* flight beyond those its interval keeps up, one for each change of the wallet.
THEOREM ClientTypes == Spec => []ClientTypeOK
<1>1. ClientInv => ClientTypeOK
    <2> SUFFICES ASSUME ClientInv PROVE ClientTypeOK OBVIOUS
    <2>1. Len(flight) <= MaxInFlight + 2
        <3>1. Len(flight) \in Nat /\ Len(flight) <= Allowance
            BY DEF ClientInv, FeedInv, FeedTypeOK
        <3>2. Allowance <= MaxInFlight + 2 /\ MaxInFlight \in Nat
            BY FeedAssumption DEF Allowance
        <3> QED BY <3>1, <3>2, AllowanceAtLeast
    <2>2. rests \in 0..MaxTimers
        <3>1. Len(verdicts) \in Nat BY DEF ClientInv, ScanInv
        <3> QED BY <3>1, TimersAssumption DEF ClientInv, ScanInv
    <2> QED BY <2>1, <2>2
            DEF ClientInv, SignInInv, SignInTypeOK, Provider, FeedInv, FeedTypeOK, ScanInv,
                ClientTypeOK
<1> QED BY <1>1, ClientInvariant, PTL

\* auth.tsx 67-138: a refresh brings back the account and the role of the tab,
\* whatever the user did and in whatever order, unless another tab wrote since.
THEOREM ReloadRestores == Spec => []ReloadRestoresSession
<1>1. ClientInv => ReloadRestoresSession BY DEF ClientInv, SignInInv
<1> QED BY <1>1, ClientInvariant, PTL

\* login/page.tsx 14-28: a user with an account and a role is always on the way home.
THEOREM LoginIsLeft == Spec => []SignedInLeavesLogin
<1>1. ClientInv => SignedInLeavesLogin BY DEF ClientInv, SignInInv
<1> QED BY <1>1, ClientInvariant, PTL

\* hooks.ts 65-110 and useWallet.ts: whoever signed in and out before, and however late
\* answers come, a user sees no data but their own and the shop's.
THEOREM NeverSomebodyElsesData == Spec => []NobodyElsesData
<1>1. ClientInv => NobodyElsesData
    BY DEF ClientInv, SignInInv, Provider, FeedInv, Owners, Early, NobodyElsesData
<1> QED BY <1>1, ClientInvariant, PTL

\* scan/page.tsx 15-23: a scan is always followed by a timer that ends it.
THEOREM ScanAlwaysEnds == Spec => []ScanNeverStuck
<1>1. ClientInv => ScanNeverStuck BY DEF ClientInv, ScanInv
<1> QED BY <1>1, ClientInvariant, PTL

\* Only an answer can bring new data to the page, and a list hook has no request
\* left that was made for another address than the one it has.
LEMMA LateStep ==
    ASSUME ClientInv, [Next]_clientVars, shown' # shown, shown' \in Data, hook \in OwnFlag
    PROVE  shown'.of = Given'
<1>1. CASE Receive
    <2>1. PICK i \in DOMAIN flight : Deliver(i) BY <1>1 DEF Receive
    <2>2. flight[i] \in Request /\ flight[i].of = Given
        BY DEF ClientInv, FeedInv, FeedTypeOK, About
    <2>3. flight[i].reply # Waiting /\ shown' = Showing(flight[i]) /\ hook' = hook
        BY <2>1 DEF Deliver
    <2>4. shown'.of = Given BY <2>2, <2>3, ShowingTyped
    <2> QED BY <1>1, <2>3, <2>4, FeedStays DEF Receive
<1>2. CASE Browse
    BY <1>2, FeedAssumption DEF Browse, Follow, UnmountFeed, MountFeed, Rerun
<1>3. CASE Refresh
    BY <1>3, FeedAssumption DEF Refresh, FollowReload, UnmountFeed, MountFeed
<1>4. CASE Tick BY <1>4, FeedAssumption DEF Tick, Poll
<1>5. CASE Lose BY <1>5, FeedAssumption DEF Lose, Fail
<1>6. CASE Scan \/ Answer \/ Write \/ UNCHANGED clientVars
    BY <1>6 DEF Scan, Answer, Write, Serve, Publish, clientVars, tabVars, feedVars
<1> QED BY <1>1, <1>2, <1>3, <1>4, <1>5, <1>6 DEF Next

\* hooks.ts 329-523: a list hook drops every answer it asked for under an earlier
\* address.
THEOREM LateAnswersNeverShown == Spec => LateAnswersDropped
<1>1. ClientInv /\ [Next]_clientVars
        => [shown' # shown /\ shown' \in Data /\ hook \in OwnFlag => shown'.of = Given']_clientVars
    BY LateStep
<1> QED BY <1>1, ClientInvariant, PTL DEF Spec, LateAnswersDropped

-----------------------------------------------------------------------------
(* Decoding an account *)

\* Every number up to n has been reached if zero was, and each leads to the next.
\* (Induction over numbers in a form that speaks of sets only.)
LEMMA ReachesAll ==
    ASSUME NEW n \in Nat, NEW S, 0 \in S, \A i \in 0..(n - 1) : i \in S => i + 1 \in S
    PROVE  0..n \subseteq S
<1> DEFINE Bad == {i \in 0..n : i \notin S}
<1> SUFFICES ASSUME Bad # {} PROVE FALSE
    OBVIOUS
<1> DEFINE Kind == {0..i : i \in Bad}
<1>1. PICK U \in Kind : \A W \in Kind : ~(<<W, U>> \in StrictSubsetOrdering(0..n))
    <2>1. Kind # {} /\ Kind \subseteq SUBSET (0..n) OBVIOUS
    <2>2. Kind \subseteq FiniteSubsetsOf(0..n)
        <3>1. IsFiniteSet(0..n) BY FS_Interval
        <3>2. FiniteSubsetsOf(0..n) = SUBSET (0..n) BY <3>1, FS_FiniteSubsetsOfFinite
        <3> HIDE DEF Kind
        <3> QED BY <2>1, <3>2
    <2> HIDE DEF Kind
    <2> QED BY <2>1, <2>2, FS_StrictSubsetOrderingWellFounded, WFMin
<1>2. PICK i \in Bad : U = 0..i OBVIOUS
<1>4. \A j \in Bad : ~(j < i)
    <2> SUFFICES ASSUME NEW j \in Bad, j < i PROVE FALSE OBVIOUS
    <2>1. /\ 0..j \in Kind /\ 0..j \subseteq 0..i /\ 0..i \subseteq 0..n
          /\ i \in 0..i /\ i \notin 0..j
        OBVIOUS
    <2>2. <<0..j, 0..i>> \in StrictSubsetOrdering(0..n)
      <3> HIDE DEF Bad, Kind
      <3> QED BY <2>1 DEF StrictSubsetOrdering
    <2> QED BY <1>1, <1>2, <2>1, <2>2
<1>3. i - 1 \in 0..(n - 1) /\ i - 1 \notin Bad /\ i = (i - 1) + 1
    <2>1. i \in Nat /\ i # 0 OBVIOUS
    <2> QED BY <1>4, <2>1
<1> QED BY <1>3

\* f starts with a and goes on as step says.
Runs(f, n, a, step) == \A j \in 1..n : f[j] = IF j = 1 THEN a ELSE step[<<j, f[j - 1]>>]

\* A function over 1..n is determined by where it starts and how it goes on.
LEMMA Iterates ==
    ASSUME NEW V, NEW n \in Nat, NEW a \in V, NEW step \in [(1..n) \X V -> V]
    PROVE  \E f \in [1..n -> V] : Runs(f, n, a, step)
<1> DEFINE Run(m, f) == \A j \in 1..m : f[j] = IF j = 1 THEN a ELSE step[<<j, f[j - 1]>>]
           S == {m \in 0..n : \E f \in [1..m -> V] : Run(m, f)}
<1>1. 0 \in S
    <2> DEFINE f == [j \in 1..0 |-> a]
    <2>1. f \in [1..0 -> V] /\ Run(0, f) OBVIOUS
    <2>2. \E h \in [1..0 -> V] : Run(0, h)
        <3> HIDE DEF Run, f
        <3> QED BY <2>1
    <2>3. 0 \in 0..n OBVIOUS
    <2> HIDE DEF Run
    <2> QED BY <2>2, <2>3
<1>2. ASSUME NEW m \in 0..(n - 1), m \in S PROVE m + 1 \in S
    <2>1. PICK f \in [1..m -> V] : Run(m, f) BY <1>2
    <2> DEFINE v == IF m = 0 THEN a ELSE step[<<m + 1, f[m]>>]
               g == [j \in 1..(m + 1) |-> IF j = m + 1 THEN v ELSE f[j]]
    <2>2. v \in V
        <3>1. m # 0 => m \in 1..m /\ m + 1 \in 1..n OBVIOUS
        <3> QED BY <3>1
    <2>3. g \in [1..(m + 1) -> V] 
      <3> HIDE DEF v
      <3> QED BY <2>2
    <2>4. ASSUME NEW j \in 1..(m + 1) PROVE g[j] = IF j = 1 THEN a ELSE step[<<j, g[j - 1]>>]
        <3>1. CASE j = m + 1
            <4>1. m # 0 => g[m] = f[m] OBVIOUS
            <4>2. g[j] = v BY <3>1
            <4>3. (j = 1 <=> m = 0) /\ j - 1 = m BY <3>1
            <4> HIDE DEF g, Run
            <4> QED BY <3>1, <4>1, <4>2, <4>3
        <3>2. CASE j # m + 1
            <4>1. j \in 1..m /\ g[j] = f[j] BY <3>2
            <4>2. j # 1 => g[j - 1] = f[j - 1] BY <3>2
            <4> QED BY <2>1, <4>1, <4>2
        <3> QED BY <3>1, <3>2
    <2>5. Run(m + 1, g) BY <2>4
    <2> QED
      <3> HIDE DEF g, Run
      <3> QED BY <2>3, <2>5
<1>3. n \in S
    <2> HIDE DEF S
    <2>1. 0..n \subseteq S BY <1>1, <1>2, ReachesAll
    <2> QED BY <2>1
<1>4. PICK f \in [1..n -> V] : Run(n, f) BY <1>3
<1> QED BY <1>4 DEF Runs

\* The offset of the next reader is behind what this one reads.
LEMMA OffsetSteps ==
    ASSUME NEW readers, NEW n \in Nat, DOMAIN readers = 1..n,
           \A i \in 1..n : ReadWidth[readers[i]] \in Nat
    PROVE  /\ \A i \in 1..n : Offset(readers, i) \in Nat
           /\ n > 0 => Offset(readers, 1) = DiscriminatorBytes
           /\ \A i \in 1..n : i > 1 =>
                Offset(readers, i) = Offset(readers, i - 1) + ReadWidth[readers[i - 1]]
<1> DEFINE step == [p \in (1..n) \X Nat |->
                        p[2] + (IF p[1] = 1 THEN 0 ELSE ReadWidth[readers[p[1] - 1]])]
           Is(f) == f = [j \in DOMAIN readers |->
                            IF j = 1 THEN DiscriminatorBytes ELSE f[j - 1] + ReadWidth[readers[j - 1]]]
           offset == CHOOSE f : Is(f)
<1>1. \E f \in [1..n -> Nat] : Is(f)
    <2>1. ASSUME NEW j \in 1..n, NEW v \in Nat
          PROVE  v + (IF j = 1 THEN 0 ELSE ReadWidth[readers[j - 1]]) \in Nat
        <3>1. j # 1 => j - 1 \in 1..n OBVIOUS
        <3> QED BY <3>1
    <2>2. step \in [(1..n) \X Nat -> Nat] BY <2>1
    <2>3. \A j \in 1..n, v \in Nat : j # 1 => step[<<j, v>>] = v + ReadWidth[readers[j - 1]] OBVIOUS
    <2> HIDE DEF step
    <2>4. PICK f \in [1..n -> Nat] :
            Runs(f, n, DiscriminatorBytes, step)
        <3>1. DiscriminatorBytes \in Nat BY DEF DiscriminatorBytes
        <3> HIDE DEF Is
        <3> QED BY <2>2, <3>1, Iterates
    <2>5. ASSUME NEW j \in 1..n
          PROVE  f[j] = IF j = 1 THEN DiscriminatorBytes ELSE f[j - 1] + ReadWidth[readers[j - 1]]
        <3>1. f[j] = IF j = 1 THEN DiscriminatorBytes ELSE step[<<j, f[j - 1]>>] BY <2>4 DEF Runs
        <3>2. j # 1 => f[j - 1] \in Nat
            <4>1. j # 1 => j - 1 \in 1..n OBVIOUS
            <4> QED BY <4>1
        <3> QED BY <2>3, <3>1, <3>2
    <2>6. Is(f) BY <2>5
    <2> HIDE DEF Is
    <2> QED BY <2>6
<1>2. Is(offset) BY <1>1
<1>3. \A i : Offset(readers, i) = offset[i] BY DEF Offset
<1> HIDE DEF offset
<1>4. \A j \in 1..n :
        offset[j] = IF j = 1 THEN DiscriminatorBytes ELSE offset[j - 1] + ReadWidth[readers[j - 1]]
    BY <1>2
<1>5. \A j \in 1..n : offset[j] \in Nat
    <2> DEFINE S == {j \in 0..n : j > 0 => offset[j] \in Nat}
    <2>1. 0 \in S OBVIOUS
    <2>2. ASSUME NEW j \in 0..(n - 1), j \in S PROVE j + 1 \in S
        <3>1. j + 1 \in 1..n /\ (j > 0 => j \in 1..n) /\ (j + 1) - 1 = j OBVIOUS
        <3> QED BY <1>4, <2>2, <3>1 DEF DiscriminatorBytes
    <2> HIDE DEF S
    <2>3. 0..n \subseteq S BY <2>1, <2>2, ReachesAll
    <2> QED BY <2>3 DEF S
<1> HIDE DEF step, Is
<1>6. n > 0 => 1 \in 1..n OBVIOUS
<1>7. \A j \in 1..n : j > 1 => j # 1 OBVIOUS
<1> QED BY <1>3, <1>4, <1>5, <1>6, <1>7

LeftToRight(f, seqs, n) ==
    /\ FlattenSeq(seqs) = f[n]
    /\ f[1] = seqs[1]
    /\ \A j \in 1..n : j > 1 => f[j] = f[j - 1] \o seqs[j]

\* Flattening goes from left to right.
LEMMA FlattenSteps ==
    ASSUME NEW B, NEW n \in Nat \ {0}, NEW seqs \in [1..n -> Seq(B)]
    PROVE  \E f \in [1..n -> Seq(B)] : LeftToRight(f, seqs, n)
<1> DEFINE step == [p \in (1..n) \X Seq(B) |-> p[2] \o seqs[p[1]]]
           Is(f) == f = [i \in 1..n |-> IF i = 1 THEN seqs[i] ELSE f[i - 1] \o seqs[i]]
           flatten == CHOOSE f : Is(f)
<1>1. Len(seqs) = n BY LenProperties
<1>2. \E f \in [1..n -> Seq(B)] : Is(f)
    <2>1. step \in [(1..n) \X Seq(B) -> Seq(B)] BY ConcatProperties
    <2>2. \A j \in 1..n, s \in Seq(B) : step[<<j, s>>] = s \o seqs[j] OBVIOUS
    <2> HIDE DEF step
    <2>3. seqs[1] \in Seq(B) OBVIOUS
    <2>4. PICK f \in [1..n -> Seq(B)] :
            Runs(f, n, seqs[1], step)
        <3>1. n \in Nat OBVIOUS
        <3> HIDE DEF Is
        <3> QED BY <2>1, <2>3, <3>1, Iterates
    <2>5. ASSUME NEW j \in 1..n
          PROVE  f[j] = IF j = 1 THEN seqs[j] ELSE f[j - 1] \o seqs[j]
        <3>1. f[j] = IF j = 1 THEN seqs[1] ELSE step[<<j, f[j - 1]>>] BY <2>4 DEF Runs
        <3>2. j # 1 => f[j - 1] \in Seq(B)
            <4>1. j # 1 => j - 1 \in 1..n OBVIOUS
            <4> QED BY <4>1
        <3> QED BY <2>2, <3>1, <3>2
    <2>6. Is(f) BY <2>5
    <2> HIDE DEF Is
    <2> QED BY <2>6
<1>3. Is(flatten) BY <1>2
<1>4. FlattenSeq(seqs) = flatten[n]
    BY <1>1 DEF FlattenSeq
<1> HIDE DEF flatten
<1>5. \A j \in 1..n : flatten[j] = IF j = 1 THEN seqs[j] ELSE flatten[j - 1] \o seqs[j] BY <1>3
<1>6. \A j \in 1..n : flatten[j] \in Seq(B)
    <2> DEFINE S == {j \in 0..n : j > 0 => flatten[j] \in Seq(B)}
    <2>1. 0 \in S OBVIOUS
    <2>2. ASSUME NEW j \in 0..(n - 1), j \in S PROVE j + 1 \in S
        <3>1. j + 1 \in 1..n /\ (j > 0 => j \in 1..n) /\ (j + 1) - 1 = j OBVIOUS
        <3>2. flatten[j + 1] = IF j = 0 THEN seqs[1] ELSE flatten[j] \o seqs[j + 1] BY <1>5, <3>1
        <3>3. seqs[j + 1] \in Seq(B) /\ seqs[1] \in Seq(B) BY <3>1
        <3>4. flatten[j + 1] \in Seq(B) BY <2>2, <3>1, <3>2, <3>3, ConcatProperties
        <3> QED BY <3>1, <3>4
    <2> HIDE DEF S
    <2>3. 0..n \subseteq S BY <2>1, <2>2, ReachesAll
    <2> QED BY <2>3 DEF S
<1>7. flatten \in [1..n -> Seq(B)] BY <1>3, <1>6
<1>8. flatten[1] = seqs[1] /\ \A j \in 1..n : j > 1 => flatten[j] = flatten[j - 1] \o seqs[j]
    <2>1. 1 \in 1..n /\ \A j \in 1..n : j > 1 => j # 1 OBVIOUS
    <2> HIDE DEF step, Is
    <2> QED BY <1>5, <2>1
<1> QED BY <1>4, <1>7, <1>8 DEF LeftToRight


\* Bytes p + 1 to p + q of s are those of s \o t, and so are those of t behind s.
LEMMA BytesOfConcat ==
    ASSUME NEW B, NEW s \in Seq(B), NEW t \in Seq(B), NEW p \in Nat, NEW q \in Nat \ {0}
    PROVE  /\ p + q <= Len(s) => SubSeq(s \o t, p + 1, p + q) = SubSeq(s, p + 1, p + q)
           /\ p + q <= Len(t)
              => SubSeq(s \o t, Len(s) + p + 1, Len(s) + p + q) = SubSeq(t, p + 1, p + q)
<1>1. Len(s) \in Nat /\ Len(t) \in Nat BY LenProperties
<1>2. ASSUME p + q <= Len(s) PROVE SubSeq(s \o t, p + 1, p + q) = SubSeq(s, p + 1, p + q)
    <2>1. p + 1 \in 1..Len(s) /\ p + q \in 1..Len(s) BY <1>1, <1>2
    <2> QED BY <2>1, SubSeqOfConcat1
<1>3. ASSUME p + q <= Len(t)
      PROVE  SubSeq(s \o t, Len(s) + p + 1, Len(s) + p + q) = SubSeq(t, p + 1, p + q)
    <2> DEFINE k == Len(s) + p + 1
               l == Len(s) + p + q
    <2>1. k \in Len(s) + 1 .. Len(s) + Len(t) /\ l \in Len(s) + 1 .. Len(s) + Len(t)
        BY <1>1, <1>3
    <2>2. k - Len(s) = p + 1 /\ l - Len(s) = p + q BY <1>1
    <2> HIDE DEF k, l
    <2>3. SubSeq(s \o t, k, l) = SubSeq(t, k - Len(s), l - Len(s)) BY <2>1, SubSeqOfConcat2
    <2> QED BY <2>2, <2>3 DEF k, l
<1> QED BY <1>2, <1>3

\* u is in s, behind p others.
Holds(s, p, u) == p + Len(u) <= Len(s) /\ SubSeq(s, p + 1, p + Len(u)) = u

LEMMA HoldsConcat ==
    ASSUME NEW B, NEW s \in Seq(B), NEW t \in Seq(B), NEW u \in Seq(B), Len(u) > 0
    PROVE  /\ Holds(u, 0, u)
           /\ \A p \in Nat : Holds(s, p, u) => Holds(s \o t, p, u)
           /\ \A p \in Nat : Holds(t, p, u) => Holds(s \o t, Len(s) + p, u)
<1>1. Len(s) \in Nat /\ Len(t) \in Nat /\ Len(u) \in Nat \ {0} BY LenProperties
<1>2. Len(s \o t) = Len(s) + Len(t) BY ConcatProperties
<1>3. Holds(u, 0, u)
    <2>1. SubSeq(u, 1, Len(u)) = u BY SubSeqFull
    <2>2. 0 + 1 = 1 /\ 0 + Len(u) = Len(u) /\ 0 + Len(u) <= Len(u) BY <1>1
    <2> QED BY <2>1, <2>2 DEF Holds
<1>4. ASSUME NEW p \in Nat, Holds(s, p, u) PROVE Holds(s \o t, p, u)
    <2>1. SubSeq(s \o t, p + 1, p + Len(u)) = SubSeq(s, p + 1, p + Len(u))
        BY <1>1, <1>4, BytesOfConcat DEF Holds
    <2>2. p + Len(u) <= Len(s \o t) BY <1>1, <1>2, <1>4 DEF Holds
    <2> QED BY <1>4, <2>1, <2>2 DEF Holds
<1>5. ASSUME NEW p \in Nat, Holds(t, p, u) PROVE Holds(s \o t, Len(s) + p, u)
    <2>1. SubSeq(s \o t, Len(s) + p + 1, Len(s) + p + Len(u)) = SubSeq(t, p + 1, p + Len(u))
        BY <1>1, <1>5, BytesOfConcat DEF Holds
    <2>2. Len(s) + p + Len(u) <= Len(s \o t) BY <1>1, <1>2, <1>5 DEF Holds
    <2> QED BY <1>5, <2>1, <2>2 DEF Holds
<1> QED BY <1>3, <1>4, <1>5

\* at[j] is where the j-th of the sequences behind head begins.
Begins(at, head, seqs, m) ==
    /\ \A j \in 1..m : at[j] \in Nat
    /\ m > 0 => at[1] = Len(head)
    /\ \A j \in 1..m : j > 1 => at[j] = at[j - 1] + Len(seqs[j - 1])

\* What a running sum of the lengths finds in the sequences, one behind the other.
LEMMA FindsItsOwn ==
    ASSUME NEW B, NEW n \in Nat \ {0}, NEW m \in 0..n, NEW i \in 1..m,
           NEW seqs \in [1..n -> Seq(B)], \A j \in 1..n : Len(seqs[j]) > 0,
           NEW head \in Seq(B), NEW at, Begins(at, head, seqs, m)
    PROVE  Holds(head \o FlattenSeq(seqs), at[i], seqs[i])
<1>1. PICK f \in [1..n -> Seq(B)] : LeftToRight(f, seqs, n) BY FlattenSteps
<1>2. i \in 1..n /\ m \in Nat /\ 1 \in 1..m /\ 1 \in 1..n /\ n \in 1..n OBVIOUS
<1>3. \A j \in 1..n : /\ seqs[j] \in Seq(B) /\ Len(seqs[j]) \in Nat
                      /\ f[j] \in Seq(B) /\ Len(f[j]) \in Nat
    BY LenProperties
\* The first j sequences take the bytes up to the next of them, and the i-th its own.
<1> DEFINE Placed(j) == j <= m => Len(head) + Len(f[j]) = at[j] + Len(seqs[j])
           Found(j) == i <= j => \E p \in Nat : at[i] = Len(head) + p /\ Holds(f[j], p, seqs[i])
           S == {j \in 0..n : j > 0 => Placed(j) /\ Found(j)}
<1>4. Len(head) \in Nat BY LenProperties
<1>5. Placed(1) /\ Found(1)
    <2>1. f[1] = seqs[1] /\ at[1] = Len(head) BY <1>1, <1>2 DEF LeftToRight, Begins
    <2>2. Holds(f[1], 0, seqs[1]) BY <1>2, <1>3, <2>1, HoldsConcat
    <2>3. i <= 1 => i = 1 OBVIOUS
    <2>4. at[1] = Len(head) + 0 BY <1>4, <2>1
    <2>5. Found(1) BY <2>2, <2>3, <2>4
    <2>6. Placed(1) BY <2>1
    <2> QED BY <2>5, <2>6
<1>6. ASSUME NEW j \in 1..(n - 1), Placed(j), Found(j) PROVE Placed(j + 1) /\ Found(j + 1)
    <2>1. j \in 1..n /\ j + 1 \in 1..n /\ j + 1 > 1 /\ (j + 1) - 1 = j OBVIOUS
    <2>2. f[j + 1] = f[j] \o seqs[j + 1] BY <1>1, <2>1 DEF LeftToRight
    <2>3. /\ f[j] \in Seq(B) /\ seqs[j + 1] \in Seq(B) /\ seqs[i] \in Seq(B) /\ Len(seqs[i]) > 0
          /\ Len(seqs[j + 1]) \in Nat /\ Len(seqs[j]) \in Nat /\ Len(f[j]) \in Nat
        BY <1>2, <1>3, <2>1
    <2>4. Len(f[j + 1]) = Len(f[j]) + Len(seqs[j + 1]) BY <2>2, <2>3, ConcatProperties
    <2>5. ASSUME j + 1 <= m PROVE at[j + 1] = Len(head) + Len(f[j])
        <3>1. j \in 1..m /\ j + 1 \in 1..m /\ j <= m BY <1>2, <2>5
        <3>2. at[j + 1] = at[j] + Len(seqs[j]) BY <2>1, <3>1 DEF Begins
        <3> QED BY <1>6, <3>1, <3>2
    <2>6. Placed(j + 1)
        <3> SUFFICES ASSUME j + 1 <= m
                     PROVE  Len(head) + Len(f[j + 1]) = at[j + 1] + Len(seqs[j + 1])
            OBVIOUS
        <3>1. at[j + 1] = Len(head) + Len(f[j]) BY <2>5
        <3>2. \A a, b, c \in Nat : a + (b + c) = (a + b) + c OBVIOUS
        <3>3. Len(head) + (Len(f[j]) + Len(seqs[j + 1])) = (Len(head) + Len(f[j])) + Len(seqs[j + 1])
            BY <1>4, <2>3, <3>2
        <3> HIDE DEF Placed, Found, S
        <3> QED BY <2>4, <3>1, <3>3
    <2>7. \A p \in Nat : /\ Holds(f[j], p, seqs[i]) => Holds(f[j + 1], p, seqs[i])
                         /\ i = j + 1 => Holds(f[j + 1], Len(f[j]) + 0, seqs[i])
        <3>1. \A p \in Nat : Holds(f[j], p, seqs[i]) => Holds(f[j + 1], p, seqs[i])
            BY <2>2, <2>3, HoldsConcat
        <3>2. i = j + 1 => Holds(f[j + 1], Len(f[j]) + 0, seqs[i])
            BY <2>2, <2>3, HoldsConcat, 0 \in Nat
        <3> QED BY <3>1, <3>2
    <2>8. ASSUME i <= j PROVE Found(j + 1)
        <3>1. PICK p \in Nat : at[i] = Len(head) + p /\ Holds(f[j], p, seqs[i]) BY <1>6, <2>8
        <3> QED BY <2>7, <3>1
    <2>9. ASSUME i = j + 1 PROVE Found(j + 1)
        <3>1. j + 1 <= m BY <2>9
        <3>2. at[i] = Len(head) + (Len(f[j]) + 0) /\ Len(f[j]) + 0 \in Nat BY <2>3, <2>5, <2>9, <3>1
        <3>3. Holds(f[j + 1], Len(f[j]) + 0, seqs[i]) BY <2>7, <2>9, 0 \in Nat
        <3> HIDE DEF Placed
        <3> QED BY <3>2, <3>3
    <2>10. ~(i <= j + 1) => Found(j + 1) OBVIOUS
    <2>11. i <= j \/ i = j + 1 \/ ~(i <= j + 1) OBVIOUS
    <2> HIDE DEF Placed, Found
    <2> QED BY <2>6, <2>8, <2>9, <2>10, <2>11
<1>7. Found(n)
    <2> HIDE DEF Placed, Found
    <2>1. 0 \in S OBVIOUS
    <2>2. ASSUME NEW j \in 0..(n - 1), j \in S PROVE j + 1 \in S
        <3>1. (j = 0 /\ j + 1 = 1) \/ (j > 0 /\ j \in 1..(n - 1)) OBVIOUS
        <3>2. j + 1 \in 0..n OBVIOUS
        <3> QED BY <1>5, <1>6, <2>2, <3>1, <3>2
    <2> HIDE DEF S
    <2>3. 0..n \subseteq S BY <2>1, <2>2, ReachesAll
    <2>4. n \in S /\ n > 0 BY <2>3
    <2> QED BY <2>4 DEF S
<1>8. i <= n OBVIOUS
<1>9. PICK p \in Nat : at[i] = Len(head) + p /\ Holds(f[n], p, seqs[i]) BY <1>7, <1>8
<1> HIDE DEF Placed, Found, S
<1>10. f[n] \in Seq(B) /\ seqs[i] \in Seq(B) /\ Len(seqs[i]) > 0 /\ FlattenSeq(seqs) = f[n]
    BY <1>1, <1>2, <1>3 DEF LeftToRight
<1> QED BY <1>9, <1>10, HoldsConcat

Types == {"u8", "u16", "u32", "u64", "i64", "bool", "pubkey"}

LEMMA Widths == \A t \in Types : BorshWidth[t] \in Nat \ {0} /\ ReadWidth[t] = BorshWidth[t]
BY DEF BorshWidth, ReadWidth, Types

\* The readers, in order, are those of the first fields of the struct.
InStep(struct, readers, n, m) ==
    /\ n \in Nat \ {0} /\ m \in 0..n
    /\ DOMAIN struct = 1..n /\ \A i \in 1..n : struct[i].type \in Types
    /\ DOMAIN readers = 1..m /\ \A i \in 1..m : readers[i] = struct[i].type

Discriminator ==
    [j \in 1..DiscriminatorBytes |-> [of |-> "discriminator", type |-> "u8", at |-> j]]

\* What a field is written as: as many bytes as its type is wide.
LEMMA FieldBytesTyped ==
    ASSUME NEW field, field.type \in Types, NEW B,
           [of : {field.name}, type : Types, at : Nat] \subseteq B
    PROVE  FieldBytes(field) \in Seq(B) /\ Len(FieldBytes(field)) = BorshWidth[field.type]
<1>1. \A j \in 1..BorshWidth[field.type] : [of |-> field.name, type |-> field.type, at |-> j] \in B
    <2>1. \A j \in 1..BorshWidth[field.type] :
            [of |-> field.name, type |-> field.type, at |-> j]
                \in [of : {field.name}, type : Types, at : Nat]
        <3>1. \A j \in 1..BorshWidth[field.type] : j \in Nat BY Widths
        <3> QED BY <3>1
    <2> QED BY <2>1
<1>2. BorshWidth[field.type] \in Nat BY Widths
<1>3. FieldBytes(field) \in [1..BorshWidth[field.type] -> B] BY <1>1 DEF FieldBytes
<1>4. ASSUME NEW k \in Nat, NEW s \in [1..k -> B] PROVE s \in Seq(B) /\ Len(s) = k
    <2>1. s \in Seq(B) OBVIOUS
    <2> QED BY <2>1, LenProperties
<1> QED BY <1>2, <1>3, <1>4

LEMMA DiscriminatorTyped ==
    ASSUME NEW B, [of : {"discriminator"}, type : Types, at : Nat] \subseteq B
    PROVE  Discriminator \in Seq(B) /\ Len(Discriminator) = DiscriminatorBytes
<1>1. \A j \in 1..8 : [of |-> "discriminator", type |-> "u8", at |-> j]
                        \in [of : {"discriminator"}, type : Types, at : Nat]
    BY DEF Types
<1>2. Discriminator \in [1..8 -> B] BY <1>1 DEF Discriminator, DiscriminatorBytes
<1>3. ASSUME NEW k \in Nat, NEW s \in [1..k -> B] PROVE s \in Seq(B) /\ Len(s) = k
    <2>1. s \in Seq(B) OBVIOUS
    <2> QED BY <2>1, LenProperties
<1> QED BY <1>2, <1>3 DEF DiscriminatorBytes

\* hooks.ts 145-296: a decoder whose readers are the types of the fields, one after the
\* other, reads each field from that field's bytes, whatever the struct.
LEMMA InStepReads ==
    ASSUME NEW struct, NEW readers, NEW n, NEW m, InStep(struct, readers, n, m),
           NEW i \in 1..m
    PROVE  ReadBytes(readers, AccountData(struct), i) = FieldBytes(struct[i])
<1> DEFINE B == [of : {struct[j].name : j \in 1..n} \cup {"discriminator"}, type : Types, at : Nat]
           seqs == [j \in DOMAIN struct |-> FieldBytes(struct[j])]
           at == [j \in 1..m |-> Offset(readers, j)]
<1>1. /\ n \in Nat \ {0} /\ m \in 0..n /\ i \in 1..n /\ m \in Nat
      /\ DOMAIN struct = 1..n /\ DOMAIN readers = 1..m
      /\ \A j \in 1..n : struct[j].type \in Types
      /\ \A j \in 1..m : j \in 1..n /\ readers[j] = struct[j].type
    BY DEF InStep
<1>2. /\ [of : {"discriminator"}, type : Types, at : Nat] \subseteq B
      /\ \A j \in 1..n : [of : {struct[j].name}, type : Types, at : Nat] \subseteq B
    OBVIOUS
<1>3. Discriminator \in Seq(B) /\ Len(Discriminator) = DiscriminatorBytes
    <2> HIDE DEF B
    <2> QED BY <1>2, DiscriminatorTyped
<1>4. ASSUME NEW j \in 1..n
      PROVE  /\ FieldBytes(struct[j]) \in Seq(B)
             /\ Len(FieldBytes(struct[j])) = BorshWidth[struct[j].type]
    <2> HIDE DEF B
    <2> QED BY <1>1, <1>2, FieldBytesTyped
<1>5. seqs \in [1..n -> Seq(B)] /\ \A j \in 1..n : seqs[j] = FieldBytes(struct[j])
    <2> HIDE DEF B
    <2> QED BY <1>1, <1>4
<1>6. \A j \in 1..n : Len(seqs[j]) = BorshWidth[struct[j].type] /\ Len(seqs[j]) \in Nat \ {0}
    <2> HIDE DEF B, seqs
    <2> QED BY <1>1, <1>4, <1>5, Widths
<1>7. \A j \in 1..m : ReadWidth[readers[j]] = Len(seqs[j]) /\ ReadWidth[readers[j]] \in Nat
    <2> HIDE DEF B, seqs
    <2> QED BY <1>1, <1>6, Widths
<1>8. /\ \A j \in 1..m : Offset(readers, j) \in Nat
      /\ m > 0 => Offset(readers, 1) = DiscriminatorBytes
      /\ \A j \in 1..m : j > 1 =>
            Offset(readers, j) = Offset(readers, j - 1) + ReadWidth[readers[j - 1]]
    <2>1. \A j \in 1..m : ReadWidth[readers[j]] \in Nat BY <1>7
    <2> HIDE DEF B, seqs, at
    <2> QED BY <1>1, <2>1, OffsetSteps
<1>9. Begins(at, Discriminator, seqs, m)
    <2>1. \A j \in 1..m : at[j] = Offset(readers, j) OBVIOUS
    <2>2. m > 0 => 1 \in 1..m BY <1>1
    <2>3. \A j \in 1..m : j > 1 => j - 1 \in 1..m BY <1>1
    <2> HIDE DEF B, seqs, at
    <2> QED BY <1>3, <1>7, <1>8, <2>1, <2>2, <2>3 DEF Begins
<1>10. at[i] = Offset(readers, i) OBVIOUS
<1>11. AccountData(struct) = Discriminator \o FlattenSeq(seqs) BY DEF AccountData, Discriminator
<1>12. \A j \in 1..n : Len(seqs[j]) > 0 BY <1>6
<1> HIDE DEF B, seqs, at
<1>13. Holds(Discriminator \o FlattenSeq(seqs), at[i], seqs[i])
    <2>1. \A X :
            Begins(at, Discriminator, seqs, m) /\ Discriminator \in Seq(X) /\ seqs \in [1..n -> Seq(X)]
                => Holds(Discriminator \o FlattenSeq(seqs), at[i], seqs[i])
        BY ONLY <1>1, <1>12, FindsItsOwn, i \in 1..m
    <2> QED BY <1>3, <1>5, <1>9, <2>1
<1> QED BY <1>1, <1>5, <1>7, <1>10, <1>11, <1>13 DEF ReadBytes, Holds

\* The decoder has a reader for each field of the interface, and the types and the names
\* are those of the first fields of the struct.
Mirrors(struct, readers, fills, n, m) ==
    /\ DOMAIN struct = 1..n /\ \A i \in 1..n : struct[i].type \in Types
    /\ DOMAIN readers = 1..m /\ Len(readers) = m /\ Len(fills) = m
    /\ \A i \in 1..m : struct[i] = Field(readers[i], fills[i])

LEMMA MirrorsReads ==
    ASSUME NEW l, NEW n \in Nat \ {0}, NEW m \in 0..n, Mirrors(l.struct, l.readers, l.fills, n, m)
    PROVE  ReadRight(l)
<1>1. /\ DOMAIN l.readers = 1..m /\ Len(l.fills) = Len(l.readers)
      /\ \A i \in 1..m : l.struct[i] = Field(l.readers[i], l.fills[i]) /\ l.struct[i].type = l.readers[i]
    BY DEF Mirrors, Field
<1>2. InStep(l.struct, l.readers, n, m) BY <1>1 DEF InStep, Mirrors
<1>3. \A i \in 1..m : ReadBytes(l.readers, AccountData(l.struct), i) = FieldBytes(l.struct[i])
    BY <1>2, InStepReads
<1> QED BY <1>1, <1>3 DEF ReadRight, Field

LEMMA ConfigMirrors == Mirrors(MerchantConfigStruct, decodeMerchantConfig, MerchantConfig, 18, 18)
BY DEF Mirrors, MerchantConfigStruct, decodeMerchantConfig, MerchantConfig, Types, Field, U8, U16, U32, U64, I64, Bool, Pubkey

LEMMA OracleMirrors == Mirrors(ViralOracleStruct, decodeViralOracle, ViralOracle, 18, 18)
BY DEF Mirrors, ViralOracleStruct, decodeViralOracle, ViralOracle, Types, Field, U8, U16, U32, U64, I64, Bool, Pubkey

LEMMA ReputationMirrors == Mirrors(MerchantReputationStruct, decodeMerchantReputation, MerchantReputation, 11, 11)
BY DEF Mirrors, MerchantReputationStruct, decodeMerchantReputation, MerchantReputation, Types, Field, U8, U16, U32, U64, I64, Bool, Pubkey

LEMMA BondMirrors == Mirrors(MerchantBondStruct, decodeMerchantBond, MerchantBond, 6, 6)
BY DEF Mirrors, MerchantBondStruct, decodeMerchantBond, MerchantBond, Types, Field, U8, U16, U32, U64, I64, Bool, Pubkey

LEMMA LedgerMirrors == Mirrors(CommissionLedgerStruct, decodeCommissionLedger, CommissionLedger, 12, 12)
BY DEF Mirrors, CommissionLedgerStruct, decodeCommissionLedger, CommissionLedger, Types, Field, U8, U16, U32, U64, I64, Bool, Pubkey

LEMMA GenerationMirrors == Mirrors(TokenGenerationStruct, decodeTokenGeneration, TokenGenerationHead, 10, 8)
BY DEF Mirrors, TokenGenerationStruct, decodeTokenGeneration, TokenGenerationHead, Types, Field, U8, U16, U32, U64, I64, Bool, Pubkey

LEMMA GraphMirrors == Mirrors(TokenGenerationStruct, decodeNetworkNode, TokenGenerationHead, 10, 8)
BY DEF Mirrors, TokenGenerationStruct, decodeNetworkNode, TokenGenerationHead, Types, Field, U8, U16, U32, U64, I64, Bool, Pubkey

LEMMA ResolvedDisputeMirrors ==
    Mirrors(DisputeRecordStruct(TRUE), decodeDisputeRecord(TRUE), DisputeRecord(TRUE), 9, 9)
BY DEF Mirrors, DisputeRecordStruct, decodeDisputeRecord, DisputeRecord, Types, Field, U8, U16, U32, U64, I64, Bool, Pubkey

LEMMA OpenDisputeMirrors ==
    Mirrors(DisputeRecordStruct(FALSE), decodeDisputeRecord(FALSE), DisputeRecord(FALSE), 8, 8)
BY DEF Mirrors, DisputeRecordStruct, decodeDisputeRecord, DisputeRecord, Types, Field, U8, U16, U32, U64, I64, Bool, Pubkey

LEMMA StatusesAreRight == StatusesRight
BY DEF StatusesRight, DisputeStatusOrder, statusMap

\* The filters look for the key where the reader of that field does.
LEMMA FilterReads ==
    ASSUME NEW struct, NEW readers, NEW fills, NEW n \in Nat \ {0}, NEW m \in 0..n,
           Mirrors(struct, readers, fills, n, m), NEW i \in 1..m, readers[i] = "pubkey",
           NEW offset, Offset(readers, i) = offset
    PROVE  FilterRight(struct, offset, fills[i])
<1>1. /\ \A j \in 1..m : struct[j].type = readers[j]
      /\ struct[i] = [type |-> "pubkey", name |-> fills[i]]
    <2>1. \A a, b : Field(a, b) = [type |-> a, name |-> b] /\ Field(a, b).type = a BY DEF Field
    <2>2. \A j \in 1..m : struct[j] = Field(readers[j], fills[j]) BY DEF Mirrors
    <2> QED BY <2>1, <2>2
<1>2. InStep(struct, readers, n, m) BY <1>1 DEF InStep, Mirrors
<1>3. ReadBytes(readers, AccountData(struct), i) = FieldBytes(struct[i]) BY <1>2, InStepReads
<1>4. ReadWidth[readers[i]] = BorshWidth["pubkey"] BY DEF ReadWidth, BorshWidth
<1> QED BY <1>1, <1>3, <1>4 DEF FilterRight, KeyAt, ReadBytes

LEMMA DisputeFilter == FilterRight(DisputeRecordStruct(FALSE), DisputeFilterOffset, "merchant")
<1> DEFINE readers == decodeDisputeRecord(FALSE)
<1>1. /\ readers[1] = "u8" /\ readers[2] = "pubkey" /\ DisputeRecord(FALSE)[2] = "merchant"
      /\ DOMAIN readers = 1..8 /\ \A i \in 1..8 : readers[i] \in Types
    BY DEF decodeDisputeRecord, DisputeRecord, Types
<1> HIDE DEF readers
<1>2. \A i \in 1..8 : ReadWidth[readers[i]] \in Nat BY <1>1, Widths
<1>3. /\ Offset(readers, 1) = DiscriminatorBytes
      /\ Offset(readers, 2) = Offset(readers, 2 - 1) + ReadWidth[readers[2 - 1]]
    BY <1>1, <1>2, OffsetSteps, 8 \in Nat, 8 > 0, 2 \in 1..8, 2 > 1
<1>4. Offset(readers, 2) = DisputeFilterOffset
    BY <1>1, <1>3 DEF DiscriminatorBytes, ReadWidth, DisputeFilterOffset
<1> QED BY <1>1, <1>4, OpenDisputeMirrors, FilterReads,
           8 \in Nat \ {0}, 8 \in 0..8, 2 \in 1..8 DEF readers

LEMMA GraphFilter == FilterRight(TokenGenerationStruct, GraphFilterOffset, "mint")
<1> DEFINE readers == decodeNetworkNode
<1>1. /\ readers[1] = "u8" /\ readers[2] = "u8" /\ readers[3] = "pubkey"
      /\ TokenGenerationHead[3] = "mint"
      /\ DOMAIN readers = 1..8 /\ \A i \in 1..8 : readers[i] \in Types
    BY DEF decodeNetworkNode, TokenGenerationHead, Types
<1> HIDE DEF readers
<1>2. \A i \in 1..8 : ReadWidth[readers[i]] \in Nat BY <1>1, Widths
<1>3. /\ Offset(readers, 1) = DiscriminatorBytes
      /\ Offset(readers, 2) = Offset(readers, 2 - 1) + ReadWidth[readers[2 - 1]]
      /\ Offset(readers, 3) = Offset(readers, 3 - 1) + ReadWidth[readers[3 - 1]]
    BY <1>1, <1>2, OffsetSteps, 8 \in Nat, 8 > 0, 2 \in 1..8, 2 > 1, 3 \in 1..8, 3 > 1
<1>4. Offset(readers, 3) = GraphFilterOffset
    BY <1>1, <1>3 DEF DiscriminatorBytes, ReadWidth, GraphFilterOffset
<1> QED BY <1>1, <1>4, GraphMirrors, FilterReads,
           10 \in Nat \ {0}, 8 \in 0..10, 3 \in 1..8 DEF readers

\* solana.ts, hooks.ts: every decoder and every filter is in step with the program's struct.
THEOREM NothingMisread == Misreading = {}
<1>1. ASSUME NEW l \in Layouts PROVE ReadRight(l)
    <2>2. CASE l = [hook |-> "config", struct |-> MerchantConfigStruct, fills |-> MerchantConfig,
                  readers |-> decodeMerchantConfig]
        BY <2>2, ConfigMirrors, MirrorsReads, 18 \in Nat \ {0}, 18 \in 0..18
    <2>3. CASE l = [hook |-> "oracle", struct |-> ViralOracleStruct, fills |-> ViralOracle,
                  readers |-> decodeViralOracle]
        BY <2>3, OracleMirrors, MirrorsReads, 18 \in Nat \ {0}, 18 \in 0..18
    <2>4. CASE l = [hook |-> "reputation", struct |-> MerchantReputationStruct, fills |-> MerchantReputation,
                  readers |-> decodeMerchantReputation]
        BY <2>4, ReputationMirrors, MirrorsReads, 11 \in Nat \ {0}, 11 \in 0..11
    <2>5. CASE l = [hook |-> "bond", struct |-> MerchantBondStruct, fills |-> MerchantBond,
                  readers |-> decodeMerchantBond]
        BY <2>5, BondMirrors, MirrorsReads, 6 \in Nat \ {0}, 6 \in 0..6
    <2>6. CASE l = [hook |-> "ledger", struct |-> CommissionLedgerStruct, fills |-> CommissionLedger,
                  readers |-> decodeCommissionLedger]
        BY <2>6, LedgerMirrors, MirrorsReads, 12 \in Nat \ {0}, 12 \in 0..12
    <2>7. CASE l = [hook |-> "generation", struct |-> TokenGenerationStruct, fills |-> TokenGenerationHead,
                  readers |-> decodeTokenGeneration]
        BY <2>7, GenerationMirrors, MirrorsReads, 10 \in Nat \ {0}, 8 \in 0..10
    <2>8. CASE l = [hook |-> "graph", struct |-> TokenGenerationStruct, fills |-> TokenGenerationHead,
                  readers |-> decodeNetworkNode]
        BY <2>8, GraphMirrors, MirrorsReads, 10 \in Nat \ {0}, 8 \in 0..10
    <2>9. CASE \E r \in BOOLEAN : l = [hook |-> "disputes", struct |-> DisputeRecordStruct(r),
                  fills |-> DisputeRecord(r), readers |-> decodeDisputeRecord(r)]
        <3>1. PICK r \in BOOLEAN : /\ l.struct = DisputeRecordStruct(r) /\ l.fills = DisputeRecord(r)
                                   /\ l.readers = decodeDisputeRecord(r)
            BY <2>9
        <3>2. CASE r
            BY <3>1, <3>2, ResolvedDisputeMirrors, MirrorsReads, 9 \in Nat \ {0}, 9 \in 0..9
        <3>3. CASE ~r
            BY <3>1, <3>3, OpenDisputeMirrors, MirrorsReads, 8 \in Nat \ {0}, 8 \in 0..8
        <3> QED BY <3>2, <3>3
    <2> QED BY <2>2, <2>3, <2>4, <2>5, <2>6, <2>7, <2>8, <2>9 DEF Layouts
<1>2. \A l \in Layouts : ReadRight(l) BY <1>1
<1> QED BY <1>2, StatusesAreRight, DisputeFilter, GraphFilter DEF Misreading

\* hooks.ts: the decoders "match the field order in the Rust structs exactly", and the
\* filters of the list hooks look where the keys are, on every page.
THEOREM DecodersAgree == Spec => []DecodersMatchStructs
<1>1. DecodersMatchStructs BY NothingMisread DEF DecodersMatchStructs
<1> QED BY <1>1, PTL

=============================================================================

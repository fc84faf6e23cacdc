------------------------------- MODULE SignIn -------------------------------
(***************************************************************************)
(* Signing in to the app and moving between its pages, in one browser tab: *)
(* the AuthProvider (auth.tsx), the login page, sign-out on the settings   *)
(* page, the wallet every page reads (useWallet.ts).  The session saved in *)
(* localStorage is shared with the other tabs, which may write it at any   *)
(* time.  React runs a handler, the render it causes and that render's     *)
(* effects before the next event, so they are one action; the navigation   *)
(* they ask the router for arrives later.                                  *)
(***************************************************************************)
EXTENDS Naturals

CONSTANTS
    Account,         \* wallet addresses handleLogin derives from a name and a provider
    NoAddr,          \* null, where an address is expected
    Envs,            \* NEXT_PUBLIC_MERCHANT_PUBKEY of the builds considered, or NoAddr
    NoSession,       \* no saved session
    Garbled          \* a saved session JSON.parse or PublicKey rejects

Roles == {"merchant", "consumer"}
NoRole == "none"
NoPage == "none"

VARIABLES
    env,             \* the build's NEXT_PUBLIC_MERCHANT_PUBKEY
    loading, account, role,     \* AuthProvider: loading, walletAddress (authenticated
                                \* exactly when it is not null), role
    modal,           \* AuthProvider and LoginModal: showModal and step
    page, nav,       \* the mounted page; where the router was last told to go
    back,            \* the page the browser's back button returns to from /login
    pending,         \* LoginPage: pendingRole
    confirming,      \* SettingsPage: showLogoutConfirm
    saved,           \* localStorage 'vs-auth-session'
    foreign          \* history: another tab wrote saved after this one last did

signInVars ==
    <<env, loading, account, role, modal, page, nav, back, pending, confirming, saved, foreign>>

Session == [account : Account, role : Roles \cup {NoRole}]

ASSUME SignInAssumption ==
    NoAddr \notin Account /\ NoSession \notin Session /\ Garbled \notin Session

-----------------------------------------------------------------------------

Home(r) == IF r = "merchant" THEN "/" ELSE "/consumer"

MerchantTabs == {"/", "/oracle", "/pos", "/network", "/settings"}
ConsumerTabs == {"/consumer", "/consumer/earn", "/consumer/scan", "/consumer/profile", "/settings"}
Tabs(r) == IF r = "consumer" THEN ConsumerTabs ELSE MerchantTabs
Pages == {"/login", "/disputes"} \cup MerchantTabs \cup ConsumerTabs

\* What the page shows beside the tabs; the navigation bar is hidden on /login.
PageLinks(p, r) ==
    CASE p = "/settings" /\ r = "merchant" -> {"/oracle", "/disputes", "/network"}
      [] p = "/consumer" -> {"/consumer/earn", "/consumer/scan", "/consumer/profile"}
      [] p = "/pos" -> {"/"}
      [] OTHER -> {}
Links(p, r) == IF p = "/login" THEN {} ELSE Tabs(r) \cup PageLinks(p, r)

\* useWallet: the signed-in account, else the merchant of the build.
useWallet == IF account # NoAddr THEN account ELSE env

\* Mutant: setRole leaves the saved session alone.
WithoutRole(s, r) == s

\* handleSetRole on the saved session; one that is gone or unreadable stays so.
WithRole(s, r) == IF s \in Session THEN [s EXCEPT !.role = r] ELSE s

Saved(a, r) == [account |-> a, role |-> r]

\* The two effects of the login page after a render with this account, role and
\* pendingRole: set the pending role, then go to the home of the role there is.
RoleAfterEffects(p, a, r, pend) ==
    IF p = "/login" /\ a # NoAddr /\ pend # NoRole THEN pend ELSE r
\* Mutant: only a pending role takes a user away from the login page.
NavOnPending(p, a, r, pend, n) ==
    IF p = "/login" /\ a # NoAddr /\ pend # NoRole THEN Home(pend) ELSE n

NavAfterEffects(p, a, r, pend, n) ==
    IF p = "/login" /\ a # NoAddr /\ RoleAfterEffects(p, a, r, pend) # NoRole
    THEN Home(RoleAfterEffects(p, a, r, pend)) ELSE n

-----------------------------------------------------------------------------

\* A tab is opened on a page, with whatever the browser has saved.
SignInInit ==
    /\ env \in Envs
    /\ loading = TRUE /\ account = NoAddr /\ role = NoRole
    /\ modal = "closed"
    /\ page \in {"/login", "/", "/consumer"} /\ nav = NoPage /\ back = NoPage
    /\ pending = NoRole /\ confirming = FALSE
    /\ saved \in Session \cup {NoSession, Garbled}
    /\ foreign = FALSE

\* AuthProvider's first effect reads the saved session, and drops an unreadable one.
Restore ==
    /\ loading
    /\ loading' = FALSE
    /\ saved' = IF saved = Garbled THEN NoSession ELSE saved
    /\ account' = IF saved \in Session THEN saved.account ELSE NoAddr
    /\ role' = IF saved \in Session THEN saved.role ELSE NoRole
    /\ nav' = NavAfterEffects(page, account', role', NoRole, nav)
    /\ foreign' = FALSE
    /\ UNCHANGED <<env, modal, page, back, pending, confirming>>

\* handleMerchant and handleConsumer on the login page.
ChooseRealm(r) ==
    /\ page = "/login" /\ ~loading /\ modal = "closed"
    /\ pending' = r
    /\ IF account # NoAddr
       THEN /\ role' = r
            /\ saved' = WithRole(saved, r)
            /\ nav' = Home(r)
            /\ UNCHANGED modal
       ELSE /\ modal' = "choose"
            /\ UNCHANGED <<role, saved, nav>>
    /\ UNCHANGED <<env, loading, account, page, back, confirming, foreign>>

PickProvider ==
    /\ modal = "choose"
    /\ modal' = "form"
    /\ UNCHANGED <<env, loading, account, role, page, nav, back, pending, confirming, saved, foreign>>

BackToProviders ==
    /\ modal = "form"
    /\ modal' = "choose"
    /\ UNCHANGED <<env, loading, account, role, page, nav, back, pending, confirming, saved, foreign>>

CloseModal ==
    /\ modal # "closed"
    /\ modal' = "closed"
    /\ UNCHANGED <<env, loading, account, role, page, nav, back, pending, confirming, saved, foreign>>

\* handleLogin, with what the login page makes of it when it is mounted.  The
\* form is submitted only with a name (an address with an @, for email).
handleLogin(a) ==
    /\ modal = "form"
    /\ modal' = "closed"
    /\ account' = a
    /\ role' = RoleAfterEffects(page, a, role, pending)
    /\ saved' = WithRole(Saved(a, role), role')
    /\ nav' = NavAfterEffects(page, a, role, pending, nav)
    /\ pending' = NoRole
    /\ foreign' = FALSE
    /\ UNCHANGED <<env, loading, page, back, confirming>>

AskLogout(answer) ==
    /\ page = "/settings" /\ modal = "closed"
    /\ confirming' = answer
    /\ UNCHANGED <<env, loading, account, role, modal, page, nav, back, pending, saved, foreign>>

\* Mutant: logout forgets the role.
handleLogoutKeepingRole ==
    /\ page = "/settings" /\ modal = "closed" /\ confirming
    /\ account' = NoAddr
    /\ saved' = NoSession
    /\ foreign' = FALSE
    /\ nav' = "/login"
    /\ UNCHANGED <<env, loading, role, modal, page, back, pending, confirming>>

handleLogout ==
    /\ page = "/settings" /\ modal = "closed" /\ confirming
    /\ account' = NoAddr /\ role' = NoRole
    /\ saved' = NoSession
    /\ foreign' = FALSE
    /\ nav' = "/login"
    /\ UNCHANGED <<env, loading, modal, page, back, pending, confirming>>

\* "Switch Role" on the settings page.
SwitchRole ==
    /\ page = "/settings" /\ modal = "closed"
    /\ nav' = "/login"
    /\ UNCHANGED <<env, loading, account, role, modal, page, back, pending, confirming, saved, foreign>>

\* The page p mounts; a login page that finds a role leaves again at once.
Mount(p, b) ==
    /\ page' = p
    /\ back' = b
    /\ nav' = NavAfterEffects(p, account, role, NoRole, NoPage)
    /\ pending' = NoRole /\ confirming' = FALSE
    /\ UNCHANGED <<env, loading, account, role, modal, saved, foreign>>

Arrive == nav # NoPage /\ Mount(nav, IF nav = "/login" THEN page ELSE NoPage)

Visit(p) == p \in Links(page, role) \ {page} /\ modal = "closed" /\ Mount(p, NoPage)

\* The browser's back button works over an open modal too.
GoBack == page = "/login" /\ back # NoPage /\ Mount(back, NoPage)

\* A refresh, or a crash of the tab and a return to it: only localStorage is left.
Reload ==
    /\ loading' = TRUE /\ account' = NoAddr /\ role' = NoRole
    /\ modal' = "closed" /\ pending' = NoRole /\ confirming' = FALSE
    /\ nav' = NoPage /\ back' = NoPage
    /\ UNCHANGED <<env, page, saved, foreign>>

\* Another tab signs in or out, or sets its role.
OtherTab ==
    /\ \/ \E a \in Account : saved' = Saved(a, NoRole)
       \/ saved' = NoSession
       \/ \E r \in Roles : saved' = WithRole(saved, r)
    /\ saved' # saved
    /\ foreign' = TRUE
    /\ UNCHANGED <<env, loading, account, role, modal, page, nav, back, pending, confirming>>

\* What happens while the tab stays open; Reload is apart.
SignInNext ==
    \/ Restore
    \/ \E r \in Roles : ChooseRealm(r)
    \/ PickProvider
    \/ BackToProviders
    \/ CloseModal
    \/ \E a \in Account : handleLogin(a)
    \/ \E answer \in BOOLEAN : confirming # answer /\ AskLogout(answer)
    \/ handleLogout
    \/ SwitchRole
    \/ Arrive
    \/ \E p \in Pages : Visit(p)
    \/ GoBack
    \/ OtherTab

=============================================================================

------------------------------- MODULE Client -------------------------------
(***************************************************************************)
(* The app in one browser tab: the sign-in and the pages (SignIn) with a   *)
(* data hook of the mounted page (AccountFeed), whose address follows the  *)
(* wallet, the layouts its decoders read (Layouts), and the scan page      *)
(* (ScanPage), which lives as long as it is the mounted page.              *)
(***************************************************************************)
EXTENDS AccountFeed, Layouts, ScanPage

tabVars == <<signInVars, feedVars>>
clientVars == <<tabVars, scanVars>>

Init ==
    /\ SignInInit /\ ScanInit
    /\ hook \in Hooks
    /\ chain \in [Addr -> {0, 1}]
    /\ \A a \in Addr \ Publishing : chain[a] = 1
    /\ shown = IF Mounted(page) /\ Given = NoAddr THEN Missing ELSE Loading
    /\ flight = IF Mounted(page) THEN Asked(Given) ELSE <<>>

ScanFollows == IF page' = page THEN UNCHANGED scanVars ELSE ScanLeft

\* The hook follows the page and the wallet; a reload mounts its page anew.
Browse == SignInNext /\ Follow /\ ScanFollows
Refresh == Reload /\ FollowReload /\ ScanLeft
\* A modal over the page takes its clicks, the timers go on.
Scan ==
    /\ page = "/consumer/scan"
    /\ ScanNext
    /\ scan' = "scanning" => modal = "closed"
    /\ UNCHANGED tabVars

Tick == Poll /\ UNCHANGED <<signInVars, scanVars>>
Answer == (\E i \in DOMAIN flight : Serve(i)) /\ UNCHANGED <<signInVars, scanVars>>
Receive == (\E i \in DOMAIN flight : Deliver(i)) /\ UNCHANGED <<signInVars, scanVars>>
Lose == (\E i \in DOMAIN flight : Fail(i)) /\ UNCHANGED <<signInVars, scanVars>>
Write == (\E a \in Publishing : Publish(a)) /\ UNCHANGED <<signInVars, scanVars>>

Next == Browse \/ Refresh \/ Scan \/ Tick \/ Answer \/ Receive \/ Lose \/ Write

\* The interval keeps firing, and the network does not fail for ever: requests
\* are answered and answers received again and again, though any may be lost.
Fairness ==
    /\ WF_clientVars(Tick)
    /\ SF_clientVars(Answer)
    /\ SF_clientVars(Receive)

Spec == Init /\ [][Next]_clientVars /\ Fairness

-----------------------------------------------------------------------------
(* Properties *)

\* The type invariant of the tab, and what holds of a signed-out provider.
ClientTypeOK ==
    /\ env \in Envs /\ loading \in BOOLEAN
    /\ account \in Account \cup {NoAddr} /\ role \in Roles \cup {NoRole}
    /\ modal \in {"closed", "choose", "form"}
    /\ page \in Pages /\ nav \in Pages \cup {NoPage} /\ back \in Pages \cup {NoPage}
    /\ pending \in Roles \cup {NoRole} /\ confirming \in BOOLEAN
    /\ saved \in Session \cup {NoSession, Garbled} /\ foreign \in BOOLEAN
    /\ hook \in Hooks /\ chain \in [Addr -> Version]
    /\ shown \in Data \cup {Loading, Missing, Errored}
    /\ flight \in Seq(Request) /\ Len(flight) <= MaxInFlight + 2
    /\ scan \in {"idle", "scanning"} \cup Verdicts
    /\ verdicts \in Seq(Verdicts) /\ rests \in 0..MaxTimers
    /\ account = NoAddr => role = NoRole

\* A refresh brings the user back as they were: unless another tab wrote it
\* since, the saved session is the account and the role this tab has, and there
\* is none when nobody is signed in.
ReloadRestoresSession ==
    ~loading /\ ~foreign =>
        saved = IF account = NoAddr THEN NoSession ELSE Saved(account, role)

\* The login page never keeps a user who has an account and a role: it is
\* already on its way to their home.
SignedInLeavesLogin ==
    page = "/login" /\ account # NoAddr /\ role # NoRole => nav = Home(role)

\* A signed-in user is never shown the data of another account that was signed
\* in before, however late its answers come; a late answer can only be of the
\* shop the build is for, which the page asks about until the session is read.
NobodyElsesData ==
    account # NoAddr /\ shown \in Data => shown.of \in {account, env}

\* hooks.ts: the decoders "match the field order in the Rust structs exactly".
\* Whatever page is open, the hook it mounts reads every field of the account
\* from that field's bytes, and asks for accounts by the right bytes; so does
\* the hook for a TokenGeneration, ready for a page that mounts it.
DecodersMatchStructs == Mounted(page) => Misreading \cap {hook, "generation"} = {}

\* A list hook never starts to show what it asked for under an earlier address.
LateAnswersDropped ==
    [][shown' # shown /\ shown' \in Data /\ hook \in OwnFlag => shown'.of = Given']_clientVars

\* While a page stays, with the same address and nothing written to it, what its
\* hook shows comes to be what is on chain, whatever was lost or came late.
Stays == <<page, Given, chain>>
EventuallyCurrent ==
    <>[]Mounted(page) /\ <>[][UNCHANGED Stays]_clientVars => []<>(shown = Current(Given))

\* solana.ts: "Mirrors the on-chain seed patterns from programs/viral_sync/src/".
\* A page that stays with the address of a merchant whose configuration is on
\* chain, and does not change, comes to show it.
ConfigurationFound ==
    /\ <>[](~loading /\ Mounted(page) /\ hook = "config" /\ Given # NoAddr /\ chain[Given] > 0)
    /\ <>[][UNCHANGED Stays]_clientVars
    => []<>(shown \in Data)

=============================================================================

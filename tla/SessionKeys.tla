---------------------------- MODULE SessionKeys ----------------------------
(***************************************************************************)
(* The session key of a browser tab (session-keys.ts): a keypair in memory *)
(* and a copy of it in sessionStorage, which a refresh of the page keeps.  *)
(* JavaScript runs one call at a time and a call is one step here.         *)
(* signWithSessionKey looks at the clock a second time and may refuse to   *)
(* sign; whether it signs or not, it does to the key what a page asking    *)
(* for the key does, and the two are one step.  sessionStorage.setItem is  *)
(* taken to succeed; where it throws (the storage is full or barred), a    *)
(* new key is left in memory without its copy.                             *)
(***************************************************************************)
EXTENDS Clock

CONSTANTS
    SESSION_DURATION,
    MaxKeys,         \* bound on the keys one tab generates
    NoKey,           \* null, in memory or in sessionStorage
    Unreadable       \* something in sessionStorage that does not parse

ASSUME KeysAssumption == SESSION_DURATION \in Nat /\ MaxKeys \in Nat

VARIABLES
    currentInfo,     \* currentKeypair and currentInfo: the key with its times and flag
    stored,          \* sessionStorage 'vs-session-key'
    generated        \* how many keys Keypair.generate has made: none comes twice

keyVars == <<currentInfo, stored, generated>>

Key == 1..MaxKeys
SessionKeyInfo == [key : Key, expiresAt : Nat, registeredOnChain : BOOLEAN]

-----------------------------------------------------------------------------

Live(info) == info \in SessionKeyInfo /\ info.expiresAt > now

KeysInit ==
    /\ currentInfo = NoKey
    /\ stored \in {NoKey, Unreadable}
    /\ generated = 0

Fresh == [key |-> generated + 1, expiresAt |-> now + SESSION_DURATION,
          registeredOnChain |-> FALSE]

\* Mutant: a stored copy is taken without asking whether it parses or is live.
getOrCreateUnchecked(got) ==
    \/ /\ Live(currentInfo) /\ got = currentInfo
       /\ UNCHANGED <<currentInfo, stored, generated>>
    \/ /\ ~Live(currentInfo) /\ stored # NoKey /\ got = stored
       /\ currentInfo' = stored
       /\ UNCHANGED <<stored, generated>>
    \/ /\ ~Live(currentInfo) /\ stored = NoKey /\ got = Fresh
       /\ generated < MaxKeys
       /\ generated' = generated + 1
       /\ currentInfo' = Fresh /\ stored' = Fresh

\* The key in memory if it is live, else the stored one, else a new one; with
\* got its info.
getOrCreateSessionKey(got) ==
    \/ /\ Live(currentInfo) /\ got = currentInfo
       /\ UNCHANGED <<currentInfo, stored, generated>>
    \/ /\ ~Live(currentInfo) /\ Live(stored) /\ got = stored
       /\ currentInfo' = stored
       /\ UNCHANGED <<stored, generated>>
    \/ /\ ~Live(currentInfo) /\ ~Live(stored) /\ got = Fresh
       /\ generated < MaxKeys
       /\ generated' = generated + 1
       /\ currentInfo' = Fresh /\ stored' = Fresh

\* A page asks for the key, or signs with it.
GetKey == \E got \in {currentInfo, stored, Fresh} : getOrCreateSessionKey(got)

\* Mutant: only the flag in memory is set.
markInMemory ==
    /\ currentInfo # NoKey
    /\ currentInfo' = [currentInfo EXCEPT !.registeredOnChain = TRUE]
    /\ UNCHANGED <<stored, generated>>

\* markSessionKeyRegistered; parsing a stored copy that does not parse throws
\* only after the flag in memory is set.
markSessionKeyRegistered ==
    /\ currentInfo # NoKey
    /\ currentInfo' = [currentInfo EXCEPT !.registeredOnChain = TRUE]
    /\ stored' = IF stored \in SessionKeyInfo
                 THEN [stored EXCEPT !.registeredOnChain = TRUE] ELSE stored
    /\ UNCHANGED generated

destroySessionKey ==
    /\ currentInfo' = NoKey /\ stored' = NoKey
    /\ UNCHANGED generated

\* The page is refreshed, or its tab crashes and is restored.
RefreshPage ==
    /\ currentInfo' = NoKey
    /\ UNCHANGED <<stored, generated>>

-----------------------------------------------------------------------------
(* Correctness *)

\* A refresh finds the key the page was using, with its flag: the copy in
\* sessionStorage follows the one in memory through renewals and registrations.
MemoryMatchesStorage == currentInfo # NoKey => stored = currentInfo

=============================================================================

------------------------- MODULE TokenFlow_proofs ---------------------------
(***************************************************************************)
(* For any number of wallets, any buffer size and any width: TypeOK and    *)
(* TrackedCoversBalance hold in every state of TokenFlow, and the inbound  *)
(* ring buffer never overwrites what it has not finalised.  Every step     *)
(* leaves a wallet's ring alone, writes one entry at its head below the    *)
(* limit, or finalises all of it, and each of the three keeps the          *)
(* unfinalised entries inside the window behind the head.                  *)
(***************************************************************************)
EXTENDS TokenFlow, TransferHook_proofs

\* Who may carry which flag: no instruction changes an account's owner, and
\* only the treasury's and the pools' accounts are special.
Accounts ==
    \A o \in Owner :
        /\ gen[o].owner = o
        /\ ~gen[o].is_intermediary
        /\ gen[o].is_treasury => o = Treasury
        /\ gen[o].is_dex_pool => o \in Pools

\* Opening an account overwrites nothing.
Unopened == \A o \in Owner \ initialized : gen[o] = FreshGeneration(o)

BooksInv == TypeOK /\ Accounts /\ Unopened /\ TrackedCoversBalance

-----------------------------------------------------------------------------
(* The hook as the transfers call it *)

LEMMA PathOutcome ==
    ASSUME NEW s, NEW d, NEW n
    PROVE  LET path == HookPath(gen[s], gen[d], ToVault(d))
           IN /\ path = "treasury" => Hook(s, d, n) = TreasuryOutcome(gen[s], gen[d], n)
              /\ path = "dex" => Hook(s, d, n) = DexOutcome(gen[s], gen[d], n)
              /\ path = "redemption"
                    => Hook(s, d, n) = RedemptionOutcome(config, now, gen[s], gen[d], n)
              /\ path = "issuance" => Hook(s, d, n) = IssuanceOutcome(now, gen[s], gen[d], n)
              /\ path = "release" => Hook(s, d, n) = ReleaseOutcome(now, gen[s], gen[d], n)
              /\ path = "peer" => Hook(s, d, n) = PeerOutcome(config, now, gen[s], gen[d], n)
              /\ path \in {"treasury", "dex", "redemption", "issuance", "release", "peer"}
BY DEF Hook, ExecuteTransferHook, HookPath

\* A transfer that goes through leaves both accounts well formed; a customer
\* who sends is booked for it, and so is one who receives.
LEMMA HookBooks ==
    ASSUME TypeOK, Accounts, NEW s \in Owner, NEW d \in Owner, NEW n \in U64, Hook(s, d, n).ok
    PROVE  /\ WellFormed(gen[s], gen[d], Hook(s, d, n))
           /\ s \in Wallet => Tracked(Hook(s, d, n).src) = Tracked(gen[s]) - n
           /\ d \in Wallet => Tracked(Hook(s, d, n).dst) = Tracked(gen[d]) + n
<1> DEFINE src == gen[s]
           dst == gen[d]
           path == HookPath(src, dst, ToVault(d))
<1>1. src \in TokenGeneration /\ dst \in TokenGeneration
  BY DEF TypeOK
<1>2. now \in Nat /\ config \in MerchantConfig
  BY DEF TypeOK
<1>3. /\ ~src.is_intermediary /\ ~dst.is_intermediary
      /\ s \in Wallet => ~src.is_treasury /\ ~FromMerchant(src)
      /\ d \in Wallet => ~dst.is_dex_pool /\ ~ToVault(d)
  BY RolesAssumption DEF Accounts, FromMerchant, ToVault
<1>4. CASE path = "treasury"
  <2>1. Hook(s, d, n) = TreasuryOutcome(src, dst, n)
    BY <1>4, PathOutcome
  <2>2. s \notin Wallet
    BY <1>3, <1>4 DEF HookPath
  <2> HIDE DEF src, dst, path
  <2> QED
    BY <1>1, <2>1, <2>2, TreasuryPath DEF src, dst
<1>5. CASE path = "dex"
  <2>1. Hook(s, d, n) = DexOutcome(src, dst, n)
    BY <1>5, PathOutcome
  <2> HIDE DEF path
  <2> QED
    BY <1>1, <1>3, <2>1, DexPath
<1>6. CASE path = "redemption"
  <2>1. Hook(s, d, n) = RedemptionOutcome(config, now, src, dst, n)
    BY <1>6, PathOutcome
  <2>2. d \notin Wallet
    BY <1>3, <1>6 DEF HookPath
  <2> HIDE DEF path
  <2> QED
    BY <1>1, <2>1, <2>2, RedemptionPath
<1>7. CASE path = "issuance"
  <2>1. Hook(s, d, n) = IssuanceOutcome(now, src, dst, n)
    BY <1>7, PathOutcome
  <2>2. s \notin Wallet
    BY <1>3, <1>7 DEF HookPath
  <2> HIDE DEF path
  <2> QED
    BY <1>1, <1>2, <2>1, <2>2, IssuancePath
<1>8. CASE path = "release"
  BY <1>3, <1>8 DEF HookPath
<1>9. CASE path = "peer"
  <2>1. Hook(s, d, n) = PeerOutcome(config, now, src, dst, n)
    BY <1>9, PathOutcome
  <2> HIDE DEF path
  <2> QED
    BY <1>1, <1>2, <1>3, <2>1, PeerPath
<1> QED
  BY <1>4, <1>5, <1>6, <1>7, <1>8, <1>9, PathOutcome

\* Token-2022's rounded-up fee is never negative, and zero at a rate of zero.
LEMMA FeeArithmetic ==
    ASSUME NEW n \in Nat, NEW b \in Nat
    PROVE  /\ (n * b + 9999) \div 10000 \in Nat
           /\ b = 0 => (n * b + 9999) \div 10000 = 0
<1> DEFINE product == n * b
<1>1. product \in Nat
  OBVIOUS
<1>2. b = 0 => product = 0
  OBVIOUS
<1> HIDE DEF product
<1>3. /\ (product + 9999) \div 10000 \in Nat
      /\ product = 0 => (product + 9999) \div 10000 = 0
  BY <1>1
<1> QED
  BY <1>2, <1>3 DEF product

LEMMA RateType ==
    ASSUME NEW b, b \in 0..9999
    PROVE  b \in Nat
OBVIOUS

LEMMA ConfigRate == \A c \in MerchantConfig : c.transfer_fee_bps \in 0..9999
BY DEF MerchantConfig

LEMMA FeeType ==
    ASSUME config \in MerchantConfig, NEW n \in Nat
    PROVE  TransferFee(n) \in Nat /\ (config.transfer_fee_bps = 0 => TransferFee(n) = 0)
<1>1. config.transfer_fee_bps \in 0..9999
  BY ConfigRate
<1>2. config.transfer_fee_bps \in Nat
  BY <1>1, RateType
<1> DEFINE bps == config.transfer_fee_bps
           fee == (n * bps + 9999) \div 10000
<1>3. TransferFee(n) = fee
  BY DEF TransferFee
<1>4. fee \in Nat /\ (bps = 0 => fee = 0)
  <2>1. bps \in Nat
    BY <1>2
  <2> HIDE DEF bps
  <2> QED
    BY <2>1, FeeArithmetic
<1> HIDE DEF fee
<1> QED
  BY <1>3, <1>4

-----------------------------------------------------------------------------
(* Every step keeps the invariant *)

LEMMA InitBooks == Init => BooksInv
<1> SUFFICES ASSUME Init PROVE BooksInv
  OBVIOUS
<1>1. \A o \in Owner : gen[o] = FreshGeneration(o)
  BY DEF Init
<1>2. gen \in [Owner -> TokenGeneration]
  BY FreshGenerationType DEF Init
<1>3. TypeOK
  <2>1. initialized \subseteq Owner /\ now \in Nat \ {0} /\ config \in MerchantConfig
    BY ConfigsAssumption, ClockAssumption DEF Init
  <2>2. tokens \in [Owner -> Int]
    BY MintedAssumption DEF Init
  <2>3. sharesMade \in [Owner -> Nat] /\ misbooked \subseteq Owner
    BY DEF Init
  <2> QED
    BY <1>2, <2>1, <2>2, <2>3 DEF TypeOK
<1>4. Accounts
  <2> SUFFICES ASSUME NEW o \in Owner
               PROVE  /\ gen[o].owner = o
                      /\ gen[o].is_intermediary = FALSE
                      /\ gen[o].is_treasury = FALSE
                      /\ gen[o].is_dex_pool = FALSE
    BY DEF Accounts
  <2> QED
    BY <1>1, FreshIdentity
<1>5. Unopened
  BY <1>1 DEF Unopened
<1>6. TrackedCoversBalance
  BY <1>1, FreshGenerationType, MintedAssumption, RolesAssumption DEF Init, TrackedCoversBalance
<1> QED
  BY <1>3, <1>4, <1>5, <1>6 DEF BooksInv

\* An instruction on one account that keeps its identity, and moves its books
\* with its tokens.
LEMMA OneAccount ==
    ASSUME BooksInv, NEW o \in initialized, NEW g \in TokenGeneration, NEW m \in Int,
           SameIdentity(gen[o], g), Tracked(g) = Tracked(gen[o]) + m,
           gen' = [gen EXCEPT ![o] = g],
           tokens' = [tokens EXCEPT ![o] = @ + m],
           UNCHANGED <<initialized, config, now, sharesMade, misbooked>>
    PROVE  BooksInv'
<1>1. o \in Owner /\ gen \in [Owner -> TokenGeneration] /\ tokens \in [Owner -> Int]
  BY DEF BooksInv, TypeOK
<1>2. TypeOK'
  <2>1. gen' \in [Owner -> TokenGeneration]
    BY <1>1
  <2>2. tokens' \in [Owner -> Int]
    BY <1>1
  <2> QED
    BY <2>1, <2>2 DEF BooksInv, TypeOK
<1>3. Accounts'
  BY <1>1 DEF BooksInv, Accounts, SameIdentity
<1>4. Unopened'
  BY <1>1 DEF BooksInv, Unopened
<1>5. TrackedCoversBalance'
  <2> SUFFICES ASSUME NEW w \in Wallet \ misbooked
               PROVE  /\ tokens'[w] <= Tracked(gen'[w])
                      /\ config.transfer_fee_bps = 0 => tokens'[w] = Tracked(gen'[w])
    BY DEF TrackedCoversBalance
  <2>1. w \in Owner /\ Tracked(gen[w]) \in Int /\ tokens[w] \in Int
    BY <1>1, RolesAssumption DEF TokenGeneration, Tracked, U64
  <2>2. /\ tokens[w] <= Tracked(gen[w])
        /\ config.transfer_fee_bps = 0 => tokens[w] = Tracked(gen[w])
    BY DEF BooksInv, TrackedCoversBalance
  <2>3. CASE w = o
    <3>1. gen'[w] = g /\ tokens'[w] = tokens[w] + m
      BY <1>1, <2>3
    <3> QED
      BY <2>1, <2>2, <2>3, <3>1
  <2>4. CASE w # o
    <3>1. gen'[w] = gen[w] /\ tokens'[w] = tokens[w]
      BY <1>1, <2>1, <2>4
    <3> QED
      BY <2>2, <3>1
  <2> QED
    BY <2>3, <2>4
<1> QED
  BY <1>2, <1>3, <1>4, <1>5 DEF BooksInv

\* A transfer, on whichever path of the hook.
LEMMA TransferBooks ==
    ASSUME BooksInv, NEW path, NEW s \in Owner, NEW d \in Owner, NEW n \in U64,
           Transfer(path, s, d, n), sharesMade' \in [Owner -> Nat]
    PROVE  BooksInv'
<1> DEFINE a == Hook(s, d, n).src
           b == Hook(s, d, n).dst
           fee == TransferFee(n)
<1>1. /\ s # d /\ s \in initialized /\ d \in initialized
      /\ gen' = [gen EXCEPT ![s] = a, ![d] = b]
      /\ tokens' = [tokens EXCEPT ![s] = @ - n, ![d] = @ + n - fee]
      /\ UNCHANGED <<initialized, config, now, misbooked>>
      /\ Hook(s, d, n).ok
  BY DEF Transfer
<1>2. /\ TypeOK /\ Accounts
      /\ gen \in [Owner -> TokenGeneration] /\ tokens \in [Owner -> Int]
      /\ n \in U64 /\ n \in Nat /\ config \in MerchantConfig
  BY WidthAssumption DEF BooksInv, TypeOK, U64
<1>3. /\ a \in TokenGeneration /\ SameIdentity(gen[s], a)
      /\ b \in TokenGeneration /\ SameIdentity(gen[d], b)
      /\ s \in Wallet => Tracked(a) = Tracked(gen[s]) - n
      /\ d \in Wallet => Tracked(b) = Tracked(gen[d]) + n
  BY <1>1, <1>2, HookBooks DEF WellFormed
<1>4. fee \in Nat /\ (config.transfer_fee_bps = 0 => fee = 0)
  BY <1>2, FeeType
<1> HIDE DEF a, b, fee
<1>5. TypeOK'
  BY <1>1, <1>2, <1>3, <1>4 DEF TypeOK
<1>6. Accounts'
  BY <1>1, <1>2, <1>3 DEF Accounts, SameIdentity
<1>7. Unopened'
  BY <1>1, <1>2 DEF BooksInv, Unopened
<1>8. TrackedCoversBalance'
  <2> SUFFICES ASSUME NEW w \in Wallet \ misbooked
               PROVE  /\ tokens'[w] <= Tracked(gen'[w])
                      /\ config.transfer_fee_bps = 0 => tokens'[w] = Tracked(gen'[w])
    BY <1>1 DEF TrackedCoversBalance
  <2>1. w \in Owner /\ Tracked(gen[w]) \in Int /\ tokens[w] \in Int
    BY <1>2, RolesAssumption DEF TokenGeneration, Tracked, U64
  <2>2. /\ tokens[w] <= Tracked(gen[w])
        /\ config.transfer_fee_bps = 0 => tokens[w] = Tracked(gen[w])
    BY DEF BooksInv, TrackedCoversBalance
  <2>3. CASE w = s
    <3>1. gen'[w] = a /\ tokens'[w] = tokens[w] - n
      BY <1>1, <1>2, <2>3
    <3> QED
      BY <1>2, <1>3, <2>1, <2>2, <2>3, <3>1
  <2>4. CASE w = d
    <3>1. gen'[w] = b /\ tokens'[w] = tokens[w] + n - fee
      BY <1>1, <1>2, <2>4
    <3> QED
      BY <1>2, <1>3, <1>4, <2>1, <2>2, <2>4, <3>1
  <2>5. CASE w # s /\ w # d
    <3>1. gen'[w] = gen[w] /\ tokens'[w] = tokens[w]
      BY <1>1, <1>2, <2>1, <2>5
    <3> QED
      BY <2>2, <3>1
  <2> QED
    BY <2>3, <2>4, <2>5
<1> QED
  BY <1>5, <1>6, <1>7, <1>8 DEF BooksInv

\* Opening an account, the treasury's or another's: it was untouched before.
LEMMA OpenBooks ==
    ASSUME BooksInv, NEW o \in Owner, o \notin initialized,
           NEW g \in TokenGeneration,
           \/ g = FreshGeneration(o)
           \/ (g = TreasuryGeneration(o) /\ o = Treasury),
           gen' = [gen EXCEPT ![o] = g], initialized' = initialized \cup {o},
           UNCHANGED <<tokens, config, now, sharesMade, misbooked>>
    PROVE  BooksInv'
<1>1. gen \in [Owner -> TokenGeneration] /\ gen[o] = FreshGeneration(o)
  BY DEF BooksInv, TypeOK, Unopened
<1>2. /\ g.owner = o /\ g.is_intermediary = FALSE /\ g.is_dex_pool = FALSE
      /\ g.is_treasury => o = Treasury
  <2>1. CASE g = FreshGeneration(o)
    BY <2>1 DEF FreshGeneration
  <2>2. CASE g = TreasuryGeneration(o) /\ o = Treasury
    BY <2>2 DEF FreshGeneration, TreasuryGeneration
  <2> QED
    BY <2>1, <2>2
<1>3. o \in Wallet => g = gen[o]
  BY <1>1, RolesAssumption
<1>4. TypeOK'
  BY <1>1 DEF BooksInv, TypeOK
<1>5. Accounts'
  BY <1>1, <1>2 DEF BooksInv, Accounts
<1>6. Unopened'
  BY <1>1 DEF BooksInv, Unopened
<1>7. TrackedCoversBalance'
  <2> SUFFICES ASSUME NEW w \in Wallet \ misbooked
               PROVE  gen'[w] = gen[w]
    BY DEF BooksInv, TrackedCoversBalance
  <2> QED
    BY <1>1, <1>3, RolesAssumption
<1> QED
  BY <1>4, <1>5, <1>6, <1>7 DEF BooksInv

LEMMA PoolFlag ==
    ASSUME NEW g \in TokenGeneration
    PROVE  LET h == [g EXCEPT !.is_dex_pool = TRUE]
           IN /\ h \in TokenGeneration
              /\ h.owner = g.owner /\ h.is_intermediary = g.is_intermediary
              /\ h.is_treasury = g.is_treasury
              /\ Tracked(h) = Tracked(g)
BY DEF TokenGeneration, Tracked

\* Registering a pool sets a flag no customer's account carries.
LEMMA PoolBooks ==
    ASSUME BooksInv, NEW o \in Owner, RegisterDexPool(o)
    PROVE  BooksInv'
<1> DEFINE g == [gen[o] EXCEPT !.is_dex_pool = TRUE]
<1>1. /\ gen \in [Owner -> TokenGeneration] /\ o \in Pools /\ o \in initialized
      /\ gen' = [gen EXCEPT ![o] = g]
      /\ UNCHANGED <<initialized, tokens, config, now, sharesMade, misbooked>>
  BY DEF BooksInv, TypeOK, RegisterDexPool
<1> gen[o] \in TokenGeneration
  BY <1>1
<1>2. /\ g \in TokenGeneration
      /\ g.owner = gen[o].owner /\ g.is_intermediary = gen[o].is_intermediary
      /\ g.is_treasury = gen[o].is_treasury
  BY <1>1, PoolFlag
<1> HIDE DEF g
<1>3. TypeOK'
  BY <1>1, <1>2 DEF BooksInv, TypeOK
<1>4. Accounts'
  BY <1>1, <1>2 DEF BooksInv, Accounts
<1>5. Unopened'
  BY <1>1 DEF BooksInv, Unopened
<1>6. TrackedCoversBalance'
  <2> SUFFICES ASSUME NEW w \in Wallet \ misbooked
               PROVE  gen'[w] = gen[w]
    BY <1>1 DEF BooksInv, TrackedCoversBalance
  <2> QED
    BY <1>1, RolesAssumption
<1> QED
  BY <1>3, <1>4, <1>5, <1>6 DEF BooksInv

\* A burn moves the books of o and the tokens of b.  When they are the same
\* owner's they agree as before; otherwise both owners are misbooked from here.
LEMMA BurnBooks ==
    ASSUME BooksInv, NEW o \in Owner, NEW b \in Owner \cup {NoOwner}, NEW n \in Amounts,
           BurnTokens(o, b, n)
    PROVE  BooksInv'
<1> DEFINE g == Burned(gen[o], n)
<1>1. /\ gen \in [Owner -> TokenGeneration] /\ tokens \in [Owner -> Int]
      /\ n \in U64 /\ n \in Int
  BY AmountsAssumption, WidthAssumption DEF BooksInv, TypeOK, U64
<1>2. /\ o \in initialized /\ gen' = [gen EXCEPT ![o] = g]
      /\ tokens' = [x \in Owner |-> IF x = b THEN tokens[x] - n ELSE tokens[x]]
      /\ UNCHANGED <<initialized, config, now, sharesMade>>
  BY DEF BurnTokens
<1>3. /\ g \in TokenGeneration /\ SameIdentity(gen[o], g)
      /\ Tracked(g) = Tracked(gen[o]) - n
  BY <1>1, BurnedType DEF BurnTokens
<1> HIDE DEF g
<1>4. CASE b = o
  <2>1. misbooked' = misbooked
    BY <1>4 DEF BurnTokens
  <2> DEFINE m == -n
  <2>2. Tracked(gen[o]) \in Int
    BY <1>1 DEF TokenGeneration, Tracked, U64
  <2>3. m \in Int /\ Tracked(g) = Tracked(gen[o]) + m
    BY <1>1, <1>3, <2>2
  <2>4. tokens' = [tokens EXCEPT ![o] = @ + m]
    <3>1. tokens[o] - n = tokens[o] + m
      BY <1>1
    <3> QED
      BY <1>1, <1>2, <1>4, <3>1
  <2> HIDE DEF m
  <2> QED
    BY <1>2, <1>3, <2>1, <2>3, <2>4, OneAccount
<1>5. CASE b # o
  <2>1. misbooked' = misbooked \cup ({o, b} \cap Owner)
    BY <1>5 DEF BurnTokens
  <2>2. TypeOK'
    <3>1. gen' \in [Owner -> TokenGeneration]
      BY <1>1, <1>2, <1>3
    <3>2. tokens' \in [Owner -> Int]
      BY <1>1, <1>2
    <3> QED
      BY <1>2, <2>1, <3>1, <3>2 DEF BooksInv, TypeOK
  <2>3. Accounts'
    BY <1>1, <1>2, <1>3 DEF BooksInv, Accounts, SameIdentity
  <2>4. Unopened'
    BY <1>1, <1>2 DEF BooksInv, Unopened
  <2>5. TrackedCoversBalance'
    <3> SUFFICES ASSUME NEW w \in Wallet \ misbooked'
                 PROVE  /\ w \in Wallet \ misbooked
                        /\ gen'[w] = gen[w] /\ tokens'[w] = tokens[w]
      BY <1>2 DEF BooksInv, TrackedCoversBalance
    <3>1. w \in Owner /\ w # o /\ w # b /\ w \notin misbooked
      BY <2>1, RolesAssumption
    <3> QED
      BY <1>1, <1>2, <3>1
  <2> QED
    BY <2>2, <2>3, <2>4, <2>5 DEF BooksInv
<1> QED
  BY <1>4, <1>5

LEMMA NextBooks == BooksInv /\ [Next]_vars => BooksInv'
<1> SUFFICES ASSUME BooksInv, [Next]_vars PROVE BooksInv'
  OBVIOUS
<1> USE DEF vars
<1>1. /\ gen \in [Owner -> TokenGeneration] /\ initialized \subseteq Owner
      /\ tokens \in [Owner -> Int] /\ sharesMade \in [Owner -> Nat]
  BY DEF BooksInv, TypeOK
<1>2. ASSUME NEW o \in Owner, InitTokenGeneration(o) PROVE BooksInv'
  <2> DEFINE g == FreshGeneration(o)
  <2>1. /\ o \notin initialized /\ gen' = [gen EXCEPT ![o] = g]
        /\ initialized' = initialized \cup {o}
        /\ UNCHANGED <<tokens, config, now, sharesMade, misbooked>>
    BY <1>2 DEF InitTokenGeneration
  <2>2. g \in TokenGeneration /\ g = FreshGeneration(o)
    BY FreshGenerationType
  <2> HIDE DEF g
  <2> QED
    BY <2>1, <2>2, OpenBooks
<1>3. ASSUME NEW o \in Owner, InitTreasuryTokenGeneration(o) PROVE BooksInv'
  <2> DEFINE g == TreasuryGeneration(o)
  <2>1. /\ o \notin initialized /\ gen' = [gen EXCEPT ![o] = g]
        /\ initialized' = initialized \cup {o} /\ o = Treasury
        /\ UNCHANGED <<tokens, config, now, sharesMade, misbooked>>
    BY <1>3 DEF InitTreasuryTokenGeneration
  <2>2. g \in TokenGeneration /\ g = TreasuryGeneration(o)
    BY TreasuryGenerationType
  <2> HIDE DEF g
  <2> QED
    BY <2>1, <2>2, OpenBooks
<1>4. ASSUME NEW o \in Owner, RegisterDexPool(o) PROVE BooksInv'
  BY <1>4, PoolBooks
<1>5. ASSUME NEW o \in Owner, FinalizeInbound(o) PROVE BooksInv'
  <2> DEFINE g == Finalized(gen[o])
  <2>1. /\ o \in initialized /\ gen' = [gen EXCEPT ![o] = g]
        /\ UNCHANGED <<initialized, tokens, config, now, sharesMade, misbooked>>
    BY <1>5 DEF FinalizeInbound
  <2>2. g \in TokenGeneration /\ Tracked(g) = Tracked(gen[o]) /\ SameIdentity(gen[o], g)
    BY <1>1, FinalizedType
  <2> HIDE DEF g
  <2>3. Tracked(gen[o]) \in Int
    BY <1>1 DEF TokenGeneration, Tracked, U64
  <2> DEFINE m == 0
  <2>4. /\ m \in Int /\ Tracked(g) = Tracked(gen[o]) + m
        /\ tokens' = [tokens EXCEPT ![o] = @ + m]
    BY <1>1, <2>1, <2>2, <2>3
  <2> HIDE DEF m
  <2> QED
    BY <2>1, <2>2, <2>4, OneAccount
<1>6. ASSUME NEW o \in Owner, ClearRedemptionPending(o) PROVE BooksInv'
  <2> DEFINE g == Unlocked(gen[o])
  <2>1. /\ o \in initialized /\ gen' = [gen EXCEPT ![o] = g]
        /\ UNCHANGED <<initialized, tokens, config, now, sharesMade, misbooked>>
    BY <1>6 DEF ClearRedemptionPending
  <2>2. g \in TokenGeneration /\ Tracked(g) = Tracked(gen[o]) /\ SameIdentity(gen[o], g)
    BY <1>1, UnlockedType
  <2> HIDE DEF g
  <2>3. Tracked(gen[o]) \in Int
    BY <1>1 DEF TokenGeneration, Tracked, U64
  <2> DEFINE m == 0
  <2>4. /\ m \in Int /\ Tracked(g) = Tracked(gen[o]) + m
        /\ tokens' = [tokens EXCEPT ![o] = @ + m]
    BY <1>1, <2>1, <2>2, <2>3
  <2> HIDE DEF m
  <2> QED
    BY <2>1, <2>2, <2>4, OneAccount
<1>7. ASSUME NEW o \in Owner, NEW b \in Owner \cup {NoOwner}, NEW n \in Amounts,
             BurnTokens(o, b, n)
      PROVE  BooksInv'
  BY <1>7, BurnBooks
<1>8. ASSUME NEW s \in Owner, NEW d \in Owner, NEW n \in Amounts,
             \/ PayFromTreasury(s, d, n) \/ TransferDex(s, d, n) \/ Redeem(s, d, n)
             \/ Issue(s, d, n) \/ PeerShare(s, d, n)
      PROVE  BooksInv'
  <2>1. PICK path : Transfer(path, s, d, n)
    BY <1>8 DEF PayFromTreasury, TransferDex, Redeem, Issue, PeerShare
  <2>2. sharesMade' \in [Owner -> Nat]
    BY <1>1, <1>8 DEF PayFromTreasury, TransferDex, Redeem, Issue, PeerShare
  <2>3. n \in U64
    BY AmountsAssumption
  <2> QED
    BY <2>1, <2>2, <2>3, TransferBooks
<1>9. CASE Tick
  <2>1. UNCHANGED <<gen, initialized, tokens, config, misbooked>> /\ now' \in Nat \ {0}
    BY <1>9 DEF Tick, BooksInv, TypeOK
  <2>2. sharesMade' \in [Owner -> Nat]
    BY <1>1, <1>9 DEF Tick
  <2> QED
    BY <2>1, <2>2 DEF BooksInv, TypeOK, Accounts, Unopened, TrackedCoversBalance
<1>10. CASE UNCHANGED vars
  BY <1>10 DEF BooksInv, TypeOK, Accounts, Unopened, TrackedCoversBalance
<1> QED
  BY <1>2, <1>3, <1>4, <1>5, <1>6, <1>7, <1>8, <1>9, <1>10 DEF Next

LEMMA BooksAlways == Spec => []BooksInv
  BY InitBooks, NextBooks, PTL DEF Spec

-----------------------------------------------------------------------------
(* The theorems *)

\* Every instruction and every transfer keeps the accounts well formed: no
\* u64 leaves its range, the buffer's head and count stay in the ring.
THEOREM TypeCorrect == Spec => []TypeOK
<1>1. BooksInv => TypeOK
  BY DEF BooksInv
<1> QED
  BY <1>1, BooksAlways, PTL

\* A customer's Gen-1, Gen-2 and dead balances together always cover the tokens
\* the customer holds, and are equal to them when no transfer fee is charged,
\* whatever sequence of transfers, finalisations, redemptions and burns occurred:
\* for every customer no burn has named without their own tokens, or their own
\* books, on its other side.
THEOREM BooksCoverBalances == Spec => []TrackedCoversBalance
<1>1. BooksInv => TrackedCoversBalance
  BY DEF BooksInv
<1> QED
  BY <1>1, BooksAlways, PTL

-----------------------------------------------------------------------------
(* The ring buffer *)

SameBuffer(g, h) ==
    /\ h.inbound_buffer = g.inbound_buffer
    /\ h.buffer_head = g.buffer_head
    /\ h.buffer_pending = g.buffer_pending

\* An entry was written at the head, below the limit.
Wrote(g, h) ==
    /\ ~BufferFull(g)
    /\ \E e : h.inbound_buffer = [g.inbound_buffer EXCEPT ![g.buffer_head] = e]
    /\ h.buffer_head = (g.buffer_head + 1) % BufferSize
    /\ h.buffer_pending = g.buffer_pending + 1

Cleared(g, h) ==
    /\ h.inbound_buffer = FinalizedBuffer(g.inbound_buffer)
    /\ h.buffer_pending = 0

Filled(g, h) == SameBuffer(g, h) \/ Wrote(g, h)

\* The window of BufferWindow, for one account.
InWindow(g) == \A i \in Index : Live(g.inbound_buffer[i]) => i \in PendingWindow(g)

-----------------------------------------------------------------------------
(* The window, without the modulo *)

\* Where the modulo brings a position that is at most one ring off.
LEMMA RingPosition ==
    ASSUME NEW B \in Nat \ {0}, NEW x \in Int, x < 2 * B, -B <= x
    PROVE  /\ x < 0 => x % B = x + B
           /\ 0 <= x /\ x < B => x % B = x
           /\ B <= x => x % B = x - B
OBVIOUS

\* Positions of a ring of B entries with its head at h and p entries pending.
InRing(B, h, p, i) == (i - h + p) % B < p

\* Moving head and count by one keeps the window's start and takes the entry at
\* the old head in; that entry was outside before.
LEMMA WindowGrows ==
    ASSUME NEW B \in Nat \ {0}, NEW h \in 0..(B - 1), NEW p \in 0..(B - 1), NEW i \in 0..(B - 1)
    PROVE  /\ InRing(B, h, p, i) \/ i = h => InRing(B, (h + 1) % B, p + 1, i)
           /\ ~InRing(B, h, p, h)
<1> DEFINE k == (h + 1) % B
           x == i - h + p
           y == i - k + (p + 1)
<1>1. (h + 1 < B /\ k = h + 1) \/ (h + 1 = B /\ k = 0)
  <2> DEFINE next == h + 1
  <2>1. next \in Int /\ next < 2 * B /\ -B <= next /\ 0 <= next /\ next <= B
    OBVIOUS
  <2> HIDE DEF next
  <2>2. (next < B /\ next % B = next) \/ (next = B /\ next % B = 0)
    BY <2>1, RingPosition
  <2> QED
    BY <2>2 DEF next
<1> HIDE DEF k
<1>2. /\ x \in Int /\ -B <= x /\ x < 2 * B
      /\ y \in Int /\ -B <= y /\ y < 2 * B
      /\ y = x \/ y = x + B
      /\ i = h => x = p
  BY <1>1
<1> HIDE DEF x, y
<1>3. /\ x < 0 => x % B = x + B
      /\ 0 <= x /\ x < B => x % B = x
      /\ B <= x => x % B = x - B
  BY <1>2, RingPosition
<1>4. /\ y < 0 => y % B = y + B
      /\ 0 <= y /\ y < B => y % B = y
      /\ B <= y => y % B = y - B
  BY <1>2, RingPosition
<1>5. x % B = y % B
  BY <1>2, <1>3, <1>4
<1>6. x % B < p \/ i = h => y % B < p + 1
  BY <1>2, <1>3, <1>5
<1>7. ~InRing(B, h, p, h)
  <2>1. p % B = p
    BY RingPosition
  <2>2. h - h + p = p
    OBVIOUS
  <2> QED
    BY <2>1, <2>2 DEF InRing
<1> QED
  BY <1>6, <1>7 DEF InRing, x, y, k

LEMMA WindowIsRing ==
    ASSUME NEW g, NEW i \in Index
    PROVE  i \in PendingWindow(g)
              <=> InRing(BufferSize, g.buffer_head, g.buffer_pending, i)
BY DEF PendingWindow, InRing

-----------------------------------------------------------------------------
(* The three things that happen to a ring *)

LEMMA SameKeeps ==
    ASSUME NEW g \in TokenGeneration, NEW h \in TokenGeneration, SameBuffer(g, h), InWindow(g)
    PROVE  InWindow(h)
BY DEF SameBuffer, InWindow, PendingWindow

\* What is written lands on a position outside the window: nothing waited there.
LEMMA WroteKeeps ==
    ASSUME NEW g \in TokenGeneration, NEW h \in TokenGeneration, Wrote(g, h), InWindow(g)
    PROVE  /\ InWindow(h)
           /\ \A i \in Index : Live(g.inbound_buffer[i]) => h.inbound_buffer[i] = g.inbound_buffer[i]
<1> DEFINE head == g.buffer_head
           p == g.buffer_pending
<1>1. /\ head \in 0..(BufferSize - 1) /\ p \in 0..(BufferSize - 1)
      /\ g.inbound_buffer \in [Index -> InboundEntry]
      /\ BufferSize \in Nat \ {0}
  BY BufferAssumption DEF TokenGeneration, Wrote, BufferFull, Index
<1>2. /\ h.buffer_head = (head + 1) % BufferSize /\ h.buffer_pending = p + 1
      /\ \A i \in Index : i # head => h.inbound_buffer[i] = g.inbound_buffer[i]
  BY <1>1 DEF Wrote
<1>3. \A i \in Index : Live(g.inbound_buffer[i]) => InRing(BufferSize, head, p, i)
  BY WindowIsRing DEF InWindow
<1> HIDE DEF head, p
<1>4. ASSUME NEW i \in Index
      PROVE  /\ InRing(BufferSize, head, p, i) \/ i = head
                    => InRing(BufferSize, (head + 1) % BufferSize, p + 1, i)
             /\ ~InRing(BufferSize, head, p, head)
  BY <1>1, WindowGrows DEF Index
<1>5. InWindow(h)
  <2> SUFFICES ASSUME NEW i \in Index, Live(h.inbound_buffer[i])
               PROVE  InRing(BufferSize, h.buffer_head, h.buffer_pending, i)
    BY WindowIsRing DEF InWindow
  <2>1. CASE i = head
    BY <1>2, <1>4, <2>1
  <2>2. CASE i # head
    BY <1>2, <1>3, <1>4, <2>2
  <2> QED
    BY <2>1, <2>2
<1>6. ASSUME NEW i \in Index, Live(g.inbound_buffer[i])
      PROVE  h.inbound_buffer[i] = g.inbound_buffer[i]
  <2>1. i # head
    BY <1>3, <1>4, <1>6
  <2> QED
    BY <1>2, <2>1
<1> QED
  BY <1>5, <1>6

\* Nothing is left to finalise.
LEMMA ClearedKeeps ==
    ASSUME NEW g \in TokenGeneration, NEW h \in TokenGeneration, Cleared(g, h)
    PROVE  /\ InWindow(h)
           /\ \A i \in Index : h.inbound_buffer[i] = FinalizedEntry(g.inbound_buffer[i])
<1>1. ProcessedEntry.processed = TRUE
  BY DEF ProcessedEntry, EmptyEntry
<1>2. \A e : ~Live(FinalizedEntry(e))
  BY <1>1 DEF FinalizedEntry, Live
<1>3. \A i \in Index : h.inbound_buffer[i] = FinalizedEntry(g.inbound_buffer[i])
  BY DEF Cleared, FinalizedBuffer
<1> QED
  BY <1>2, <1>3 DEF InWindow

-----------------------------------------------------------------------------
(* The operations *)

LEMMA SameBufferTransitive ==
    \A f, g, h : Filled(f, g) /\ SameBuffer(g, h) => Filled(f, h)
BY DEF Filled, Wrote, SameBuffer

\* write_inbound's caller books the amount besides.
LEMMA ReceiveFills ==
    ASSUME NEW g \in TokenGeneration, NEW e \in InboundEntry
    PROVE  Filled(g, Receive(g, e))
<1> DEFINE w == WriteInbound(g, e)
<1>1. CASE BufferFull(g)
  BY <1>1 DEF TokenGeneration, Receive, Filled, SameBuffer
<1>2. CASE ~BufferFull(g)
  <2>1. w \in TokenGeneration
    BY <1>2, WriteInboundType
  <2>2. /\ w.inbound_buffer = [g.inbound_buffer EXCEPT ![g.buffer_head] = e]
        /\ w.buffer_head = (g.buffer_head + 1) % BufferSize
        /\ w.buffer_pending = g.buffer_pending + 1
    BY DEF WriteInbound, TokenGeneration
  <2>3. \/ Receive(g, e) = [w EXCEPT !.gen1_balance = @ + e.amount]
        \/ Receive(g, e) = [w EXCEPT !.gen2_balance = @ + e.amount]
        \/ Receive(g, e) = [w EXCEPT !.dead_balance = @ + e.amount]
    BY <1>2 DEF Receive
  <2> HIDE DEF w
  <2>4. SameBuffer(w, Receive(g, e))
    BY <2>1, <2>3 DEF TokenGeneration, SameBuffer
  <2>5. Filled(g, w)
    BY <1>2, <2>2 DEF Filled, Wrote
  <2> QED
    BY <2>4, <2>5, SameBufferTransitive
<1> QED
  BY <1>1, <1>2

LEMMA StampedFills ==
    ASSUME NEW g \in TokenGeneration, NEW e \in InboundEntry, NEW t \in Nat,
           Fits(StampFirst(Receive(g, e), t))
    PROVE  Filled(g, StampFirst(Receive(g, e), t))
<1> DEFINE r == Receive(g, e)
<1>1. Filled(g, r)
  BY ReceiveFills
<1>2. Fits(r)
  <2>1. /\ StampFirst(r, t).gen1_balance = r.gen1_balance
        /\ StampFirst(r, t).gen2_balance = r.gen2_balance
        /\ StampFirst(r, t).dead_balance = r.dead_balance
    BY DEF StampFirst
  <2> QED
    BY <2>1 DEF Fits
<1>3. r \in TokenGeneration
  BY <1>2, ReceiveType
<1> HIDE DEF r
<1>4. SameBuffer(r, StampFirst(r, t))
  BY <1>3 DEF TokenGeneration, StampFirst, SameBuffer
<1>5. Filled(g, StampFirst(r, t))
  BY <1>1, <1>4, SameBufferTransitive
<1> QED
  BY <1>5 DEF r

\* Spending, burning, locking and counting touch no ring.
LEMMA SpendSameBuffer ==
    ASSUME NEW g \in TokenGeneration, NEW n
    PROVE  /\ SameBuffer(g, FifoDeduct(g, n)) /\ SameBuffer(g, Burned(g, n))
           /\ SameBuffer(g, LockedForRedemption(g, n)) /\ SameBuffer(g, Unlocked(g))
BY DEF TokenGeneration, FifoDeduct, Burned, LockedForRedemption, Unlocked, SameBuffer

LEMMA CountedSameBuffer ==
    ASSUME NEW g \in TokenGeneration, NEW c, NEW t
    PROVE  SameBuffer(g, CountedShare(c, t, g))
BY DEF TokenGeneration, CountedShare, SameBuffer

LEMMA FinalizedClears ==
    ASSUME NEW g \in TokenGeneration
    PROVE  SameBuffer(g, Finalized(g)) \/ Cleared(g, Finalized(g))
BY DEF TokenGeneration, Finalized, SameBuffer, Cleared

-----------------------------------------------------------------------------
(* The hook *)

HookFills(s, d, n) ==
    SameBuffer(gen[s], Hook(s, d, n).src) /\ Filled(gen[d], Hook(s, d, n).dst)

\* On every path the sender's ring stays, the receiver's stays or takes one entry.
LEMMA HookBuffers ==
    ASSUME TypeOK, NEW s \in Owner, NEW d \in Owner, NEW n \in U64, Hook(s, d, n).ok
    PROVE  HookFills(s, d, n)
<1> DEFINE src == gen[s]
           dst == gen[d]
           out == Hook(s, d, n)
           path == HookPath(src, dst, ToVault(d))
<1>1. src \in TokenGeneration /\ dst \in TokenGeneration /\ now \in Nat /\ config \in MerchantConfig
  BY DEF TypeOK
<1>2. NoOwner \in Owner \cup {NoOwner} /\ src.original_sender \in Owner \cup {NoOwner}
  BY <1>1 DEF TokenGeneration
<1>3. SameBuffer(src, src) /\ SameBuffer(dst, dst) /\ Filled(dst, dst)
  BY DEF SameBuffer, Filled
<1>4. ASSUME NEW e \in InboundEntry, Fits(StampFirst(Receive(dst, e), now))
      PROVE  Filled(dst, StampFirst(Receive(dst, e), now))
  BY <1>1, <1>4, StampedFills
<1>5. NewEntry(NoOwner, n, "Issuance") \in InboundEntry
  BY <1>2, NewEntryType DEF GenSource
<1>6. CASE path = "treasury"
  <2>1. out = TreasuryOutcome(src, dst, n)
    BY <1>6, PathOutcome
  <2>2. out.src = src /\ out.dst = Receive(dst, NewEntry(NoOwner, n, "Issuance"))
    BY <2>1 DEF TreasuryOutcome, Outcome
  <2>3. Filled(dst, out.dst)
    BY <1>1, <1>5, <2>2, ReceiveFills
  <2> HIDE DEF src, dst, out
  <2> QED
    BY <1>3, <2>2, <2>3 DEF HookFills, src, dst, out
<1>7. CASE path = "dex"
  <2>1. out = DexOutcome(src, dst, n)
    BY <1>7, PathOutcome
  <2>2. /\ out.src = src \/ out.src = FifoDeduct(src, n)
        /\ out.dst = dst \/ out.dst = [dst EXCEPT !.dead_balance = @ + n]
    BY <2>1 DEF DexOutcome, Outcome
  <2> HIDE DEF src, dst, out
  <2>3. SameBuffer(src, out.src)
    BY <1>1, <1>3, <2>2, SpendSameBuffer
  <2>4. Filled(dst, out.dst)
    BY <1>1, <2>2 DEF TokenGeneration, Filled, SameBuffer
  <2> QED
    BY <2>3, <2>4 DEF HookFills, src, dst, out
<1>8. CASE path = "redemption"
  <2>1. out = RedemptionOutcome(config, now, src, dst, n)
    BY <1>8, PathOutcome
  <2> DEFINE o == RedemptionOutcome(config, now, src, dst, n)
  <2>2. o.src = LockedForRedemption(src, n) /\ o.dst = dst
    <3> HIDE DEF src, dst
    <3> QED
      BY DEF RedemptionOutcome, Outcome
  <2> HIDE DEF o
  <2>3. out.src = LockedForRedemption(src, n) /\ out.dst = dst
    BY <2>1, <2>2 DEF o
  <2> HIDE DEF src, dst, out
  <2>4. SameBuffer(src, out.src)
    BY <1>1, <2>3, SpendSameBuffer
  <2> QED
    BY <1>3, <2>3, <2>4 DEF HookFills, src, dst, out
<1>9. CASE path = "issuance"
  <2> DEFINE e == NewEntry(NoOwner, n, "Issuance")
             o == IssuanceOutcome(now, src, dst, n)
  <2>1. out = o /\ e \in InboundEntry
    BY <1>5, <1>9, PathOutcome
  <2>2. o.src = src /\ o.dst = StampFirst(Receive(dst, e), now) /\ (o.ok => Fits(o.dst))
    <3> HIDE DEF src, dst, e
    <3> QED
      BY DEF IssuanceOutcome, Outcome, e
  <2> HIDE DEF e, o
  <2>3. out.src = src /\ Filled(dst, out.dst)
    BY <1>4, <2>1, <2>2
  <2> HIDE DEF src, dst, out
  <2> QED
    BY <1>3, <2>3 DEF HookFills, src, dst, out
<1>10. CASE path = "release"
  <2> DEFINE source == IF src.original_sender = NoOwner THEN "DeadPass" ELSE "ViralShare"
             e == NewEntry(src.original_sender, n, source)
             o == ReleaseOutcome(now, src, dst, n)
  <2>1. out = o
    BY <1>10, PathOutcome
  <2>2. e \in InboundEntry
    BY <1>2, NewEntryType DEF GenSource
  <2> HIDE DEF e
  <2>3. /\ o.src = src
        /\ o.dst = IF dst.is_intermediary THEN dst ELSE StampFirst(Receive(dst, e), now)
        /\ o.ok => Fits(o.dst)
    BY DEF ReleaseOutcome, Outcome, e
  <2> HIDE DEF o
  <2>4. out.src = src /\ Filled(dst, out.dst)
    BY <1>3, <1>4, <2>1, <2>2, <2>3
  <2> HIDE DEF src, dst, out
  <2> QED
    BY <1>3, <2>4 DEF HookFills, src, dst, out
<1>11. CASE path = "peer"
  <2> DEFINE e == PeerEntry(src, n)
             c == CountedShare(config, now, src)
             o == PeerOutcome(config, now, src, dst, n)
  <2>1. out = o
    BY <1>11, PathOutcome
  <2>2. e \in InboundEntry /\ c \in TokenGeneration /\ SameBuffer(src, c)
    BY <1>1, PeerEntryType, CountedShareType, CountedSameBuffer
  <2> HIDE DEF e
  <2>3. /\ o.src = FifoDeduct(c, n)
        /\ o.dst = IF dst.is_intermediary THEN dst ELSE StampFirst(Receive(dst, e), now)
        /\ o.ok => Fits(o.dst)
    BY DEF PeerOutcome, Outcome, e
  <2> HIDE DEF o
  <2>4. out.src = FifoDeduct(c, n) /\ Filled(dst, out.dst)
    BY <1>3, <1>4, <2>1, <2>2, <2>3
  <2> HIDE DEF c
  <2>5. SameBuffer(c, out.src)
    BY <2>2, <2>4, SpendSameBuffer
  <2> HIDE DEF src, dst, out
  <2>6. SameBuffer(src, out.src)
    BY <2>2, <2>5 DEF SameBuffer
  <2> QED
    BY <2>4, <2>6 DEF HookFills, src, dst, out
<1> QED
  BY <1>6, <1>7, <1>8, <1>9, <1>10, <1>11, PathOutcome

-----------------------------------------------------------------------------
(* One step, seen from one owner *)

RingStep(w) == Filled(gen[w], gen'[w]) \/ Cleared(gen[w], gen'[w])

\* An instruction on the account of o alone.
LEMMA OneRing ==
    ASSUME TypeOK, NEW o \in Owner, NEW g, gen' = [gen EXCEPT ![o] = g],
           SameBuffer(gen[o], g) \/ Cleared(gen[o], g), NEW w \in Owner
    PROVE  RingStep(w)
<1>1. gen \in [Owner -> TokenGeneration]
  BY DEF TypeOK
<1>2. CASE w = o
  BY <1>1, <1>2 DEF RingStep, Filled
<1>3. CASE w # o
  <2>1. gen'[w] = gen[w]
    BY <1>1, <1>3
  <2> QED
    BY <2>1 DEF RingStep, Filled, SameBuffer
<1> QED
  BY <1>2, <1>3

LEMMA TransferRings ==
    ASSUME TypeOK, NEW path, NEW s \in Owner, NEW d \in Owner, NEW n \in Amounts,
           Transfer(path, s, d, n), NEW w \in Owner
    PROVE  RingStep(w)
<1> DEFINE a == Hook(s, d, n).src
           b == Hook(s, d, n).dst
<1>1. s # d /\ Hook(s, d, n).ok /\ gen' = [gen EXCEPT ![s] = a, ![d] = b]
  BY DEF Transfer
<1>2. gen \in [Owner -> TokenGeneration] /\ n \in U64
  BY AmountsAssumption DEF TypeOK
<1>3. SameBuffer(gen[s], a) /\ Filled(gen[d], b)
  BY <1>1, <1>2, HookBuffers DEF HookFills
<1> HIDE DEF a, b
<1>4. \/ w = s /\ gen'[w] = a
      \/ w = d /\ gen'[w] = b
      \/ gen'[w] = gen[w]
  BY <1>1, <1>2
<1> QED
  BY <1>3, <1>4 DEF RingStep, Filled, SameBuffer

LEMMA StepRings ==
    ASSUME BooksInv, [Next]_vars, NEW w \in Owner
    PROVE  RingStep(w)
<1>1. TypeOK /\ gen \in [Owner -> TokenGeneration]
  BY DEF BooksInv, TypeOK
<1>2. ASSUME NEW o \in Owner, InitTokenGeneration(o) \/ InitTreasuryTokenGeneration(o)
      PROVE  RingStep(w)
  <2>1. gen[o] = FreshGeneration(o)
    BY <1>2 DEF BooksInv, Unopened, InitTokenGeneration, InitTreasuryTokenGeneration
  <2>2. PICK g : /\ gen' = [gen EXCEPT ![o] = g]
                 /\ g = FreshGeneration(o) \/ g = TreasuryGeneration(o)
    BY <1>2 DEF InitTokenGeneration, InitTreasuryTokenGeneration
  <2>3. FreshGeneration(o) \in TokenGeneration
    BY FreshGenerationType
  <2>4. SameBuffer(FreshGeneration(o), TreasuryGeneration(o))
    <3> DEFINE f == FreshGeneration(o)
    <3>1. TreasuryGeneration(o) = [f EXCEPT !.is_treasury = TRUE, !.gen1_balance = MaxU64]
      BY DEF TreasuryGeneration
    <3> HIDE DEF f
    <3>2. SameBuffer(f, TreasuryGeneration(o))
      BY <3>1 DEF SameBuffer
    <3> QED
      BY <3>2 DEF f
  <2>5. SameBuffer(gen[o], g)
    BY <2>1, <2>2, <2>4 DEF SameBuffer
  <2> QED
    BY <1>1, <2>2, <2>5, OneRing
<1>3. ASSUME NEW o \in Owner, RegisterDexPool(o)
      PROVE  RingStep(w)
  <2> DEFINE g == [gen[o] EXCEPT !.is_dex_pool = TRUE]
  <2>1. gen' = [gen EXCEPT ![o] = g]
    BY <1>1, <1>3 DEF RegisterDexPool
  <2>2. SameBuffer(gen[o], g)
    BY <1>1 DEF TokenGeneration, SameBuffer
  <2> HIDE DEF g
  <2> QED
    BY <1>1, <2>1, <2>2, OneRing
<1>4. ASSUME NEW o \in Owner, FinalizeInbound(o)
      PROVE  RingStep(w)
  <2> DEFINE g == Finalized(gen[o])
  <2>1. gen' = [gen EXCEPT ![o] = g]
    BY <1>1, <1>4 DEF FinalizeInbound
  <2>2. SameBuffer(gen[o], g) \/ Cleared(gen[o], g)
    BY <1>1, FinalizedClears
  <2> HIDE DEF g
  <2> QED
    BY <1>1, <2>1, <2>2, OneRing
<1>5. ASSUME NEW o \in Owner, ClearRedemptionPending(o)
      PROVE  RingStep(w)
  <2> DEFINE g == Unlocked(gen[o])
  <2>1. gen' = [gen EXCEPT ![o] = g]
    BY <1>1, <1>5 DEF ClearRedemptionPending
  <2>2. SameBuffer(gen[o], g)
    BY <1>1, SpendSameBuffer
  <2> HIDE DEF g
  <2> QED
    BY <1>1, <2>1, <2>2, OneRing
<1>6. ASSUME NEW o \in Owner, NEW b \in Owner \cup {NoOwner}, NEW n \in Amounts,
             BurnTokens(o, b, n)
      PROVE  RingStep(w)
  <2> DEFINE g == Burned(gen[o], n)
  <2>1. gen' = [gen EXCEPT ![o] = g]
    BY <1>1, <1>6 DEF BurnTokens
  <2>2. SameBuffer(gen[o], g)
    BY <1>1, SpendSameBuffer
  <2> HIDE DEF g
  <2> QED
    BY <1>1, <2>1, <2>2, OneRing
<1>7. ASSUME NEW s \in Owner, NEW d \in Owner, NEW n \in Amounts,
             \/ PayFromTreasury(s, d, n) \/ TransferDex(s, d, n) \/ Redeem(s, d, n)
             \/ Issue(s, d, n) \/ PeerShare(s, d, n)
      PROVE  RingStep(w)
  <2>1. PICK path : Transfer(path, s, d, n)
    BY <1>7 DEF PayFromTreasury, TransferDex, Redeem, Issue, PeerShare
  <2> QED
    BY <1>1, <2>1, TransferRings
<1>8. CASE Tick \/ UNCHANGED vars
  BY <1>8 DEF Tick, vars, RingStep, Filled, SameBuffer
<1> QED
  BY <1>2, <1>3, <1>4, <1>5, <1>6, <1>7, <1>8 DEF Next

-----------------------------------------------------------------------------
(* The theorems *)

BufferInv == BooksInv /\ BufferWindow

LEMMA InitBuffers == Init => BufferInv
<1> SUFFICES ASSUME Init PROVE BufferWindow
  BY InitBooks DEF BufferInv
<1>1. \A e : e.amount = 0 => ~Live(e)
  BY DEF Live
<1>2. EmptyEntry.amount = 0
  BY DEF EmptyEntry
<1>3. \A o \in Owner, i \in Index : gen[o].inbound_buffer[i] = EmptyEntry
  BY DEF Init, FreshGeneration
<1> QED
  BY <1>1, <1>2, <1>3 DEF BufferWindow

\* What one step does to an entry that waits, and to the window.
LEMMA RingKept ==
    ASSUME BufferInv, [Next]_vars, NEW w \in Owner
    PROVE  /\ InWindow(gen'[w])
           /\ \A i \in Index :
                Live(gen[w].inbound_buffer[i])
                    => \/ gen'[w].inbound_buffer[i] = gen[w].inbound_buffer[i]
                       \/ /\ gen'[w].inbound_buffer[i] = FinalizedEntry(gen[w].inbound_buffer[i])
                          /\ gen'[w].buffer_pending = 0
<1> DEFINE g == gen[w]
           h == gen'[w]
<1>1. g \in TokenGeneration /\ h \in TokenGeneration
  BY NextBooks DEF BufferInv, BooksInv, TypeOK
<1>2. InWindow(g)
  BY DEF BufferInv, BufferWindow, InWindow
<1>3. SameBuffer(g, h) \/ Wrote(g, h) \/ Cleared(g, h)
  BY StepRings DEF BufferInv, RingStep, Filled
<1> HIDE DEF g, h
<1>4. CASE SameBuffer(g, h)
  <2>1. InWindow(h)
    BY <1>1, <1>2, <1>4, SameKeeps
  <2> QED
    BY <1>4, <2>1 DEF SameBuffer, g, h
<1>5. CASE Wrote(g, h)
  <2>1. InWindow(h) /\ \A i \in Index : Live(g.inbound_buffer[i])
                            => h.inbound_buffer[i] = g.inbound_buffer[i]
    BY <1>1, <1>2, <1>5, WroteKeeps
  <2> QED
    BY <2>1 DEF g, h
<1>6. CASE Cleared(g, h)
  <2>1. /\ InWindow(h) /\ h.buffer_pending = 0
        /\ \A i \in Index : h.inbound_buffer[i] = FinalizedEntry(g.inbound_buffer[i])
    BY <1>1, <1>6, ClearedKeeps DEF Cleared
  <2> QED
    BY <2>1 DEF g, h
<1> QED
  BY <1>3, <1>4, <1>5, <1>6

LEMMA NextBuffers == BufferInv /\ [Next]_vars => BufferInv'
<1> SUFFICES ASSUME BufferInv, [Next]_vars PROVE BufferWindow'
  BY NextBooks DEF BufferInv
<1>1. \A w \in Owner : InWindow(gen'[w])
  BY RingKept
<1> QED
  BY <1>1 DEF InWindow, BufferWindow

LEMMA BuffersAlways == Spec => []BufferInv
  BY InitBuffers, NextBuffers, PTL DEF Spec

\* For a ring of any size: what finalize_inbound has not seen is always within
\* buffer_pending positions behind buffer_head, so a write below the limit meets
\* a position that is free.
THEOREM WindowHolds == Spec => []BufferWindow
<1>1. BufferInv => BufferWindow
  BY DEF BufferInv
<1> QED
  BY <1>1, BuffersAlways, PTL

\* No attribution waiting in an inbound buffer is ever overwritten.
THEOREM AttributionsSafe == Spec => NoAttributionLost
<1>1. BufferInv /\ [Next]_vars => [AttributionsKept]_vars
  <2> SUFFICES ASSUME BufferInv, [Next]_vars PROVE AttributionsKept
    OBVIOUS
  <2>1. initialized \subseteq Owner
    BY DEF BufferInv, BooksInv, TypeOK
  <2> QED
    BY <2>1, RingKept DEF AttributionsKept
<1> QED
  BY <1>1, BuffersAlways, PTL DEF Spec, NoAttributionLost

=============================================================================

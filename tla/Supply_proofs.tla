--------------------------- MODULE Supply_proofs ----------------------------
(***************************************************************************)
(* Sums over finite sets, and what they say of the supply of the token: no *)
(* step of TokenFlow books more than was minted, so a transfer always fits *)
(* the recipient's books and the recipient has no part in whether the hook *)
(* lets it through.                                                        *)
(*                                                                         *)
(* The sums are proved by induction over finite sets, in the form that a   *)
(* kind of subset that exists at all has a smallest member: a bad subset   *)
(* of least size stops being bad when one element is taken out of it.      *)
(***************************************************************************)
EXTENDS TokenFlow_proofs, FiniteSetTheorems

-----------------------------------------------------------------------------
(* Sums *)

\* Of the subsets of a finite set that are of some kind, there is one with no
\* smaller subset of that kind.  (Induction over finite sets in a form that
\* speaks of sets only.)
LEMMA SmallestSubset ==
    ASSUME NEW S, IsFiniteSet(S), NEW Kind \in SUBSET (SUBSET S), Kind # {}
    PROVE  \E U \in Kind : \A V \in Kind : V \subseteq U => V = U
<1>1. IsWellFoundedOn(StrictSubsetOrdering(S), FiniteSubsetsOf(S))
  BY FS_StrictSubsetOrderingWellFounded
<1>2. Kind \subseteq FiniteSubsetsOf(S)
  BY FS_FiniteSubsetsOfFinite
<1>3. PICK U \in Kind : \A V \in Kind : ~(<<V, U>> \in StrictSubsetOrdering(S))
  BY <1>1, <1>2, WFMin
<1>4. ASSUME NEW V \in Kind, V \subseteq U PROVE V = U
  <2>1. <<V, U>> \in StrictSubsetOrdering(S) <=> V \subseteq U /\ V # U
    BY DEF StrictSubsetOrdering
  <2> QED
    BY <1>3, <1>4, <2>1
<1> QED
  BY <1>4

\* The sum of f over S.
Total(f, S) == FoldFunctionOnSet(+, 0, f, S)

First(s) == CHOOSE x \in s : TRUE

\* g sums f over every one of some sets, element by element.
Sums(f, Sets, g) ==
    g = [s \in Sets |-> IF s = {} THEN 0 ELSE f[First(s)] + g[s \ {First(s)}]]

LEMMA FirstIn == \A s : s # {} => First(s) \in s
BY DEF First

\* g sums f over every subset of S.
Folds(f, S, g) == Sums(f, SUBSET S, g)

LEMMA TotalChoice ==
    ASSUME NEW f, NEW S
    PROVE  Total(f, S) = (CHOOSE g : Folds(f, S, g))[S]
BY DEF Total, FoldFunctionOnSet, MapThenFoldSet, Folds, Sums, First

UpTo(S, n) == {s \in SUBSET S : Cardinality(s) <= n}

\* One can sum over the subsets of up to n elements, for every n.
LEMMA SumsUpTo ==
    ASSUME NEW f, NEW S, IsFiniteSet(S)
    PROVE  \E g : Folds(f, S, g)
<1> DEFINE Good == {T \in SUBSET S : \E g : Sums(f, UpTo(S, Cardinality(T)), g)}
<1>1. \A T \in SUBSET S : IsFiniteSet(T) /\ Cardinality(T) \in Nat
  BY FS_Subset, FS_CardinalityType
<1>2. {} \in Good
  <2> DEFINE g == [s \in UpTo(S, 0) |-> 0]
  <2>1. UpTo(S, 0) = {{}}
    BY <1>1, FS_EmptySet DEF UpTo
  <2>2. Sums(f, UpTo(S, 0), g)
    BY <2>1 DEF Sums
  <2> QED
    BY <2>2, FS_EmptySet
<1>3. ASSUME NEW T \in SUBSET S, NEW x \in T, T \ {x} \in Good PROVE T \in Good
  <2> DEFINE n == Cardinality(T \ {x})
  <2>1. n \in Nat /\ Cardinality(T) = n + 1
    BY <1>1, FS_RemoveElement
  <2> HIDE DEF n
  <2>2. PICK g : Sums(f, UpTo(S, n), g)
    BY <1>3 DEF n
  <2> DEFINE h == [s \in UpTo(S, n + 1) |-> IF s = {} THEN 0 ELSE f[First(s)] + g[s \ {First(s)}]]
  <2>3. ASSUME NEW s \in UpTo(S, n + 1), s # {}
        PROVE  s \ {First(s)} \in UpTo(S, n)
    <3>1. First(s) \in s /\ s \in SUBSET S
      BY <2>3, FirstIn DEF UpTo
    <3>2. Cardinality(s) \in Nat /\ Cardinality(s) <= n + 1 /\ Cardinality(s \ {First(s)}) = Cardinality(s) - 1
      BY <1>1, <2>1, <3>1, FS_RemoveElement DEF UpTo
    <3> QED
      BY <2>1, <3>1, <3>2 DEF UpTo
  <2>4. ASSUME NEW s \in UpTo(S, n) PROVE h[s] = g[s]
    <3>1. s \in UpTo(S, n + 1)
      BY <1>1, <2>1 DEF UpTo
    <3>2. g[s] = IF s = {} THEN 0 ELSE f[First(s)] + g[s \ {First(s)}]
      BY <2>2 DEF Sums
    <3> QED
      BY <3>1, <3>2
  <2>5. Sums(f, UpTo(S, n + 1), h)
    BY <2>3, <2>4 DEF Sums
  <2> QED
    BY <2>1, <2>5
<1>4. S \in Good
  <2> SUFFICES ASSUME S \notin Good PROVE FALSE
    OBVIOUS
  <2> DEFINE Bad == (SUBSET S) \ Good
  <2>1. Bad \in SUBSET (SUBSET S) /\ Bad # {}
    OBVIOUS
  <2>2. PICK U \in Bad : \A V \in Bad : V \subseteq U => V = U
    <3> HIDE DEF Bad
    <3> QED BY <2>1, SmallestSubset
  <2>3. PICK x \in U : TRUE
    BY <1>2
  <2>4. U \ {x} \in Good
    <3> HIDE DEF Good
    <3> QED BY <2>2, <2>3
  <2> QED
    <3> HIDE DEF Good
    <3> QED BY <1>3, <2>2, <2>3, <2>4
<1>5. UpTo(S, Cardinality(S)) = SUBSET S
  BY FS_Subset DEF UpTo
<1> QED
  BY <1>4, <1>5 DEF Folds

LEMMA TotalSums ==
    ASSUME NEW f, NEW S, IsFiniteSet(S)
    PROVE  \E g : Folds(f, S, g) /\ Total(f, S) = g[S]
<1> DEFINE g == CHOOSE h : Folds(f, S, h)
<1>1. Folds(f, S, g)
  BY SumsUpTo
<1>2. Total(f, S) = g[S]
  BY TotalChoice
<1> QED
  BY <1>1, <1>2

\* There is one way to sum over the subsets of a finite set.
LEMMA SumsUnique ==
    ASSUME NEW f, NEW S, IsFiniteSet(S), NEW U, U \subseteq S,
           NEW g, Folds(f, S, g), NEW h, Folds(f, U, h)
    PROVE  g[U] = h[U]
<1> DEFINE Bad == {T \in SUBSET U : g[T] # h[T]}
<1> SUFFICES ASSUME g[U] # h[U] PROVE FALSE
  OBVIOUS
<1>1. PICK T \in Bad : \A V \in Bad : V \subseteq T => V = T
  <2>1. Bad # {} /\ Bad \in SUBSET (SUBSET S)
    OBVIOUS
  <2> HIDE DEF Bad
  <2> QED BY <2>1, SmallestSubset
<1>2. /\ g[T] = IF T = {} THEN 0 ELSE f[First(T)] + g[T \ {First(T)}]
      /\ h[T] = IF T = {} THEN 0 ELSE f[First(T)] + h[T \ {First(T)}]
  BY <1>1 DEF Folds, Sums
<1>3. T # {} => T \ {First(T)} \notin Bad
  <2> HIDE DEF Bad
  <2> QED BY <1>1, FirstIn
<1> QED
  BY <1>1, <1>2, <1>3

\* The equations of the fold.
LEMMA TotalStep ==
    ASSUME NEW f, NEW S, IsFiniteSet(S)
    PROVE  Total(f, S) = IF S = {} THEN 0 ELSE f[First(S)] + Total(f, S \ {First(S)})
<1>1. PICK g : Folds(f, S, g) /\ Total(f, S) = g[S]
  BY TotalSums
<1>2. g[S] = IF S = {} THEN 0 ELSE f[First(S)] + g[S \ {First(S)}]
  BY <1>1 DEF Folds, Sums
<1>3. ASSUME NEW U, U \subseteq S PROVE g[U] = Total(f, U)
  <2>1. IsFiniteSet(U)
    BY <1>3, FS_Subset
  <2>2. PICK h : Folds(f, U, h) /\ Total(f, U) = h[U]
    BY <2>1, TotalSums
  <2>3. Folds(f, S, g) /\ Folds(f, U, h) /\ U \subseteq S
    BY <1>1, <1>3, <2>2
  <2>4. g[U] = h[U]
    BY <2>3, SumsUnique
  <2> QED
    BY <2>2, <2>4
<1>4. g[S \ {First(S)}] = Total(f, S \ {First(S)})
  BY <1>3
<1> QED
  BY <1>1, <1>2, <1>4

LEMMA TotalEmpty == ASSUME NEW f PROVE Total(f, {}) = 0
BY TotalStep, FS_EmptySet

LEMMA TotalType ==
    ASSUME NEW D, NEW f \in [D -> Int], NEW S \in SUBSET D, IsFiniteSet(S)
    PROVE  Total(f, S) \in Int
<1> DEFINE Bad == {T \in SUBSET S : Total(f, T) \notin Int}
<1> SUFFICES ASSUME Bad # {} PROVE FALSE
  OBVIOUS
<1>1. PICK T \in Bad : \A V \in Bad : V \subseteq T => V = T
  <2> Bad \in SUBSET (SUBSET S)
    OBVIOUS
  <2> HIDE DEF Bad
  <2> QED BY SmallestSubset
<1>2. Total(f, T) = IF T = {} THEN 0 ELSE f[First(T)] + Total(f, T \ {First(T)})
  BY <1>1, FS_Subset, TotalStep
<1>3. T # {} => T \ {First(T)} \notin Bad
  <2> HIDE DEF Bad
  <2> QED BY <1>1, FirstIn
<1>4. T # {} => f[First(T)] \in Int /\ Total(f, T \ {First(T)}) \in Int
  BY <1>3, FirstIn
<1> QED
  BY <1>2, <1>4

LEMMA TotalNat ==
    ASSUME NEW D, NEW f \in [D -> Nat], NEW S \in SUBSET D, IsFiniteSet(S)
    PROVE  Total(f, S) \in Nat
<1> DEFINE Bad == {T \in SUBSET S : Total(f, T) \notin Nat}
<1> SUFFICES ASSUME Bad # {} PROVE FALSE
  OBVIOUS
<1>1. PICK T \in Bad : \A V \in Bad : V \subseteq T => V = T
  <2> Bad \in SUBSET (SUBSET S)
    OBVIOUS
  <2> HIDE DEF Bad
  <2> QED BY SmallestSubset
<1>2. Total(f, T) = IF T = {} THEN 0 ELSE f[First(T)] + Total(f, T \ {First(T)})
  BY <1>1, FS_Subset, TotalStep
<1>3. T # {} => T \ {First(T)} \notin Bad
  <2> HIDE DEF Bad
  <2> QED BY <1>1, FirstIn
<1>4. T # {} => f[First(T)] \in Nat /\ Total(f, T \ {First(T)}) \in Nat
  BY <1>3, FirstIn
<1> QED
  BY <1>2, <1>4

\* Any element may be taken out of the sum.
LEMMA TotalRemove ==
    ASSUME NEW D, NEW f \in [D -> Int], NEW S \in SUBSET D, IsFiniteSet(S), NEW x \in S
    PROVE  Total(f, S) = f[x] + Total(f, S \ {x})
<1> DEFINE Good(T) == \A y \in T : Total(f, T) = f[y] + Total(f, T \ {y})
           Bad == {T \in SUBSET S : ~Good(T)}
<1> SUFFICES ASSUME Bad # {} PROVE FALSE
  OBVIOUS
<1>1. PICK T \in Bad : \A V \in Bad : V \subseteq T => V = T
  <2> Bad \in SUBSET (SUBSET S)
    OBVIOUS
  <2> HIDE DEF Bad
  <2> QED BY SmallestSubset
<1>2. PICK y \in T : Total(f, T) # f[y] + Total(f, T \ {y})
  BY <1>1
<1> DEFINE c == First(T)
<1>3. c \in T /\ T \in SUBSET S /\ IsFiniteSet(T)
  BY <1>1, <1>2, FirstIn, FS_Subset
<1>4. Total(f, T) = f[c] + Total(f, T \ {c})
  BY <1>2, <1>3, TotalStep
<1> HIDE DEF c
<1>5. c # y
  BY <1>2, <1>4
<1>6. Good(T \ {c}) /\ Good(T \ {y})
  <2>1. T \ {c} \notin Bad /\ T \ {y} \notin Bad
    <3> HIDE DEF Bad
    <3> QED BY <1>1, <1>2, <1>3
  <2> QED
    BY <1>3, <2>1
<1>7. /\ Total(f, T \ {c}) = f[y] + Total(f, (T \ {c}) \ {y})
      /\ Total(f, T \ {y}) = f[c] + Total(f, (T \ {y}) \ {c})
  BY <1>2, <1>3, <1>5, <1>6
<1>8. (T \ {c}) \ {y} = (T \ {y}) \ {c}
  OBVIOUS
<1> DEFINE R == (T \ {c}) \ {y}
<1>9. f[c] \in Int /\ f[y] \in Int /\ Total(f, R) \in Int
  <2>1. R \in SUBSET D /\ IsFiniteSet(R)
    BY <1>3, FS_Subset
  <2> HIDE DEF R
  <2> QED
    BY <1>2, <1>3, <2>1, TotalType
<1> HIDE DEF Bad, Good
<1>10. Total(f, T) = f[c] + (f[y] + Total(f, R)) /\ Total(f, T \ {y}) = f[c] + Total(f, R)
  BY <1>4, <1>7, <1>8
<1> HIDE DEF R
<1> QED
  BY <1>2, <1>9, <1>10

LEMMA TotalSame ==
    ASSUME NEW S, IsFiniteSet(S), NEW f, NEW g, \A x \in S : f[x] = g[x]
    PROVE  Total(f, S) = Total(g, S)
<1> DEFINE Bad == {T \in SUBSET S : Total(f, T) # Total(g, T)}
<1> SUFFICES ASSUME Bad # {} PROVE FALSE
  OBVIOUS
<1>1. PICK T \in Bad : \A V \in Bad : V \subseteq T => V = T
  <2> Bad \in SUBSET (SUBSET S)
    OBVIOUS
  <2> HIDE DEF Bad
  <2> QED BY SmallestSubset
<1>2. /\ Total(f, T) = IF T = {} THEN 0 ELSE f[First(T)] + Total(f, T \ {First(T)})
      /\ Total(g, T) = IF T = {} THEN 0 ELSE g[First(T)] + Total(g, T \ {First(T)})
  BY <1>1, FS_Subset, TotalStep
<1>3. T # {} => T \ {First(T)} \notin Bad
  <2> HIDE DEF Bad
  <2> QED BY <1>1, FirstIn
<1>4. T # {} => f[First(T)] = g[First(T)] /\ Total(f, T \ {First(T)}) = Total(g, T \ {First(T)})
  BY <1>3, FirstIn
<1> QED
  BY <1>2, <1>4

\* Changing one summand changes the sum by as much.
LEMMA TotalUpdate ==
    ASSUME NEW D, NEW f \in [D -> Int], NEW g \in [D -> Int], NEW S \in SUBSET D, IsFiniteSet(S),
           NEW x \in S, \A y \in S \ {x} : g[y] = f[y]
    PROVE  Total(g, S) = Total(f, S) + g[x] - f[x]
<1> DEFINE R == S \ {x}
<1>1. IsFiniteSet(R) /\ R \in SUBSET D
  BY FS_RemoveElement
<1>2. Total(f, S) = f[x] + Total(f, R) /\ Total(g, S) = g[x] + Total(g, R)
  BY TotalRemove
<1> HIDE DEF R
<1>3. Total(f, R) = Total(g, R)
  BY <1>1, TotalSame DEF R
<1>4. Total(f, R) \in Int /\ f[x] \in Int /\ g[x] \in Int
  BY <1>1, TotalType
<1> QED
  BY <1>2, <1>3, <1>4

\* Two summands are no more than the sum of natural numbers.
LEMMA TotalCovers ==
    ASSUME NEW D, NEW f \in [D -> Nat], NEW S \in SUBSET D, IsFiniteSet(S),
           NEW x \in S, NEW y \in S, x # y
    PROVE  f[x] + f[y] <= Total(f, S)
<1>1. f \in [D -> Int] /\ f[x] \in Nat /\ f[y] \in Nat
  OBVIOUS
<1> DEFINE R == S \ {x}
           Q == R \ {y}
<1>2. IsFiniteSet(R) /\ R \in SUBSET D /\ y \in R /\ IsFiniteSet(Q) /\ Q \in SUBSET D
  BY FS_Subset
<1>3. Total(f, S) = f[x] + Total(f, R)
  BY <1>1, TotalRemove
<1> HIDE DEF R
<1>4. Total(f, R) = f[y] + Total(f, Q)
  BY <1>1, <1>2, TotalRemove
<1> HIDE DEF Q
<1>5. Total(f, Q) \in Nat
  BY <1>2, TotalNat
<1> QED
  BY <1>1, <1>3, <1>4, <1>5

-----------------------------------------------------------------------------
(* The supply of the token *)

\* What an owner holds, on the books for a customer and in tokens for others.
Held == [o \in Owner |-> IF o \in Wallet THEN Tracked(gen[o]) ELSE tokens[o]]

Solvent == \A o \in Owner \ Wallet : tokens[o] >= 0

\* What was minted.
Supply == Total(Minted, Owner)

SupplyInv == BooksInv /\ Solvent /\ Total(Held, Owner) <= Supply

LEMMA SupplyType == Supply \in Nat /\ Supply <= MaxU64
<1>1. Supply \in Nat
  BY MintedAssumption, SupplyAssumption, TotalNat DEF Supply
<1> QED
  BY <1>1, SupplyAssumption DEF Supply, Total

LEMMA TotalGrowsNot ==
    ASSUME NEW D, IsFiniteSet(D), NEW f \in [D -> Int], NEW g \in [D -> Int], NEW x \in D,
           g[x] <= f[x], \A y \in D \ {x} : g[y] = f[y]
    PROVE  Total(g, D) <= Total(f, D)
<1>1. Total(g, D) = Total(f, D) + g[x] - f[x]
  BY TotalUpdate
<1>2. Total(f, D) \in Int /\ Total(g, D) \in Int
  BY TotalType
<1>3. f[x] \in Int /\ g[x] \in Int
  OBVIOUS
<1> QED
  BY <1>1, <1>2, <1>3

\* Two values that do not grow.
LEMMA TotalShrinks ==
    ASSUME NEW D, IsFiniteSet(D), NEW f \in [D -> Int], NEW g \in [D -> Int],
           NEW x \in D, NEW y \in D, g[x] <= f[x], g[y] <= f[y],
           \A z \in D \ {x, y} : g[z] = f[z]
    PROVE  Total(g, D) <= Total(f, D)
<1> DEFINE h == [f EXCEPT ![x] = g[x]]
<1>1. h \in [D -> Int] /\ h[x] = g[x] /\ \A z \in D \ {x} : h[z] = f[z]
  OBVIOUS
<1> HIDE DEF h
<1>2. Total(h, D) <= Total(f, D)
  BY <1>1, TotalGrowsNot
<1>3. g[y] <= h[y] /\ \A z \in D \ {y} : g[z] = h[z]
  BY <1>1
<1>4. Total(g, D) <= Total(h, D)
  BY <1>1, <1>3, TotalGrowsNot
<1>5. Total(f, D) \in Int /\ Total(g, D) \in Int /\ Total(h, D) \in Int
  BY <1>1, TotalType
<1> QED
  BY <1>2, <1>4, <1>5

LEMMA TotalMoves ==
    ASSUME NEW D, IsFiniteSet(D), NEW f \in [D -> Int], NEW g \in [D -> Int],
           NEW x \in D, NEW y \in D, x # y, NEW n \in Int,
           g[x] = f[x] - n, g[y] <= f[y] + n, \A z \in D \ {x, y} : g[z] = f[z]
    PROVE  Total(g, D) <= Total(f, D)
<1> DEFINE h == [f EXCEPT ![x] = f[x] - n]
<1>1. h \in [D -> Int] /\ h[x] = f[x] - n /\ \A z \in D \ {x} : h[z] = f[z]
  OBVIOUS
<1> HIDE DEF h
<1>2. Total(h, D) = Total(f, D) + h[x] - f[x]
  BY <1>1, TotalUpdate
<1>3. \A z \in D \ {y} : g[z] = h[z]
  BY <1>1
<1>4. Total(g, D) = Total(h, D) + g[y] - h[y]
  BY <1>1, <1>3, TotalUpdate
<1>5. Total(f, D) \in Int /\ Total(h, D) \in Int /\ Total(g, D) \in Int
  BY <1>1, TotalType
<1>6. f[x] \in Int /\ g[y] \in Int /\ f[y] \in Int /\ h[y] = f[y]
  BY <1>1
<1> QED
  BY <1>1, <1>2, <1>4, <1>5, <1>6

\* The rounded-up fee is no more than the transfer.
LEMMA RateBound ==
    ASSUME NEW n \in Nat, NEW b \in 0..9999
    PROVE  n * b \in Nat /\ n * b <= n * 9999
<1> DEFINE p == n * b
           q == n * (9999 - b)
<1>1. p \in Nat /\ q \in Nat /\ p + q = n * 9999
  OBVIOUS
<1> HIDE DEF q
<1> QED
  BY <1>1

LEMMA FeeWithin ==
    ASSUME config \in MerchantConfig, NEW n \in Nat
    PROVE  TransferFee(n) \in Nat /\ TransferFee(n) <= n
<1> DEFINE bps == config.transfer_fee_bps
           product == n * bps
<1>1. bps \in 0..9999
  BY ConfigRate
<1>2. TransferFee(n) = (product + 9999) \div 10000
  BY DEF TransferFee
<1> HIDE DEF bps
<1>3. product \in Nat /\ product <= n * 9999
  BY <1>1, RateBound
<1> HIDE DEF product
<1> QED
  BY <1>2, <1>3, FeeType

LEMMA TrackedType ==
    ASSUME NEW g \in TokenGeneration
    PROVE  Tracked(g) \in Nat
BY WidthAssumption DEF TokenGeneration, Tracked, U64

LEMMA HeldType ==
    ASSUME TypeOK
    PROVE  Held \in [Owner -> Int]
BY TrackedType DEF Held, TypeOK

LEMMA HeldNat ==
    ASSUME TypeOK, Solvent
    PROVE  Held \in [Owner -> Nat]
BY TrackedType DEF Held, TypeOK, Solvent

LEMMA HeldAt ==
    ASSUME NEW o \in Owner
    PROVE  /\ Held[o] = IF o \in Wallet THEN Tracked(gen[o]) ELSE tokens[o]
           /\ Held'[o] = IF o \in Wallet THEN Tracked(gen'[o]) ELSE tokens'[o]
BY DEF Held

LEMMA InitSupply == Init => SupplyInv
<1> SUFFICES ASSUME Init PROVE SupplyInv
  OBVIOUS
<1>1. BooksInv
  BY InitBooks
<1>2. Solvent
  BY MintedAssumption DEF Init, Solvent
<1>3. \A o \in Owner : Held[o] = Minted[o]
  BY HeldAt, FreshGenerationType, MintedAssumption DEF Init
<1>4. Total(Held, Owner) = Total(Minted, Owner)
  BY <1>3, SupplyAssumption, TotalSame
<1> QED
  BY <1>1, <1>2, <1>4, SupplyType DEF SupplyInv, Supply

\* A step that leaves every holding as it was.
LEMMA SameHoldings ==
    ASSUME SupplyInv, BooksInv', tokens' = tokens,
           \A o \in Wallet : Tracked(gen'[o]) = Tracked(gen[o])
    PROVE  SupplyInv'
<1>1. \A o \in Owner : Held'[o] = Held[o]
  BY HeldAt
<1>2. Total(Held', Owner) = Total(Held, Owner)
  BY <1>1, SupplyAssumption, TotalSame
<1>3. (Total(Held, Owner))' = Total(Held', Owner)
  OBVIOUS
<1> QED
  BY <1>2, <1>3 DEF SupplyInv, Solvent

\* A burn takes the amount from the books of one owner and from the tokens of
\* one, the same or another.
LEMMA BurnHoldings ==
    ASSUME SupplyInv, BooksInv', NEW o \in Owner, NEW b \in Owner \cup {NoOwner},
           NEW n \in Amounts, BurnTokens(o, b, n)
    PROVE  SupplyInv'
<1>1. /\ gen \in [Owner -> TokenGeneration] /\ tokens \in [Owner -> Int]
      /\ n \in U64 /\ n \in Nat /\ TypeOK /\ TypeOK'
  BY AmountsAssumption, WidthAssumption DEF SupplyInv, BooksInv, TypeOK, U64
<1>2. /\ gen' = [gen EXCEPT ![o] = Burned(gen[o], n)]
      /\ tokens' = [x \in Owner |-> IF x = b THEN tokens[x] - n ELSE tokens[x]]
      /\ b \in Owner => tokens[b] >= n
  BY DEF BurnTokens
<1>3. Tracked(Burned(gen[o], n)) = Tracked(gen[o]) - n
  BY <1>1, BurnedType DEF BurnTokens
<1>4. \A w \in Owner : /\ Tracked(gen[w]) \in Nat /\ Tracked(gen'[w]) \in Nat
                       /\ tokens[w] \in Int /\ tokens'[w] \in Int
                       /\ Tracked(gen'[w]) <= Tracked(gen[w])
                       /\ tokens'[w] <= tokens[w]
                       /\ w # o => gen'[w] = gen[w]
                       /\ w # b => tokens'[w] = tokens[w]
  <2> SUFFICES ASSUME NEW w \in Owner
               PROVE  /\ Tracked(gen[w]) \in Nat /\ Tracked(gen'[w]) \in Nat
                      /\ tokens[w] \in Int /\ tokens'[w] \in Int
                      /\ Tracked(gen'[w]) <= Tracked(gen[w])
                      /\ tokens'[w] <= tokens[w]
                      /\ w # o => gen'[w] = gen[w]
                      /\ w # b => tokens'[w] = tokens[w]
    OBVIOUS
  <2>1. gen[w] \in TokenGeneration /\ gen'[w] \in TokenGeneration
    BY <1>1 DEF TypeOK
  <2>2. Tracked(gen[w]) \in Nat /\ Tracked(gen'[w]) \in Nat
    BY <2>1, TrackedType
  <2>3. w # o => gen'[w] = gen[w]
    BY <1>1, <1>2
  <2>4. w = o => Tracked(gen'[w]) = Tracked(gen[w]) - n
    BY <1>1, <1>2, <1>3
  <2>5. tokens[w] \in Int /\ tokens'[w] = IF w = b THEN tokens[w] - n ELSE tokens[w]
    BY <1>1, <1>2
  <2>6. Tracked(gen'[w]) <= Tracked(gen[w])
    BY <1>1, <2>2, <2>3, <2>4
  <2>7. tokens'[w] \in Int /\ tokens'[w] <= tokens[w] /\ (w # b => tokens'[w] = tokens[w])
    BY <1>1, <2>5
  <2> QED
    BY <2>2, <2>3, <2>5, <2>6, <2>7
<1> DEFINE f == Held
           g == Held'
           c == IF b \in Owner THEN b ELSE o
<1>5. f \in [Owner -> Int] /\ g \in [Owner -> Int]
  BY <1>1, TrackedType DEF Held, TypeOK
<1>6. \A w \in Owner : g[w] <= f[w]
  BY <1>4, HeldAt
<1>7. \A w \in Owner \ {o, c} : g[w] = f[w]
  BY <1>4, HeldAt
<1>8. c \in Owner
  OBVIOUS
<1>9. Total(f, Owner) <= Supply /\ (Total(Held, Owner))' = Total(g, Owner)
  BY DEF SupplyInv
<1> HIDE DEF f, g, c
<1>10. Total(g, Owner) <= Total(f, Owner)
  BY <1>5, <1>6, <1>7, <1>8, SupplyAssumption, TotalShrinks
<1>11. Total(f, Owner) \in Int /\ Total(g, Owner) \in Int
  BY <1>5, SupplyAssumption, TotalType
<1>12. Total(g, Owner) <= Supply
  BY <1>9, <1>10, <1>11, SupplyType
<1>13. Solvent'
  <2> SUFFICES ASSUME NEW w \in Owner \ Wallet PROVE tokens'[w] >= 0
    BY DEF Solvent
  <2>1. tokens[w] \in Int /\ tokens[w] >= 0
    BY <1>1 DEF SupplyInv, Solvent
  <2>2. tokens'[w] = IF w = b THEN tokens[w] - n ELSE tokens[w]
    BY <1>2
  <2> QED
    BY <1>1, <1>2, <2>1, <2>2
<1> QED
  BY <1>9, <1>12, <1>13 DEF SupplyInv

\* A transfer takes the amount from the sender and gives the recipient at most
\* as much.
LEMMA TransferHoldings ==
    ASSUME SupplyInv, BooksInv', NEW path, NEW s \in Owner, NEW d \in Owner, NEW n \in U64,
           Transfer(path, s, d, n)
    PROVE  SupplyInv'
<1> DEFINE fee == TransferFee(n)
           a == Hook(s, d, n).src
           b == Hook(s, d, n).dst
<1>1. /\ s # d /\ tokens[s] >= n
      /\ gen' = [gen EXCEPT ![s] = a, ![d] = b]
      /\ tokens' = [tokens EXCEPT ![s] = @ - n, ![d] = @ + n - fee]
      /\ Hook(s, d, n).ok
  BY DEF Transfer
<1>2. /\ TypeOK /\ Accounts /\ TypeOK'
      /\ gen \in [Owner -> TokenGeneration] /\ tokens \in [Owner -> Int]
      /\ n \in Nat /\ config \in MerchantConfig
  BY WidthAssumption DEF SupplyInv, BooksInv, TypeOK, U64
<1>3. /\ s \in Wallet => Tracked(a) = Tracked(gen[s]) - n
      /\ d \in Wallet => Tracked(b) = Tracked(gen[d]) + n
  BY <1>1, <1>2, HookBooks
<1>4. fee \in Nat /\ fee <= n
  BY <1>2, FeeWithin
<1> HIDE DEF a, b, fee
<1>5. Held \in [Owner -> Int] /\ Held' \in [Owner -> Int]
  BY <1>2, TrackedType DEF Held, TypeOK
<1>6. Held'[s] = Held[s] - n
  BY <1>1, <1>2, <1>3, HeldAt
<1>7. Held'[d] <= Held[d] + n
  <2>1. CASE d \in Wallet
    BY <1>1, <1>2, <1>3, <1>5, <2>1, HeldAt
  <2>2. CASE d \notin Wallet
    BY <1>1, <1>2, <1>4, <1>5, <2>2, HeldAt
  <2> QED
    BY <2>1, <2>2
<1>8. \A w \in Owner \ {s, d} : Held'[w] = Held[w]
  BY <1>1, <1>2, HeldAt
<1> DEFINE f == Held
           g == Held'
<1>9. f \in [Owner -> Int] /\ g \in [Owner -> Int] /\ g[s] = f[s] - n /\ g[d] <= f[d] + n
      /\ \A w \in Owner \ {s, d} : g[w] = f[w]
  BY <1>5, <1>6, <1>7, <1>8
<1>10. Total(f, Owner) <= Supply /\ (Total(Held, Owner))' = Total(g, Owner)
  BY DEF SupplyInv
<1> HIDE DEF f, g
<1>11. Total(f, Owner) \in Int /\ Total(g, Owner) \in Int
  BY <1>9, SupplyAssumption, TotalType
<1>12. Total(g, Owner) <= Total(f, Owner)
  <2>1. n \in Int
    BY <1>2
  <2>2. s # d /\ IsFiniteSet(Owner)
    BY <1>1, SupplyAssumption
  <2> QED
    BY <1>9, <2>1, <2>2, TotalMoves
<1>13. Total(g, Owner) <= Supply
  BY <1>10, <1>11, <1>12, SupplyType
<1>14. Solvent'
  <2> SUFFICES ASSUME NEW o \in Owner \ Wallet PROVE tokens'[o] >= 0
    BY DEF Solvent
  <2>1. tokens[o] \in Int /\ tokens[o] >= 0
    BY <1>2 DEF SupplyInv, Solvent
  <2>2. o = s => tokens'[o] = tokens[o] - n
    BY <1>1, <1>2
  <2>3. o = d => tokens'[o] = tokens[o] + n - fee
    BY <1>1, <1>2
  <2>4. o # s /\ o # d => tokens'[o] = tokens[o]
    BY <1>1, <1>2
  <2> QED
    BY <1>1, <1>2, <1>4, <2>1, <2>2, <2>3, <2>4
<1> QED
  BY <1>10, <1>13, <1>14 DEF SupplyInv

\* Opening an account, registering a pool, and every instruction that moves no
\* tokens leave every customer's books as they were.
LEMMA NextSupply == SupplyInv /\ [Next]_vars => SupplyInv'
<1> SUFFICES ASSUME SupplyInv, [Next]_vars PROVE SupplyInv'
  OBVIOUS
<1>1. BooksInv /\ BooksInv'
  BY NextBooks DEF SupplyInv
<1>2. /\ gen \in [Owner -> TokenGeneration] /\ initialized \subseteq Owner
      /\ tokens \in [Owner -> Int] /\ Wallet \subseteq Owner
  BY <1>1, RolesAssumption DEF BooksInv, TypeOK
<1>3. ASSUME NEW o \in Owner, NEW g,
             gen' = [gen EXCEPT ![o] = g], tokens' = tokens,
             o \in Wallet => Tracked(g) = Tracked(gen[o])
      PROVE  SupplyInv'
  <2>1. \A w \in Wallet : Tracked(gen'[w]) = Tracked(gen[w])
    BY <1>2, <1>3
  <2> QED
    BY <1>1, <1>3, <2>1, SameHoldings
<1>4. ASSUME NEW o \in Owner, InitTokenGeneration(o) PROVE SupplyInv'
  <2>1. gen[o] = FreshGeneration(o)
    BY <1>1, <1>4 DEF BooksInv, Unopened, InitTokenGeneration
  <2> QED
    BY <1>3, <1>4, <2>1 DEF InitTokenGeneration
<1>5. ASSUME NEW o \in Owner, InitTreasuryTokenGeneration(o) PROVE SupplyInv'
  BY <1>3, <1>5, RolesAssumption DEF InitTreasuryTokenGeneration
<1>6. ASSUME NEW o \in Owner, RegisterDexPool(o) PROVE SupplyInv'
  <2> DEFINE g == [gen[o] EXCEPT !.is_dex_pool = TRUE]
  <2>1. gen' = [gen EXCEPT ![o] = g] /\ tokens' = tokens /\ o \in Pools
    BY <1>2, <1>6 DEF RegisterDexPool
  <2>2. o \notin Wallet
    BY <2>1, RolesAssumption
  <2> HIDE DEF g
  <2> QED
    BY <1>3, <2>1, <2>2
<1>7. ASSUME NEW o \in Owner, FinalizeInbound(o) PROVE SupplyInv'
  BY <1>2, <1>3, <1>7, FinalizedType DEF FinalizeInbound
<1>8. ASSUME NEW o \in Owner, ClearRedemptionPending(o) PROVE SupplyInv'
  BY <1>2, <1>3, <1>8, UnlockedType DEF ClearRedemptionPending
<1>9. ASSUME NEW o \in Owner, NEW b \in Owner \cup {NoOwner}, NEW n \in Amounts,
             BurnTokens(o, b, n)
      PROVE  SupplyInv'
  BY <1>1, <1>9, BurnHoldings
<1>10. ASSUME NEW s \in Owner, NEW d \in Owner, NEW n \in Amounts,
              \/ PayFromTreasury(s, d, n) \/ TransferDex(s, d, n) \/ Redeem(s, d, n)
              \/ Issue(s, d, n) \/ PeerShare(s, d, n)
       PROVE  SupplyInv'
  <2>1. PICK path : Transfer(path, s, d, n)
    BY <1>10 DEF PayFromTreasury, TransferDex, Redeem, Issue, PeerShare
  <2>2. n \in U64
    BY AmountsAssumption
  <2> QED
    BY <1>1, <2>1, <2>2, TransferHoldings
<1>11. CASE Tick
  BY <1>1, <1>11, SameHoldings DEF Tick
<1>12. CASE UNCHANGED vars
  BY <1>1, <1>12, SameHoldings DEF vars
<1> QED
  BY <1>4, <1>5, <1>6, <1>7, <1>8, <1>9, <1>10, <1>11, <1>12 DEF Next

LEMMA SupplyAlways == Spec => []SupplyInv
  BY InitSupply, NextSupply, PTL DEF Spec

\* No sequence of transfers, payouts, redemptions and burns puts more tokens on
\* the customers' books and into the other owners' accounts than were minted.
THEOREM NothingBeyondSupply == Spec => [](Total(Held, Owner) <= Supply)
<1>1. SupplyInv => Total(Held, Owner) <= Supply
  BY DEF SupplyInv
<1> QED
  BY <1>1, SupplyAlways, PTL

-----------------------------------------------------------------------------
(* The recipient's part in the hook's verdict *)

\* What arrives at an account fits the books when the account's own total does.
LEMMA ReceiveFits ==
    ASSUME NEW g \in TokenGeneration, NEW e \in InboundEntry, NEW t \in Nat,
           Tracked(g) + e.amount <= MaxU64
    PROVE  Fits(Receive(g, e)) /\ Fits(StampFirst(Receive(g, e), t))
<1> DEFINE r == Receive(g, e)
<1>1. /\ g.gen1_balance \in Nat /\ g.gen2_balance \in Nat /\ g.dead_balance \in Nat
      /\ e.amount \in Nat
  BY WidthAssumption DEF TokenGeneration, InboundEntry, U64
<1>2. Tracked(r) = Tracked(g) + e.amount
  BY ReceiveTracked
<1>3. r.gen1_balance \in Nat /\ r.gen2_balance \in Nat /\ r.dead_balance \in Nat
  <2> DEFINE w == WriteInbound(g, e)
  <2>1. /\ w = [w EXCEPT !.gen1_balance = g.gen1_balance]
        /\ w.gen1_balance = g.gen1_balance
        /\ w.gen2_balance = g.gen2_balance
        /\ w.dead_balance = g.dead_balance
    BY DEF WriteInbound, TokenGeneration
  <2>2. CASE BufferFull(g)
    BY <1>1, <2>2 DEF Receive, TokenGeneration
  <2>3. CASE ~BufferFull(g)
    <3>1. w \in TokenGeneration
      BY <2>3, WriteInboundType
    <3>2. \/ r = [w EXCEPT !.gen1_balance = @ + e.amount]
          \/ r = [w EXCEPT !.gen2_balance = @ + e.amount]
          \/ r = [w EXCEPT !.dead_balance = @ + e.amount]
      BY <2>3 DEF Receive
    <3> HIDE DEF w, r
    <3> QED
      BY <1>1, <2>1, <3>1, <3>2 DEF TokenGeneration
  <2> QED
    BY <2>2, <2>3
<1>4. Tracked(r) <= MaxU64
  BY <1>2
<1> HIDE DEF r
<1>5. Fits(r)
  BY <1>3, <1>4, WidthAssumption DEF Fits, Tracked, U64
<1>6. r \in TokenGeneration
  BY <1>5, ReceiveType DEF r
<1>7. Fits(StampFirst(r, t))
  BY <1>5, <1>6 DEF StampFirst, Fits, TokenGeneration
<1> QED
  BY <1>5, <1>7 DEF r

\* A customer's account with room for n more tokens on its books.
Roomy(g, n) ==
    /\ g \in TokenGeneration
    /\ ~g.is_intermediary /\ ~g.is_dex_pool
    /\ Tracked(g) + n <= MaxU64

\* What the hook answers then is up to the sender and the merchant alone.
Verdict(c, t, src, n) ==
    IF src.is_treasury THEN Fits(src)
    ELSE IF src.is_dex_pool
    THEN Fits(IF src.is_intermediary \/ FromMerchant(src) THEN src ELSE FifoDeduct(src, n))
    ELSE IF FromMerchant(src) THEN Fits(src)
    ELSE /\ PeerAllowed(c, t, src, n)
         /\ FromGen1(src, n) = 0 /\ FromGen2(src, n) > 0 => c.allow_second_gen_transfer
         /\ Fits(FifoDeduct(CountedShare(c, t, src), n))

LEMMA HookVerdict ==
    ASSUME NEW c, NEW t \in Nat, NEW src \in TokenGeneration, ~src.is_intermediary,
           NEW n \in U64, NEW dst, Roomy(dst, n)
    PROVE  ExecuteTransferHook(c, t, src, dst, FALSE, n).ok <=> Verdict(c, t, src, n)
<1>1. /\ dst \in TokenGeneration /\ ~dst.is_intermediary /\ ~dst.is_dex_pool
      /\ Tracked(dst) + n <= MaxU64
  BY DEF Roomy
<1> DEFINE issued == NewEntry(NoOwner, n, "Issuance")
           shared == PeerEntry(src, n)
<1>2. issued \in InboundEntry /\ issued.amount = n
  BY NewEntryType DEF GenSource
<1>3. shared \in InboundEntry /\ shared.amount = n
  BY PeerEntryType
<1>4. Fits(Receive(dst, issued)) /\ Fits(StampFirst(Receive(dst, issued), t))
  BY <1>1, <1>2, ReceiveFits
<1>5. Fits(StampFirst(Receive(dst, shared), t))
  BY <1>1, <1>3, ReceiveFits
<1>6. Fits([dst EXCEPT !.dead_balance = @ + n])
  BY <1>1, WidthAssumption DEF Fits, TokenGeneration, Tracked, U64
<1> DEFINE hook == ExecuteTransferHook(c, t, src, dst, FALSE, n)
           path == HookPath(src, dst, FALSE)
<1>7. /\ path = "treasury" => hook = TreasuryOutcome(src, dst, n)
      /\ path = "dex" => hook = DexOutcome(src, dst, n)
      /\ path = "issuance" => hook = IssuanceOutcome(t, src, dst, n)
      /\ path = "peer" => hook = PeerOutcome(c, t, src, dst, n)
  BY DEF ExecuteTransferHook, HookPath
<1>8. CASE src.is_treasury
  <2>1. hook = TreasuryOutcome(src, dst, n)
    BY <1>7, <1>8 DEF HookPath
  <2> HIDE DEF hook
  <2>2. hook.ok <=> Fits(src)
    BY <1>4, <2>1 DEF TreasuryOutcome, Outcome
  <2> QED
    BY <1>8, <2>2 DEF Verdict, hook
<1>9. CASE ~src.is_treasury /\ src.is_dex_pool
  <2> DEFINE sent == IF src.is_intermediary \/ FromMerchant(src) THEN src ELSE FifoDeduct(src, n)
             got == [dst EXCEPT !.dead_balance = @ + n]
  <2>1. hook = DexOutcome(src, dst, n)
    BY <1>7, <1>9 DEF HookPath
  <2> HIDE DEF hook
  <2>2. hook = Outcome(TRUE, sent, got)
    BY <1>1, <2>1 DEF DexOutcome
  <2> HIDE DEF sent, got
  <2>3. hook.ok <=> Fits(sent)
    BY <1>6, <2>2 DEF Outcome, got
  <2> QED
    BY <1>9, <2>3 DEF Verdict, hook, sent
<1>10. CASE ~src.is_treasury /\ ~src.is_dex_pool /\ FromMerchant(src)
  <2>1. hook = IssuanceOutcome(t, src, dst, n)
    BY <1>1, <1>7, <1>10 DEF HookPath
  <2> HIDE DEF hook
  <2>2. hook.ok <=> Fits(src)
    BY <1>4, <2>1 DEF IssuanceOutcome, Outcome
  <2> QED
    BY <1>10, <2>2 DEF Verdict, hook
<1>11. CASE ~src.is_treasury /\ ~src.is_dex_pool /\ ~FromMerchant(src)
  <2> DEFINE guard == /\ PeerAllowed(c, t, src, n)
                      /\ FromGen1(src, n) = 0 /\ FromGen2(src, n) > 0
                            => c.allow_second_gen_transfer
             sent == FifoDeduct(CountedShare(c, t, src), n)
             got == StampFirst(Receive(dst, shared), t)
  <2>1. hook = PeerOutcome(c, t, src, dst, n)
    BY <1>1, <1>7, <1>11 DEF HookPath
  <2> HIDE DEF hook
  <2>2. hook = Outcome(guard, sent, got)
    BY <1>1, <2>1 DEF PeerOutcome
  <2> HIDE DEF guard, sent, got
  <2>3. hook.ok <=> guard /\ Fits(sent)
    BY <1>5, <2>2 DEF Outcome, got
  <2> QED
    BY <1>11, <2>3 DEF Verdict, hook, guard, sent
<1> QED
  BY <1>8, <1>9, <1>10, <1>11

\* A customer cannot send what the books do not cover, whoever receives.
LEMMA VerdictCovered ==
    ASSUME NEW c \in MerchantConfig, NEW t \in Nat, NEW src \in TokenGeneration,
           ~src.is_treasury, ~src.is_dex_pool, ~src.is_intermediary, ~FromMerchant(src),
           NEW n \in U64, NEW dst \in TokenGeneration, ~dst.is_dex_pool,
           ExecuteTransferHook(c, t, src, dst, FALSE, n).ok
    PROVE  n <= Tracked(src)
<1>1. ExecuteTransferHook(c, t, src, dst, FALSE, n) = PeerOutcome(c, t, src, dst, n)
  BY DEF ExecuteTransferHook, HookPath
<1> DEFINE out == PeerOutcome(c, t, src, dst, n)
<1>2. out.src \in TokenGeneration /\ Tracked(out.src) = Tracked(src) - n
  BY <1>1, PeerPath DEF WellFormed
<1> HIDE DEF out
<1>3. Tracked(out.src) \in Nat /\ Tracked(src) \in Nat /\ n \in Nat
  BY <1>2, TrackedType, WidthAssumption DEF U64
<1> QED
  BY <1>2, <1>3

LEMMA VerdictsAgree == SupplyInv => RecipientNeverBlocks
<1> SUFFICES ASSUME SupplyInv, NEW s \in initialized, NEW d \in Wallet \cap initialized,
                    NEW n \in Amounts, s # d, tokens[s] >= n
             PROVE  Hook(s, d, n).ok
                      <=> ExecuteTransferHook(config, now, gen[s], FreshGeneration(d), ToVault(d), n).ok
  BY DEF RecipientNeverBlocks
<1>1. /\ gen \in [Owner -> TokenGeneration] /\ s \in Owner /\ d \in Owner /\ d \in Wallet
      /\ tokens \in [Owner -> Int] /\ now \in Nat /\ n \in U64 /\ n \in Nat
      /\ TypeOK /\ Accounts /\ TrackedCoversBalance /\ Solvent
  BY AmountsAssumption, WidthAssumption DEF SupplyInv, BooksInv, TypeOK, U64
<1>2. ToVault(d) = FALSE /\ ~gen[s].is_intermediary /\ gen[s] \in TokenGeneration
  BY <1>1, RolesAssumption DEF ToVault, Accounts
<1>3. /\ Held[s] = IF s \in Wallet THEN Tracked(gen[s]) ELSE tokens[s]
      /\ Held[d] = Tracked(gen[d])
      /\ tokens[s] \in Int /\ Tracked(gen[s]) \in Nat
  BY <1>1, HeldAt, TrackedType
<1>4. FreshGeneration(d) \in TokenGeneration /\ Tracked(FreshGeneration(d)) = 0
  BY <1>1, FreshGenerationType
<1>5. CASE ~(n <= Held[s])
  <2>1. s \in Wallet /\ ~(n <= Tracked(gen[s]))
    BY <1>1, <1>3, <1>5
  <2>2. ~gen[s].is_treasury /\ ~gen[s].is_dex_pool /\ ~FromMerchant(gen[s])
    BY <1>1, <2>1, RolesAssumption DEF Accounts, FromMerchant
  <2>3. gen[d] \in TokenGeneration /\ ~gen[d].is_dex_pool /\ config \in MerchantConfig
    BY <1>1, RolesAssumption DEF Accounts, TypeOK
  <2>4. ~ExecuteTransferHook(config, now, gen[s], gen[d], FALSE, n).ok
    BY <1>1, <1>2, <2>1, <2>2, <2>3, VerdictCovered
  <2>5. ~FreshGeneration(d).is_dex_pool
    BY <1>1, FreshIdentity
  <2>6. ~ExecuteTransferHook(config, now, gen[s], FreshGeneration(d), FALSE, n).ok
    BY <1>1, <1>2, <1>4, <2>1, <2>2, <2>3, <2>5, VerdictCovered
  <2> QED
    BY <1>2, <2>4, <2>6 DEF Hook
<1>6. CASE n <= Held[s]
  <2>1. Tracked(gen[d]) + n <= MaxU64
    <3>1. Held \in [Owner -> Nat] /\ Total(Held, Owner) <= Supply
      BY <1>1, HeldNat DEF SupplyInv
    <3>2. Held[s] + Held[d] <= Total(Held, Owner)
      BY <1>1, <3>1, SupplyAssumption, TotalCovers
    <3>3. Total(Held, Owner) \in Nat
      BY <3>1, SupplyAssumption, TotalNat
    <3>4. Held[s] \in Nat /\ Held[d] \in Nat
      BY <1>1, <3>1
    <3> QED
      BY <1>1, <1>3, <1>6, <3>1, <3>2, <3>3, <3>4, SupplyType, WidthAssumption
  <2>2. Roomy(gen[d], n)
    BY <1>1, <2>1, RolesAssumption DEF Accounts, Roomy
  <2>3. Roomy(FreshGeneration(d), n)
    <3>1. 0 + n <= MaxU64
      BY <1>1, WidthAssumption DEF U64
    <3> QED
      BY <1>1, <1>4, <3>1, FreshIdentity DEF Roomy
  <2> DEFINE verdict == Verdict(config, now, gen[s], n)
  <2>4. ExecuteTransferHook(config, now, gen[s], gen[d], FALSE, n).ok <=> verdict
    BY <1>1, <1>2, <2>2, HookVerdict
  <2>5. ExecuteTransferHook(config, now, gen[s], FreshGeneration(d), FALSE, n).ok <=> verdict
    BY <1>1, <1>2, <2>3, HookVerdict
  <2> QED
    BY <1>2, <2>4, <2>5 DEF Hook
<1> QED
  BY <1>5, <1>6

\* "Transfers always succeed; only attribution is lost" (README): whether a
\* transfer to a customer goes through never depends on the customer's inbound
\* buffer, balances or redemption lock, for any number of owners, any buffer
\* size and any width that holds the supply.
THEOREM RecipientsNeverBlock == Spec => []RecipientNeverBlocks
  BY SupplyAlways, VerdictsAgree, PTL

=============================================================================

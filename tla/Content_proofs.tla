--------------------------- MODULE Content_proofs ---------------------------
(***************************************************************************)
(* Proofs about what is checked and what is served: PaymentFee and         *)
(* PaymentContent, for all prices, coins and constants of the fee, and     *)
(* MediaRange, for media of every size and all headers.                    *)
(***************************************************************************)
EXTENDS PaymentContent, MediaRange, SequenceTheorems, FiniteSetTheorems,
        WellFoundedInduction, TLAPS

-----------------------------------------------------------------------------
(* Sums of the first amounts of a sequence *)

\* A set of numbers has a least one.
LEMMA LeastNat ==
  ASSUME NEW T \in SUBSET Nat, T # {}
  PROVE  \E x \in T : \A y \in T : x <= y
<1> DEFINE Less == {ss \in Nat \X Nat : ss[1] < ss[2]}
<1>1. IsWellFoundedOn(Less, Nat)
  BY NatLessThanWellFounded DEF OpToRel
<1>2. PICK x \in T : \A y \in T : ~ (<<y, x>> \in Less)
  BY <1>1, WFMin
<1>3. \A y \in T : ~ (y < x)
  BY <1>2
<1> QED
  BY <1>3

\* Induction, for a set: if some number were left out, the least of them would not be.
LEMMA InductNat ==
  ASSUME NEW S, 0 \in S, \A n \in Nat : n \in S => n + 1 \in S
  PROVE  Nat \subseteq S
<1>1. SUFFICES ASSUME Nat \ S # {} PROVE FALSE
  OBVIOUS
<1>2. PICK x \in Nat \ S : \A y \in Nat \ S : x <= y
  BY <1>1, LeastNat
<1>3. x # 0 /\ x - 1 \in Nat /\ x - 1 \in S
  BY <1>2
<1> QED
  BY <1>2, <1>3

\* g is the table of the sums of the first amounts.
Sums(amounts, n, g) ==
  g = [i \in 0 .. n |-> IF i = 0 THEN 0 ELSE g[i - 1] + amounts[i]]

\* There is such a table, and what is in it depends on the amounts only.
LEMMA SumsThere == ASSUME NEW amounts PROVE \A n \in Nat : \E g : Sums(amounts, n, g)
<1> DEFINE S == {n \in Nat : \E g : Sums(amounts, n, g)}
<1>1. 0 \in S
  <2> DEFINE g == [i \in 0 .. 0 |-> 0]
  <2>1. g = [i \in 0 .. 0 |-> IF i = 0 THEN 0 ELSE g[i - 1] + amounts[i]]
    OBVIOUS
  <2> QED
    BY <2>1 DEF Sums
<1>2. ASSUME NEW n \in Nat, n \in S PROVE n + 1 \in S
  <2>1. PICK g : Sums(amounts, n, g)
    BY <1>2
  <2> DEFINE h == [i \in 0 .. n + 1 |-> IF i = n + 1 THEN g[n] + amounts[i] ELSE g[i]]
  <2>2. \A i \in 0 .. n : g[i] = IF i = 0 THEN 0 ELSE g[i - 1] + amounts[i]
    BY <2>1 DEF Sums
  <2>3. \A i \in 0 .. n + 1 : h[i] = IF i = 0 THEN 0 ELSE h[i - 1] + amounts[i]
    <3> TAKE i \in 0 .. n + 1
    <3>1. CASE i = 0
      BY <3>1, <2>2
    <3>2. CASE i = n + 1
      <4>1. h[i - 1] = g[n] /\ h[i] = g[n] + amounts[i] /\ i # 0
        BY <3>2
      <4> HIDE DEF h
      <4> QED
        BY <4>1
    <3>3. CASE i \in 1 .. n
      <4>1. h[i - 1] = g[i - 1] /\ h[i] = g[i] /\ i # 0 /\ i \in 0 .. n
        BY <3>3
      <4> HIDE DEF h
      <4> QED
        BY <4>1, <2>2
    <3> QED
      BY <3>1, <3>2, <3>3
  <2>4. h = [i \in 0 .. n + 1 |-> h[i]]
    OBVIOUS
  <2> HIDE DEF h
  <2>5. h = [i \in 0 .. n + 1 |-> IF i = 0 THEN 0 ELSE h[i - 1] + amounts[i]]
    BY <2>3, <2>4
  <2>6. Sums(amounts, n + 1, h)
    BY <2>5 DEF Sums
  <2> QED
    BY <2>6
<1> HIDE DEF S
<1>3. Nat \subseteq S
  BY <1>1, <1>2, InductNat
<1> QED
  BY <1>3 DEF S

LEMMA SumsOne ==
  ASSUME NEW amounts, NEW m \in Nat, NEW n \in Nat, NEW g, NEW h,
         Sums(amounts, m, g), Sums(amounts, n, h)
  PROVE  \A i \in Nat : i <= m /\ i <= n => g[i] = h[i]
<1> DEFINE S == {i \in Nat : i <= m /\ i <= n => g[i] = h[i]}
<1>1. /\ \A i \in 0 .. m : g[i] = IF i = 0 THEN 0 ELSE g[i - 1] + amounts[i]
      /\ \A i \in 0 .. n : h[i] = IF i = 0 THEN 0 ELSE h[i - 1] + amounts[i]
  BY DEF Sums
<1>2. 0 \in S
  BY <1>1
<1>3. ASSUME NEW i \in Nat, i \in S PROVE i + 1 \in S
  <2> SUFFICES ASSUME i + 1 <= m, i + 1 <= n PROVE g[i + 1] = h[i + 1]
    OBVIOUS
  <2>1. g[i] = h[i] /\ i + 1 \in 0 .. m /\ i + 1 \in 0 .. n /\ i + 1 # 0 /\ (i + 1) - 1 = i
    BY <1>3
  <2> QED
    BY <1>1, <2>1
<1> HIDE DEF S
<1>4. Nat \subseteq S
  BY <1>2, <1>3, InductNat
<1> QED
  BY <1>4 DEF S

LEMMA SumIsInTable ==
  ASSUME NEW amounts, NEW n \in Nat
  PROVE  \E g : Sums(amounts, n, g) /\ SumTo(amounts, n) = g[n]
<1> DEFINE g == CHOOSE g : g = [i \in 0 .. n |-> IF i = 0 THEN 0 ELSE g[i - 1] + amounts[i]]
<1>1. \E f : f = [i \in 0 .. n |-> IF i = 0 THEN 0 ELSE f[i - 1] + amounts[i]]
  BY SumsThere DEF Sums
<1>2. g = [i \in 0 .. n |-> IF i = 0 THEN 0 ELSE g[i - 1] + amounts[i]]
  BY <1>1
<1>3. SumTo(amounts, n) = g[n]
  BY DEF SumTo
<1> HIDE DEF g
<1> QED
  BY <1>2, <1>3 DEF Sums

\* The recursion of SumTo, without its table.
LEMMA SumStep ==
  ASSUME NEW amounts, NEW n \in Nat
  PROVE  SumTo(amounts, 0) = 0 /\ SumTo(amounts, n + 1) = SumTo(amounts, n) + amounts[n + 1]
<1>1. PICK none : Sums(amounts, 0, none) /\ SumTo(amounts, 0) = none[0]
  BY SumIsInTable
<1>2. PICK g : Sums(amounts, n, g) /\ SumTo(amounts, n) = g[n]
  BY SumIsInTable
<1>3. PICK h : Sums(amounts, n + 1, h) /\ SumTo(amounts, n + 1) = h[n + 1]
  BY SumIsInTable
<1>4. none[0] = 0
  BY <1>1 DEF Sums
<1>5. h[n + 1] = h[n] + amounts[n + 1]
  <2>1. n + 1 \in 0 .. n + 1 /\ n + 1 # 0 /\ (n + 1) - 1 = n
    OBVIOUS
  <2> QED
    BY <1>3, <2>1 DEF Sums
<1>6. g[n] = h[n]
  BY <1>2, <1>3, SumsOne
<1> QED
  BY <1>1, <1>2, <1>3, <1>4, <1>5, <1>6

LEMMA SumsAreInts ==
  ASSUME NEW N \in Nat, NEW amounts, \A i \in 1 .. N : amounts[i] \in Int
  PROVE  \A n \in 0 .. N : SumTo(amounts, n) \in Int
<1> DEFINE S == {n \in Nat : n <= N => SumTo(amounts, n) \in Int}
<1>1. 0 \in S
  BY SumStep
<1>2. ASSUME NEW n \in Nat, n \in S PROVE n + 1 \in S
  <2>1. SumTo(amounts, n + 1) = SumTo(amounts, n) + amounts[n + 1]
    BY SumStep
  <2>2. n + 1 <= N => amounts[n + 1] \in Int
    OBVIOUS
  <2> QED
    BY <1>2, <2>1, <2>2
<1> HIDE DEF S
<1>3. Nat \subseteq S
  BY <1>1, <1>2, InductNat
<1> QED
  BY <1>3 DEF S

\* A sum depends on what is added up only.
LEMMA SameSums ==
  ASSUME NEW N \in Nat, NEW f, NEW g, \A i \in 1 .. N : f[i] = g[i]
  PROVE  SumTo(f, N) = SumTo(g, N)
<1> DEFINE S == {n \in Nat : n <= N => SumTo(f, n) = SumTo(g, n)}
<1>1. 0 \in S
  BY SumStep
<1>2. ASSUME NEW n \in Nat, n \in S PROVE n + 1 \in S
  <2>1. /\ SumTo(f, n + 1) = SumTo(f, n) + f[n + 1]
        /\ SumTo(g, n + 1) = SumTo(g, n) + g[n + 1]
    BY SumStep
  <2>2. n + 1 <= N => f[n + 1] = g[n + 1]
    OBVIOUS
  <2> QED
    BY <1>2, <2>1, <2>2
<1> HIDE DEF S
<1>3. Nat \subseteq S
  BY <1>1, <1>2, InductNat
<1> QED
  BY <1>3 DEF S

-----------------------------------------------------------------------------
(* The platform's share *)

LEMMA Division ==
  ASSUME NEW x \in Nat, NEW d \in Nat \ {0}
  PROVE  x \div d \in Nat /\ d * (x \div d) <= x /\ x < d * (x \div d) + d
  OBVIOUS

\* What is divided, as a number of its own.
LEMMA Rounded ==
  ASSUME NEW amount \in Nat
  PROVE  \E half \in Nat, x \in Nat :
           /\ 2 * half <= BpsDenominator /\ BpsDenominator <= 2 * half + 1
           /\ x = amount * FeeBps + half
           /\ RoundedFee(amount) = x \div BpsDenominator
<1> DEFINE half == BpsDenominator \div 2
<1>1. half \in Nat /\ 2 * half <= BpsDenominator /\ BpsDenominator < 2 * half + 2
  BY FeeConstants, Division
<1>2. amount * FeeBps \in Nat
  BY FeeConstants
<1>3. RoundedFee(amount) = (amount * FeeBps + half) \div BpsDenominator
  BY DEF RoundedFee
<1> HIDE DEF half
<1>4. amount * FeeBps + half \in Nat
  BY <1>1, <1>2
<1> QED
  BY <1>1, <1>3, <1>4, FeeConstants

\* The rounded share is within half a unit of the exact one, and a half is rounded up.
THEOREM FeeRoundsHalfUp ==
  ASSUME NEW amount \in Nat
  PROVE  /\ RoundedFee(amount) \in Nat
         /\ 2 * (BpsDenominator * RoundedFee(amount)) <= 2 * (amount * FeeBps) + BpsDenominator
         /\ 2 * (amount * FeeBps) < 2 * (BpsDenominator * RoundedFee(amount)) + BpsDenominator
<1>1. PICK half \in Nat, x \in Nat :
           /\ 2 * half <= BpsDenominator /\ BpsDenominator <= 2 * half + 1
           /\ x = amount * FeeBps + half
           /\ RoundedFee(amount) = x \div BpsDenominator
  BY Rounded
<1> DEFINE fee == RoundedFee(amount)
           product == BpsDenominator * fee
           exact == amount * FeeBps
<1>2. fee \in Nat /\ product <= x /\ x < product + BpsDenominator
  BY <1>1, Division, FeeConstants
<1>3. product \in Nat /\ exact \in Nat /\ BpsDenominator \in Nat
  BY <1>2, FeeConstants
<1>4. x = exact + half
  BY <1>1
<1> HIDE DEF product, exact
<1>5. 2 * product <= 2 * exact + BpsDenominator /\ 2 * exact < 2 * product + BpsDenominator
  BY <1>1, <1>2, <1>3, <1>4
<1> QED
  BY <1>2, <1>5 DEF product, exact

\* The share is no more than the price, so the creator's output is never negative, and a
\* share that is taken is at least the minimum.
THEOREM FeeWithinPrice ==
  ASSUME NEW amount \in Nat
  PROVE  /\ PlatformFee(amount) \in Nat
         /\ PlatformFee(amount) <= amount
         /\ PlatformFee(amount) = 0 \/ PlatformFee(amount) >= MinPlatformFee
<1>1. PICK half \in Nat, x \in Nat :
           /\ 2 * half <= BpsDenominator /\ BpsDenominator <= 2 * half + 1
           /\ x = amount * FeeBps + half
           /\ RoundedFee(amount) = x \div BpsDenominator
  BY Rounded
<1> DEFINE fee == RoundedFee(amount)
<1>2. fee \in Nat /\ BpsDenominator * fee <= x
  BY <1>1, Division, FeeConstants
<1>3. amount * FeeBps <= amount * BpsDenominator
  BY FeeConstants
<1>4. half < BpsDenominator
  BY <1>1, FeeConstants
<1> HIDE DEF fee
<1>5. fee <= amount
  <2>1. SUFFICES ASSUME amount + 1 <= fee PROVE FALSE
    BY <1>2
  <2>2. BpsDenominator * (amount + 1) <= BpsDenominator * fee
    BY <2>1, <1>2, FeeConstants
  <2>3. BpsDenominator * (amount + 1) = amount * BpsDenominator + BpsDenominator
    BY FeeConstants
  <2>4. amount * BpsDenominator \in Nat /\ amount * FeeBps \in Nat /\ BpsDenominator \in Nat
        /\ BpsDenominator * fee \in Nat
    BY <1>2, FeeConstants
  <2> QED
    BY <1>1, <1>2, <1>3, <1>4, <2>2, <2>3, <2>4
<1>6. PlatformFee(amount) = IF fee >= MinPlatformFee THEN fee ELSE 0
  BY DEF PlatformFee, fee
<1> QED
  BY <1>2, <1>5, <1>6

\* The rounded share grows with the price, and no faster.
LEMMA RoundedGrows ==
  ASSUME NEW p \in Nat, NEW q \in Nat, p <= q
  PROVE  RoundedFee(p) <= RoundedFee(q) /\ RoundedFee(q) <= RoundedFee(p) + (q - p)
<1>1. PICK half \in Nat, x \in Nat :
        /\ 2 * half <= BpsDenominator /\ BpsDenominator <= 2 * half + 1
        /\ x = p * FeeBps + half
        /\ RoundedFee(p) = x \div BpsDenominator
  BY Rounded
<1>2. PICK half2 \in Nat, y \in Nat :
        /\ 2 * half2 <= BpsDenominator /\ BpsDenominator <= 2 * half2 + 1
        /\ y = q * FeeBps + half2
        /\ RoundedFee(q) = y \div BpsDenominator
  BY Rounded
<1> DEFINE less == RoundedFee(p)
           more == RoundedFee(q)
<1>3. /\ less \in Nat /\ BpsDenominator * less <= x /\ x < BpsDenominator * less + BpsDenominator
      /\ more \in Nat /\ BpsDenominator * more <= y /\ y < BpsDenominator * more + BpsDenominator
  BY <1>1, <1>2, Division, FeeConstants
<1> HIDE DEF less, more
<1>4. PICK d \in Nat : q = p + d
  <2>1. q - p \in Nat /\ q = p + (q - p)
    OBVIOUS
  <2> QED
    BY <2>1
<1>5. y = x + d * FeeBps /\ d * FeeBps \in Nat /\ d * FeeBps <= BpsDenominator * d
  <2>1. half = half2
    BY <1>1, <1>2, FeeConstants
  <2>2. q * FeeBps = p * FeeBps + d * FeeBps
    BY <1>4, FeeConstants
  <2>3. d * FeeBps \in Nat /\ p * FeeBps \in Nat /\ d * FeeBps <= BpsDenominator * d
    BY FeeConstants
  <2> QED
    BY <1>1, <1>2, <2>1, <2>2, <2>3
<1>6. less <= more
  <2>1. SUFFICES ASSUME more + 1 <= less PROVE FALSE
    BY <1>3
  <2>2. BpsDenominator * (more + 1) <= BpsDenominator * less
    BY <2>1, <1>3, FeeConstants
  <2>3. BpsDenominator * (more + 1) = BpsDenominator * more + BpsDenominator
    BY <1>3, FeeConstants
  <2>4. BpsDenominator * more \in Nat /\ BpsDenominator * less \in Nat /\ BpsDenominator \in Nat
    BY <1>3, FeeConstants
  <2> QED
    BY <1>3, <1>5, <2>2, <2>3, <2>4
<1>7. more <= less + d
  <2>1. SUFFICES ASSUME less + d + 1 <= more PROVE FALSE
    BY <1>3
  <2>2. BpsDenominator * (less + d + 1) <= BpsDenominator * more
    BY <2>1, <1>3, FeeConstants
  <2>3. BpsDenominator * (less + d + 1)
          = BpsDenominator * less + BpsDenominator * d + BpsDenominator
    BY <1>3, FeeConstants
  <2>4. /\ BpsDenominator * more \in Nat /\ BpsDenominator * less \in Nat
        /\ BpsDenominator * d \in Nat /\ BpsDenominator \in Nat
    BY <1>3, FeeConstants
  <2> QED
    BY <1>3, <1>5, <2>2, <2>3, <2>4
<1> QED
  BY <1>3, <1>4, <1>6, <1>7 DEF less, more

\* A higher price never lowers the platform's share.  It may lower the creator's, where
\* the share is first taken, but by less than the minimum.
THEOREM HigherPrice ==
  ASSUME NEW p \in Nat, NEW q \in Nat, p <= q
  PROVE  /\ PlatformFee(p) <= PlatformFee(q)
         /\ p - PlatformFee(p) < q - PlatformFee(q) + MinPlatformFee
<1> DEFINE less == RoundedFee(p)
           more == RoundedFee(q)
<1>1. less \in Nat /\ more \in Nat /\ less <= more /\ more <= less + (q - p)
  BY FeeRoundsHalfUp, RoundedGrows
<1>2. /\ PlatformFee(p) = IF less >= MinPlatformFee THEN less ELSE 0
      /\ PlatformFee(q) = IF more >= MinPlatformFee THEN more ELSE 0
  BY DEF PlatformFee
<1> HIDE DEF less, more
<1> QED
  BY <1>1, <1>2, FeeConstants

-----------------------------------------------------------------------------
(* The coins that prepare selects *)

\* The amounts of some coins among all.
Picked(coins, S) == [i \in DOMAIN coins |-> IF i \in S THEN coins[i] ELSE 0]

\* How many of the first n + 1 are in a set.
LEMMA PickedUpTo ==
  ASSUME NEW S, NEW n \in Nat
  PROVE  /\ Cardinality(S \cap (1 .. n)) \in Nat
         /\ Cardinality(S \cap (1 .. 0)) = 0
         /\ Cardinality(S \cap (1 .. n + 1))
              = Cardinality(S \cap (1 .. n)) + (IF n + 1 \in S THEN 1 ELSE 0)
<1>1. IsFiniteSet(1 .. n)
  BY FS_Interval
<1>2. IsFiniteSet(S \cap (1 .. n))
  BY <1>1, FS_Subset
<1>3. Cardinality(S \cap (1 .. n)) \in Nat
  BY <1>2, FS_CardinalityType
<1>4. Cardinality(S \cap (1 .. 0)) = 0
  <2>1. S \cap (1 .. 0) = {}
    OBVIOUS
  <2> QED
    BY <2>1, FS_EmptySet
<1>5. CASE n + 1 \in S
  <2>1. S \cap (1 .. n + 1) = (S \cap (1 .. n)) \cup {n + 1} /\ n + 1 \notin S \cap (1 .. n)
    BY <1>5
  <2>2. Cardinality((S \cap (1 .. n)) \cup {n + 1}) = Cardinality(S \cap (1 .. n)) + 1
    BY <1>2, <2>1, FS_AddElement
  <2> QED
    BY <1>3, <1>4, <1>5, <2>1, <2>2
<1>6. CASE n + 1 \notin S
  <2>1. S \cap (1 .. n + 1) = S \cap (1 .. n)
    BY <1>6
  <2> QED
    BY <1>3, <1>4, <1>6, <2>1
<1> QED
  BY <1>5, <1>6

\* Leaving coins out saves less than they are worth.
LEMMA EveryCoinHelps ==
  ASSUME NEW coins \in Seq(Nat), \A i \in DOMAIN coins : coins[i] >= InputCost,
         NEW S
  PROVE  \A n \in 0 .. Len(coins) :
           SumTo(Picked(coins, S), n) + InputCost * n
             <= SumTo(coins, n) + InputCost * Cardinality(S \cap (1 .. n))
<1> DEFINE N == Len(coins)
           picked == Picked(coins, S)
           Spent(n) == InputCost * Cardinality(S \cap (1 .. n))
           Holds(n) == SumTo(picked, n) + InputCost * n <= SumTo(coins, n) + Spent(n)
           Q == {n \in Nat : n <= N => Holds(n)}
<1>1. /\ N \in Nat /\ InputCost \in Nat
      /\ \A i \in 1 .. N : coins[i] \in Nat /\ coins[i] >= InputCost
      /\ \A i \in 1 .. N : picked[i] = IF i \in S THEN coins[i] ELSE 0
  BY ContentConstants DEF Picked
<1> HIDE DEF N, picked
<1>2. \A n \in 0 .. N : SumTo(coins, n) \in Int /\ SumTo(picked, n) \in Int
  <2>1. \A i \in 1 .. N : coins[i] \in Int
    BY <1>1
  <2>2. \A i \in 1 .. N : picked[i] \in Int
    BY <1>1
  <2>3. \A n \in 0 .. N : SumTo(coins, n) \in Int
    BY <1>1, <2>1, SumsAreInts, Zenon
  <2>4. \A n \in 0 .. N : SumTo(picked, n) \in Int
    BY <1>1, <2>2, SumsAreInts, Zenon
  <2> QED
    BY <2>3, <2>4
<1>3. ASSUME NEW n \in Nat PROVE Spent(n) \in Nat
  <2>1. Cardinality(S \cap (1 .. n)) \in Nat
    BY PickedUpTo
  <2> QED
    BY <1>1, <2>1
<1>4. Spent(0) = 0
  <2>1. Cardinality(S \cap (1 .. 0)) = 0
    BY PickedUpTo
  <2> QED
    BY <1>1, <2>1
<1>5. \A n \in Nat : Spent(n + 1) = Spent(n) + (IF n + 1 \in S THEN InputCost ELSE 0)
  <2> TAKE n \in Nat
  <2>1. PICK c \in Nat : c = Cardinality(S \cap (1 .. n))
    BY PickedUpTo
  <2>2. Cardinality(S \cap (1 .. n + 1)) = c + (IF n + 1 \in S THEN 1 ELSE 0)
    BY <2>1, PickedUpTo
  <2>3. InputCost * (c + 1) = InputCost * c + InputCost /\ c + 0 = c
    BY <1>1
  <2> QED
    BY <1>1, <2>1, <2>2, <2>3
<1> HIDE DEF Spent
<1>6. 0 \in Q
  <2>1. SumTo(picked, 0) = 0 /\ SumTo(coins, 0) = 0 /\ InputCost * 0 = 0
    BY <1>1, SumStep
  <2> QED
    BY <1>4, <2>1
<1>7. ASSUME NEW n \in Nat, n \in Q PROVE n + 1 \in Q
  <2> SUFFICES ASSUME n + 1 <= N PROVE Holds(n + 1)
    OBVIOUS
  <2>1. n \in 0 .. N /\ n + 1 \in 1 .. N
    BY <1>1
  <2>2. /\ SumTo(picked, n + 1) = SumTo(picked, n) + (IF n + 1 \in S THEN coins[n + 1] ELSE 0)
        /\ SumTo(coins, n + 1) = SumTo(coins, n) + coins[n + 1]
    BY <1>1, <2>1, SumStep
  <2>3. InputCost * (n + 1) = InputCost * n + InputCost /\ InputCost * n \in Nat
    BY <1>1
  <2>4. Holds(n)
    BY <1>7, <2>1
  <2> DEFINE product == InputCost * n
             later == InputCost * (n + 1)
             p == SumTo(picked, n)
             c == SumTo(coins, n)
             q == Spent(n)
  <2>5. /\ product \in Nat /\ later = product + InputCost
        /\ p \in Int /\ c \in Int /\ q \in Nat
        /\ p + product <= c + q
        /\ coins[n + 1] \in Nat /\ coins[n + 1] >= InputCost
    BY <1>1, <1>2, <1>3, <2>1, <2>3, <2>4
  <2>6. /\ SumTo(picked, n + 1) = p + (IF n + 1 \in S THEN coins[n + 1] ELSE 0)
        /\ SumTo(coins, n + 1) = c + coins[n + 1]
        /\ Spent(n + 1) = q + (IF n + 1 \in S THEN InputCost ELSE 0)
    BY <1>5, <2>2
  <2>7. SumTo(picked, n + 1) + later <= SumTo(coins, n + 1) + Spent(n + 1)
    <3> HIDE DEF product, later, p, c, q
    <3> QED
      BY <1>1, <2>5, <2>6
  <2> QED
    BY <2>7
<1> HIDE DEF Q
<1>8. Nat \subseteq Q
  BY <1>6, <1>7, InductNat
<1> QED
  BY <1>1, <1>8 DEF Q, Spent, N, picked

\* The number of coins that prepare selects.
LEMMA SelectedIsNumber ==
  ASSUME NEW coins \in Seq(Nat), NEW price \in Nat
  PROVE  /\ Selected(coins, price) \in 0 .. Len(coins)
         /\ ~ Enough(coins, Selected(coins, price), price)
              => ~ Enough(coins, Len(coins), price)
<1> DEFINE T == {n \in 1 .. Len(coins) : Enough(coins, n, price)}
<1>1. CASE T # {}
  <2>1. T \subseteq Nat
    OBVIOUS
  <2>2. PICK n \in T : \A m \in T : n <= m
    BY <1>1, <2>1, LeastNat
  <2>3. /\ n \in 1 .. Len(coins)
        /\ Enough(coins, n, price) /\ \A m \in 1 .. n - 1 : ~ Enough(coins, m, price)
    BY <2>2
  <2>4. Selected(coins, price) = CHOOSE k \in 1 .. Len(coins) :
          Enough(coins, k, price) /\ \A m \in 1 .. k - 1 : ~ Enough(coins, m, price)
    BY <1>1 DEF Selected
  <2>5. Selected(coins, price) \in 1 .. Len(coins) /\ Enough(coins, Selected(coins, price), price)
    BY <2>3, <2>4
  <2> QED
    BY <2>5
<1>2. CASE T = {}
  BY <1>2 DEF Selected
<1> QED
  BY <1>1, <1>2

\* If what prepare selects is not enough, no coins are.
LEMMA PoorIsRefused ==
  ASSUME NEW coins \in Seq(Nat), NEW price \in Nat,
         \A i \in DOMAIN coins : coins[i] >= InputCost,
         ~ Enough(coins, Selected(coins, price), price),
         NEW S \in SUBSET DOMAIN coins
  PROVE  SumTo(Picked(coins, S), Len(coins)) < price + EstimatedFee(Cardinality(S), price)
<1> DEFINE N == Len(coins)
           k == Cardinality(S)
           rest == price + BaseCost + OutputCost * OutputCount(price)
<1>1. N \in Nat /\ DOMAIN coins = 1 .. N
  OBVIOUS
<1>2. S \cap (1 .. N) = S
  BY <1>1
<1>3. SumTo(Picked(coins, S), N) + InputCost * N <= SumTo(coins, N) + InputCost * k
  BY <1>1, <1>2, EveryCoinHelps
<1>4. OutputCount(price) \in Nat
  BY DEF OutputCount
<1>5. rest \in Nat /\ InputCost * N \in Nat /\ k \in Nat /\ InputCost * k \in Nat
  <2>1. k \in Nat
    BY <1>1, <1>2, PickedUpTo
  <2>2. OutputCost * OutputCount(price) \in Nat
    BY <1>4, ContentConstants
  <2> QED
    BY <1>1, <2>1, <2>2, ContentConstants
<1>6. /\ price + EstimatedFee(N, price) = rest + InputCost * N
      /\ price + EstimatedFee(k, price) = rest + InputCost * k
  <2> DEFINE byOutputs == OutputCost * OutputCount(price)
             all == InputCost * N
             some == InputCost * k
  <2>1. byOutputs \in Nat /\ BaseCost \in Nat /\ all \in Nat /\ some \in Nat
    BY <1>4, <1>5, ContentConstants
  <2>2. /\ EstimatedFee(N, price) = BaseCost + all + byOutputs
        /\ EstimatedFee(k, price) = BaseCost + some + byOutputs
        /\ rest = price + BaseCost + byOutputs
    BY DEF EstimatedFee
  <2> HIDE DEF rest, byOutputs, all, some
  <2>3. /\ price + EstimatedFee(N, price) = rest + all
        /\ price + EstimatedFee(k, price) = rest + some
    BY <2>1, <2>2
  <2> QED
    BY <2>3 DEF all, some
<1>7. ~ SumTo(coins, N) >= price + EstimatedFee(N, price)
  BY SelectedIsNumber DEF Enough
<1>8. SumTo(coins, N) \in Int /\ SumTo(Picked(coins, S), N) \in Int
  <2>1. /\ \A i \in 1 .. N : coins[i] \in Int
        /\ \A i \in 1 .. N : Picked(coins, S)[i] \in Int
    BY <1>1 DEF Picked
  <2>2. \A n \in 0 .. N : SumTo(coins, n) \in Int
    BY <1>1, <2>1, SumsAreInts, Zenon
  <2>3. \A n \in 0 .. N : SumTo(Picked(coins, S), n) \in Int
    BY <1>1, <2>1, SumsAreInts, Zenon
  <2>4. N \in 0 .. N
    BY <1>1
  <2> QED
    BY <2>2, <2>3, <2>4
<1> DEFINE all == InputCost * N
           some == InputCost * k
<1> HIDE DEF rest, all, some
<1>9. SumTo(Picked(coins, S), N) < rest + some
  BY <1>3, <1>5, <1>6, <1>7, <1>8 DEF all, some
<1> QED
  BY <1>6, <1>9 DEF some

-----------------------------------------------------------------------------
(* The transaction that prepare builds *)

\* The outputs of a template, by its change.
Outputs(change) ==
  <<[to |-> order.creator, value |-> order.price - PlatformFee(order.price)]>>
    \o PlatformOutputs(order.price) \o ChangeOutputs(change)

\* The elements of a concatenation of one element and two sequences.
LEMMA OneAndTwo ==
  ASSUME NEW S, NEW a \in S, NEW s \in Seq(S), NEW t \in Seq(S)
  PROVE  /\ <<a>> \o s \o t \in Seq(S)
         /\ DOMAIN (<<a>> \o s \o t) = 1 .. 1 + Len(s) + Len(t)
         /\ (<<a>> \o s \o t)[1] = a
         /\ Len(s) > 0 => (<<a>> \o s \o t)[2] = s[1]
         /\ Len(t) > 0 => (<<a>> \o s \o t)[2 + Len(s)] = t[1]
<1>1. <<a>> \in Seq(S) /\ Len(<<a>>) = 1 /\ <<a>>[1] = a /\ Len(s) \in Nat /\ Len(t) \in Nat
  OBVIOUS
<1> DEFINE one == <<a>>
<1> HIDE DEF one
<1>2. /\ one \o s \in Seq(S) /\ Len(one \o s) = 1 + Len(s)
      /\ \A i \in 1 .. 1 + Len(s) : (one \o s)[i] = IF i <= 1 THEN one[i] ELSE s[i - 1]
  <2>1. one \in Seq(S) /\ Len(one) = 1
    BY <1>1 DEF one
  <2>2. /\ one \o s \in Seq(S) /\ Len(one \o s) = Len(one) + Len(s)
        /\ \A i \in 1 .. Len(one) + Len(s) :
              (one \o s)[i] = IF i <= Len(one) THEN one[i] ELSE s[i - Len(one)]
    BY <2>1, ConcatProperties, Zenon
  <2> QED
    BY <2>1, <2>2
<1> DEFINE two == one \o s
<1> HIDE DEF two
<1>3. /\ two \o t \in Seq(S) /\ Len(two \o t) = 1 + Len(s) + Len(t)
      /\ \A i \in 1 .. 1 + Len(s) + Len(t) :
            (two \o t)[i] = IF i <= 1 + Len(s) THEN two[i] ELSE t[i - (1 + Len(s))]
  <2>1. two \in Seq(S) /\ Len(two) = 1 + Len(s)
    BY <1>2 DEF two
  <2>2. /\ two \o t \in Seq(S) /\ Len(two \o t) = Len(two) + Len(t)
        /\ \A i \in 1 .. Len(two) + Len(t) :
              (two \o t)[i] = IF i <= Len(two) THEN two[i] ELSE t[i - Len(two)]
    BY <2>1, ConcatProperties, Zenon
  <2> QED
    BY <2>1, <2>2
<1>4. (two \o t)[1] = two[1] /\ (Len(s) > 0 => (two \o t)[2] = two[2])
  BY <1>1, <1>3
<1>5. two[1] = one[1] /\ (Len(s) > 0 => two[2] = s[1])
  BY <1>1, <1>2 DEF two
<1>6. Len(t) > 0 => (two \o t)[2 + Len(s)] = t[1]
  <2>1. Len(t) > 0 => /\ 2 + Len(s) \in 1 .. 1 + Len(s) + Len(t)
                      /\ ~ 2 + Len(s) <= 1 + Len(s)
                      /\ (2 + Len(s)) - (1 + Len(s)) = 1
    BY <1>1
  <2> QED
    BY <1>3, <2>1
<1> QED
  BY <1>1, <1>3, <1>4, <1>5, <1>6 DEF one, two

\* The creator's output is there, and the platform's if it has a share; without one only
\* the creator and the buyer are paid.
LEMMA OutputsPay ==
  ASSUME order.price \in Nat, NEW change
  PROVE  /\ \E i \in DOMAIN Outputs(change) :
              Outputs(change)[i] = [to |-> order.creator,
                                    value |-> order.price - PlatformFee(order.price)]
         /\ PlatformFee(order.price) > 0 =>
              \E i \in DOMAIN Outputs(change) :
                Outputs(change)[i] = [to |-> Platform, value |-> PlatformFee(order.price)]
         /\ PlatformFee(order.price) = 0 =>
              \A i \in DOMAIN Outputs(change) :
                Outputs(change)[i].to \in {order.buyer, order.creator}
<1> DEFINE fee == PlatformFee(order.price)
           creator == [to |-> order.creator, value |-> order.price - fee]
           platform == [to |-> Platform, value |-> fee]
           back == [to |-> order.buyer, value |-> change]
           second == IF fee > 0 THEN <<platform>> ELSE << >>
           third == IF change >= ChangeDust THEN <<back>> ELSE << >>
           Paid == IF fee > 0 THEN {creator, platform, back} ELSE {creator, back}
           outputs == <<creator>> \o second \o third
<1>1. creator.to = order.creator /\ back.to = order.buyer /\ fee \in Nat
  BY FeeWithinPrice
<1>2. Outputs(change) = outputs
  BY DEF Outputs, PlatformOutputs, ChangeOutputs
<1>3. creator \in Paid /\ back \in Paid /\ (fee > 0 => platform \in Paid)
  OBVIOUS
<1> HIDE DEF fee, creator, platform, back, Paid
<1>4. /\ second \in Seq(Paid) /\ third \in Seq(Paid)
      /\ fee > 0 => Len(second) = 1 /\ second[1] = platform
      /\ Len(second) \in Nat /\ Len(third) \in Nat
  BY <1>3
<1> HIDE DEF second, third
<1>5. /\ outputs \in Seq(Paid) /\ DOMAIN outputs = 1 .. 1 + Len(second) + Len(third)
      /\ outputs[1] = creator
      /\ Len(second) > 0 => outputs[2] = second[1]
  BY <1>3, <1>4, OneAndTwo
<1> HIDE DEF outputs
<1>6. 1 \in DOMAIN outputs /\ (fee > 0 => 2 \in DOMAIN outputs /\ outputs[2] = platform)
  BY <1>4, <1>5
<1>7. \A i \in DOMAIN outputs : outputs[i] \in Paid
  BY <1>5
<1>8. fee = 0 => \A x \in Paid : x.to \in {order.buyer, order.creator}
  BY <1>1 DEF Paid
<1> QED
  BY <1>2, <1>5, <1>6, <1>7, <1>8 DEF fee, creator, platform

\* The outputs add up to the price and the change, if it is worth an output.
LEMMA OutputsAddUp ==
  ASSUME order.price \in Nat, NEW change \in Int
  PROVE  SumTo([i \in DOMAIN Outputs(change) |-> Outputs(change)[i].value],
               Len(Outputs(change)))
           = order.price + (IF change >= ChangeDust THEN change ELSE 0)
<1> DEFINE fee == PlatformFee(order.price)
           creator == [to |-> order.creator, value |-> order.price - fee]
           platform == [to |-> Platform, value |-> fee]
           back == [to |-> order.buyer, value |-> change]
           second == IF fee > 0 THEN <<platform>> ELSE << >>
           third == IF change >= ChangeDust THEN <<back>> ELSE << >>
           Paid == {creator, platform, back}
           outputs == <<creator>> \o second \o third
           values == [i \in DOMAIN outputs |-> outputs[i].value]
<1>1. /\ creator.value = order.price - fee /\ platform.value = fee /\ back.value = change
      /\ fee \in Nat /\ order.price \in Nat /\ change \in Int
  BY FeeWithinPrice
<1>2. Outputs(change) = outputs
  BY DEF Outputs, PlatformOutputs, ChangeOutputs
<1>3. creator \in Paid /\ back \in Paid /\ platform \in Paid
  OBVIOUS
<1>4. /\ second = IF fee > 0 THEN <<platform>> ELSE << >>
      /\ third = IF change >= ChangeDust THEN <<back>> ELSE << >>
  OBVIOUS
<1> HIDE DEF fee, creator, platform, back, Paid, second, third
<1>5. /\ second \in Seq(Paid) /\ third \in Seq(Paid)
      /\ fee > 0 => Len(second) = 1 /\ second[1] = platform
      /\ ~ fee > 0 => Len(second) = 0
      /\ change >= ChangeDust => Len(third) = 1 /\ third[1] = back
      /\ ~ change >= ChangeDust => Len(third) = 0
  BY <1>3, <1>4
<1>6. /\ outputs \in Seq(Paid) /\ DOMAIN outputs = 1 .. 1 + Len(second) + Len(third)
      /\ outputs[1] = creator
      /\ Len(second) > 0 => outputs[2] = second[1]
      /\ Len(third) > 0 => outputs[2 + Len(second)] = third[1]
  BY <1>3, <1>5, OneAndTwo
<1> HIDE DEF outputs
<1>7. Len(outputs) = 1 + Len(second) + Len(third)
  BY <1>5, <1>6
<1>8. \A i \in DOMAIN outputs : values[i] = outputs[i].value
  OBVIOUS
<1> HIDE DEF values
<1>9. /\ SumTo(values, 0) = 0
      /\ SumTo(values, 1) = SumTo(values, 0) + values[1]
      /\ SumTo(values, 2) = SumTo(values, 1) + values[2]
      /\ SumTo(values, 3) = SumTo(values, 2) + values[3]
  <2>1. 0 + 1 = 1 /\ 1 + 1 = 2 /\ 2 + 1 = 3
    OBVIOUS
  <2>2. /\ SumTo(values, 0) = 0
        /\ SumTo(values, 0 + 1) = SumTo(values, 0) + values[0 + 1]
        /\ SumTo(values, 1 + 1) = SumTo(values, 1) + values[1 + 1]
        /\ SumTo(values, 2 + 1) = SumTo(values, 2) + values[2 + 1]
    BY SumStep
  <2> QED
    BY <2>1, <2>2
<1>10. \A i \in 1 .. 1 + Len(second) + Len(third) : values[i] = outputs[i].value
  BY <1>6, <1>8
<1>11. values[1] = order.price - fee
  BY <1>1, <1>5, <1>6, <1>10
<1>12. fee > 0 => values[2] = fee
  <2>1. fee > 0 => 2 \in 1 .. 1 + Len(second) + Len(third) /\ outputs[2] = platform
    BY <1>5, <1>6
  <2> QED
    BY <1>1, <1>10, <2>1
<1>13. change >= ChangeDust => values[2 + Len(second)] = change
  <2>1. change >= ChangeDust => /\ 2 + Len(second) \in 1 .. 1 + Len(second) + Len(third)
                                /\ outputs[2 + Len(second)] = back
    BY <1>5, <1>6
  <2> QED
    BY <1>1, <1>10, <2>1
<1>14. SumTo(values, Len(outputs)) = order.price + (IF change >= ChangeDust THEN change ELSE 0)
  <2>1. CASE fee > 0 /\ change >= ChangeDust
    <3>1. Len(second) = 1 /\ Len(third) = 1
      BY <1>5, <2>1
    <3>2. Len(outputs) = 3 /\ 2 + Len(second) = 3
      BY <1>7, <3>1
    <3>3. values[2] = fee /\ values[3] = change
      BY <1>12, <1>13, <2>1, <3>2
    <3> QED
      BY <1>1, <1>9, <1>11, <2>1, <3>2, <3>3
  <2>2. CASE fee > 0 /\ ~ change >= ChangeDust
    <3>1. Len(second) = 1 /\ Len(third) = 0
      BY <1>5, <2>2
    <3>2. Len(outputs) = 2
      BY <1>7, <3>1
    <3> QED
      BY <1>1, <1>9, <1>11, <1>12, <2>2, <3>2
  <2>3. CASE ~ fee > 0 /\ change >= ChangeDust
    <3>1. Len(second) = 0 /\ Len(third) = 1
      BY <1>5, <2>3
    <3>2. Len(outputs) = 2 /\ 2 + Len(second) = 2
      BY <1>7, <3>1
    <3>3. values[2] = change
      BY <1>13, <2>3, <3>2
    <3> QED
      BY <1>1, <1>9, <1>11, <2>3, <3>2, <3>3
  <2>4. CASE ~ fee > 0 /\ ~ change >= ChangeDust
    <3>1. Len(outputs) = 1
      BY <1>5, <1>7, <2>4
    <3> QED
      BY <1>1, <1>9, <1>11, <2>4, <3>1
  <2> QED
    BY <2>1, <2>2, <2>3, <2>4
<1> QED
  BY <1>2, <1>14 DEF values

-----------------------------------------------------------------------------
(* The payment *)

\* What prepare makes of the order.
Built == Template(order.coins, Selected(order.coins, order.price), order.price)

\* Prepare refuses when what it selects is not enough, and builds the template otherwise;
\* what was relayed is the prepared transaction but for its signatures.
ContentInv ==
  /\ order.price \in Nat /\ order.coins \in Seq(Nat)
  /\ paying = "refused" => ~ CanPay
  /\ paying \in {"prepared", "signed", "relayed", "accepted"} => CanPay /\ prepared = Built
  /\ paying \in {"relayed", "accepted"} => Same(signed)

LEMMA ContentInitInv == ContentInit => ContentInv
<1> SUFFICES ASSUME ContentInit PROVE ContentInv
  OBVIOUS
<1>1. /\ order \in Orders /\ paying = "new"
  BY DEF ContentInit, ContentStarts
<1>2. /\ order.price \in Price
      /\ order.coins \in UNION {[1 .. n -> Coin] : n \in 0 .. MaxCoins}
  BY <1>1 DEF Orders
<1>3. PICK n \in 0 .. MaxCoins : order.coins \in [1 .. n -> Coin]
  BY <1>2
<1>4. order.coins \in Seq(Nat)
  BY <1>3, ContentConstants
<1> QED
  BY <1>1, <1>2, <1>4, PricesAreAmounts DEF ContentInv

LEMMA ContentNextInv == ContentInv /\ [ContentNext]_contentVars => ContentInv'
<1> SUFFICES ASSUME ContentInv, [ContentNext]_contentVars PROVE ContentInv'
  OBVIOUS
<1>1. order' = order
  BY DEF ContentNext, contentVars, Prepare, PrepareRefuses, WalletSigns, SubmitRelays,
         SubmitRejects, Accepted, VerifyMissing, VerifyAnswers, VerifyAgain
<1>2. Built' = Built /\ CanPay' = CanPay
  BY <1>1 DEF Built, Template, ChangeOutputs, CanPay
<1>3. CASE Prepare
  BY <1>1, <1>2, <1>3 DEF Prepare, Built, ContentInv
<1>4. CASE PrepareRefuses
  BY <1>1, <1>2, <1>4 DEF PrepareRefuses, ContentInv
<1>5. CASE prepared' = prepared /\ ~ Prepare /\ ~ PrepareRefuses
  <2>1. /\ paying' = "refused" => paying = "refused"
        /\ paying' \in {"prepared", "signed", "relayed", "accepted"} =>
             paying \in {"prepared", "signed", "relayed", "accepted"}
        /\ paying' \in {"relayed", "accepted"} =>
             signed' = signed /\ (Same(signed) \/ paying \in {"relayed", "accepted"})
    BY <1>5 DEF ContentNext, contentVars, WalletSigns, SubmitRelays, SubmitRejects, Accepted,
                VerifyMissing, VerifyAnswers, VerifyAgain
  <2>2. paying' \in {"relayed", "accepted"} => Same(signed)'
    BY <1>5, <2>1 DEF ContentInv, Same
  <2> QED
    BY <1>1, <1>2, <1>5, <2>1, <2>2 DEF ContentInv
<1> QED
  BY <1>3, <1>4, <1>5 DEF ContentNext, contentVars, WalletSigns, SubmitRelays, SubmitRejects,
                          Accepted, VerifyMissing, VerifyAnswers, VerifyAgain

\* The change of the template is not negative, and its outputs are those of Outputs.
LEMMA BuiltFields ==
  ASSUME order.price \in Nat, order.coins \in Seq(Nat), CanPay
  PROVE  \E n \in 0 .. Len(order.coins), change \in Nat :
           /\ change = SumTo(order.coins, n) - order.price - EstimatedFee(n, order.price)
           /\ SumTo(order.coins, n) \in Int /\ EstimatedFee(n, order.price) \in Nat
           /\ Built = [from |-> order.buyer, spends |-> SubSeq(order.coins, 1, n),
                       outputs |-> Outputs(change), names |-> "post", complete |-> FALSE]
<1>1. PICK n \in 0 .. Len(order.coins) : n = Selected(order.coins, order.price)
  BY SelectedIsNumber
<1>2. \A i \in 1 .. Len(order.coins) : order.coins[i] \in Int
  OBVIOUS
<1>3. SumTo(order.coins, n) \in Int
  <2>1. Len(order.coins) \in Nat
    OBVIOUS
  <2> QED
    BY <1>2, <2>1, SumsAreInts, Zenon
<1>4. EstimatedFee(n, order.price) \in Nat
  <2>1. InputCost * n \in Nat /\ OutputCost * OutputCount(order.price) \in Nat
    BY ContentConstants DEF OutputCount
  <2> QED
    BY <2>1, ContentConstants DEF EstimatedFee
<1>5. PICK change : change = SumTo(order.coins, n) - order.price - EstimatedFee(n, order.price)
  OBVIOUS
<1>6. SumTo(order.coins, n) >= order.price + EstimatedFee(n, order.price)
  BY <1>1 DEF CanPay, Enough
<1>7. change \in Nat
  BY <1>3, <1>4, <1>5, <1>6
<1>8. Built = [from |-> order.buyer, spends |-> SubSeq(order.coins, 1, n),
               outputs |-> Outputs(change), names |-> "post", complete |-> FALSE]
  BY <1>1, <1>5 DEF Built, Template, Outputs
<1> QED
  BY <1>3, <1>4, <1>5, <1>7, <1>8

-----------------------------------------------------------------------------
(* Theorems *)

\* Every payment that was relayed is recognised by its content, for every price and every
\* rounding of the platform's share.
THEOREM RelayedRecognised == ContentSpec => []RelayedVerifies
<1>1. ContentInv => RelayedVerifies
  <2> SUFFICES ASSUME ContentInv, paying \in {"relayed", "accepted"},
                      PlatformFee(order.price) = 0 =>
                        Platform \notin {order.buyer, order.creator}
               PROVE  PurchaseContent(signed, order.buyer, order.creator, order.price)
    BY DEF RelayedVerifies
  <2>1. PICK n \in 0 .. Len(order.coins), change \in Nat :
          Built = [from |-> order.buyer, spends |-> SubSeq(order.coins, 1, n),
                   outputs |-> Outputs(change), names |-> "post", complete |-> FALSE]
    BY BuiltFields DEF ContentInv
  <2>2. [signed EXCEPT !.complete = FALSE] = Built
    BY DEF ContentInv, Same
  <2>3. /\ signed.from = order.buyer /\ signed.names = "post"
        /\ signed.outputs = Outputs(change)
    BY <2>1, <2>2
  <2>4. order.price \in Nat /\ PlatformFee(order.price) \in Nat
    BY FeeWithinPrice DEF ContentInv
  <2>5. PlatformFee(order.price) = 0 \/ PlatformFee(order.price) > 0
    BY <2>4
  <2>6. Pays(signed, order.creator, order.price - PlatformFee(order.price))
    BY <2>3, <2>4, OutputsPay DEF Pays
  <2>7. PlatformFee(order.price) > 0 =>
          Pays(signed, Platform, PlatformFee(order.price))
    BY <2>3, <2>4, OutputsPay DEF Pays
  <2>8. PlatformFee(order.price) = 0 => ~ PaysAnything(signed, Platform)
    BY <2>3, <2>4, OutputsPay DEF PaysAnything
  <2> QED
    BY <2>3, <2>5, <2>6, <2>7, <2>8 DEF PurchaseContent, NamesNoOther
<1> QED
  BY <1>1, ContentInitInv, ContentNextInv, PTL DEF ContentSpec

\* A prepared transaction keeps the fee of the network and less than the smallest change.
LEMMA KeptIsDust ==
  ASSUME ContentInv, paying = "prepared",
         NEW kept, kept = SumTo(prepared.spends, Len(prepared.spends))
                            - SumTo([i \in DOMAIN prepared.outputs |-> prepared.outputs[i].value],
                                    Len(prepared.outputs))
                            - EstimatedFee(Len(prepared.spends), order.price)
  PROVE  0 <= kept /\ kept < ChangeDust
<1>1. PICK n \in 0 .. Len(order.coins), change \in Nat :
        /\ change = SumTo(order.coins, n) - order.price - EstimatedFee(n, order.price)
        /\ SumTo(order.coins, n) \in Int /\ EstimatedFee(n, order.price) \in Nat
        /\ Built = [from |-> order.buyer, spends |-> SubSeq(order.coins, 1, n),
                    outputs |-> Outputs(change), names |-> "post", complete |-> FALSE]
  BY BuiltFields DEF ContentInv
<1> DEFINE spends == SubSeq(order.coins, 1, n)
           paid == SumTo([i \in DOMAIN Outputs(change) |-> Outputs(change)[i].value],
                         Len(Outputs(change)))
<1>2. prepared.spends = spends /\ prepared.outputs = Outputs(change)
  BY <1>1 DEF ContentInv
<1>3. n \in Nat /\ Len(spends) = n /\ \A i \in 1 .. n : spends[i] = order.coins[i]
  BY DEF ContentInv
<1>4. SumTo(spends, n) = SumTo(order.coins, n)
  <2> HIDE DEF spends
  <2>1. n \in Nat
    BY <1>3
  <2>2. \A i \in 1 .. n : spends[i] = order.coins[i]
    BY <1>3
  <2>3. PICK f, g : f = spends /\ g = order.coins
    OBVIOUS
  <2>4. \A i \in 1 .. n : f[i] = g[i]
    BY <2>2, <2>3
  <2>5. SumTo(f, n) = SumTo(g, n)
    BY <2>1, <2>4, SameSums, Zenon
  <2> QED
    BY <2>3, <2>5
<1>5. paid = order.price + (IF change >= ChangeDust THEN change ELSE 0)
  BY <1>1, OutputsAddUp DEF ContentInv
<1>6. kept = SumTo(order.coins, n) - paid - EstimatedFee(n, order.price)
  <2>1. kept = SumTo(spends, Len(spends)) - paid - EstimatedFee(Len(spends), order.price)
    BY <1>2, Zenon
  <2> QED
    BY <1>3, <1>4, <2>1
<1> HIDE DEF paid
<1>7. PICK total, fee, price :
        /\ total = SumTo(order.coins, n) /\ fee = EstimatedFee(n, order.price)
        /\ price = order.price
  OBVIOUS
<1>8. total \in Int /\ fee \in Nat /\ price \in Nat /\ change = total - price - fee
  BY <1>1, <1>7, Zenon DEF ContentInv
<1>9. kept = total - paid - fee /\ paid = price + (IF change >= ChangeDust THEN change ELSE 0)
  BY <1>5, <1>6, <1>7, Zenon
<1>10. ChangeDust \in Nat \ {0}
  BY ContentConstants
<1>11. CASE change >= ChangeDust
  <2>1. kept = 0
    <3>1. paid = price + change
      BY <1>9, <1>11, Zenon
    <3> QED
      BY <1>8, <1>9, <3>1
  <2> QED
    BY <1>10, <2>1
<1>12. CASE ~ (change >= ChangeDust)
  <2>1. paid = price
    BY <1>8, <1>9, <1>12
  <2>2. kept = change
    BY <1>8, <1>9, <2>1
  <2> QED
    BY <1>10, <1>12, <2>2
<1> QED
  BY <1>11, <1>12

\* For all amounts, a buyer is refused only if no selection of the coins pays, as long as
\* a coin is worth more than the fee for spending it, and no transaction keeps more than
\* the fee of the network and dust.
THEOREM RefusalJustified == ContentSpec => []RefusedOnlyWhenPoor
<1>1. ASSUME ContentInv, paying = "refused",
             \A i \in DOMAIN order.coins : order.coins[i] >= InputCost,
             NEW S \in SUBSET DOMAIN order.coins
      PROVE  SumTo([i \in DOMAIN order.coins |-> IF i \in S THEN order.coins[i] ELSE 0],
                   Len(order.coins))
               < order.price + EstimatedFee(Cardinality(S), order.price)
  <2>1. /\ order.price \in Nat /\ order.coins \in Seq(Nat)
        /\ ~ Enough(order.coins, Selected(order.coins, order.price), order.price)
    BY <1>1 DEF ContentInv, CanPay
  <2>2. SumTo(Picked(order.coins, S), Len(order.coins))
          < order.price + EstimatedFee(Cardinality(S), order.price)
    BY <1>1, <2>1, PoorIsRefused
  <2> QED
    BY <2>2 DEF Picked
<1>2. ContentInv => RefusedOnlyWhenPoor
  BY <1>1, KeptIsDust DEF RefusedOnlyWhenPoor
<1> QED
  BY <1>2, ContentInitInv, ContentNextInv, PTL DEF ContentSpec

-----------------------------------------------------------------------------
(* What parseRange makes of a header *)

\* A range that parseRange finds valid lies within the media.
LEMMA ValidRange ==
  ASSUME NEW header \in Headers, header.kind # "none", NEW size \in 0 .. MaxSize,
         ParseRange(header, size) # Invalid
  PROVE  /\ ParseRange(header, size).start = RangeStart(header, size)
         /\ ParseRange(header, size).end = Cut(RangeEnd(header, size), size)
         /\ header.kind # "malformed"
         /\ ~ RangeStart(header, size) >= size
         /\ ~ RangeEnd(header, size) < RangeStart(header, size)
<1> DEFINE start == RangeStart(header, size)
           last == RangeEnd(header, size)
<1>1. ~ (\/ header.kind = "malformed" \/ ~ IsSafe(start) \/ ~ IsSafe(last)
         \/ start >= size \/ last < start)
  BY DEF ParseRange
<1>2. ParseRange(header, size) = [start |-> start, end |-> Cut(last, size)]
  BY <1>1 DEF ParseRange
<1> QED
  BY <1>1, <1>2

\* What the four kinds of headers are made of.
LEMMA HeaderKinds ==
  ASSUME NEW header \in Headers
  PROVE  /\ header.kind \in {"none", "malformed", "from", "between", "suffix"}
         /\ header.kind \in {"from", "between"} => header.first \in 0 .. MaxPosition
         /\ header.kind = "between" => header.last \in 0 .. MaxPosition
         /\ header.kind = "suffix" => header.count \in 0 .. MaxPosition
  BY DEF Headers

\* The ends of a range are numbers, and it begins with a byte of the media or later.
LEMMA RangeIsNumbers ==
  ASSUME NEW header \in Headers, header.kind \in {"from", "between", "suffix"},
         NEW size \in 0 .. MaxSize
  PROVE  RangeStart(header, size) \in Nat /\ RangeEnd(header, size) \in Int
  BY HeaderKinds, MaxPositionIsNat, SizesAreSafe DEF RangeStart, RangeEnd

\* A valid range is what the header names.
LEMMA ValidIsNamed ==
  ASSUME NEW header \in Headers, header.kind # "none", NEW size \in 0 .. MaxSize,
         ParseRange(header, size) # Invalid
  PROVE  /\ ParseRange(header, size).start \in Nat /\ ParseRange(header, size).end \in Nat
         /\ ParseRange(header, size).start <= ParseRange(header, size).end
         /\ Named(header, size) = ParseRange(header, size).start .. ParseRange(header, size).end
<1>1. header.kind \in {"from", "between", "suffix"}
  BY ValidRange, HeaderKinds
<1> DEFINE start == RangeStart(header, size)
           last == RangeEnd(header, size)
<1>2. /\ ParseRange(header, size).start = start
      /\ ParseRange(header, size).end = Cut(last, size)
      /\ ~ start >= size /\ ~ last < start
  BY ValidRange
<1>3. start \in Nat /\ last \in Int /\ size \in Nat
  BY <1>1, RangeIsNumbers, SizesAreSafe, MaxPositionIsNat
<1>4. Cut(last, size) \in Nat /\ start <= Cut(last, size) /\ Cut(last, size) < size
      /\ \A b \in 0 .. size - 1 : b <= last <=> b <= Cut(last, size)
  <2> HIDE DEF start, last
  <2> QED
    BY <1>2, <1>3 DEF Cut
<1>5. \A b \in 0 .. size - 1 : b \in Named(header, size) <=> start <= b /\ b <= last
  <2>1. CASE header.kind = "from"
    BY <2>1, <1>3, HeaderKinds DEF Named, RangeStart, RangeEnd
  <2>2. CASE header.kind = "between"
    BY <2>2, <1>3, HeaderKinds DEF Named, RangeStart, RangeEnd
  <2>3. CASE header.kind = "suffix"
    BY <2>3, <1>3, HeaderKinds, SizesAreSafe, MaxPositionIsNat DEF Named, RangeStart, RangeEnd
  <2> QED
    BY <1>1, <2>1, <2>2, <2>3
<1>6. \A b \in Named(header, size) : b \in 0 .. size - 1
  BY DEF Named
<1> HIDE DEF start, last
<1>7. \A b \in start .. Cut(last, size) : b \in 0 .. size - 1
  BY <1>3, <1>4
<1>8. \A b : b \in Named(header, size) <=> b \in start .. Cut(last, size)
  BY <1>3, <1>4, <1>5, <1>6, <1>7
<1> QED
  BY <1>2, <1>3, <1>4, <1>8

\* A header that parseRange refuses names no byte, if its last one is a safe integer.
LEMMA InvalidIsEmpty ==
  ASSUME NEW header \in Headers, header.kind # "none", NEW size \in 0 .. MaxSize,
         ~ Overlong(header),
         ParseRange(header, size) = Invalid
  PROVE  Named(header, size) = {}
<1>1. CASE header.kind = "malformed"
  BY <1>1 DEF Named
<1>2. CASE header.kind \in {"from", "between", "suffix"}
  <2> DEFINE start == RangeStart(header, size)
             last == RangeEnd(header, size)
  <2>1. start \in Nat /\ last \in Int /\ size \in Nat
    BY <1>2, RangeIsNumbers, SizesAreSafe, MaxPositionIsNat
  <2>2. start >= size \/ last < start
    <3>1. SUFFICES ASSUME ~ start >= size, ~ last < start PROVE FALSE
      BY <2>1
    <3>2. IsSafe(start) /\ IsSafe(last) /\ header.kind # "malformed"
      <4>1. IsSafe(start)
        BY <2>1, <3>1, SizesAreSafe DEF IsSafe
      <4>2. CASE header.kind = "between"
        BY <4>1, <4>2 DEF RangeEnd, Overlong
      <4>3. CASE header.kind \in {"from", "suffix"}
        BY <2>1, <4>1, <4>3, SizesAreSafe DEF RangeEnd, IsSafe
      <4> QED
        BY <1>2, <4>2, <4>3
    <3>3. ParseRange(header, size) = [start |-> start, end |-> Cut(last, size)]
      BY <3>1, <3>2 DEF ParseRange
    <3>4. Cut(last, size) = -1
      BY <3>3 DEF Invalid
    <3> HIDE DEF start, last
    <3> QED
      BY <2>1, <3>1, <3>4 DEF Cut
  <2>3. \A b \in 0 .. size - 1 : ~ (start <= b /\ b <= last)
    <3> HIDE DEF start, last
    <3> QED
      BY <2>1, <2>2
  <2>4. \A b \in 0 .. size - 1 : b \in Named(header, size) => start <= b /\ b <= last
    <3>1. CASE header.kind = "from"
      BY <3>1, <2>1, HeaderKinds DEF Named, RangeStart, RangeEnd
    <3>2. CASE header.kind = "between"
      BY <3>2, <2>1, HeaderKinds DEF Named, RangeStart, RangeEnd
    <3>3. CASE header.kind = "suffix"
      BY <3>3, <2>1, HeaderKinds, SizesAreSafe, MaxPositionIsNat DEF Named, RangeStart, RangeEnd
    <3> QED
      BY <1>2, <3>1, <3>2, <3>3
  <2>5. \A b \in Named(header, size) : b \in 0 .. size - 1
    BY DEF Named
  <2> QED
    BY <2>3, <2>4, <2>5
<1> QED
  BY <1>1, <1>2, HeaderKinds

\* Without a header the whole media is meant.
LEMMA WholeIsNamed ==
  ASSUME NEW header \in Headers, header.kind = "none", NEW size \in 0 .. MaxSize
  PROVE  Named(header, size) = 0 .. size - 1
  BY DEF Named

-----------------------------------------------------------------------------
(* The handler *)

\* While nothing has been answered nothing is sent; a stream belongs to an answer with a
\* body; and the properties of what is answered hold.
MediaInv ==
  /\ request \in Requests
  /\ sent \in Nat /\ response.length \in Nat
  /\ fetch \in {"row", "range"} => response.status = 0 /\ sent = 0
  /\ fetch = "stream" => response.status \in {200, 206}
  /\ RangeServed

LEMMA MediaInitInv == MediaInit => MediaInv
  BY DEF MediaInit, MediaStarts, NoResponse, MediaInv, RangeServed

\* What a request asks for.
LEMMA Asked ==
  ASSUME request \in Requests
  PROVE  request.header \in Headers /\ request.size \in 0 .. MaxSize /\ request.size \in Nat
  BY SizesAreSafe DEF Requests

\* An answer without a body, before anything is sent.
LEMMA AnswerKeeps ==
  ASSUME MediaInv, sent = 0, UNCHANGED <<request, sent>>, NEW status \in {401, 403, 404, 502, 504},
         Answer(status)
  PROVE  MediaInv'
<1>1. response' = [status |-> status, start |-> 0, end |-> -1, length |-> 0] /\ fetch' = "done"
  BY DEF Answer, NoResponse
<1>2. response'.status = status /\ response'.length = 0
  BY <1>1
<1> QED
  BY <1>1, <1>2 DEF MediaInv, RangeServed

LEMMA ReadRowKeeps == ASSUME MediaInv, ReadRow PROVE MediaInv'
<1>1. CASE \E status \in {401, 403, 404} : Answer(status)
  BY <1>1, AnswerKeeps DEF ReadRow, MediaInv
<1>2. CASE fetch' = "range" /\ UNCHANGED response
  BY <1>2 DEF ReadRow, MediaInv, RangeServed
<1>3. Refusal \in {0, 401, 403}
  BY DEF Refusal
<1> QED
  BY <1>1, <1>2, <1>3 DEF ReadRow

LEMMA RefuseRangeKeeps == ASSUME MediaInv, RefuseRange PROVE MediaInv'
<1>1. /\ response' = [status |-> 416, start |-> 0, end |-> -1, length |-> 0] /\ fetch' = "done"
      /\ UNCHANGED <<request, sent>> /\ sent = 0
  BY DEF RefuseRange, Answer, NoResponse, MediaInv
<1>2. response'.status = 416 /\ response'.length = 0
  BY <1>1
<1>3. Named(request.header, request.size) = {} \/ Overlong(request.header)
  BY Asked, InvalidIsEmpty DEF RefuseRange, Unsatisfiable, Whole, Part, MediaInv
<1> QED
  BY <1>1, <1>2, <1>3 DEF MediaInv, RangeServed

LEMMA FetchObjectKeeps == ASSUME MediaInv, FetchObject PROVE MediaInv'
<1>1. /\ request \in Requests /\ sent = 0 /\ UNCHANGED <<request, sent>>
      /\ fetch' \in {"done", "stream"} /\ (fetch' = "done" => request.method = "HEAD")
  BY DEF FetchObject, MediaInv
<1>2. request.header \in Headers /\ request.size \in 0 .. MaxSize /\ request.size \in Nat
  BY <1>1, Asked
<1>3. CASE Whole
  <2>1. response' = [status |-> 200, start |-> 0, end |-> -1, length |-> request.size]
    BY <1>3 DEF FetchObject
  <2>2. response'.status = 200 /\ response'.length = request.size
    BY <2>1
  <2>3. Named(request.header, request.size) = 0 .. request.size - 1
    BY <1>2, <1>3, WholeIsNamed DEF Whole
  <2>4. Cardinality(0 .. request.size - 1) = request.size
    <3>1. 0 \in Int /\ request.size - 1 \in Int
      BY <1>2
    <3>2. Cardinality(0 .. request.size - 1)
            = IF 0 > request.size - 1 THEN 0 ELSE request.size - 1 - 0 + 1
      BY <3>1, FS_Interval
    <3> QED
      BY <1>2, <3>2
  <2> QED
    BY <1>1, <1>2, <1>3, <2>2, <2>3, <2>4 DEF MediaInv, RangeServed, Whole
<1>4. CASE ~ Whole
  <2>1. response' = [status |-> 206, start |-> Part.start, end |-> Part.end,
                     length |-> Part.end - Part.start + 1]
    BY <1>4 DEF FetchObject
  <2>2. /\ response'.status = 206 /\ response'.length = Part.end - Part.start + 1
        /\ response'.start = Part.start /\ response'.end = Part.end
    BY <2>1
  <2>3. /\ Part.start \in Nat /\ Part.end \in Nat /\ Part.start <= Part.end
        /\ Named(request.header, request.size) = Part.start .. Part.end
    BY <1>2, <1>4, ValidIsNamed DEF FetchObject, Unsatisfiable, Whole, Part
  <2>4. Cardinality(Part.start .. Part.end) = Part.end - Part.start + 1
    <3> DEFINE first == Part.start
               last == Part.end
    <3>1. first \in Int /\ last \in Int /\ first <= last
      BY <2>3
    <3> HIDE DEF first, last
    <3>2. Cardinality(first .. last) = last - first + 1
      BY <3>1, FS_Interval
    <3> QED
      BY <3>2 DEF first, last
  <2>5. response'.length \in Nat /\ sent' <= response'.length
    BY <1>1, <2>2, <2>3
  <2> QED
    BY <1>1, <1>2, <2>2, <2>3, <2>4, <2>5 DEF MediaInv, RangeServed
<1> QED
  BY <1>3, <1>4

\* The body: bytes within what was announced, to the last of them.
LEMMA StreamKeeps == ASSUME MediaInv, Chunk \/ StreamEnds PROVE MediaInv'
<1>1. CASE Chunk
  BY <1>1 DEF Chunk, MediaInv, RangeServed, Whole
<1>2. CASE StreamEnds
  BY <1>2 DEF StreamEnds, MediaInv, RangeServed, Whole
<1> QED
  BY <1>1, <1>2

LEMMA FailureKeeps == ASSUME MediaInv, FetchFails \/ StreamFails PROVE MediaInv'
<1>1. CASE FetchFails
  BY <1>1, AnswerKeeps DEF FetchFails, MediaInv
<1>2. CASE StreamFails
  <2>1. CASE sent = 0 /\ Answer(504)
    BY <1>2, <2>1, AnswerKeeps DEF StreamFails
  <2>2. CASE fetch' = "cut" /\ UNCHANGED response
    BY <1>2, <2>2 DEF StreamFails, MediaInv, RangeServed, Whole
  <2> QED
    BY <1>2, <2>1, <2>2 DEF StreamFails
<1> QED
  BY <1>1, <1>2

LEMMA MediaNextInv == MediaInv /\ [MediaNext]_mediaVars => MediaInv'
<1> SUFFICES ASSUME MediaInv, [MediaNext]_mediaVars PROVE MediaInv'
  OBVIOUS
<1>1. CASE UNCHANGED mediaVars \/ RemoveRow \/ RemoveObject
  BY <1>1 DEF mediaVars, RemoveRow, RemoveObject, MediaInv, RangeServed, Whole
<1> QED
  BY <1>1, ReadRowKeeps, RefuseRangeKeeps, FetchObjectKeeps, StreamKeeps, FailureKeeps
     DEF MediaNext

-----------------------------------------------------------------------------
(* Theorems *)

\* For every header and size, a valid range is exactly the bytes that the header names,
\* and an invalid one names none; but a last byte that is no safe integer is always
\* refused, whatever the header names.
THEOREM ParseRangeExact ==
  ASSUME NEW header \in Headers, header.kind # "none", NEW size \in 0 .. MaxSize
  PROVE  IF Overlong(header)
           THEN ParseRange(header, size) = Invalid
           ELSE Named(header, size) =
                  IF ParseRange(header, size) = Invalid THEN {}
                  ELSE ParseRange(header, size).start .. ParseRange(header, size).end
<1>1. CASE Overlong(header)
  <2>1. ~ IsSafe(RangeEnd(header, size))
    BY <1>1 DEF Overlong, RangeEnd
  <2> QED
    BY <1>1, <2>1 DEF ParseRange
<1>2. CASE ~ Overlong(header)
  BY <1>2, ValidIsNamed, InvalidIsEmpty
<1> QED
  BY <1>1, <1>2

\* Every answer of the media route serves the bytes that were asked for, in full, or
\* breaks the connection.
THEOREM MediaServed == MediaSpec => []RangeServed
<1>1. MediaInv => RangeServed
  BY DEF MediaInv
<1> QED
  BY <1>1, MediaInitInv, MediaNextInv, PTL DEF MediaSpec

=============================================================================

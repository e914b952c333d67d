-------------------------- MODULE DownPaymentProofs --------------------------
(***************************************************************************)
(* The escrow of DownPayment.tla, proved for every set of accounts, every  *)
(* choice of amounts and every fee.                                        *)
(***************************************************************************)
EXTENDS DownPayment, Functions, FiniteSetTheorems, WellFoundedInduction, TLAPS

-----------------------------------------------------------------------------
\* The total of a ledger, for every finite set of holders.

(***************************************************************************)
(* Every non-empty collection of finite subsets of S has a minimal member: *)
(* the first-order form of induction on finite sets, used below instead of *)
(* a theorem with an operator parameter.                                   *)
(***************************************************************************)
LEMMA MinimalSubset ==
  ASSUME NEW S, NEW C, C \subseteq FiniteSubsetsOf(S), C # {}
  PROVE  \E T \in C : \A U \in C : U \subseteq T => U = T
<1>1. IsWellFoundedOn(StrictSubsetOrdering(S), FiniteSubsetsOf(S))
  BY FS_StrictSubsetOrderingWellFounded
<1>2. \E T \in C : \A U \in C : ~ (<<U, T>> \in StrictSubsetOrdering(S))
  BY <1>1, WFMin
<1> QED BY <1>2 DEF StrictSubsetOrdering, FiniteSubsetsOf

(***************************************************************************)
(* The units of one holder.                                                *)
(***************************************************************************)
LEMMA UnitsOfHolder ==
  ASSUME NEW h, NEW n \in Nat
  PROVE  IsFiniteSet({h} \X (1 .. n)) /\ Cardinality({h} \X (1 .. n)) = n
<1>1. IsFiniteSet({h}) /\ Cardinality({h}) = 1
  BY FS_Singleton
<1>2. IsFiniteSet(1 .. n) /\ Cardinality(1 .. n) = n
  BY FS_Interval, 1 \in Int, n \in Int
<1>3. /\ IsFiniteSet({h} \X (1 .. n))
      /\ Cardinality({h} \X (1 .. n)) = Cardinality({h}) * Cardinality(1 .. n)
  BY <1>1, <1>2, FS_Product
<1> QED BY <1>1, <1>2, <1>3

(***************************************************************************)
(* A ledger over finitely many holders has finitely many units.            *)
(***************************************************************************)
LEMMA TotalType ==
  ASSUME NEW D, IsFiniteSet(D), NEW f \in [D -> Nat]
  PROVE  IsFiniteSet(Units(f)) /\ Total(f) \in Nat
<1> DEFINE blocks == { {h} \X (1 .. f[h]) : h \in D }
           block == [h \in D |-> {h} \X (1 .. f[h])]
<1>1. IsFiniteSet(blocks)
  <2>1. block \in [D -> blocks]
    OBVIOUS
  <2>2. \A T \in blocks : \E h \in D : block[h] = T
    OBVIOUS
  <2>3. block \in Surjection(D, blocks)
    <3> HIDE DEF block, blocks
    <3> QED BY <2>1, <2>2 DEF Surjection
  <2> HIDE DEF block, blocks
  <2> QED BY <2>3, FS_Surjection
<1>2. \A T \in blocks : IsFiniteSet(T)
  <2> SUFFICES ASSUME NEW h \in D PROVE IsFiniteSet({h} \X (1 .. f[h]))
    OBVIOUS
  <2>1. f[h] \in Nat
    OBVIOUS
  <2> QED BY <2>1, UnitsOfHolder
<1>3. IsFiniteSet(UNION blocks)
  <2> HIDE DEF blocks
  <2> QED BY <1>1, <1>2, FS_UNION
<1>4. Units(f) = UNION blocks
  BY DEF Units
<1> QED BY <1>3, <1>4, FS_CardinalityType DEF Total

(***************************************************************************)
(* Changing the amount of one holder changes the total by the difference.  *)
(***************************************************************************)
LEMMA TotalUpdate ==
  ASSUME NEW D, IsFiniteSet(D), NEW f \in [D -> Nat], NEW g \in [D -> Nat],
         NEW h \in D, \A k \in D : k # h => g[k] = f[k]
  PROVE  Total(g) = Total(f) - f[h] + g[h]
<1> DEFINE before == {h} \X (1 .. f[h])
           after == {h} \X (1 .. g[h])
           rest == Units(f) \ before
<1>1. IsFiniteSet(Units(f)) /\ Cardinality(Units(f)) \in Nat
  BY TotalType DEF Total
<1>2. /\ IsFiniteSet(before) /\ Cardinality(before) = f[h]
      /\ IsFiniteSet(after) /\ Cardinality(after) = g[h]
  BY UnitsOfHolder
<1>3. before \subseteq Units(f)
  BY DEF Units
<1>4. /\ IsFiniteSet(rest)
      /\ Cardinality(rest) = Cardinality(Units(f)) - f[h]
  <2>1. Units(f) \cap before = before
    BY <1>3
  <2> HIDE DEF before
  <2>2. /\ IsFiniteSet(Units(f) \ before)
        /\ Cardinality(Units(f) \ before)
             = Cardinality(Units(f)) - Cardinality(Units(f) \cap before)
    BY <1>1, FS_Difference
  <2> QED BY <1>2, <2>1, <2>2
<1>5. Units(g) = rest \cup after
  BY DEF Units
<1>6. rest \cap after = {}
  <2> SUFFICES ASSUME NEW u \in Units(f), u \notin before, u \in after PROVE FALSE
    OBVIOUS
  <2>1. PICK k \in D : u \in {k} \X (1 .. f[k])
    BY DEF Units
  <2>2. k = h
    BY <2>1
  <2> QED BY <2>1, <2>2
<1>7. Cardinality(rest \cup after) = Cardinality(rest) + Cardinality(after)
  <2> HIDE DEF rest, after
  <2>1. Cardinality(rest \cup after)
          = Cardinality(rest) + Cardinality(after) - Cardinality(rest \cap after)
    BY <1>2, <1>4, FS_Union
  <2>2. Cardinality(rest \cap after) = 0
    BY <1>6, FS_EmptySet
  <2>3. Cardinality(rest) \in Nat /\ Cardinality(after) \in Nat
    BY <1>2, <1>4, FS_CardinalityType
  <2> QED BY <2>1, <2>2, <2>3
<1> HIDE DEF rest, after, before
<1> QED BY <1>1, <1>2, <1>4, <1>5, <1>7 DEF Total

(***************************************************************************)
(* The ledger of nothing has total 0.                                      *)
(***************************************************************************)
LEMMA TotalOfNothing ==
  ASSUME NEW D
  PROVE  Total([h \in D |-> 0]) = 0
<1>1. Units([h \in D |-> 0]) = {}
  BY DEF Units
<1> QED BY <1>1, FS_EmptySet DEF Total

(***************************************************************************)
(* A ledger that is below another one holder by holder has a smaller total.*)
(***************************************************************************)
LEMMA TotalMonotone ==
  ASSUME NEW D, IsFiniteSet(D), NEW f \in [D -> Nat], NEW g \in [D -> Nat],
         \A h \in D : f[h] <= g[h]
  PROVE  Total(f) <= Total(g)
<1>1. Units(f) \subseteq Units(g)
  <2> SUFFICES ASSUME NEW h \in D, NEW u \in {h} \X (1 .. f[h])
               PROVE  u \in {h} \X (1 .. g[h])
    BY DEF Units
  <2> QED OBVIOUS
<1> QED BY <1>1, TotalType, FS_Subset DEF Total

(***************************************************************************)
(* The total of the sum of two ledgers is the sum of their totals.  The    *)
(* proof adds the amounts of g one holder at a time: Bad collects the sets *)
(* of holders for which the claim would fail, and has no minimal member.   *)
(***************************************************************************)
LEMMA TotalSum ==
  ASSUME NEW D, IsFiniteSet(D), NEW f \in [D -> Nat], NEW g \in [D -> Nat]
  PROVE  Total([h \in D |-> f[h] + g[h]]) = Total(f) + Total(g)
<1> DEFINE cut(S) == [h \in D |-> IF h \in S THEN g[h] ELSE 0]
           sum(S) == [h \in D |-> f[h] + cut(S)[h]]
           Good(S) == Total(sum(S)) = Total(f) + Total(cut(S))
           Bad == {S \in SUBSET D : ~ Good(S)}
<1>1. ASSUME NEW S \in SUBSET D
      PROVE  cut(S) \in [D -> Nat] /\ sum(S) \in [D -> Nat]
  OBVIOUS
<1>2. Good({})
  <2>1. cut({}) = [h \in D |-> 0] /\ sum({}) = f
    OBVIOUS
  <2>2. Total(f) \in Nat
    BY TotalType
  <2> HIDE DEF cut, sum
  <2> QED BY <2>1, <2>2, TotalOfNothing
<1>3. ASSUME NEW S \in SUBSET D, NEW x \in S, Good(S \ {x})
      PROVE  Good(S)
  <2> DEFINE R == S \ {x}
  <2>2. R \in SUBSET D /\ x \in D
    OBVIOUS
  <2>1. /\ cut(R)[x] = 0 /\ cut(S)[x] = g[x]
        /\ sum(R)[x] = f[x] /\ sum(S)[x] = f[x] + g[x]
    OBVIOUS
  <2>6. \A k \in D : k # x => cut(S)[k] = cut(R)[k] /\ sum(S)[k] = sum(R)[k]
    OBVIOUS
  <2>3. /\ cut(R) \in [D -> Nat] /\ sum(R) \in [D -> Nat]
        /\ cut(S) \in [D -> Nat] /\ sum(S) \in [D -> Nat]
    BY <2>2, <1>1
  <2>4. f[x] \in Nat /\ g[x] \in Nat
    OBVIOUS
  <2>5. Total(cut(R)) \in Nat /\ Total(sum(R)) \in Nat /\ Total(f) \in Nat
    <3> HIDE DEF cut, sum
    <3> QED BY <2>3, TotalType
  <2> HIDE DEF cut, sum, R
  <2>7. Total(cut(S)) = Total(cut(R)) - cut(R)[x] + cut(S)[x]
    BY <2>2, <2>3, <2>6, TotalUpdate
  <2>9. Total(sum(S)) = Total(sum(R)) - sum(R)[x] + sum(S)[x]
    BY <2>2, <2>3, <2>6, TotalUpdate
  <2>10. Total(sum(R)) = Total(f) + Total(cut(R))
    BY <1>3 DEF R
  <2> QED BY <2>1, <2>4, <2>5, <2>7, <2>9, <2>10
<1>4. Bad = {}
  <2> SUFFICES ASSUME Bad # {} PROVE FALSE
    OBVIOUS
  <2>1. Bad \subseteq FiniteSubsetsOf(D)
    <3> HIDE DEF Good
    <3>1. \A S \in SUBSET D : IsFiniteSet(S)
      BY FS_Subset
    <3> QED BY <3>1 DEF FiniteSubsetsOf
  <2>2. PICK S \in Bad : \A U \in Bad : U \subseteq S => U = S
    <3> HIDE DEF Bad
    <3> QED BY <2>1, MinimalSubset
  <2>3. S \in SUBSET D /\ ~ Good(S)
    BY <2>2
  <2> HIDE DEF Good
  <2>4. PICK x \in S : TRUE
    BY <2>3, <1>2
  <2>5. Good(S \ {x})
    <3> SUFFICES ASSUME ~ Good(S \ {x}) PROVE FALSE
      OBVIOUS
    <3>1. S \ {x} \in Bad
      BY <2>3
    <3> QED BY <3>1, <2>2, <2>4
  <2> QED BY <2>3, <2>4, <2>5, <1>3
<1>5. Good(D)
  <2> HIDE DEF Good
  <2> QED BY <1>4
<1>6. cut(D) = g /\ sum(D) = [h \in D |-> f[h] + g[h]]
  OBVIOUS
<1> HIDE DEF cut, sum
<1> QED BY <1>5, <1>6

(***************************************************************************)
(* Multiplying every amount by c multiplies the total by c; by the same    *)
(* induction as the lemma above.                                           *)
(***************************************************************************)
LEMMA TotalScaled ==
  ASSUME NEW D, IsFiniteSet(D), NEW g \in [D -> Nat], NEW c \in Nat
  PROVE  Total([h \in D |-> c * g[h]]) = c * Total(g)
<1> DEFINE cut(S) == [h \in D |-> IF h \in S THEN g[h] ELSE 0]
           scaled(S) == [h \in D |-> IF h \in S THEN c * g[h] ELSE 0]
           Good(S) == Total(scaled(S)) = c * Total(cut(S))
           Bad == {S \in SUBSET D : ~ Good(S)}
<1>0. \A n \in Nat : c * n \in Nat
  OBVIOUS
<1>1. ASSUME NEW S \in SUBSET D
      PROVE  cut(S) \in [D -> Nat] /\ scaled(S) \in [D -> Nat]
  BY <1>0
<1>2. Good({})
  <2>1. cut({}) = [h \in D |-> 0] /\ scaled({}) = [h \in D |-> 0]
    OBVIOUS
  <2>2. c * 0 = 0
    OBVIOUS
  <2> HIDE DEF cut, scaled
  <2> QED BY <2>1, <2>2, TotalOfNothing
<1>3. ASSUME NEW S \in SUBSET D, NEW x \in S, Good(S \ {x})
      PROVE  Good(S)
  <2> DEFINE R == S \ {x}
  <2>2. R \in SUBSET D /\ x \in D
    OBVIOUS
  <2>1. /\ cut(R)[x] = 0 /\ cut(S)[x] = g[x]
        /\ scaled(R)[x] = 0 /\ scaled(S)[x] = c * g[x]
    OBVIOUS
  <2>6. \A k \in D : k # x => cut(S)[k] = cut(R)[k] /\ scaled(S)[k] = scaled(R)[k]
    OBVIOUS
  <2>3. /\ cut(R) \in [D -> Nat] /\ scaled(R) \in [D -> Nat]
        /\ cut(S) \in [D -> Nat] /\ scaled(S) \in [D -> Nat]
    BY <2>2, <1>1
  <2>4. g[x] \in Nat /\ c * g[x] \in Nat
    BY <1>0
  <2>5. Total(cut(R)) \in Nat /\ Total(scaled(R)) \in Nat
    <3> HIDE DEF cut, scaled
    <3> QED BY <2>3, TotalType
  <2> HIDE DEF cut, scaled, R
  <2>7. Total(cut(S)) = Total(cut(R)) + g[x]
    <3>1. Total(cut(S)) = Total(cut(R)) - cut(R)[x] + cut(S)[x]
      BY <2>2, <2>3, <2>6, TotalUpdate
    <3> QED BY <3>1, <2>1, <2>4, <2>5
  <2>8. Total(scaled(S)) = Total(scaled(R)) + c * g[x]
    <3>1. Total(scaled(S)) = Total(scaled(R)) - scaled(R)[x] + scaled(S)[x]
      BY <2>2, <2>3, <2>6, TotalUpdate
    <3> QED BY <3>1, <2>1, <2>4, <2>5
  <2>9. Total(scaled(R)) = c * Total(cut(R))
    BY <1>3 DEF R
  <2>10. \A m, n \in Nat : c * (m + n) = c * m + c * n
    OBVIOUS
  <2> QED BY <2>4, <2>5, <2>7, <2>8, <2>9, <2>10
<1>4. Bad = {}
  <2> SUFFICES ASSUME Bad # {} PROVE FALSE
    OBVIOUS
  <2>1. Bad \subseteq FiniteSubsetsOf(D)
    <3> HIDE DEF Good
    <3>1. \A S \in SUBSET D : IsFiniteSet(S)
      BY FS_Subset
    <3> QED BY <3>1 DEF FiniteSubsetsOf
  <2>2. PICK S \in Bad : \A U \in Bad : U \subseteq S => U = S
    <3> HIDE DEF Bad
    <3> QED BY <2>1, MinimalSubset
  <2>3. S \in SUBSET D /\ ~ Good(S)
    BY <2>2
  <2> HIDE DEF Good
  <2>4. PICK x \in S : TRUE
    BY <2>3, <1>2
  <2>5. Good(S \ {x})
    <3> SUFFICES ASSUME ~ Good(S \ {x}) PROVE FALSE
      OBVIOUS
    <3>1. S \ {x} \in Bad
      BY <2>3
    <3> QED BY <3>1, <2>2, <2>4
  <2> QED BY <2>3, <2>4, <2>5, <1>3
<1>5. Good(D)
  <2> HIDE DEF Good
  <2> QED BY <1>4
<1>6. cut(D) = g /\ scaled(D) = [h \in D |-> c * g[h]]
  OBVIOUS
<1> HIDE DEF cut, scaled
<1> QED BY <1>5, <1>6

(***************************************************************************)
(* A credit raises the total by its amount.                                *)
(***************************************************************************)
LEMMA TotalCredit ==
  ASSUME NEW D, IsFiniteSet(D), NEW f \in [D -> Nat], NEW h \in D, NEW amount \in Nat,
         NEW g, g = Credit(f, h, amount)
  PROVE  g \in [D -> Nat] /\ Total(g) = Total(f) + amount
<1>1. g \in [D -> Nat] /\ g[h] = f[h] + amount /\ \A k \in D : k # h => g[k] = f[k]
  BY DEF Credit
<1>2. Total(g) = Total(f) - f[h] + g[h]
  BY <1>1, TotalUpdate
<1>3. Total(f) \in Nat /\ f[h] \in Nat
  BY TotalType
<1> QED BY <1>1, <1>2, <1>3

(***************************************************************************)
(* A debit the holder can afford lowers the total by its amount.           *)
(***************************************************************************)
LEMMA TotalDebit ==
  ASSUME NEW D, IsFiniteSet(D), NEW f \in [D -> Nat], NEW h \in D, NEW amount \in Nat,
         amount <= f[h], NEW g, g = Debit(f, h, amount)
  PROVE  g \in [D -> Nat] /\ Total(g) = Total(f) - amount
<1>1. g \in [D -> Nat] /\ g[h] = f[h] - amount /\ \A k \in D : k # h => g[k] = f[k]
  BY DEF Debit
<1>2. Total(g) = Total(f) - f[h] + g[h]
  BY <1>1, TotalUpdate
<1>3. Total(f) \in Nat /\ f[h] \in Nat
  BY TotalType
<1> QED BY <1>1, <1>2, <1>3

(***************************************************************************)
(* No amount exceeds the total.                                            *)
(***************************************************************************)
LEMMA AmountWithinTotal ==
  ASSUME NEW D, IsFiniteSet(D), NEW f \in [D -> Nat], NEW h \in D
  PROVE  f[h] <= Total(f)
<1>1. f[h] \in Nat
  OBVIOUS
<1>2. {h} \X (1 .. f[h]) \subseteq Units(f)
  BY DEF Units
<1>3. Cardinality({h} \X (1 .. f[h])) = f[h]
  BY <1>1, UnitsOfHolder
<1> QED BY <1>2, <1>3, TotalType, FS_Subset DEF Total

-----------------------------------------------------------------------------
\* Arithmetic of the rounded shares.

\* Rounded down, a share taken as often as it was cut is at most the whole.
LEMMA Division ==
  ASSUME NEW n \in Nat, NEW d \in Nat \ {0}
  PROVE  n \div d \in Nat /\ d * (n \div d) <= n
OBVIOUS

\* A product of natural numbers is one.
LEMMA Product ==
  ASSUME NEW m \in Nat, NEW n \in Nat
  PROVE  m * n \in Nat
OBVIOUS

\* A larger factor gives a product that is no smaller.
LEMMA ProductMonotone ==
  ASSUME NEW m \in Nat, NEW n \in Nat, NEW k \in Nat, m <= n
  PROVE  k * m <= k * n /\ m * k <= n * k
OBVIOUS

(***************************************************************************)
(* Fees never exceed the amount they are taken from.                       *)
(***************************************************************************)
LEMMA FeesWithinAmount ==
  ASSUME baseFee \in Nat, percentageFee \in 0 .. 100, NEW amount \in Nat
  PROVE  GetFees(amount) \in Nat /\ GetFees(amount) <= amount
<1> DEFINE base == IF amount > baseFee THEN baseFee ELSE amount
           rest == amount - base
           expected == (rest * percentageFee) \div 100
<1>1. base \in Nat /\ rest \in Nat /\ base + rest = amount
  OBVIOUS
<1> HIDE DEF rest, base
<1>2. rest * percentageFee \in Nat
  BY <1>1, Product
<1>3. expected \in Nat
  BY <1>2
<1> HIDE DEF expected
<1> QED BY <1>1, <1>3 DEF GetFees, base, rest, expected

(***************************************************************************)
(* The percentage of a payer is at most 100, and rounded down.             *)
(***************************************************************************)
LEMMA ProportionBound ==
  ASSUME TypeOK, BooksBalance,
         totalDepositedAmount # 0, NEW a \in Accounts
  PROVE  /\ Proportion(a) \in Nat /\ Proportion(a) <= 100
         /\ totalDepositedAmount * Proportion(a) <= depositedAmount[a] * 100
<1> DEFINE t == totalDepositedAmount
           d == depositedAmount[a]
           p == (d * 100) \div t
<1>1. t \in Nat \ {0} /\ d \in Nat
  BY DEF TypeOK
<1>2. d <= t
  BY AmountWithinTotal, AccountsAssumption DEF TypeOK, BooksBalance
<1>3. p \in Nat /\ t * p <= d * 100
  <2> HIDE DEF t, d
  <2>1. d * 100 \in Nat
    BY <1>1
  <2> QED BY <1>1, <2>1, Division
<1>4. p <= 100
  <2> HIDE DEF t, d, p
  <2> SUFFICES ASSUME p >= 101 PROVE FALSE
    BY <1>3
  <2>1. t * 101 <= t * p
    BY <1>1, <1>3, ProductMonotone
  <2> QED BY <1>1, <1>2, <1>3, <2>1
<1> QED BY <1>3, <1>4 DEF Proportion

(***************************************************************************)
(* A share of n by a percentage of at most 100 is at most n.               *)
(***************************************************************************)
LEMMA ShareBound ==
  ASSUME NEW n \in Nat, NEW p \in Nat, p <= 100
  PROVE  /\ (n * p) \div 100 \in Nat
         /\ (n * p) \div 100 <= n
         /\ 100 * ((n * p) \div 100) <= n * p
<1>1. n * p \in Nat
  BY Product
<1>2. n * p <= n * 100
  BY ProductMonotone
<1> HIDE DEF Product
<1> QED BY <1>1, <1>2

(***************************************************************************)
(* What a payer may withdraw fits in the free balance and in its account.  *)
(***************************************************************************)
LEMMA WithdrawableBound ==
  ASSUME TypeOK, Solvent, BooksBalance, NEW a \in Accounts
  PROVE  /\ GetWithdrawableAmount(a) \in Nat
         /\ GetWithdrawableAmount(a) <= GetBalance - lockedAmount
         /\ GetWithdrawableAmount(a) <= depositedAmount[a]
<1> DEFINE t == totalDepositedAmount
           d == depositedAmount[a]
           free == GetBalance - lockedAmount
           p == Proportion(a)
           w == (free * p) \div 100
<1>1. t \in Nat /\ d \in Nat /\ free \in Nat /\ free <= t
  BY DEF TypeOK, Solvent, GetBalance
<1>2. CASE free = 0
  BY <1>1, <1>2 DEF GetWithdrawableAmount
<1>3. CASE free # 0
  <2>1. t # 0
    BY <1>1, <1>3
  <2>2. p \in Nat /\ p <= 100 /\ t * p <= d * 100
    BY <2>1, ProportionBound
  <2> HIDE DEF t, d, free, p
  <2>3. w \in Nat /\ w <= free /\ 100 * w <= free * p
    BY <1>1, <2>2, ShareBound
  <2>4. free * p <= t * p
    BY <1>1, <2>2, ProductMonotone
  <2>5. free * p \in Nat /\ t * p \in Nat
    BY <1>1, <2>2, Product
  <2>6. w <= d
    <3> HIDE DEF w
    <3> QED BY <1>1, <2>2, <2>3, <2>4, <2>5
  <2> HIDE DEF w
  <2>7. GetWithdrawableAmount(a) = w
    BY <1>3 DEF GetWithdrawableAmount, w, free, p
  <2> QED BY <2>3, <2>6, <2>7 DEF free, d
<1> QED BY <1>2, <1>3

-----------------------------------------------------------------------------
\* The array of payers and the loop over it.

(***************************************************************************)
(* An account occurs in the array once if it has a deposit, else never.    *)
(***************************************************************************)
LEMMA OccurrencesOfPayer ==
  ASSUME TypeOK, PayersAreDepositors, NEW a \in Accounts
  PROVE  Occurrences(a) = IF depositedAmount[a] > 0 THEN 1 ELSE 0
<1> DEFINE places == {i \in DOMAIN payers : payers[i] = a}
<1>1. CASE depositedAmount[a] > 0
  <2>1. PICK i \in DOMAIN payers : payers[i] = a
    BY <1>1 DEF PayersAreDepositors
  <2>2. places = {i}
    BY <2>1 DEF PayersAreDepositors
  <2> QED BY <1>1, <2>2, FS_Singleton DEF Occurrences
<1>2. CASE ~ (depositedAmount[a] > 0)
  <2>1. places = {}
    BY <1>2 DEF PayersAreDepositors
  <2> QED BY <1>2, <2>1, FS_EmptySet DEF Occurrences
<1> QED BY <1>1, <1>2

(***************************************************************************)
(* A refundable amount, scaled by the deposits, is within the share of the *)
(* request that the account of the payer stands for.                       *)
(***************************************************************************)
LEMMA RefundableBound ==
  ASSUME TypeOK, BooksBalance,
         NEW amount \in Nat, NEW a \in Accounts
  PROVE  /\ GetRefundableAmount(amount, a) \in Nat
         /\ totalDepositedAmount * GetRefundableAmount(amount, a)
              <= amount * depositedAmount[a]
<1> DEFINE t == totalDepositedAmount
           d == depositedAmount[a]
           p == Proportion(a)
           r == (amount * p) \div 100
<1>1. t \in Nat /\ d \in Nat
  BY DEF TypeOK
<1>2. CASE amount = 0 \/ t = 0
  <2>1. GetRefundableAmount(amount, a) = 0
    BY <1>2 DEF GetRefundableAmount
  <2>2. t * 0 = 0 /\ amount * d \in Nat
    BY <1>1, Product
  <2> QED BY <2>1, <2>2
<1>3. CASE ~ (amount = 0 \/ t = 0)
  <2>1. p \in Nat /\ p <= 100 /\ t * p <= d * 100
    BY <1>3, ProportionBound
  <2>2. GetRefundableAmount(amount, a) = r
    BY <1>3 DEF GetRefundableAmount
  <2> HIDE DEF t, d, p
  <2>3. r \in Nat /\ 100 * r <= amount * p
    BY <2>1, ShareBound
  <2> HIDE DEF r
  <2>4. amount * p \in Nat /\ t * p \in Nat /\ d * 100 \in Nat /\ 100 * r \in Nat
    BY <1>1, <2>1, <2>3, Product
  <2>5. t * (100 * r) <= t * (amount * p)
    BY <1>1, <2>3, <2>4, ProductMonotone
  <2>6. amount * (t * p) <= amount * (d * 100)
    BY <2>1, <2>4, ProductMonotone
  <2>7. \A i, j, k \in Nat : i * (j * k) = j * (i * k)
    OBVIOUS
  <2>8. /\ t * (amount * p) = amount * (t * p)
        /\ t * (100 * r) = 100 * (t * r)
        /\ amount * (d * 100) = 100 * (amount * d)
    BY <1>1, <2>1, <2>3, <2>7
  <2>9. t * r \in Nat /\ amount * d \in Nat
    BY <1>1, <2>3, Product
  <2>10. t * r <= amount * d
    BY <2>4, <2>5, <2>6, <2>8, <2>9
  <2> QED BY <2>2, <2>3, <2>10 DEF t, d
<1> QED BY <1>2, <1>3

(***************************************************************************)
(* Each share and the fees on it are amounts, fees within the share.       *)
(***************************************************************************)
LEMMA RefundTypes ==
  ASSUME TypeOK, BooksBalance, PayersAreDepositors,
         NEW amount \in Nat
  PROVE  /\ RefundShare(amount) \in [Accounts -> Nat]
         /\ RefundFees(amount) \in [Accounts -> Nat]
         /\ \A a \in Accounts : /\ RefundFees(amount)[a] <= RefundShare(amount)[a]
                                /\ RefundShare(amount)[a] <= GetRefundableAmount(amount, a)
<1> SUFFICES ASSUME NEW a \in Accounts
             PROVE  LET n == Occurrences(a)
                        r == GetRefundableAmount(amount, a)
                    IN  /\ n * r \in Nat /\ n * GetFees(r) \in Nat
                        /\ n * GetFees(r) <= n * r /\ n * r <= r
  BY DEF RefundShare, RefundFees
<1>1. GetRefundableAmount(amount, a) \in Nat
  BY RefundableBound
<1>2. /\ GetFees(GetRefundableAmount(amount, a)) \in Nat
      /\ GetFees(GetRefundableAmount(amount, a)) <= GetRefundableAmount(amount, a)
  BY <1>1, FeesWithinAmount DEF TypeOK
<1>3. Occurrences(a) \in {0, 1}
  BY OccurrencesOfPayer
<1> QED BY <1>1, <1>2, <1>3

(***************************************************************************)
(* The shares of a refund add up to at most the amount requested.          *)
(***************************************************************************)
LEMMA RefundTotalBound ==
  ASSUME TypeOK, BooksBalance, PayersAreDepositors,
         NEW amount \in Nat
  PROVE  Total(RefundShare(amount)) \in Nat /\ Total(RefundShare(amount)) <= amount
<1> DEFINE t == totalDepositedAmount
           share == RefundShare(amount)
<1>1. share \in [Accounts -> Nat] /\ t \in Nat /\ IsFiniteSet(Accounts)
  BY RefundTypes, AccountsAssumption DEF TypeOK
<1>2. Total(share) \in Nat
  <2> HIDE DEF share
  <2> QED BY <1>1, TotalType
<1>3. CASE t = 0
  <2>1. \A a \in Accounts : GetRefundableAmount(amount, a) = 0
    BY <1>3 DEF GetRefundableAmount
  <2>2. \A a \in Accounts : share[a] = 0
    <3> SUFFICES ASSUME NEW a \in Accounts PROVE share[a] = 0
      OBVIOUS
    <3>1. share[a] <= GetRefundableAmount(amount, a) /\ share[a] \in Nat
      BY RefundTypes
    <3> QED BY <2>1, <3>1
  <2>3. share = [a \in Accounts |-> 0]
    <3> HIDE DEF share
    <3> QED BY <1>1, <2>2
  <2> QED BY <2>3, TotalOfNothing
<1>4. CASE t # 0
  <2> DEFINE scaledShare == [a \in Accounts |-> t * share[a]]
             scaledDeposit == [a \in Accounts |-> amount * depositedAmount[a]]
  <2>1. scaledShare \in [Accounts -> Nat] /\ scaledDeposit \in [Accounts -> Nat]
    <3>1. \A a \in Accounts : share[a] \in Nat /\ depositedAmount[a] \in Nat
      BY <1>1 DEF TypeOK
    <3> HIDE DEF share, t
    <3>2. \A a \in Accounts : t * share[a] \in Nat /\ amount * depositedAmount[a] \in Nat
      BY <1>1, <3>1, Product
    <3> QED BY <3>2
  <2>2. \A a \in Accounts : scaledShare[a] <= scaledDeposit[a]
    <3> SUFFICES ASSUME NEW a \in Accounts
                 PROVE  t * share[a] <= amount * depositedAmount[a]
      OBVIOUS
    <3> DEFINE r == GetRefundableAmount(amount, a)
    <3>1. r \in Nat /\ t * r <= amount * depositedAmount[a]
      BY RefundableBound
    <3>2. share[a] \in Nat /\ share[a] <= r
      BY RefundTypes
    <3>3. amount * depositedAmount[a] \in Nat
      BY Product DEF TypeOK
    <3> HIDE DEF share, t, r
    <3>4. t * share[a] <= t * r
      BY <1>1, <3>1, <3>2, ProductMonotone
    <3>5. t * share[a] \in Nat /\ t * r \in Nat
      BY <1>1, <3>1, <3>2, Product
    <3> QED BY <3>1, <3>3, <3>4, <3>5
  <2>3. Total(scaledShare) <= Total(scaledDeposit)
    <3> HIDE DEF scaledShare, scaledDeposit
    <3> QED BY <1>1, <2>1, <2>2, TotalMonotone
  <2>4. Total(scaledShare) = t * Total(share)
    <3> HIDE DEF share, t
    <3> QED BY <1>1, TotalScaled
  <2>5. Total(scaledDeposit) = amount * t
    <3>1. depositedAmount \in [Accounts -> Nat] /\ Total(depositedAmount) = t
      BY DEF TypeOK, BooksBalance
    <3> HIDE DEF t
    <3> QED BY <1>1, <3>1, TotalScaled
  <2>6. t * Total(share) <= amount * t
    BY <2>3, <2>4, <2>5
  <2> HIDE DEF t, share
  <2>7. Total(share) <= amount
    <3> SUFFICES ASSUME Total(share) >= amount + 1 PROVE FALSE
      BY <1>2
    <3>1. t * (amount + 1) <= t * Total(share)
      BY <1>1, <1>2, ProductMonotone
    <3>2. t * (amount + 1) = amount * t + t
      BY <1>1
    <3>3. amount * t \in Nat /\ t * Total(share) \in Nat
      BY <1>1, <1>2, Product
    <3> QED BY <1>1, <1>4, <2>6, <3>1, <3>2, <3>3
  <2> QED BY <2>7, <1>2 DEF share
<1> QED BY <1>2, <1>3, <1>4

-----------------------------------------------------------------------------
(***************************************************************************)
(* The inductive invariant.  Solvent alone is not inductive: a withdrawal  *)
(* keeps it only because an offer fits in the free balance, which needs    *)
(* the percentages to be at most 100, hence the books to balance; a refund *)
(* keeps it only because the array of payers lists each depositor once.    *)
(***************************************************************************)
IInv == TypeOK /\ Solvent /\ PayersAreDepositors /\ BooksBalance /\ TokensConserved

(***************************************************************************)
(* The contract starts empty, with no payer and every token outside it.    *)
(***************************************************************************)
LEMMA InitIInv ==
  ASSUME Init
  PROVE  IInv
<1>1. TypeOK
  BY AccountsAssumption, AmountsAssumption DEF Init, TypeOK
<1>2. Solvent
  BY DEF Init, Solvent, GetBalance
<1>3. PayersAreDepositors
  BY DEF Init, PayersAreDepositors
<1>4. BooksBalance
  BY TotalOfNothing DEF Init, BooksBalance
<1>5. TokensConserved
  <2>1. Total(InitialBalance) \in Nat
    BY TotalType, AccountsAssumption, AmountsAssumption
  <2> QED BY <2>1 DEF Init, TokensConserved
<1> QED BY <1>1, <1>2, <1>3, <1>4, <1>5 DEF IInv

(***************************************************************************)
(* Amounts and totals are naturals: facts every step uses.                 *)
(***************************************************************************)
LEMMA Totals ==
  ASSUME TypeOK
  PROVE  /\ Total(depositedAmount) \in Nat
         /\ Total(refundedAmount) \in Nat
         /\ Total(balanceOf) \in Nat
BY TotalType, AccountsAssumption DEF TypeOK

(***************************************************************************)
(* Crediting an account adds to the total of the ledger.                   *)
(***************************************************************************)
LEMMA Credited ==
  ASSUME NEW f \in [Accounts -> Nat], NEW a \in Accounts, NEW n \in Nat
  PROVE  /\ Credit(f, a, n) \in [Accounts -> Nat]
         /\ Total(Credit(f, a, n)) = Total(f) + n
<1>1. IsFiniteSet(Accounts)
  BY AccountsAssumption
<1>2. PICK g : g = Credit(f, a, n)
  OBVIOUS
<1>3. g \in [Accounts -> Nat] /\ Total(g) = Total(f) + n
  BY <1>1, <1>2, TotalCredit
<1> QED BY <1>2, <1>3

(***************************************************************************)
(* Debiting an account takes away from the total of the ledger.            *)
(***************************************************************************)
LEMMA Debited ==
  ASSUME NEW f \in [Accounts -> Nat], NEW a \in Accounts, NEW n \in Nat, n <= f[a]
  PROVE  /\ Debit(f, a, n) \in [Accounts -> Nat]
         /\ Total(Debit(f, a, n)) = Total(f) - n
<1>1. IsFiniteSet(Accounts)
  BY AccountsAssumption
<1>2. PICK g : g = Debit(f, a, n)
  OBVIOUS
<1>3. g \in [Accounts -> Nat] /\ Total(g) = Total(f) - n
  BY <1>1, <1>2, TotalDebit
<1> QED BY <1>2, <1>3

(***************************************************************************)
(* deposit: a payer is pushed exactly when its account leaves zero.        *)
(***************************************************************************)
LEMMA DepositKeeps ==
  ASSUME IInv,
         NEW caller \in Accounts, NEW amount \in Amounts, NEW payer \in Accounts,
         Deposit(caller, amount, payer)
  PROVE  IInv'
<1>1. /\ amount \in Nat /\ amount > 0 /\ amount <= balanceOf[payer]
      /\ IsFiniteSet(Accounts)
  BY AmountsAssumption, AccountsAssumption DEF Deposit
<1>2. TypeOK /\ Solvent /\ PayersAreDepositors /\ BooksBalance /\ TokensConserved
  BY DEF IInv
<1>3. /\ depositedAmount' \in [Accounts -> Nat]
      /\ Total(depositedAmount') = Total(depositedAmount) + amount
  <2>1. /\ depositedAmount \in [Accounts -> Nat]
        /\ depositedAmount' = Credit(depositedAmount, payer, amount)
    BY <1>2 DEF Deposit, TypeOK
  <2> QED BY <1>1, <2>1, Credited
<1>4. /\ balanceOf' \in [Accounts -> Nat]
      /\ Total(balanceOf') = Total(balanceOf) - amount
  <2>1. /\ balanceOf \in [Accounts -> Nat]
        /\ balanceOf' = Debit(balanceOf, payer, amount)
    BY <1>2 DEF Deposit, TypeOK
  <2> QED BY <1>1, <2>1, Debited
<1>5. /\ depositedAmount'[payer] = depositedAmount[payer] + amount
      /\ \A a \in Accounts : a # payer => depositedAmount'[a] = depositedAmount[a]
  BY <1>1, <1>2 DEF Deposit, Credit, TypeOK
<1>6. TypeOK'
  <2>1. payers' \in Seq(Accounts)
    BY <1>2 DEF Deposit, TypeOK
  <2>2. totalDepositedAmount' \in Nat /\ custody' \in Nat
    BY <1>1, <1>2 DEF Deposit, TypeOK
  <2> QED BY <1>2, <1>3, <1>4, <2>1, <2>2 DEF Deposit, TypeOK, refunds, fees
<1>7. Solvent'
  BY <1>1, <1>2 DEF Deposit, Solvent, TypeOK, GetBalance, refunds
<1>8. PayersAreDepositors'
  <2>1. CASE depositedAmount[payer] = 0
    <3>1. payers' = Append(payers, payer) /\ payers \in Seq(Accounts)
      BY <1>2, <2>1 DEF Deposit, TypeOK
    <3>2. /\ DOMAIN payers = 1 .. Len(payers) /\ Len(payers) \in Nat
          /\ DOMAIN payers' = 1 .. Len(payers) + 1
          /\ payers'[Len(payers) + 1] = payer
          /\ \A i \in 1 .. Len(payers) : payers'[i] = payers[i]
      BY <3>1
    <3>3. \A i \in DOMAIN payers : payers[i] # payer /\ payers[i] \in Accounts
      BY <1>2, <2>1, <3>1 DEF PayersAreDepositors
    <3>4. \A i, j \in DOMAIN payers' : payers'[i] = payers'[j] => i = j
      BY <1>2, <3>2, <3>3 DEF PayersAreDepositors
    <3>5. \A a \in Accounts :
            (\E i \in DOMAIN payers' : payers'[i] = a)
              <=> a = payer \/ \E i \in DOMAIN payers : payers[i] = a
      BY <3>2
    <3>6. \A a \in Accounts :
            (\E i \in DOMAIN payers : payers[i] = a) <=> depositedAmount[a] > 0
      BY <1>2, Zenon DEF PayersAreDepositors
    <3>7. \A a \in Accounts :
            (\E i \in DOMAIN payers' : payers'[i] = a) <=> depositedAmount'[a] > 0
      <4>1. depositedAmount \in [Accounts -> Nat]
        BY <1>2 DEF TypeOK
      <4> QED BY <1>1, <1>5, <3>5, <3>6, <4>1
    <3> QED BY <3>4, <3>7, Zenon DEF PayersAreDepositors
  <2>2. CASE depositedAmount[payer] # 0
    <3>1. payers' = payers
      BY <2>2 DEF Deposit
    <3>2. \A a \in Accounts : depositedAmount'[a] > 0 <=> depositedAmount[a] > 0
      <4>1. depositedAmount \in [Accounts -> Nat]
        BY <1>2 DEF TypeOK
      <4> QED BY <1>1, <1>5, <2>2, <4>1
    <3> QED BY <1>2, <3>1, <3>2 DEF PayersAreDepositors
  <2> QED BY <2>1, <2>2
<1>9. BooksBalance'
  BY <1>2, <1>3 DEF Deposit, BooksBalance, refunds
<1>10. TokensConserved'
  <2>1. custody \in Nat /\ custody' = custody + amount
    BY <1>2 DEF Deposit, TypeOK
  <2>2. Total(balanceOf) \in Nat
    BY <1>2, Totals
  <2> QED BY <1>1, <1>2, <1>4, <2>1, <2>2 DEF TokensConserved
<1> QED BY <1>6, <1>7, <1>8, <1>9, <1>10 DEF IInv

(***************************************************************************)
(* Swap-and-pop takes the payer, and nobody else, out of the array.        *)
(***************************************************************************)
LEMMA RemovedPayer ==
  ASSUME TypeOK, PayersAreDepositors, NEW payer \in Accounts, depositedAmount[payer] > 0
  PROVE  /\ RemovePayer(payer) \in Seq(Accounts)
         /\ \A i, j \in DOMAIN RemovePayer(payer) :
              RemovePayer(payer)[i] = RemovePayer(payer)[j] => i = j
         /\ \A a \in Accounts :
              (\E i \in DOMAIN RemovePayer(payer) : RemovePayer(payer)[i] = a)
                <=> a # payer /\ depositedAmount[a] > 0
<1> DEFINE last == Len(payers)
           Found(i) == payers[i] = payer /\ \A j \in 1 .. i - 1 : payers[j] # payer
           first == CHOOSE i \in DOMAIN payers : Found(i)
           rest == [j \in 1 .. last - 1 |-> IF j = first THEN payers[last] ELSE payers[j]]
<1>1. /\ last \in Nat /\ DOMAIN payers = 1 .. last
      /\ \A i \in 1 .. last : payers[i] \in Accounts
  BY DEF TypeOK
<1>2. PICK k \in 1 .. last : payers[k] = payer
  BY <1>1 DEF PayersAreDepositors
<1>3. \A i, j \in 1 .. last : payers[i] = payers[j] => i = j
  BY <1>1 DEF PayersAreDepositors
<1>4. Found(k)
  BY <1>1, <1>2, <1>3
<1>5. first \in 1 .. last /\ Found(first)
  <2> HIDE DEF Found
  <2> QED BY <1>1, <1>2, <1>4
<1>6. RemovePayer(payer) = rest
  BY <1>1, <1>2 DEF RemovePayer
<1> HIDE DEF first
<1>7. rest \in Seq(Accounts)
  <2>1. last - 1 \in Nat
    BY <1>1, <1>2
  <2>2. rest \in [1 .. last - 1 -> Accounts]
    BY <1>1, <1>2
  <2> HIDE DEF rest, last
  <2> QED BY <2>1, <2>2
<1>8. DOMAIN rest = 1 .. last - 1
  OBVIOUS
<1>9. \A i, j \in 1 .. last - 1 : rest[i] = rest[j] => i = j
  BY <1>1, <1>3, <1>5
<1>10. ASSUME NEW a \in Accounts
       PROVE  (\E i \in 1 .. last - 1 : rest[i] = a) <=> a # payer /\ depositedAmount[a] > 0
  <2>1. depositedAmount[a] > 0 <=> \E i \in 1 .. last : payers[i] = a
    BY <1>1 DEF PayersAreDepositors
  <2>2. ASSUME NEW i \in 1 .. last - 1, rest[i] = a
        PROVE  a # payer /\ \E j \in 1 .. last : payers[j] = a
    <3>1. CASE i = first
      BY <1>1, <1>3, <1>5, <2>2, <3>1
    <3>2. CASE i # first
      BY <1>1, <1>3, <1>5, <2>2, <3>2
    <3> QED BY <3>1, <3>2
  <2>3. ASSUME a # payer, NEW j \in 1 .. last, payers[j] = a
        PROVE  \E i \in 1 .. last - 1 : rest[i] = a
    <3>1. j # first
      BY <1>5, <2>3
    <3>2. CASE j = last
      <4>1. first \in 1 .. last - 1
        BY <1>1, <1>5, <3>1, <3>2
      <4>2. rest[first] = a
        BY <2>3, <3>2, <4>1
      <4> QED BY <4>1, <4>2
    <3>3. CASE j # last
      <4>1. j \in 1 .. last - 1
        <5>1. last \in Nat /\ j \in 1 .. last
          BY <1>1, <2>3
        <5> HIDE DEF last
        <5> QED BY <3>3, <5>1
      <4>2. rest[j] = a
        BY <2>3, <3>1, <4>1
      <4> QED BY <4>1, <4>2
    <3> QED BY <3>2, <3>3
  <2> HIDE DEF rest, last
  <2> QED BY <2>1, <2>2, <2>3
<1> HIDE DEF rest
<1> QED BY <1>6, <1>7, <1>8, <1>9, <1>10

(***************************************************************************)
(* withdraw: the account, the total and the custody shrink alike, and the  *)
(* payer leaves the array when its account is empty.                       *)
(***************************************************************************)
LEMMA WithdrawKeeps ==
  ASSUME IInv, NEW caller \in Accounts, NEW amount \in Amounts, Withdraw(caller, amount)
  PROVE  IInv'
<1>1. TypeOK /\ Solvent /\ PayersAreDepositors /\ BooksBalance /\ TokensConserved
  BY DEF IInv
<1>2. /\ amount \in Nat /\ amount > 0
      /\ amount <= custody /\ amount <= depositedAmount[caller]
      /\ amount <= GetWithdrawableAmount(caller)
      /\ IsFiniteSet(Accounts)
  BY AmountsAssumption, AccountsAssumption DEF Withdraw
<1>3. amount <= GetBalance - lockedAmount
  <2>1. /\ GetWithdrawableAmount(caller) \in Nat
        /\ GetWithdrawableAmount(caller) <= GetBalance - lockedAmount
    BY <1>1, WithdrawableBound
  <2>2. GetBalance - lockedAmount \in Int
    BY <1>1 DEF TypeOK, GetBalance
  <2> QED BY <1>2, <2>1, <2>2
<1>4. /\ depositedAmount' \in [Accounts -> Nat]
      /\ Total(depositedAmount') = Total(depositedAmount) - amount
  <2>1. /\ depositedAmount \in [Accounts -> Nat]
        /\ depositedAmount' = Debit(depositedAmount, caller, amount)
    BY <1>1 DEF Withdraw, TypeOK
  <2> QED BY <1>2, <2>1, Debited
<1>5. /\ balanceOf' \in [Accounts -> Nat]
      /\ Total(balanceOf') = Total(balanceOf) + amount
  <2>1. /\ balanceOf \in [Accounts -> Nat]
        /\ balanceOf' = Credit(balanceOf, caller, amount)
    BY <1>1 DEF Withdraw, TypeOK
  <2> QED BY <1>2, <2>1, Credited
<1>6. /\ depositedAmount'[caller] = depositedAmount[caller] - amount
      /\ \A a \in Accounts : a # caller => depositedAmount'[a] = depositedAmount[a]
  BY <1>1 DEF Withdraw, Debit, TypeOK
<1>7. amount <= totalDepositedAmount
  BY <1>1, <1>2, AmountWithinTotal DEF TypeOK, BooksBalance
<1>8. totalDepositedAmount' \in Nat /\ custody' \in Nat
  BY <1>1, <1>2, <1>7 DEF Withdraw, TypeOK
<1>9. depositedAmount[caller] > 0
  BY <1>1, <1>2 DEF TypeOK
<1>10. payers' = IF depositedAmount'[caller] = 0 THEN RemovePayer(caller) ELSE payers
  BY DEF Withdraw
<1>11. TypeOK'
  <2>1. payers' \in Seq(Accounts)
    BY <1>1, <1>9, <1>10, RemovedPayer DEF TypeOK
  <2> QED BY <1>1, <1>4, <1>5, <1>8, <2>1 DEF Withdraw, TypeOK, refunds, fees
<1>12. Solvent'
  BY <1>1, <1>2, <1>3 DEF Withdraw, Solvent, TypeOK, GetBalance, refunds
<1>13. PayersAreDepositors'
  <2>1. CASE depositedAmount'[caller] = 0
    <3>1. payers' = RemovePayer(caller)
      BY <1>10, <2>1
    <3>2. \A i, j \in DOMAIN payers' : payers'[i] = payers'[j] => i = j
      BY <1>1, <1>9, <3>1, RemovedPayer
    <3>3. \A a \in Accounts :
            (\E i \in DOMAIN payers' : payers'[i] = a) <=> a # caller /\ depositedAmount[a] > 0
      BY <1>1, <1>9, <3>1, RemovedPayer
    <3>4. \A a \in Accounts :
            depositedAmount'[a] > 0 <=> a # caller /\ depositedAmount[a] > 0
      BY <1>6, <2>1
    <3> QED BY <3>2, <3>3, <3>4, Zenon DEF PayersAreDepositors
  <2>2. CASE depositedAmount'[caller] # 0
    <3>1. payers' = payers
      BY <1>10, <2>2
    <3>2. depositedAmount'[caller] \in Nat
      BY <1>4
    <3>3. \A a \in Accounts : depositedAmount'[a] > 0 <=> depositedAmount[a] > 0
      BY <1>6, <1>9, <2>2, <3>2
    <3> QED BY <1>1, <3>1, <3>3 DEF PayersAreDepositors
  <2> QED BY <2>1, <2>2
<1>14. BooksBalance'
  BY <1>1, <1>4 DEF Withdraw, BooksBalance, refunds
<1>15. TokensConserved'
  <2>1. custody \in Nat /\ custody' = custody - amount
    BY <1>1 DEF Withdraw, TypeOK
  <2>2. Total(balanceOf) \in Nat
    BY <1>1, Totals
  <2> QED BY <1>1, <1>2, <1>5, <2>1, <2>2 DEF TokensConserved
<1> QED BY <1>11, <1>12, <1>13, <1>14, <1>15 DEF IInv

(***************************************************************************)
(* lockFunds: only the locked part grows, up to the balance.               *)
(***************************************************************************)
LEMMA LockKeeps ==
  ASSUME IInv, NEW caller \in Accounts, NEW amount \in Amounts, LockFunds(caller, amount)
  PROVE  IInv'
<1>1. TypeOK /\ Solvent /\ PayersAreDepositors /\ BooksBalance /\ TokensConserved
  BY DEF IInv
<1>2. amount \in Nat
  BY AmountsAssumption
<1>3. TypeOK'
  BY <1>1, <1>2 DEF LockFunds, TypeOK, deposits, refunds, fees, token
<1>4. Solvent'
  BY <1>1, <1>2 DEF LockFunds, Solvent, GetBalance, deposits, refunds, token
<1>5. PayersAreDepositors' /\ BooksBalance' /\ TokensConserved'
  BY <1>1 DEF LockFunds, PayersAreDepositors, BooksBalance, TokensConserved,
              deposits, refunds, token
<1> QED BY <1>3, <1>4, <1>5 DEF IInv

(***************************************************************************)
(* releaseFunds: the fees and the payment add up to what was locked.       *)
(***************************************************************************)
LEMMA ReleaseKeeps ==
  ASSUME IInv, NEW caller \in Accounts, NEW amount \in Amounts,
         ReleaseFunds(caller, amount)
  PROVE  IInv'
<1> DEFINE paidFees == GetFees(amount)
           withFees == Credit(balanceOf, feeRecipient, paidFees)
<1>1. TypeOK /\ Solvent /\ PayersAreDepositors /\ BooksBalance /\ TokensConserved
  BY DEF IInv
<1>2. /\ amount \in Nat /\ amount <= lockedAmount /\ amount <= custody
      /\ IsFiniteSet(Accounts) /\ Payee \in Accounts
  BY AmountsAssumption, AccountsAssumption DEF ReleaseFunds
<1>3. paidFees \in Nat /\ paidFees <= amount /\ amount - paidFees \in Nat
  <2>1. paidFees \in Nat /\ paidFees <= amount
    BY <1>1, <1>2, FeesWithinAmount DEF TypeOK
  <2> HIDE DEF paidFees
  <2> QED BY <1>2, <2>1
<1>4. /\ balanceOf' \in [Accounts -> Nat]
      /\ Total(balanceOf') = Total(balanceOf) + amount
  <2>1. /\ balanceOf \in [Accounts -> Nat] /\ feeRecipient \in Accounts
        /\ balanceOf' = Credit(withFees, Payee, amount - paidFees)
    BY <1>1 DEF ReleaseFunds, TypeOK
  <2> HIDE DEF paidFees
  <2>2. withFees \in [Accounts -> Nat] /\ Total(withFees) = Total(balanceOf) + paidFees
    <3>1. withFees = Credit(balanceOf, feeRecipient, paidFees)
      OBVIOUS
    <3> HIDE DEF withFees
    <3> QED BY <1>2, <1>3, <2>1, <3>1, Credited
  <2> HIDE DEF withFees
  <2>3. /\ balanceOf' \in [Accounts -> Nat]
        /\ Total(balanceOf') = Total(withFees) + (amount - paidFees)
    BY <1>2, <1>3, <2>1, <2>2, Credited
  <2>4. Total(balanceOf) \in Nat
    BY <1>1, Totals
  <2> QED BY <1>2, <1>3, <2>2, <2>3, <2>4
<1>5. TypeOK'
  BY <1>1, <1>2, <1>4 DEF ReleaseFunds, TypeOK, deposits, refunds, fees
<1>6. Solvent'
  BY <1>1, <1>2 DEF ReleaseFunds, Solvent, TypeOK, GetBalance, deposits, refunds
<1>7. PayersAreDepositors' /\ BooksBalance'
  BY <1>1 DEF ReleaseFunds, PayersAreDepositors, BooksBalance, deposits, refunds
<1>8. TokensConserved'
  <2>1. custody \in Nat /\ custody' = custody - amount
    BY <1>1 DEF ReleaseFunds, TypeOK
  <2>2. Total(balanceOf) \in Nat
    BY <1>1, Totals
  <2> QED BY <1>1, <1>2, <1>4, <2>1, <2>2 DEF TokensConserved
<1> QED BY <1>5, <1>6, <1>7, <1>8 DEF IInv

(***************************************************************************)
(* refundFunds: the shares leave the locked funds and the custody; what    *)
(* the payers get and the fees kept back add up to the shares.             *)
(***************************************************************************)
LEMMA RefundKeeps ==
  ASSUME IInv, NEW caller \in Accounts, NEW amount \in Amounts,
         RefundFunds(caller, amount)
  PROVE  IInv'
<1> DEFINE share == RefundShare(amount)
           kept == RefundFees(amount)
           net == [a \in Accounts |-> share[a] - kept[a]]
           paidBack == [a \in Accounts |-> balanceOf[a] + net[a]]
           refunded == Total(share)
<1>1. TypeOK /\ Solvent /\ PayersAreDepositors /\ BooksBalance /\ TokensConserved
  BY DEF IInv
<1>2. amount \in Nat /\ IsFiniteSet(Accounts)
  BY AmountsAssumption, AccountsAssumption
<1>3. /\ share \in [Accounts -> Nat] /\ kept \in [Accounts -> Nat]
      /\ \A a \in Accounts : kept[a] <= share[a]
  BY <1>1, <1>2, RefundTypes
<1>4. refunded \in Nat /\ refunded <= lockedAmount /\ refunded <= custody
  <2>1. refunded \in Nat
    BY <1>1, <1>2, RefundTotalBound
  <2> QED BY <2>1 DEF RefundFunds
<1>5. /\ custody' = custody - refunded
      /\ balanceOf' = Credit(paidBack, feeRecipient, Total(kept))
      /\ refundedAmount' = [a \in Accounts |-> refundedAmount[a] + share[a]]
      /\ totalRefundedAmount' = totalRefundedAmount + refunded
      /\ lockedAmount' = lockedAmount - refunded
      /\ UNCHANGED <<admins, deposits, releasedAmount, fees>>
  <2>1. \A a \in Accounts : balanceOf[a] + (share[a] - kept[a]) = balanceOf[a] + net[a]
    OBVIOUS
  <2>2. paidBack = [a \in Accounts |-> balanceOf[a] + (share[a] - kept[a])]
    BY <2>1
  <2> HIDE DEF paidBack, net
  <2> QED BY <2>2, Zenon DEF RefundFunds
<1> HIDE DEF share, kept
<1>6. net \in [Accounts -> Nat]
  BY <1>3
<1>7. Total(share) = Total(kept) + Total(net)
  <2>1. share = [a \in Accounts |-> kept[a] + net[a]]
    BY <1>3
  <2> HIDE DEF net
  <2> QED BY <1>2, <1>3, <1>6, <2>1, TotalSum
<1>8. /\ balanceOf \in [Accounts -> Nat] /\ refundedAmount \in [Accounts -> Nat]
      /\ feeRecipient \in Accounts
      /\ custody \in Nat /\ lockedAmount \in Nat /\ totalRefundedAmount \in Nat
  BY <1>1 DEF TypeOK
<1>9. paidBack \in [Accounts -> Nat] /\ Total(paidBack) = Total(balanceOf) + Total(net)
  <2> HIDE DEF net
  <2>1. paidBack \in [Accounts -> Nat]
    BY <1>6, <1>8
  <2>2. Total(paidBack) = Total(balanceOf) + Total(net)
    BY <1>2, <1>6, <1>8, TotalSum
  <2> QED BY <2>1, <2>2
<1> HIDE DEF net, paidBack
<1>10. Total(kept) \in Nat /\ Total(net) \in Nat /\ Total(balanceOf) \in Nat
  BY <1>1, <1>2, <1>3, <1>6, <1>8, TotalType
<1>11. /\ balanceOf' \in [Accounts -> Nat]
       /\ Total(balanceOf') = Total(balanceOf) + refunded
  <2>1. /\ balanceOf' \in [Accounts -> Nat]
        /\ Total(balanceOf') = Total(paidBack) + Total(kept)
    BY <1>2, <1>5, <1>8, <1>9, <1>10, Credited
  <2> QED BY <1>7, <1>9, <1>10, <2>1
<1>12. /\ refundedAmount' \in [Accounts -> Nat]
       /\ Total(refundedAmount') = Total(refundedAmount) + refunded
  <2>1. refundedAmount' \in [Accounts -> Nat]
    BY <1>3, <1>5, <1>8
  <2>2. /\ Total([a \in Accounts |-> refundedAmount[a] + share[a]])
             = Total(refundedAmount) + Total(share)
        /\ refundedAmount' = [a \in Accounts |-> refundedAmount[a] + share[a]]
    <3>1. Total([a \in Accounts |-> refundedAmount[a] + share[a]])
             = Total(refundedAmount) + Total(share)
      BY <1>2, <1>3, <1>8, TotalSum
    <3> QED BY <1>5, <3>1
  <2> QED BY <2>1, <2>2
<1>13. refunded \in Nat
  BY <1>4
<1> HIDE DEF refunded
<1>14. TypeOK'
  <2>1. custody' \in Nat /\ lockedAmount' \in Nat /\ totalRefundedAmount' \in Nat
    BY <1>4, <1>5, <1>8, <1>13
  <2> QED BY <1>1, <1>5, <1>11, <1>12, <2>1 DEF TypeOK, deposits, fees
<1>15. Solvent'
  BY <1>1, <1>4, <1>5, <1>13 DEF Solvent, TypeOK, GetBalance, deposits
<1>16. PayersAreDepositors'
  BY <1>1, <1>5 DEF PayersAreDepositors, deposits
<1>17. BooksBalance'
  BY <1>1, <1>5, <1>12 DEF BooksBalance, deposits
<1>18. TokensConserved'
  BY <1>1, <1>4, <1>5, <1>8, <1>10, <1>11 DEF TokensConserved
<1> QED BY <1>14, <1>15, <1>16, <1>17, <1>18 DEF IInv

(***************************************************************************)
(* The administration of fees and admins moves no token.                   *)
(***************************************************************************)
LEMMA AdministrationKeeps ==
  ASSUME IInv, NEW caller \in Accounts, NEW account \in Accounts,
         \/ UpdateFeeRecipient(caller, account)
         \/ \E fee \in BaseFees : UpdateBaseFee(caller, fee)
         \/ \E fee \in PercentageFees : UpdatePercentageFee(caller, fee)
         \/ AddAdmin(caller, account)
         \/ RemoveAdmin(caller, account)
  PROVE  IInv'
<1>1. TypeOK /\ Solvent /\ PayersAreDepositors /\ BooksBalance /\ TokensConserved
  BY DEF IInv
<1>2. UNCHANGED <<deposits, lockedAmount, releasedAmount, refunds, token>>
  BY DEF UpdateFeeRecipient, UpdateBaseFee, UpdatePercentageFee, AddAdmin, RemoveAdmin
<1>3. TypeOK'
  <2>1. /\ feeRecipient' \in Accounts
        /\ baseFee' \in Nat
        /\ percentageFee' \in 0 .. 100
        /\ admins' \subseteq Accounts
    <3>1. CASE UpdateFeeRecipient(caller, account)
      BY <1>1, <3>1 DEF UpdateFeeRecipient, TypeOK
    <3>2. CASE \E fee \in BaseFees : UpdateBaseFee(caller, fee)
      BY <1>1, <3>2, AmountsAssumption DEF UpdateBaseFee, TypeOK
    <3>3. CASE \E fee \in PercentageFees : UpdatePercentageFee(caller, fee)
      BY <1>1, <3>3, AmountsAssumption DEF UpdatePercentageFee, TypeOK
    <3>4. CASE AddAdmin(caller, account)
      BY <1>1, <3>4 DEF AddAdmin, TypeOK, fees
    <3>5. CASE RemoveAdmin(caller, account)
      BY <1>1, <3>5 DEF RemoveAdmin, TypeOK, fees
    <3> QED BY <3>1, <3>2, <3>3, <3>4, <3>5
  <2> QED BY <1>1, <1>2, <2>1 DEF TypeOK, deposits, refunds, token
<1>4. Solvent' /\ PayersAreDepositors' /\ BooksBalance' /\ TokensConserved'
  BY <1>1, <1>2 DEF Solvent, GetBalance, PayersAreDepositors, BooksBalance,
                    TokensConserved, deposits, refunds, token
<1> QED BY <1>3, <1>4 DEF IInv

(***************************************************************************)
(* The invariant holds in every reachable state.                           *)
(***************************************************************************)
THEOREM Invariance == Spec => []IInv
<1>1. Init => IInv
  BY InitIInv
<1>2. ASSUME IInv, [Next]_vars PROVE IInv'
  <2>1. ASSUME NEW caller \in Accounts, NEW payer \in Accounts, NEW amount \in Amounts,
               Deposit(caller, amount, payer)
        PROVE  IInv'
    BY <1>2, <2>1, DepositKeeps
  <2>2. ASSUME NEW caller \in Accounts, NEW amount \in Amounts, Withdraw(caller, amount)
        PROVE  IInv'
    BY <1>2, <2>2, WithdrawKeeps
  <2>3. ASSUME NEW caller \in Accounts, NEW amount \in Amounts, LockFunds(caller, amount)
        PROVE  IInv'
    BY <1>2, <2>3, LockKeeps
  <2>4. ASSUME NEW caller \in Accounts, NEW amount \in Amounts,
               ReleaseFunds(caller, amount)
        PROVE  IInv'
    BY <1>2, <2>4, ReleaseKeeps
  <2>5. ASSUME NEW caller \in Accounts, NEW amount \in Amounts,
               RefundFunds(caller, amount)
        PROVE  IInv'
    BY <1>2, <2>5, RefundKeeps
  <2>6. ASSUME NEW caller \in Accounts, NEW account \in Accounts,
               \/ UpdateFeeRecipient(caller, account)
               \/ \E fee \in BaseFees : UpdateBaseFee(caller, fee)
               \/ \E fee \in PercentageFees : UpdatePercentageFee(caller, fee)
               \/ AddAdmin(caller, account)
               \/ RemoveAdmin(caller, account)
        PROVE  IInv'
    BY <1>2, <2>6, AdministrationKeeps
  <2>7. CASE UNCHANGED vars
    <3>1. UNCHANGED <<admins, deposits, lockedAmount, releasedAmount, refunds, fees, token>>
      BY <2>7 DEF vars
    <3> QED BY <1>2, <3>1 DEF IInv, TypeOK, Solvent, GetBalance, PayersAreDepositors,
                              BooksBalance, TokensConserved, deposits, refunds, fees, token
  <2> QED BY <1>2, <2>1, <2>2, <2>3, <2>4, <2>5, <2>6, <2>7, AccountsAssumption DEF Next
<1> QED BY <1>1, <1>2, PTL DEF Spec

-----------------------------------------------------------------------------
\* The properties of DownPayment.tla.

(***************************************************************************)
(* Every variable keeps its type; no amount ever underflows.               *)
(***************************************************************************)
THEOREM TypeCorrect == Spec => []TypeOK
BY Invariance, PTL DEF IInv

(***************************************************************************)
(* The contract holds what its counters say, and that covers the locks.    *)
(***************************************************************************)
THEOREM AlwaysSolvent == Spec => []Solvent
BY Invariance, PTL DEF IInv

(***************************************************************************)
(* The array of payers lists each depositor once and nobody else.          *)
(***************************************************************************)
THEOREM PayersStayDepositors == Spec => []PayersAreDepositors
BY Invariance, PTL DEF IInv

(***************************************************************************)
(* The totals are the sums of the accounts of the payers.                  *)
(***************************************************************************)
THEOREM BooksStayBalanced == Spec => []BooksBalance
BY Invariance, PTL DEF IInv

(***************************************************************************)
(* No token is created or lost.                                            *)
(***************************************************************************)
THEOREM Conservation == Spec => []TokensConserved
BY Invariance, PTL DEF IInv

(***************************************************************************)
(* A withdrawal the contract offers fits in the account of the payer.      *)
(***************************************************************************)
THEOREM OffersFit == Spec => []WithdrawableWithinDeposit
<1>1. IInv => WithdrawableWithinDeposit
  BY WithdrawableBound DEF IInv, WithdrawableWithinDeposit
<1> QED BY <1>1, Invariance, PTL

(***************************************************************************)
(* A refund never hands out more than was asked for.                       *)
(***************************************************************************)
THEOREM RefundsFit == Spec => []RefundFitsRequest
<1>1. ASSUME IInv PROVE RefundFitsRequest
  BY <1>1, RefundTotalBound, AmountsAssumption DEF IInv, RefundFitsRequest
<1> QED BY <1>1, Invariance, PTL

(***************************************************************************)
(* The terms do not change while funds are locked.                         *)
(***************************************************************************)
THEOREM FeesStayFrozen == Spec => FeesFrozenWhileLocked
<1>1. ASSUME Next, lockedAmount > 0 PROVE UNCHANGED fees
  <2>1. ~ Editable
    BY <1>1 DEF Editable
  <2> QED BY <1>1, <2>1 DEF Next, Deposit, Withdraw, LockFunds, ReleaseFunds, RefundFunds,
       UpdateFeeRecipient, UpdateBaseFee, UpdatePercentageFee, AddAdmin, RemoveAdmin
<1> QED BY <1>1, PTL DEF Spec, FeesFrozenWhileLocked

(***************************************************************************)
(* Every step of the contract is a step of the abstract escrow, or none:   *)
(* a refund whose shares are all rounded to zero and the administration    *)
(* move nothing.                                                           *)
(***************************************************************************)
LEMMA StepImplementsEscrow ==
  ASSUME IInv, Next
  PROVE  [Pot!EscrowNext]_(Pot!escrowVars)
<1> DEFINE held == GetBalance
           paid == releasedAmount + totalRefundedAmount
           Still == UNCHANGED <<held, lockedAmount, paid>>
<1> USE DEF Pot!EscrowNext, Pot!escrowVars
<1>1. /\ totalDepositedAmount \in Nat /\ lockedAmount \in Nat /\ releasedAmount \in Nat
      /\ totalRefundedAmount \in Nat /\ held \in Nat /\ held - lockedAmount \in Nat
  BY DEF IInv, TypeOK, Solvent
<1>2. ASSUME NEW caller \in Accounts, NEW payer \in Accounts, NEW amount \in Amounts,
             Deposit(caller, amount, payer)
      PROVE  \E n \in 1 .. MaxDeposited : Pot!PotDeposit(n)
  <2>1. amount \in 1 .. MaxDeposited
    BY <1>1, <1>2, AmountsAssumption DEF Deposit
  <2>2. held' = held + amount /\ UNCHANGED <<lockedAmount, paid>>
    BY <1>1, <1>2, <2>1 DEF Deposit, GetBalance, refunds
  <2> QED BY <1>1, <2>1, <2>2 DEF Pot!PotDeposit
<1>3. ASSUME NEW caller \in Accounts, NEW amount \in Amounts, Withdraw(caller, amount)
      PROVE  \E n \in 1 .. held : Pot!PotWithdraw(n)
  <2>1. amount \in 1 .. held - lockedAmount
    <3>1. /\ GetWithdrawableAmount(caller) \in Nat
          /\ GetWithdrawableAmount(caller) <= held - lockedAmount
      BY WithdrawableBound DEF IInv
    <3> QED BY <1>1, <1>3, <3>1, AmountsAssumption DEF Withdraw
  <2>2. held' = held - amount /\ UNCHANGED <<lockedAmount, paid>>
    BY <1>1, <1>3, <2>1 DEF Withdraw, GetBalance, refunds
  <2> QED BY <1>1, <2>1, <2>2 DEF Pot!PotWithdraw
<1>4. ASSUME NEW caller \in Accounts, NEW amount \in Amounts, LockFunds(caller, amount)
      PROVE  \E n \in 1 .. held : Pot!PotLock(n)
  <2>1. amount \in 1 .. held - lockedAmount
    BY <1>1, <1>4, AmountsAssumption DEF LockFunds
  <2>2. lockedAmount' = lockedAmount + amount /\ UNCHANGED <<held, paid>>
    BY <1>4 DEF LockFunds, GetBalance, deposits, refunds
  <2> QED BY <1>1, <2>1, <2>2 DEF Pot!PotLock
<1>5. ASSUME NEW caller \in Accounts, NEW amount \in Amounts, ReleaseFunds(caller, amount)
      PROVE  \E n \in 1 .. held : Pot!PotPayOut(n)
  <2>1. amount \in 1 .. lockedAmount
    BY <1>1, <1>5, AmountsAssumption DEF ReleaseFunds
  <2>2. /\ held' = held - amount
        /\ lockedAmount' = lockedAmount - amount
        /\ paid' = paid + amount
    BY <1>1, <1>5, <2>1 DEF ReleaseFunds, GetBalance, deposits, refunds
  <2> QED BY <1>1, <2>1, <2>2 DEF Pot!PotPayOut
<1>6. ASSUME NEW caller \in Accounts, NEW amount \in Amounts, RefundFunds(caller, amount)
      PROVE  (\E n \in 1 .. held : Pot!PotPayOut(n)) \/ Still
  <2> DEFINE refunded == Total(RefundShare(amount))
  <2>1. refunded \in Nat /\ refunded <= lockedAmount
    <3>1. refunded \in Nat
      BY RefundTotalBound, AmountsAssumption DEF IInv
    <3> QED BY <1>6, <3>1 DEF RefundFunds
  <2>2. /\ lockedAmount' = lockedAmount - refunded
        /\ totalRefundedAmount' = totalRefundedAmount + refunded
        /\ UNCHANGED <<totalDepositedAmount, releasedAmount>>
    BY <1>6 DEF RefundFunds, deposits
  <2> HIDE DEF refunded
  <2>3. held' = held - refunded /\ paid' = paid + refunded
    BY <1>1, <2>1, <2>2 DEF GetBalance
  <2>4. CASE refunded = 0
    BY <1>1, <2>2, <2>3, <2>4
  <2>5. CASE refunded # 0
    <3>1. refunded \in 1 .. lockedAmount
      BY <1>1, <2>1, <2>5
    <3> QED BY <1>1, <2>2, <2>3, <3>1 DEF Pot!PotPayOut
  <2> QED BY <2>4, <2>5
<1>7. ASSUME NEW caller \in Accounts, NEW account \in Accounts,
             \/ UpdateFeeRecipient(caller, account)
             \/ \E fee \in BaseFees : UpdateBaseFee(caller, fee)
             \/ \E fee \in PercentageFees : UpdatePercentageFee(caller, fee)
             \/ AddAdmin(caller, account)
             \/ RemoveAdmin(caller, account)
      PROVE  Still
  BY <1>7 DEF UpdateFeeRecipient, UpdateBaseFee, UpdatePercentageFee, AddAdmin,
              RemoveAdmin, GetBalance, deposits, refunds
<1> QED BY <1>2, <1>3, <1>4, <1>5, <1>6, <1>7, AccountsAssumption DEF Next

(***************************************************************************)
(* The contract implements the abstract escrow.                            *)
(***************************************************************************)
THEOREM Refinement == Spec => ImplementsEscrow
<1>1. Init => Pot!EscrowInit
  BY DEF Init, Pot!EscrowInit, GetBalance
<1>2. ASSUME IInv, [Next]_vars PROVE [Pot!EscrowNext]_(Pot!escrowVars)
  <2>1. CASE Next
    BY <1>2, <2>1, StepImplementsEscrow
  <2>2. CASE UNCHANGED vars
    BY <2>2 DEF vars, Pot!escrowVars, GetBalance, deposits, refunds
  <2> QED BY <1>2, <2>1, <2>2
<1> QED BY <1>1, <1>2, Invariance, PTL DEF Spec, ImplementsEscrow, Pot!EscrowSpec

=============================================================================

-------------------------- MODULE CurveGridProofs ---------------------------
(***************************************************************************)
(* The invariants of CurveGrid for a grid of any size: what TLC compares    *)
(* input by input holds for all inputs a pool has.                          *)
(***************************************************************************)
EXTENDS CurveGrid, ConstantProductProofs

-----------------------------------------------------------------------------
\* A number of a set that no other exceeds is its maximum, and likewise below.
LEMMA MaxIs ==
    ASSUME NEW S, S \subseteq Int, NEW m \in S, \A e \in S : e <= m
    PROVE  Max(S) = m
<1>1. Max(S) \in S /\ \A e \in S : Max(S) >= e
  BY DEF Max
<1>2. Max(S) \in Int /\ m \in Int /\ Max(S) <= m /\ Max(S) >= m
  BY <1>1
<1> QED BY <1>2

LEMMA MinIs ==
    ASSUME NEW S, S \subseteq Int, NEW m \in S, \A e \in S : m <= e
    PROVE  Min(S) = m
<1>1. Min(S) \in S /\ \A e \in S : Min(S) <= e
  BY DEF Min
<1>2. Min(S) \in Int /\ m \in Int /\ Min(S) <= m /\ Min(S) >= m
  BY <1>1
<1> QED BY <1>2

\* With n the product to keep and d the grown source reserve: t is the most that
\* keeps the product, and the curve takes it for p, the least that pays for it.
TakesTheBest(amount, x, y, n, d, t) ==
    /\ d * (y - t) >= n
    /\ \A e \in 0 .. y - 1 : d * (y - e) >= n => e <= t
    /\ t = 0 => SwapWithoutFees(amount, x, y) = {}
    /\ t # 0 => \E p \in 0 .. amount :
         /\ (x + p) * (y - t) >= n
         /\ \A s \in 0 .. amount : (x + s) * (y - t) >= n => p <= s
         /\ SwapWithoutFees(amount, x, y) =
              { [source_amount_swapped |-> p, destination_amount_swapped |-> t] }

LEMMA BestTrade ==
    ASSUME NEW amount \in Nat, NEW x \in Nat \ {0}, NEW y \in Nat \ {0},
           NEW n, n = x * y, NEW d, d = x + amount, n \in U128, d \in U128, n >= d
    PROVE  \E t \in 0 .. y - 1 : TakesTheBest(amount, x, y, n, d, t)
<1>1. n \in Nat /\ d \in Nat \ {0}
  BY U64Assumption DEF U128, U128Max
<1>2. PICK new : CheckedCeilDiv(n, d) = {new}
  <2>1. ~(d = 0 \/ n < d)
    BY <1>1
  <2> QED BY <2>1, Zenon DEF CheckedCeilDiv, Some
<1> DEFINE q == new.quotient  v == new.divisor
<1>3. /\ q \in Nat \ {0} /\ v \in Nat /\ v * q >= n /\ v <= d
      /\ \A k \in Nat : k * d >= n => q <= k
      /\ \A k \in Nat : k * q >= n => v <= k
  BY <1>1, <1>2, CheckedCeilDivCovers, CheckedCeilDivIsLeast
<1> DEFINE fit == { m \in CheckedCeilDiv(n, d) : x <= m.divisor /\ m.quotient < y }
<1>4. SwapWithoutFees(amount, x, y) =
        { [ source_amount_swapped      |-> m.divisor - x,
            destination_amount_swapped |-> y - m.quotient ] : m \in fit }
  BY DEF SwapWithoutFees, Checked, Some
<1>5. q >= y => fit = {}
  BY <1>2, <1>3 DEF q
<1>6. x <= v /\ q < y => fit = {new}
  BY <1>2
<1>7. /\ q >= y => SwapWithoutFees(amount, x, y) = {}
      /\ x <= v /\ q < y => SwapWithoutFees(amount, x, y) =
           { [source_amount_swapped |-> v - x, destination_amount_swapped |-> y - q] }
  <2> HIDE DEF fit
  <2> QED BY <1>4, <1>5, <1>6
<1> HIDE DEF q, v
<1>8. d * q >= n /\ v * q \in Nat
  <2>1. d * q >= v * q /\ v * q \in Nat /\ d * q \in Nat
    BY <1>1, <1>3, ProductsGrow
  <2> QED BY <1>1, <1>3, <2>1
<1>9. q <= y
  <2>1. y * d >= y * x /\ y * x = x * y
    BY <1>1, ProductsGrow
  <2> QED BY <1>3, <2>1
<1> DEFINE t == y - q
<1>10. t \in 0 .. y - 1 /\ y - t = q
  BY <1>3, <1>9
<1>11. ASSUME NEW e \in 0 .. y - 1, d * (y - e) >= n PROVE e <= t
  <2> DEFINE k == y - e
  <2>1. k \in Nat /\ d * k >= n
    BY <1>11
  <2> HIDE DEF k
  <2>2. k * d >= n
    BY <1>1, <2>1
  <2>3. q <= k
    BY <1>3, <2>1, <2>2
  <2> QED BY <1>3, <2>3 DEF k
<1>12. t = 0 => SwapWithoutFees(amount, x, y) = {}
  BY <1>7, <1>10
<1>13. ASSUME t # 0
       PROVE  \E p \in 0 .. amount :
                /\ (x + p) * (y - t) >= n
                /\ \A s \in 0 .. amount : (x + s) * (y - t) >= n => p <= s
                /\ SwapWithoutFees(amount, x, y) =
                     { [source_amount_swapped |-> p, destination_amount_swapped |-> t] }
  <2>1. q < y
    BY <1>3, <1>10, <1>13
  <2>2. x < v
    <3>1. SUFFICES ASSUME v <= x PROVE FALSE
      BY <1>3
    <3>2. x * q >= v * q
      BY <1>3, <3>1, ProductsGrow
    <3>3. y * x > q * x
      BY <1>3, <2>1, ProductsGrowStrictly
    <3>4. y * x = n /\ q * x = x * q /\ x * q \in Nat
      BY <1>3
    <3> QED BY <1>1, <1>3, <1>8, <3>2, <3>3, <3>4
  <2> DEFINE p == v - x
  <2>3. p \in 0 .. amount /\ x + p = v
    BY <1>3, <2>2
  <2>4. ASSUME NEW s \in 0 .. amount, (x + s) * (y - t) >= n PROVE p <= s
    <3> DEFINE grown == x + s
    <3>1. grown \in Nat
      OBVIOUS
    <3>2. grown * q >= n
      BY <1>10, <2>4
    <3> HIDE DEF grown
    <3>3. v <= grown
      BY <1>3, <3>1, <3>2
    <3> QED BY <1>3, <3>3 DEF grown
  <2>5. (x + p) * (y - t) >= n
    BY <1>3, <1>10, <2>3
  <2>6. SwapWithoutFees(amount, x, y) =
          { [source_amount_swapped |-> p, destination_amount_swapped |-> t] }
    <3>1. x <= v
      BY <1>3, <2>2
    <3> QED BY <1>7, <2>1, <3>1
  <2> HIDE DEF p, t
  <2> QED BY <2>3, <2>4, <2>5, <2>6
<1> HIDE DEF t
<1>14. d * (y - t) >= n
  BY <1>8, <1>10
<1> QED BY <1>10, <1>11, <1>12, <1>13, <1>14 DEF TakesTheBest

\* An offer that grows the source reserve to the product itself buys all tokens
\* but one.
LEMMA ExactOffer ==
    ASSUME NEW x \in Nat \ {0}, NEW y \in Nat, y > 1, x * y \in U128,
           NEW less \in Nat, x + less = x * y
    PROVE  [source_amount_swapped |-> x * y - x, destination_amount_swapped |-> y - 1]
             \in SwapWithoutFees(less, x, y)
<1> DEFINE n == x * y
<1>1. n \in Nat \ {0} /\ n >= x /\ n \in U128
  OBVIOUS
<1>2. n % n = 0 /\ n \div n = 1
  <2> HIDE DEF n
  <2> QED BY <1>1
<1> DEFINE new == [quotient |-> 1, divisor |-> n]
<1>3. CheckedCeilDiv(n, n) = {new}
  <2> HIDE DEF n
  <2> QED BY <1>1, <1>2 DEF CheckedCeilDiv, Some
<1>4. Checked(x * y) = {n} /\ Checked(x + less) = {n}
  BY <1>1 DEF Checked, Some
<1>5. new \in { m \in CheckedCeilDiv(n, n) : x <= m.divisor /\ m.quotient < y }
  <2> HIDE DEF n
  <2> QED BY <1>1, <1>3
<1>6. SwapWithoutFees(less, x, y) =
        { [ source_amount_swapped      |-> m.divisor - x,
            destination_amount_swapped |-> y - m.quotient ] :
            m \in { k \in CheckedCeilDiv(n, n) : x <= k.divisor /\ k.quotient < y } }
  <2> HIDE DEF n
  <2> QED BY <1>4 DEF SwapWithoutFees
<1> QED BY <1>5, <1>6

-----------------------------------------------------------------------------
\* the inputs stay on the grid
GridInv ==
    /\ source \in 1 .. MaxSource
    /\ reserve_in \in 1 .. MaxReserve
    /\ reserve_out \in 1 .. MaxReserve
    /\ pool_supply \in 1 .. MaxReserve

\* a grid holds u64 numbers
LEMMA GridBounds ==
    /\ U64Max \in Nat \ {0}
    /\ MaxReserve \in 1 .. U64Max
    /\ MaxSource \in 1 .. U64Max
  BY U64Assumption, GridAssumption DEF U64

\* the inputs stay on it
LEMMA StaysOnTheGrid == Spec => []GridInv
<1>1. Init => GridInv
  BY GridBounds DEF Init, GridInv
<1>2. GridInv /\ [Next]_vars => GridInv'
  BY GridBounds DEF GridInv, Next, vars
<1> QED BY <1>1, <1>2, PTL DEF Spec

\* what the steps below need of a point of the grid
LEMMA GridPoint ==
    ASSUME GridInv
    PROVE  /\ source \in Nat \ {0} /\ source \in U64
           /\ reserve_in \in Nat \ {0} /\ reserve_out \in Nat \ {0}
           /\ pool_supply \in Nat \ {0}
  BY GridBounds DEF GridInv, U64

-----------------------------------------------------------------------------
\* Trading forth and back: the second trade covers the product the first left.
LEMMA ForthAndBack ==
    ASSUME NEW amount \in Nat, NEW x \in Nat \ {0}, NEW y \in Nat \ {0},
           NEW forth \in SwapWithoutFees(amount, x, y),
           NEW back \in SwapWithoutFees(forth.destination_amount_swapped,
                                        y - forth.destination_amount_swapped,
                                        x + forth.source_amount_swapped)
    PROVE  back.destination_amount_swapped <= forth.source_amount_swapped
<1> DEFINE s == forth.source_amount_swapped  d == forth.destination_amount_swapped
           p == back.source_amount_swapped   t == back.destination_amount_swapped
           x1 == x + s
           y1 == y - d
<1>1. s \in Nat /\ d \in 1 .. y - 1 /\ x1 * y1 >= x * y
  BY SwapWithoutFeesKeepsProduct
<1>2. d \in Nat /\ x1 \in Nat /\ y1 \in Nat
  BY <1>1
<1>3. back \in SwapWithoutFees(d, y1, x1)
  OBVIOUS
<1>4. p \in Nat /\ t \in 1 .. x1 - 1 /\ (y1 + p) * (x1 - t) >= y1 * x1 /\ p <= d
  <2> HIDE DEF d, x1, y1
  <2> QED BY <1>2, <1>3, SwapWithoutFeesKeepsProduct, SwapTakesTheMost
<1> DEFINE left == x1 - t  paid == y1 + p
<1>5. left \in Nat /\ paid \in Nat /\ y >= paid
  BY <1>1, <1>2, <1>4
<1>6. paid * left >= y1 * x1
  BY <1>4
<1> HIDE DEF left, paid, x1, y1
<1>7. y * left >= paid * left
  BY <1>5, ProductsGrow
<1>8. y * left >= x * y
  <2>1. x1 * y1 = y1 * x1 /\ x1 * y1 \in Int /\ x * y \in Int
    BY <1>2
  <2>2. y * left \in Int /\ paid * left \in Int
    BY <1>5
  <2> QED BY <1>1, <1>6, <1>7, <2>1, <2>2
<1>9. left >= x
  <2>1. SUFFICES ASSUME x > left PROVE FALSE
    BY <1>5
  <2>2. x * y > left * y
    BY <1>5, <2>1, ProductsGrowStrictly
  <2> QED BY <1>5, <1>8, <2>2
<1> QED BY <1>1, <1>4, <1>9 DEF left, x1

\* Trading in two parts: the two trades together cover the product the whole
\* trade has to cover, with no more than it is offered.
LEMMA InTwoParts ==
    ASSUME NEW amount \in Nat, NEW x \in Nat, NEW y \in Nat, NEW part \in 1 .. amount - 1,
           NEW first \in SwapWithoutFees(part, x, y),
           NEW second \in SwapWithoutFees(amount - first.source_amount_swapped,
                                          x + first.source_amount_swapped,
                                          y - first.destination_amount_swapped),
           NEW whole \in SwapWithoutFees(amount, x, y)
    PROVE  first.destination_amount_swapped + second.destination_amount_swapped
             <= whole.destination_amount_swapped
<1> DEFINE s1 == first.source_amount_swapped   d1 == first.destination_amount_swapped
           s2 == second.source_amount_swapped  d2 == second.destination_amount_swapped
           x1 == x + s1   y1 == y - d1
           x2 == x1 + s2  y2 == y1 - d2
           rest == amount - s1
<1>1. part \in Nat /\ s1 \in Nat /\ d1 \in 1 .. y - 1 /\ x1 * y1 >= x * y /\ s1 <= part
  BY SwapWithoutFeesKeepsProduct, SwapTakesTheMost
<1>2. x1 \in Nat /\ y1 \in Nat /\ rest \in Nat /\ second \in SwapWithoutFees(rest, x1, y1)
  BY <1>1
<1>3. s2 \in Nat /\ d2 \in 1 .. y1 - 1 /\ x2 * y2 >= x1 * y1 /\ s2 <= rest
  <2> HIDE DEF x1, y1, rest
  <2> QED BY <1>2, SwapWithoutFeesKeepsProduct, SwapTakesTheMost
<1>4. x2 \in Nat /\ y2 \in Nat /\ x + amount >= x2
  BY <1>1, <1>2, <1>3
<1>5. y2 * (x + amount) >= x * y
  <2> HIDE DEF x1, y1, x2, y2
  <2>1. (x + amount) * y2 >= x2 * y2
    BY <1>4, ProductsGrow
  <2>2. /\ x * y \in Int /\ x1 * y1 \in Int /\ x2 * y2 \in Int
        /\ (x + amount) * y2 = y2 * (x + amount) /\ (x + amount) * y2 \in Int
    BY <1>2, <1>4
  <2> QED BY <1>1, <1>3, <2>1, <2>2
<1>6. y - whole.destination_amount_swapped <= y2
  <2> HIDE DEF y2
  <2> QED BY <1>4, <1>5, SwapTakesTheMost
<1>7. whole.destination_amount_swapped \in Int
  BY SwapWithoutFeesKeepsProduct
<1> QED BY <1>1, <1>3, <1>6, <1>7

\* One side of a deposit and the withdrawal of the same pool tokens.
LEMMA InAndOut ==
    ASSUME NEW n \in Nat, NEW supply \in Nat, NEW reserve \in Nat,
           NEW paid \in TradingTokens(n, supply, reserve, "Ceiling"), paid > 0,
           NEW back \in TradingTokens(n, supply + n, reserve + paid, "Floor")
    PROVE  back <= paid
<1>1. supply > 0 /\ paid \in Nat /\ paid * supply >= n * reserve
  BY CeilingCovers
<1> DEFINE all == supply + n  grown == reserve + paid
<1>2. all \in Nat \ {0} /\ grown \in Nat /\ back \in TradingTokens(n, all, grown, "Floor")
  BY <1>1
<1>3. back \in Nat /\ back * all <= n * grown
  <2> HIDE DEF all, grown
  <2> QED BY <1>2, FloorWithin
<1>4. n * grown <= paid * all
  <2>1. n * grown = n * reserve + n * paid
    BY <1>1
  <2>2. paid * all = paid * supply + n * paid
    BY <1>1
  <2>3. /\ n * reserve \in Int /\ n * paid \in Int /\ paid * supply \in Int
    BY <1>1
  <2> QED BY <1>1, <2>1, <2>2, <2>3
<1> HIDE DEF all, grown
<1>5. SUFFICES ASSUME back > paid PROVE FALSE
  BY <1>1, <1>3
<1>6. back * all > paid * all
  BY <1>1, <1>2, <1>3, <1>5, ProductsGrowStrictly
<1>7. back * all \in Int /\ paid * all \in Int /\ n * grown \in Int
  BY <1>1, <1>2, <1>3
<1> QED BY <1>3, <1>4, <1>6, <1>7

-----------------------------------------------------------------------------
\* The curve's swap takes the most that keeps the product and charges the least
\* that pays for it, for all reserves and amounts of a u64; what it refuses is
\* worth nothing, or is taken for a smaller offer.
THEOREM TheSwapIsTheBestTrade == Spec => []SwapIsTheBestTrade
<1>1. ASSUME GridInv PROVE SwapIsTheBestTrade
  <2> DEFINE n == reserve_in * reserve_out
             d == reserve_in + source
             T == { e \in 0 .. reserve_out - 1 : KeepsProduct(source, e) }
             P == { s \in 0 .. source : KeepsProduct(s, Max(T)) }
             trade == SwapWithoutFees(source, reserve_in, reserve_out)
  <2>1. /\ source \in Nat /\ reserve_in \in Nat \ {0} /\ reserve_out \in Nat \ {0}
        /\ source <= U64Max /\ reserve_in <= U64Max /\ reserve_out <= U64Max
        /\ U64Max \in Nat
    BY <1>1, GridPoint, GridBounds DEF GridInv
  <2>2. U128Max = U64Max * U64Max + U64Max + U64Max /\ U64Max * U64Max \in Nat
    BY <2>1 DEF U128Max
  <2>3. n \in Nat /\ U64Max * U64Max >= n
    BY <2>1, ProductsGrow
  <2>4. n \in U128 /\ d \in U128
    BY <2>1, <2>2, <2>3 DEF U128
  <2>5. SUFFICES \/ trade = { [ source_amount_swapped      |-> Min(P),
                                destination_amount_swapped |-> Max(T) ] }
                 \/ trade = {} /\ Max(T) = 0
                 \/ /\ trade = {}
                    /\ \E less \in 1 .. source - 1 :
                         \E smaller \in Swapped(less) :
                           smaller.destination_amount_swapped = Max(T)
    BY DEF SwapIsTheBestTrade, Swapped
  <2>6. CASE n < d
    <3>1. trade = {}
      BY <2>4, <2>6 DEF SwapWithoutFees, CheckedCeilDiv, Checked, Some, None
    <3>2. Max(T) = reserve_out - 1
      <4>1. d * 1 >= n
        BY <2>1, <2>6
      <4>2. reserve_out - 1 \in T
        <5>1. reserve_out - (reserve_out - 1) = 1 /\ reserve_out - 1 \in 0 .. reserve_out - 1
          BY <2>1
        <5> QED BY <4>1, <5>1 DEF KeepsProduct
      <4>3. (\A e \in T : e <= reserve_out - 1) /\ T \subseteq Int
        BY <2>1
      <4> HIDE DEF T
      <4> QED BY <4>2, <4>3, MaxIs
    <3>3. CASE reserve_out = 1
      BY <2>1, <3>1, <3>2, <3>3
    <3>4. CASE reserve_out # 1
      <4> DEFINE less == n - reserve_in
      <4>1. less \in 1 .. source - 1 /\ reserve_in + less = n
        <5>1. n >= reserve_in * 2
          BY <2>1, <3>4, ProductsGrow
        <5> QED BY <2>1, <2>3, <2>6, <5>1
      <4>2. [source_amount_swapped |-> n - reserve_in,
             destination_amount_swapped |-> reserve_out - 1] \in Swapped(less)
        BY <2>1, <2>3, <2>4, <3>4, <4>1, ExactOffer DEF Swapped
      <4> QED BY <3>1, <3>2, <4>1, <4>2
    <3> QED BY <3>3, <3>4
  <2>7. CASE n >= d
    <3>1. PICK t \in 0 .. reserve_out - 1 :
            TakesTheBest(source, reserve_in, reserve_out, n, d, t)
      <4>1. n = reserve_in * reserve_out /\ d = reserve_in + source
        OBVIOUS
      <4> HIDE DEF n, d
      <4> QED BY <2>1, <2>4, <2>7, <4>1, BestTrade
    <3>2. t \in T /\ (\A e \in T : e <= t) /\ T \subseteq Int
      BY <3>1 DEF KeepsProduct, TakesTheBest
    <3>3. Max(T) = t
      <4> HIDE DEF T
      <4> QED BY <3>2, MaxIs
    <3>4. CASE t = 0
      BY <3>1, <3>3, <3>4 DEF TakesTheBest
    <3>5. CASE t # 0
      <4>1. PICK p \in 0 .. source :
              /\ (reserve_in + p) * (reserve_out - t) >= n
              /\ \A s \in 0 .. source :
                   (reserve_in + s) * (reserve_out - t) >= n => p <= s
              /\ trade = { [source_amount_swapped |-> p, destination_amount_swapped |-> t] }
        BY <3>1, <3>5 DEF TakesTheBest
      <4>2. P = { s \in 0 .. source : (reserve_in + s) * (reserve_out - t) >= n }
        <5> HIDE DEF T
        <5> QED BY <3>3 DEF KeepsProduct
      <4>3. p \in P /\ (\A s \in P : p <= s) /\ P \subseteq Int
        <5> HIDE DEF P, n
        <5> QED BY <4>1, <4>2
      <4>4. Min(P) = p
        <5> HIDE DEF P
        <5> QED BY <4>3, MinIs
      <4> HIDE DEF T, P, n, d, trade
      <4> QED BY <3>3, <4>1, <4>4
    <3> QED BY <3>4, <3>5
  <2> QED BY <2>1, <2>3, <2>6, <2>7
<1> QED BY <1>1, StaysOnTheGrid, PTL

\* Trading forth and back returns at most what was paid, for every pair of
\* reserves.
THEOREM TradingBackNeverGains == Spec => []TradingBackGainsNothing
<1>1. GridInv => TradingBackGainsNothing
  BY GridPoint, ForthAndBack DEF TradingBackGainsNothing
<1> QED BY <1>1, StaysOnTheGrid, PTL

\* Splitting a trade in two yields no more than the whole where the whole is
\* accepted, for every pair of reserves and every part.
THEOREM SplittingNeverGains == Spec => []SplittingATradeGainsNothing
<1>1. GridInv => SplittingATradeGainsNothing
  BY GridPoint, InTwoParts DEF SplittingATradeGainsNothing
<1> QED BY <1>1, StaysOnTheGrid, PTL

\* Pool tokens bought on both sides and burnt again return at most what was
\* paid, for every supply and every pair of reserves.
THEOREM DepositThenWithdrawNeverGains == Spec => []DepositThenWithdrawGainsNothing
<1>1. ASSUME GridInv,
             NEW paid \in PoolTokensToTradingTokens(source, pool_supply, reserve_in,
                                                    reserve_out, "Ceiling"),
             paid.token_a_amount > 0, paid.token_b_amount > 0,
             NEW back \in PoolTokensToTradingTokens(source, pool_supply + source,
                              reserve_in + paid.token_a_amount,
                              reserve_out + paid.token_b_amount, "Floor")
      PROVE  /\ back.token_a_amount <= paid.token_a_amount
             /\ back.token_b_amount <= paid.token_b_amount
  <2>1. /\ source \in Nat /\ pool_supply \in Nat
        /\ reserve_in \in Nat /\ reserve_out \in Nat
    BY <1>1, GridPoint
  <2>2. /\ paid.token_a_amount \in TradingTokens(source, pool_supply, reserve_in, "Ceiling")
        /\ paid.token_b_amount \in TradingTokens(source, pool_supply, reserve_out, "Ceiling")
    BY DEF PoolTokensToTradingTokens
  <2>3. /\ back.token_a_amount \in TradingTokens(source, pool_supply + source,
                                       reserve_in + paid.token_a_amount, "Floor")
        /\ back.token_b_amount \in TradingTokens(source, pool_supply + source,
                                       reserve_out + paid.token_b_amount, "Floor")
    BY DEF PoolTokensToTradingTokens
  <2> QED BY <1>1, <2>1, <2>2, <2>3, InAndOut
<1>2. GridInv => DepositThenWithdrawGainsNothing
  BY <1>1 DEF DepositThenWithdrawGainsNothing
<1> QED BY <1>2, StaysOnTheGrid, PTL

\* With fees a trader pays at most the amount named, and what the pool keeps
\* beside the fees still covers the product, for every schedule of fees.
THEOREM FeesNeverComeOutOfThePool == Spec => []FeesComeOutOfTheInput
<1>1. ASSUME GridInv, NEW fees \in Schedules,
             NEW r \in CurveSwap(source, reserve_in, reserve_out, fees)
      PROVE  LET kept == r.new_swap_source_amount - r.trade_fee - r.owner_fee
             IN  /\ r.source_amount_swapped <= source
                 /\ kept >= reserve_in
                 /\ kept * r.new_swap_destination_amount >= reserve_in * reserve_out
  <2>1. /\ source \in Nat /\ source \in U64
        /\ reserve_in \in Nat /\ reserve_out \in Nat /\ fees \in CurveFees
    BY <1>1, GridPoint, GridAssumption
  <2>2. PICK t \in TradingFee(fees, source), o \in OwnerTradingFee(fees, source) :
          /\ t + o <= source
          /\ \E s \in SwapWithoutFees(source - (t + o), reserve_in, reserve_out) :
               r = [ new_swap_source_amount |->
                         reserve_in + s.source_amount_swapped + (t + o),
                     new_swap_destination_amount |->
                         reserve_out - s.destination_amount_swapped,
                     source_amount_swapped      |-> s.source_amount_swapped + (t + o),
                     destination_amount_swapped |-> s.destination_amount_swapped,
                     trade_fee |-> t, owner_fee |-> o ]
    BY DEF CurveSwap
  <2>3. PICK s \in SwapWithoutFees(source - (t + o), reserve_in, reserve_out) :
          /\ r.new_swap_source_amount = reserve_in + s.source_amount_swapped + (t + o)
          /\ r.new_swap_destination_amount = reserve_out - s.destination_amount_swapped
          /\ r.source_amount_swapped = s.source_amount_swapped + (t + o)
          /\ r.trade_fee = t /\ r.owner_fee = o
    BY <2>2
  <2>4. t \in Nat /\ o \in Nat
    BY <2>1, FeesAreNatural
  <2> DEFINE net == source - (t + o)
  <2>5. net \in Nat
    BY <2>1, <2>2, <2>4
  <2>6. /\ s.source_amount_swapped \in Nat /\ s.source_amount_swapped <= net
        /\ (reserve_in + s.source_amount_swapped) * (reserve_out - s.destination_amount_swapped)
             >= reserve_in * reserve_out
    <3>1. s \in SwapWithoutFees(net, reserve_in, reserve_out)
      OBVIOUS
    <3> HIDE DEF net
    <3> QED BY <2>1, <2>5, <3>1, SwapWithoutFeesKeepsProduct, SwapTakesTheMost
  <2>7. r.new_swap_source_amount - r.trade_fee - r.owner_fee
          = reserve_in + s.source_amount_swapped
    BY <2>1, <2>3, <2>4, <2>6
  <2>8. r.source_amount_swapped <= source
    BY <2>1, <2>3, <2>4, <2>6
  <2> QED BY <2>1, <2>3, <2>6, <2>7, <2>8
<1>2. GridInv => FeesComeOutOfTheInput
  BY <1>1 DEF FeesComeOutOfTheInput
<1> QED BY <1>2, StaysOnTheGrid, PTL

-----------------------------------------------------------------------------
(* The invariants with a root.                                              *)

\* A trade never lowers the value of the pool as normalized_value computes it,
\* whatever the rounding of the root: for every pair of reserves and amounts.
THEOREM TradesNeverLoseValue == Spec => []TradesKeepTheNormalizedValue
<1>1. ASSUME GridInv, NEW result \in SwapWithoutFees(source, reserve_in, reserve_out)
      PROVE  NormalizedValue(reserve_in + result.source_amount_swapped,
                             reserve_out - result.destination_amount_swapped)
               >= NormalizedValue(reserve_in, reserve_out)
  <2> DEFINE x == reserve_in + result.source_amount_swapped
             y == reserve_out - result.destination_amount_swapped
  <2>1. source \in Nat /\ reserve_in \in Nat /\ reserve_out \in Nat
    BY <1>1, GridPoint
  <2>2. x \in Nat /\ y \in Nat /\ reserve_in * reserve_out <= x * y
    BY <2>1, SwapWithoutFeesKeepsProduct
  <2>3. NormalizedValue(reserve_in, reserve_out) <= NormalizedValue(x, y)
    <3> HIDE DEF x, y
    <3> QED BY <2>1, <2>2, ValueGrowsWithProduct
  <2>4. /\ NormalizedValue(reserve_in, reserve_out) \in Nat
        /\ NormalizedValue(x, y) \in Nat
    <3> HIDE DEF x, y
    <3> QED BY <2>1, <2>2, ValueIsNatural
  <2> QED BY <2>3, <2>4
<1>2. GridInv => TradesKeepTheNormalizedValue
  BY <1>1 DEF TradesKeepTheNormalizedValue
<1> QED BY <1>2, StaysOnTheGrid, PTL

\* The fixed point resolves a pool token of this pool: the supply, times what
\* the reserve grows by, is at most half of ONE.
FineEnough == 2 * (pool_supply * (reserve_in + source)) <= ONE * reserve_in

\* Taking a single-sided deposit out again costs at least the pool tokens it was
\* given, wherever the fixed point resolves a pool token.
THEOREM SingleSidedRoundTripNeverGains ==
    ASSUME NoWiderThanTheProgram
    PROVE  Spec => [](FineEnough => SingleSidedRoundTripGainsNothing)
<1>1. ASSUME GridInv, FineEnough PROVE SingleSidedRoundTripGainsNothing
  <2>1. source \in Nat /\ source <= U64Max /\ reserve_in \in Nat \ {0} /\ pool_supply \in Nat
    BY <1>1, GridPoint, GridBounds DEF U64
  <2>2. 2 * (pool_supply * (reserve_in + source)) <= ONE * reserve_in
    BY <1>1 DEF FineEnough
  <2> QED BY <2>1, <2>2, SingleSidedRoundTrip DEF SingleSidedRoundTripGainsNothing
<1>2. GridInv => (FineEnough => SingleSidedRoundTripGainsNothing)
  BY <1>1
<1> QED BY <1>2, StaysOnTheGrid, PTL

\* So on a grid as fine as the one that is searched it always does.
FineGrid == 2 * (MaxReserve * (MaxSource + 1)) <= ONE

\* there the fixed point resolves a pool token of every pool
LEMMA FineGridIsFine ==
    ASSUME FineGrid, GridInv PROVE FineEnough
<1>1. /\ source \in Nat /\ reserve_in \in Nat \ {0} /\ pool_supply \in Nat
      /\ source <= MaxSource /\ pool_supply <= MaxReserve
      /\ MaxSource \in Nat /\ MaxReserve \in Nat /\ ONE \in Nat
  BY GridPoint, GridBounds, HalfOfOne DEF GridInv
<1> DEFINE w == source + 1
<1>2. reserve_in + source <= w * reserve_in
  <2>1. source * reserve_in >= source * 1
    BY <1>1, ProductsGrow
  <2>2. w * reserve_in = source * reserve_in + reserve_in
    BY <1>1
  <2>3. source * reserve_in \in Nat
    BY <1>1
  <2> QED BY <1>1, <2>1, <2>2, <2>3
<1>3. pool_supply * w <= MaxReserve * (MaxSource + 1)
  BY <1>1, ProductsGrow
<1>4. w \in Nat /\ pool_supply * w \in Nat /\ MaxReserve * (MaxSource + 1) \in Nat
  BY <1>1
<1> HIDE DEF w
<1>5. pool_supply * (reserve_in + source) <= pool_supply * (w * reserve_in)
  <2>1. w * reserve_in \in Nat
    BY <1>1, <1>4
  <2> QED BY <1>1, <1>2, <2>1, ProductsGrow
<1>6. 2 * (pool_supply * (w * reserve_in)) = (2 * (pool_supply * w)) * reserve_in
  BY <1>1, <1>4
<1>7. (2 * (pool_supply * w)) * reserve_in <= ONE * reserve_in
  <2>1. 2 * (pool_supply * w) <= ONE /\ 2 * (pool_supply * w) \in Nat
    BY <1>1, <1>3, <1>4 DEF FineGrid
  <2> QED BY <1>1, <2>1, ProductsGrow
<1>8. /\ pool_supply * (reserve_in + source) \in Nat
      /\ pool_supply * (w * reserve_in) \in Nat
      /\ ONE * reserve_in \in Nat
  BY <1>1, <1>4
<1>9. 2 * (pool_supply * (reserve_in + source)) <= ONE * reserve_in
  BY <1>5, <1>6, <1>7, <1>8
<1> QED BY <1>9 DEF FineEnough

\* The round trip of one token never gains on a grid that fine, the instance
\* that TLC searches among them.
COROLLARY FineGridRoundTripNeverGains ==
    ASSUME NoWiderThanTheProgram, FineGrid
    PROVE  Spec => []SingleSidedRoundTripGainsNothing
<1>1. GridInv => FineEnough
  BY FineGridIsFine
<1> QED BY <1>1, SingleSidedRoundTripNeverGains, StaysOnTheGrid, PTL
=============================================================================

----------------------- MODULE ConstantProductProofs ------------------------
(***************************************************************************)
(* What the constant product curve guarantees for all reserves and amounts, *)
(* whatever the integer widths.                                             *)
(***************************************************************************)
EXTENDS SwapCurve, FixedPointProofs

\* A divisor rounded up covers the dividend.
LEMMA CeilDivCovers ==
    ASSUME NEW n \in Nat, NEW d \in Nat \ {0}
    PROVE  CeilDiv(n, d) \in Nat /\ CeilDiv(n, d) * d >= n
<1> DEFINE q == n \div d
<1>1. q \in Nat /\ n % d \in 0 .. d - 1 /\ n = d * q + (n % d)
  BY Division
<1> HIDE DEF q
<1>2. d * q = q * d /\ (q + 1) * d = q * d + d
  BY <1>1
<1>3. CASE n % d = 0
  BY <1>1, <1>2, <1>3 DEF CeilDiv, q
<1>4. CASE n % d # 0
  <2>1. CeilDiv(n, d) = q + 1
    BY <1>4 DEF CeilDiv, q
  <2> QED BY <1>1, <1>2, <2>1
<1> QED BY <1>3, <1>4

\* The quotient and divisor of checked_ceil_div are positive and their product
\* is at least the dividend.
LEMMA CheckedCeilDivCovers ==
    ASSUME NEW n \in Nat, NEW d \in Nat, NEW r \in CheckedCeilDiv(n, d)
    PROVE  /\ r.quotient \in Nat \ {0}
           /\ r.divisor \in Nat
           /\ r.divisor * r.quotient >= n
<1>1. d # 0 /\ n >= d
  BY DEF CheckedCeilDiv, None
<1> DEFINE q == n \div d
<1>2. q \in Nat \ {0} /\ n % d \in 0 .. d - 1 /\ n = d * q + (n % d)
  BY <1>1, Division
<1> HIDE DEF q
<1>3. CASE n % d = 0
  <2>1. r.quotient = q /\ r.divisor = d
    BY <1>1, <1>3 DEF CheckedCeilDiv, Some, q
  <2> QED BY <1>2, <1>3, <2>1
<1>4. CASE n % d # 0
  <2>1. r.quotient = q + 1 /\ r.divisor = CeilDiv(n, q + 1)
    BY <1>1, <1>4 DEF CheckedCeilDiv, Some, q
  <2> QED BY <1>2, <2>1, CeilDivCovers
<1> QED BY <1>3, <1>4

\* A trade on the curve takes something, leaves something, and never lowers the
\* product of the reserves.
THEOREM SwapWithoutFeesKeepsProduct ==
    ASSUME NEW source_amount, NEW source \in Nat, NEW destination \in Nat,
           NEW r \in SwapWithoutFees(source_amount, source, destination)
    PROVE  /\ r.source_amount_swapped \in Nat
           /\ r.destination_amount_swapped \in 1 .. destination - 1
           /\ (source + r.source_amount_swapped) * (destination - r.destination_amount_swapped)
                >= source * destination
<1>1. PICK n \in Checked(source * destination), d \in Checked(source + source_amount) :
        \E new \in CheckedCeilDiv(n, d) :
          /\ source <= new.divisor
          /\ new.quotient < destination
          /\ r.source_amount_swapped = new.divisor - source
          /\ r.destination_amount_swapped = destination - new.quotient
  BY DEF SwapWithoutFees
<1>2. PICK new \in CheckedCeilDiv(n, d) :
        /\ source <= new.divisor
        /\ new.quotient < destination
        /\ r.source_amount_swapped = new.divisor - source
        /\ r.destination_amount_swapped = destination - new.quotient
  BY <1>1
<1>3. n = source * destination /\ n \in Nat /\ d \in Nat
  BY U64Assumption DEF Checked, Some, None, U128, U128Max
<1>4. /\ new.quotient \in Nat \ {0} /\ new.divisor \in Nat
      /\ new.divisor * new.quotient >= source * destination
  BY <1>3, CheckedCeilDivCovers
<1>5. /\ source + r.source_amount_swapped = new.divisor
      /\ destination - r.destination_amount_swapped = new.quotient
  BY <1>2, <1>4
<1> QED BY <1>2, <1>4, <1>5

\* No smaller number than the divisor rounded up covers the dividend.
LEMMA CeilDivIsLeast ==
    ASSUME NEW n \in Nat, NEW d \in Nat \ {0}, NEW q \in Nat, q * d >= n
    PROVE  CeilDiv(n, d) <= q
<1> DEFINE k == n \div d
<1>1. k \in Nat /\ n % d \in 0 .. d - 1 /\ n = d * k + (n % d)
  BY Division
<1>2. CeilDiv(n, d) = IF n % d = 0 THEN k ELSE k + 1
  BY DEF CeilDiv
<1> HIDE DEF k
<1>3. d * k = k * d /\ k * d \in Nat /\ q * d \in Nat
  BY <1>1, SMT
<1>4. q >= k
  <2>1. SUFFICES ASSUME k > q PROVE FALSE
    BY <1>1
  <2>2. k * d > q * d
    BY <1>1, <2>1, ProductsGrowStrictly
  <2> QED BY <1>1, <1>3, <2>2
<1>5. n % d # 0 => q # k
  BY <1>1, <1>3
<1> QED BY <1>1, <1>2, <1>4, <1>5

\* Of the quotients that cover the dividend with the divisor given,
\* checked_ceil_div returns the least, and the least divisor for it.
LEMMA CheckedCeilDivIsLeast ==
    ASSUME NEW n \in Nat, NEW d \in Nat, NEW r \in CheckedCeilDiv(n, d)
    PROVE  /\ r.divisor <= d
           /\ \A q \in Nat : q * d >= n => r.quotient <= q
           /\ \A s \in Nat : s * r.quotient >= n => r.divisor <= s
<1>1. d # 0 /\ n >= d
  BY DEF CheckedCeilDiv, None
<1>2. r.quotient = CeilDiv(n, d)
  BY <1>1 DEF CheckedCeilDiv, Some, CeilDiv
<1>3. \A q \in Nat : q * d >= n => r.quotient <= q
  BY <1>1, <1>2, CeilDivIsLeast
<1>4. r.quotient \in Nat \ {0} /\ r.divisor \in Nat
  BY CheckedCeilDivCovers
<1>5. \A s \in Nat : s * r.quotient >= n => r.divisor <= s
  <2> SUFFICES ASSUME NEW s \in Nat, s * r.quotient >= n PROVE r.divisor <= s
    OBVIOUS
  <2>1. CASE n % d # 0
    <3>1. r.divisor = CeilDiv(n, r.quotient)
      BY <1>1, <2>1 DEF CheckedCeilDiv, Some
    <3> QED BY <1>4, <3>1, CeilDivIsLeast
  <2>2. CASE n % d = 0
    <3> DEFINE q == n \div d
    <3>1. r.quotient = q /\ r.divisor = d
      BY <1>1, <2>2 DEF CheckedCeilDiv, Some
    <3>2. n = d * q
      BY <1>1, <2>2, Division
    <3> HIDE DEF q
    <3>3. SUFFICES ASSUME d > s PROVE FALSE
      BY <3>1
    <3>4. d * q > s * q
      BY <1>4, <3>1, <3>3, ProductsGrowStrictly
    <3> QED BY <1>4, <3>1, <3>2, <3>4
  <2> QED BY <2>1, <2>2
<1>6. r.divisor <= d
  BY <1>1, <1>2, <1>4, <1>5, CeilDivCovers
<1> QED BY <1>3, <1>5, <1>6

\* A trade charges no more than is offered, and leaves the least destination
\* reserve that the whole offer covers.
LEMMA SwapTakesTheMost ==
    ASSUME NEW amount \in Nat, NEW x \in Nat, NEW y \in Nat,
           NEW r \in SwapWithoutFees(amount, x, y)
    PROVE  /\ r.source_amount_swapped <= amount
           /\ \A q \in Nat : q * (x + amount) >= x * y
                => y - r.destination_amount_swapped <= q
<1> DEFINE n == x * y  d == x + amount
<1>1. PICK new \in CheckedCeilDiv(n, d) :
        /\ x <= new.divisor
        /\ new.quotient < y
        /\ r.source_amount_swapped = new.divisor - x
        /\ r.destination_amount_swapped = y - new.quotient
  BY DEF SwapWithoutFees, Checked, Some, None
<1>2. n \in Nat /\ d \in Nat
  OBVIOUS
<1>3. new.quotient \in Nat /\ new.divisor \in Nat /\ new.divisor <= d
  BY <1>2, CheckedCeilDivCovers, CheckedCeilDivIsLeast
<1>4. r.source_amount_swapped <= amount
  BY <1>1, <1>3
<1>5. ASSUME NEW q \in Nat, q * d >= n
      PROVE  y - r.destination_amount_swapped <= q
  <2>1. new.quotient <= q
    BY <1>2, <1>5, CheckedCeilDivIsLeast
  <2> QED BY <1>1, <1>3, <2>1
<1> QED BY <1>4, <1>5

\* What a deposit pays, when it pays, covers the share it gets ...
LEMMA CeilingCovers ==
    ASSUME NEW n \in Nat, NEW s \in Nat, NEW x \in Nat,
           NEW q \in TradingTokens(n, s, x, "Ceiling"), q > 0
    PROVE  s > 0 /\ q \in Nat /\ q * s >= n * x
<1> DEFINE m == n * x
<1>1. m \in Nat
  OBVIOUS
<1>2. PICK k \in CheckedDiv(m, s) :
        q = IF k > 0 /\ m % s > 0 THEN k + 1 ELSE k
  BY DEF TradingTokens, Checked, Some, None
<1>3. s # 0 /\ k = m \div s
  BY <1>2 DEF CheckedDiv, Some, None
<1> HIDE DEF m
<1>4. k \in Nat /\ m % s \in 0 .. s - 1 /\ m = s * k + (m % s)
  BY <1>1, <1>3, Division
<1>5. q \in Nat /\ s > 0 /\ k > 0
  BY <1>2, <1>3, <1>4
<1>6. s * k = k * s /\ (k + 1) * s = k * s + s
  BY <1>4, SMT
<1>7. q * s >= m
  BY <1>2, <1>4, <1>5, <1>6
<1> QED BY <1>3, <1>5, <1>7 DEF m

\* ... and what a withdrawal takes is within the share it gives back.
LEMMA FloorWithin ==
    ASSUME NEW n \in Nat, NEW s \in Nat, NEW x \in Nat,
           NEW q \in TradingTokens(n, s, x, "Floor")
    PROVE  s > 0 /\ q \in Nat /\ q * s <= n * x
<1> DEFINE m == n * x
<1>1. m \in Nat
  OBVIOUS
<1>2. q \in CheckedDiv(m, s)
  BY DEF TradingTokens, Checked, Some, None
<1>3. s # 0 /\ q = m \div s
  BY <1>2 DEF CheckedDiv, Some, None
<1> HIDE DEF m
<1>4. q \in Nat /\ m % s \in 0 .. s - 1 /\ m = s * q + (m % s)
  BY <1>1, <1>3, Division
<1>5. s * q = q * s
  BY <1>4, SMT
<1> QED BY <1>3, <1>4, <1>5 DEF m

\* no fee is negative
LEMMA FeeIsNatural ==
    ASSUME NEW fee \in Fraction, NEW n \in Nat
    PROVE  CalculateFee(n, fee) \subseteq Nat
<1> SUFFICES ASSUME NEW f \in CalculateFee(n, fee) PROVE f \in Nat
  OBVIOUS
<1>1. fee.numerator \in Nat /\ fee.denominator \in Nat
  BY U64Assumption DEF U64, Fraction
<1>2. n * fee.numerator \in Nat
  BY <1>1
<1>3. CASE f = 0
  BY <1>3
<1>4. CASE f # 0
  <2>1. PICK q \in CheckedDiv(n * fee.numerator, fee.denominator) : f = IF q = 0 THEN 1 ELSE q
    BY <1>4 DEF CalculateFee, Checked, Some, None
  <2>2. q \in Nat
    BY ZenonT(60), <1>1, <1>2, <2>1, Division DEF CheckedDiv, Some, None
  <2> QED BY <2>1, <2>2
<1> QED BY <1>3, <1>4

LEMMA FeesAreNatural ==
    ASSUME NEW fees \in CurveFees, NEW n \in U64
    PROVE  /\ TradingFee(fees, n) \subseteq Nat
           /\ OwnerTradingFee(fees, n) \subseteq Nat
           /\ OwnerWithdrawFee(fees, n) \subseteq Nat
<1>1. n \in Nat
  BY U64Assumption DEF U64
<1>2. /\ fees.trade_fee \in Fraction /\ fees.owner_trade_fee \in Fraction
      /\ fees.owner_withdraw_fee \in Fraction
  BY DEF CurveFees
<1> QED BY <1>1, <1>2, FeeIsNatural DEF TradingFee, OwnerTradingFee, OwnerWithdrawFee

\* no single-sided withdrawal burns a negative amount
LEMMA WithdrawSingleIsNatural ==
    ASSUME NEW n, NEW x, NEW y, NEW s, NEW d, NEW fees
    PROVE  CurveWithdrawSingle(n, x, y, s, d, fees) \subseteq Nat
<1>1. U128Max \in Nat
  BY U64Assumption DEF U128Max
<1>2. ASSUME NEW z, NEW round PROVE ToInteger(z, round) \subseteq Nat
  BY <1>1 DEF ToInteger, Checked, Some, None, U128
<1>3. ASSUME NEW a, NEW r, NEW u PROVE WithdrawSingleTokenTypeExactOut(a, r, u, "Ceiling") \subseteq Nat
  BY <1>2 DEF WithdrawSingleTokenTypeExactOut
<1> QED BY <1>3 DEF CurveWithdrawSingle, Some

-----------------------------------------------------------------------------
(* An option has at most one value.                                         *)

IsOption(S) == \A x, y \in S : x = y

LEMMA FeeIsAnOption == ASSUME NEW n, NEW fee PROVE IsOption(CalculateFee(n, fee))
BY DEF IsOption, CalculateFee, Checked, CheckedDiv, Some, None

\* a trade gives one result or none
LEMMA SwapIsAnOption ==
    ASSUME NEW n, NEW x, NEW y, NEW fees PROVE IsOption(CurveSwap(n, x, y, fees))
<1>1. ASSUME NEW k, NEW d PROVE IsOption(CheckedCeilDiv(k, d))
  BY DEF IsOption, CheckedCeilDiv, Some, None
<1>2. ASSUME NEW k PROVE IsOption(SwapWithoutFees(k, x, y))
  <2>1. IsOption(Checked(x * y)) /\ IsOption(Checked(x + k))
    BY DEF IsOption, Checked, Some, None
  <2> QED BY <1>1, <2>1 DEF SwapWithoutFees, IsOption
<1>3. IsOption(TradingFee(fees, n)) /\ IsOption(OwnerTradingFee(fees, n))
  BY FeeIsAnOption DEF TradingFee, OwnerTradingFee
<1> QED BY <1>2, <1>3 DEF CurveSwap, IsOption

\* a single-sided withdrawal burns one amount or is refused
LEMMA WithdrawSingleIsAnOption ==
    ASSUME NEW n, NEW x, NEW y, NEW s, NEW d, NEW fees
    PROVE  IsOption(CurveWithdrawSingle(n, x, y, s, d, fees))
<1>1. ASSUME NEW z, NEW round PROVE IsOption(ToInteger(z, round))
  BY DEF IsOption, ToInteger, Checked, Some, None
<1>2. ASSUME NEW a, NEW b PROVE IsOption(PreciseSub(a, b)) /\ IsOption(PreciseDiv(a, b))
  BY DEF IsOption, PreciseSub, PreciseDiv, Some, None
<1>3. ASSUME NEW a, NEW r, NEW u
      PROVE  IsOption(WithdrawSingleTokenTypeExactOut(a, r, u, "Ceiling"))
  BY <1>1, <1>2 DEF IsOption, WithdrawSingleTokenTypeExactOut
<1>4. IsOption(LessHalfTradeFee(n, fees))
  BY FeeIsAnOption DEF IsOption, LessHalfTradeFee, TradingFee
<1> QED BY <1>3, <1>4 DEF IsOption, CurveWithdrawSingle, Some

\* a larger dividend gives no smaller quotient
LEMMA QuotientsGrow ==
    ASSUME NEW u \in Nat, NEW v \in Nat, u >= v, NEW d \in Nat \ {0}
    PROVE  u \div d >= v \div d
<1> DEFINE x == u \div d  y == v \div d
<1>1. /\ x \in Nat /\ u % d \in 0 .. d - 1 /\ u = d * x + (u % d)
      /\ y \in Nat /\ v % d \in 0 .. d - 1 /\ v = d * y + (v % d)
  BY Division
<1> HIDE DEF x, y
<1>2. SUFFICES ASSUME y >= x + 1 PROVE FALSE
  BY <1>1 DEF x, y
<1>3. d * y >= d * (x + 1)
  BY <1>1, <1>2, ProductsGrow
<1>4. d * (x + 1) = d * x + d /\ d * x \in Nat /\ d * y \in Nat
  BY <1>1
<1> QED BY <1>1, <1>3, <1>4

\* Neither a larger amount nor a larger numerator over the same denominator
\* makes a fee smaller, the minimum of one token included.
LEMMA FeesGrow ==
    ASSUME NEW fee \in Fraction, NEW least \in Fraction, AtLeastFraction(fee, least),
           NEW n \in U64, NEW m \in U64, n >= m,
           NEW f \in CalculateFee(n, fee), NEW g \in CalculateFee(m, least)
    PROVE  f \in Nat /\ g \in Nat /\ f >= g
<1> DEFINE d == fee.denominator
           u == n * fee.numerator
           v == m * least.numerator
<1>1. /\ n \in Nat /\ m \in Nat /\ d \in Nat /\ d = least.denominator
      /\ fee.numerator \in Nat /\ least.numerator \in Nat /\ fee.numerator >= least.numerator
  BY U64Assumption DEF U64, Fraction, AtLeastFraction
<1>2. u \in Nat /\ v \in Nat /\ u >= v
  BY <1>1, ProductsGrow
<1>3. fee.numerator = 0 \/ n = 0 => f = 0
  BY DEF CalculateFee, Some
<1>4. ~(fee.numerator = 0 \/ n = 0) =>
        \E q \in CheckedDiv(u, d) : f = IF q = 0 THEN 1 ELSE q
  BY DEF CalculateFee, Checked, Some, None
<1>5. least.numerator = 0 \/ m = 0 => g = 0
  BY DEF CalculateFee, Some
<1>6. ~(least.numerator = 0 \/ m = 0) =>
        \E q \in CheckedDiv(v, d) : g = IF q = 0 THEN 1 ELSE q
  BY <1>1 DEF CalculateFee, Checked, Some, None
<1> HIDE DEF d, u, v
<1>7. \A q : /\ q \in CheckedDiv(u, d) => d # 0 /\ q = u \div d
             /\ q \in CheckedDiv(v, d) => d # 0 /\ q = v \div d
  BY DEF CheckedDiv, Some, None
<1>8. d # 0 => u \div d \in Nat /\ v \div d \in Nat /\ u \div d >= v \div d
  BY <1>1, <1>2, Division, QuotientsGrow
<1>9. CASE least.numerator = 0 \/ m = 0
  BY <1>3, <1>4, <1>5, <1>7, <1>8, <1>9
<1>10. CASE ~(least.numerator = 0 \/ m = 0)
  <2>1. ~(fee.numerator = 0 \/ n = 0)
    BY <1>1, <1>10
  <2> QED BY <1>4, <1>6, <1>7, <1>8, <1>10, <2>1
<1> QED BY <1>9, <1>10

\* the share rounded down is within one token of the share
LEMMA FloorIsTheShare ==
    ASSUME NEW n \in Nat, NEW s \in Nat, NEW x \in Nat,
           NEW q \in TradingTokens(n, s, x, "Floor"), n <= s
    PROVE  q \in Nat /\ q <= x /\ q * s <= x * n /\ x * n < (q + 1) * s
<1> DEFINE m == n * x
<1>1. s > 0 /\ q \in Nat /\ q * s <= m
  BY FloorWithin
<1>2. q \in CheckedDiv(m, s)
  BY DEF TradingTokens, Checked, Some, None
<1>3. q = m \div s /\ m \in Nat
  BY <1>2 DEF CheckedDiv, Some, None
<1>4. x * n = m
  OBVIOUS
<1> HIDE DEF m
<1>5. m % s \in 0 .. s - 1 /\ m = s * q + (m % s)
  BY <1>1, <1>3, Division
<1>6. s * q = q * s /\ (q + 1) * s = q * s + s /\ q * s \in Nat
  BY <1>1
<1>7. m < (q + 1) * s
  BY <1>1, <1>5, <1>6
<1>8. q <= x
  <2>1. SUFFICES ASSUME q > x PROVE FALSE
    BY <1>1
  <2>2. q * s > x * s
    BY <1>1, <2>1, ProductsGrowStrictly
  <2>3. x * s >= x * n
    BY ProductsGrow
  <2>4. x * s \in Nat /\ x * n \in Nat
    OBVIOUS
  <2> QED BY <1>1, <1>4, <1>6, <2>2, <2>3, <2>4
<1> QED BY <1>1, <1>4, <1>7, <1>8

\* with its fees a trade costs at most what was offered
LEMMA CurveSwapCharges ==
    ASSUME NEW n \in U64, NEW source \in Nat, NEW destination \in Nat, NEW fees \in CurveFees,
           NEW r \in CurveSwap(n, source, destination, fees)
    PROVE  r.source_amount_swapped \in Nat /\ r.source_amount_swapped <= n
<1>1. PICK t \in TradingFee(fees, n), o \in OwnerTradingFee(fees, n) :
        /\ t + o <= n
        /\ \E s \in SwapWithoutFees(n - (t + o), source, destination) :
             r.source_amount_swapped = s.source_amount_swapped + (t + o)
  BY DEF CurveSwap
<1>2. PICK s \in SwapWithoutFees(n - (t + o), source, destination) :
        r.source_amount_swapped = s.source_amount_swapped + (t + o)
  BY <1>1
<1>3. t \in Nat /\ o \in Nat /\ n \in Nat
  BY FeesAreNatural, U64Assumption DEF U64
<1>4. s.source_amount_swapped \in Nat
  BY SwapWithoutFeesKeepsProduct
<1>5. s.source_amount_swapped <= n - (t + o)
  BY <1>1, <1>3, SwapTakesTheMost
<1> QED BY <1>1, <1>2, <1>3, <1>4, <1>5

-----------------------------------------------------------------------------
(* The value of a pool.                                                     *)

\* The normalized value is the root of the product
LEMMA ValueIsRoot ==
    ASSUME NEW a \in Nat, NEW b \in Nat
    PROVE  NormalizedValue(a, b) = PreciseSqrt((a * b) * ONE) /\ (a * b) * ONE \in Nat
<1>1. ONE \in Nat
  BY HalfOfOne
<1>2. b * ONE \in Nat /\ a * (b * ONE) = (a * b) * ONE /\ (a * b) * ONE \in Nat
  BY <1>1
<1> QED BY <1>2, PreciseProduct DEF Precise, NormalizedValue

\* a number
LEMMA ValueIsNatural ==
    ASSUME NEW a \in Nat, NEW b \in Nat PROVE NormalizedValue(a, b) \in Nat
BY ValueIsRoot, SqrtIsNatural

\* and grows with it
LEMMA ValueGrowsWithProduct ==
    ASSUME NEW a \in Nat, NEW b \in Nat, NEW c \in Nat, NEW d \in Nat, a * b <= c * d
    PROVE  NormalizedValue(a, b) <= NormalizedValue(c, d)
<1> DEFINE m == a * b  n == c * d
<1>1. m \in Nat /\ n \in Nat /\ ONE \in Nat
  BY HalfOfOne
<1> HIDE DEF m, n
<1>2. m * ONE <= n * ONE
  BY <1>1, ProductsGrow DEF m, n
<1>3. m * ONE \in Nat /\ n * ONE \in Nat
  BY <1>1
<1>4. PreciseSqrt(m * ONE) <= PreciseSqrt(n * ONE)
  BY <1>2, <1>3, SqrtGrows
<1>5. NormalizedValue(a, b) = PreciseSqrt(m * ONE) /\ NormalizedValue(c, d) = PreciseSqrt(n * ONE)
  BY ValueIsRoot DEF m, n
<1> QED BY <1>4, <1>5

-----------------------------------------------------------------------------
(* The single-sided operations, as inequalities on whole numbers.           *)

\* Nothing here is wider than in the program, whose ONE is 10^12.
NoWiderThanTheProgram == ONE <= 1000000 * 1000000 /\ U64Max < TwoTo64

\* a sum of ONE and a ratio of u64 numbers is in the range of SqrtIsTheRoot
LEMMA RadicandFits ==
    ASSUME NoWiderThanTheProgram, NEW s \in Nat, s <= U64Max,
           NEW x \in Nat, x <= ONE + s * ONE
    PROVE  x + ONE <= TwoTo104
<1> DEFINE w == 1000000 * 1000000
           p == TwoTo16 * 65536 * 256
<1>1. w \in Nat /\ p \in Nat /\ w + 1 <= p
  BY SMT DEF TwoTo16
<1>2. TwoTo104 = TwoTo64 * p
  <2>1. ((TwoTo64 * TwoTo16) * TwoTo16) * 256 = TwoTo64 * (TwoTo16 * TwoTo16 * 256)
    BY Powers
  <2>2. TwoTo16 * TwoTo16 * 256 = p
    BY SMT DEF TwoTo16
  <2> HIDE DEF p
  <2> QED BY <2>1, <2>2 DEF TwoTo104, TwoTo96, TwoTo80
<1>3. w <= TwoTo64
  <2>1. TwoTo32 >= 1000000
    BY SMT DEF TwoTo32, TwoTo16
  <2>2. TwoTo32 * TwoTo32 >= 1000000 * 1000000
    BY <2>1, Powers, ProductsGrow
  <2> QED BY <2>2 DEF TwoTo64
<1>4. ONE \in Nat /\ ONE <= w /\ s + 1 <= TwoTo64
  BY U64Assumption, HalfOfOne, Powers DEF NoWiderThanTheProgram
<1> HIDE DEF w, p
<1>5. (s + 1) * ONE <= TwoTo64 * w
  BY <1>1, <1>4, Powers, ProductsGrow
<1>6. ONE + s * ONE = (s + 1) * ONE /\ s * ONE \in Nat /\ (s + 1) * ONE \in Nat
  BY <1>4
<1>7. TwoTo64 * w + TwoTo64 <= TwoTo64 * p
  <2>1. TwoTo64 * (w + 1) <= TwoTo64 * p
    BY <1>1, Powers, ProductsGrow
  <2>2. TwoTo64 * (w + 1) = TwoTo64 * w + TwoTo64
    BY <1>1, Powers
  <2> QED BY <2>1, <2>2
<1>8. TwoTo64 * w \in Nat /\ TwoTo64 * p \in Nat
  BY <1>1, Powers
<1> QED BY <1>1, <1>2, <1>3, <1>4, <1>5, <1>6, <1>7, <1>8, Powers

\* If u / s is at most the root of x to the precision of the fixed point, its
\* square is at most x + 1.
LEMMA SquareRatio ==
    ASSUME NEW u \in Nat, NEW s \in Nat, NEW v \in Nat, NEW x \in Nat, NEW e \in Nat \ {0},
           u * e <= s * v, v * v <= (x + 1) * e
    PROVE  (u * u) * e <= (s * s) * (x + 1)
<1>1. (u * e) * (u * e) <= (s * v) * (s * v)
  <2>1. u * e \in Nat /\ s * v \in Nat
    OBVIOUS
  <2> QED BY <2>1, ProductsGrow
<1>2. (s * v) * (s * v) = (s * s) * (v * v) /\ (u * e) * (u * e) = ((u * u) * e) * e
  OBVIOUS
<1>3. (s * s) * (v * v) <= (s * s) * ((x + 1) * e)
  <2>1. s * s \in Nat /\ v * v \in Nat /\ (x + 1) * e \in Nat
    OBVIOUS
  <2> QED BY <2>1, ProductsGrow
<1>4. (s * s) * ((x + 1) * e) = ((s * s) * (x + 1)) * e
  OBVIOUS
<1> DEFINE a == (u * u) * e  b == (s * s) * (x + 1)
<1>5. a \in Nat /\ b \in Nat /\ (s * s) * (v * v) \in Nat
  OBVIOUS
<1>6. a * e <= b * e
  <2>1. a * e \in Nat /\ b * e \in Nat
    BY <1>5
  <2>2. a * e = (u * e) * (u * e) /\ b * e = (s * s) * ((x + 1) * e)
    BY <1>2, <1>4
  <2> HIDE DEF a, b
  <2> QED BY <1>1, <1>2, <1>3, <1>5, <2>1, <2>2
<1> HIDE DEF a, b
<1>7. a <= b
  BY <1>5, <1>6, FactorCancels
<1> QED BY <1>7 DEF a, b

\* the same, with the denominator of x brought over
LEMMA SquareRatioOver ==
    ASSUME NEW u \in Nat, NEW s \in Nat, NEW v \in Nat, NEW x \in Nat, NEW e \in Nat \ {0},
           u * e <= s * v, v * v <= (x + 1) * e, NEW d \in Nat, NEW y \in Nat, x * d + d <= y
    PROVE  (u * u) * (d * e) <= (s * s) * y
<1> DEFINE a == (u * u) * e  b == s * s
<1>1. a \in Nat /\ b \in Nat /\ a <= b * (x + 1)
  BY SquareRatio
<1>2. (u * u) * (d * e) = a * d
  OBVIOUS
<1> HIDE DEF a, b
<1>3. a * d <= (b * (x + 1)) * d
  <2>1. b * (x + 1) \in Nat
    BY <1>1
  <2> QED BY <1>1, <2>1, ProductsGrow
<1>4. (b * (x + 1)) * d = b * (x * d + d)
  BY <1>1
<1>5. b * (x * d + d) <= b * y
  <2>1. x * d + d \in Nat
    OBVIOUS
  <2> QED BY <1>1, <2>1, ProductsGrow
<1>6. a * d \in Nat /\ b * (x * d + d) \in Nat /\ b * y \in Nat
  BY <1>1
<1> QED BY <1>2, <1>3, <1>4, <1>5, <1>6 DEF b

\* What a single-sided deposit mints, rounded down, is at most the growth of the
\* root of the reserve, to one unit of the fixed point.
LEMMA DepositSingleWithin ==
    ASSUME NoWiderThanTheProgram, NEW s \in Nat, s <= U64Max, NEW reserve \in Nat \ {0},
           NEW supply \in Nat, NEW m \in DepositSingleTokenType(s, reserve, supply, "Floor")
    PROVE  /\ m \in Nat
           /\ ((supply + m) * (supply + m)) * (reserve * ONE)
                <= (supply * supply) * ((reserve + s) * ONE + reserve)
<1> DEFINE q == (s * ONE) \div reserve
           x == ONE + q
           v == PreciseSqrt(x)
<1>1. q \in Nat /\ q * reserve <= s * ONE /\ ONE \in Nat \ {0} /\ Precise(1) = ONE
  BY PreciseRatio, HalfOfOne DEF Precise
<1>2. /\ PreciseSub(v, Precise(1)) # {}
      /\ \A root \in PreciseSub(v, Precise(1)) :
           m \in ToInteger(PreciseMul(Precise(supply), root), "Floor")
  <2>1. PreciseDiv(Precise(s), Precise(reserve)) = {q}
    BY PreciseRatio
  <2>2. PICK root \in PreciseSub(v, Precise(1)) :
          m \in ToInteger(PreciseMul(Precise(supply), root), "Floor")
    BY <1>1, <2>1 DEF DepositSingleTokenType
  <2>3. \A other \in PreciseSub(v, Precise(1)) : other = root
    BY DEF PreciseSub, Some, None
  <2> QED BY <2>2, <2>3
<1> HIDE DEF q
<1>3. q <= s * ONE /\ s * ONE \in Nat
  <2>1. q * reserve >= q * 1
    BY <1>1, ProductsGrow
  <2>2. s * ONE \in Nat /\ q * reserve \in Nat
    BY <1>1
  <2> QED BY <1>1, <2>1, <2>2
<1>4. x \in Nat /\ x + ONE <= TwoTo104
  <2>1. x \in Nat /\ x <= ONE + s * ONE
    BY <1>1, <1>3
  <2> HIDE DEF x
  <2> QED BY <2>1, RadicandFits
<1>5. v \in Nat /\ v * v <= (x + 1) * ONE
  <2> HIDE DEF x
  <2> QED BY <1>4, SquareOfRoot
<1> HIDE DEF v
<1>6. ONE <= v /\ m \in ToInteger(PreciseMul(Precise(supply), v - ONE), "Floor")
  BY <1>1, <1>2 DEF PreciseSub, Some, None
<1> DEFINE n == supply * (v - ONE)
<1>7. v - ONE \in Nat /\ n \in Nat /\ PreciseMul(Precise(supply), v - ONE) = n
  <2>1. v - ONE \in Nat
    BY <1>1, <1>5, <1>6
  <2>2. n \in Nat
    BY <2>1
  <2> QED BY <2>1, <2>2, PreciseProduct
<1>8. m = n \div ONE
  <2> HIDE DEF n
  <2> QED BY <1>6, <1>7 DEF ToInteger, Checked, Some, None
<1>9. m \in Nat /\ m * ONE <= n
  <2> HIDE DEF n
  <2>1. m \in Nat /\ n % ONE \in 0 .. ONE - 1 /\ n = ONE * m + (n % ONE)
    BY <1>1, <1>7, <1>8, Division
  <2>2. ONE * m = m * ONE /\ m * ONE \in Nat
    BY <1>1, <2>1
  <2> QED BY <1>1, <1>7, <2>1, <2>2
<1>10. (supply + m) * ONE <= supply * v
  <2>1. n = supply * v - supply * ONE
    BY <1>1, <1>5
  <2>2. (supply + m) * ONE = supply * ONE + m * ONE
    BY <1>1, <1>9
  <2>3. supply * v \in Nat /\ supply * ONE \in Nat /\ m * ONE \in Nat
    BY <1>1, <1>5, <1>9
  <2> HIDE DEF n
  <2> QED BY <1>7, <1>9, <2>1, <2>2, <2>3
<1> DEFINE y == (reserve + s) * ONE + reserve
<1>11. y \in Nat /\ x * reserve + reserve <= y
  <2>1. x * reserve = ONE * reserve + q * reserve
    BY <1>1
  <2>2. (reserve + s) * ONE = ONE * reserve + s * ONE
    BY <1>1
  <2>3. ONE * reserve \in Nat /\ q * reserve \in Nat /\ s * ONE \in Nat
    BY <1>1
  <2> HIDE DEF x
  <2> QED BY <1>1, <2>1, <2>2, <2>3
<1> DEFINE u == supply + m
<1>12. (u * u) * (reserve * ONE) <= (supply * supply) * y
  <2>1. u \in Nat /\ u * ONE <= supply * v
    BY <1>9, <1>10
  <2> HIDE DEF u, y, x
  <2> QED BY <1>1, <1>4, <1>5, <1>11, <2>1, SquareRatioOver
<1> QED BY <1>9, <1>12

\* What a single-sided withdrawal burns: q is the ratio of what is taken, v the
\* root of the rest, and the part of the supply above it is rounded up.
LEMMA WithdrawSingleBurns ==
    ASSUME NoWiderThanTheProgram, NEW reserve \in Nat \ {0}, NEW s \in Nat,
           NEW supply \in Nat, NEW b \in WithdrawSingleTokenTypeExactOut(s, reserve, supply, "Ceiling")
    PROVE  /\ b \in Nat
           /\ \E q \in 0 .. ONE, v \in 0 .. ONE :
                /\ q * reserve <= s * ONE /\ s * ONE < q * reserve + reserve
                /\ v = PreciseSqrt(ONE - q) /\ ONE - q + ONE <= TwoTo104
                /\ supply * (ONE - v) <= b * ONE /\ b * ONE < supply * (ONE - v) + ONE
<1> DEFINE q == (s * ONE) \div reserve
           x == ONE - q
           v == PreciseSqrt(x)
<1>1. /\ q \in Nat /\ q * reserve <= s * ONE /\ s * ONE < q * reserve + reserve
      /\ ONE \in Nat \ {0} /\ Precise(1) = ONE
  BY PreciseRatio, HalfOfOne DEF Precise
<1>2. /\ q <= ONE
      /\ PreciseSub(Precise(1), v) # {}
      /\ \A root \in PreciseSub(Precise(1), v) :
           b \in ToInteger(PreciseMul(Precise(supply), root), "Ceiling")
  <2>1. PreciseDiv(Precise(s), Precise(reserve)) = {q}
    BY PreciseRatio
  <2>2. PICK base \in PreciseSub(Precise(1), q) :
          \E root \in PreciseSub(Precise(1), PreciseSqrt(base)) :
            b \in ToInteger(PreciseMul(Precise(supply), root), "Ceiling")
    BY <2>1 DEF WithdrawSingleTokenTypeExactOut
  <2>3. q <= ONE /\ base = x
    BY <1>1, <2>2 DEF PreciseSub, Some, None
  <2>4. PICK root \in PreciseSub(Precise(1), v) :
          b \in ToInteger(PreciseMul(Precise(supply), root), "Ceiling")
    BY <2>2, <2>3
  <2>5. \A other \in PreciseSub(Precise(1), v) : other = root
    BY DEF PreciseSub, Some, None
  <2> QED BY <2>3, <2>4, <2>5
<1> HIDE DEF q
<1>3. x \in Nat /\ x + ONE <= TwoTo104
  <2>1. x \in Nat /\ x <= ONE + 0 * ONE /\ 0 <= U64Max
    BY <1>1, <1>2, U64Assumption
  <2> HIDE DEF x
  <2> QED BY <2>1, RadicandFits
<1>4. v \in Nat
  <2> HIDE DEF x
  <2> QED BY <1>3, SquareOfRoot
<1>5. v <= ONE /\ b \in ToInteger(PreciseMul(Precise(supply), ONE - v), "Ceiling")
  <2> HIDE DEF v
  <2> QED BY <1>1, <1>2, <1>4 DEF PreciseSub, Some, None
<1> DEFINE n == supply * (ONE - v)
           k == n + ONE - 1
<1>6. ONE - v \in Nat /\ n \in Nat /\ PreciseMul(Precise(supply), ONE - v) = n
  <2> HIDE DEF v
  <2>1. ONE - v \in Nat
    BY <1>1, <1>4, <1>5
  <2>2. n \in Nat
    BY <2>1
  <2> QED BY <2>1, <2>2, PreciseProduct
<1>7. b = k \div ONE
  <2>1. b \in ToInteger(n, "Ceiling")
    BY <1>5, <1>6
  <2> HIDE DEF n
  <2>2. b \in Checked((n + ONE - 1) \div ONE)
    BY <2>1 DEF ToInteger
  <2> QED BY <2>2 DEF Checked, Some, None
<1>8. b \in Nat /\ n <= b * ONE /\ b * ONE < n + ONE
  <2> HIDE DEF n
  <2>1. k \in Nat
    BY <1>1, <1>6
  <2>2. b \in Nat /\ k % ONE \in 0 .. ONE - 1 /\ k = ONE * b + (k % ONE)
    <3> HIDE DEF k
    <3> QED BY <1>1, <1>7, <2>1, Division
  <2>3. ONE * b = b * ONE /\ b * ONE \in Nat
    BY <1>1, <2>2
  <2> QED BY <1>1, <1>6, <2>1, <2>2, <2>3
<1>9. q \in 0 .. ONE /\ v \in 0 .. ONE
  <2> HIDE DEF v
  <2> QED BY <1>1, <1>2, <1>4, <1>5
<1> HIDE DEF v
<1> QED BY <1>1, <1>3, <1>8, <1>9 DEF v

\* What a single-sided withdrawal burns leaves at most the part of the supply that
\* the root of the reserve shrinks to.
LEMMA WithdrawSingleWithin ==
    ASSUME NoWiderThanTheProgram, NEW reserve \in Nat \ {0}, NEW s \in 0 .. reserve,
           NEW supply \in Nat, NEW b \in WithdrawSingleTokenTypeExactOut(s, reserve, supply, "Ceiling")
    PROVE  /\ b \in Nat
           /\ b <= supply =>
                ((supply - b) * (supply - b)) * (reserve * ONE)
                  <= (supply * supply) * ((reserve - s) * ONE + 2 * reserve)
<1>1. PICK q \in 0 .. ONE, v \in 0 .. ONE :
        /\ q * reserve <= s * ONE /\ s * ONE < q * reserve + reserve
        /\ v = PreciseSqrt(ONE - q) /\ ONE - q + ONE <= TwoTo104
        /\ supply * (ONE - v) <= b * ONE
  BY WithdrawSingleBurns
<1>2. b \in Nat /\ ONE \in Nat \ {0}
  BY WithdrawSingleBurns, HalfOfOne
<1> DEFINE x == ONE - q
           u == supply - b
           y == (reserve - s) * ONE + 2 * reserve
<1>3. x \in Nat /\ v \in Nat /\ v * v <= (x + 1) * ONE
  <2>1. x \in Nat /\ x + ONE <= TwoTo104 /\ v = PreciseSqrt(x)
    BY <1>1, <1>2
  <2> HIDE DEF x
  <2> QED BY <2>1, SquareOfRoot
<1>4. y \in Nat /\ x * reserve + reserve <= y
  <2>1. x * reserve = ONE * reserve - q * reserve
    BY <1>2
  <2>2. (reserve - s) * ONE = ONE * reserve - s * ONE
    BY <1>2
  <2>3. ONE * reserve \in Nat /\ q * reserve \in Nat /\ s * ONE \in Nat
    BY <1>2
  <2>4. (reserve - s) * ONE \in Nat
    BY <1>2
  <2> HIDE DEF x
  <2> QED BY <1>1, <2>1, <2>2, <2>3, <2>4
<1>5. ASSUME b <= supply PROVE (u * u) * (reserve * ONE) <= (supply * supply) * y
  <2>1. supply * (ONE - v) = supply * ONE - supply * v /\ u * ONE = supply * ONE - b * ONE
    BY <1>2
  <2>2. supply * v \in Nat /\ supply * ONE \in Nat /\ b * ONE \in Nat /\ u \in Nat
    BY <1>2, <1>3, <1>5
  <2>3. u * ONE <= supply * v
    <3> HIDE DEF u
    <3> QED BY <1>1, <2>1, <2>2
  <2> HIDE DEF u, y, x
  <2> QED BY <1>2, <1>3, <1>4, <2>2, <2>3, SquareRatioOver
<1> QED BY <1>2, <1>5

\* What the pool's owner is given for a fee of o tokens out of a reserve of X,
\* but for the last pool token, dilutes the others by at most what o adds to the
\* root of the reserve, to one unit of the fixed point.
LEMMA OwnerFeeWithin ==
    ASSUME NoWiderThanTheProgram, NEW reserve \in Nat \ {0}, NEW o \in 0 .. reserve,
           NEW supply \in Nat, NEW b \in WithdrawSingleTokenTypeExactOut(o, reserve, supply, "Ceiling"),
           b >= 1
    PROVE  ((supply + b - 1) * (supply + b - 1)) * ((reserve - o) * (ONE * ONE))
             <= (supply * supply) * (reserve * ((ONE + 1) * (ONE + 1)))
<1>1. PICK q \in 0 .. ONE, v \in 0 .. ONE :
        /\ q * reserve <= o * ONE
        /\ v = PreciseSqrt(ONE - q) /\ ONE - q + ONE <= TwoTo104
        /\ b * ONE < supply * (ONE - v) + ONE
  BY WithdrawSingleBurns
<1>2. b \in Nat /\ ONE \in Nat \ {0} /\ ONE \div 2 \in Nat
  BY WithdrawSingleBurns, HalfOfOne
<1> DEFINE x == ONE - q
           w == v + 1
           z == 2 * ONE + 1 - w
           u == supply + b - 1
           rest == reserve - o
           e == ONE * ONE
<1>3. x \in Nat /\ w \in Nat /\ z \in Nat /\ u \in Nat /\ rest \in Nat /\ e \in Nat \ {0}
  <2>1. e \in Nat \ {0}
    BY <1>2, PositiveProduct
  <2> HIDE DEF e
  <2> QED BY <1>2, <2>1
\* the root is the root to less than one
<1>4. x * ONE <= w * w
  <2>1. x \in Nat /\ x + ONE <= TwoTo104 /\ v = PreciseSqrt(x)
    BY <1>1, <1>3
  <2>2. x # 0 => w * w > Radicand(x)
    <3> HIDE DEF x
    <3> QED BY <2>1, SqrtIsTheRoot
  <2>3. x * ONE \in Nat /\ w * w \in Nat
    BY <1>2, <1>3
  <2>4. CASE x = 0
    BY <1>2, <2>3, <2>4
  <2>5. CASE x # 0
    <3> HIDE DEF x, w
    <3> QED BY <1>2, <2>2, <2>3, <2>5 DEF Radicand
  <2> QED BY <2>4, <2>5
\* the supply grows by at most the distance of that root from one
<1>5. u * ONE <= supply * z
  <2>1. supply * (ONE - v) = supply * ONE - supply * v
    BY <1>2
  <2>2. u * ONE = supply * ONE + b * ONE - ONE
    BY <1>2
  <2>3. supply * z = supply * ONE + supply * ONE - supply * v
    BY <1>2
  <2>4. supply * v \in Nat /\ supply * ONE \in Nat /\ b * ONE \in Nat
    BY <1>2
  <2>5. u * ONE \in Int /\ supply * z \in Int
    BY <1>2, <1>3
  <2> HIDE DEF u, z
  <2> QED BY <1>1, <1>2, <2>1, <2>2, <2>3, <2>4, <2>5
\* two numbers with a given sum have the largest product when they are closest
<1>6. z * w <= ONE * (ONE + 1)
  <2> DEFINE d == w - ONE
  <2>1. d \in Int /\ w = ONE + d
    BY <1>2, <1>3
  <2>2. z * w = ONE * (ONE + 1) - d * (d - 1)
    BY <1>2, <1>3
  <2>3. d * (d - 1) >= 0
    <3> HIDE DEF d
    <3>1. CASE d >= 1
      <4>1. d \in Nat /\ d - 1 \in Nat
        BY <2>1, <3>1
      <4>2. d * (d - 1) \in Nat
        BY <4>1
      <4> QED BY <4>2
    <3>2. CASE d <= 0
      <4> DEFINE m == 0 - d
      <4>1. m \in Nat /\ m + 1 \in Nat
        BY <2>1, <3>2
      <4>2. m * (m + 1) \in Nat /\ d * (d - 1) = m * (m + 1)
        BY <2>1, <4>1
      <4> QED BY <4>2
    <3> QED BY <2>1, <3>1, <3>2
  <2>4. z * w \in Int /\ ONE * (ONE + 1) \in Int /\ d * (d - 1) \in Int
    BY <1>2, <1>3
  <2> HIDE DEF z, w, d
  <2> QED BY <2>2, <2>3, <2>4
\* what is left of the reserve is at most the square of the root
<1>7. rest * e <= reserve * (w * w)
  <2>1. rest * ONE <= reserve * x
    <3>1. reserve * x = reserve * ONE - q * reserve /\ rest * ONE = reserve * ONE - o * ONE
      BY <1>2, <1>3
    <3>2. reserve * ONE \in Nat /\ q * reserve \in Nat /\ o * ONE \in Nat
      BY <1>2
    <3> HIDE DEF x, rest
    <3> QED BY <1>1, <3>1, <3>2
  <2>2. (rest * ONE) * ONE <= (reserve * x) * ONE
    <3>1. rest * ONE \in Nat /\ reserve * x \in Nat
      BY <1>2, <1>3
    <3> QED BY <1>2, <2>1, <3>1, ProductsGrow
  <2>3. reserve * (x * ONE) <= reserve * (w * w)
    <3>1. x * ONE \in Nat /\ w * w \in Nat
      BY <1>2, <1>3
    <3> QED BY <1>4, <3>1, ProductsGrow
  <2>4. (rest * ONE) * ONE = rest * e /\ (reserve * x) * ONE = reserve * (x * ONE)
    BY <1>2, <1>3
  <2>5. rest * e \in Int /\ reserve * (x * ONE) \in Int /\ reserve * (w * w) \in Int
    BY <1>2, <1>3
  <2> HIDE DEF rest, e, x, w
  <2> QED BY <2>2, <2>3, <2>4, <2>5
\* the three together, ONE * ONE too often on both sides
<1> DEFINE left == (u * u) * (rest * e)
           right == (supply * supply) * (reserve * ((ONE + 1) * (ONE + 1)))
<1>8. left \in Nat /\ right \in Nat
  <2>1. u * u \in Nat /\ rest * e \in Nat
    BY <1>3
  <2>2. supply * supply \in Nat /\ (ONE + 1) * (ONE + 1) \in Nat
    BY <1>2
  <2>3. reserve * ((ONE + 1) * (ONE + 1)) \in Nat
    BY <2>2
  <2> HIDE DEF u, rest, e
  <2> QED BY <2>1, <2>2, <2>3
<1>9. left * e <= right * e
  <2> DEFINE ue == u * ONE  sz == supply * z  zw == z * w  ee == ONE * (ONE + 1)
  <2>0. /\ ue \in Nat /\ sz \in Nat /\ zw \in Nat /\ ee \in Nat /\ w * w \in Nat
        /\ ue <= sz /\ zw <= ee /\ rest * e \in Nat
    BY <1>2, <1>3, <1>5, <1>6
  <2>00. reserve * (w * w) \in Nat
    BY <2>0
  <2>1. (ue * ue) * (rest * e) <= (sz * sz) * (reserve * (w * w))
    <3> HIDE DEF ue, sz, zw, ee, w, rest, e
    <3>1. ue * ue <= sz * sz
      BY <2>0, ProductsGrow
    <3>2. ue * ue \in Nat /\ sz * sz \in Nat
      BY <2>0
    <3> QED BY <1>7, <2>0, <2>00, <3>1, <3>2, ProductsGrow
  <2>2. ((supply * supply) * reserve) * (zw * zw) <= ((supply * supply) * reserve) * (ee * ee)
    <3> HIDE DEF zw, ee
    <3>1. zw * zw <= ee * ee /\ zw * zw \in Nat /\ ee * ee \in Nat
      BY <2>0, ProductsGrow
    <3>2. supply * supply \in Nat
      OBVIOUS
    <3>3. (supply * supply) * reserve \in Nat
      BY <3>2
    <3> QED BY <3>1, <3>3, ProductsGrow
  <2>3. left * e = (ue * ue) * (rest * e)
    <3> HIDE DEF rest, u
    <3>1. rest \in Nat /\ u \in Nat
      BY <1>3 DEF rest, u
    <3> QED BY <1>2, <3>1
  <2>4. (sz * sz) * (reserve * (w * w)) = ((supply * supply) * reserve) * (zw * zw)
    <3> HIDE DEF z, w
    <3>1. z \in Nat /\ w \in Nat
      BY <1>3 DEF z, w
    <3> QED BY <3>1
  <2>5. ((supply * supply) * reserve) * (ee * ee) = right * e
    BY <1>2
  <2>6. (ue * ue) * (rest * e) \in Int
    <3> HIDE DEF ue, rest, e
    <3>1. ue * ue \in Nat
      BY <2>0
    <3> QED BY <2>0, <3>1
  <2>7. right * e \in Int /\ ((supply * supply) * reserve) * (zw * zw) \in Int
    <3> HIDE DEF right, e, zw
    <3>1. zw * zw \in Nat /\ supply * supply \in Nat
      BY <2>0
    <3>2. (supply * supply) * reserve \in Nat
      BY <3>1
    <3> QED BY <1>3, <1>8, <3>1, <3>2
  <2> HIDE DEF left, right, e, rest, w, ue, sz, zw, ee
  <2> QED BY <2>1, <2>2, <2>3, <2>4, <2>5, <2>6, <2>7
<1> HIDE DEF left, right, e
<1>10. left <= right
  BY <1>3, <1>8, <1>9, FactorCancels
<1> QED BY <1>10 DEF left, right, e

\* When the fixed point is fine enough for the supply, what is minted for s and
\* burnt for s again cannot differ by a whole token: with a token to spare the
\* two inequalities multiply to a contradiction.
LEMMA NoTokenToSpare ==
    ASSUME NEW S \in Nat, NEW R \in Nat \ {0}, NEW T \in Nat, R <= T, NEW E \in Nat, E >= 2,
           2 * (S * T) <= E * R, NEW grown \in Nat,
           (grown * grown) * (R * E) <= (S * S) * (T * E + R),
           ((S + 1) * (S + 1)) * (T * E) <= (grown * grown) * (R * E + 2 * T)
    PROVE  FALSE
<1> DEFINE a == T * E
           c == R * E
           p == grown * grown
           z == S * S
           n == a * c
<1>1. a \in Nat \ {0} /\ c \in Nat \ {0} /\ p \in Nat /\ z \in Nat /\ n \in Nat \ {0}
  <2>1. a \in Nat \ {0} /\ c \in Nat \ {0}
    BY PositiveProduct
  <2>2. p \in Nat /\ z \in Nat
    OBVIOUS
  <2> HIDE DEF a, c
  <2> QED BY <2>1, <2>2, PositiveProduct
<1>2. (S + 1) * (S + 1) = z + 2 * S + 1
  OBVIOUS
<1>3. p * c <= z * (a + R) /\ (z + 2 * S + 1) * a <= p * (c + 2 * T)
  BY <1>2
\* both multiplied
<1>4. (z + 2 * S + 1) * n <= (z * (a + R)) * (c + 2 * T)
  <2> HIDE DEF a, c, p, z
  <2>1. ((z + 2 * S + 1) * a) * c <= (p * (c + 2 * T)) * c
    BY <1>1, <1>3, ProductsGrow
  <2>2. (p * c) * (c + 2 * T) <= (z * (a + R)) * (c + 2 * T)
    BY <1>1, <1>3, ProductsGrow
  <2>3. (p * (c + 2 * T)) * c = (p * c) * (c + 2 * T) /\ ((z + 2 * S + 1) * a) * c = (z + 2 * S + 1) * n
    BY <1>1
  <2>4. (p * c) * (c + 2 * T) \in Nat /\ (z * (a + R)) * (c + 2 * T) \in Nat /\ (z + 2 * S + 1) * n \in Nat
    BY <1>1
  <2> QED BY <2>1, <2>2, <2>3, <2>4
\* what z * n does not cover on the right
<1> DEFINE r == (a * T) * 2 + R * c + (R * T) * 2
<1>5. (a + R) * (c + 2 * T) = n + r
  <2>1. a * (2 * T) = (a * T) * 2 /\ R * (2 * T) = (R * T) * 2
    BY <1>1
  <2> HIDE DEF a, c
  <2> QED BY <1>1, <2>1
<1>6. r \in Nat /\ r <= (a * T) * 4
  <2>1. R * c <= a * T
    <3>1. R * R <= T * T
      BY ProductsGrow
    <3>2. (R * R) * E <= (T * T) * E
      BY <3>1, ProductsGrow
    <3>3. R * c = (R * R) * E /\ a * T = (T * T) * E
      OBVIOUS
    <3> QED BY <3>2, <3>3
  <2>2. (R * T) * 2 <= a * T
    <3>1. R * T <= T * T
      BY ProductsGrow
    <3>2. (R * T) * 2 <= (T * T) * E
      BY <3>1, ProductsGrow
    <3>3. a * T = (T * T) * E
      OBVIOUS
    <3> QED BY <3>2, <3>3
  <2>3. R * c \in Nat /\ a * T \in Nat /\ (R * T) * 2 \in Nat
    BY <1>1
  <2> HIDE DEF a, c
  <2> QED BY <2>1, <2>2, <2>3
<1>7. (z + 2 * S + 1) * n <= z * n + z * r
  <2> HIDE DEF a, c, z, n, r
  <2>1. (z * (a + R)) * (c + 2 * T) = z * ((a + R) * (c + 2 * T))
    BY <1>1
  <2>2. z * (n + r) = z * n + z * r
    BY <1>1, <1>6
  <2> QED BY <1>4, <1>5, <2>1, <2>2
<1>8. z * r <= (2 * S) * n
  <2>1. z * r <= z * ((a * T) * 4)
    <3>1. a * T \in Nat
      BY <1>1
    <3> HIDE DEF z, r, a
    <3> QED BY <1>1, <1>6, <3>1, ProductsGrow
  <2>2. z * ((a * T) * 4) = ((2 * S) * a) * (2 * (S * T))
    OBVIOUS
  <2>3. ((2 * S) * a) * (2 * (S * T)) <= ((2 * S) * a) * c
    <3>1. (2 * S) * a \in Nat /\ 2 * (S * T) \in Nat /\ c \in Nat /\ 2 * (S * T) <= c
      BY <1>1
    <3> HIDE DEF a, c
    <3> QED BY <3>1, ProductsGrow
  <2>4. ((2 * S) * a) * c = (2 * S) * n
    BY <1>1
  <2>5. z * r \in Nat /\ z * ((a * T) * 4) \in Nat /\ ((2 * S) * a) * (2 * (S * T)) \in Nat /\ (2 * S) * n \in Nat
    BY <1>1, <1>6
  <2> HIDE DEF z, r, a, n
  <2> QED BY <2>1, <2>2, <2>3, <2>4, <2>5
<1>9. (z + 2 * S + 1) * n = z * n + (2 * S) * n + n /\ z * n \in Nat /\ (2 * S) * n \in Nat /\ z * r \in Nat
  <2> HIDE DEF z, n, r
  <2> QED BY <1>1, <1>6
<1> HIDE DEF z, n, r
<1> QED BY <1>1, <1>7, <1>8, <1>9

\* the amount of a single-sided deposit, taken out again, costs what it minted
LEMMA SingleSidedRoundTrip ==
    ASSUME NoWiderThanTheProgram, NEW s \in Nat, s <= U64Max, NEW reserve \in Nat \ {0},
           NEW supply \in Nat, 2 * (supply * (reserve + s)) <= ONE * reserve,
           NEW minted \in DepositSingleTokenType(s, reserve, supply, "Floor"),
           NEW burnt \in WithdrawSingleTokenTypeExactOut(s, reserve + s, supply + minted, "Ceiling")
    PROVE  burnt >= minted
<1> DEFINE T == reserve + s
           grown == supply + minted
           left == grown - burnt
<1>1. /\ minted \in Nat
      /\ (grown * grown) * (reserve * ONE) <= (supply * supply) * (T * ONE + reserve)
  BY DepositSingleWithin
<1>2. T \in Nat \ {0} /\ s \in 0 .. T /\ grown \in Nat /\ T - s = reserve
  BY <1>1
<1>3. /\ burnt \in Nat
      /\ burnt <= grown => (left * left) * (T * ONE) <= (grown * grown) * ((T - s) * ONE + 2 * T)
  <2>1. burnt \in WithdrawSingleTokenTypeExactOut(s, T, grown, "Ceiling")
    OBVIOUS
  <2> HIDE DEF T, grown
  <2> QED BY <1>2, <2>1, WithdrawSingleWithin
<1> SUFFICES ASSUME burnt < minted PROVE FALSE
  BY <1>1, <1>3
<1>4. left \in Nat /\ left >= supply + 1 /\ burnt <= grown
  BY <1>1, <1>3
<1>5. (left * left) * (T * ONE) <= (grown * grown) * (reserve * ONE + 2 * T)
  BY <1>2, <1>3, <1>4
<1>6. ((supply + 1) * (supply + 1)) * (T * ONE) <= (left * left) * (T * ONE)
  <2>1. T * ONE \in Nat
    BY <1>2, HalfOfOne
  <2> HIDE DEF left, T
  <2>2. (supply + 1) * (supply + 1) <= left * left /\ left * left \in Nat /\ (supply + 1) * (supply + 1) \in Nat
    BY <1>4, ProductsGrow
  <2> QED BY <2>1, <2>2, ProductsGrow
<1>7. ((supply + 1) * (supply + 1)) * (T * ONE) <= (grown * grown) * (reserve * ONE + 2 * T)
  <2>1. ONE \in Nat
    BY HalfOfOne
  <2> HIDE DEF left, T, grown
  <2>2. /\ ((supply + 1) * (supply + 1)) * (T * ONE) \in Nat
        /\ (left * left) * (T * ONE) \in Nat
        /\ (grown * grown) * (reserve * ONE + 2 * T) \in Nat
    BY <1>2, <1>4, <2>1
  <2> QED BY <1>5, <1>6, <2>2
<1>8. 2 * (supply * T) <= ONE * reserve /\ reserve <= T /\ ONE \in Nat /\ ONE >= 2
  BY HalfOfOne
<1> HIDE DEF left, T, grown
<1> QED BY <1>1, <1>2, <1>7, <1>8, NoTokenToSpare

-----------------------------------------------------------------------------
(* To the grain of the fixed point.                                        *)

\* the curve with its fees: what the trade needs is paid besides the owner's fee
LEMMA OwnerFeeIsExtra ==
    ASSUME NEW n \in U64, NEW source \in Nat, NEW destination \in Nat, NEW fees \in CurveFees,
           NEW r \in CurveSwap(n, source, destination, fees)
    PROVE  /\ r.source_amount_swapped \in 0 .. n
           /\ r.destination_amount_swapped \in 1 .. destination - 1
           /\ r.new_swap_source_amount = source + r.source_amount_swapped
           /\ r.owner_fee \in 0 .. r.source_amount_swapped
           /\ (source + r.source_amount_swapped - r.owner_fee)
                * (destination - r.destination_amount_swapped) >= source * destination
<1>1. PICK t \in TradingFee(fees, n), o \in OwnerTradingFee(fees, n) :
        \E s \in SwapWithoutFees(n - (t + o), source, destination) :
          /\ r.source_amount_swapped = s.source_amount_swapped + (t + o)
          /\ r.destination_amount_swapped = s.destination_amount_swapped
          /\ r.new_swap_source_amount = source + s.source_amount_swapped + (t + o)
          /\ r.owner_fee = o
  BY DEF CurveSwap
<1>2. PICK s \in SwapWithoutFees(n - (t + o), source, destination) :
        /\ r.source_amount_swapped = s.source_amount_swapped + (t + o)
        /\ r.destination_amount_swapped = s.destination_amount_swapped
        /\ r.new_swap_source_amount = source + s.source_amount_swapped + (t + o)
        /\ r.owner_fee = o
  BY <1>1
<1>3. t \in Nat /\ o \in Nat
  BY FeesAreNatural
<1>4. /\ s.source_amount_swapped \in Nat
      /\ s.destination_amount_swapped \in 1 .. destination - 1
      /\ (source + s.source_amount_swapped) * (destination - s.destination_amount_swapped)
           >= source * destination
  BY SwapWithoutFeesKeepsProduct
<1> DEFINE x == source + s.source_amount_swapped
           y == destination - s.destination_amount_swapped
           z == source + r.source_amount_swapped - r.owner_fee
<1>5. x \in Nat /\ y \in Nat /\ z \in Nat /\ z >= x
  BY <1>2, <1>3, <1>4
<1>6. z * y >= x * y /\ z * y \in Int /\ x * y \in Int /\ source * destination \in Int
  <2> HIDE DEF x, y, z
  <2>1. z * y >= x * y
    BY <1>5, ProductsGrow
  <2> QED BY <1>5, <2>1
<1>7. z * y >= source * destination
  <2> HIDE DEF z
  <2>1. x * y >= source * destination
    BY <1>4
  <2> HIDE DEF x, y
  <2> QED BY <1>6, <2>1
<1>8. r.source_amount_swapped \in 0 .. n
  <2>1. r.source_amount_swapped \in Nat /\ r.source_amount_swapped <= n
    BY CurveSwapCharges
  <2> QED BY <2>1, U64Assumption DEF U64
<1>9. r.owner_fee \in 0 .. r.source_amount_swapped
  BY <1>2, <1>3, <1>4
<1>10. r.new_swap_source_amount = source + r.source_amount_swapped
  BY <1>2, <1>3, <1>4
<1> QED BY <1>2, <1>4, <1>7, <1>8, <1>9, <1>10

\* what is counted of a single-sided amount is not more than the amount
LEMMA LessHalfIsLess ==
    ASSUME NEW n \in U64, NEW fees \in CurveFees, NEW amount \in LessHalfTradeFee(n, fees)
    PROVE  /\ amount \in 0 .. n
           /\ fees.trade_fee.numerator = 0 => amount = n
<1> DEFINE half == IF n < 2 THEN 1 ELSE n \div 2
<1>1. PICK fee \in TradingFee(fees, half) : fee <= n /\ amount = n - fee
  BY DEF LessHalfTradeFee
<1>2. half \in Nat /\ n \in Nat
  BY U64Assumption DEF U64
<1>3. fees.trade_fee \in Fraction
  BY DEF CurveFees
<1> HIDE DEF half
<1>4. fee \in Nat
  BY <1>1, <1>2, <1>3, FeeIsNatural DEF TradingFee
<1>5. fees.trade_fee.numerator = 0 => fee = 0
  BY <1>1 DEF TradingFee, CalculateFee, Some
<1> QED BY <1>1, <1>2, <1>4, <1>5

\* The three results of the single-sided formulas in the form the providers see.
LEMMA CurveDepositSingleWithin ==
    ASSUME NoWiderThanTheProgram, NEW n \in U64, NEW a \in Nat, NEW b \in Nat,
           NEW supply \in Nat, NEW d, NEW fees \in CurveFees,
           NEW m \in CurveDepositSingle(n, a, b, supply, d, fees),
           NEW reserve, reserve = SwapSourceAmount(a, b, d), reserve # 0
    PROVE  /\ m \in Nat
           /\ ((supply + m) * (supply + m)) * (reserve * ONE)
                <= (supply * supply) * ((reserve + n) * ONE + 2 * reserve)
<1>1. n \in Nat /\ n <= U64Max /\ reserve \in Nat \ {0} /\ ONE \in Nat \ {0}
  BY U64Assumption, HalfOfOne DEF U64, SwapSourceAmount
<1> DEFINE y(s) == (reserve + s) * ONE + reserve
           z == (reserve + n) * ONE + 2 * reserve
           u == supply + m
<1>2. ASSUME NEW s \in 0 .. n PROVE y(s) \in Nat /\ z \in Nat /\ y(s) <= z
  <2>1. (reserve + s) * ONE <= (reserve + n) * ONE
    BY <1>1, ProductsGrow
  <2>2. (reserve + s) * ONE \in Nat /\ (reserve + n) * ONE \in Nat
    BY <1>1
  <2> QED BY <1>1, <2>1, <2>2
<1>3. PICK s \in 0 .. n : m \in Nat /\ (u * u) * (reserve * ONE) <= (supply * supply) * y(s)
  <2>1. CASE n = 0
    <3>1. m = 0
      BY <2>1 DEF CurveDepositSingle, Some
    <3>2. (u * u) * (reserve * ONE) = (supply * supply) * (reserve * ONE)
      BY <1>1, <3>1
    <3>3. (supply * supply) * (reserve * ONE) <= (supply * supply) * y(0)
      <4>1. reserve * ONE <= y(0) /\ reserve * ONE \in Nat /\ y(0) \in Nat
        BY <1>1
      <4>2. supply * supply \in Nat
        OBVIOUS
      <4> HIDE DEF y
      <4> QED BY <4>1, <4>2, ProductsGrow
    <3> HIDE DEF y, u
    <3> QED BY <1>1, <3>1, <3>2, <3>3
  <2>2. CASE n # 0
    <3>1. PICK s \in LessHalfTradeFee(n, fees) :
            m \in DepositSingleTokenType(s, reserve, supply, "Floor")
      BY <2>2 DEF CurveDepositSingle
    <3>2. s \in 0 .. n
      BY LessHalfIsLess
    <3>3. s \in Nat /\ s <= U64Max
      <4>1. U64Max \in Nat
        BY U64Assumption
      <4> QED BY <1>1, <3>2, <4>1
    <3>4. /\ m \in Nat
          /\ ((supply + m) * (supply + m)) * (reserve * ONE)
               <= (supply * supply) * ((reserve + s) * ONE + reserve)
      BY ZenonT(60), <1>1, <3>1, <3>3, DepositSingleWithin
    <3>5. m \in Nat /\ (u * u) * (reserve * ONE) <= (supply * supply) * y(s)
      BY ZenonT(60), <3>4
    <3> HIDE DEF u, y
    <3> QED BY <3>2, <3>5
  <2> QED BY <2>1, <2>2
<1>4. (supply * supply) * y(s) <= (supply * supply) * z
  <2>1. supply * supply \in Nat
    OBVIOUS
  <2> HIDE DEF y, z
  <2> QED BY <1>2, <2>1, ProductsGrow
<1>5. (u * u) * (reserve * ONE) \in Int /\ (supply * supply) * y(s) \in Int
      /\ (supply * supply) * z \in Int
  <2>1. u * u \in Nat /\ reserve * ONE \in Nat
    BY <1>1, <1>3
  <2>2. y(s) \in Nat /\ z \in Nat
    BY <1>2
  <2> HIDE DEF u, y, z
  <2> QED BY <2>1, <2>2
<1> HIDE DEF u, y, z
<1>6. (u * u) * (reserve * ONE) <= (supply * supply) * z
  BY <1>3, <1>4, <1>5
<1> QED BY <1>3, <1>6 DEF u, z

\* (what is withdrawn counts half a fee less, so a fee is charged to whoever stays)
LEMMA CurveWithdrawSingleWithin ==
    ASSUME NoWiderThanTheProgram, NEW n \in U64, NEW a \in Nat, NEW b \in Nat,
           NEW supply \in Nat, NEW d, NEW fees \in CurveFees, fees.trade_fee.numerator = 0,
           NEW k \in CurveWithdrawSingle(n, a, b, supply, d, fees), k <= supply,
           NEW reserve, reserve = SwapSourceAmount(a, b, d), reserve # 0, n <= reserve
    PROVE  /\ k \in Nat
           /\ ((supply - k) * (supply - k)) * (reserve * ONE)
                <= (supply * supply) * ((reserve - n) * ONE + 2 * reserve)
<1>1. n \in Nat /\ reserve \in Nat \ {0} /\ ONE \in Nat \ {0}
  BY U64Assumption, HalfOfOne DEF U64, SwapSourceAmount
<1>2. CASE n = 0
  <2>1. k = 0
    BY <1>2 DEF CurveWithdrawSingle, Some
  <2> DEFINE y == (reserve - n) * ONE + 2 * reserve
  <2>2. (supply * supply) * (reserve * ONE) <= (supply * supply) * y
    <3>1. reserve * ONE <= y /\ reserve * ONE \in Nat /\ y \in Nat
      BY <1>1, <1>2
    <3>2. supply * supply \in Nat
      OBVIOUS
    <3> HIDE DEF y
    <3> QED BY <3>1, <3>2, ProductsGrow
  <2>3. supply - k = supply
    BY <2>1
  <2> QED BY <2>1, <2>2, <2>3
<1>3. CASE n # 0
  <2>1. PICK s \in LessHalfTradeFee(n, fees) :
          k \in WithdrawSingleTokenTypeExactOut(s, reserve, supply, "Ceiling")
    BY <1>3 DEF CurveWithdrawSingle
  <2>2. s = n /\ n \in 0 .. reserve
    BY <1>1, LessHalfIsLess
  <2> QED BY <1>1, <2>1, <2>2, WithdrawSingleWithin
<1> QED BY <1>2, <1>3

\* multiplied by the other reserve, which a single-sided operation leaves alone
LEMMA OneSidedGrain ==
    ASSUME NEW r \in Nat, NEW next \in Nat, NEW other \in Nat, NEW S \in Nat, NEW u \in Nat,
           (u * u) * (r * ONE) <= (S * S) * (next * ONE + 2 * r)
    PROVE  ONE * (r * other) * u * u
             <= ((ONE + 3) * (next * other) + 2 * (r * other)) * S * S
<1>1. ONE \in Nat
  BY HalfOfOne
<1> DEFINE left == (u * u) * (r * ONE)
           y == next * ONE + 2 * r
           right == (S * S) * y
<1>2. y \in Nat /\ u * u \in Nat /\ S * S \in Nat /\ r * ONE \in Nat /\ next * other \in Nat
  BY <1>1
<1>3. left \in Nat /\ right \in Nat
  <2> HIDE DEF y
  <2> QED BY <1>2
<1>4. left * other <= right * other
  <2>1. left <= right
    OBVIOUS
  <2> HIDE DEF left, right
  <2> QED BY <1>3, <2>1, ProductsGrow
<1>5. left * other = ONE * (r * other) * u * u
  BY <1>1
<1>6. right * other + 3 * ((next * other) * (S * S))
        = ((ONE + 3) * (next * other) + 2 * (r * other)) * S * S
  BY <1>1
<1>7. (next * other) * (S * S) \in Nat
  BY <1>2
<1>8. left * other \in Nat /\ right * other \in Nat
  BY <1>3
<1> HIDE DEF left, right
<1> QED BY <1>4, <1>5, <1>6, <1>7, <1>8

\* The tokens minted for an owner's fee of o out of the new source reserve, but
\* for the last: X the source reserve after the trade, y the other, p the product
\* before it.
LEMMA OwnerFeeGrain ==
    ASSUME NoWiderThanTheProgram, NEW X \in Nat \ {0}, NEW o \in U64, o <= X, NEW a, NEW b,
           NEW S \in Nat, NEW d, X = SwapSourceAmount(a, b, d), NEW fees \in CurveFees,
           NEW t \in CurveWithdrawSingle(o, a, b, S, d, fees), t >= 1,
           NEW y \in Nat, NEW p \in Nat, (X - o) * y >= p,
           NEW u \in Nat, u = S + t - 1
    PROVE  ONE * p * u * u <= ((ONE + 3) * (X * y)) * S * S
<1>1. o # 0
  BY DEF CurveWithdrawSingle, Some
<1>2. PICK c \in LessHalfTradeFee(o, fees) :
        t \in WithdrawSingleTokenTypeExactOut(c, X, S, "Ceiling")
  BY <1>1 DEF CurveWithdrawSingle
<1>3. o \in Nat /\ c \in 0 .. o /\ c \in 0 .. X /\ ONE \in Nat \ {0}
  <2>1. o \in Nat
    BY U64Assumption DEF U64
  <2>2. c \in 0 .. o
    BY <1>2, LessHalfIsLess
  <2> QED BY <2>1, <2>2, HalfOfOne
<1> DEFINE rest == X - c
           e == ONE * ONE
           ee == (ONE + 1) * (ONE + 1)
           uu == u * u
           ss == S * S
<1>4. uu * (rest * e) <= ss * (X * ee)
  BY ZenonT(60), <1>2, <1>3, OwnerFeeWithin
<1>5. rest \in Nat /\ e \in Nat /\ ee \in Nat /\ uu \in Nat /\ ss \in Nat /\ X * y \in Nat
  BY <1>3
<1>6. p <= rest * y
  <2>1. (X - o) * y <= rest * y
    <3>1. X - o \in Nat /\ rest \in Nat /\ X - o <= rest
      BY <1>3
    <3> HIDE DEF rest
    <3> QED BY <3>1, ProductsGrow
  <2>2. (X - o) * y \in Nat /\ rest * y \in Nat
    <3>1. X - o \in Nat /\ rest \in Nat
      BY <1>3
    <3> QED BY <3>1
  <2> HIDE DEF rest
  <2> QED BY <2>1, <2>2
<1> HIDE DEF rest
<1>7. (p * uu) * e <= (rest * y) * (uu * e)
  <2>1. uu * e \in Nat /\ rest * y \in Nat
    BY <1>5
  <2>2. p * (uu * e) <= (rest * y) * (uu * e)
    BY <1>6, <2>1, ProductsGrow
  <2>3. p * (uu * e) = (p * uu) * e
    BY <1>5
  <2> QED BY <2>2, <2>3
<1>8. (uu * (rest * e)) * y <= (ss * (X * ee)) * y
  <2>1. rest * e \in Nat /\ X * ee \in Nat
    BY <1>5
  <2>2. uu * (rest * e) \in Nat /\ ss * (X * ee) \in Nat
    BY <1>5, <2>1
  <2> QED BY <1>4, <2>2, ProductsGrow
<1>9. ((X * y) * ss) * ee <= ((X * y) * ss) * (ONE * (ONE + 3))
  <2>1. ee = e + 2 * ONE + 1 /\ ONE * (ONE + 3) = e + 3 * ONE /\ ONE >= 1
    BY <1>3
  <2>2. ONE * (ONE + 3) \in Nat /\ (X * y) * ss \in Nat
    BY <1>3, <1>5
  <2>3. ee <= ONE * (ONE + 3)
    <3> HIDE DEF ee, e
    <3> QED BY <1>3, <1>5, <2>1
  <2> HIDE DEF ee
  <2> QED BY <1>5, <2>2, <2>3, ProductsGrow
<1> DEFINE left == ONE * p * u * u
           right == ((ONE + 3) * (X * y)) * S * S
<1>10. /\ (rest * y) * (uu * e) = (uu * (rest * e)) * y
       /\ (ss * (X * ee)) * y = ((X * y) * ss) * ee
  <2> HIDE DEF uu, ss, e, ee
  <2> QED BY <1>3, <1>5
<1>11. (p * uu) * e = left * ONE /\ ((X * y) * ss) * (ONE * (ONE + 3)) = right * ONE
  BY <1>3
<1>12. left \in Nat /\ right \in Nat
  <2>1. uu * p \in Nat /\ (X * y) * ss \in Nat
    BY <1>5
  <2>2. left = ONE * (uu * p) /\ right = (ONE + 3) * ((X * y) * ss)
    BY <1>3
  <2>3. ONE * (uu * p) \in Nat /\ (ONE + 3) * ((X * y) * ss) \in Nat
    <3> HIDE DEF uu, ss
    <3> QED BY <1>3, <2>1
  <2> QED BY <2>2, <2>3
<1>13. /\ (rest * y) * (uu * e) \in Nat /\ ((X * y) * ss) * ee \in Nat
       /\ left * ONE \in Nat /\ right * ONE \in Nat
  <2>1. rest * y \in Nat /\ uu * e \in Nat /\ (X * y) * ss \in Nat
    BY <1>5
  <2> HIDE DEF uu, ss, e, ee, left, right
  <2> QED BY <1>3, <1>5, <1>12, <2>1
<1>14. left * ONE <= right * ONE
  <2> HIDE DEF uu, ss, e, ee, left, right
  <2> QED BY <1>7, <1>8, <1>9, <1>10, <1>11, <1>13
<1> HIDE DEF left, right
<1>15. left <= right
  BY <1>3, <1>12, <1>14, FactorCancels
<1> QED BY <1>15 DEF left, right

-----------------------------------------------------------------------------
(* At the limits of a reserve.                                              *)

\* Against an empty reserve there is no trade.
LEMMA TradesNeedASource ==
    ASSUME NEW n, NEW source \in Nat, NEW destination \in Nat, NEW fees,
           NEW r \in CurveSwap(n, source, destination, fees)
    PROVE  source > 0
<1>1. PICK amount : SwapWithoutFees(amount, source, destination) # {}
  BY DEF CurveSwap
<1>2. PICK i \in Checked(source * destination), d \in Checked(source + amount) :
        CheckedCeilDiv(i, d) # {}
  BY <1>1 DEF SwapWithoutFees
<1>3. i = source * destination /\ i \in Nat /\ d \in Nat
  <2>1. U128 \subseteq Nat
    BY U64Assumption DEF U128, U128Max
  <2> QED BY <1>2, <2>1 DEF Checked, Some, None
<1>4. d # 0 /\ i >= d
  BY <1>2, <1>3 DEF CheckedCeilDiv, None
<1> SUFFICES ASSUME source = 0 PROVE FALSE
  OBVIOUS
<1>5. i = 0
  BY <1>3
<1> QED BY <1>3, <1>4, <1>5

\* Whoever takes a whole reserve burns all the pool tokens.
LEMMA TheWholeReserveBurnsAll ==
    ASSUME NEW reserve \in Nat \ {0}, NEW pool_supply \in Nat,
           NEW k \in WithdrawSingleTokenTypeExactOut(reserve, reserve, pool_supply, "Ceiling")
    PROVE  k = pool_supply
<1> DEFINE q == (reserve * ONE) \div reserve
<1>1. ONE \in Nat \ {0} /\ Precise(1) = ONE
  BY HalfOfOne DEF Precise
<1>2. /\ PreciseDiv(Precise(reserve), Precise(reserve)) = {q}
      /\ q \in Nat /\ q * reserve <= reserve * ONE /\ reserve * ONE < q * reserve + reserve
  BY PreciseRatio
<1>3. q = ONE
  <2> HIDE DEF q
  <2>1. q <= ONE
    <3> SUFFICES ASSUME q >= ONE + 1 PROVE FALSE
      BY <1>1, <1>2
    <3>1. reserve * (ONE + 1) <= reserve * q
      BY <1>1, <1>2, ProductsGrow
    <3>2. /\ reserve * (ONE + 1) = reserve * ONE + reserve /\ reserve * q = q * reserve
          /\ reserve * ONE \in Nat
      BY <1>1, <1>2
    <3> QED BY <1>2, <3>1, <3>2
  <2>2. q >= ONE
    <3> SUFFICES ASSUME q + 1 <= ONE PROVE FALSE
      BY <1>1, <1>2
    <3>1. reserve * (q + 1) <= reserve * ONE
      BY <1>1, <1>2, ProductsGrow
    <3>2. reserve * (q + 1) = q * reserve + reserve
      BY <1>2
    <3>3. reserve * ONE \in Nat /\ q * reserve \in Nat
      BY <1>1, <1>2
    <3> QED BY <1>2, <3>1, <3>2, <3>3
  <2> QED BY <1>1, <1>2, <2>1, <2>2
<1> HIDE DEF q
<1>4. PICK base \in PreciseSub(Precise(1), ONE) :
        \E root \in PreciseSub(Precise(1), PreciseSqrt(base)) :
          k \in ToInteger(PreciseMul(Precise(pool_supply), root), "Ceiling")
  BY <1>2, <1>3 DEF WithdrawSingleTokenTypeExactOut
<1>5. base = 0
  BY <1>1, <1>4 DEF PreciseSub, Some, None
<1>6. PreciseSqrt(base) = 0
  BY <1>5 DEF PreciseSqrt
<1>7. k \in ToInteger(PreciseMul(Precise(pool_supply), ONE), "Ceiling")
  <2>1. PreciseSub(Precise(1), 0) = {ONE}
    BY <1>1 DEF PreciseSub, Some
  <2> QED BY <1>4, <1>6, <2>1
<1> DEFINE n == pool_supply * ONE
           m == n + ONE - 1
<1>8. PreciseMul(Precise(pool_supply), ONE) = n /\ n \in Nat
  BY <1>1, PreciseProduct
<1>9. k = m \div ONE
  <2>1. k \in ToInteger(n, "Ceiling")
    BY <1>7, <1>8
  <2> HIDE DEF n
  <2>2. k \in Checked((n + ONE - 1) \div ONE)
    BY <2>1 DEF ToInteger
  <2> QED BY <2>2 DEF Checked, Some, None
<1>10. k \in Nat /\ m % ONE \in 0 .. ONE - 1 /\ m = ONE * k + (m % ONE)
  <2>1. m \in Nat
    <3> HIDE DEF n
    <3> QED BY <1>1, <1>8
  <2> HIDE DEF m
  <2> QED BY <1>1, <1>9, <2>1, Division
<1>11. n <= ONE * k /\ ONE * k < n + ONE
  <2>1. ONE * k \in Nat
    BY <1>1, <1>10
  <2> HIDE DEF n
  <2> QED BY <1>1, <1>8, <1>10, <2>1
<1>12. k >= pool_supply
  <2> SUFFICES ASSUME k + 1 <= pool_supply PROVE FALSE
    BY <1>10
  <2>1. ONE * (k + 1) <= ONE * pool_supply
    BY <1>1, <1>10, ProductsGrow
  <2>2. ONE * (k + 1) = ONE * k + ONE /\ ONE * pool_supply = n /\ ONE * k \in Nat
    BY <1>1, <1>10
  <2> HIDE DEF n
  <2> QED BY <1>1, <1>8, <1>11, <2>1, <2>2
<1>13. k <= pool_supply
  <2> SUFFICES ASSUME pool_supply + 1 <= k PROVE FALSE
    BY <1>10
  <2>1. ONE * (pool_supply + 1) <= ONE * k
    BY <1>1, <1>10, ProductsGrow
  <2>2. ONE * (pool_supply + 1) = n + ONE /\ ONE * k \in Nat
    BY <1>1, <1>10
  <2> HIDE DEF n
  <2> QED BY <1>1, <1>8, <1>11, <2>1, <2>2
<1> QED BY <1>10, <1>12, <1>13
=============================================================================

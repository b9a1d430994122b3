-------------------------- MODULE FixedPointProofs --------------------------
(***************************************************************************)
(* The square root of the fixed point, for every number: it exists, grows    *)
(* with its argument, and the rounds that the library allows are enough.     *)
(***************************************************************************)
EXTENDS FixedPoint, TLAPS, NaturalsInduction, WellFoundedInduction

\* integer division, as the provers need it spelt out
LEMMA Division ==
    ASSUME NEW n \in Nat, NEW d \in Nat \ {0}
    PROVE  /\ n \div d \in Nat
           /\ n % d \in 0 .. d - 1
           /\ n = d * (n \div d) + (n % d)
           /\ n >= d => n \div d >= 1
<1>1. n % d \in 0 .. d - 1 /\ n \div d \in Int
  OBVIOUS
<1>2. n = d * (n \div d) + (n % d)
  OBVIOUS
<1>3. n \div d >= 0
  BY <1>1, <1>2
<1>4. n >= d => n \div d >= 1
  <2>1. CASE n \div d = 0
    BY <1>1, <1>2, <2>1
  <2> QED BY <1>1, <1>3, <2>1
<1> QED BY <1>1, <1>2, <1>3, <1>4

\* products are monotone
LEMMA ProductsGrow ==
    ASSUME NEW u \in Nat, NEW v \in Nat, NEW x \in Nat, NEW y \in Nat, u >= x, v >= y
    PROVE  u * v >= x * y
<1>1. u * v >= x * v
  BY SMT
<1>2. x * v >= x * y
  BY SMT
<1> QED BY <1>1, <1>2

\* a larger factor gives a larger product
LEMMA ProductsGrowStrictly ==
    ASSUME NEW u \in Nat, NEW x \in Nat, NEW v \in Nat \ {0}, u > x
    PROVE  u * v > x * v
<1>1. u * v >= (x + 1) * v
  BY ProductsGrow
<1>2. (x + 1) * v = x * v + v /\ x * v \in Nat /\ u * v \in Nat
  BY SMT
<1> QED BY <1>1, <1>2

\* a common factor cancels
LEMMA FactorCancels ==
    ASSUME NEW x \in Nat, NEW y \in Nat, NEW k \in Nat \ {0}, x * k <= y * k
    PROVE  x <= y
<1> SUFFICES ASSUME x > y PROVE FALSE
  OBVIOUS
<1>1. x * k > y * k
  BY ProductsGrowStrictly
<1> QED BY <1>1

\* a product of positive numbers is positive
LEMMA PositiveProduct == ASSUME NEW x \in Nat \ {0}, NEW y \in Nat \ {0} PROVE x * y \in Nat \ {0}
<1>1. x * y >= 1 * 1
  BY ProductsGrow
<1> QED BY <1>1

\* a non-empty set of natural numbers has a least element
LEMMA LeastNatural ==
    ASSUME NEW T, T \subseteq Nat, T # {}
    PROVE  \E n \in T : \A m \in T : ~(m < n)
<1> DEFINE Less == OpToRel(<, Nat)
<1>1. IsWellFoundedOn(Less, Nat)
  BY NatLessThanWellFounded
<1>2. \A m \in Nat, n \in Nat : m < n => <<m, n>> \in Less
  BY DEF OpToRel
<1> HIDE DEF Less
<1>3. \E n \in T : \A m \in T : <<m, n>> \notin Less
  BY <1>1, WFMin
<1> QED BY <1>2, <1>3

\* the quotient is the only number that fits
LEMMA QuotientIs ==
    ASSUME NEW n \in Nat, NEW d \in Nat \ {0}, NEW k \in Nat, k * d <= n, n < k * d + d
    PROVE  n \div d = k
<1> DEFINE q == n \div d
<1>1. q \in Nat /\ n = d * q + (n % d) /\ n % d \in 0 .. d - 1
  BY Division
<1> HIDE DEF q
<1>2. ASSUME q < k PROVE FALSE
  <2>1. (q + 1) * d <= k * d
    BY <1>1, <1>2, ProductsGrow
  <2>2. (q + 1) * d = d * q + d
    BY <1>1
  <2> QED BY <1>1, <2>1, <2>2
<1>3. ASSUME q > k PROVE FALSE
  <2>1. (k + 1) * d <= q * d
    BY <1>1, <1>3, ProductsGrow
  <2>2. (k + 1) * d = k * d + d /\ q * d = d * q
    BY <1>1
  <2> QED BY <1>1, <2>1, <2>2
<1> QED BY <1>1, <1>2, <1>3 DEF q

-----------------------------------------------------------------------------
(* The root: NewtonRoot is a recursive function, so that it satisfies its   *)
(* own equation needs a proof.                                              *)

\* what a guess at the root of a is divided into
Radicand(a) == a * ONE + ONE \div 2

NextGuess(a, guess) == Average(guess, Radicand(a) \div guess)

Guesses == Nat \X (Nat \ {0}) \X Nat
GuessesWithin(n) == { q \in Guesses : q[3] <= n }

\* one unfolding of the recursion, with f for the calls
Round(f, q) ==
    IF q[3] = 0 \/ NextGuess(q[1], q[2]) = q[2] THEN q[2]
    ELSE f[<<q[1], NextGuess(q[1], q[2]), q[3] - 1>>]

IsRootWithin(f, n) == f = [q \in GuessesWithin(n) |-> Round(f, q)]

\* half a unit of the fixed point is a number and less than a unit
LEMMA HalfOfOne == ONE \in Nat /\ ONE >= 2 /\ ONE \div 2 \in Nat /\ ONE \div 2 >= 1 /\ ONE \div 2 < ONE
<1>1. ONE \in Nat /\ ONE >= 2
  BY OneAssumption
<1> QED BY <1>1

\* the half unit makes every radicand positive
LEMMA RadicandIsPositive == ASSUME NEW a \in Nat PROVE Radicand(a) \in Nat \ {0} /\ Radicand(a) >= a * ONE
<1>1. a * ONE \in Nat
  BY HalfOfOne
<1> QED BY <1>1, HalfOfOne DEF Radicand

\* the half unit that is added before the division is less than the half that
\* is lost
LEMMA AverageIsHalf ==
    ASSUME NEW x \in Nat, NEW y \in Nat
    PROVE  Average(x, y) = (x + y) \div 2
<1> DEFINE h == x + y
           k == h \div 2
           n == h * ONE + ONE \div 2
<1>1. h \in Nat /\ k \in Nat /\ (h = 2 * k \/ h = 2 * k + 1)
  OBVIOUS
<1>2. Average(x, y) = n \div (2 * ONE)
  BY DEF Average, Precise
<1>3. k * (2 * ONE) = (2 * k) * ONE /\ (2 * k + 1) * ONE = (2 * k) * ONE + ONE
  BY <1>1, HalfOfOne
<1>4. n \in Nat /\ k * (2 * ONE) <= n /\ n < k * (2 * ONE) + 2 * ONE
  <2>1. (2 * k) * ONE \in Nat
    BY <1>1, HalfOfOne
  <2>2. h * ONE = (2 * k) * ONE \/ h * ONE = (2 * k) * ONE + ONE
    BY <1>1, <1>3
  <2> HIDE DEF h, k
  <2> QED BY <1>3, <2>1, <2>2, HalfOfOne
<1>5. 2 * ONE \in Nat \ {0}
  BY HalfOfOne
<1>6. n \div (2 * ONE) = k
  <2> HIDE DEF n, k, h
  <2> QED BY <1>1, <1>4, <1>5, QuotientIs
<1> QED BY <1>2, <1>6

\* the iteration stays among the guesses
LEMMA NextGuessIsAGuess ==
    ASSUME NEW a \in Nat, NEW g \in Nat \ {0}
    PROVE  /\ Radicand(a) \div g \in Nat
           /\ NextGuess(a, g) = (g + Radicand(a) \div g) \div 2
           /\ NextGuess(a, g) \in Nat \ {0}
<1> DEFINE c == Radicand(a)
           t == c \div g
<1>1. c \in Nat \ {0}
  BY RadicandIsPositive
<1> HIDE DEF c
<1>2. t \in Nat /\ (c >= g => t >= 1)
  BY <1>1, Division
<1>3. NextGuess(a, g) = (g + t) \div 2
  <2> HIDE DEF t
  <2>1. NextGuess(a, g) = Average(g, t)
    BY DEF NextGuess, c, t
  <2> QED BY <1>2, <2>1, AverageIsHalf
<1>4. g + t >= 2
  <2>1. CASE g = 1
    BY <1>1, <1>2, <2>1
  <2>2. CASE g > 1
    <3> HIDE DEF t
    <3> QED BY <1>2, <2>2
  <2> QED BY <2>1, <2>2
<1>5. (g + t) \div 2 \in Nat \ {0}
  <2> HIDE DEF t
  <2> QED BY <1>2, <1>4
<1> QED BY <1>2, <1>3, <1>5 DEF c, t

\* the call of a round has one round less left
LEMMA RoundCalls ==
    ASSUME NEW q \in Guesses, q[3] # 0
    PROVE  /\ <<q[1], NextGuess(q[1], q[2]), q[3] - 1>> \in Guesses
           /\ <<q[1], NextGuess(q[1], q[2]), q[3] - 1>>[3] = q[3] - 1
           /\ q[3] \in Nat /\ q[3] - 1 \in Nat
<1>1. q[1] \in Nat /\ q[2] \in Nat \ {0} /\ q[3] \in Nat
  BY DEF Guesses
<1>2. NextGuess(q[1], q[2]) \in Nat \ {0}
  BY <1>1, NextGuessIsAGuess
<1>3. q[3] - 1 \in Nat
  BY <1>1
<1> QED BY <1>1, <1>2, <1>3 DEF Guesses

\* for every number of rounds there is a function that satisfies the equation
LEMMA RootsWithinExist ==
    ASSUME NEW k \in Nat PROVE \E f : IsRootWithin(f, k)
<1> DEFINE Missing == { n \in Nat : ~(\E f : IsRootWithin(f, n)) }
<1> SUFFICES ASSUME Missing # {} PROVE FALSE
  OBVIOUS
<1>1. PICK n \in Missing : \A m \in Missing : ~(m < n)
  <2>1. Missing \subseteq Nat
    OBVIOUS
  <2> HIDE DEF Missing
  <2> QED BY <2>1, LeastNatural
<1>2. n # 0
  <2> SUFFICES ASSUME n = 0 PROVE \E f : IsRootWithin(f, 0)
    OBVIOUS
  <2> DEFINE f == [q \in GuessesWithin(0) |-> q[2]]
  <2>1. ASSUME NEW q \in GuessesWithin(0) PROVE Round(f, q) = q[2]
    <3>1. q[3] = 0
      BY DEF GuessesWithin, Guesses
    <3> QED BY <3>1 DEF Round
  <2>2. f = [q \in GuessesWithin(0) |-> Round(f, q)]
    <3>1. \A q \in GuessesWithin(0) : Round(f, q) = q[2]
      BY <2>1
    <3> HIDE DEF f
    <3>2. f = [q \in GuessesWithin(0) |-> q[2]]
      BY DEF f
    <3> QED BY <3>1, <3>2, Zenon
  <2> QED BY <2>2 DEF IsRootWithin
<1>3. n \in Nat /\ n - 1 \in Nat /\ n - 1 < n
  BY <1>1, <1>2
<1>4. PICK f : IsRootWithin(f, n - 1)
  BY <1>1, <1>3
<1> DEFINE g == [q \in GuessesWithin(n) |-> Round(f, q)]
<1>5. ASSUME NEW q \in GuessesWithin(n) PROVE Round(f, q) = Round(g, q)
  <2>1. CASE q[3] = 0 \/ NextGuess(q[1], q[2]) = q[2]
    BY <2>1 DEF Round
  <2>2. CASE ~(q[3] = 0 \/ NextGuess(q[1], q[2]) = q[2])
    <3> DEFINE r == <<q[1], NextGuess(q[1], q[2]), q[3] - 1>>
    <3>1. r \in GuessesWithin(n - 1) /\ r \in GuessesWithin(n)
      BY <1>3, <2>2, RoundCalls DEF GuessesWithin
    <3>2. f[r] = Round(f, r)
      <4> HIDE DEF r
      <4> QED BY <1>4, <3>1 DEF IsRootWithin
    <3>3. g[r] = Round(f, r)
      <4> HIDE DEF r
      <4> QED BY <3>1
    <3>4. Round(f, q) = f[r] /\ Round(g, q) = g[r]
      <4> HIDE DEF g
      <4> QED BY <2>2 DEF Round
    <3> QED BY <3>2, <3>3, <3>4
  <2> QED BY <2>1, <2>2
<1>6. IsRootWithin(g, n)
  <2>1. \A q \in GuessesWithin(n) : Round(f, q) = Round(g, q)
    BY <1>5
  <2>2. g = [q \in GuessesWithin(n) |-> Round(f, q)]
    OBVIOUS
  <2> HIDE DEF g
  <2> QED BY <2>1, <2>2, Zenon DEF IsRootWithin
<1> QED BY <1>1, <1>6

\* and they agree
LEMMA RootsWithinAgree ==
    ASSUME NEW k \in Nat, NEW m \in Nat, NEW f, NEW g, IsRootWithin(f, k), IsRootWithin(g, m),
           NEW q \in Guesses, q[3] <= k, q[3] <= m
    PROVE  f[q] = g[q]
<1> DEFINE Both == { r \in Guesses : r[3] <= k /\ r[3] <= m }
           Differ == { n \in Nat : \E r \in Both : r[3] = n /\ f[r] # g[r] }
<1> SUFFICES ASSUME Differ # {} PROVE FALSE
  BY DEF Guesses
<1>1. PICK n \in Differ : \A i \in Differ : ~(i < n)
  <2>1. Differ \subseteq Nat
    OBVIOUS
  <2> HIDE DEF Differ
  <2> QED BY <2>1, LeastNatural
<1>2. PICK r \in Both : r[3] = n /\ f[r] # g[r]
  BY <1>1
<1>3. f[r] = Round(f, r) /\ g[r] = Round(g, r)
  <2>1. r \in GuessesWithin(k) /\ r \in GuessesWithin(m)
    BY <1>2 DEF GuessesWithin
  <2> QED BY <2>1 DEF IsRootWithin
<1>4. r[3] # 0 /\ NextGuess(r[1], r[2]) # r[2]
  BY <1>2, <1>3 DEF Round
<1> DEFINE c == <<r[1], NextGuess(r[1], r[2]), r[3] - 1>>
<1>5. c \in Guesses /\ c[3] = r[3] - 1 /\ r[3] \in Nat /\ r[3] - 1 \in Nat
  BY <1>2, <1>4, RoundCalls
<1>6. f[c] # g[c]
  BY <1>2, <1>3, <1>4 DEF Round
<1> HIDE DEF c
<1>7. c \in Both /\ n - 1 \in Nat /\ n - 1 < n
  BY <1>2, <1>5
<1>8. n - 1 \in Differ
  BY <1>2, <1>5, <1>6, <1>7
<1> QED BY <1>1, <1>7, <1>8

\* NewtonRoot satisfies the equation it is defined by
LEMMA NewtonRootUnfolds ==
    ASSUME NEW q \in Guesses PROVE NewtonRoot[q] = Round(NewtonRoot, q)
<1> DEFINE Part(n) == CHOOSE f : IsRootWithin(f, n)
           F == [r \in Guesses |-> Part(r[3])[r]]
<1>1. \A n \in Nat : IsRootWithin(Part(n), n)
  BY RootsWithinExist
<1> HIDE DEF Part
<1>2. ASSUME NEW r \in Guesses PROVE F[r] = Round(F, r)
  <2> DEFINE f == Part(r[3])
  <2>1. r[3] \in Nat
    BY DEF Guesses
  <2>2. F[r] = f[r] /\ IsRootWithin(f, r[3])
    BY <1>1, <2>1
  <2>3. f[r] = Round(f, r)
    <3>1. r \in GuessesWithin(r[3])
      BY <2>1 DEF GuessesWithin
    <3> HIDE DEF f
    <3> QED BY <2>2, <3>1 DEF IsRootWithin
  <2>4. CASE r[3] = 0 \/ NextGuess(r[1], r[2]) = r[2]
    <3> HIDE DEF F, f
    <3> QED BY <2>2, <2>3, <2>4 DEF Round
  <2>5. CASE ~(r[3] = 0 \/ NextGuess(r[1], r[2]) = r[2])
    <3> DEFINE c == <<r[1], NextGuess(r[1], r[2]), r[3] - 1>>
    <3>1. c \in Guesses /\ c[3] = r[3] - 1 /\ r[3] - 1 \in Nat
      BY <2>5, RoundCalls
    <3>2. F[c] = Part(r[3] - 1)[c]
      <4> HIDE DEF c
      <4> QED BY <3>1
    <3>3. f[c] = Part(r[3] - 1)[c]
      <4>1. IsRootWithin(Part(r[3] - 1), r[3] - 1) /\ c[3] <= r[3] /\ c[3] <= r[3] - 1
        BY <1>1, <2>1, <3>1
      <4> HIDE DEF c, f
      <4> QED BY <2>1, <2>2, <3>1, <4>1, RootsWithinAgree
    <3>4. Round(f, r) = f[c] /\ Round(F, r) = F[c]
      <4> HIDE DEF f, F
      <4> QED BY <2>5 DEF Round
    <3> QED BY <2>2, <2>3, <3>2, <3>3, <3>4
  <2> QED BY <2>4, <2>5
<1>3. F = [r \in Guesses |-> Round(F, r)]
  <2>1. F = [r \in Guesses |-> F[r]]
    OBVIOUS
  <2> HIDE DEF F
  <2> QED BY <1>2, <2>1, Zenon
<1> HIDE DEF F
<1>4. NewtonRoot = CHOOSE f : f = [r \in Guesses |-> Round(f, r)]
  BY DEF NewtonRoot, Guesses, Round, NextGuess, Radicand
<1>5. NewtonRoot = [r \in Guesses |-> Round(NewtonRoot, r)]
  BY <1>3, <1>4
<1> QED BY <1>5

-----------------------------------------------------------------------------
(* Rounds and guesses.                                                      *)

\* the equation, round by round: the last guess, the next call
LEMMA NoRoundLeft == ASSUME NEW a \in Nat, NEW g \in Nat \ {0} PROVE NewtonRoot[<<a, g, 0>>] = g
<1>1. <<a, g, 0>> \in Guesses
  BY DEF Guesses
<1> QED BY <1>1, NewtonRootUnfolds DEF Round

\* a guess that does not move is the root
LEMMA FixedGuess ==
    ASSUME NEW a \in Nat, NEW g \in Nat \ {0}, NEW n \in Nat, NextGuess(a, g) = g
    PROVE  NewtonRoot[<<a, g, n>>] = g
<1>1. <<a, g, n>> \in Guesses
  BY DEF Guesses
<1> QED BY <1>1, NewtonRootUnfolds DEF Round

\* (the guess that does not move may as well use up its rounds)
LEMMA OneRound ==
    ASSUME NEW a \in Nat, NEW g \in Nat \ {0}, NEW n \in Nat
    PROVE  NewtonRoot[<<a, g, n + 1>>] = NewtonRoot[<<a, NextGuess(a, g), n>>]
<1>1. CASE NextGuess(a, g) = g
  BY <1>1, FixedGuess
<1>2. CASE NextGuess(a, g) # g
  <2>1. <<a, g, n + 1>> \in Guesses /\ n + 1 # 0 /\ (n + 1) - 1 = n
    BY DEF Guesses
  <2>2. NewtonRoot[<<a, g, n + 1>>] = Round(NewtonRoot, <<a, g, n + 1>>)
    BY <2>1, NewtonRootUnfolds
  <2>3. Round(NewtonRoot, <<a, g, n + 1>>) = NewtonRoot[<<a, NextGuess(a, g), n>>]
    BY <1>2, <2>1 DEF Round
  <2> QED BY <2>2, <2>3
<1> QED BY <1>1, <1>2

\* a guess is above the root when it is at least its integer part
Above(a, g) == (g + 1) * (g + 1) > Radicand(a)

\* a square is not negative
LEMMA SquaresAreNotNegative == ASSUME NEW x \in Int PROVE x * x >= 0
OBVIOUS

\* the square of a mean is at least the product
LEMMA MeanIsAbove ==
    ASSUME NEW x \in Nat, NEW y \in Nat, NEW m \in Nat, 2 * m >= x + y
    PROVE  m * m >= x * y
<1>1. (x - y) * (x - y) >= 0
  BY SquaresAreNotNegative
<1>2. (x - y) * (x - y) = (x + y) * (x + y) - 4 * (x * y)
  OBVIOUS
<1>3. (2 * m) * (2 * m) >= (x + y) * (x + y)
  BY ProductsGrow
<1>4. (2 * m) * (2 * m) = 4 * (m * m)
  OBVIOUS
<1>5. x * y \in Nat /\ m * m \in Nat /\ (x + y) * (x + y) \in Nat
  OBVIOUS
<1> QED BY <1>1, <1>2, <1>3, <1>4, <1>5

\* whatever the guess, the next one is above the root
LEMMA NextGuessIsAbove ==
    ASSUME NEW a \in Nat, NEW g \in Nat \ {0}
    PROVE  Above(a, NextGuess(a, g))
<1> DEFINE c == Radicand(a)
           t == c \div g
           m == NextGuess(a, g)
<1>1. c \in Nat
  BY RadicandIsPositive
<1>2. t \in Nat /\ m = (g + t) \div 2 /\ m \in Nat
  BY NextGuessIsAGuess
<1>3. c < g * (t + 1)
  <2> HIDE DEF c
  <2>1. c % g \in 0 .. g - 1 /\ c = g * t + (c % g)
    BY <1>1, Division
  <2>2. g * (t + 1) = g * t + g
    BY <1>2
  <2> QED BY <1>1, <1>2, <2>1, <2>2
<1> HIDE DEF c, t, m
<1>4. 2 * (m + 1) >= g + (t + 1)
  BY <1>2
<1>5. (m + 1) * (m + 1) >= g * (t + 1)
  BY <1>2, <1>4, MeanIsAbove
<1>6. (m + 1) * (m + 1) \in Nat /\ g * (t + 1) \in Nat
  BY <1>2
<1>7. (m + 1) * (m + 1) > c
  BY <1>1, <1>3, <1>5, <1>6
<1> QED BY <1>7 DEF Above, c, m

\* what a guess is followed by grows with the radicand and with the guess
LEMMA NextGuessGrows ==
    ASSUME NEW a \in Nat, NEW b \in Nat, a < b,
           NEW g \in Nat \ {0}, NEW h \in Nat \ {0}, g <= h, Above(a, g), Above(b, h)
    PROVE  NextGuess(a, g) <= NextGuess(b, h)
<1> DEFINE c == Radicand(a)
           d == Radicand(b)
           t == c \div g
           u == d \div h
           m == NextGuess(a, g)
           k == NextGuess(b, h)
<1>1. c \in Nat /\ d \in Nat /\ d >= c + 2
  <2>1. a * ONE \in Nat /\ b * ONE \in Nat /\ (a + 1) * ONE = a * ONE + ONE
    BY HalfOfOne
  <2>2. b * ONE >= (a + 1) * ONE
    BY HalfOfOne, ProductsGrow
  <2> QED BY <2>1, <2>2, HalfOfOne DEF Radicand
<1>2. /\ t \in Nat /\ m = (g + t) \div 2 /\ m \in Nat
      /\ u \in Nat /\ k = (h + u) \div 2 /\ k \in Nat
  BY NextGuessIsAGuess
<1>3. g * t <= c /\ d < h * (u + 1)
  <2> HIDE DEF c, d
  <2>1. c % g \in 0 .. g - 1 /\ c = g * t + (c % g) /\ d % h \in 0 .. h - 1 /\ d = h * u + (d % h)
    BY <1>1, Division
  <2>2. h * (u + 1) = h * u + h
    BY <1>2
  <2>3. g * t \in Nat /\ h * u \in Nat
    BY <1>2
  <2> QED BY <1>1, <1>2, <2>1, <2>2, <2>3
<1>4. c < (g + 1) * (g + 1)
  BY DEF Above
<1> HIDE DEF c, d, t, u, m, k
<1> SUFFICES ASSUME k < m PROVE FALSE
  BY <1>2 DEF k, m
<1>5. t >= 2 * m - g /\ u <= 2 * m - 1 - h
  BY <1>2
\* the guess is less than one above the root, or the other one is as low
<1>6. t <= g + 2
  <2> SUFFICES ASSUME t >= g + 3 PROVE FALSE
    BY <1>2
  <2>1. g * t >= g * (g + 3)
    BY <1>2, ProductsGrow
  <2>2. g * (g + 3) = g * g + 3 * g /\ (g + 1) * (g + 1) = g * g + 2 * g + 1 /\ g * g \in Nat
    OBVIOUS
  <2> QED BY <1>1, <1>2, <1>3, <1>4, <2>1, <2>2
<1>7. m <= g + 1
  BY <1>2, <1>6
<1>8. (2 * m - h) \in Int /\ h * (u + 1) <= h * (2 * m - h)
  <2>1. u + 1 <= 2 * m - h /\ 2 * m - h \in Nat
    BY <1>2, <1>5
  <2> QED BY <1>2, <2>1, ProductsGrow
<1>9. g * (2 * m - g) <= g * t
  <2>1. CASE 2 * m - g >= 0
    BY <1>2, <1>5, <2>1, ProductsGrow
  <2>2. CASE 2 * m - g < 0
    BY <1>2, <2>2
  <2> QED BY <1>2, <2>1, <2>2
<1>10. g * (2 * m - g) + 2 < h * (2 * m - h)
  <2>1. g * t \in Nat /\ h * (u + 1) \in Nat /\ g * (2 * m - g) \in Int /\ h * (2 * m - h) \in Int
    BY <1>2
  <2> QED BY <1>1, <1>3, <1>8, <1>9, <2>1
<1>11. (h - g) * (2 * m - h - g) > 2
  <2>1. (h - g) * (2 * m - h - g) = h * (2 * m - h) - g * (2 * m - g)
    BY <1>2
  <2> QED BY <1>2, <1>10, <2>1
<1>12. 2 * m > h + g
  <2> SUFFICES ASSUME 2 * m - h - g <= 0 PROVE FALSE
    BY <1>2
  <2> DEFINE x == h - g
             y == h + g - 2 * m
  <2>1. x \in Nat /\ y \in Nat
    BY <1>2
  <2>2. x * y \in Nat /\ (h - g) * (2 * m - h - g) = -(x * y)
    <3>1. 2 * m - h - g = -y
      BY <1>2
    <3> HIDE DEF y, x
    <3>2. x * (-y) = -(x * y) /\ x * y \in Nat
      BY <2>1
    <3> QED BY <3>1, <3>2 DEF x
  <2> HIDE DEF x, y
  <2> QED BY <1>11, <2>1, <2>2
<1>13. h = g \/ h = g + 1
  BY <1>2, <1>7, <1>12
<1> QED BY <1>2, <1>7, <1>11, <1>12, <1>13

\* a root found from above the root is a positive number still above it
LEMMA RootStaysAbove ==
    ASSUME NEW a \in Nat, NEW k \in Nat, NEW g0 \in Nat \ {0}, Above(a, g0)
    PROVE  NewtonRoot[<<a, g0, k>>] \in Nat \ {0} /\ Above(a, NewtonRoot[<<a, g0, k>>])
<1> DEFINE Good(g, n) == NewtonRoot[<<a, g, n>>] \in Nat \ {0} /\ Above(a, NewtonRoot[<<a, g, n>>])
           Bad == { n \in Nat : \E g \in Nat \ {0} : Above(a, g) /\ ~Good(g, n) }
<1> SUFFICES ASSUME Bad # {} PROVE FALSE
  OBVIOUS
<1>1. PICK n \in Bad : \A m \in Bad : ~(m < n)
  <2>1. Bad \subseteq Nat
    OBVIOUS
  <2> HIDE DEF Bad
  <2> QED BY <2>1, LeastNatural
<1>2. PICK g \in Nat \ {0} : Above(a, g) /\ ~Good(g, n)
  BY <1>1
<1>3. n # 0
  BY <1>2, NoRoundLeft
<1>4. n - 1 \in Nat /\ n - 1 < n /\ (n - 1) + 1 = n
  BY <1>1, <1>3
<1> DEFINE next == NextGuess(a, g)
<1>5. next \in Nat \ {0} /\ Above(a, next)
  BY NextGuessIsAGuess, NextGuessIsAbove
<1>6. NewtonRoot[<<a, g, n>>] = NewtonRoot[<<a, next, n - 1>>]
  <2>1. NewtonRoot[<<a, g, (n - 1) + 1>>] = NewtonRoot[<<a, next, n - 1>>]
    <3> DEFINE m == n - 1
    <3>1. m \in Nat
      BY <1>4
    <3> HIDE DEF m
    <3>2. NewtonRoot[<<a, g, m + 1>>] = NewtonRoot[<<a, next, m>>]
      BY <3>1, OneRound
    <3> QED BY <3>2 DEF m
  <2> QED BY <1>4, <2>1
<1>7. ~Good(next, n - 1)
  BY <1>2, <1>6
<1> HIDE DEF Good, next
<1>8. n - 1 \in Bad
  BY <1>4, <1>5, <1>7
<1> QED BY <1>1, <1>4, <1>8

\* the root of more, from a guess that is no less, is no less
LEMMA RootGrows ==
    ASSUME NEW a \in Nat, NEW b \in Nat, a < b, NEW k \in Nat,
           NEW g0 \in Nat \ {0}, NEW h0 \in Nat \ {0}, g0 <= h0, Above(a, g0), Above(b, h0)
    PROVE  NewtonRoot[<<a, g0, k>>] <= NewtonRoot[<<b, h0, k>>]
<1> DEFINE From(g, h) == g <= h /\ Above(a, g) /\ Above(b, h)
           Good(g, h, n) == NewtonRoot[<<a, g, n>>] <= NewtonRoot[<<b, h, n>>]
           Bad == { n \in Nat : \E g \in Nat \ {0}, h \in Nat \ {0} : From(g, h) /\ ~Good(g, h, n) }
<1> SUFFICES ASSUME Bad # {} PROVE FALSE
  OBVIOUS
<1>1. PICK n \in Bad : \A m \in Bad : ~(m < n)
  <2>1. Bad \subseteq Nat
    OBVIOUS
  <2> HIDE DEF Bad
  <2> QED BY <2>1, LeastNatural
<1>2. PICK g \in Nat \ {0}, h \in Nat \ {0} : From(g, h) /\ ~Good(g, h, n)
  BY <1>1
<1>3. n # 0
  <2> SUFFICES ASSUME n = 0 PROVE FALSE
    OBVIOUS
  <2>1. NewtonRoot[<<a, g, n>>] = g /\ NewtonRoot[<<b, h, n>>] = h
    BY NoRoundLeft
  <2> QED BY <1>2, <2>1
<1>4. n - 1 \in Nat /\ n - 1 < n /\ (n - 1) + 1 = n
  BY <1>1, <1>3
<1> DEFINE i == NextGuess(a, g)  j == NextGuess(b, h)
<1>5. i \in Nat \ {0} /\ j \in Nat \ {0} /\ From(i, j)
  BY <1>2, NextGuessIsAGuess, NextGuessIsAbove, NextGuessGrows
<1>6. /\ NewtonRoot[<<a, g, n>>] = NewtonRoot[<<a, i, n - 1>>]
      /\ NewtonRoot[<<b, h, n>>] = NewtonRoot[<<b, j, n - 1>>]
  <2> DEFINE m == n - 1
  <2>1. m \in Nat /\ n = m + 1
    BY <1>4
  <2> HIDE DEF m
  <2>2. NewtonRoot[<<a, g, m + 1>>] = NewtonRoot[<<a, i, m>>] /\ NewtonRoot[<<b, h, m + 1>>] = NewtonRoot[<<b, j, m>>]
    BY <2>1, OneRound
  <2>3. NewtonRoot[<<a, g, n>>] = NewtonRoot[<<a, i, m>>] /\ NewtonRoot[<<b, h, n>>] = NewtonRoot[<<b, j, m>>]
    BY <2>1, <2>2
  <2> QED BY <2>3 DEF m
<1>7. ~Good(i, j, n - 1)
  BY <1>2, <1>6
<1> HIDE DEF Good, i, j, From
<1>8. n - 1 \in Bad
  BY <1>4, <1>5, <1>7
<1> QED BY <1>1, <1>4, <1>8

\* the first guess is above the root
LEMMA FirstGuessIsAbove ==
    ASSUME NEW x \in Nat
    PROVE  /\ Average(x, ONE) = (x + ONE) \div 2
           /\ Average(x, ONE) \in Nat \ {0}
           /\ Above(x, Average(x, ONE))
<1> DEFINE g == (x + ONE) \div 2
<1>1. Average(x, ONE) = g /\ ONE \in Nat /\ ONE >= 2
  BY HalfOfOne, AverageIsHalf
<1>2. g \in Nat \ {0} /\ 2 * (g + 1) >= (x + 1) + ONE
  BY <1>1
<1> HIDE DEF g
<1>3. (g + 1) * (g + 1) >= (x + 1) * ONE
  BY <1>1, <1>2, MeanIsAbove
<1>4. (x + 1) * ONE = x * ONE + ONE /\ x * ONE \in Nat /\ (g + 1) * (g + 1) \in Nat
  BY <1>1, <1>2
<1>5. (g + 1) * (g + 1) > Radicand(x)
  BY <1>3, <1>4, HalfOfOne DEF Radicand
<1> QED BY <1>1, <1>2, <1>5 DEF Above, g

\* the square root of a number is a number, positive if that is
LEMMA SqrtIsNatural ==
    ASSUME NEW x \in Nat
    PROVE  PreciseSqrt(x) \in Nat /\ (x # 0 => PreciseSqrt(x) # 0)
<1>1. MAX_APPROXIMATION_ITERATIONS \in Nat
  BY DEF MAX_APPROXIMATION_ITERATIONS
<1>2. CASE x = 0
  BY <1>2 DEF PreciseSqrt
<1>3. CASE x # 0
  <2> DEFINE g == Average(x, ONE)
  <2>1. g \in Nat \ {0} /\ Above(x, g)
    BY FirstGuessIsAbove
  <2>2. PreciseSqrt(x) = NewtonRoot[<<x, g, MAX_APPROXIMATION_ITERATIONS>>]
    BY <1>3 DEF PreciseSqrt
  <2> HIDE DEF g
  <2> QED BY <1>1, <2>1, <2>2, RootStaysAbove
<1> QED BY <1>2, <1>3

\* and the root of more is no less
LEMMA SqrtGrows ==
    ASSUME NEW x \in Nat, NEW y \in Nat, x <= y
    PROVE  PreciseSqrt(x) <= PreciseSqrt(y)
<1>1. PreciseSqrt(x) \in Nat /\ PreciseSqrt(y) \in Nat
  BY SqrtIsNatural
<1>2. CASE x = 0
  BY <1>1, <1>2 DEF PreciseSqrt
<1>3. CASE x = y
  BY <1>1, <1>3
<1>4. CASE x # 0 /\ x < y
  <2> DEFINE g == Average(x, ONE)  h == Average(y, ONE)
  <2>1. g \in Nat \ {0} /\ h \in Nat \ {0} /\ Above(x, g) /\ Above(y, h) /\ g <= h
    BY <1>4, FirstGuessIsAbove, HalfOfOne
  <2>2. /\ PreciseSqrt(x) = NewtonRoot[<<x, g, MAX_APPROXIMATION_ITERATIONS>>]
        /\ PreciseSqrt(y) = NewtonRoot[<<y, h, MAX_APPROXIMATION_ITERATIONS>>]
    BY <1>4 DEF PreciseSqrt
  <2>3. MAX_APPROXIMATION_ITERATIONS \in Nat
    BY DEF MAX_APPROXIMATION_ITERATIONS
  <2> HIDE DEF g, h
  <2> QED BY <1>4, <2>1, <2>2, <2>3, RootGrows
<1> QED BY <1>2, <1>3, <1>4

\* a product of whole numbers of the fixed point is exact
LEMMA PreciseProduct ==
    ASSUME NEW n \in Nat, NEW x \in Nat
    PROVE  PreciseMul(Precise(n), x) = n * x
<1> DEFINE k == n * x
           m == Precise(n) * x + ONE \div 2
<1>1. k \in Nat /\ ONE \in Nat \ {0}
  BY HalfOfOne
<1>2. Precise(n) * x = k * ONE /\ k * ONE \in Nat
  BY <1>1 DEF Precise
<1>3. m \in Nat /\ k * ONE <= m /\ m < k * ONE + ONE
  <2> HIDE DEF k
  <2> QED BY <1>2, HalfOfOne
<1> HIDE DEF k, m
<1>4. m \div ONE = k
  BY <1>1, <1>3, QuotientIs
<1> QED BY <1>4 DEF PreciseMul, k, m

-----------------------------------------------------------------------------
(* How fast the guesses settle.                                             *)

\* the root is found when its guess is its integer part, or one more when the
\* radicand is one short of a square: between those two the rounds may alternate
Settled(a, g) == Above(a, g) /\ g * g <= Radicand(a) + 1

\* a settled guess is followed by a settled one
LEMMA SettledStays ==
    ASSUME NEW a \in Nat, NEW g \in Nat \ {0}, Settled(a, g)
    PROVE  Settled(a, NextGuess(a, g))
<1> DEFINE c == Radicand(a)
           t == c \div g
           m == NextGuess(a, g)
<1>1. c \in Nat
  BY RadicandIsPositive
<1>2. t \in Nat /\ m = (g + t) \div 2 /\ m \in Nat
  BY NextGuessIsAGuess
<1>3. g * t <= c
  <2> HIDE DEF c
  <2>1. c % g \in 0 .. g - 1 /\ c = g * t + (c % g)
    BY <1>1, Division
  <2>2. g * t \in Nat
    BY <1>2
  <2> QED BY <1>1, <2>1, <2>2
<1>4. c < (g + 1) * (g + 1) /\ g * g <= c + 1
  BY DEF Above, Settled
<1>5. (g + 1) * (g + 1) = g * g + 2 * g + 1 /\ g * g \in Nat
  OBVIOUS
<1>6. Above(a, m)
  BY NextGuessIsAbove
<1> HIDE DEF c, t, m
<1>7. t <= g + 2
  <2> SUFFICES ASSUME t >= g + 3 PROVE FALSE
    BY <1>2
  <2>1. g * t >= g * (g + 3)
    BY <1>2, ProductsGrow
  <2>2. g * (g + 3) = g * g + 3 * g
    OBVIOUS
  <2> QED BY <1>1, <1>2, <1>3, <1>4, <1>5, <2>1, <2>2
<1>8. m * m <= c + 1
  <2>1. CASE m <= g
    <3>1. m * m <= g * g /\ m * m \in Nat
      BY <1>2, <2>1, ProductsGrow
    <3> QED BY <1>1, <1>4, <1>5, <3>1
  <2>2. CASE m > g
    <3>1. m = g + 1 /\ t = g + 2
      BY <1>2, <1>7, <2>2
    <3>2. g * t = g * g + 2 * g /\ m * m = g * g + 2 * g + 1
      BY <3>1
    <3> QED BY <1>1, <1>3, <1>5, <3>2
  <2> QED BY <1>2, <2>1, <2>2
<1> QED BY <1>6, <1>8 DEF Settled, m, c

\* the integer part of the root
IsIntegerRoot(a, r) == r * r <= Radicand(a) /\ Above(a, r)

\* every radicand has one
LEMMA IntegerRootExists ==
    ASSUME NEW a \in Nat PROVE \E r \in Nat \ {0} : IsIntegerRoot(a, r)
<1> DEFINE c == Radicand(a)
           Enough == { m \in Nat : (m + 1) * (m + 1) > c }
<1>1. c \in Nat \ {0}
  BY RadicandIsPositive
<1> HIDE DEF c
<1>2. c \in Enough
  <2>1. (c + 1) * (c + 1) = c * c + 2 * c + 1 /\ c * c \in Nat
    BY <1>1
  <2> QED BY <1>1, <2>1
<1>3. PICK r \in Enough : \A m \in Enough : ~(m < r)
  <2>1. Enough \subseteq Nat /\ Enough # {}
    BY <1>2
  <2> HIDE DEF Enough
  <2> QED BY <2>1, LeastNatural
<1>4. r \in Nat /\ (r + 1) * (r + 1) > c
  BY <1>3
<1>5. r * r <= c
  <2>1. CASE r = 0
    BY <1>1, <2>1
  <2>2. CASE r # 0
    <3>1. r - 1 \in Nat /\ r - 1 < r /\ r - 1 \notin Enough /\ (r - 1) + 1 = r
      BY <1>3, <1>4, <2>2
    <3> QED BY <1>1, <1>4, <3>1
  <2> QED BY <2>1, <2>2
<1>6. r # 0
  BY <1>1, <1>4
<1> QED BY <1>4, <1>5, <1>6 DEF IsIntegerRoot, Above, c

\* a guess above the root is at least the integer part
LEMMA AboveIsAtLeast ==
    ASSUME NEW a \in Nat, NEW r \in Nat, IsIntegerRoot(a, r), NEW g \in Nat, Above(a, g)
    PROVE  g >= r
<1> SUFFICES ASSUME g + 1 <= r PROVE FALSE
  OBVIOUS
<1>1. (g + 1) * (g + 1) <= r * r
  BY ProductsGrow
<1>2. (g + 1) * (g + 1) \in Nat /\ r * r \in Nat /\ Radicand(a) \in Nat
  BY RadicandIsPositive
<1> QED BY <1>1, <1>2 DEF IsIntegerRoot, Above

\* a round halves the distance to the integer part
LEMMA RoundHalves ==
    ASSUME NEW a \in Nat, NEW r \in Nat, IsIntegerRoot(a, r), NEW g \in Nat \ {0}, g > r
    PROVE  2 * NextGuess(a, g) <= g + r
<1> DEFINE c == Radicand(a)
           t == c \div g
<1>1. c \in Nat
  BY RadicandIsPositive
<1>2. t \in Nat /\ NextGuess(a, g) = (g + t) \div 2
  BY NextGuessIsAGuess
<1>3. g * t <= c /\ c < (r + 1) * (r + 1)
  <2>1. c < (r + 1) * (r + 1)
    BY DEF IsIntegerRoot, Above
  <2> HIDE DEF c
  <2>2. c % g \in 0 .. g - 1 /\ c = g * t + (c % g)
    BY <1>1, Division
  <2>3. g * t \in Nat
    BY <1>2
  <2> QED BY <1>1, <2>1, <2>2, <2>3
<1> HIDE DEF c, t
<1>4. t <= r
  <2> SUFFICES ASSUME t >= r + 1 PROVE FALSE
    BY <1>2
  <2>1. g * t >= (r + 1) * (r + 1)
    BY <1>2, ProductsGrow
  <2>2. g * t \in Nat /\ (r + 1) * (r + 1) \in Nat
    BY <1>2
  <2> QED BY <1>1, <1>3, <2>1, <2>2
<1> QED BY <1>2, <1>4

\* and one whose square is at most the root is left by one
LEMMA RoundFinishes ==
    ASSUME NEW a \in Nat, NEW r \in Nat \ {0}, IsIntegerRoot(a, r),
           NEW d \in Nat, d * d <= r
    PROVE  NextGuess(a, r + d) <= r + 1
<1> DEFINE c == Radicand(a)
           g == r + d
           t == c \div g
<1>1. c \in Nat
  BY RadicandIsPositive
<1>2. g \in Nat \ {0} /\ t \in Nat /\ NextGuess(a, g) = (g + t) \div 2
  <2>1. g \in Nat \ {0}
    OBVIOUS
  <2> HIDE DEF g
  <2> QED BY <2>1, NextGuessIsAGuess
<1>3. g * t <= c /\ c < (r + 1) * (r + 1)
  <2>1. c < (r + 1) * (r + 1)
    BY DEF IsIntegerRoot, Above
  <2> HIDE DEF c, g
  <2>2. c % g \in 0 .. g - 1 /\ c = g * t + (c % g)
    BY <1>1, <1>2, Division
  <2>3. g * t \in Nat
    BY <1>2
  <2> QED BY <1>1, <1>2, <2>1, <2>2, <2>3
<1>4. d * d \in Nat /\ d <= r
  <2>1. d * d >= d
    BY ProductsGrow
  <2> QED BY <2>1
<1> HIDE DEF c, t
<1>5. t <= r - d + 3
  <2> DEFINE k == r - d + 4
  <2>1. k \in Nat
    BY <1>4
  <2> SUFFICES ASSUME t >= k PROVE FALSE
    BY <1>2, <2>1
  <2>2. g * t >= g * k
    BY <1>2, <2>1, ProductsGrow
  <2>3. g * k = r * r - d * d + 4 * r + 4 * d /\ r * r \in Nat
    OBVIOUS
  <2>4. (r + 1) * (r + 1) = r * r + 2 * r + 1
    OBVIOUS
  <2>5. g * t \in Nat
    BY <1>2
  <2> HIDE DEF g, k
  <2> QED BY <1>1, <1>3, <1>4, <2>2, <2>3, <2>4, <2>5
<1> QED BY <1>2, <1>4, <1>5

\* a guess that is settled, or within f of the integer part
Near(a, r, g, f) == Above(a, g) /\ (Settled(a, g) \/ g < r + f)

\* n rounds divide the distance by d, from any guess and whatever is left to do
ShrinksFrom(a, r, n, d, g, f, m) ==
    Near(a, r, g, f * d) =>
      \E h \in Nat \ {0} : Near(a, r, h, f) /\ NewtonRoot[<<a, g, m + n>>] = NewtonRoot[<<a, h, m>>]

Shrinks(a, r, n, d) ==
    \A g \in Nat \ {0}, f \in Nat \ {0}, m \in Nat : ShrinksFrom(a, r, n, d, g, f, m)

\* one round divides it by two
LEMMA OneRoundShrinks ==
    ASSUME NEW a \in Nat, NEW r \in Nat \ {0}, IsIntegerRoot(a, r)
    PROVE  Shrinks(a, r, 1, 2)
<1> SUFFICES ASSUME NEW g \in Nat \ {0}, NEW f \in Nat \ {0}, NEW m \in Nat, Near(a, r, g, f * 2)
             PROVE  /\ NextGuess(a, g) \in Nat \ {0}
                    /\ Near(a, r, NextGuess(a, g), f)
                    /\ NewtonRoot[<<a, g, m + 1>>] = NewtonRoot[<<a, NextGuess(a, g), m>>]
  BY Zenon DEF Shrinks, ShrinksFrom
<1>1. NextGuess(a, g) \in Nat \ {0} /\ Above(a, NextGuess(a, g))
  BY NextGuessIsAGuess, NextGuessIsAbove
<1>2. NewtonRoot[<<a, g, m + 1>>] = NewtonRoot[<<a, NextGuess(a, g), m>>]
  BY OneRound
<1>3. CASE Settled(a, g)
  BY <1>1, <1>2, <1>3, SettledStays DEF Near
<1>4. CASE g < r + f * 2 /\ g > r
  BY <1>1, <1>2, <1>4, RoundHalves DEF Near
<1>5. CASE g <= r
  <2>1. g = r
    BY <1>5, AboveIsAtLeast DEF Near
  <2>2. Radicand(a) \in Nat /\ g * g \in Nat
    BY RadicandIsPositive
  <2>3. Settled(a, g)
    BY <2>1, <2>2 DEF IsIntegerRoot, Settled
  <2> QED BY <1>3, <2>3
<1> QED BY <1>3, <1>4, <1>5 DEF Near

\* and rounds after rounds divide by both
LEMMA RoundsShrink ==
    ASSUME NEW a, NEW r, NEW n \in Nat, NEW k \in Nat, NEW d \in Nat \ {0}, NEW e \in Nat \ {0},
           Shrinks(a, r, n, d), Shrinks(a, r, k, e)
    PROVE  Shrinks(a, r, n + k, d * e)
<1> SUFFICES ASSUME NEW g \in Nat \ {0}, NEW f \in Nat \ {0}, NEW m \in Nat,
                    Near(a, r, g, f * (d * e))
             PROVE  \E h \in Nat \ {0} : /\ Near(a, r, h, f)
                                         /\ NewtonRoot[<<a, g, m + (n + k)>>] = NewtonRoot[<<a, h, m>>]
  BY Zenon DEF Shrinks, ShrinksFrom
<1>1. f * (d * e) = (f * e) * d /\ f * e \in Nat \ {0} /\ m + (n + k) = (m + k) + n /\ m + k \in Nat
  <2>1. f * e >= 1
    BY ProductsGrow
  <2> QED BY <2>1
<1>2. PICK i \in Nat \ {0} : /\ Near(a, r, i, f * e)
                             /\ NewtonRoot[<<a, g, (m + k) + n>>] = NewtonRoot[<<a, i, m + k>>]
  <2>1. Near(a, r, g, (f * e) * d)
    BY <1>1
  <2>2. ShrinksFrom(a, r, n, d, g, f * e, m + k)
    BY <1>1 DEF Shrinks
  <2> QED BY <2>1, <2>2, Zenon DEF ShrinksFrom
<1>3. PICK h \in Nat \ {0} : /\ Near(a, r, h, f)
                             /\ NewtonRoot[<<a, i, m + k>>] = NewtonRoot[<<a, h, m>>]
  <2>1. ShrinksFrom(a, r, k, e, i, f, m)
    BY DEF Shrinks
  <2> QED BY <1>2, <2>1, Zenon DEF ShrinksFrom
<1>4. NewtonRoot[<<a, g, m + (n + k)>>] = NewtonRoot[<<a, h, m>>]
  BY <1>1, <1>2, <1>3
<1> QED BY <1>3, <1>4

TwoTo16  == 65536
TwoTo32  == TwoTo16 * TwoTo16
TwoTo48  == TwoTo32 * TwoTo16
TwoTo64  == TwoTo32 * TwoTo32
TwoTo80  == TwoTo64 * TwoTo16
TwoTo96  == TwoTo80 * TwoTo16
TwoTo104 == TwoTo96 * 256

\* the powers of two are positive numbers
LEMMA Powers ==
    /\ TwoTo16 \in Nat \ {0} /\ TwoTo32 \in Nat \ {0} /\ TwoTo48 \in Nat \ {0}
    /\ TwoTo64 \in Nat \ {0} /\ TwoTo80 \in Nat \ {0} /\ TwoTo96 \in Nat \ {0}
    /\ TwoTo104 \in Nat \ {0}
<1>1. TwoTo16 \in Nat \ {0}
  BY DEF TwoTo16
<1>2. TwoTo32 \in Nat \ {0}
  BY <1>1, PositiveProduct DEF TwoTo32
<1>3. TwoTo48 \in Nat \ {0} /\ TwoTo64 \in Nat \ {0}
  BY <1>1, <1>2, PositiveProduct DEF TwoTo48, TwoTo64
<1>4. TwoTo80 \in Nat \ {0}
  BY <1>1, <1>3, PositiveProduct DEF TwoTo80
<1>5. TwoTo96 \in Nat \ {0}
  BY <1>1, <1>4, PositiveProduct DEF TwoTo96
<1>6. TwoTo104 \in Nat \ {0}
  BY <1>5, PositiveProduct DEF TwoTo104
<1> QED BY <1>1, <1>2, <1>3, <1>4, <1>5, <1>6

\* 80 rounds divide it by 2^80, 96 by 2^96
LEMMA ManyRoundsShrink ==
    ASSUME NEW a \in Nat, NEW r \in Nat \ {0}, IsIntegerRoot(a, r)
    PROVE  Shrinks(a, r, 80, TwoTo80) /\ Shrinks(a, r, 96, TwoTo96)
<1>1. Shrinks(a, r, 2, 4)
  <2>1. Shrinks(a, r, 1 + 1, 2 * 2)
    BY OneRoundShrinks, RoundsShrink
  <2> QED BY <2>1
<1>2. Shrinks(a, r, 4, 16)
  <2>1. Shrinks(a, r, 2 + 2, 4 * 4)
    BY <1>1, RoundsShrink
  <2> QED BY <2>1
<1>3. Shrinks(a, r, 8, 256)
  <2>1. Shrinks(a, r, 4 + 4, 16 * 16)
    BY <1>2, RoundsShrink
  <2> QED BY <2>1
<1>4. Shrinks(a, r, 16, TwoTo16)
  <2>1. Shrinks(a, r, 8 + 8, 256 * 256)
    BY <1>3, RoundsShrink
  <2> QED BY <2>1 DEF TwoTo16
<1>5. Shrinks(a, r, 32, TwoTo32)
  <2>1. Shrinks(a, r, 16 + 16, TwoTo16 * TwoTo16)
    BY <1>4, Powers, RoundsShrink
  <2> QED BY <2>1 DEF TwoTo32
<1>6. Shrinks(a, r, 64, TwoTo64)
  <2>1. Shrinks(a, r, 32 + 32, TwoTo32 * TwoTo32)
    BY <1>5, Powers, RoundsShrink
  <2> QED BY <2>1 DEF TwoTo64
<1>7. Shrinks(a, r, 80, TwoTo80)
  <2>1. Shrinks(a, r, 64 + 16, TwoTo64 * TwoTo16)
    BY <1>4, <1>6, Powers, RoundsShrink
  <2> QED BY <2>1 DEF TwoTo80
<1>8. Shrinks(a, r, 96, TwoTo96)
  <2>1. Shrinks(a, r, 80 + 16, TwoTo80 * TwoTo16)
    BY <1>4, <1>7, Powers, RoundsShrink
  <2> QED BY <2>1 DEF TwoTo96
<1> QED BY <1>7, <1>8

\* rounds that are left over do not unsettle it
LEMMA SettledRoot ==
    ASSUME NEW a \in Nat, NEW k \in Nat, NEW g0 \in Nat \ {0}, Settled(a, g0)
    PROVE  Settled(a, NewtonRoot[<<a, g0, k>>])
<1> DEFINE Bad == { n \in Nat : \E g \in Nat \ {0} :
                      Settled(a, g) /\ ~Settled(a, NewtonRoot[<<a, g, n>>]) }
<1> SUFFICES ASSUME Bad # {} PROVE FALSE
  OBVIOUS
<1>1. PICK n \in Bad : \A m \in Bad : ~(m < n)
  <2>1. Bad \subseteq Nat
    OBVIOUS
  <2> HIDE DEF Bad
  <2> QED BY <2>1, LeastNatural
<1>2. PICK g \in Nat \ {0} : Settled(a, g) /\ ~Settled(a, NewtonRoot[<<a, g, n>>])
  BY <1>1
<1>3. n # 0
  BY <1>2, NoRoundLeft
<1>4. PICK m \in Nat : n = m + 1
  <2>1. n - 1 \in Nat /\ n = (n - 1) + 1
    BY <1>1, <1>3
  <2> QED BY <2>1
<1> DEFINE next == NextGuess(a, g)
<1>5. next \in Nat \ {0} /\ Settled(a, next)
  BY <1>2, NextGuessIsAGuess, SettledStays
<1>6. NewtonRoot[<<a, g, n>>] = NewtonRoot[<<a, next, m>>]
  BY <1>4, OneRound
<1> HIDE DEF next
<1>7. m \in Bad /\ m < n
  BY <1>2, <1>4, <1>5, <1>6
<1> QED BY <1>1, <1>7

\* a guess within one of the integer part is settled
LEMMA NearestIsSettled ==
    ASSUME NEW a \in Nat, NEW r \in Nat, IsIntegerRoot(a, r), NEW g \in Nat, Near(a, r, g, 1)
    PROVE  Settled(a, g)
<1>1. CASE Settled(a, g)
  BY <1>1
<1>2. CASE g < r + 1
  <2>1. g = r
    BY <1>2, AboveIsAtLeast DEF Near
  <2>2. Radicand(a) \in Nat /\ g * g \in Nat
    BY RadicandIsPositive
  <2> QED BY <2>1, <2>2 DEF IsIntegerRoot, Settled
<1> QED BY <1>1, <1>2 DEF Near

\* The rounds the library allows are enough: a guess below 2^96 is settled by
\* halving, and one below 2^104 is in 80 rounds so close to its root, which is
\* then at least 2^48, that two more settle it.
LEMMA RoundsAreEnough ==
    ASSUME NEW a \in Nat \ {0}, NEW g \in Nat \ {0}, Above(a, g),
           g < TwoTo96 \/ (g < TwoTo104 /\ 2 * g <= a + ONE)
    PROVE  Settled(a, NewtonRoot[<<a, g, 100>>])
<1>1. PICK r \in Nat \ {0} : IsIntegerRoot(a, r)
  BY IntegerRootExists
<1>2. CASE g < TwoTo96
  <2>1. Near(a, r, g, 1 * TwoTo96)
    BY <1>2, Powers DEF Near
  <2>2. ShrinksFrom(a, r, 96, TwoTo96, g, 1, 4)
    BY <1>1, ManyRoundsShrink DEF Shrinks
  <2>3. PICK h \in Nat \ {0} : Near(a, r, h, 1) /\ NewtonRoot[<<a, g, 4 + 96>>] = NewtonRoot[<<a, h, 4>>]
    BY <2>1, <2>2, Zenon DEF ShrinksFrom
  <2>4. Settled(a, h)
    BY <1>1, <2>3, NearestIsSettled
  <2>5. Settled(a, NewtonRoot[<<a, h, 4>>])
    BY <2>4, SettledRoot
  <2> QED BY <2>3, <2>5
<1>3. CASE g >= TwoTo96 /\ g < TwoTo104 /\ 2 * g <= a + ONE
  <2> DEFINE f == 256 * TwoTo16
  <2>1. f \in Nat \ {0} /\ f * f = 65536 * TwoTo32 /\ f * TwoTo80 = TwoTo104
    <3>1. f \in Nat \ {0}
      BY DEF TwoTo16
    <3>2. f * f = 65536 * (TwoTo16 * TwoTo16)
      BY Powers
    <3>3. f * TwoTo80 = 256 * (TwoTo80 * TwoTo16)
      BY Powers
    <3> HIDE DEF f
    <3> QED BY <3>1, <3>2, <3>3, Powers DEF TwoTo32, TwoTo96, TwoTo104
  <2>2. f * f = TwoTo48
    <3>1. 65536 * TwoTo32 = TwoTo32 * 65536
      BY Powers
    <3> HIDE DEF f
    <3> QED BY <2>1, <3>1 DEF TwoTo48, TwoTo16
  <2> HIDE DEF f
  <2>3. r >= TwoTo48
    <3> SUFFICES ASSUME r + 1 <= TwoTo48 PROVE FALSE
      BY Powers
    <3>1. (r + 1) * (r + 1) <= TwoTo48 * TwoTo48
      BY Powers, ProductsGrow
    <3>2. TwoTo48 * TwoTo48 = TwoTo96
      <4>1. (TwoTo32 * TwoTo16) * (TwoTo32 * TwoTo16) = ((TwoTo32 * TwoTo32) * TwoTo16) * TwoTo16
        BY Powers
      <4> QED BY <4>1 DEF TwoTo48, TwoTo64, TwoTo80, TwoTo96
    <3>3. a * ONE >= a + ONE - 1
      <4>1. (a - 1) * (ONE - 1) >= 0 /\ (a - 1) * (ONE - 1) = a * ONE - a - ONE + 1
        BY HalfOfOne
      <4> QED BY <4>1, HalfOfOne
    <3>4. Radicand(a) >= a + ONE /\ Radicand(a) \in Nat /\ ONE \in Nat
      <4>1. a * ONE \in Nat
        BY HalfOfOne
      <4> QED BY <3>3, <4>1, HalfOfOne DEF Radicand
    <3>5. (r + 1) * (r + 1) > Radicand(a) /\ (r + 1) * (r + 1) \in Nat
      BY <1>1 DEF IsIntegerRoot, Above
    <3> QED BY <1>3, <3>1, <3>2, <3>4, <3>5, Powers
  <2>4. Near(a, r, g, f * TwoTo80)
    BY <1>3, <2>1, Powers DEF Near
  <2>5. ShrinksFrom(a, r, 80, TwoTo80, g, f, 20)
    BY <1>1, <2>1, ManyRoundsShrink DEF Shrinks
  <2>6. PICK h \in Nat \ {0} : Near(a, r, h, f) /\ NewtonRoot[<<a, g, 20 + 80>>] = NewtonRoot[<<a, h, 20>>]
    BY <2>4, <2>5, Zenon DEF ShrinksFrom
  <2>7. CASE Settled(a, h)
    <3>1. Settled(a, NewtonRoot[<<a, h, 20>>])
      BY <2>7, SettledRoot
    <3> QED BY <2>6, <3>1
  <2>8. CASE h < r + f
    <3>1. h >= r
      BY <1>1, <2>6, AboveIsAtLeast DEF Near
    <3> DEFINE d == h - r
               i == NextGuess(a, h)
               j == NextGuess(a, i)
    <3>2. d \in Nat /\ d * d <= r /\ h = r + d
      <4>1. d \in Nat /\ d <= f /\ h = r + d
        BY <2>1, <2>8, <3>1
      <4> HIDE DEF d
      <4>2. d * d <= f * f /\ d * d \in Nat
        BY <2>1, <4>1, ProductsGrow
      <4> QED BY <2>1, <2>2, <2>3, <4>1, <4>2, Powers
    <3> HIDE DEF d
    <3>3. i \in Nat \ {0} /\ Above(a, i) /\ i <= r + 1
      BY <1>1, <3>2, RoundFinishes, NextGuessIsAGuess, NextGuessIsAbove
    <3>4. NewtonRoot[<<a, h, 19 + 1>>] = NewtonRoot[<<a, i, 19>>]
      BY OneRound
    <3> HIDE DEF i
    <3>5. Near(a, r, i, 1 * 2)
      BY <3>3 DEF Near
    <3>6. ShrinksFrom(a, r, 1, 2, i, 1, 18)
      BY <1>1, <3>3, OneRoundShrinks DEF Shrinks
    <3>7. PICK k \in Nat \ {0} : Near(a, r, k, 1) /\ NewtonRoot[<<a, i, 18 + 1>>] = NewtonRoot[<<a, k, 18>>]
      BY <3>5, <3>6, Zenon DEF ShrinksFrom
    <3>8. Settled(a, NewtonRoot[<<a, k, 18>>])
      BY <1>1, <3>7, NearestIsSettled, SettledRoot
    <3> QED BY <2>6, <3>4, <3>7, <3>8
  <2> QED BY <2>6, <2>7, <2>8 DEF Near
<1> QED BY <1>2, <1>3, Powers

\* The square root of the fixed point is the root of x * ONE to less than one:
\* for every number below 2^104, which bounds ONE + ONE * U64Max for the ONE and
\* the u64 of the program.
THEOREM SqrtIsTheRoot ==
    ASSUME NEW x \in Nat, x + ONE <= TwoTo104
    PROVE  LET v == PreciseSqrt(x)
           IN  /\ v \in Nat
               /\ x # 0 => v * v <= Radicand(x) + 1 /\ (v + 1) * (v + 1) > Radicand(x)
<1>1. CASE x = 0
  BY <1>1 DEF PreciseSqrt
<1>2. CASE x # 0
  <2> DEFINE g == Average(x, ONE)
  <2>1. g \in Nat \ {0} /\ Above(x, g) /\ g = (x + ONE) \div 2
    BY FirstGuessIsAbove
  <2>2. 2 * g <= x + ONE /\ g < TwoTo104
    <3>1. 2 * g <= x + ONE
      BY <2>1, HalfOfOne
    <3> HIDE DEF g
    <3> QED BY <2>1, <3>1, Powers, HalfOfOne
  <2>3. PreciseSqrt(x) = NewtonRoot[<<x, g, 100>>]
    BY <1>2 DEF PreciseSqrt, MAX_APPROXIMATION_ITERATIONS
  <2> HIDE DEF g
  <2>4. Settled(x, PreciseSqrt(x))
    BY <1>2, <2>1, <2>2, <2>3, RoundsAreEnough
  <2>5. PreciseSqrt(x) \in Nat
    BY SqrtIsNatural
  <2> QED BY <1>2, <2>4, <2>5 DEF Settled, Above
<1> QED BY <1>1, <1>2

\* the square of a root is less than one unit more than its radicand
LEMMA SquareOfRoot ==
    ASSUME NEW x \in Nat, x + ONE <= TwoTo104
    PROVE  PreciseSqrt(x) \in Nat /\ PreciseSqrt(x) * PreciseSqrt(x) <= (x + 1) * ONE
<1> DEFINE v == PreciseSqrt(x)
<1>1. v \in Nat /\ (x # 0 => v * v <= Radicand(x) + 1)
  BY SqrtIsTheRoot
<1>2. CASE x = 0
  BY <1>2, HalfOfOne DEF PreciseSqrt
<1>3. CASE x # 0
  <2>1. Radicand(x) + 1 <= (x + 1) * ONE
    <3>1. (x + 1) * ONE = x * ONE + ONE /\ x * ONE \in Nat
      BY HalfOfOne
    <3> QED BY <3>1, HalfOfOne DEF Radicand
  <2>2. v * v \in Nat /\ Radicand(x) \in Nat /\ (x + 1) * ONE \in Nat
    BY <1>1, RadicandIsPositive, HalfOfOne
  <2> HIDE DEF v
  <2>3. v * v <= (x + 1) * ONE
    BY <1>1, <1>3, <2>1, <2>2
  <2> QED BY <1>1, <2>3 DEF v
<1> QED BY <1>2, <1>3

\* a quotient of whole numbers loses less than one unit of the fixed point
LEMMA PreciseRatio ==
    ASSUME NEW n \in Nat, NEW d \in Nat \ {0}
    PROVE  /\ PreciseDiv(Precise(n), Precise(d)) = {(n * ONE) \div d}
           /\ (n * ONE) \div d \in Nat
           /\ ((n * ONE) \div d) * d <= n * ONE
           /\ n * ONE < ((n * ONE) \div d) * d + d
<1> DEFINE p == n * ONE
           q == p \div d
           rest == p % d
           m == Precise(n) * ONE + ONE \div 2
           e == d * ONE
<1>1. p \in Nat /\ ONE \in Nat \ {0}
  BY HalfOfOne
<1> HIDE DEF p
<1>2. q \in Nat /\ rest \in 0 .. d - 1 /\ p = d * q + rest
  BY <1>1, Division
<1>3. e \in Nat \ {0} /\ m \in Nat /\ m = p * ONE + ONE \div 2
  <2>1. e >= 1 * 1 /\ e \in Nat
    BY <1>1, ProductsGrow
  <2>2. p * ONE \in Nat /\ Precise(n) * ONE = p * ONE
    BY <1>1 DEF p, Precise
  <2> HIDE DEF e
  <2> QED BY <2>1, <2>2, HalfOfOne
<1> HIDE DEF q, rest
<1>4. p * ONE = q * e + rest * ONE
  BY <1>1, <1>2
<1>5. rest * ONE + ONE <= e /\ rest * ONE \in Nat /\ q * e \in Nat
  <2>1. (rest + 1) * ONE <= d * ONE
    BY <1>1, <1>2, ProductsGrow
  <2>2. (rest + 1) * ONE = rest * ONE + ONE /\ rest * ONE \in Nat
    BY <1>1, <1>2
  <2>3. q * e \in Nat
    BY <1>1, <1>2
  <2> QED BY <2>1, <2>2, <2>3
<1> HIDE DEF e, m
<1>6. q * e <= m /\ m < q * e + e
  BY <1>1, <1>3, <1>4, <1>5, HalfOfOne
<1>7. m \div e = q
  BY <1>2, <1>3, <1>6, QuotientIs
<1>8. PreciseDiv(Precise(n), Precise(d)) = {q}
  <2>1. Precise(d) = e /\ e # 0
    BY <1>3 DEF Precise, e
  <2> QED BY <1>7, <2>1 DEF PreciseDiv, Some, m
<1>9. q * d <= p /\ p < q * d + d
  BY <1>1, <1>2
<1> QED BY <1>2, <1>8, <1>9 DEF q, p
=============================================================================

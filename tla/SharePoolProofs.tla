--------------------------- MODULE SharePoolProofs ----------------------------
(***************************************************************************)
(* What SharePool promises by itself: shares are always backed.             *)
(***************************************************************************)
EXTENDS SharePool, TLAPS

\* While a pool has shares it holds something of both tokens.
SharesAreBacked == \A p \in Pools : shares[p] > 0 => reserve_a[p] > 0 /\ reserve_b[p] > 0

Naturals3 ==
    reserve_a \in [Pools -> Nat] /\ reserve_b \in [Pools -> Nat] /\ shares \in [Pools -> Nat]

BackedInv == Naturals3 /\ SharesAreBacked

\* a product of natural numbers is positive when both are
LEMMA PositiveProduct ==
    ASSUME NEW x \in Nat, NEW y \in Nat
    PROVE  /\ x * y \in Nat
           /\ x * y > 0 <=> x > 0 /\ y > 0
<1>1. x * y \in Nat
  OBVIOUS
<1>2. x = 0 \/ y = 0 => x * y = 0
  OBVIOUS
<1>3. ASSUME x > 0, y > 0 PROVE x * y > 0
  BY <1>3, SMT
<1> QED BY <1>1, <1>2, <1>3

\* shares that keep some worth are backed by both reserves
LEMMA WorthIsBacked ==
    ASSUME BackedInv, Naturals3', NEW p \in Pools, NEW s \in Nat \ {0}, NEW t \in Nat \ {0},
           shares[p] > 0, KeepsWorth(p, s, t)
    PROVE  reserve_a'[p] > 0 /\ reserve_b'[p] > 0
<1>1. /\ reserve_a[p] \in Nat /\ reserve_b[p] \in Nat
      /\ reserve_a'[p] \in Nat /\ reserve_b'[p] \in Nat
      /\ reserve_a[p] > 0 /\ reserve_b[p] > 0
  BY DEF BackedInv, Naturals3, SharesAreBacked
<1>2. Product(p) \in Nat /\ Product(p) > 0 /\ Product(p)' \in Nat
  BY <1>1, PositiveProduct DEF Product
<1>3. Product(p) * t \in Nat /\ Product(p) * t > 0
  BY <1>2, PositiveProduct
<1>4. Product(p) * t * t > 0 /\ Product(p) * t * t \in Nat
  BY <1>3, PositiveProduct
<1>5. Product(p)' * s \in Nat
  BY <1>2, PositiveProduct
<1>6. Product(p)' * s * s > 0
  BY <1>2, <1>4, <1>5, PositiveProduct DEF KeepsWorth
<1>7. Product(p)' > 0
  BY <1>2, <1>5, <1>6, PositiveProduct
<1> QED BY <1>1, <1>7, PositiveProduct DEF Product

\* the induction step of Backed
LEMMA NextBacked == BackedInv /\ [Next]_vars => BackedInv'
<1> SUFFICES ASSUME BackedInv, [Next]_vars PROVE BackedInv'
  OBVIOUS
<1>1. CASE UNCHANGED vars
  BY <1>1 DEF vars, BackedInv, Naturals3, SharesAreBacked
<1>2. CASE Next
  <2>1. Naturals3'
    BY <1>2 DEF Next, Naturals3
  <2> SUFFICES ASSUME NEW p \in Pools, shares'[p] > 0
               PROVE  reserve_a'[p] > 0 /\ reserve_b'[p] > 0
    BY <2>1 DEF BackedInv, SharesAreBacked
  <2>2. /\ reserve_a[p] \in Nat /\ reserve_b[p] \in Nat /\ shares[p] \in Nat
        /\ reserve_a'[p] \in Nat /\ reserve_b'[p] \in Nat /\ shares'[p] \in Nat
        /\ shares[p] > 0 => reserve_a[p] > 0 /\ reserve_b[p] > 0
    BY <2>1 DEF BackedInv, Naturals3, SharesAreBacked
  <2>3. \/ Open(p) \/ Join(p) \/ Leave(p) \/ Trade(p) \/ Gift(p)
        \/ Untouched(p)
    BY <1>2 DEF Next
  <2>4. CASE Open(p)
    BY <2>4 DEF Open
  <2>5. CASE Join(p) \/ Gift(p)
    BY <2>2, <2>5 DEF Join, Gift, ReservesGrow
  <2>6. CASE Leave(p)
    <3>1. shares[p] > 0 /\ KeepsWorth(p, shares[p], shares'[p])
      BY <2>2, <2>6 DEF Leave
    <3> QED BY <2>1, <2>2, <3>1, WorthIsBacked
  <2>7. CASE Trade(p)
    <3>1. shares[p] > 0
      BY <2>2, <2>7 DEF Trade
    <3>2. Product(p) \in Nat /\ Product(p) > 0 /\ Product(p)' \in Nat
      BY <2>2, <3>1, PositiveProduct DEF Product
    <3>3. Product(p)' > 0
      BY <2>7, <3>2 DEF Trade
    <3> QED BY <2>2, <3>3, PositiveProduct DEF Product
  <2>8. CASE Untouched(p)
    BY <2>2, <2>8 DEF Untouched
  <2> QED BY <2>3, <2>4, <2>5, <2>6, <2>7, <2>8
<1> QED BY <1>1, <1>2

\* Whatever the sequence of joins, departures, trades and gifts, shares are
\* backed by both reserves; so they are in every program that implements
\* SharePool.
THEOREM Backed == Spec => []SharesAreBacked
<1>1. Init => BackedInv
  BY DEF Init, BackedInv, Naturals3, SharesAreBacked
<1>2. BackedInv => SharesAreBacked
  BY DEF BackedInv
<1> QED BY <1>1, <1>2, NextBacked, PTL DEF Spec
=============================================================================

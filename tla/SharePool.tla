----------------------------- MODULE SharePool ------------------------------
(***************************************************************************)
(* What a pool promises whoever holds its shares, without instructions,     *)
(* accounts, curves or rounding: reserves of two tokens that the shares     *)
(* divide.  A share is worth sqrt(reserve_a * reserve_b) / shares; two      *)
(* worths are compared by their squares.                                    *)
(***************************************************************************)
EXTENDS Integers

CONSTANT Pools

VARIABLES reserve_a, reserve_b, \* what each pool holds
          shares                \* how many shares of each pool exist

vars == <<reserve_a, reserve_b, shares>>

Product(p) == reserve_a[p] * reserve_b[p]

\* each of s shares before the step is worth at most each of t shares after it
KeepsWorth(p, s, t) == Product(p)' * s * s >= Product(p) * t * t

ReservesGrow(p) == reserve_a'[p] >= reserve_a[p] /\ reserve_b'[p] >= reserve_b[p]
ReservesFall(p) == reserve_a'[p] <= reserve_a[p] /\ reserve_b'[p] <= reserve_b[p]

Init ==
    /\ reserve_a = [p \in Pools |-> 0]
    /\ reserve_b = [p \in Pools |-> 0]
    /\ shares = [p \in Pools |-> 0]

\* The first shares are issued when there is something of both tokens.
Open(p) ==
    /\ shares[p] = 0 /\ shares'[p] > 0
    /\ reserve_a'[p] > 0 /\ reserve_b'[p] > 0

\* A newcomer pays for new shares at least what the old ones are worth.
Join(p) ==
    /\ shares[p] > 0 /\ shares'[p] > shares[p]
    /\ ReservesGrow(p)
    /\ KeepsWorth(p, shares[p], shares'[p])

\* Whoever leaves takes at most what the shares given back are worth.
Leave(p) ==
    /\ shares'[p] < shares[p]
    /\ ReservesFall(p)
    /\ KeepsWorth(p, shares[p], shares'[p])

\* A trade keeps the product.  New shares are issued for the part of it that
\* goes to the pool's owner: they cost the other holders less than one share.
Trade(p) ==
    /\ ~ReservesGrow(p)
    /\ Product(p)' >= Product(p)
    /\ \/ shares'[p] = shares[p]
       \/ /\ shares[p] > 0 /\ shares'[p] > shares[p]
          /\ KeepsWorth(p, shares[p], shares'[p] - 1)

\* A gift is for all holders.
Gift(p) == shares'[p] = shares[p] /\ ReservesGrow(p)

Untouched(p) ==
    reserve_a'[p] = reserve_a[p] /\ reserve_b'[p] = reserve_b[p] /\ shares'[p] = shares[p]

\* One pool at a time: what happens in a pool is nothing to the others.
Next ==
    /\ reserve_a' \in [Pools -> Nat] /\ reserve_b' \in [Pools -> Nat] /\ shares' \in [Pools -> Nat]
    /\ \E p \in Pools :
         /\ Open(p) \/ Join(p) \/ Leave(p) \/ Trade(p) \/ Gift(p)
         /\ \A q \in Pools \ {p} : Untouched(q)

Spec == Init /\ [][Next]_vars
=============================================================================

----------------------------- MODULE CurveGrid ------------------------------
(***************************************************************************)
(* The curve's arithmetic against what it is meant to compute.  A state is  *)
(* one set of inputs; the behaviours walk the whole grid of inputs, and     *)
(* each invariant compares the code's operators with a definition that      *)
(* searches for the answer, or with what two calls in a row may give.       *)
(***************************************************************************)
EXTENDS SwapCurve, FiniteSetsExt

CONSTANTS MaxReserve,  \* reserves and pool supply run from 1 to this
          MaxSource,   \* amounts traded, deposited or withdrawn, from 1
          Schedules    \* fees tried

ASSUME GridAssumption ==
    /\ MaxReserve \in U64 \ {0} /\ MaxSource \in U64 \ {0}
    /\ Schedules \subseteq CurveFees

VARIABLES source,       \* the amount of the call
          reserve_in,   \* the reserve it is paid to, or taken from
          reserve_out,  \* the other reserve
          pool_supply

vars == <<source, reserve_in, reserve_out, pool_supply>>

Init == source = 1 /\ reserve_in = 1 /\ reserve_out = 1 /\ pool_supply = 1

Next ==
    \/ source < MaxSource /\ source' = source + 1
         /\ UNCHANGED <<reserve_in, reserve_out, pool_supply>>
    \/ reserve_in < MaxReserve /\ reserve_in' = reserve_in + 1
         /\ UNCHANGED <<source, reserve_out, pool_supply>>
    \/ reserve_out < MaxReserve /\ reserve_out' = reserve_out + 1
         /\ UNCHANGED <<source, reserve_in, pool_supply>>
    \/ pool_supply < MaxReserve /\ pool_supply' = pool_supply + 1
         /\ UNCHANGED <<source, reserve_in, reserve_out>>

Spec == Init /\ [][Next]_vars

-----------------------------------------------------------------------------
KeepsProduct(paid, taken) ==
    (reserve_in + paid) * (reserve_out - taken) >= reserve_in * reserve_out

Swapped(amount) == SwapWithoutFees(amount, reserve_in, reserve_out)

\* The curve's swap takes from the pool the most that keeps the product of the
\* reserves and leaves a token, and charges the least that still pays for it.
\* It refuses an offer only when that most is nothing, or when a smaller offer
\* takes it: nothing the pool could sell is out of a trader's reach.
SwapIsTheBestTrade ==
    LET taken == Max({ d \in 0 .. reserve_out - 1 : KeepsProduct(source, d) })
        paid  == Min({ s \in 0 .. source : KeepsProduct(s, taken) })
    IN  \/ Swapped(source) =
             { [source_amount_swapped |-> paid, destination_amount_swapped |-> taken] }
        \/ Swapped(source) = {} /\ taken = 0
        \/ /\ Swapped(source) = {}
           /\ \E less \in 1 .. source - 1 :
                \E trade \in Swapped(less) : trade.destination_amount_swapped = taken

\* "This is guaranteed to work for all values such that 1 <= swap_source_amount
\* * swap_destination_amount <= u128::MAX and 1 <= source_amount <= u64::MAX",
\* curve/constant_product.rs:22-25.  The guarantee is asked only of offers above
\* one that is accepted: those that buy less than a token are left aside.
SwapIsGuaranteedToWork ==
    /\ reserve_in * reserve_out \in 1 .. U128Max
    /\ source \in 1 .. U64Max
    /\ \E less \in 1 .. source - 1 : Swapped(less) # {}
    => Swapped(source) # {}

\* Trading an amount in two parts never yields more than trading it at once,
\* where the whole is accepted.  Where it is refused as too large for the product
\* (reserves 1 and 11, source 11) this says nothing, and a part may well trade.
SplittingATradeGainsNothing ==
    \A part \in 1 .. source - 1 :
      \A first \in SwapWithoutFees(part, reserve_in, reserve_out) :
        LET in  == reserve_in + first.source_amount_swapped
            out == reserve_out - first.destination_amount_swapped
        IN  \A second \in SwapWithoutFees(source - first.source_amount_swapped, in, out) :
              \A whole \in SwapWithoutFees(source, reserve_in, reserve_out) :
                first.destination_amount_swapped + second.destination_amount_swapped
                  <= whole.destination_amount_swapped

\* Trading forth and back returns at most what was paid.
TradingBackGainsNothing ==
    \A forth \in SwapWithoutFees(source, reserve_in, reserve_out) :
      \A back \in SwapWithoutFees(forth.destination_amount_swapped,
                                  reserve_out - forth.destination_amount_swapped,
                                  reserve_in + forth.source_amount_swapped) :
        back.destination_amount_swapped <= forth.source_amount_swapped

\* A trade never lowers the value of the pool as normalized_value computes it,
\* the root with the fixed point's rounding: value is not lost on any trade.
\* (It does not depend on pool_supply, so one value of it will do.)
TradesKeepTheNormalizedValue ==
    pool_supply = 1 =>
      \A result \in SwapWithoutFees(source, reserve_in, reserve_out) :
        NormalizedValue(reserve_in + result.source_amount_swapped,
                        reserve_out - result.destination_amount_swapped)
          >= NormalizedValue(reserve_in, reserve_out)

\* With fees a trader pays at most the amount named, and the pool keeps of it
\* the part that was traded and both fees.
FeesComeOutOfTheInput ==
    \A fees \in Schedules : \A result \in CurveSwap(source, reserve_in, reserve_out, fees) :
      /\ result.source_amount_swapped <= source
      /\ result.new_swap_source_amount - result.trade_fee - result.owner_fee >= reserve_in
      /\ (result.new_swap_source_amount - result.trade_fee - result.owner_fee)
           * result.new_swap_destination_amount >= reserve_in * reserve_out

\* Depositing for some pool tokens on both sides and burning them again returns
\* at most what was paid, on each side.  (Where a side would be free the handler
\* refuses the deposit: that is no part of the curve, and is checked of Amm.)
DepositThenWithdrawGainsNothing ==
    \A paid \in PoolTokensToTradingTokens(source, pool_supply, reserve_in, reserve_out,
                                          "Ceiling") :
      paid.token_a_amount > 0 /\ paid.token_b_amount > 0 =>
        \A back \in PoolTokensToTradingTokens(source, pool_supply + source,
                         reserve_in + paid.token_a_amount, reserve_out + paid.token_b_amount,
                         "Floor") :
          /\ back.token_a_amount <= paid.token_a_amount
          /\ back.token_b_amount <= paid.token_b_amount

\* Without fees, taking a single-sided deposit out again costs at least the
\* pool tokens it was given.
SingleSidedRoundTripGainsNothing ==
    \A minted \in DepositSingleTokenType(source, reserve_in, pool_supply, "Floor") :
      \A burnt \in WithdrawSingleTokenTypeExactOut(source, reserve_in + source,
                                                   pool_supply + minted, "Ceiling") :
        burnt >= minted
=============================================================================

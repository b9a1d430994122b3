-------------------------- MODULE ConstantProduct ---------------------------
(***************************************************************************)
(* curve/constant_product.rs, the only CurveCalculator the program has.     *)
(***************************************************************************)
EXTENDS FixedPoint

TradeDirection == {"AtoB", "BtoA"}
RoundDirection == {"Floor", "Ceiling"}

\* mutant: the destination reserve is rounded down
SwapWithoutFees_Floor(source_amount, swap_source_amount, swap_destination_amount) ==
    LET q == (swap_source_amount * swap_destination_amount)
               \div (swap_source_amount + source_amount)
    IN  { [ source_amount_swapped      |-> source_amount,
            destination_amount_swapped |-> swap_destination_amount - d ] :
            d \in { d \in {q} : d < swap_destination_amount } }

\* mutant: the whole source amount is taken
SwapWithoutFees_TakesAll(source_amount, swap_source_amount, swap_destination_amount) ==
    { [ source_amount_swapped      |-> source_amount,
        destination_amount_swapped |-> swap_destination_amount - new.quotient ] :
        new \in { n \in CheckedCeilDiv(swap_source_amount * swap_destination_amount,
                                       swap_source_amount + source_amount) :
                    n.quotient < swap_destination_amount } }

\* What a trade of source_amount buys: the destination reserve shrinks to
\* invariant / (source reserve + source_amount) rounded up, and only as much
\* source as that quotient needs is taken.
SwapWithoutFees(source_amount, swap_source_amount, swap_destination_amount) ==
    LET new_amounts ==
            UNION { CheckedCeilDiv(invariant, new_swap_source_amount) :
                      invariant \in Checked(swap_source_amount * swap_destination_amount),
                      new_swap_source_amount \in Checked(swap_source_amount + source_amount) }
    IN  { [ source_amount_swapped      |-> new.divisor - swap_source_amount,
            destination_amount_swapped |-> swap_destination_amount - new.quotient ] :
            new \in { n \in new_amounts : /\ swap_source_amount <= n.divisor
                                          /\ n.quotient < swap_destination_amount } }

\* mutant: the two rounding directions are exchanged
TradingTokens_Exchanged(pool_tokens, pool_token_supply, swap_amount, round) ==
    { IF round = "Floor" /\ q > 0 /\ (pool_tokens * swap_amount) % pool_token_supply > 0
      THEN q + 1 ELSE q :
        q \in CheckedDiv(pool_tokens * swap_amount, pool_token_supply) }

\* One side of pool_tokens_to_trading_tokens.  A ceiling never lifts a zero.
TradingTokens(pool_tokens, pool_token_supply, swap_amount, round) ==
    { IF round = "Ceiling" /\ q > 0 /\ (pool_tokens * swap_amount) % pool_token_supply > 0
      THEN q + 1 ELSE q :
        q \in UNION { CheckedDiv(product, pool_token_supply) :
                        product \in Checked(pool_tokens * swap_amount) } }

PoolTokensToTradingTokens(pool_tokens, pool_token_supply, amount_a, amount_b, round) ==
    { [token_a_amount |-> a, token_b_amount |-> b] :
        a \in TradingTokens(pool_tokens, pool_token_supply, amount_a, round),
        b \in TradingTokens(pool_tokens, pool_token_supply, amount_b, round) }

\* The reserve a single-sided operation touches.
SwapSourceAmount(amount_a, amount_b, trade_direction) ==
    IF trade_direction = "AtoB" THEN amount_a ELSE amount_b

\* mutant: the square root is forgotten
DepositSingleTokenType_NoRoot(source_amount, swap_source_amount, pool_supply, round) ==
    UNION { ToInteger(PreciseMul(Precise(pool_supply), ratio), round) :
              ratio \in PreciseDiv(Precise(source_amount), Precise(swap_source_amount)) }

\* supply * (sqrt(1 + source/reserve) - 1)
DepositSingleTokenType(source_amount, swap_source_amount, pool_supply, round) ==
    UNION { ToInteger(PreciseMul(Precise(pool_supply), root), round) :
              root \in UNION { PreciseSub(PreciseSqrt(Precise(1) + ratio), Precise(1)) :
                                 ratio \in PreciseDiv(Precise(source_amount),
                                                      Precise(swap_source_amount)) } }

\* supply * (1 - sqrt(1 - source/reserve))
WithdrawSingleTokenTypeExactOut(source_amount, swap_source_amount, pool_supply, round) ==
    LET bases == UNION { PreciseSub(Precise(1), ratio) :
                           ratio \in PreciseDiv(Precise(source_amount),
                                                Precise(swap_source_amount)) }
    IN  UNION { ToInteger(PreciseMul(Precise(pool_supply), root), round) :
                  root \in UNION { PreciseSub(Precise(1), PreciseSqrt(base)) : base \in bases } }

\* The value of a pool, which grows like its reserves: the root of the product.
NormalizedValue(amount_a, amount_b) ==
    PreciseSqrt(PreciseMul(Precise(amount_a), Precise(amount_b)))
=============================================================================

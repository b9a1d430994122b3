----------------------------- MODULE SwapCurve ------------------------------
(***************************************************************************)
(* curve/base.rs and the constants of curve/calculator.rs: the calculator   *)
(* wrapped in the pool's fees.                                              *)
(***************************************************************************)
EXTENDS ConstantProduct, Fees

CONSTANT INITIAL_SWAP_POOL_AMOUNT

ASSUME InitialAmountAssumption == INITIAL_SWAP_POOL_AMOUNT \in U64 \ {0}

NewPoolSupply == INITIAL_SWAP_POOL_AMOUNT

\* mutant: one side is enough
ValidateSupply_EitherSide(token_a_amount, token_b_amount) ==
    token_a_amount # 0 \/ token_b_amount # 0

\* the default of the trait CurveCalculator, which the constant product keeps
ValidateSupply(token_a_amount, token_b_amount) ==
    token_a_amount # 0 /\ token_b_amount # 0

\* mutant: the fees are charged on top of what is traded
CurveSwap_FeesOnTop(source_amount, swap_source_amount, swap_destination_amount, fees) ==
    { [ new_swap_source_amount      |-> swap_source_amount + r.source_amount_swapped + t + o,
        new_swap_destination_amount |-> swap_destination_amount - r.destination_amount_swapped,
        source_amount_swapped       |-> r.source_amount_swapped + t + o,
        destination_amount_swapped  |-> r.destination_amount_swapped,
        trade_fee |-> t, owner_fee |-> o ] :
        t \in TradingFee(fees, source_amount), o \in OwnerTradingFee(fees, source_amount),
        r \in SwapWithoutFees(source_amount, swap_source_amount, swap_destination_amount) }

\* SwapCurve::swap: fees come off the input, the rest is traded, and the fees
\* are added back to what the source side pays.
CurveSwap(source_amount, swap_source_amount, swap_destination_amount, fees) ==
    LET feesCharged ==
            { [trade_fee |-> t, owner_fee |-> o] :
                t \in TradingFee(fees, source_amount),
                o \in OwnerTradingFee(fees, source_amount) }
        affordable == { f \in feesCharged : f.trade_fee + f.owner_fee <= source_amount }
    IN  UNION { LET total_fees == f.trade_fee + f.owner_fee
                IN  { [ new_swap_source_amount |->
                            swap_source_amount + r.source_amount_swapped + total_fees,
                        new_swap_destination_amount |->
                            swap_destination_amount - r.destination_amount_swapped,
                        source_amount_swapped      |-> r.source_amount_swapped + total_fees,
                        destination_amount_swapped |-> r.destination_amount_swapped,
                        trade_fee                  |-> f.trade_fee,
                        owner_fee                  |-> f.owner_fee ] :
                        r \in SwapWithoutFees(source_amount - total_fees,
                                              swap_source_amount,
                                              swap_destination_amount) } :
                f \in affordable }

\* The trading fee on half of a single-sided amount comes off that amount.
LessHalfTradeFee(source_amount, fees) ==
    LET half_source_amount == IF source_amount < 2 THEN 1 ELSE source_amount \div 2
    IN  { source_amount - fee :
            fee \in { f \in TradingFee(fees, half_source_amount) : f <= source_amount } }

\* Pool tokens for a single-sided deposit, rounded down.
CurveDepositSingle(source_amount, amount_a, amount_b, pool_supply, trade_direction, fees) ==
    IF source_amount = 0 THEN Some(0)
    ELSE UNION { DepositSingleTokenType(
                     amount,
                     SwapSourceAmount(amount_a, amount_b, trade_direction), pool_supply, "Floor") :
                 amount \in LessHalfTradeFee(source_amount, fees) }

\* mutant: rounded down
CurveWithdrawSingle_Floor(source_amount, amount_a, amount_b, pool_supply, trade_direction, fees) ==
    IF source_amount = 0 THEN Some(0)
    ELSE UNION { WithdrawSingleTokenTypeExactOut(
                     amount,
                     SwapSourceAmount(amount_a, amount_b, trade_direction), pool_supply, "Floor") :
                 amount \in LessHalfTradeFee(source_amount, fees) }

\* Pool tokens for a single-sided withdrawal, rounded up.
CurveWithdrawSingle(source_amount, amount_a, amount_b, pool_supply, trade_direction, fees) ==
    IF source_amount = 0 THEN Some(0)
    ELSE UNION { WithdrawSingleTokenTypeExactOut(
                     amount,
                     SwapSourceAmount(amount_a, amount_b, trade_direction), pool_supply, "Ceiling") :
                 amount \in LessHalfTradeFee(source_amount, fees) }
=============================================================================

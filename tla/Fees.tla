-------------------------------- MODULE Fees --------------------------------
(***************************************************************************)
(* curve/fees.rs: the four fee fractions of a pool and what each charges.   *)
(* The eight u64 fields of CurveFees are four fractions here.               *)
(***************************************************************************)
EXTENDS Numeric

Fraction == [numerator : U64, denominator : U64]

CurveFees == [ trade_fee          : Fraction,
               owner_trade_fee    : Fraction,
               owner_withdraw_fee : Fraction,
               host_fee           : Fraction ]

\* The floor of the fraction of token_amount, but never 0 for a non-zero fee.
CalculateFee(token_amount, fee) ==
    IF fee.numerator = 0 \/ token_amount = 0
    THEN Some(0)
    ELSE { IF q = 0 THEN 1 ELSE q :
             q \in UNION { CheckedDiv(product, fee.denominator) :
                             product \in Checked(token_amount * fee.numerator) } }

TradingFee(fees, trading_tokens)      == CalculateFee(trading_tokens, fees.trade_fee)
OwnerTradingFee(fees, trading_tokens) == CalculateFee(trading_tokens, fees.owner_trade_fee)
OwnerWithdrawFee(fees, pool_tokens)   == CalculateFee(pool_tokens, fees.owner_withdraw_fee)
HostFee(fees, owner_fee)              == CalculateFee(owner_fee, fees.host_fee)

\* 0/0 means "no fee"; otherwise the fraction is below one.
ValidateFraction(fee) ==
    \/ fee.numerator = 0 /\ fee.denominator = 0
    \/ fee.numerator < fee.denominator

ValidateFees(fees) ==
    /\ ValidateFraction(fees.trade_fee)
    /\ ValidateFraction(fees.owner_trade_fee)
    /\ ValidateFraction(fees.owner_withdraw_fee)
    /\ ValidateFraction(fees.host_fee)

\* mutant: only the numerators are compared
ConstrainFees_Numerators(fees, least) ==
    /\ fees.trade_fee.numerator >= least.trade_fee.numerator
    /\ fees.owner_trade_fee.numerator >= least.owner_trade_fee.numerator
    /\ fees.owner_withdraw_fee.numerator >= least.owner_withdraw_fee.numerator
    /\ fees.host_fee.numerator = least.host_fee.numerator

AtLeastFraction(fee, least) ==
    /\ fee.numerator >= least.numerator
    /\ fee.denominator = least.denominator

\* SwapConstraints::validate_fees of instructions/utils.rs
ConstrainFees(fees, least) ==
    /\ AtLeastFraction(fees.trade_fee, least.trade_fee)
    /\ AtLeastFraction(fees.owner_trade_fee, least.owner_trade_fee)
    /\ AtLeastFraction(fees.owner_withdraw_fee, least.owner_withdraw_fee)
    /\ fees.host_fee = least.host_fee
=============================================================================

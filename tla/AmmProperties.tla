--------------------------- MODULE AmmProperties ----------------------------
(***************************************************************************)
(* What the pools promise their traders and their liquidity providers.      *)
(***************************************************************************)
EXTENDS Amm

Supply(p) == supply[PoolMint(p)]

Live(p) == amm[p].is_initialized

Product(p) == bal[Vault0(p)] * bal[Vault1(p)]

-----------------------------------------------------------------------------
(* Which repairs the program needs.                                         *)

\* No instruction succeeds in the code as it stands: each needs every repair
\* named here, whatever accounts and arguments it is given.
LockedUnlessRepaired ==
    [][/\ AnInitPool => "funded_vaults" \in repairs
       /\ ASwap => {"funded_vaults", "authority_seeds", "signer_seeds", "swap_roles"}
                     \subseteq repairs
       /\ ADepositAll \/ ADepositSingle \/ AWithdrawAll \/ AWithdrawSingle =>
            {"funded_vaults", "authority_seeds", "signer_seeds", "amm_seeds"} \subseteq repairs
      ]_vars

\* A client that keeps calling init_pool opens a pool.
FairInitSpec == Spec /\ WF_vars(AnInitPool)
PoolOpens == <>(\E p \in Pools : Live(p))

\* A client that keeps calling deposit_all on an open pool gets pool tokens.
FairDepositSpec == FairInitSpec /\ WF_vars(ADepositAll)
DepositAccepted == <>(\E p \in Pools : Supply(p) > NewPoolSupply)

-----------------------------------------------------------------------------
(* The worth of a pool token: sqrt(Product) / supply, compared by squares.  *)

\* A pool as its providers see it: their share of two reserves.
Pool == INSTANCE SharePool WITH
            reserve_a <- [p \in Pools |-> bal[Vault0(p)]],
            reserve_b <- [p \in Pools |-> bal[Vault1(p)]],
            shares    <- [p \in Pools |-> Supply(p)]

\* The six instructions and what is paid from outside implement SharePool:
\* whoever deposits pays, and whoever withdraws takes, what the pool tokens are
\* worth with every rounding in the pool's favour; a trade keeps the product of
\* the reserves and costs the providers less than one pool token for its fee; a
\* pool (re)opens with both tokens; no instruction on one pool moves another.
ImplementsSharePool == Pool!Spec

\* Whoever burns pool tokens takes at most what those are worth.
LeaversTakeNoMoreThanTheirShare ==
    [][\A p \in Pools :
         Live(p) /\ Supply(p)' < Supply(p) =>
           Product(p)' * Supply(p) * Supply(p) >= Product(p) * Supply(p)' * Supply(p)']_vars

\* The root in the single-sided formulas is precise to about one part in ONE.
\* To that grain, each of Supply(p) pool tokens before the step is worth at most
\* each of t after it.
KeepsWorthToTheGrain(p, t) ==
    ONE * Product(p) * t * t <=
      ((ONE + 3) * Product(p)' + 2 * Product(p)) * Supply(p) * Supply(p)

VaultFalls(p) == bal'[Vault0(p)] < bal[Vault0(p)] \/ bal'[Vault1(p)] < bal[Vault1(p)]

\* what is minted in a trade, for the owner's fee, is rounded up
RoundedUp(p) == IF VaultFalls(p) /\ Supply(p)' > Supply(p) THEN 1 ELSE 0

\* Whatever the supply, no step of a build that pays side B its own amount costs
\* the providers more than the grain of the fixed point and, in a trade that pays
\* the owner, less than one pool token.
WorthIsKeptToTheGrain ==
    [][ "side_b" \in repairs =>
          \A p \in Pools :
            Supply(p) > 0 => KeepsWorthToTheGrain(p, Supply(p)' - RoundedUp(p)) ]_vars

\* What a step pays out of a vault is the share of it that the burnt pool
\* tokens are, rounded down.
PaysShareOf(vault, p) ==
    LET paid == bal[vault] - bal'[vault]
        owed == bal[vault] * (Supply(p) - Supply(p)')
    IN  paid * Supply(p) <= owed /\ owed < (paid + 1) * Supply(p)

\* withdraw_all pays out of each vault exactly the share of the burnt tokens.
WithdrawAllPaysBothShares ==
    [][\A acc \in AccountLists.withdraw_all :
         \A n \in Amounts \cup {bal[acc.source_info]} :
           Supply(acc.amm)' < Supply(acc.amm) /\ WithdrawAll(acc, n, 0, 0) =>
             PaysShareOf(acc.vault_token_a, acc.amm) /\ PaysShareOf(acc.vault_token_b, acc.amm)]_vars

-----------------------------------------------------------------------------
(* Liquidity.                                                               *)

\* While pool tokens exist both reserves are non-empty, so a price exists.
LiquidityTwoSided ==
    \A p \in Pools : Supply(p) > 0 => bal[Vault0(p)] > 0 /\ bal[Vault1(p)] > 0

\* A pool that opens, or opens again after everybody left, has both tokens.
PoolsOpenTwoSided ==
    [][\A p \in Pools :
         Supply(p) = 0 /\ Supply(p)' > 0 =>
           bal'[Vault0(p)] > 0 /\ bal'[Vault1(p)] > 0]_vars

-----------------------------------------------------------------------------
(* Everybody can leave.                                                     *)

\* the provider asks for everything the account acc.source_info is worth
LeaveWhole(acc) == WithdrawAll(acc, bal[acc.source_info], 0, 0)

\* With a withdraw fee what is left after it may be worth nothing on one side,
\* and withdraw_all then refuses; the fee account itself pays none.
HoldsEverythingFree(acc) ==
    /\ Live(acc.amm)
    /\ Supply(acc.amm) > 0 /\ bal[acc.source_info] = Supply(acc.amm)
    /\ \/ acc.source_info = amm[acc.amm].pool_fee_account
       \/ OwnerWithdrawFee(amm[acc.amm].fees, Supply(acc.amm)) = Some(0)

\* Every provider who wants to leave keeps asking.
FairLeaveSpec == Spec /\ \A acc \in AccountLists.withdraw_all : WF_vars(LeaveWhole(acc))

\* Whoever holds all pool tokens of a pool, pays no withdraw fee and keeps
\* asking gets out, whatever is paid into the vaults meanwhile, unless the
\* tokens are spread again.
TheLastProviderGetsOut ==
    \A acc \in AccountLists.withdraw_all : HoldsEverythingFree(acc) ~> ~HoldsEverythingFree(acc)

\* The pool's owner gets the withdraw fee on every withdrawal through the
\* program, whatever fee account the provider names, except when the fee account
\* itself withdraws.  (Pool tokens that a holder burns directly with the token
\* program, for nothing in return, are outside the model.)
EveryWithdrawalPaysTheOwner ==
    [][\A p \in Pools :
         Live(p) /\ Supply(p)' < Supply(p) =>
           LET fee_account == amm[p].pool_fee_account
               gained == bal'[fee_account] - bal[fee_account]
           IN  \/ gained < 0
               \/ \A fee \in OwnerWithdrawFee(amm[p].fees, Supply(p) - Supply(p)') :
                    gained >= fee]_vars

-----------------------------------------------------------------------------
(* The limits a caller sets.                                                *)

Paid(t)     == bal[t] - bal'[t]
Received(t) == bal'[t] - bal[t]

\* (the first conjunct of each antecedent only saves work)
SwapKeepsLimits ==
    \A acc \in AccountLists.swap, amount_in \in Amounts, minimum \in Limits :
      Paid(acc.swap_source) # 0 /\ Swap(acc, amount_in, minimum) =>
        /\ Paid(acc.vault_source_info) <= amount_in
        /\ Received(acc.vault_destination_info) >= minimum

\* on a restart deposit_all mints the initial supply whatever was asked for
DepositsKeepLimits ==
    /\ \A acc \in AccountLists.deposit_all, n \in Amounts, max_a, max_b \in Limits :
         Supply(acc.amm)' > Supply(acc.amm) /\ DepositAll(acc, n, max_a, max_b) =>
           /\ Paid(acc.source_a_info) <= max_a /\ Paid(acc.source_b_info) <= max_b
           /\ Supply(acc.amm) > 0 => Received(acc.destination) = n
    /\ \A acc \in AccountLists.deposit_single, n \in Amounts, minimum \in Limits :
         Supply(acc.amm)' > Supply(acc.amm) /\ DepositSingle(acc, n, minimum) =>
           Paid(acc.source) = n /\ Received(acc.destination) >= minimum

\* (a side whose reserve is empty pays nothing, and then withdraw_all does not
\* look at that side's account, which may be the one that pays)
WithdrawalsKeepLimits ==
    /\ \A acc \in AccountLists.withdraw_all, n \in Amounts, min_a, min_b \in Limits :
         Supply(acc.amm)' < Supply(acc.amm) /\ WithdrawAll(acc, n, min_a, min_b) =>
           /\ Paid(acc.source_info) = n
           /\ min_a > 0 => Received(acc.dest_token_a_info) >= min_a
           /\ min_b > 0 => Received(acc.dest_token_b_info) >= min_b
    /\ \A acc \in AccountLists.withdraw_single, n \in Amounts, maximum \in Limits :
         Supply(acc.amm)' < Supply(acc.amm) /\ WithdrawSingle(acc, n, maximum) =>
           Paid(acc.source) <= maximum /\ Received(acc.destination) = n

\* What a caller's accounts pay and receive is within the limits the caller
\* gave, on both sides, and exactly the amount the caller named.
CallersGetTheirLimits ==
    [][SwapKeepsLimits /\ DepositsKeepLimits /\ WithdrawalsKeepLimits]_vars

-----------------------------------------------------------------------------
(* Production constraints.                                                  *)

\* In a production build every open pool charges at least the fees the
\* constraints name, whatever the amount, and the constraints' owner gets them.
PoolsMeetTheConstraints ==
    \A p \in Pools, c \in SWAP_CONSTRAINTS : Live(p) =>
      /\ amm[p].pool_fee_account.owner = c.owner_key
      /\ \A n \in U64, charge \in {"trade_fee", "owner_trade_fee", "owner_withdraw_fee"} :
           \A fee \in CalculateFee(n, amm[p].fees[charge]) :
             \A least \in CalculateFee(n, c.fees[charge]) : fee >= least
=============================================================================

# fbnx-amm: a verification development

`fbnx_amm` is a Solana program (Anchor, Rust): pools of two tokens on a constant
product curve, a port of SPL token-swap. This directory holds TLA+ modules that
model its six instructions and its arithmetic, TLC configurations that check
them on small instances, and proofs that TLAPS checks for every instance.
Paths below are relative to `src/programs/fbnx-amm/src/` unless they start with
`tests/`.

## 1. The system

| Part | State | Operations | Modelled in |
|---|---|---|---|
| Instruction dispatch, `lib.rs` | none | six entry points | `Next` of `Amm`, `Instructions` of `Transaction` |
| Pool account, `state.rs` | `Amm`: flag, two vaults, pool mint, two mints, fee account, fees, curve | written once by `init_pool` | variable `amm` |
| `init_pool` | creates pool account, mint, vaults, fee account | opens a pool, mints the initial supply | `InitPool`, `InitPoolSteps` |
| `swap` | vault balances, pool mint supply | trade with trade fee, owner fee, host fee | `Swap`, `SwapSteps` |
| `deposit_all`, `deposit_single` | same | pool tokens for both tokens or for one; restart at supply 0 | `DepositAll`, `DepositSingle`, `...Steps` |
| `withdraw_all`, `withdraw_single` | same | pool tokens back into tokens, withdraw fee | `WithdrawAll`, `WithdrawSingle`, `...Steps` |
| Shared checks, `instructions/utils.rs` | none | `check_accounts`, `authority_id` | `CheckAccounts`, `CheckAccountsSteps`, `AuthorityId` |
| `SWAP_CONSTRAINTS` (feature `production`), `instructions/utils.rs` | none | `validate_curve`, `validate_fees`, owner of the fee account | `ConstraintsHold`, `ConstrainFees` |
| Error codes, `error.rs` | none | which one ends an instruction | `SwapError`, `Require` of `Transaction` |
| Fees, `curve/fees.rs` | none | four fractions, validation | `Fees` |
| Curve, `curve/constant_product.rs`, `curve/base.rs`, `curve/calculator.rs` | none | swap, conversions, single-sided formulas, normalized value | `ConstantProduct`, `SwapCurve` |
| spl-math (external) | none | `checked_ceil_div`, `PreciseNumber` | `FixedPoint` |
| SPL Token, Anchor account creation (external) | balances, supplies, owners | transfer, mint_to, burn, derived addresses | `TokenLedger`: variables `bal`, `supply` of `Amm` |
| The runtime (external) | the instruction in progress | loads accounts, calls, keeps or rolls back | `Transaction`: variable `tx` |
| Packing of fees and curves | none | | not modelled: no instruction calls it |
| Client tests `tests/` | a session's accounts | | two runs check what its calls expect |

How the parts interact. A client sends an instruction with a list of accounts and
arguments. Anchor loads the accounts and checks the constraints of the account
struct, the handler runs its own checks, computes with the curve and the fees
from the balances that were loaded, and calls SPL Token two to four times.
Instructions on common accounts are serialized by the runtime, and a failing one
is rolled back whole. So `Amm` makes an instruction one atomic action: every
constraint, early return, panic and failed token call is a conjunct of its
guard. `Transaction` has the same instructions check by check and call by call,
and shows that nothing is lost by that view. What remains hard is:

* sequences: instructions of several clients in any order, with token transfers
  straight into a vault in between, down to an empty pool and up again;
* agreement between files: addresses, seeds and account roles that one
  instruction writes and another re-derives, and accounts of two pools confused;
* rounding: integer division, ceilings and a fixed-point square root whose
  errors must always fall on the side of the pool;
* the order of checks and calls inside an instruction: what is computed from the
  accounts as loaded must still be payable when the call is reached, and no order
  may refuse what the state allows. (That a failing call undoes the ones before it
  is the runtime's doing; the model of the execution includes it);
* limits: the slippage limits a caller sets, the u64 amounts, empty reserves.

What makes each part correct: addresses that agree (`init_pool` opens what the
others accept); a trade that never lowers the product of the reserves;
depositors who pay, and leavers who take, the worth of their pool tokens with
rounding in the pool's favour; fees that come out of what is traded and reach
the owner; limits that are honoured; reserves that are never empty while pool
tokens exist; providers who can always leave.

## 2. The program as it stands accepts nothing

Five places contradict each other, and every instruction trips over at least
one. A sixth pays a wrong amount:

| Repair | Contradiction | Edit |
|---|---|---|
| `funded_vaults` | `init_pool.rs:144-162` creates both vaults empty, `:57` rejects empty vaults | the vaults hold tokens when `init_pool` runs |
| `amm_seeds` | `deposit_all.rs:115` and its three siblings derive the pool address from `token_b_account`, `init_pool.rs:128` from `mint1` | use `token_b_mint` |
| `authority_seeds` | `utils.rs:59` leaves out the label `authority` that `init_pool.rs:22` and every struct use | add the label |
| `signer_seeds` | the handlers sign with `[amm, bump]` (`swap.rs:91`), not with the authority's seeds | add the label |
| `swap_roles` | `swap.rs:160-175` gives the four token accounts owners opposite to the roles of the body | exchange the constraints |
| `side_b` | `withdraw_all.rs:113` pays side B the amount of side A | pay `token_b_amount` |

A model that stopped there would say nothing about the rest, so the build is a
rigid variable: `repairs`, chosen in `Init` from the constant `Builds`. `{}` is
the code as written; the set of all six is the program its authors plainly
meant. Each definition that depends on a repair shows both versions. `locked`
covers all 64 builds; `init_as_written` and `deposit_as_written` speak of the
code as written, `minimum_b` of the build that lacks only the sixth repair; the
others use all six and none of the other behaviour is changed.

Another obstacle depends on the client: `swap.rs:176,183` does not declare the
pool mint and the host account mutable, so minting the owner fee works only for
a client that marks them writable itself (`writable` in the account list of
`Swap`).

## 3. Modules

| Module | Models |
|---|---|
| `Numeric` | u64, u128 and checked arithmetic, with scaled widths that keep (2^64)^2 = 2^128. An `Option` is a set of at most one element |
| `Fees` | `curve/fees.rs`, and the comparison of fees in `instructions/utils.rs` |
| `FixedPoint` | the spl-math operations, `ONE` the resolution (10^12 in the library) |
| `ConstantProduct` | `curve/constant_product.rs` |
| `SwapCurve` | `curve/base.rs` and the defaults of the `CurveCalculator` trait |
| `TokenLedger` | addresses as terms, token accounts, transfer, mint_to, burn |
| `Amm` | the program: variables `repairs`, `amm`, `bal`, `supply`, one action per instruction and `UserTransfer` |
| `SharePool` | abstract: reserves of two tokens that shares divide; a pool opens, is joined, left, traded with, given to |
| `AmmProperties` | what the pools promise, `ImplementsSharePool` among it |
| `MCAmm` | account lists, fee schedules and builds for TLC |
| `Transaction` | an instruction as the runtime executes it, `Amm` its abstract specification |
| `MCTransaction` | two pools, confused accounts, production constraints for TLC |
| `CurveGrid`, `MCCurve` | every input of the arithmetic on a grid, against reference definitions |
| `FixedPointProofs` | the root of the fixed point: that it exists, grows, and is reached in the rounds allowed |
| `ConstantProductProofs`, `CurveGridProofs` | the curve's formulas, and the invariants of the grid |
| `AmmProofs`, `SharePoolProofs`, `RefinementProofs` | the program, its abstract pool, and the one implementing the other |
| `CallerProofs` | what callers and owners get from an instruction, and what the pool tokens of everybody else are worth afterwards |
| `TransactionProofs` | the execution call by call against the atomic program |

Correspondence. An address is a term: a program-derived address is the pair of
its label and the key it is derived from, so two derivations agree exactly when
their seeds do. A pool is named by its pair of mints. A token account is a
record with its mint and owner. `bal` holds the `amount` of each token account
and `supply` that of each pool mint. The arguments of an instruction are its
accounts `acc`, a record with the field names of the account struct, and its
numbers; `CanTransfer`, `CanMintTo` and `CanBurn` are what SPL Token checks,
including who signed. Values between token calls are nested terms in the order
of the code (`paid`, `hosted`, `minted`, ...). `SWAP_CONSTRAINTS` is an option:
empty without the feature `production`, otherwise what an instance chooses,
since the crate does not define the constants that feature refers to.

The worth of a pool token is the square root of the product of the reserves over
the supply. Comparing squares needs no root: a step from (product P, supply S)
to (P', S') keeps the worth when P' * S * S >= P * S' * S'. `SharePool` is
written with that alone, without instructions, curves or rounding; its mapping
reads the reserves off the vaults' balances and the shares off the pool mint.

`Transaction` reads the handlers again, as lists: each check with its error,
each call of the token program, in the order of the code, all computed from the
accounts as `Begin` found them. `Execute` performs the next call on a view,
`Commit` keeps the view, `Abort` drops it at the first check or call that fails.
Each check is a step of its own, like each call. One
instruction is in progress at a time, because the runtime locks the accounts an
instruction writes and all instructions on a pool write its vaults. Transfers
outside the program are left to the other runs.

Operators named `X_Something` right before `X` are plausible mistakes in the
code of `X`. They belong to no behaviour; they measure whether a property
notices.

## 4. Runs

| Run | Question | Result |
|---|---|---|
| `locked` | all 64 builds, all six instructions, an owner's fee, a supply above `ONE`: which repairs does each instruction need? do all amounts stay u64? what do the providers lose? | `TypeOK`, `LockedUnlessRepaired` hold; where side B is paid its own amount no step costs the providers more than the grain of the fixed point |
| `trading` | swaps, deposits and donations in any order, with and without fees and host, fixed point finer than the supply | implements `SharePool`: no depositor underpays, a trade keeps the product and its fee costs the providers less than one pool token; limits hold; both reserves stay non-empty |
| `leave` | both withdrawals and deposits of both tokens down to nothing and back, no trade fee, wrong accounts among the arguments | implements `SharePool`: nobody takes more than the worth; `withdraw_all` pays the exact share of both sides; limits hold; the owner gets the fee on what the two instructions withdraw; the last provider gets out |
| `transaction` | two pools over the same mints in opposite order, production constraints, any one account taken from the other pool | the call-by-call program implements `Amm`; it fails only when the atomic action is impossible; a client with the recorded accounts is never refused for an account; vaults can always pay; open pools charge the minimum fees |
| `curve_grid` | the arithmetic on 14 amounts, 12 x 12 reserves, 12 supplies | the trade is the best one that keeps the product, and what is refused is worth nothing or sold for a smaller offer; no round trip gains; the normalized value never falls |
| `init_as_written` | code as written: does a persistent client open a pool? | violated: `EmptySupply` for ever |
| `deposit_as_written` | with funded vaults: does a persistent client deposit? | violated: the address check never passes |
| `minimum_b` | without the sixth repair: is `minimum_token_b_amount` honoured? | violated: side B is paid the amount of side A (`withdraw_all.rs:113`) |
| `leave_one_with_fee` | single-sided withdrawals with a trading fee | violated: the fee is taken off the amount charged, not added (`curve/base.rs:145`) |
| `leave_one_coarse` | single-sided withdrawals with a coarse fixed point, `ONE = 10` | violated at a supply of 8: the rounding of the root is multiplied by the supply (`curve/constant_product.rs:147`; line 116 on the deposit side) and exceeds what the ceiling adds |
| `restart_one_sided` | a pool everybody has left, and `deposit_single` | violated: it reopens with one empty reserve |
| `swap_guarantee` | does the curve's swap work for every offer that `curve/constant_product.rs:22-25` guarantees, at least above one that it accepts? | violated: reserves 1 and 2 accept 1 and refuse 2, because the product is below the new source reserve |

The passing runs keep clear of what the violated ones show, and of nothing else:
where somebody withdraws one side there is no trade fee (`leave_one_with_fee`),
where `ImplementsSharePool` is asked the fixed point is fine enough for the
instance (`leave_one_coarse`; `locked` has what holds in any case), and where
`LiquidityTwoSided` or `ImplementsSharePool` is asked and everybody may leave
nobody deposits on one side (`restart_one_sided`; in `transaction` the pool
`<<X, Y>>` has `deposit_single` and the pool `<<Y, X>>` can be left whole).

Every run takes the second number of `deposit_single` as the handler does
(`deposit_single.rs:74`), the least amount of pool tokens the caller wants. The
entry point, and with it the client's IDL, names it `maximum_pool_token_amount`
(`lib.rs:38`); the name is all there is to it, and no run is spent on it.

### Bounds

* `U64Max = 20`, initial supply 6 (10^9 in the code), but for `locked`: balances reach the u64
  limit within a few steps, so refused transfers and mints happen.
* `ONE` stands for the library's 10^12. The root is rounded to 1/`ONE` and then
  multiplied by the supply, so a single-sided formula is off by up to about
  supply / `ONE` pool tokens before it is rounded to a whole one; the owner's fee
  is computed by the same formula. The rounding covers that error unless the exact
  result lies that close to a whole number, on the wrong side. `leave_one_coarse`,
  with `ONE = 10`, finds such an input at a supply of 8: 1 token out of reserves
  4/4 burns 1 pool token, where 8 * (1 - sqrt(3/4)) = 1.07 are due. In the library's
  numbers there are such inputs right after `init_pool`: with a supply of 10^9,
  taking 1 out of a reserve of 10^6 burns 500 where 500.000125 are due, and
  depositing 1 mints 500 for 499.999875. Below `ONE` what is lost is a part of a
  pool token, above it whole ones.
* `trading`, `leave` and `transaction` use `ONE = 1000`, `U64Max = 20`, where no
  input they reach comes that close (a withdrawal of 4 out of a reserve of 19 at a
  supply of 9 would, and is not among them). So they show that the control and all
  other arithmetic implement `SharePool`, and of the roots only that they are
  rounded in the right direction. `locked` has `ONE = 10`, an initial supply of 15
  and `U64Max = 30`, a supply above `ONE` as u64 allows. What holds for every
  supply is `WorthIsKeptToTheGrain`: a step costs the providers at most a few parts
  in `ONE` of the pool, and that is proved for the program's own widths (section 5).
* One pool, one user in the runs of `MCAmm`. Every instruction looks at the caller
  only through the ownership of the accounts, which the account lists and the
  builds vary; two users would only split the wallets. Reserves are moved behind
  the user's back by `UserTransfer` (gifts of 1). The user is also the pool's
  creator, so withdrawals from the fee account are included. `transaction` has
  two pools, an opener who owns the fee accounts, and a client.
* What a client quoted from reserves it read earlier, as `tests/fbnx-amm.ts:265-274`
  does, is one of the amounts and limits that every run passes in every state
  without regard to the reserves: a stale quote is included.
* Opening reserves 3 to 5 (0 where `validate_supply` matters), amounts up to 6,
  limits 0, 2 and 20: from a limit that always refuses to one that never does.
  Fee fractions of a quarter to a half make every minimum and every sum of fees
  exceed small inputs. In `transaction` wallets hold less of `Y` than of `X`, so
  that instructions fail after their first call has succeeded.
* `MaxCommits = 5` in `transaction`: at most five instructions succeed, enough to
  open both pools, trade or deposit in one, and withdraw. Failing ones are not
  counted. 235,493 states.
* `NativeMint` is one of the pool's mints in `locked`: a native vault can hold
  lamports before it is created, and the other vault still stops `init_pool`.
* Runs set `CHECK_DEADLOCK FALSE` where users may have nothing left to do and
  balances at their limit refuse everything, which is not an error of the code;
  `transaction` stops after `MaxCommits`.

### Fairness

The program makes no progress of its own: no instruction waits for another. What
can be asked is whether a client who keeps sending an instruction gets through,
and each temporal property assumes just that, weak fairness of the instruction
of this client. The runtime accepts a valid transaction that is resent, so the
assumption is the client's own. `init_as_written` and `deposit_as_written` ask
it of the calls that the tests make once. `TheLastProviderGetsOut` (run `leave`) asks
it of a provider who holds every pool token of a pool and keeps asking for all of it,
`withdraw_all` with no limits, while others may still pay tokens into the vaults.
Weak fairness is enough because nothing disables the withdrawal: the share of
all pool tokens is all of each vault, and the receiving accounts cannot
overflow, since the supply of a mint is itself a u64. The first part is proved, given
the second (`TheLastProviderIsNeverRefused`, section 5). A provider who pays a
withdraw fee is exempted. What the fee leaves may be worth nothing of one side,
`withdraw_all.rs:75,83` then refuses, and only a gift or another size of
withdrawal helps.

## 5. Proofs

All by TLAPS. The only assumptions on the constants are named in the modules that
declare them, and TLC evaluates each in a run:

* `U64Assumption`, `OneAssumption`, `InitialAmountAssumption`: the widths, the
  resolution of the fixed point and the first supply are positive;
* `PoolsAssumption`, `UsersAssumption`: a pool is a pair of mints; a derived address
  never signs; `MintsAssumption`: an address is not both a mint and a token account;
* `DerivationAssumption`: the pool mint, derived from both mints, is neither of them
  (a cycle of hashes);
* `ClientAssumption`: the account lists have the fields of the structs;
  `GridAssumption`: reserves and amounts of the grid are u64 and not 0;
  `MaxCommitsAssumption`: a number of instructions is a natural number.

Some theorems have hypotheses that are not assumptions on constants but name the
builds, instructions and sizes they are about. Each of them is met by passing
runs; the run in brackets shows what goes wrong without it.

* `SideBRepaired`: the builds have the sixth repair (`minimum_b`);
  `WorthIsKeptToTheGrain` says so itself, of the builds that have it;
* `SingleLeaversPayNoTradeFee`: there is no trade fee, or nobody withdraws one side
  (`leave_one_with_fee`);
* `NoWiderThanTheProgram`: `ONE` is at most 10^12 and `U64Max` below 2^64, the sizes
  for which the hundred rounds of the root are shown to be enough. It is an upper
  bound, and the program itself meets it;
* `PoolsOpenTwoSided`, or `AccountLists.deposit_single = {}` (`restart_one_sided`);
* `BothTokensOnly`, of the exact `SharePool` only: no single-sided instructions and
  no owner's fee on trades (`leave_one_coarse` for the former; the latter goes
  through the same root);
* `FineEnough`, `FineGrid`, of `SingleSidedRoundTripNeverGains` only: supply times
  the growth of the reserve is at most half of `ONE` (`leave_one_coarse`).

* `TypeCorrect`: `Spec => []TypeOK`. `TypeOK` is inductive: each token call keeps
  `Balances` (`TransferType`, `MintToType`, `BurnType`), then one lemma per
  instruction.
* `Locked`: `Spec => LockedUnlessRepaired`, for all builds, accounts and
  arguments. That `withdraw_all` needs the signer's seeds is not visible in one
  step: with an empty side A it makes no transfer from there. The invariant
  `LockInv` says a pool is open only in a build with funded vaults, that its
  account is the one `init_pool` wrote, and that until the program can sign for
  its vaults both still hold tokens. It is inductive: only `init_pool` writes the
  account, and only the signed transfers lower a vault.
* `Refines`: `Spec => ImplementsSharePool` under `BothTokensOnly`, for any pools,
  users, amounts, limits, gifts, account lists and fees on trades and
  withdrawals. Each instruction maps to the step of `SharePool` it is named for
  (`DepositAllJoins`, `WithdrawAllLeaves`, `SwapTrades`, `InitPoolOpens`,
  `UserTransferGives`). The arithmetic is in `GrowthKeepsWorth`, `CeilingCovers`
  and `FloorWithin`: a ceiling on both sides pays for the new shares, a floor on
  both sides takes no more than the old ones. `LockInv` gives the accounts: the
  vaults passed are the two recorded ones, they are different, and they belong to
  no other pool. `BothTokensOnly` leaves out
  the single-sided instructions and the owner's fee on trades, for which the
  exact `SharePool` is false (section 4, bounds); `ProvidersKeepTheirWorth` holds them to
  the grain instead.
* `Backed`: `SharePool!Spec => []SharesAreBacked`. The abstract invariant needs the
  worth itself: a leaver takes at most the worth of what is given back, so a
  positive rest of the shares keeps a positive product.
* `StaysLiquidAsProvidersLeave`: `Spec => []LiquidityTwoSided` under
  `BothTokensOnly`, carried over from `Backed` along the refinement. This is the
  case with withdrawals, where the liquidity of the pool rests on the rounding.
* `StaysLiquid`: while the account lists of both withdrawals are empty,
  `Spec => []LiquidityTwoSided`, with all fees and single-sided deposits.
  `LiquidityTwoSided` alone is not inductive, since a deposit into a pool without
  pool tokens would raise the supply whatever the vaults hold; `LiquidInv` adds
  that pool tokens exist only for open pools and that open pools have both
  tokens. The case of `swap` rests on the next theorem.
* `SwapWithoutFeesKeepsProduct`: for all reserves and amounts, the curve's trade
  takes at least one token, leaves at least one, and does not lower the product.
  It rests on `CheckedCeilDivCovers`: quotient times divisor covers the dividend.
* The five invariants of `CurveGrid` without a root, for a grid of any size up to
  the whole of u64 (`CurveGridProofs`). A grid visits every input, so `GridInv`
  only keeps the inputs positive and in range; the content is in the lemmas.
  `CheckedCeilDivIsLeast` adds to the cover that it is the least: no smaller
  quotient covers the dividend with the divisor given, and no smaller divisor
  with that quotient. `TheSwapIsTheBestTrade` follows from both, with the
  products inside u128; where the offer exceeds what the product divides by, the
  smaller offer that grows the source reserve to the product itself takes all
  tokens but one (`ExactOffer`). `SplittingNeverGains`, where the whole trade is accepted (with
  reserves 1 and 11 an offer of 11 is refused and 2 of it would trade, run
  `swap_guarantee`): the destination reserve two trades
  leave covers the product with the whole amount, and the one trade leaves the
  least that does. `TradingBackNeverGains`: the second trade pays at most what the
  first gave, and so can take back at most what the first paid.
  `DepositThenWithdrawNeverGains` sets `CeilingCovers` against `FloorWithin`.
  `FeesNeverComeOutOfThePool`: the fees are natural numbers taken off before the
  trade, which charges no more than the rest.

* `SqrtIsTheRoot`: for every argument with `x + ONE <= 2^104`, which covers every
  ratio of u64 numbers in a fixed point of 10^12, the hundred Newton rounds end less
  than one unit from the root. `NewtonRoot` is a recursive function, and that it
  satisfies its own equation is not given: `RootsWithinExist` and
  `RootsWithinAgree` build a function for every number of rounds by the least
  counterexample (`LeastNatural`), which takes the place of the induction theorems,
  and `NewtonRootUnfolds` reads the equation off. Each guess after the first is
  above the root (`NextGuessIsAbove`) and each round halves its distance to the
  integer part (`RoundHalves`): 80 rounds divide it by 2^80, 96 by 2^96, and when it is
  small enough one more ends it (`RoundFinishes`). From there the guess stays, or
  alternates between the root and one more (`SettledStays`, `SettledRoot`).
* `TradesNeverLoseValue`: `TradesKeepTheNormalizedValue` on a grid of any size, for
  any `ONE` and any number of rounds. It needs no precision, only that the root of
  more is no less, from the same number of rounds (`RootGrows`, `SqrtGrows`).
* `SingleSidedRoundTripNeverGains`: where the grid point is `FineEnough`, one side in
  and out again gains nothing, and `FineGridRoundTripNeverGains`: every point of a
  grid that is fine enough as a whole, TLC's among them, is. `DepositSingleWithin`
  and `WithdrawSingleWithin` bound, on whole numbers, the pool tokens minted from
  above and those burnt from below by the square root of the ratio, with one or two
  units of the fixed point to spare; where the supply makes less than a token of
  those the round trip cannot gain one.
* `ProvidersKeepTheirWorth`: `Spec => WorthIsKeptToTheGrain`, for all account lists,
  reserves, supplies and fees, and the whole range of u64 (except the trade fees of
  `SingleLeaversPayNoTradeFee`). The grain is stated on
  squares: `ONE * P * t^2 <= ((ONE + 3) * P' + 2 * P) * S^2`, for products `P`, `P'`
  and supplies `S`, `t` before and after, so a step can cost a few parts in `ONE` of
  the pool. In the three steps with a root the error of `DepositSingleWithin` or
  `WithdrawSingleWithin` is carried through the square (`OneSidedGrain`,
  `GrainOfOneSide`; `OwnerFeeGrain` for the pool tokens minted in a trade, where
  less than one more may be lost because the code rounds that fee up to a token).
  All other steps are steps of `SharePool` exactly (`NextOnBothTokens`) and so
  within the grain (`PoolStepsKeepWorth`). A withdrawal with a trade fee is the one
  case left out, because the fee lowers the price by far more than the grain.
* `OnlyRestartsAreOneSided`: `Spec /\ PoolsOpenTwoSided => []LiquidityTwoSided`, with
  all six instructions and all fees. The grain is of no use here, since a loss of
  parts of the pool may be all of a small reserve. A single-sided withdrawal of the whole
  reserve burns all pool tokens, whatever the rounding (`TheWholeReserveBurnsAll`: the
  root of one is one); a trade leaves at least one token
  of what it takes from (`CurveSwapLeavesSome`) and needs some of what it adds to
  (`TradesNeedASource`), and the steps of `SharePool` keep its shares backed.
  `OtherInstructionsOpenTwoSided` discharges the hypothesis where nobody calls
  `deposit_single`: neither `init_pool` nor a `deposit_all` on what the vaults still
  hold opens a pool one-sided. With `restart_one_sided` the two say that the restart
  through `deposit_single` is the only way to lose a reserve.
* `ProductionPoolsMeetTheConstraints`: `Spec => []PoolsMeetTheConstraints`. The
  checks of `init_pool` compare fractions by their numerators over equal
  denominators; the property speaks of the fees charged on every amount, rounding
  and the minimum of one token included. The invariant `OpenedInv` says that every
  open account is the one an `init_pool` that passed its checks wrote.
* `CallersAreHeldToTheirLimits`: `Spec => CallersGetTheirLimits` for builds with the
  sixth repair, for all account lists, fees and limits. An instruction moves up to
  five balances, and the accounts a caller names can coincide: what reaches an
  account is the sum of the calls that name it (`TransferEffect`, `MintToEffect`,
  `BurnEffect`). `OpenPoolAccounts` separates them, since an open pool's vaults hold
  the pool's two mints, its fee account the pool mint, and those are three different
  tokens (`DerivationAssumption`). `swap` needs `LockInv` too, to know its vaults.
* `WithdrawAllPaysItsShares`: `Spec => WithdrawAllPaysBothShares` for the same
  builds. `WithdrawAllEffect` names what a withdrawal moves (a fee, two payments) and
  what each is bounded by; the theorem compares it with the share of the tokens that
  were burnt.
* `EveryWithdrawalPays`: `Spec => EveryWithdrawalPaysTheOwner` in all builds. Supply
  falls, in the model, only in the two withdrawals (a holder who burns pool tokens
  directly with the token program gets nothing for them and pays no fee, section 6), which pay the fee on what they burn before they
  burn it, into the recorded account, whichever one is passed.
* `TransactionsAreTyped`: `TxSpec => []TxTypeOK`, also in the middle of an instruction.
* `TransactionsImplementAmm`: `TxSpec => ImplementsAmm`: executed check by check and
  call by call, from accounts loaded once, an instruction that ends does what its
  atomic action does. `Executes(steps, v, w)` says the steps can be executed in
  order from the accounts `v` and lead to `w`. That is not known of the instruction
  in progress before it has ended, so the invariant `RunInv` says it backwards
  (`OnItsWay`): wherever the rest of the steps would lead from the view, all of them
  lead from the accounts as they were loaded. Each `Execute` moves one step from the
  one side to the other; at `Commit` nothing is left, so the view is where all the
  steps lead, and one lemma per handler (`DepositAllExecuted`, ...) reads its list
  from first to last and finds the action's guards in the checks and its primed
  variables in the calls. `ExecutesConcat` and `ExecutesChecks` cut the lists; that
  checks leave the accounts alone over any number of them is an induction, done
  with the least element of a set of numbers (`LeastNatural`).
* From that refinement every theorem on `Spec` holds of `TxSpec`:
  `TransactionsMeetTheConstraints`, `TransactionsKeepWhatAmmPromises`,
  `TransactionsKeepTheirLimits`, `TransactionsImplementSharePool`,
  `TransactionsKeepTheWorth`, `TransactionsKeepBothReserves`.
* `VaultsAlwaysPay`: `TxSpec => []VaultsCanPay` for builds with the sixth repair.
  A handler decides what to pay from balances it read before its first call, and
  makes up to five calls before it pays. `Solvent(ins, steps, v)` says that
  whichever of the steps is reached from `v`, the pool has what that step takes
  out of its vaults; the invariant `PayInv` keeps it of the steps that are left
  (`SolventRest`). At the start it needs each handler's list: what is paid is at
  most what the vault held when it was read (`AtMost`, `CurveSwapLeavesSome`,
  `RootsExistWithinTheReserve`), and no earlier call takes anything out of that
  account (`Spares`, `SparedAccountsKeep`), because the calls before it draw on
  accounts of the caller, of the pool mint or of the other side (`OpenedInv`). Two
  payments of `withdraw_single` are exempt, because they are really tried: with a
  trading fee more than the reserve passes the curve, and with a reserve above
  `ONE` a ratio slightly above one is rounded to one; the token program refuses
  both. Without the sixth repair side B is asked for side A's amount.

* `FailuresAreRefusals` and `RefusalsAreJustified`: an instruction that fails is one
  whose atomic action is impossible. `Refused(ins)` says that the instruction's list
  cannot be executed to its end from the accounts as they were loaded. The invariant
  `FailInv` keeps, of an instruction in progress, that what is left of the list can
  still do whatever the whole list could (`Follows`); so a step that cannot be
  executed refuses the instruction, not only its rest. The second theorem is the
  other half: every action that has a next state is executed to its end
  (`AtomicIsExecuted`). There is one lemma per handler (`SwapPossible`, ...): it
  builds the accounts after each step from the action's guards and shows that the
  step's own test passes there. A transfer is tested against what the earlier calls
  have left of a balance, and the action asks for the same sum in its own way. The
  next state in `Atomic` is any assignment to the primed variables, so this is the
  converse of `TransactionsImplementAmm` without `ENABLED`.
* `TheLastProviderIsNeverRefused`: the safety half of `TheLastProviderGetsOut`.
  `LastProvider` is the holder of all pool tokens who pays no fee on them
  (`HoldsEverythingFree`), names the recorded accounts and has room for both
  reserves; a `withdraw_all` of everything, with limits up to the whole reserves,
  does not fail. The share of all pool tokens is all of a reserve
  (`AllOfAReserve`: the product of supply and reserve fits u128 and divides
  exactly), each payment finds its vault as it was loaded because the calls before
  it touch other accounts, and so every test passes (`LastProviderWithdraws`). It
  needs the repairs `signer_seeds` and `side_b`. The room is a hypothesis, because
  that the accounts of a mint never add up to more than a u64 is a sum over a set.

Only model-checked:

* `FailsOnlyIfImpossible` as it stands, because it is written with `ENABLED`, which
  is out of the prover's reach. What it says is proved by the last two theorems.
* `TheLastProviderGetsOut` and the temporal properties of `init_as_written` and
  `deposit_as_written` assume fairness, which is too; of the first the safety half is
  proved.
* `ImplementsSharePool` for the single-sided instructions and the owner's fee, on the
  instances checked. It is false in general, for supplies above `ONE` and below it,
  wherever an exact result lies as close to a whole number as the root's error times
  the supply; which inputs those are is a question about each input and not about
  the program. The grain is what can be said of all of them.
* `OwnAccountsAreAccepted` is about the account lists of `MCTransaction` themselves.

## 6. Not modelled

* `Pack` encodings of fees and curves: the accounts are serialized by Anchor, and
  no instruction reaches them.
* Delegates, frozen and closed accounts: `init_pool` refuses vaults with a
  delegate or a close authority, but has just created them. The pool's fee account
  can be closed by its owner, after which swaps with an owner fee fail.
* Pool tokens that a holder burns with the token program alone: that lowers the
  supply without an instruction of the program, without paying the withdraw fee and
  without taking anything from the vaults. `EveryWithdrawalPaysTheOwner` is about
  the two withdraw instructions.
* Rent and account creation costs, transaction fees, the deployment script.
* The curve parameter of `CurveInput`, which the code ignores.
* The client tests as a program: `tests/fbnx-amm.ts` does not parse (line 250) and
  passes account names that no instruction has (309-313); what its calls expect
  is in the runs `init_as_written` and `deposit_as_written`.

## 7. Plan

Done: the atomic model and its type and locking theorems; the abstract share
pool, checked and proved; the call-by-call execution, checked and proved to
implement the atomic model; several pools; liveness; the curve, its fixed-point
root included, proved; the limits, shares and fees of callers and owners, proved;
what every instruction leaves to the remaining providers, to the grain of the fixed
point, proved; that pools have what they pay and that refusals are justified, proved.

Left: the inputs for which the rounding of a single-sided formula covers its error,
characterised; a larger instance of `leave` with two providers.

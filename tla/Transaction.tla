---------------------------- MODULE Transaction -----------------------------
(***************************************************************************)
(* An instruction as the runtime executes it: the accounts are loaded once, *)
(* the checks come in the order of the code, each with its error, and the   *)
(* calls of the token program change the accounts one after another.  The   *)
(* handler never loads an account again, so whatever it computes after a    *)
(* call rests on what it read before.  The first check or call that fails   *)
(* ends the instruction with its error and undoes what the calls did.       *)
(*                                                                          *)
(* Amm has the same instructions as atomic actions.                         *)
(***************************************************************************)
EXTENDS AmmProperties, Sequences

CONSTANT MaxCommits  \* how many instructions may succeed

ASSUME MaxCommitsAssumption == MaxCommits \in Nat

VARIABLES tx,       \* the instruction in progress
          commits   \* how many have succeeded

txVars == <<repairs, amm, bal, supply, tx, commits>>

\* error.rs
SwapError == {
    "AlreadyInUse", "InvalidProgramAddress", "InvalidOwner", "InvalidOutputOwner", "ExpectedMint",
    "ExpectedAccount", "EmptySupply", "InvalidSupply", "InvalidDelegate", "InvalidInput",
    "IncorrectSwapAccount", "IncorrectPoolMint", "InvalidOutput", "CalculationFailure",
    "InvalidInstruction", "RepeatedMint", "ExceededSlippage", "InvalidCloseAuthority",
    "InvalidFreezeAuthority", "IncorrectFeeAccount", "ZeroTradingTokens",
    "FeeCalculationFailure", "ConversionFailure", "InvalidFee", "IncorrectTokenProgramId",
    "UnsupportedCurveType", "InvalidCurve", "UnsupportedCurveOperation" }

\* what ends an instruction: an error of the program, a constraint that Anchor
\* checks, an error of the token program, a panic
Errors == SwapError \cup {"Constraint", "TokenError", "Panic"}

-----------------------------------------------------------------------------
(* Steps.                                                                   *)

Require(ok, error) == [kind |-> "require", ok |-> ok, error |-> error]

Pay(from, to, amount, authority, signers) ==
    [ kind |-> "transfer", from |-> from, to |-> to, amount |-> amount,
      authority |-> authority, signers |-> signers, error |-> "TokenError" ]

Issue(mint, to, amount, authority, signers) ==
    [ kind |-> "mint_to", mint |-> mint, to |-> to, amount |-> amount,
      authority |-> authority, signers |-> signers, error |-> "TokenError" ]

Redeem(mint, from, amount, owner) ==
    [ kind |-> "burn", mint |-> mint, from |-> from, amount |-> amount,
      authority |-> owner, signers |-> {owner}, error |-> "TokenError" ]

\* init_pool: Anchor creates the accounts, and the handler's last assignments
Create(p, amount0, amount1) ==
    [kind |-> "create", amm |-> p, amount0 |-> amount0, amount1 |-> amount1, error |-> "Constraint"]
Record(p, data) == [kind |-> "record", amm |-> p, data |-> data, error |-> "Panic"]

When(condition, steps) == IF condition THEN steps ELSE <<>>

\* the value of an option, once a step has required that there is one
Given(option, default) == IF option = {} THEN default ELSE CHOOSE x \in option : TRUE

CanExecute(step, view) ==
    CASE step.kind = "require"  -> step.ok
      [] step.kind = "transfer" ->
           CanTransfer(view.bal, step.from, step.to, step.amount, step.authority, step.signers)
      [] step.kind = "mint_to"  ->
           CanMintTo(view.bal, view.supply[step.mint], step.to, step.amount, step.mint,
                     step.authority, step.signers)
      [] step.kind = "burn"     ->
           CanBurn(view.bal, view.supply[step.mint], step.from, step.amount, step.mint,
                   step.authority, step.signers)
      [] step.kind = "create"   -> ~view.amm[step.amm].is_initialized
      [] step.kind = "record"   -> TRUE

Effect(step, view) ==
    CASE step.kind = "require"  -> view
      [] step.kind = "transfer" ->
           [view EXCEPT !.bal = Transfer(@, step.from, step.to, step.amount)]
      [] step.kind = "mint_to"  ->
           [view EXCEPT !.bal = MintTo(@, step.to, step.amount),
                        !.supply[step.mint] = @ + step.amount]
      [] step.kind = "burn"     ->
           [view EXCEPT !.bal = Burn(@, step.from, step.amount),
                        !.supply[step.mint] = @ - step.amount]
      [] step.kind = "create"   ->
           [view EXCEPT !.bal[Vault0(step.amm)] = step.amount0,
                        !.bal[Vault1(step.amm)] = step.amount1]
      [] step.kind = "record"   -> [view EXCEPT !.amm[step.amm] = step.data]

-----------------------------------------------------------------------------
(* The handlers.                                                            *)

\* mutant: vault B is not compared with the recorded one
CheckAccountsSteps_NoVaultB(p, token_a, token_b, pool_mint, user_token_a, user_token_b, fee_accounts) ==
    << Require(Authority(p) = AuthorityId(p), "InvalidProgramAddress"),
       Require(token_a = amm[p].token_a_account, "IncorrectSwapAccount"),
       Require(pool_mint = amm[p].pool_mint, "IncorrectPoolMint"),
       Require(token_a \notin user_token_a, "InvalidInput"),
       Require(token_b \notin user_token_b, "InvalidInput"),
       Require(fee_accounts \subseteq {amm[p].pool_fee_account}, "IncorrectFeeAccount") >>

\* check_accounts, in its order
CheckAccountsSteps(p, token_a, token_b, pool_mint, user_token_a, user_token_b, fee_accounts) ==
    << Require(Authority(p) = AuthorityId(p), "InvalidProgramAddress"),
       Require(token_a = amm[p].token_a_account, "IncorrectSwapAccount"),
       Require(token_b = amm[p].token_b_account, "IncorrectSwapAccount"),
       Require(pool_mint = amm[p].pool_mint, "IncorrectPoolMint"),
       Require(token_a \notin user_token_a, "InvalidInput"),
       Require(token_b \notin user_token_b, "InvalidInput"),
       Require(fee_accounts \subseteq {amm[p].pool_fee_account}, "IncorrectFeeAccount") >>

InitPoolSteps(acc, arg) ==
    LET p == acc.amm
    IN  << Create(p, arg.amount0, arg.amount1) >>
        \o << Require(p[1] # p[2], "RepeatedMint"),
              Require(arg.curve_type \in CurveTypes, "Panic"),
              Require(ValidateSupply(arg.amount0, arg.amount1), "EmptySupply"),
              Require(supply[PoolMint(p)] = 0, "InvalidSupply"),
              Require(\A c \in SWAP_CONSTRAINTS : acc.owner = c.owner_key, "InvalidOwner"),
              Require(\A c \in SWAP_CONSTRAINTS : arg.curve_type \in c.valid_curve_types,
                      "UnsupportedCurveType"),
              Require(\A c \in SWAP_CONSTRAINTS : ConstrainFees(arg.fees, c.fees), "InvalidFee"),
              Require(ValidateFees(arg.fees), "InvalidFee") >>
        \o << Issue(PoolMint(p), Wallet(acc.owner, PoolMint(p)), NewPoolSupply, Authority(p),
                    {Authority(p)}),
              Record(p, NewAmm(p, acc.owner, arg.fees)) >>

SwapSteps(acc, arg) ==
    LET p       == acc.amm
        a       == amm[p]
        signers == {acc.owner, SeedSigner(p)}
        trade   == CurveSwap(arg.amount_in, bal[acc.swap_source], bal[acc.swap_destination], a.fees)
        fee_tokens == UNION { OwnerFeePoolTokens(acc, r) : r \in trade }
        result  == Given(trade, [source_amount_swapped |-> 0, destination_amount_swapped |-> 0])
        pool_token_amount == Given(fee_tokens, 0)
        named   == acc.host_fee_account # NoHost /\ pool_token_amount > 0
        host_fee == IF named THEN Given(HostFee(a.fees, pool_token_amount), 0) ELSE 0
    IN  << Require(SwapOwnersHold(acc), "Constraint"),
           Require(Authority(p) = AuthorityId(p), "InvalidProgramAddress"),
           Require(acc.swap_source \in {a.token_a_account, a.token_b_account},
                   "IncorrectSwapAccount"),
           Require(acc.swap_destination \in {a.token_a_account, a.token_b_account},
                   "IncorrectSwapAccount"),
           Require(acc.swap_source # acc.swap_destination, "InvalidInput"),
           Require(acc.swap_source # acc.vault_source_info, "InvalidInput"),
           Require(acc.swap_destination # acc.vault_destination_info, "InvalidInput"),
           Require(acc.pool_mint = a.pool_mint, "IncorrectPoolMint"),
           Require(acc.fee_account = a.pool_fee_account, "IncorrectFeeAccount"),
           Require(trade # {}, "ZeroTradingTokens"),
           Require(arg.minimum <= result.destination_amount_swapped, "ExceededSlippage") >>
        \o << Pay(acc.vault_source_info, acc.swap_source, result.source_amount_swapped, acc.owner,
                  signers),
              Require(fee_tokens # {}, "FeeCalculationFailure") >>
        \o When(named,
             << Require(acc.host_fee_account.mint = acc.pool_mint, "IncorrectPoolMint"),
                Require(HostFee(a.fees, pool_token_amount) # {}, "FeeCalculationFailure"),
                Require(host_fee <= pool_token_amount, "FeeCalculationFailure") >>)
        \o When(host_fee > 0,
             << Require(host_fee \in U64, "Panic"),
                Require(acc.writable, "TokenError"),
                Issue(acc.pool_mint, acc.host_fee_account, host_fee, Authority(p), signers) >>)
        \o When(pool_token_amount > 0,
             << Require(pool_token_amount - host_fee \in U64, "Panic"),
                Require(acc.writable, "TokenError"),
                Issue(acc.pool_mint, acc.fee_account, pool_token_amount - host_fee, Authority(p),
                      signers) >>)
        \o << Pay(acc.swap_destination, acc.vault_destination_info,
                  result.destination_amount_swapped, Authority(p), signers) >>

DepositAllSteps(acc, arg) ==
    LET p       == acc.amm
        signers == {acc.owner, SeedSigner(p)}
        current_pool_mint_supply == supply[acc.pool_mint]
        pool_token_amount == IF current_pool_mint_supply > 0 THEN arg.pool_token_amount
                                                             ELSE NewPoolSupply
        pool_mint_supply  == IF current_pool_mint_supply > 0 THEN current_pool_mint_supply
                                                             ELSE NewPoolSupply
        results == PoolTokensToTradingTokens(pool_token_amount, pool_mint_supply,
                       bal[acc.vault_token_a], bal[acc.vault_token_b], "Ceiling")
        pay     == Given(results, [token_a_amount |-> 0, token_b_amount |-> 0])
    IN  << Require(DepositAllConstraints(acc), "Constraint") >>
        \o CheckAccountsSteps(p, acc.vault_token_a, acc.vault_token_b, acc.pool_mint,
                              {acc.source_a_info}, {acc.source_b_info}, {})
        \o << Require(results # {}, "ZeroTradingTokens"),
              Require(pay.token_a_amount \in U64, "Panic"),
              Require(pay.token_a_amount <= arg.maximum_a, "ExceededSlippage"),
              Require(pay.token_a_amount # 0, "ZeroTradingTokens"),
              Require(pay.token_b_amount \in U64, "Panic"),
              Require(pay.token_b_amount <= arg.maximum_b, "ExceededSlippage"),
              Require(pay.token_b_amount # 0, "ZeroTradingTokens") >>
        \o << Pay(acc.source_a_info, acc.vault_token_a, pay.token_a_amount, acc.owner, signers),
              Pay(acc.source_b_info, acc.vault_token_b, pay.token_b_amount, acc.owner, signers),
              Issue(acc.pool_mint, acc.destination, pool_token_amount, Authority(p), signers) >>

DepositSingleSteps(acc, arg) ==
    LET p      == acc.amm
        side   == SideOf(acc.source, acc.swap_token_a, acc.swap_token_b)
        on_a   == side = Some("AtoB")
        tokens == IF supply[acc.pool_mint] = 0 THEN Some(NewPoolSupply)
                  ELSE UNION { CurveDepositSingle(arg.source_token_amount, bal[acc.swap_token_a],
                                   bal[acc.swap_token_b], supply[acc.pool_mint], d, amm[p].fees) :
                               d \in side }
        pool_token_amount == Given(tokens, 0)
    IN  << Require(DepositSingleConstraints(acc), "Constraint"),
           Require(side # {}, "IncorrectSwapAccount") >>
        \o CheckAccountsSteps(p, acc.swap_token_a, acc.swap_token_b, acc.pool_mint,
                              IF on_a THEN {acc.source} ELSE {},
                              IF on_a THEN {} ELSE {acc.source}, {})
        \o << Require(tokens # {}, "ZeroTradingTokens"),
              Require(pool_token_amount \in U64, "Panic"),
              Require(arg.minimum <= pool_token_amount, "ExceededSlippage"),
              Require(pool_token_amount # 0, "ZeroTradingTokens") >>
        \o << Pay(acc.source, IF on_a THEN acc.swap_token_a ELSE acc.swap_token_b,
                  arg.source_token_amount, acc.owner, {acc.owner}),
              Issue(acc.pool_mint, acc.destination, pool_token_amount, Authority(p),
                    {acc.owner, SeedSigner(p)}) >>

WithdrawAllSteps(acc, arg) ==
    LET p       == acc.amm
        signers == {acc.owner, SeedSigner(p)}
        in_a    == bal[acc.vault_token_a]
        in_b    == bal[acc.vault_token_b]
        fee     == WithdrawFee(acc, acc.source_info, arg.pool_token_amount)
        rest    == { arg.pool_token_amount - f : f \in { f \in fee : f <= arg.pool_token_amount } }
        results == UNION { PoolTokensToTradingTokens(n, supply[acc.pool_mint], in_a, in_b, "Floor") :
                           n \in rest }
        get     == Given(results, [token_a_amount |-> 0, token_b_amount |-> 0])
        token_a_amount == AtMost(in_a, get.token_a_amount)
        token_b_amount == AtMost(in_b, get.token_b_amount)
    IN  << Require(WithdrawAllConstraints(acc), "Constraint") >>
        \o CheckAccountsSteps(p, acc.vault_token_a, acc.vault_token_b, acc.pool_mint,
                              {acc.dest_token_a_info}, {acc.dest_token_b_info}, {acc.fee_account})
        \o << Require(fee # {}, "FeeCalculationFailure"),
              Require(rest # {}, "CalculationFailure"),
              Require(results # {}, "ZeroTradingTokens"),
              Require(get.token_a_amount \in U64, "Panic"),
              Require(arg.minimum_a <= token_a_amount, "ExceededSlippage"),
              Require(token_a_amount = 0 => in_a = 0, "ZeroTradingTokens"),
              Require(get.token_b_amount \in U64, "Panic"),
              Require(arg.minimum_b <= token_b_amount, "ExceededSlippage"),
              Require(token_b_amount = 0 => in_b = 0, "ZeroTradingTokens") >>
        \o When(Given(fee, 0) > 0,
             << Pay(acc.source_info, acc.fee_account, Given(fee, 0), acc.owner, {acc.owner}) >>)
        \o << Redeem(acc.pool_mint, acc.source_info, Given(rest, 0), acc.owner) >>
        \o When(token_a_amount > 0,
             << Pay(acc.vault_token_a, acc.dest_token_a_info, token_a_amount, Authority(p),
                    signers) >>)
        \o When(token_b_amount > 0,
             << Pay(acc.vault_token_b, acc.dest_token_b_info,
                    SideBPayment(token_a_amount, token_b_amount), Authority(p), signers) >>)

WithdrawSingleSteps(acc, arg) ==
    LET p     == acc.amm
        side  == SideOf(acc.destination, acc.swap_token_a, acc.swap_token_b)
        on_a  == side = Some("AtoB")
        burnt == UNION { CurveWithdrawSingle(arg.destination_token_amount, bal[acc.swap_token_a],
                             bal[acc.swap_token_b], supply[acc.pool_mint], d, amm[p].fees) :
                         d \in side }
        fee   == UNION { WithdrawFee(acc, acc.source, n) : n \in burnt }
        pool_token_amount == Given(burnt, 0) + Given(fee, 0)
    IN  << Require(WithdrawSingleConstraints(acc), "Constraint"),
           Require(side # {}, "IncorrectSwapAccount") >>
        \o CheckAccountsSteps(p, acc.swap_token_a, acc.swap_token_b, acc.pool_mint,
                              IF on_a THEN {acc.destination} ELSE {},
                              IF on_a THEN {} ELSE {acc.destination}, {acc.fee_account})
        \o << Require(burnt # {}, "ZeroTradingTokens"),
              Require(fee # {}, "FeeCalculationFailure"),
              Require(pool_token_amount \in U64, "Panic"),
              Require(pool_token_amount <= arg.maximum, "ExceededSlippage"),
              Require(pool_token_amount # 0, "ZeroTradingTokens") >>
        \o When(Given(fee, 0) > 0,
             << Pay(acc.source, acc.fee_account, Given(fee, 0), acc.owner, {acc.owner}) >>)
        \o << Redeem(acc.pool_mint, acc.source, Given(burnt, 0), acc.owner),
              Pay(IF on_a THEN acc.swap_token_a ELSE acc.swap_token_b, acc.destination,
                  arg.destination_token_amount, Authority(p), {acc.owner, SeedSigner(p)}) >>
-----------------------------------------------------------------------------
(* Instructions.                                                            *)

Instruction(name, acc, arg) == [name |-> name, acc |-> acc, arg |-> arg]

InitPoolCalls(p) ==
    { Instruction("init_pool", [amm |-> p, owner |-> payer],
          [fees |-> fees, curve_type |-> t, amount0 |-> x, amount1 |-> y]) :
        payer \in Users, fees \in FeeSchedules, t \in {0, 1},
        x \in OpeningBalances(p[1]), y \in OpeningBalances(p[2]) }

SwapCalls ==
    { Instruction("swap", acc, [amount_in |-> n, minimum |-> m]) :
        acc \in AccountLists.swap, n \in Amounts, m \in Limits }

DepositAllCalls ==
    { Instruction("deposit_all", acc,
                  [pool_token_amount |-> n, maximum_a |-> m1, maximum_b |-> m2]) :
        acc \in AccountLists.deposit_all, n \in Amounts, m1, m2 \in Limits }

DepositSingleCalls ==
    { Instruction("deposit_single", acc, [source_token_amount |-> n, minimum |-> m]) :
        acc \in AccountLists.deposit_single, n \in Amounts, m \in Limits }

WithdrawAllCalls(acc) ==
    { Instruction("withdraw_all", acc,
                  [pool_token_amount |-> n, minimum_a |-> m1, minimum_b |-> m2]) :
        n \in Amounts \cup {bal[acc.source_info]}, m1, m2 \in Limits }

WithdrawSingleCalls ==
    { Instruction("withdraw_single", acc, [destination_token_amount |-> n, maximum |-> m]) :
        acc \in AccountLists.withdraw_single, n \in Amounts, m \in Limits }

Instructions ==
    (UNION { InitPoolCalls(p) : p \in Pools }) \cup SwapCalls
      \cup DepositAllCalls \cup DepositSingleCalls
      \cup (UNION { WithdrawAllCalls(acc) : acc \in AccountLists.withdraw_all })
      \cup WithdrawSingleCalls

\* every instruction but init_pool loads an Amm account that exists
Steps(ins) ==
    IF ins.name # "init_pool" /\ ~amm[ins.acc.amm].is_initialized
    THEN << Require(FALSE, "Constraint") >>
    ELSE CASE ins.name = "init_pool"       -> InitPoolSteps(ins.acc, ins.arg)
           [] ins.name = "swap"            -> SwapSteps(ins.acc, ins.arg)
           [] ins.name = "deposit_all"     -> DepositAllSteps(ins.acc, ins.arg)
           [] ins.name = "deposit_single"  -> DepositSingleSteps(ins.acc, ins.arg)
           [] ins.name = "withdraw_all"    -> WithdrawAllSteps(ins.acc, ins.arg)
           [] ins.name = "withdraw_single" -> WithdrawSingleSteps(ins.acc, ins.arg)

\* the same instruction as an action of Amm
Atomic(ins) ==
    CASE ins.name = "init_pool" ->
           InitPool(ins.acc.amm, ins.acc.owner, ins.arg.fees, ins.arg.curve_type,
                    ins.arg.amount0, ins.arg.amount1)
      [] ins.name = "swap" -> Swap(ins.acc, ins.arg.amount_in, ins.arg.minimum)
      [] ins.name = "deposit_all" ->
           DepositAll(ins.acc, ins.arg.pool_token_amount, ins.arg.maximum_a, ins.arg.maximum_b)
      [] ins.name = "deposit_single" ->
           DepositSingle(ins.acc, ins.arg.source_token_amount, ins.arg.minimum)
      [] ins.name = "withdraw_all" ->
           WithdrawAll(ins.acc, ins.arg.pool_token_amount, ins.arg.minimum_a, ins.arg.minimum_b)
      [] ins.name = "withdraw_single" ->
           WithdrawSingle(ins.acc, ins.arg.destination_token_amount, ins.arg.maximum)

-----------------------------------------------------------------------------
(* Execution.                                                               *)

Idle == [phase |-> "idle"]

\* the accounts as they are, on which the instruction starts
Loaded == [amm |-> amm, bal |-> bal, supply |-> supply]

Begin ==
    /\ tx.phase = "idle"
    /\ commits < MaxCommits
    /\ \E ins \in Instructions :
         tx' = [phase |-> "running", ins |-> ins, todo |-> Steps(ins), view |-> Loaded]
    /\ UNCHANGED <<vars, commits>>

Execute ==
    /\ tx.phase = "running"
    /\ tx.todo # <<>>
    /\ CanExecute(Head(tx.todo), tx.view)
    /\ tx' = [tx EXCEPT !.todo = Tail(@), !.view = Effect(Head(tx.todo), @)]
    /\ UNCHANGED <<vars, commits>>

Commit ==
    /\ tx.phase = "running"
    /\ tx.todo = <<>>
    /\ amm' = tx.view.amm
    /\ bal' = tx.view.bal
    /\ supply' = tx.view.supply
    /\ tx' = Idle
    /\ commits' = commits + 1
    /\ UNCHANGED repairs

\* What the calls did so far is dropped with the view.
Abort ==
    /\ tx.phase = "running"
    /\ tx.todo # <<>>
    /\ ~CanExecute(Head(tx.todo), tx.view)
    /\ tx' = [phase |-> "failed", ins |-> tx.ins, at |-> Head(tx.todo), view |-> tx.view]
    /\ UNCHANGED <<vars, commits>>

Dismiss ==
    /\ tx.phase = "failed"
    /\ tx' = Idle
    /\ UNCHANGED <<vars, commits>>

TxInit == Init /\ tx = Idle /\ commits = 0

TxNext == Begin \/ Execute \/ Commit \/ Abort \/ Dismiss

TxSpec == TxInit /\ [][TxNext]_txVars

-----------------------------------------------------------------------------
(* Properties.                                                              *)

\* An instruction in progress works on well-formed accounts, whatever fails
\* later, and ends with an error that somebody names.
TxTypeOK ==
    /\ TypeOK
    /\ tx.phase \in {"idle", "running", "failed"}
    /\ commits \in 0 .. MaxCommits
    /\ tx.phase # "idle" =>
         /\ tx.view.amm \in [Pools -> AmmData \cup {NoAmm}]
         /\ tx.view.bal \in Balances
         /\ tx.view.supply \in [PoolMints -> U64]
    /\ tx.phase = "failed" => tx.at.error \in Errors

Failed(error) == tx.phase = "failed" /\ tx.at.error = error

\* What the calls of an instruction leave behind, computed from the accounts
\* as they were loaded, is what its atomic action does in one step: Spec, with
\* the stuttering step first, which saves TLC the search for an instruction.
ImplementsAmm == Init /\ [][UNCHANGED vars \/ Next]_vars

\* An instruction fails only when its atomic action is impossible: no order of
\* checks and calls refuses what the accounts and arguments allow.
FailsOnlyIfImpossible == tx.phase = "failed" => ~ENABLED Atomic(tx.ins)

\* The pool has what this step takes out of its vaults.  A single-sided
\* withdrawal of more than the reserve gets this far with a trading fee, which
\* is taken off the amount that is charged, or when the reserve is above ONE
\* and the ratio is rounded to one.
CanPay(ins, step, view) ==
    step.kind = "transfer" /\ step.authority = Authority(ins.acc.amm) =>
      \/ step.amount <= view.bal[step.from]
      \/ /\ ins.name = "withdraw_single"
         /\ \/ amm[ins.acc.amm].fees.trade_fee.numerator # 0
            \/ view.bal[step.from] > ONE

\* A pool never lacks what it has decided to pay out: when its own transfer
\* fails, the receiving account is full or the signature wrong.
VaultsCanPay == tx.phase = "failed" => CanPay(tx.ins, tx.at, tx.view)
=============================================================================

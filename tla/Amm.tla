-------------------------------- MODULE Amm ---------------------------------
(***************************************************************************)
(* The program fbnx_amm: the six instructions of lib.rs, each one action.   *)
(* An instruction runs alone on its accounts and a failing one is rolled    *)
(* back whole, so every check, panic and failed token call is a conjunct of *)
(* the action's guard.                                                      *)
(*                                                                          *)
(* As written the program rejects every instruction: five places contradict *)
(* each other, and a sixth pays the wrong amount.  `repairs' names those a  *)
(* build has corrected, each by the edit the definitions below show; {} is  *)
(* the code as it stands.                                                   *)
(*   funded_vaults    init_pool takes vaults that already hold tokens       *)
(*                    instead of creating them empty                        *)
(*   amm_seeds        the Amm address is checked against the mint seeds it  *)
(*                    was created with                                      *)
(*   authority_seeds  authority_id derives the address init_pool used       *)
(*   signer_seeds     token calls are signed with those seeds               *)
(*   swap_roles       swap's owner constraints fit the roles its body gives *)
(*                    to the four token accounts                            *)
(*   side_b           withdraw_all pays side B the amount it computed for B *)
(***************************************************************************)
EXTENDS SwapCurve, TokenLedger

CONSTANTS Builds,          \* the sets of repairs to check
          AccountLists,    \* the accounts clients pass, per instruction
          FeeSchedules,    \* the fees_input of init_pool
          SWAP_CONSTRAINTS, \* an option: what a production build demands
          Amounts,         \* the amount argument of an instruction
          Limits,          \* its slippage arguments
          Gifts,           \* what users send outside the program
          OpeningAmounts,  \* what a vault that is already funded holds
          Endowment        \* what each wallet holds at the start

VARIABLES repairs,  \* the build, fixed at the start
          amm,      \* the Amm account of each pool
          bal,      \* the amount of each token account
          supply    \* the supply of each pool's mint

vars == <<repairs, amm, bal, supply>>

Repairs == {"funded_vaults", "amm_seeds", "authority_seeds", "signer_seeds", "swap_roles",
            "side_b"}

\* the codes of CurveType, which has one variant
ConstantProductType == 0
CurveTypes == {ConstantProductType}

SwapConstraints ==
    [ owner_key : Users, valid_curve_types : SUBSET CurveTypes, fees : CurveFees ]

\* a host_fee_account of 32 zero bytes: the caller names no host
NoHost == TokenAccount("none", Pda("none", "none"), Pda("none", "none"))

SwapAccounts ==
    [ amm : Pools, owner : Users,
      vault_source_info : TokenAccounts, vault_destination_info : TokenAccounts,
      swap_source : TokenAccounts, swap_destination : TokenAccounts,
      pool_mint : PoolMints, writable : BOOLEAN,
      fee_account : TokenAccounts, host_fee_account : TokenAccounts \cup {NoHost} ]

DepositAllAccounts ==
    [ amm : Pools, owner : Users, source_a_info : TokenAccounts, source_b_info : TokenAccounts,
      vault_token_a : TokenAccounts, vault_token_b : TokenAccounts,
      pool_mint : PoolMints, destination : TokenAccounts ]

DepositSingleAccounts ==
    [ amm : Pools, owner : Users, source : TokenAccounts,
      swap_token_a : TokenAccounts, swap_token_b : TokenAccounts,
      pool_mint : PoolMints, destination : TokenAccounts ]

WithdrawAllAccounts ==
    [ amm : Pools, owner : Users, source_info : TokenAccounts,
      vault_token_a : TokenAccounts, vault_token_b : TokenAccounts, pool_mint : PoolMints,
      dest_token_a_info : TokenAccounts, dest_token_b_info : TokenAccounts,
      fee_account : TokenAccounts ]

WithdrawSingleAccounts ==
    [ amm : Pools, owner : Users, source : TokenAccounts,
      swap_token_a : TokenAccounts, swap_token_b : TokenAccounts, pool_mint : PoolMints,
      destination : TokenAccounts, fee_account : TokenAccounts ]

ASSUME ClientAssumption ==
    /\ Builds \subseteq SUBSET Repairs
    /\ FeeSchedules \subseteq CurveFees
    /\ SWAP_CONSTRAINTS \subseteq SwapConstraints
    /\ Amounts \subseteq U64 /\ Limits \subseteq U64 /\ Gifts \subseteq U64
    /\ OpeningAmounts \subseteq U64
    /\ Endowment \in [Users \X Mints -> U64]
    /\ AccountLists.swap \subseteq SwapAccounts
    /\ AccountLists.deposit_all \subseteq DepositAllAccounts
    /\ AccountLists.deposit_single \subseteq DepositSingleAccounts
    /\ AccountLists.withdraw_all \subseteq WithdrawAllAccounts
    /\ AccountLists.withdraw_single \subseteq WithdrawSingleAccounts

\* The Amm account.  It does not exist, or reads as zeros, before init_pool.
NoAmm == [is_initialized |-> FALSE]

AmmData ==
    [ is_initialized : {TRUE}, token_a_account : Vaults, token_b_account : Vaults,
      pool_mint : PoolMints, token_a_mint : Mints, token_b_mint : Mints,
      pool_fee_account : FeeAccounts, fees : CurveFees ]

TypeOK ==
    /\ repairs \in Builds
    /\ amm \in [Pools -> AmmData \cup {NoAmm}]
    /\ bal \in Balances
    /\ supply \in [PoolMints -> U64]

Init ==
    /\ repairs \in Builds
    /\ amm = [p \in Pools |-> NoAmm]
    /\ bal = [t \in TokenAccounts |->
                IF t.kind = "wallet" /\ t.mint \in Mints THEN Endowment[<<t.owner, t.mint>>] ELSE 0]
    /\ supply = [m \in PoolMints |-> 0]

-----------------------------------------------------------------------------
(* The checks the handlers share.                                           *)

\* Anchor's seeds constraint on the amm account of the deposits and withdrawals
AmmSeedsHold(p) ==
    AmmKey(p) = Pda("amm", << amm[p].token_a_mint,
                              IF "amm_seeds" \in repairs THEN amm[p].token_b_mint
                                                         ELSE amm[p].token_b_account >>)

\* authority_id leaves out the label that the authority's seeds start with
AuthorityId(p) == Pda(IF "authority_seeds" \in repairs THEN "authority" ELSE "", AmmKey(p))

\* the key the seeds of with_signer sign for
SeedSigner(p) == Pda(IF "signer_seeds" \in repairs THEN "authority" ELSE "", AmmKey(p))

\* mutant: vault B is not compared with the recorded one
CheckAccounts_NoVaultB(p, token_a, token_b, pool_mint, user_token_a, user_token_b, fee_accounts) ==
    /\ Authority(p) = AuthorityId(p)
    /\ token_a = amm[p].token_a_account
    /\ pool_mint = amm[p].pool_mint
    /\ token_a \notin user_token_a
    /\ token_b \notin user_token_b
    /\ \A f \in fee_accounts : f = amm[p].pool_fee_account

\* mutant: any account for pool tokens will do for the fee
CheckAccounts_AnyFeeAccount(p, token_a, token_b, pool_mint, user_token_a, user_token_b, fee_accounts) ==
    /\ Authority(p) = AuthorityId(p)
    /\ token_a = amm[p].token_a_account
    /\ token_b = amm[p].token_b_account
    /\ pool_mint = amm[p].pool_mint
    /\ token_a \notin user_token_a
    /\ token_b \notin user_token_b
    /\ \A f \in fee_accounts : f.mint = pool_mint

\* check_accounts; the user's accounts on side A and B are sets, empty for None
CheckAccounts(p, token_a, token_b, pool_mint, user_token_a, user_token_b, fee_accounts) ==
    /\ Authority(p) = AuthorityId(p)
    /\ token_a = amm[p].token_a_account
    /\ token_b = amm[p].token_b_account
    /\ pool_mint = amm[p].pool_mint
    /\ token_a \notin user_token_a
    /\ token_b \notin user_token_b
    /\ \A f \in fee_accounts : f = amm[p].pool_fee_account

-----------------------------------------------------------------------------
(* init_pool                                                                *)

\* What a vault holds when the handler runs.  Anchor has just created it, so
\* nothing, unless its mint is the native one.
OpeningBalances(mint) ==
    IF mint = NativeMint \/ "funded_vaults" \in repairs THEN OpeningAmounts ELSE {0}

\* SwapConstraints::validate_curve, validate_fees and the owner of the fee
\* account; without the feature `production' nothing is demanded
ConstraintsHold(payer, curve_type, fees) ==
    \A constraints \in SWAP_CONSTRAINTS :
      /\ payer = constraints.owner_key
      /\ curve_type \in constraints.valid_curve_types
      /\ ConstrainFees(fees, constraints.fees)

\* mutant: the creator's own pool token account is recorded for the fees
NewAmm_FeesToDestination(p, payer, fees) ==
    [ is_initialized |-> TRUE, token_a_account |-> Vault0(p), token_b_account |-> Vault1(p),
      pool_mint |-> PoolMint(p), token_a_mint |-> p[1], token_b_mint |-> p[2],
      pool_fee_account |-> Wallet(payer, PoolMint(p)), fees |-> fees ]

NewAmm(p, payer, fees) ==
    [ is_initialized |-> TRUE, token_a_account |-> Vault0(p), token_b_account |-> Vault1(p),
      pool_mint |-> PoolMint(p), token_a_mint |-> p[1], token_b_mint |-> p[2],
      pool_fee_account |-> FeeAccount(p, payer), fees |-> fees ]

InitPool(p, payer, fees, curve_type, amount0, amount1) ==
    /\ ~amm[p].is_initialized
    /\ p[1] # p[2]
    /\ curve_type \in CurveTypes
    /\ ValidateSupply(amount0, amount1)
    /\ supply[PoolMint(p)] = 0
    /\ ConstraintsHold(payer, curve_type, fees)
    /\ ValidateFees(fees)
    /\ CanMintTo(bal, supply[PoolMint(p)], Wallet(payer, PoolMint(p)), NewPoolSupply,
                 PoolMint(p), Authority(p), {Authority(p)})
    /\ bal' = MintTo([bal EXCEPT ![Vault0(p)] = amount0, ![Vault1(p)] = amount1],
                     Wallet(payer, PoolMint(p)), NewPoolSupply)
    /\ supply' = [supply EXCEPT ![PoolMint(p)] = NewPoolSupply]
    /\ amm' = [amm EXCEPT ![p] = NewAmm(p, payer, fees)]
    /\ UNCHANGED repairs

-----------------------------------------------------------------------------
(* swap                                                                     *)

\* The body treats swap_* as the pool's accounts and vault_*_info as the
\* user's; the owner constraints of the Swap struct say the opposite.
SwapOwnersHold(acc) ==
    LET poolSide == IF "swap_roles" \in repairs
                    THEN {acc.swap_source, acc.swap_destination}
                    ELSE {acc.vault_source_info, acc.vault_destination_info}
        userSide == IF "swap_roles" \in repairs
                    THEN {acc.vault_source_info, acc.vault_destination_info}
                    ELSE {acc.swap_source, acc.swap_destination}
    IN  /\ \A t \in poolSide : t.owner = Authority(acc.amm)
        /\ \A t \in userSide : t.owner = acc.owner

SwapAccountsHold(acc) ==
    LET a == amm[acc.amm]
    IN  /\ a.is_initialized
        /\ SwapOwnersHold(acc)
        /\ Authority(acc.amm) = AuthorityId(acc.amm)
        /\ acc.swap_source \in {a.token_a_account, a.token_b_account}
        /\ acc.swap_destination \in {a.token_a_account, a.token_b_account}
        /\ acc.swap_source # acc.swap_destination
        /\ acc.swap_source # acc.vault_source_info
        /\ acc.swap_destination # acc.vault_destination_info
        /\ acc.pool_mint = a.pool_mint
        /\ acc.fee_account = a.pool_fee_account

\* mutant: the host's part is minted on top of the owner's
FeeMints_HostOnTop(acc, pool_token_amount) ==
    IF pool_token_amount = 0 \/ acc.host_fee_account = NoHost
    THEN Some([host |-> 0, owner |-> pool_token_amount])
    ELSE { [host |-> h, owner |-> pool_token_amount] :
             h \in HostFee(amm[acc.amm].fees, pool_token_amount) }

\* The pool tokens the owner fee is worth, split between host and fee account.
FeeMints(acc, pool_token_amount) ==
    IF pool_token_amount = 0 \/ acc.host_fee_account = NoHost
    THEN Some([host |-> 0, owner |-> pool_token_amount])
    ELSE { [host |-> h, owner |-> pool_token_amount - h] :
             h \in { f \in HostFee(amm[acc.amm].fees, pool_token_amount) :
                       /\ acc.host_fee_account.mint = acc.pool_mint
                       /\ f <= pool_token_amount } }

SwapDirection(acc) ==
    IF acc.swap_source = amm[acc.amm].token_a_account THEN "AtoB" ELSE "BtoA"

\* What the owner fee is worth in pool tokens at the reserves after the trade.
OwnerFeePoolTokens(acc, result) ==
    LET new_source == result.new_swap_source_amount
        new_dest   == result.new_swap_destination_amount
        direction  == SwapDirection(acc)
    IN  CurveWithdrawSingle(result.owner_fee,
                            IF direction = "AtoB" THEN new_source ELSE new_dest,
                            IF direction = "AtoB" THEN new_dest ELSE new_source,
                            supply[acc.pool_mint], direction, amm[acc.amm].fees)

\* The Swap struct does not declare the mint and the host account mutable, so
\* minting works only for a client that marks them writable on its own.
Swap(acc, amount_in, minimum_amount_out) ==
    LET p       == acc.amm
        signers == {acc.owner, SeedSigner(p)}
    IN  /\ SwapAccountsHold(acc)
        /\ \E result \in CurveSwap(amount_in, bal[acc.swap_source], bal[acc.swap_destination],
                                   amm[p].fees) :
           \E pool_token_amount \in OwnerFeePoolTokens(acc, result) :
           \E mints \in FeeMints(acc, pool_token_amount) :
             LET paid   == Transfer(bal, acc.vault_source_info, acc.swap_source,
                                    result.source_amount_swapped)
                 hosted == IF mints.host = 0 THEN paid
                           ELSE MintTo(paid, acc.host_fee_account, mints.host)
                 minted == IF pool_token_amount = 0 THEN hosted
                           ELSE MintTo(hosted, acc.fee_account, mints.owner)
             IN  /\ minimum_amount_out <= result.destination_amount_swapped
                 /\ CanTransfer(bal, acc.vault_source_info, acc.swap_source,
                                result.source_amount_swapped, acc.owner, signers)
                 /\ pool_token_amount # 0 => acc.writable
                 /\ mints.host # 0 =>
                      CanMintTo(paid, supply[acc.pool_mint], acc.host_fee_account, mints.host,
                                acc.pool_mint, Authority(p), signers)
                 /\ pool_token_amount # 0 =>
                      CanMintTo(hosted, supply[acc.pool_mint] + mints.host, acc.fee_account, mints.owner,
                                acc.pool_mint, Authority(p), signers)
                 /\ CanTransfer(minted, acc.swap_destination, acc.vault_destination_info,
                                result.destination_amount_swapped, Authority(p), signers)
                 /\ bal' = Transfer(minted, acc.swap_destination, acc.vault_destination_info,
                                    result.destination_amount_swapped)
                 /\ supply' = [supply EXCEPT ![acc.pool_mint] = @ + mints.host + mints.owner]
        /\ UNCHANGED <<repairs, amm>>

-----------------------------------------------------------------------------
(* deposit_all and deposit_single                                           *)

\* the constraints of the account struct, which Anchor checks first
DepositAllConstraints(acc) ==
    /\ amm[acc.amm].is_initialized
    /\ AmmSeedsHold(acc.amm)
    /\ acc.source_a_info.owner = acc.owner
    /\ acc.source_b_info.owner = acc.owner
    /\ acc.vault_token_a.owner = Authority(acc.amm)
    /\ acc.vault_token_b.owner = Authority(acc.amm)
    /\ acc.destination.mint = acc.pool_mint
    /\ acc.destination.owner = acc.owner
    /\ MintAuthority(acc.pool_mint) = Authority(acc.amm)

DepositAllAccountsHold(acc) ==
    /\ DepositAllConstraints(acc)
    /\ CheckAccounts(acc.amm, acc.vault_token_a, acc.vault_token_b, acc.pool_mint,
                     {acc.source_a_info}, {acc.source_b_info}, {})

DepositAll(acc, pool_tokens_asked, maximum_token_a_amount, maximum_token_b_amount) ==
    LET p       == acc.amm
        signers == {acc.owner, SeedSigner(p)}
        restart == supply[acc.pool_mint] = 0
        pool_token_amount == IF restart THEN NewPoolSupply ELSE pool_tokens_asked
        pool_mint_supply  == IF restart THEN NewPoolSupply ELSE supply[acc.pool_mint]
    IN  /\ DepositAllAccountsHold(acc)
        /\ \E results \in PoolTokensToTradingTokens(pool_token_amount, pool_mint_supply,
                              bal[acc.vault_token_a], bal[acc.vault_token_b], "Ceiling") :
             LET paid_a == Transfer(bal, acc.source_a_info, acc.vault_token_a,
                                    results.token_a_amount)
                 paid_b == Transfer(paid_a, acc.source_b_info, acc.vault_token_b,
                                    results.token_b_amount)
             IN  /\ results.token_a_amount \in 1 .. maximum_token_a_amount
                 /\ results.token_b_amount \in 1 .. maximum_token_b_amount
                 /\ CanTransfer(bal, acc.source_a_info, acc.vault_token_a,
                                results.token_a_amount, acc.owner, signers)
                 /\ CanTransfer(paid_a, acc.source_b_info, acc.vault_token_b,
                                results.token_b_amount, acc.owner, signers)
                 /\ CanMintTo(paid_b, supply[acc.pool_mint], acc.destination, pool_token_amount,
                              acc.pool_mint, Authority(p), signers)
                 /\ bal' = MintTo(paid_b, acc.destination, pool_token_amount)
        /\ supply' = [supply EXCEPT ![acc.pool_mint] = @ + pool_token_amount]
        /\ UNCHANGED <<repairs, amm>>

\* the side of the pool an account's mint belongs to; {} is IncorrectSwapAccount
SideOf(t, token_a, token_b) ==
    IF t.mint = token_a.mint THEN Some("AtoB")
    ELSE IF t.mint = token_b.mint THEN Some("BtoA") ELSE None

DepositSingleConstraints(acc) ==
    /\ amm[acc.amm].is_initialized
    /\ AmmSeedsHold(acc.amm)
    /\ acc.source.owner = acc.owner
    /\ acc.swap_token_a.owner = Authority(acc.amm)
    /\ acc.swap_token_b.owner = Authority(acc.amm)
    /\ acc.destination.mint = acc.pool_mint
    /\ acc.destination.owner = acc.owner

DepositSingleAccountsHold(acc, trade_direction) ==
    /\ DepositSingleConstraints(acc)
    /\ CheckAccounts(acc.amm, acc.swap_token_a, acc.swap_token_b, acc.pool_mint,
                     IF trade_direction = "AtoB" THEN {acc.source} ELSE {},
                     IF trade_direction = "BtoA" THEN {acc.source} ELSE {}, {})

DepositSingle(acc, source_token_amount, minimum_pool_token_amount) ==
    LET p       == acc.amm
        signers == {acc.owner, SeedSigner(p)}
    IN  /\ \E trade_direction \in SideOf(acc.source, acc.swap_token_a, acc.swap_token_b) :
           /\ DepositSingleAccountsHold(acc, trade_direction)
           /\ \E pool_token_amount \in
                   IF supply[acc.pool_mint] > 0
                   THEN CurveDepositSingle(source_token_amount, bal[acc.swap_token_a],
                                           bal[acc.swap_token_b], supply[acc.pool_mint], trade_direction,
                                           amm[p].fees)
                   ELSE Some(NewPoolSupply) :
                LET vault == IF trade_direction = "AtoB" THEN acc.swap_token_a
                                                         ELSE acc.swap_token_b
                    paid  == Transfer(bal, acc.source, vault, source_token_amount)
                IN  /\ minimum_pool_token_amount <= pool_token_amount
                    /\ pool_token_amount # 0
                    /\ CanTransfer(bal, acc.source, vault, source_token_amount,
                                   acc.owner, {acc.owner})
                    /\ CanMintTo(paid, supply[acc.pool_mint], acc.destination, pool_token_amount,
                                 acc.pool_mint, Authority(p), signers)
                    /\ bal' = MintTo(paid, acc.destination, pool_token_amount)
                    /\ supply' = [supply EXCEPT ![acc.pool_mint] = @ + pool_token_amount]
        /\ UNCHANGED <<repairs, amm>>

-----------------------------------------------------------------------------
(* withdraw_all and withdraw_single                                         *)

WithdrawAllConstraints(acc) ==
    /\ amm[acc.amm].is_initialized
    /\ AmmSeedsHold(acc.amm)
    /\ acc.source_info.mint = acc.pool_mint
    /\ acc.vault_token_a.owner = Authority(acc.amm)
    /\ acc.vault_token_b.owner = Authority(acc.amm)
    /\ acc.dest_token_a_info.owner = acc.owner
    /\ acc.dest_token_b_info.owner = acc.owner
    /\ MintAuthority(acc.pool_mint) = Authority(acc.amm)

WithdrawAllAccountsHold(acc) ==
    /\ WithdrawAllConstraints(acc)
    /\ CheckAccounts(acc.amm, acc.vault_token_a, acc.vault_token_b, acc.pool_mint,
                     {acc.dest_token_a_info}, {acc.dest_token_b_info}, {acc.fee_account})

\* withdrawing from the fee account itself is free
WithdrawFee(acc, source, pool_tokens) ==
    IF acc.fee_account = source THEN Some(0)
    ELSE OwnerWithdrawFee(amm[acc.amm].fees, pool_tokens)

AtMost(x, y) == IF x <= y THEN x ELSE y

\* mutant: the repair is undone
SideBPayment_SideA(token_a_amount, token_b_amount) == token_a_amount

\* The last transfer of the handler pays side B the amount of side A.
SideBPayment(token_a_amount, token_b_amount) ==
    IF "side_b" \in repairs THEN token_b_amount ELSE token_a_amount

WithdrawAll(acc, pool_tokens_given, minimum_token_a_amount, minimum_token_b_amount) ==
    LET p       == acc.amm
        vault_a == acc.vault_token_a
        vault_b == acc.vault_token_b
        signers == {acc.owner, SeedSigner(p)}
    IN  /\ WithdrawAllAccountsHold(acc)
        /\ \E withdraw_fee \in WithdrawFee(acc, acc.source_info, pool_tokens_given) :
           \E results \in PoolTokensToTradingTokens(pool_tokens_given - withdraw_fee, supply[acc.pool_mint],
                              bal[vault_a], bal[vault_b], "Floor") :
             LET pool_token_amount == pool_tokens_given - withdraw_fee
                 token_a_amount    == AtMost(bal[vault_a], results.token_a_amount)
                 token_b_amount    == AtMost(bal[vault_b], results.token_b_amount)
                 paid_on_side_b    == SideBPayment(token_a_amount, token_b_amount)
                 charged == IF withdraw_fee = 0 THEN bal
                            ELSE Transfer(bal, acc.source_info, acc.fee_account, withdraw_fee)
                 burned  == Burn(charged, acc.source_info, pool_token_amount)
                 paid_a  == IF token_a_amount = 0 THEN burned
                            ELSE Transfer(burned, vault_a, acc.dest_token_a_info, token_a_amount)
                 paid_b  == IF token_b_amount = 0 THEN paid_a
                            ELSE Transfer(paid_a, vault_b, acc.dest_token_b_info, paid_on_side_b)
             IN  /\ withdraw_fee <= pool_tokens_given
                 /\ results.token_a_amount \in U64
                 /\ minimum_token_a_amount <= token_a_amount
                 /\ token_a_amount = 0 => bal[vault_a] = 0
                 /\ results.token_b_amount \in U64
                 /\ minimum_token_b_amount <= token_b_amount
                 /\ token_b_amount = 0 => bal[vault_b] = 0
                 /\ withdraw_fee # 0 =>
                      CanTransfer(bal, acc.source_info, acc.fee_account, withdraw_fee,
                                  acc.owner, {acc.owner})
                 /\ CanBurn(charged, supply[acc.pool_mint], acc.source_info, pool_token_amount,
                            acc.pool_mint, acc.owner, {acc.owner})
                 /\ token_a_amount # 0 =>
                      CanTransfer(burned, vault_a, acc.dest_token_a_info, token_a_amount,
                                  Authority(p), signers)
                 /\ token_b_amount # 0 =>
                      CanTransfer(paid_a, vault_b, acc.dest_token_b_info, paid_on_side_b,
                                  Authority(p), signers)
                 /\ bal' = paid_b
                 /\ supply' = [supply EXCEPT ![acc.pool_mint] = @ - pool_token_amount]
        /\ UNCHANGED <<repairs, amm>>

WithdrawSingleConstraints(acc) ==
    /\ amm[acc.amm].is_initialized
    /\ AmmSeedsHold(acc.amm)
    /\ acc.source.mint = acc.pool_mint
    /\ acc.swap_token_a.owner = Authority(acc.amm)
    /\ acc.swap_token_b.owner = Authority(acc.amm)
    /\ acc.destination.owner = acc.owner
    /\ MintAuthority(acc.pool_mint) = Authority(acc.amm)

WithdrawSingleAccountsHold(acc, trade_direction) ==
    /\ WithdrawSingleConstraints(acc)
    /\ CheckAccounts(acc.amm, acc.swap_token_a, acc.swap_token_b, acc.pool_mint,
                     IF trade_direction = "AtoB" THEN {acc.destination} ELSE {},
                     IF trade_direction = "BtoA" THEN {acc.destination} ELSE {},
                     {acc.fee_account})

WithdrawSingle(acc, destination_token_amount, maximum_pool_token_amount) ==
    LET p       == acc.amm
        signers == {acc.owner, SeedSigner(p)}
    IN  /\ \E trade_direction \in SideOf(acc.destination, acc.swap_token_a, acc.swap_token_b) :
           /\ WithdrawSingleAccountsHold(acc, trade_direction)
           /\ \E burn_amount \in CurveWithdrawSingle(destination_token_amount,
                                    bal[acc.swap_token_a], bal[acc.swap_token_b], supply[acc.pool_mint],
                                    trade_direction, amm[p].fees) :
              \E withdraw_fee \in WithdrawFee(acc, acc.source, burn_amount) :
                LET vault   == IF trade_direction = "AtoB" THEN acc.swap_token_a
                                                           ELSE acc.swap_token_b
                    charged == IF withdraw_fee = 0 THEN bal
                               ELSE Transfer(bal, acc.source, acc.fee_account, withdraw_fee)
                    burned  == Burn(charged, acc.source, burn_amount)
                IN  /\ burn_amount + withdraw_fee \in 1 .. maximum_pool_token_amount
                    /\ withdraw_fee # 0 =>
                         CanTransfer(bal, acc.source, acc.fee_account, withdraw_fee,
                                     acc.owner, {acc.owner})
                    /\ CanBurn(charged, supply[acc.pool_mint], acc.source, burn_amount,
                               acc.pool_mint, acc.owner, {acc.owner})
                    /\ CanTransfer(burned, vault, acc.destination, destination_token_amount,
                                   Authority(p), signers)
                    /\ bal' = Transfer(burned, vault, acc.destination, destination_token_amount)
                    /\ supply' = [supply EXCEPT ![acc.pool_mint] = @ - burn_amount]
        /\ UNCHANGED <<repairs, amm>>

-----------------------------------------------------------------------------
(* A transfer of the token program that does not go through this program:   *)
(* anybody may pay anybody, a pool's vault included.                        *)

Exists(t) ==
    \/ t \in Wallets
    \/ \E p \in Pools : /\ amm[p].is_initialized
                       /\ t \in {Vault0(p), Vault1(p), amm[p].pool_fee_account}

UserTransfer(u, from, to, amount) ==
    /\ from # to
    /\ amount > 0
    /\ Exists(to)
    /\ CanTransfer(bal, from, to, amount, u, {u})
    /\ bal' = Transfer(bal, from, to, amount)
    /\ UNCHANGED <<repairs, amm, supply>>

-----------------------------------------------------------------------------
(* The clients.                                                             *)

AnInitPool ==
    \E p \in Pools, payer \in Users, fees \in FeeSchedules, curve_type \in {0, 1} :
      \E amount0 \in OpeningBalances(p[1]), amount1 \in OpeningBalances(p[2]) :
        InitPool(p, payer, fees, curve_type, amount0, amount1)

ASwap ==
    \E acc \in AccountLists.swap, amount_in \in Amounts, minimum \in Limits :
      Swap(acc, amount_in, minimum)

ADepositAll ==
    \E acc \in AccountLists.deposit_all, amount \in Amounts, max_a, max_b \in Limits :
      DepositAll(acc, amount, max_a, max_b)

ADepositSingle ==
    \E acc \in AccountLists.deposit_single, amount \in Amounts, minimum \in Limits :
      DepositSingle(acc, amount, minimum)

\* a provider names an amount, or everything the account holds
AWithdrawAll ==
    \E acc \in AccountLists.withdraw_all, min_a, min_b \in Limits :
      \E amount \in Amounts \cup {bal[acc.source_info]} : WithdrawAll(acc, amount, min_a, min_b)

AWithdrawSingle ==
    \E acc \in AccountLists.withdraw_single, amount \in Amounts, maximum \in Limits :
      WithdrawSingle(acc, amount, maximum)

AUserTransfer ==
    \E u \in Users, from, to \in TokenAccounts, amount \in Gifts :
      UserTransfer(u, from, to, amount)

Next ==
    \/ AnInitPool
    \/ ASwap
    \/ ADepositAll
    \/ ADepositSingle
    \/ AWithdrawAll
    \/ AWithdrawSingle
    \/ AUserTransfer

Spec == Init /\ [][Next]_vars
=============================================================================

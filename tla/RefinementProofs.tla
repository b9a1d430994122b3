--------------------------- MODULE RefinementProofs ---------------------------
(***************************************************************************)
(* Pools that are only traded with and joined keep both tokens, and the     *)
(* instructions on both tokens and the trades implement SharePool: for all  *)
(* mints, pools, users, accounts, amounts and widths.                       *)
(***************************************************************************)
EXTENDS AmmProofs, ConstantProductProofs

-----------------------------------------------------------------------------
(* While nobody withdraws, a pool with pool tokens has both its tokens.     *)

\* Pool tokens exist only of pools that opened, and both vaults of those hold
\* tokens.  LiquidityTwoSided alone is not inductive: a deposit into a pool
\* without pool tokens would have to look at what its vaults hold.
LiquidInv ==
    \A p \in Pools :
      /\ Supply(p) > 0 => Live(p)
      /\ Live(p) => bal[Vault0(p)] > 0 /\ bal[Vault1(p)] > 0

\* no user owns a vault
LEMMA VaultFacts ==
    ASSUME NEW p \in Pools, NEW v \in {Vault0(p), Vault1(p)}
    PROVE  v \in TokenAccounts /\ v.owner \notin Users
BY UsersAssumption DEF TokenAccounts, Vaults, Vault0, Vault1, TokenAccount

\* what a transfer leaves in an account it does not take from
LEMMA TransferKeeps ==
    ASSUME NEW b \in Balances, NEW from \in TokenAccounts, NEW to \in TokenAccounts,
           NEW amount, NEW authority, NEW signers, NEW v \in TokenAccounts,
           CanTransfer(b, from, to, amount, authority, signers), v # from
    PROVE  Transfer(b, from, to, amount)[v] >= b[v]
BY U64Assumption DEF CanTransfer, Transfer, Balances, U64

\* minting lowers no account
LEMMA MintToKeeps ==
    ASSUME NEW b \in Balances, NEW to \in TokenAccounts, NEW amount \in U64,
           NEW v \in TokenAccounts
    PROVE  MintTo(b, to, amount)[v] >= b[v]
BY U64Assumption DEF MintTo, Balances, U64

\* A step that lowers no vault to nothing and mints only for live pools.
LEMMA GentleStep ==
    ASSUME LiquidInv, UNCHANGED amm,
           \A p \in Pools : \A v \in {Vault0(p), Vault1(p)} : bal[v] > 0 => bal'[v] > 0,
           \A p \in Pools : Supply(p)' > 0 => Live(p)
    PROVE  LiquidInv'
BY DEF LiquidInv, Live

\* an open pool's account names its own mint
LEMMA PoolMintOfALivePool ==
    ASSUME LockInv, NEW p \in Pools, Live(p)
    PROVE  amm[p].pool_mint = PoolMint(p)
<1>1. PICK payer \in Users, fees \in FeeSchedules : amm[p] = NewAmm(p, payer, fees)
  BY DEF LockInv
<1> QED BY <1>1 DEF NewAmm

\* pools do not share a mint
LEMMA MintsDiffer ==
    ASSUME NEW p \in Pools, NEW q \in Pools, PoolMint(p) = PoolMint(q)
    PROVE  p = q
BY DEF PoolMint, AmmKey, Pda

\* an instruction on a live pool mints that pool's tokens
LEMMA MintsForALivePool ==
    ASSUME TypeOK, LockInv, LiquidInv, NEW q \in Pools, Live(q), NEW n,
           supply' = [supply EXCEPT ![amm[q].pool_mint] = n]
    PROVE  \A p \in Pools : Supply(p)' > 0 => Live(p)
<1> SUFFICES ASSUME NEW p \in Pools, Supply(p)' > 0 PROVE Live(p)
  OBVIOUS
<1>1. amm[q].pool_mint = PoolMint(q) /\ PoolMint(p) \in PoolMints
  BY PoolMintOfALivePool DEF PoolMints
<1>2. CASE p = q
  BY <1>2
<1>3. CASE p # q
  <2>1. PoolMint(p) # PoolMint(q)
    BY <1>3, MintsDiffer
  <2>2. Supply(p)' = Supply(p)
    BY <1>1, <2>1 DEF Supply, TypeOK
  <2> QED BY <2>2 DEF LiquidInv
<1> QED BY <1>2, <1>3

-----------------------------------------------------------------------------
\* init_pool opens one pool with both tokens
LEMMA InitPoolKeepsLiquid ==
    ASSUME TypeOK, LiquidInv, NEW q \in Pools, NEW payer \in Users, NEW fees,
           NEW curve_type, NEW amount0 \in U64, NEW amount1 \in U64,
           InitPool(q, payer, fees, curve_type, amount0, amount1)
    PROVE  LiquidInv'
<1> DEFINE b0 == [bal EXCEPT ![Vault0(q)] = amount0, ![Vault1(q)] = amount1]
           w  == Wallet(payer, PoolMint(q))
<1> SUFFICES ASSUME NEW p \in Pools
             PROVE  /\ Supply(p)' > 0 => Live(p)'
                    /\ Live(p)' => bal'[Vault0(p)] > 0 /\ bal'[Vault1(p)] > 0
  BY DEF LiquidInv
<1>1. /\ Vault0(p) \in TokenAccounts /\ Vault1(p) \in TokenAccounts
      /\ Vault0(q) \in TokenAccounts /\ Vault1(q) \in TokenAccounts
      /\ w \in TokenAccounts /\ w # Vault0(p) /\ w # Vault1(p)
      /\ PoolMint(p) \in PoolMints /\ PoolMint(q) \in PoolMints
  BY AccountsOfAPool DEF Wallet, Vault0, Vault1, TokenAccount
<1>2. b0 \in Balances /\ bal' = MintTo(b0, w, NewPoolSupply)
  BY <1>1 DEF TypeOK, Balances, InitPool
<1>3. bal'[Vault0(p)] = b0[Vault0(p)] /\ bal'[Vault1(p)] = b0[Vault1(p)]
  BY <1>1, <1>2 DEF MintTo, Balances
<1>4. CASE p = q
  <2>1. Live(p)'
    BY <1>4 DEF InitPool, TypeOK, Live, NewAmm
  <2>2. Vault0(p) # Vault1(p)
    BY DEF Vault0, Vault1, TokenAccount
  <2>3. b0[Vault0(p)] = amount0 /\ b0[Vault1(p)] = amount1
    BY <1>1, <1>4, <2>2 DEF TypeOK, Balances
  <2>4. amount0 > 0 /\ amount1 > 0
    BY DEF InitPool, ValidateSupply, U64
  <2> QED BY <1>3, <2>1, <2>3, <2>4
<1>5. CASE p # q
  <2>1. Live(p)' = Live(p)
    BY <1>5 DEF InitPool, TypeOK, Live
  <2>2. b0[Vault0(p)] = bal[Vault0(p)] /\ b0[Vault1(p)] = bal[Vault1(p)]
    BY <1>1, <1>5, PoolsHaveTheirOwnVaults DEF TypeOK, Balances
  <2>3. PoolMint(p) # PoolMint(q)
    BY <1>5, MintsDiffer
  <2>4. Supply(p)' = Supply(p)
    BY <1>1, <2>3 DEF InitPool, Supply, TypeOK
  <2> QED BY <1>3, <2>1, <2>2, <2>4 DEF LiquidInv
<1> QED BY <1>4, <1>5

\* a user cannot take from a vault
LEMMA UserTransferKeepsLiquid ==
    ASSUME TypeOK, LiquidInv, NEW u \in Users, NEW from \in TokenAccounts,
           NEW to \in TokenAccounts, NEW amount, UserTransfer(u, from, to, amount)
    PROVE  LiquidInv'
<1>1. ASSUME NEW p \in Pools, NEW v \in {Vault0(p), Vault1(p)}, bal[v] > 0
      PROVE  bal'[v] > 0
  <2>1. v \in TokenAccounts /\ v # from
    BY VaultFacts DEF UserTransfer, CanTransfer
  <2>2. bal \in Balances /\ bal' = Transfer(bal, from, to, amount) /\ bal' \in Balances
    BY TransferType DEF TypeOK, UserTransfer
  <2>3. bal'[v] >= bal[v] /\ bal'[v] \in Int /\ bal[v] \in Int
    BY <2>1, <2>2, TransferKeeps, U64Assumption DEF UserTransfer, Balances, U64
  <2> QED BY <1>1, <2>3
<1>2. \A p \in Pools : Supply(p)' > 0 => Live(p)
  BY DEF UserTransfer, Supply, LiquidInv
<1> QED BY <1>1, <1>2, GentleStep DEF UserTransfer

\* deposit_all takes from users only
LEMMA DepositAllKeepsLiquid ==
    ASSUME TypeOK, LockInv, LiquidInv, NEW acc \in DepositAllAccounts, NEW n, NEW max_a,
           NEW max_b, DepositAll(acc, n, max_a, max_b)
    PROVE  LiquidInv'
<1> DEFINE m == acc.pool_mint
           minted == IF supply[m] = 0 THEN NewPoolSupply ELSE n
           paid_a(r) == Transfer(bal, acc.source_a_info, acc.vault_token_a, r.token_a_amount)
           paid_b(r) == Transfer(paid_a(r), acc.source_b_info, acc.vault_token_b,
                                 r.token_b_amount)
           signers == {acc.owner, SeedSigner(acc.amm)}
<1>1. /\ acc.source_a_info \in TokenAccounts /\ acc.source_b_info \in TokenAccounts
      /\ acc.vault_token_a \in TokenAccounts /\ acc.vault_token_b \in TokenAccounts
      /\ acc.destination \in TokenAccounts /\ acc.owner \in Users /\ bal \in Balances
      /\ acc.amm \in Pools
  BY DEF DepositAllAccounts, TypeOK
<1>2. PICK r :
        /\ CanTransfer(bal, acc.source_a_info, acc.vault_token_a, r.token_a_amount,
                       acc.owner, signers)
        /\ CanTransfer(paid_a(r), acc.source_b_info, acc.vault_token_b, r.token_b_amount,
                       acc.owner, signers)
        /\ CanMintTo(paid_b(r), supply[m], acc.destination, minted, m, Authority(acc.amm),
                     signers)
        /\ bal' = MintTo(paid_b(r), acc.destination, minted)
  BY DEF DepositAll
<1>3. paid_a(r) \in Balances
  BY <1>1, <1>2, TransferType
<1>4. paid_b(r) \in Balances
  BY <1>1, <1>2, <1>3, TransferType
<1>5. minted \in U64
  BY <1>2 DEF CanMintTo
<1>6. ASSUME NEW p \in Pools, NEW v \in {Vault0(p), Vault1(p)}, bal[v] > 0
      PROVE  bal'[v] > 0
  <2>1. v \in TokenAccounts /\ v # acc.source_a_info /\ v # acc.source_b_info
    BY <1>1, <1>2, VaultFacts DEF CanTransfer
  <2>2. paid_a(r)[v] >= bal[v]
    BY <1>1, <1>2, <2>1, TransferKeeps
  <2>3. paid_b(r)[v] >= paid_a(r)[v]
    BY <1>1, <1>2, <1>3, <2>1, TransferKeeps
  <2>4. bal'[v] >= paid_b(r)[v]
    <3> HIDE DEF minted, paid_b
    <3> QED BY <1>1, <1>2, <1>4, <1>5, <2>1, MintToKeeps
  <2>5. bal[v] \in Int /\ paid_a(r)[v] \in Int /\ paid_b(r)[v] \in Int
    BY <1>1, <1>3, <1>4, <2>1, U64Assumption DEF Balances, U64
  <2>6. bal'[v] \in Int
    <3>1. bal' \in Balances
      BY DepositAllType DEF TypeOK
    <3> QED BY <3>1, <2>1, U64Assumption DEF Balances, U64
  <2> HIDE DEF paid_a, paid_b, minted
  <2> QED BY <1>6, <2>2, <2>3, <2>4, <2>5, <2>6
<1>7. Live(acc.amm) /\ m = amm[acc.amm].pool_mint
  BY DEF DepositAll, DepositAllAccountsHold, DepositAllConstraints, CheckAccounts, Live
<1>8. supply' = [supply EXCEPT ![m] = supply[m] + minted] /\ UNCHANGED amm
  BY DEF DepositAll
<1>9. \A p \in Pools : Supply(p)' > 0 => Live(p)
  BY <1>1, <1>7, <1>8, MintsForALivePool
<1> QED BY <1>6, <1>8, <1>9, GentleStep

\* deposit_single takes from a user only
LEMMA DepositSingleKeepsLiquid ==
    ASSUME TypeOK, LockInv, LiquidInv, NEW acc \in DepositSingleAccounts, NEW n, NEW minimum,
           DepositSingle(acc, n, minimum)
    PROVE  LiquidInv'
<1> DEFINE m == acc.pool_mint
           signers == {acc.owner, SeedSigner(acc.amm)}
           side(d) == IF d = "AtoB" THEN acc.swap_token_a ELSE acc.swap_token_b
<1>1. /\ acc.source \in TokenAccounts /\ acc.destination \in TokenAccounts
      /\ acc.swap_token_a \in TokenAccounts /\ acc.swap_token_b \in TokenAccounts
      /\ acc.owner \in Users /\ bal \in Balances /\ acc.amm \in Pools
  BY DEF DepositSingleAccounts, TypeOK
<1>2. PICK d \in SideOf(acc.source, acc.swap_token_a, acc.swap_token_b) :
        /\ DepositSingleAccountsHold(acc, d)
        /\ \E minted :
             /\ CanTransfer(bal, acc.source, side(d), n, acc.owner, {acc.owner})
             /\ CanMintTo(Transfer(bal, acc.source, side(d), n), supply[m], acc.destination,
                          minted, m, Authority(acc.amm), signers)
             /\ bal' = MintTo(Transfer(bal, acc.source, side(d), n), acc.destination, minted)
             /\ supply' = [supply EXCEPT ![m] = supply[m] + minted]
  BY DEF DepositSingle
<1>3. PICK minted :
        /\ CanTransfer(bal, acc.source, side(d), n, acc.owner, {acc.owner})
        /\ CanMintTo(Transfer(bal, acc.source, side(d), n), supply[m], acc.destination, minted,
                     m, Authority(acc.amm), signers)
        /\ bal' = MintTo(Transfer(bal, acc.source, side(d), n), acc.destination, minted)
        /\ supply' = [supply EXCEPT ![m] = supply[m] + minted]
  BY <1>2
<1>4. side(d) \in TokenAccounts
  BY <1>1
<1> HIDE DEF side
<1> DEFINE paid == Transfer(bal, acc.source, side(d), n)
<1>5. paid \in Balances /\ minted \in U64
  BY <1>1, <1>3, <1>4, TransferType DEF CanMintTo
<1>6. ASSUME NEW p \in Pools, NEW v \in {Vault0(p), Vault1(p)}, bal[v] > 0
      PROVE  bal'[v] > 0
  <2>1. v \in TokenAccounts /\ v # acc.source
    BY <1>1, <1>3, VaultFacts DEF CanTransfer
  <2>2. paid[v] >= bal[v]
    BY <1>1, <1>3, <1>4, <2>1, TransferKeeps
  <2>3. bal'[v] >= paid[v]
    BY <1>1, <1>3, <1>5, <2>1, MintToKeeps
  <2>4. bal' \in Balances
    BY DepositSingleType DEF TypeOK
  <2>5. bal[v] \in Int /\ paid[v] \in Int /\ bal'[v] \in Int
    <3> HIDE DEF paid
    <3> QED BY <1>1, <1>5, <2>1, <2>4, U64Assumption DEF Balances, U64
  <2> HIDE DEF paid
  <2> QED BY <1>6, <2>2, <2>3, <2>5
<1>7. Live(acc.amm) /\ m = amm[acc.amm].pool_mint
  BY <1>2 DEF DepositSingleAccountsHold, DepositSingleConstraints, CheckAccounts, Live
<1>8. \A p \in Pools : Supply(p)' > 0 => Live(p)
  BY <1>1, <1>3, <1>7, MintsForALivePool
<1>9. UNCHANGED amm
  BY DEF DepositSingle
<1> QED BY <1>6, <1>8, <1>9, GentleStep

\* A trade never empties the reserve it takes from.
LEMMA CurveSwapLeavesSome ==
    ASSUME NEW n, NEW source \in Nat, NEW destination \in Nat, NEW fees,
           NEW r \in CurveSwap(n, source, destination, fees)
    PROVE  r.destination_amount_swapped \in 1 .. destination - 1
<1>1. PICK amount : \E s \in SwapWithoutFees(amount, source, destination) :
                      r.destination_amount_swapped = s.destination_amount_swapped
  BY DEF CurveSwap
<1> QED BY <1>1, SwapWithoutFeesKeepsProduct

\* swap takes from one vault, and leaves some
LEMMA SwapKeepsLiquid ==
    ASSUME TypeOK, LockInv, LiquidInv, NEW acc \in SwapAccounts, NEW n, NEW minimum,
           Swap(acc, n, minimum)
    PROVE  LiquidInv'
<1> DEFINE m == acc.pool_mint
           signers == {acc.owner, SeedSigner(acc.amm)}
           authority == Authority(acc.amm)
           paid(r) == Transfer(bal, acc.vault_source_info, acc.swap_source,
                               r.source_amount_swapped)
           hosted(r, k) == IF k.host = 0 THEN paid(r)
                           ELSE MintTo(paid(r), acc.host_fee_account, k.host)
           minted(r, k, t) == IF t = 0 THEN hosted(r, k)
                              ELSE MintTo(hosted(r, k), acc.fee_account, k.owner)
<1>1. /\ acc.vault_source_info \in TokenAccounts /\ acc.vault_destination_info \in TokenAccounts
      /\ acc.swap_source \in TokenAccounts /\ acc.swap_destination \in TokenAccounts
      /\ acc.fee_account \in TokenAccounts
      /\ acc.host_fee_account # NoHost => acc.host_fee_account \in TokenAccounts
      /\ acc.owner \in Users /\ acc.amm \in Pools /\ bal \in Balances
  BY DEF SwapAccounts, TypeOK
<1>2. PICK r, t, k :
        /\ r \in CurveSwap(n, bal[acc.swap_source], bal[acc.swap_destination],
                           amm[acc.amm].fees)
        /\ k \in FeeMints(acc, t)
        /\ CanTransfer(bal, acc.vault_source_info, acc.swap_source, r.source_amount_swapped,
                       acc.owner, signers)
        /\ k.host # 0 => CanMintTo(paid(r), supply[m], acc.host_fee_account, k.host, m,
                                   authority, signers)
        /\ t # 0 => CanMintTo(hosted(r, k), supply[m] + k.host, acc.fee_account, k.owner, m,
                              authority, signers)
        /\ bal' = Transfer(minted(r, k, t), acc.swap_destination, acc.vault_destination_info,
                           r.destination_amount_swapped)
        /\ supply' = [supply EXCEPT ![m] = supply[m] + k.host + k.owner]
  BY ZenonT(60) DEF Swap
<1>3. (k.host # 0 => k.host \in U64) /\ (t # 0 => k.owner \in U64)
  BY <1>2 DEF CanMintTo
<1>4. k.host # 0 => acc.host_fee_account \in TokenAccounts
  BY <1>1, <1>2 DEF FeeMints, Some
<1>5. r.destination_amount_swapped \in 1 .. bal[acc.swap_destination] - 1
  BY <1>1, <1>2, CurveSwapLeavesSome DEF Balances, U64
<1>6. /\ amm[acc.amm].is_initialized /\ m = amm[acc.amm].pool_mint
      /\ acc.swap_destination # acc.vault_destination_info
  BY DEF Swap, SwapAccountsHold
<1>7. ASSUME NEW v \in TokenAccounts, v # acc.vault_source_info
      PROVE  /\ minted(r, k, t)[v] \in Int /\ minted(r, k, t)[v] >= bal[v]
             /\ minted(r, k, t) \in [TokenAccounts -> Int]
  <2>1. paid(r) \in Balances
    BY <1>1, <1>2, TransferType
  <2>2. paid(r)[v] >= bal[v]
    BY <1>1, <1>2, <1>7, TransferKeeps
  <2>3. hosted(r, k) \in [TokenAccounts -> Int] /\ hosted(r, k)[v] >= paid(r)[v]
    <3> HIDE DEF paid
    <3> QED BY <1>3, <1>4, <2>1, U64Assumption DEF MintTo, Balances, U64
  <2>4. minted(r, k, t) \in [TokenAccounts -> Int] /\ minted(r, k, t)[v] >= hosted(r, k)[v]
    <3> HIDE DEF hosted
    <3> QED BY <1>1, <1>3, <2>3, U64Assumption DEF MintTo, U64
  <2>5. /\ bal[v] \in Int /\ paid(r)[v] \in Int /\ hosted(r, k)[v] \in Int
        /\ minted(r, k, t)[v] \in Int
    <3> HIDE DEF paid, hosted, minted
    <3> QED BY <1>1, <2>1, <2>3, <2>4, U64Assumption DEF Balances, U64
  <2> HIDE DEF paid, hosted, minted
  <2> QED BY <2>2, <2>3, <2>4, <2>5
<1>8. ASSUME NEW p \in Pools, NEW v \in {Vault0(p), Vault1(p)}, bal[v] > 0
      PROVE  bal'[v] > 0
  <2>1. v \in TokenAccounts /\ v # acc.vault_source_info
    BY <1>1, <1>2, VaultFacts DEF CanTransfer
  <2> DEFINE w == minted(r, k, t)
             out == r.destination_amount_swapped
  <2>2. w \in [TokenAccounts -> Int] /\ w[v] >= bal[v] /\ bal[v] \in Int
    BY <1>1, <1>7, <2>1, U64Assumption DEF Balances, U64
  <2>3. bal' = Transfer(w, acc.swap_destination, acc.vault_destination_info, out)
    BY <1>2
  <2> HIDE DEF w
  <2>4. CASE v = acc.swap_destination
    <3>1. bal'[v] = w[v] - out
      BY <1>1, <1>5, <1>6, <2>1, <2>2, <2>3, <2>4 DEF Transfer
    <3> QED BY <1>5, <2>1, <2>2, <2>4, <3>1
  <2>5. CASE v # acc.swap_destination
    BY <1>1, <1>5, <1>8, <2>1, <2>2, <2>3, <2>5 DEF Transfer
  <2> QED BY <2>4, <2>5
<1>9. \A p \in Pools : Supply(p)' > 0 => Live(p)
  BY <1>1, <1>2, <1>6, MintsForALivePool DEF Live
<1>10. UNCHANGED amm
  BY DEF Swap
<1> QED BY <1>8, <1>9, <1>10, GentleStep

-----------------------------------------------------------------------------
\* the induction step of StaysLiquid
LEMMA NextLiquid ==
    ASSUME AccountLists.withdraw_all = {}, AccountLists.withdraw_single = {}
    PROVE  TypeOK /\ LockInv /\ LiquidInv /\ [Next]_vars => LiquidInv'
<1> SUFFICES ASSUME TypeOK, LockInv, LiquidInv, [Next]_vars PROVE LiquidInv'
  OBVIOUS
<1> USE ClientAssumption
<1>1. CASE AnInitPool
  <2>1. ASSUME NEW mint PROVE OpeningBalances(mint) \subseteq U64
    BY U64Assumption DEF OpeningBalances, U64
  <2> QED BY <1>1, <2>1, InitPoolKeepsLiquid DEF AnInitPool
<1>2. CASE ASwap
  BY <1>2, SwapKeepsLiquid DEF ASwap
<1>3. CASE ADepositAll
  BY <1>3, DepositAllKeepsLiquid DEF ADepositAll
<1>4. CASE ADepositSingle
  BY <1>4, DepositSingleKeepsLiquid DEF ADepositSingle
<1>5. CASE AWithdrawAll \/ AWithdrawSingle
  BY <1>5 DEF AWithdrawAll, AWithdrawSingle
<1>6. CASE AUserTransfer
  BY <1>6, UserTransferKeepsLiquid DEF AUserTransfer
<1>7. CASE UNCHANGED vars
  BY <1>7 DEF vars, LiquidInv, Live, Supply
<1> QED BY <1>1, <1>2, <1>3, <1>4, <1>5, <1>6, <1>7 DEF Next

\* As long as nobody withdraws, in every build and for all fees, amounts and
\* reserves: neither reserve of a pool with pool tokens is ever empty.
THEOREM StaysLiquid ==
    ASSUME AccountLists.withdraw_all = {}, AccountLists.withdraw_single = {}
    PROVE  Spec => []LiquidityTwoSided
<1>1. Init => LiquidInv
  <2>1. ASSUME Init, NEW p \in Pools PROVE Supply(p) = 0 /\ ~Live(p)
    BY <2>1 DEF Init, Supply, Live, NoAmm, PoolMints
  <2> QED BY <2>1 DEF LiquidInv
<1>2. Init => LockInv
  BY DEF Init, LockInv, Live, NoAmm
<1>3. LiquidInv => LiquidityTwoSided
  BY DEF LiquidInv, LiquidityTwoSided
<1>4. TypeOK /\ LockInv /\ LiquidInv /\ [Next]_vars => LiquidInv'
  BY NextLiquid
<1> QED BY <1>1, <1>2, <1>3, <1>4, InitType, NextType, NextLock, PTL DEF Spec

-----------------------------------------------------------------------------
(* The refinement.                                                          *)

\* What the theorem is about: withdraw_all pays side B its own amount, nobody
\* deposits or withdraws a single token, and trades pay no owner fee, which
\* would be converted by the formula of a single-sided withdrawal.
BothTokensOnly ==
    /\ \A build \in Builds : "side_b" \in build
    /\ AccountLists.deposit_single = {} /\ AccountLists.withdraw_single = {}
    /\ \A fees \in FeeSchedules : fees.owner_trade_fee.numerator = 0

-----------------------------------------------------------------------------
(* Arithmetic.                                                              *)

\* If each reserve grows at least like the supply, a pool token keeps its worth.
LEMMA GrowthKeepsWorth ==
    ASSUME NEW a \in Nat, NEW b \in Nat, NEW a2 \in Nat, NEW b2 \in Nat,
           NEW s \in Nat, NEW t \in Nat, a2 * s >= a * t, b2 * s >= b * t
    PROVE  (a2 * b2) * s * s >= (a * b) * t * t
<1>1. /\ a2 * s \in Nat /\ b2 * s \in Nat /\ a * t \in Nat /\ b * t \in Nat
  OBVIOUS
<1>2. (a2 * s) * (b2 * s) >= (a * t) * (b * t)
  BY <1>1, ProductsGrow
<1>3. (a2 * s) * (b2 * s) = (a2 * b2) * s * s
  BY SMT
<1>4. (a * t) * (b * t) = (a * b) * t * t
  BY SMT
<1> QED BY <1>2, <1>3, <1>4

-----------------------------------------------------------------------------
(* What the token program leaves in the vaults.                             *)

\* a transfer between two accounts changes those two
LEMMA TransferAmounts ==
    ASSUME NEW b \in Balances, NEW from \in TokenAccounts, NEW to \in TokenAccounts,
           from # to, NEW n \in Int
    PROVE  /\ Transfer(b, from, to, n)[from] = b[from] - n
           /\ Transfer(b, from, to, n)[to] = b[to] + n
           /\ \A v \in TokenAccounts \ {from, to} : Transfer(b, from, to, n)[v] = b[v]
BY U64Assumption DEF Transfer, Balances, U64

\* what an account that does not pay receives
LEMMA TransferInto ==
    ASSUME NEW b \in Balances, NEW from \in TokenAccounts, NEW to \in TokenAccounts,
           NEW v \in TokenAccounts, v # from, NEW n \in Int
    PROVE  Transfer(b, from, to, n)[v] = b[v] + (IF v = to THEN n ELSE 0)
<1>1. CASE v = to
  BY <1>1, TransferAmounts
<1>2. CASE v # to
  <2>1. b[v] \in Int
    BY U64Assumption DEF Balances, U64
  <2> QED BY <1>2, <2>1 DEF Transfer, Balances
<1> QED BY <1>1, <1>2

\* what an account that is not paid gives
LEMMA TransferOutOf ==
    ASSUME NEW b \in Balances, NEW from \in TokenAccounts, NEW to \in TokenAccounts,
           NEW v \in TokenAccounts, v # to, NEW n \in Int
    PROVE  Transfer(b, from, to, n)[v] = b[v] - (IF v = from THEN n ELSE 0)
<1>1. CASE v = from
  BY <1>1, TransferAmounts
<1>2. CASE v # from
  <2>1. b[v] \in Int
    BY U64Assumption DEF Balances, U64
  <2> QED BY <1>2, <2>1 DEF Transfer, Balances
<1> QED BY <1>1, <1>2

\* an account that does not get the minted tokens
LEMMA MintToElsewhere ==
    ASSUME NEW b \in Balances, NEW to, NEW n, NEW v \in TokenAccounts, v # to
    PROVE  MintTo(b, to, n)[v] = b[v]
BY DEF MintTo, Balances

\* an account whose tokens are not burnt
LEMMA BurnElsewhere ==
    ASSUME NEW b \in Balances, NEW from, NEW n, NEW v \in TokenAccounts, v # from
    PROVE  Burn(b, from, n)[v] = b[v]
BY DEF Burn, Balances

\* the vaults of pools: distinct token accounts that no user owns
LEMMA VaultsAreApart ==
    ASSUME NEW p \in Pools, NEW q \in Pools
    PROVE  /\ Vault0(p) \in TokenAccounts /\ Vault1(p) \in TokenAccounts
           /\ Vault0(p).owner \notin Users /\ Vault1(p).owner \notin Users
           /\ Vault0(p) # Vault1(q)
           /\ p # q => Vault0(p) # Vault0(q) /\ Vault1(p) # Vault1(q)
<1>1. Vault0(p) # Vault1(q)
  BY DEF Vault0, Vault1, TokenAccount
<1> QED BY <1>1, VaultFacts, PoolsHaveTheirOwnVaults

\* what an instruction on p leaves to the other pools
OthersUntouched(p) ==
    \A q \in Pools \ {p} :
      bal'[Vault0(q)] = bal[Vault0(q)] /\ bal'[Vault1(q)] = bal[Vault1(q)]

\* an instruction changes the supply of its own pool's mint
LEMMA OneSupply ==
    ASSUME TypeOK, NEW p \in Pools, NEW n, supply' = [supply EXCEPT ![PoolMint(p)] = n]
    PROVE  Supply(p)' = n /\ \A q \in Pools \ {p} : Supply(q)' = Supply(q)
<1>1. \A q \in Pools : PoolMint(q) \in PoolMints
  BY DEF PoolMints
<1> QED BY <1>1, MintsDiffer DEF TypeOK, Supply

\* reserves and shares are natural numbers
LEMMA ReservesAreNatural ==
    ASSUME TypeOK, NEW p \in Pools
    PROVE  bal[Vault0(p)] \in U64 /\ bal[Vault1(p)] \in U64 /\ Supply(p) \in U64
BY VaultsAreApart DEF TypeOK, Balances, Supply, PoolMints

\* a step on one pool is a step of SharePool
LEMMA PoolStep ==
    ASSUME TypeOK', NEW p \in Pools, OthersUntouched(p),
           \A q \in Pools \ {p} : Supply(q)' = Supply(q),
           Pool!Open(p) \/ Pool!Join(p) \/ Pool!Leave(p) \/ Pool!Trade(p) \/ Pool!Gift(p)
    PROVE  Pool!Next
<1>1. ASSUME NEW q \in Pools
      PROVE  bal'[Vault0(q)] \in Nat /\ bal'[Vault1(q)] \in Nat /\ Supply(q)' \in Nat
  <2>1. PoolMint(q) \in PoolMints /\ Vault0(q) \in TokenAccounts /\ Vault1(q) \in TokenAccounts
    BY VaultsAreApart DEF PoolMints
  <2> QED BY <2>1, U64Assumption DEF TypeOK, Balances, Supply, U64
<1>2. /\ [q \in Pools |-> bal[Vault0(q)]]' \in [Pools -> Nat]
      /\ [q \in Pools |-> bal[Vault1(q)]]' \in [Pools -> Nat]
      /\ [q \in Pools |-> Supply(q)]' \in [Pools -> Nat]
  BY <1>1
<1>3. \A q \in Pools \ {p} : Pool!Untouched(q)
  BY DEF OthersUntouched, Pool!Untouched
<1> QED BY <1>2, <1>3 DEF Pool!Next

-----------------------------------------------------------------------------
(* One lemma per instruction.                                               *)

\* init_pool opens its pool
LEMMA InitPoolOpens ==
    ASSUME TypeOK, TypeOK', NEW p \in Pools, NEW payer \in Users, NEW fees, NEW curve_type,
           NEW amount0 \in U64, NEW amount1 \in U64,
           InitPool(p, payer, fees, curve_type, amount0, amount1)
    PROVE  Pool!Next
<1> DEFINE b0 == [bal EXCEPT ![Vault0(p)] = amount0, ![Vault1(p)] = amount1]
           w  == Wallet(payer, PoolMint(p))
<1>1. w \in TokenAccounts
  BY AccountsOfAPool
<1>2. \A q \in Pools : Vault0(q) # w /\ Vault1(q) # w
  BY DEF Wallet, Vault0, Vault1, TokenAccount
<1>3. b0 \in Balances /\ bal' = MintTo(b0, w, NewPoolSupply)
  BY VaultsAreApart DEF TypeOK, Balances, InitPool
<1>4. ASSUME NEW q \in Pools
      PROVE  bal'[Vault0(q)] = b0[Vault0(q)] /\ bal'[Vault1(q)] = b0[Vault1(q)]
  <2> HIDE DEF b0, w
  <2> QED BY <1>1, <1>2, <1>3, MintToElsewhere, VaultsAreApart
<1>5. b0[Vault0(p)] = amount0 /\ b0[Vault1(p)] = amount1
  BY VaultsAreApart DEF TypeOK, Balances
<1>6. OthersUntouched(p)
  <2>1. ASSUME NEW q \in Pools \ {p}
        PROVE  b0[Vault0(q)] = bal[Vault0(q)] /\ b0[Vault1(q)] = bal[Vault1(q)]
    BY VaultsAreApart DEF TypeOK, Balances
  <2> QED BY <1>4, <2>1 DEF OthersUntouched
<1>7. Supply(p)' = NewPoolSupply /\ \A q \in Pools \ {p} : Supply(q)' = Supply(q)
  BY OneSupply DEF InitPool
<1>8. Pool!Open(p)
  <2>1. amount0 > 0 /\ amount1 > 0 /\ NewPoolSupply > 0 /\ Supply(p) = 0
    BY U64Assumption, InitialAmountAssumption
       DEF InitPool, ValidateSupply, U64, NewPoolSupply, Supply
  <2> QED BY <1>4, <1>5, <1>7, <2>1 DEF Pool!Open
<1> QED BY <1>6, <1>7, <1>8, PoolStep

\* a payment from outside is a gift to a pool, or nothing to any
LEMMA UserTransferGives ==
    ASSUME TypeOK, TypeOK', NEW u \in Users, NEW from \in TokenAccounts,
           NEW to \in TokenAccounts, NEW amount, UserTransfer(u, from, to, amount)
    PROVE  Pool!Next \/ UNCHANGED Pool!vars
<1>1. /\ from # to /\ amount \in Nat /\ bal \in Balances /\ from.owner \in Users
      /\ bal' = Transfer(bal, from, to, amount)
  BY U64Assumption DEF UserTransfer, CanTransfer, TypeOK, U64
<1>2. ASSUME NEW q \in Pools, NEW v \in {Vault0(q), Vault1(q)}
      PROVE  /\ v # to => bal'[v] = bal[v]
             /\ bal[v] \in Nat /\ bal'[v] >= bal[v]
  <2>1. v \in TokenAccounts /\ v # from
    BY <1>1, VaultsAreApart
  <2>2. bal[v] \in Nat
    BY <2>1, U64Assumption DEF TypeOK, Balances, U64
  <2>3. CASE v = to
    BY <1>1, <2>1, <2>2, <2>3, TransferAmounts
  <2>4. CASE v # to
    BY <1>1, <2>1, <2>2, <2>4, TransferAmounts
  <2> QED BY <2>2, <2>3, <2>4
<1>3. \A q \in Pools : Supply(q)' = Supply(q)
  BY DEF UserTransfer, Supply
<1>4. CASE \E p \in Pools : to \in {Vault0(p), Vault1(p)}
  <2>1. PICK p \in Pools : to \in {Vault0(p), Vault1(p)}
    BY <1>4
  <2>2. OthersUntouched(p)
    BY <1>2, <2>1, VaultsAreApart DEF OthersUntouched
  <2>3. Pool!Gift(p)
    BY <1>2, <1>3 DEF Pool!Gift, Pool!ReservesGrow
  <2> QED BY <1>3, <2>2, <2>3, PoolStep
<1>5. CASE \A p \in Pools : to \notin {Vault0(p), Vault1(p)}
  <2>1. \A q \in Pools : bal'[Vault0(q)] = bal[Vault0(q)] /\ bal'[Vault1(q)] = bal[Vault1(q)]
    BY <1>2, <1>5
  <2> QED BY <1>3, <2>1 DEF Pool!vars
<1> QED BY <1>4, <1>5

\* check_accounts accepts only the pool's own vaults and mint
LEMMA CheckedAccounts ==
    ASSUME LockInv, NEW p \in Pools, Live(p), NEW token_a, NEW token_b, NEW pool_mint,
           NEW user_a, NEW user_b, NEW fee_accounts,
           CheckAccounts(p, token_a, token_b, pool_mint, user_a, user_b, fee_accounts)
    PROVE  /\ token_a = Vault0(p) /\ token_b = Vault1(p) /\ pool_mint = PoolMint(p)
           /\ \A f \in fee_accounts : \E u \in Users : f = FeeAccount(p, u)
<1>1. PICK payer \in Users, fees \in FeeSchedules : amm[p] = NewAmm(p, payer, fees)
  BY DEF LockInv
<1> QED BY <1>1 DEF CheckAccounts, NewAmm

\* deposit_all opens the pool again or joins it
LEMMA DepositAllJoins ==
    ASSUME TypeOK, TypeOK', LockInv, NEW acc \in DepositAllAccounts, NEW n \in U64, NEW max_a,
           NEW max_b, DepositAll(acc, n, max_a, max_b)
    PROVE  Pool!Next
<1> DEFINE p == acc.amm
           minted == IF Supply(p) = 0 THEN NewPoolSupply ELSE n
           before == IF Supply(p) = 0 THEN NewPoolSupply ELSE Supply(p)
           paid_a(r) == Transfer(bal, acc.source_a_info, Vault0(p), r.token_a_amount)
           paid_b(r) == Transfer(paid_a(r), acc.source_b_info, Vault1(p), r.token_b_amount)
           signers == {acc.owner, SeedSigner(p)}
<1>1. /\ p \in Pools /\ acc.owner \in Users
      /\ acc.source_a_info \in TokenAccounts /\ acc.source_b_info \in TokenAccounts
      /\ bal \in Balances
  BY DEF DepositAllAccounts, TypeOK
<1>2. /\ Live(p) /\ acc.destination.owner = acc.owner
      /\ acc.vault_token_a = Vault0(p) /\ acc.vault_token_b = Vault1(p)
      /\ acc.pool_mint = PoolMint(p)
  <2>1. Live(p) /\ acc.destination.owner = acc.owner
    BY DEF DepositAll, DepositAllAccountsHold, DepositAllConstraints, Live
  <2>2. CheckAccounts(p, acc.vault_token_a, acc.vault_token_b, acc.pool_mint,
                      {acc.source_a_info}, {acc.source_b_info}, {})
    BY DEF DepositAll, DepositAllAccountsHold
  <2> QED BY <1>1, <2>1, <2>2, CheckedAccounts
<1>3. PICK r \in PoolTokensToTradingTokens(minted, before, bal[Vault0(p)], bal[Vault1(p)],
                                           "Ceiling") :
        /\ r.token_a_amount > 0 /\ r.token_b_amount > 0
        /\ CanTransfer(bal, acc.source_a_info, Vault0(p), r.token_a_amount, acc.owner, signers)
        /\ CanTransfer(paid_a(r), acc.source_b_info, Vault1(p), r.token_b_amount, acc.owner,
                       signers)
        /\ bal' = MintTo(paid_b(r), acc.destination, minted)
        /\ supply' = [supply EXCEPT ![PoolMint(p)] = Supply(p) + minted]
  BY <1>2 DEF DepositAll, Supply
<1> DEFINE a == bal[Vault0(p)]
           b == bal[Vault1(p)]
           da == r.token_a_amount
           db == r.token_b_amount
<1>4. /\ da \in TradingTokens(minted, before, a, "Ceiling")
      /\ db \in TradingTokens(minted, before, b, "Ceiling")
  BY DEF PoolTokensToTradingTokens
<1>5. a \in Nat /\ b \in Nat /\ Supply(p) \in Nat /\ minted \in Nat /\ before \in Nat
  BY <1>1, ReservesAreNatural, U64Assumption, InitialAmountAssumption DEF NewPoolSupply, U64
<1>6. /\ before > 0 /\ da \in Nat /\ db \in Nat
      /\ da * before >= minted * a /\ db * before >= minted * b
  <2> HIDE DEF before, minted, a, b, da, db
  <2> QED BY <1>3, <1>4, <1>5, CeilingCovers DEF da, db
<1>7. /\ bal'[Vault0(p)] = a + da /\ bal'[Vault1(p)] = b + db
      /\ OthersUntouched(p)
  <2>1. /\ acc.source_a_info.owner \in Users /\ acc.source_b_info.owner \in Users
    BY <1>1, <1>3 DEF CanTransfer
  <2>2. paid_a(r) \in Balances
    BY <1>1, <1>3, VaultsAreApart, TransferType
  <2>3. paid_b(r) \in Balances
    BY <1>1, <1>3, <2>2, VaultsAreApart, TransferType
  <2>4. ASSUME NEW q \in Pools, NEW v \in {Vault0(q), Vault1(q)}
        PROVE  bal'[v] = bal[v] + (IF v = Vault0(p) THEN da ELSE 0)
                                + (IF v = Vault1(p) THEN db ELSE 0)
    <3>1. /\ v \in TokenAccounts /\ v # acc.source_a_info /\ v # acc.source_b_info
          /\ v # acc.destination
      BY <1>1, <1>2, <2>1, VaultsAreApart
    <3>2. bal'[v] = paid_b(r)[v]
      <4> HIDE DEF paid_b, minted
      <4> QED BY <1>3, <2>3, <3>1, MintToElsewhere
    <3>3. bal[v] \in Nat /\ Vault0(p) # Vault1(p)
      BY <1>1, <3>1, U64Assumption, VaultsAreApart DEF Balances, U64
    <3>4. paid_a(r)[v] = bal[v] + (IF v = Vault0(p) THEN da ELSE 0)
      <4> HIDE DEF da
      <4> QED BY <1>1, <1>6, <3>1, VaultsAreApart, TransferInto DEF da
    <3>5. paid_b(r)[v] = paid_a(r)[v] + (IF v = Vault1(p) THEN db ELSE 0)
      <4> HIDE DEF paid_a
      <4> QED BY <1>1, <1>6, <2>2, <3>1, VaultsAreApart, TransferInto
    <3> QED BY <3>2, <3>4, <3>5
  <2>5. Vault0(p) # Vault1(p)
    BY <1>1, VaultsAreApart
  <2>6. bal'[Vault0(p)] = a + da /\ bal'[Vault1(p)] = b + db
    BY <1>1, <1>5, <1>6, <2>4, <2>5
  <2>7. OthersUntouched(p)
    <3>1. ASSUME NEW q \in Pools \ {p}, NEW v \in {Vault0(q), Vault1(q)} PROVE bal'[v] = bal[v]
      <4>1. v # Vault0(p) /\ v # Vault1(p)
        BY <1>1, VaultsAreApart
      <4>2. bal[v] \in Int
        BY <1>1, VaultsAreApart, U64Assumption DEF Balances, U64
      <4> QED BY <2>4, <4>1, <4>2
    <3> QED BY <3>1 DEF OthersUntouched
  <2> QED BY <2>6, <2>7
<1>8. Supply(p)' = Supply(p) + minted /\ \A q \in Pools \ {p} : Supply(q)' = Supply(q)
  <2> HIDE DEF minted
  <2> QED BY <1>1, <1>3, OneSupply
<1> HIDE DEF p, a, b, da, db
<1>9. CASE Supply(p) = 0
  <2>1. minted > 0
    BY <1>9, U64Assumption, InitialAmountAssumption DEF NewPoolSupply, U64
  <2>2. Pool!Open(p)
    BY <1>1, <1>3, <1>5, <1>6, <1>7, <1>8, <1>9, <2>1 DEF Pool!Open, da, db
  <2> QED BY <1>1, <1>7, <1>8, <2>2, PoolStep
<1>10. CASE Supply(p) # 0
  <2>1. before = Supply(p)
    BY <1>10
  <2> HIDE DEF before, minted
  <2>2. minted > 0
    <3>1. CASE minted = 0
      <4>1. da \in TradingTokens(0, before, a, "Ceiling") /\ da > 0
        BY <1>3, <1>4, <3>1 DEF da
      <4>2. \A k \in CheckedDiv(0 * a, before) : k = 0
        BY <1>5, <1>6 DEF CheckedDiv, Some, None
      <4>3. da = 0
        BY <1>5, <4>1, <4>2 DEF TradingTokens, Checked, Some, None
      <4> QED BY <4>1, <4>3
    <3> QED BY <1>5, <3>1
  <2>3. /\ (a + da) * Supply(p) >= a * (Supply(p) + minted)
        /\ (b + db) * Supply(p) >= b * (Supply(p) + minted)
    BY <1>5, <1>6, <2>1, SMT
  <2>4. ((a + da) * (b + db)) * Supply(p) * Supply(p)
          >= (a * b) * (Supply(p) + minted) * (Supply(p) + minted)
    BY <1>5, <1>6, <2>3, GrowthKeepsWorth
  <2>5. Pool!KeepsWorth(p, Supply(p), Supply(p)')
    BY <1>1, <1>7, <1>8, <2>4 DEF Pool!KeepsWorth, Pool!Product, a, b
  <2>6. Pool!ReservesGrow(p)
    BY <1>1, <1>5, <1>6, <1>7 DEF Pool!ReservesGrow, a, b
  <2>7. Pool!Join(p)
    BY <1>1, <1>5, <1>8, <1>10, <2>2, <2>5, <2>6 DEF Pool!Join
  <2> QED BY <1>1, <1>7, <1>8, <2>7, PoolStep
<1> QED BY <1>9, <1>10

\* the smaller of two amounts
LEMMA AtMostIsWithin ==
    ASSUME NEW x \in Nat, NEW y \in Nat
    PROVE  AtMost(x, y) \in Nat /\ AtMost(x, y) <= x /\ AtMost(x, y) <= y
BY DEF AtMost

\* A payment within the share keeps the worth of what stays.
LEMMA ShareLeavesTheRest ==
    ASSUME NEW x \in Nat, NEW s \in Nat, NEW k \in Nat, NEW q \in Nat, q * s <= k * x,
           NEW paid \in Nat, paid <= q, paid <= x, k <= s
    PROVE  x - paid \in Nat /\ (x - paid) * s >= x * (s - k)
<1>1. paid * s <= q * s
  BY ProductsGrow
<1>2. (x - paid) * s = x * s - paid * s /\ x * (s - k) = x * s - k * x
  BY SMT
<1>3. paid * s \in Nat /\ q * s \in Nat /\ k * x \in Nat /\ x * s \in Nat
  OBVIOUS
<1> QED BY <1>1, <1>2, <1>3

\* withdraw_all leaves the pool
LEMMA WithdrawAllLeaves ==
    ASSUME TypeOK, TypeOK', LockInv, "side_b" \in repairs, NEW acc \in WithdrawAllAccounts,
           NEW n \in U64, NEW min_a, NEW min_b, WithdrawAll(acc, n, min_a, min_b)
    PROVE  Pool!Next
<1> DEFINE p == acc.amm
           signers == {acc.owner, SeedSigner(p)}
           a == bal[Vault0(p)]
           b == bal[Vault1(p)]
           out_a(r) == AtMost(a, r.token_a_amount)
           out_b(r) == AtMost(b, r.token_b_amount)
           charged(f) == IF f = 0 THEN bal ELSE Transfer(bal, acc.source_info, acc.fee_account, f)
           burned(f) == Burn(charged(f), acc.source_info, n - f)
           paid_a(f, r) == IF out_a(r) = 0 THEN burned(f)
                           ELSE Transfer(burned(f), Vault0(p), acc.dest_token_a_info, out_a(r))
           paid_b(f, r) == IF out_b(r) = 0 THEN paid_a(f, r)
                           ELSE Transfer(paid_a(f, r), Vault1(p), acc.dest_token_b_info, out_b(r))
<1>1. /\ p \in Pools /\ acc.owner \in Users
      /\ acc.source_info \in TokenAccounts /\ acc.fee_account \in TokenAccounts
      /\ acc.dest_token_a_info \in TokenAccounts /\ acc.dest_token_b_info \in TokenAccounts
      /\ bal \in Balances
  BY DEF WithdrawAllAccounts, TypeOK
<1>2. /\ Live(p)
      /\ acc.dest_token_a_info.owner = acc.owner /\ acc.dest_token_b_info.owner = acc.owner
      /\ acc.vault_token_a = Vault0(p) /\ acc.vault_token_b = Vault1(p)
      /\ acc.pool_mint = PoolMint(p)
      /\ \E u \in Users : acc.fee_account = FeeAccount(p, u)
  <2>1. /\ Live(p)
        /\ acc.dest_token_a_info.owner = acc.owner /\ acc.dest_token_b_info.owner = acc.owner
    BY DEF WithdrawAll, WithdrawAllAccountsHold, WithdrawAllConstraints, Live
  <2>2. CheckAccounts(p, acc.vault_token_a, acc.vault_token_b, acc.pool_mint,
                      {acc.dest_token_a_info}, {acc.dest_token_b_info}, {acc.fee_account})
    BY DEF WithdrawAll, WithdrawAllAccountsHold
  <2> QED BY <1>1, <2>1, <2>2, CheckedAccounts
<1>3. PICK f \in WithdrawFee(acc, acc.source_info, n) :
      \E r \in PoolTokensToTradingTokens(n - f, Supply(p), a, b, "Floor") :
        /\ f <= n
        /\ f # 0 => CanTransfer(bal, acc.source_info, acc.fee_account, f, acc.owner, {acc.owner})
        /\ CanBurn(charged(f), Supply(p), acc.source_info, n - f, PoolMint(p), acc.owner,
                   {acc.owner})
        /\ out_a(r) # 0 => CanTransfer(burned(f), Vault0(p), acc.dest_token_a_info, out_a(r),
                                       Authority(p), signers)
        /\ out_b(r) # 0 => CanTransfer(paid_a(f, r), Vault1(p), acc.dest_token_b_info,
                                       out_b(r), Authority(p), signers)
        /\ bal' = paid_b(f, r)
        /\ supply' = [supply EXCEPT ![PoolMint(p)] = Supply(p) - (n - f)]
  <2> DEFINE m == acc.pool_mint
             va == acc.vault_token_a
             vb == acc.vault_token_b
             x(r) == AtMost(bal[va], r.token_a_amount)
             y(r) == AtMost(bal[vb], r.token_b_amount)
             after_a(f, r) == IF x(r) = 0 THEN burned(f)
                              ELSE Transfer(burned(f), va, acc.dest_token_a_info, x(r))
  <2>1. \E f \in WithdrawFee(acc, acc.source_info, n) :
        \E r \in PoolTokensToTradingTokens(n - f, supply[m], bal[va], bal[vb], "Floor") :
          LET c == SideBPayment(x(r), y(r))
          IN  /\ f <= n
              /\ f # 0 => CanTransfer(bal, acc.source_info, acc.fee_account, f, acc.owner,
                                      {acc.owner})
              /\ CanBurn(charged(f), supply[m], acc.source_info, n - f, m, acc.owner,
                         {acc.owner})
              /\ x(r) # 0 => CanTransfer(burned(f), va, acc.dest_token_a_info, x(r),
                                         Authority(p), signers)
              /\ y(r) # 0 => CanTransfer(after_a(f, r), vb, acc.dest_token_b_info, c,
                                         Authority(p), signers)
              /\ bal' = IF y(r) = 0 THEN after_a(f, r)
                        ELSE Transfer(after_a(f, r), vb, acc.dest_token_b_info, c)
              /\ supply' = [supply EXCEPT ![m] = supply[m] - (n - f)]
    BY ZenonT(60) DEF WithdrawAll
  <2>2. \A x1, y1 : SideBPayment(x1, y1) = y1
    BY DEF SideBPayment
  <2>3. va = Vault0(p) /\ vb = Vault1(p) /\ m = PoolMint(p) /\ supply[m] = Supply(p)
    BY <1>2 DEF Supply
  <2>4. a = bal[va] /\ b = bal[vb] /\ \A r : x(r) = out_a(r) /\ y(r) = out_b(r)
    BY <2>3
  <2>5. \A f, r : after_a(f, r) = paid_a(f, r)
    <3> HIDE DEF burned, x, out_a
    <3> QED BY <2>3, <2>4
  <2>6. PICK f \in WithdrawFee(acc, acc.source_info, n) :
        \E r \in PoolTokensToTradingTokens(n - f, supply[m], bal[va], bal[vb], "Floor") :
          /\ f <= n
          /\ f # 0 => CanTransfer(bal, acc.source_info, acc.fee_account, f, acc.owner,
                                  {acc.owner})
          /\ CanBurn(charged(f), supply[m], acc.source_info, n - f, m, acc.owner, {acc.owner})
          /\ x(r) # 0 => CanTransfer(burned(f), va, acc.dest_token_a_info, x(r),
                                     Authority(p), signers)
          /\ y(r) # 0 => CanTransfer(after_a(f, r), vb, acc.dest_token_b_info, y(r),
                                     Authority(p), signers)
          /\ bal' = IF y(r) = 0 THEN after_a(f, r)
                    ELSE Transfer(after_a(f, r), vb, acc.dest_token_b_info, y(r))
          /\ supply' = [supply EXCEPT ![m] = supply[m] - (n - f)]
    <3> HIDE DEF charged, burned, after_a, x, y
    <3> QED BY <2>1, <2>2
  <2>7. PICK r \in PoolTokensToTradingTokens(n - f, supply[m], bal[va], bal[vb], "Floor") :
          /\ f <= n
          /\ f # 0 => CanTransfer(bal, acc.source_info, acc.fee_account, f, acc.owner,
                                  {acc.owner})
          /\ CanBurn(charged(f), supply[m], acc.source_info, n - f, m, acc.owner, {acc.owner})
          /\ x(r) # 0 => CanTransfer(burned(f), va, acc.dest_token_a_info, x(r),
                                     Authority(p), signers)
          /\ y(r) # 0 => CanTransfer(after_a(f, r), vb, acc.dest_token_b_info, y(r),
                                     Authority(p), signers)
          /\ bal' = IF y(r) = 0 THEN after_a(f, r)
                    ELSE Transfer(after_a(f, r), vb, acc.dest_token_b_info, y(r))
          /\ supply' = [supply EXCEPT ![m] = supply[m] - (n - f)]
    BY <2>6
  <2>8. bal' = paid_b(f, r)
    <3> HIDE DEF after_a, paid_a, x, y, out_a, out_b
    <3> QED BY <2>3, <2>4, <2>5, <2>7
  <2> HIDE DEF charged, burned, after_a, paid_a, paid_b, x, y, out_a, out_b, a, b, va, vb, m,
               signers
  <2> QED BY <2>3, <2>4, <2>5, <2>7, <2>8
<1>4. PICK r \in PoolTokensToTradingTokens(n - f, Supply(p), a, b, "Floor") :
        /\ f <= n
        /\ f # 0 => CanTransfer(bal, acc.source_info, acc.fee_account, f, acc.owner, {acc.owner})
        /\ CanBurn(charged(f), Supply(p), acc.source_info, n - f, PoolMint(p), acc.owner,
                   {acc.owner})
        /\ out_a(r) # 0 => CanTransfer(burned(f), Vault0(p), acc.dest_token_a_info, out_a(r),
                                       Authority(p), signers)
        /\ out_b(r) # 0 => CanTransfer(paid_a(f, r), Vault1(p), acc.dest_token_b_info,
                                       out_b(r), Authority(p), signers)
        /\ bal' = paid_b(f, r)
        /\ supply' = [supply EXCEPT ![PoolMint(p)] = Supply(p) - (n - f)]
  BY <1>3
<1> DEFINE k == n - f
           ta == out_a(r)
           tb == out_b(r)
<1>5. a \in Nat /\ b \in Nat /\ Supply(p) \in Nat /\ n \in Nat
  BY <1>1, ReservesAreNatural, U64Assumption DEF U64
<1>6. f \in Nat
  <2>1. amm[p].fees \in CurveFees
    <3>1. PICK u \in Users, fees \in FeeSchedules : amm[p] = NewAmm(p, u, fees)
      BY <1>1, <1>2 DEF LockInv
    <3> QED BY <3>1, ClientAssumption DEF NewAmm
  <2>2. CASE f = 0
    BY <2>2
  <2>3. CASE f # 0
    BY <2>1, <2>3, FeesAreNatural DEF WithdrawFee, Some
  <2> QED BY <2>2, <2>3
<1>7. k \in Nat /\ k <= Supply(p)
  BY <1>4, <1>5, <1>6 DEF CanBurn
<1>8. /\ r.token_a_amount \in TradingTokens(k, Supply(p), a, "Floor")
      /\ r.token_b_amount \in TradingTokens(k, Supply(p), b, "Floor")
  BY DEF PoolTokensToTradingTokens
<1>9. /\ Supply(p) > 0
      /\ r.token_a_amount \in Nat /\ r.token_a_amount * Supply(p) <= k * a
      /\ r.token_b_amount \in Nat /\ r.token_b_amount * Supply(p) <= k * b
  <2> HIDE DEF k, a, b
  <2> QED BY <1>5, <1>7, <1>8, FloorWithin
<1>10. /\ ta \in Nat /\ ta <= a /\ ta <= r.token_a_amount
       /\ tb \in Nat /\ tb <= b /\ tb <= r.token_b_amount
  <2> HIDE DEF a, b
  <2> QED BY <1>5, <1>9, AtMostIsWithin
<1>11. /\ bal'[Vault0(p)] = a - ta /\ bal'[Vault1(p)] = b - tb
       /\ OthersUntouched(p)
  <2>1. acc.source_info.owner \in Users
    BY <1>1, <1>4 DEF CanBurn
  <2>2. charged(f) \in Balances
    BY <1>1, <1>4, TransferType
  <2>3. burned(f) \in Balances
    <3> HIDE DEF charged
    <3>1. Supply(p) \in U64
      BY <1>1, ReservesAreNatural
    <3> QED BY <1>1, <1>4, <2>2, <3>1, BurnType
  <2>4. paid_a(f, r) \in Balances
    <3> HIDE DEF burned, out_a
    <3> QED BY <1>1, <1>4, <2>3, VaultsAreApart, TransferType
  <2>5. ASSUME NEW q \in Pools, NEW v \in {Vault0(q), Vault1(q)}
        PROVE  /\ bal[v] \in Int
               /\ bal'[v] = bal[v] - (IF v = Vault0(p) THEN ta ELSE 0)
                                   - (IF v = Vault1(p) THEN tb ELSE 0)
    <3>1. /\ v \in TokenAccounts /\ v # acc.source_info
          /\ v # acc.dest_token_a_info /\ v # acc.dest_token_b_info
      BY <1>1, <1>2, <2>1, VaultsAreApart
    <3>2. v # acc.fee_account
      BY <1>2 DEF Vault0, Vault1, FeeAccount, TokenAccount
    <3>3. bal[v] \in Int /\ burned(f)[v] \in Int /\ paid_a(f, r)[v] \in Int
      BY <1>1, <2>3, <2>4, <3>1, U64Assumption DEF Balances, U64
    <3>4. charged(f)[v] = bal[v]
      BY <1>1, <1>6, <3>1, <3>2, <3>3, TransferInto
    <3>5. burned(f)[v] = bal[v]
      <4> HIDE DEF charged
      <4> QED BY <2>2, <3>1, <3>4, BurnElsewhere
    <3>6. paid_a(f, r)[v] = burned(f)[v] - (IF v = Vault0(p) THEN ta ELSE 0)
      <4>1. CASE ta = 0
        BY <3>3, <4>1
      <4>2. CASE ta # 0
        <5>1. paid_a(f, r) = Transfer(burned(f), Vault0(p), acc.dest_token_a_info, ta)
          BY <4>2
        <5>2. /\ Vault0(p) \in TokenAccounts /\ acc.dest_token_a_info \in TokenAccounts
              /\ ta \in Int
          BY <1>1, <1>10, VaultsAreApart
        <5> HIDE DEF p, k, a, b, ta, tb, paid_a, paid_b, burned, charged, out_a, out_b, signers
        <5> QED BY <2>3, <3>1, <5>1, <5>2, TransferOutOf
      <4> QED BY <4>1, <4>2
    <3>7. bal'[v] = paid_a(f, r)[v] - (IF v = Vault1(p) THEN tb ELSE 0)
      <4>1. CASE tb = 0
        <5>1. bal' = paid_a(f, r)
          BY <1>4, <4>1
        <5> HIDE DEF paid_a, tb
        <5> QED BY <3>3, <4>1, <5>1
      <4>2. CASE tb # 0
        <5>1. bal' = Transfer(paid_a(f, r), Vault1(p), acc.dest_token_b_info, tb)
          BY <1>4, <4>2
        <5>2. /\ Vault1(p) \in TokenAccounts /\ acc.dest_token_b_info \in TokenAccounts
              /\ tb \in Int
          BY <1>1, <1>10, VaultsAreApart
        <5> HIDE DEF p, k, a, b, ta, tb, paid_a, paid_b, burned, charged, out_a, out_b, signers
        <5> QED BY <2>4, <3>1, <5>1, <5>2, TransferOutOf
      <4> QED BY <4>1, <4>2
    <3> HIDE DEF ta, tb, paid_a, burned
    <3> QED BY <3>3, <3>5, <3>6, <3>7
  <2>6. Vault0(p) # Vault1(p)
    BY <1>1, VaultsAreApart
  <2> HIDE DEF ta, tb
  <2>7. bal'[Vault0(p)] = a - ta /\ bal'[Vault1(p)] = b - tb
    BY <1>1, <1>5, <1>10, <2>5, <2>6
  <2>8. ASSUME NEW q \in Pools \ {p}, NEW v \in {Vault0(q), Vault1(q)} PROVE bal'[v] = bal[v]
    <3>1. v # Vault0(p) /\ v # Vault1(p)
      BY <1>1, VaultsAreApart
    <3> QED BY <2>5, <3>1
  <2> QED BY <2>7, <2>8 DEF OthersUntouched
<1>12. Supply(p)' = Supply(p) - k /\ \A q \in Pools \ {p} : Supply(q)' = Supply(q)
  BY <1>1, <1>4, OneSupply
<1> HIDE DEF p, a, b, k, ta, tb
<1>13. CASE k = 0
  <2>1. ASSUME NEW x \in Nat, NEW q \in TradingTokens(0, Supply(p), x, "Floor") PROVE q = 0
    <3>1. \A d \in CheckedDiv(0 * x, Supply(p)) : d = 0
      BY <1>5, <1>9 DEF CheckedDiv, Some, None
    <3> QED BY <3>1, <2>1 DEF TradingTokens, Checked, Some, None
  <2>2. ta = 0 /\ tb = 0
    BY <1>5, <1>8, <1>9, <1>10, <1>13, <2>1
  <2>3. Pool!Gift(p)
    BY <1>1, <1>5, <1>11, <1>12, <1>13, <2>2 DEF Pool!Gift, Pool!ReservesGrow, a, b
  <2> QED BY <1>1, <1>11, <1>12, <2>3, PoolStep
<1>14. CASE k # 0
  <2>1. /\ a - ta \in Nat /\ (a - ta) * Supply(p) >= a * (Supply(p) - k)
        /\ b - tb \in Nat /\ (b - tb) * Supply(p) >= b * (Supply(p) - k)
    BY <1>5, <1>7, <1>9, <1>10, ShareLeavesTheRest
  <2>2. Supply(p) - k \in Nat
    BY <1>5, <1>7
  <2>3. ((a - ta) * (b - tb)) * Supply(p) * Supply(p)
          >= (a * b) * (Supply(p) - k) * (Supply(p) - k)
    BY <1>5, <2>1, <2>2, GrowthKeepsWorth
  <2>4. Pool!KeepsWorth(p, Supply(p), Supply(p)')
    BY <1>1, <1>11, <1>12, <2>3 DEF Pool!KeepsWorth, Pool!Product, a, b
  <2>5. Pool!ReservesFall(p)
    BY <1>1, <1>5, <1>10, <1>11 DEF Pool!ReservesFall, a, b
  <2>6. Pool!Leave(p)
    BY <1>1, <1>5, <1>7, <1>12, <1>14, <2>4, <2>5 DEF Pool!Leave
  <2> QED BY <1>1, <1>11, <1>12, <2>6, PoolStep
<1> QED BY <1>13, <1>14

\* the curve with its fees: the pool gets at least what the trade needs
LEMMA CurveSwapKeepsProduct ==
    ASSUME NEW n \in U64, NEW source \in Nat, NEW destination \in Nat, NEW fees \in CurveFees,
           NEW r \in CurveSwap(n, source, destination, fees)
    PROVE  /\ r.source_amount_swapped \in Nat
           /\ r.destination_amount_swapped \in 1 .. destination - 1
           /\ (source + r.source_amount_swapped) * (destination - r.destination_amount_swapped)
                >= source * destination
           /\ fees.owner_trade_fee.numerator = 0 => r.owner_fee = 0
<1>1. PICK t \in TradingFee(fees, n), o \in OwnerTradingFee(fees, n) :
        \E s \in SwapWithoutFees(n - (t + o), source, destination) :
          /\ r.source_amount_swapped = s.source_amount_swapped + (t + o)
          /\ r.destination_amount_swapped = s.destination_amount_swapped
          /\ r.owner_fee = o
  BY DEF CurveSwap
<1>2. PICK s \in SwapWithoutFees(n - (t + o), source, destination) :
        /\ r.source_amount_swapped = s.source_amount_swapped + (t + o)
        /\ r.destination_amount_swapped = s.destination_amount_swapped
        /\ r.owner_fee = o
  BY <1>1
<1>3. t \in Nat /\ o \in Nat
  BY FeesAreNatural
<1>4. /\ s.source_amount_swapped \in Nat
      /\ s.destination_amount_swapped \in 1 .. destination - 1
      /\ (source + s.source_amount_swapped) * (destination - s.destination_amount_swapped)
           >= source * destination
  BY SwapWithoutFeesKeepsProduct
<1> DEFINE x == source + s.source_amount_swapped
           y == destination - s.destination_amount_swapped
           z == source + r.source_amount_swapped
<1>5. x \in Nat /\ y \in Nat /\ z \in Nat /\ z >= x
  BY <1>2, <1>3, <1>4
<1>6. z * y >= x * y /\ x * y >= source * destination
  <2> HIDE DEF x, y, z
  <2>1. z * y >= x * y
    BY <1>5, ProductsGrow
  <2> QED BY <1>4, <2>1 DEF x, y
<1>7. z * y >= source * destination
  <2>1. z * y \in Int /\ x * y \in Int /\ source * destination \in Int
    <3> HIDE DEF x, y, z
    <3> QED BY <1>5
  <2> HIDE DEF x, y, z
  <2> QED BY <1>6, <2>1
<1>8. fees.owner_trade_fee.numerator = 0 => r.owner_fee = 0
  BY <1>2 DEF OwnerTradingFee, CalculateFee, Some
<1> QED BY <1>2, <1>3, <1>4, <1>7, <1>8

\* a trade without owner fee mints nothing
LEMMA NoOwnerFeeNoMint ==
    ASSUME NEW acc, NEW r, r.owner_fee = 0
    PROVE  OwnerFeePoolTokens(acc, r) = {0}
BY DEF OwnerFeePoolTokens, CurveWithdrawSingle, Some

\* swap without owner fee trades with its pool
LEMMA SwapTrades ==
    ASSUME TypeOK, TypeOK', LockInv, BothTokensOnly, NEW acc \in SwapAccounts, NEW n \in U64,
           NEW minimum, Swap(acc, n, minimum)
    PROVE  Pool!Next
<1> DEFINE p == acc.amm
           signers == {acc.owner, SeedSigner(p)}
           src == acc.swap_source
           dst == acc.swap_destination
           paid(r) == Transfer(bal, acc.vault_source_info, src, r.source_amount_swapped)
<1>1. /\ p \in Pools /\ acc.owner \in Users /\ bal \in Balances
      /\ src \in TokenAccounts /\ dst \in TokenAccounts
      /\ acc.vault_source_info \in TokenAccounts /\ acc.vault_destination_info \in TokenAccounts
  BY DEF SwapAccounts, TypeOK
<1>2. /\ Live(p) /\ src # dst /\ acc.pool_mint = PoolMint(p)
      /\ src \in {Vault0(p), Vault1(p)} /\ dst \in {Vault0(p), Vault1(p)}
      /\ acc.vault_source_info.owner = acc.owner /\ acc.vault_destination_info.owner = acc.owner
      /\ amm[p].fees \in CurveFees /\ amm[p].fees.owner_trade_fee.numerator = 0
  <2>1. SwapAccountsHold(acc) /\ Live(p)
    BY DEF Swap, SwapAccountsHold, Live
  <2>2. PICK u \in Users, fees \in FeeSchedules : amm[p] = NewAmm(p, u, fees)
    BY <1>1, <2>1 DEF LockInv
  <2>3. "swap_roles" \in repairs
    BY SwapNeeds
  <2>4. fees \in CurveFees /\ fees.owner_trade_fee.numerator = 0
    BY ClientAssumption DEF BothTokensOnly
  <2> QED BY <2>1, <2>2, <2>3, <2>4 DEF SwapAccountsHold, SwapOwnersHold, NewAmm
<1>3. PICK r \in CurveSwap(n, bal[src], bal[dst], amm[p].fees) :
        /\ CanTransfer(bal, acc.vault_source_info, src, r.source_amount_swapped, acc.owner,
                       signers)
        /\ bal' = Transfer(paid(r), dst, acc.vault_destination_info,
                           r.destination_amount_swapped)
        /\ supply' = [supply EXCEPT ![PoolMint(p)] = Supply(p)]
  <2>1. PICK r \in CurveSwap(n, bal[src], bal[dst], amm[p].fees) :
          \E t \in OwnerFeePoolTokens(acc, r) : \E k \in FeeMints(acc, t) :
            /\ CanTransfer(bal, acc.vault_source_info, src, r.source_amount_swapped, acc.owner,
                           signers)
            /\ LET hosted == IF k.host = 0 THEN paid(r)
                             ELSE MintTo(paid(r), acc.host_fee_account, k.host)
                   minted == IF t = 0 THEN hosted ELSE MintTo(hosted, acc.fee_account, k.owner)
               IN  bal' = Transfer(minted, dst, acc.vault_destination_info,
                                   r.destination_amount_swapped)
            /\ supply' = [supply EXCEPT ![acc.pool_mint] = supply[acc.pool_mint] + k.host + k.owner]
    BY ZenonT(60) DEF Swap
  <2>2. r.owner_fee = 0
    <3>1. bal[src] \in Nat /\ bal[dst] \in Nat
      BY <1>1, U64Assumption DEF Balances, U64
    <3> QED BY <1>2, <3>1, CurveSwapKeepsProduct
  <2>3. PICK k \in FeeMints(acc, 0) :
            /\ CanTransfer(bal, acc.vault_source_info, src, r.source_amount_swapped, acc.owner,
                           signers)
            /\ LET hosted == IF k.host = 0 THEN paid(r)
                             ELSE MintTo(paid(r), acc.host_fee_account, k.host)
               IN  bal' = Transfer(hosted, dst, acc.vault_destination_info,
                                   r.destination_amount_swapped)
            /\ supply' = [supply EXCEPT ![acc.pool_mint] = supply[acc.pool_mint] + k.host + k.owner]
    <3>1. OwnerFeePoolTokens(acc, r) = {0}
      BY <2>2, NoOwnerFeeNoMint
    <3> HIDE DEF paid
    <3>2. PICK t \in OwnerFeePoolTokens(acc, r) : \E k \in FeeMints(acc, t) :
            /\ CanTransfer(bal, acc.vault_source_info, src, r.source_amount_swapped, acc.owner,
                           signers)
            /\ LET hosted == IF k.host = 0 THEN paid(r)
                             ELSE MintTo(paid(r), acc.host_fee_account, k.host)
                   minted == IF t = 0 THEN hosted ELSE MintTo(hosted, acc.fee_account, k.owner)
               IN  bal' = Transfer(minted, dst, acc.vault_destination_info,
                                   r.destination_amount_swapped)
            /\ supply' = [supply EXCEPT ![acc.pool_mint] = supply[acc.pool_mint] + k.host + k.owner]
      BY <2>1
    <3>3. t = 0
      BY <3>1
    <3> QED BY <3>2, <3>3
  <2>4. k.host = 0 /\ k.owner = 0
    BY DEF FeeMints, Some
  <2>5. supply[acc.pool_mint] = Supply(p) /\ Supply(p) \in Int
    BY <1>1, <1>2, ReservesAreNatural, U64Assumption DEF Supply, U64
  <2>6. bal' = Transfer(paid(r), dst, acc.vault_destination_info, r.destination_amount_swapped)
    BY <2>3, <2>4
  <2>7. supply[acc.pool_mint] + k.host + k.owner = Supply(p)
    BY <2>4, <2>5
  <2> HIDE DEF paid
  <2> QED BY <1>2, <2>3, <2>6, <2>7
<1> DEFINE in  == r.source_amount_swapped
           out == r.destination_amount_swapped
<1>4. /\ bal[src] \in Nat /\ bal[dst] \in Nat
      /\ in \in Nat /\ out \in 1 .. bal[dst] - 1
      /\ (bal[src] + in) * (bal[dst] - out) >= bal[src] * bal[dst]
  <2>1. bal[src] \in Nat /\ bal[dst] \in Nat
    BY <1>1, U64Assumption DEF Balances, U64
  <2> QED BY <1>2, <2>1, CurveSwapKeepsProduct
<1>5. ASSUME NEW q \in Pools, NEW v \in {Vault0(q), Vault1(q)}
      PROVE  /\ bal[v] \in Int
             /\ bal'[v] = bal[v] + (IF v = src THEN in ELSE 0) - (IF v = dst THEN out ELSE 0)
  <2>1. v \in TokenAccounts /\ v # acc.vault_source_info /\ v # acc.vault_destination_info
    BY <1>1, <1>2, VaultsAreApart
  <2>2. paid(r) \in Balances
    BY <1>1, <1>3, TransferType
  <2>3. in \in Int /\ out \in Int
    BY <1>4
  <2>4. paid(r)[v] = bal[v] + (IF v = src THEN in ELSE 0)
    <3> HIDE DEF in, src
    <3> QED BY <1>1, <2>1, <2>3, TransferInto DEF in
  <2>5. bal'[v] = paid(r)[v] - (IF v = dst THEN out ELSE 0)
    <3>1. bal' = Transfer(paid(r), dst, acc.vault_destination_info, out)
      BY <1>3
    <3>2. dst \in TokenAccounts /\ acc.vault_destination_info \in TokenAccounts
      BY <1>1
    <3> HIDE DEF paid, in, out, src, dst, p, signers
    <3> QED BY <2>1, <2>2, <2>3, <3>1, <3>2, TransferOutOf
  <2>6. bal[v] \in Int
    BY <1>1, <2>1, U64Assumption DEF Balances, U64
  <2> HIDE DEF paid, in, out, src, dst
  <2> QED BY <2>3, <2>4, <2>5, <2>6
<1> HIDE DEF in, out
<1>6. bal'[src] = bal[src] + in /\ bal'[dst] = bal[dst] - out
  <2>1. /\ bal'[src] = bal[src] + (IF src = src THEN in ELSE 0) - (IF src = dst THEN out ELSE 0)
        /\ bal'[dst] = bal[dst] + (IF dst = src THEN in ELSE 0) - (IF dst = dst THEN out ELSE 0)
    <3> HIDE DEF src, dst, p
    <3> QED BY <1>1, <1>2, <1>5
  <2> HIDE DEF src, dst
  <2> QED BY <1>2, <1>4, <2>1
<1>7. OthersUntouched(p)
  <2>1. ASSUME NEW q \in Pools \ {p}, NEW v \in {Vault0(q), Vault1(q)} PROVE bal'[v] = bal[v]
    <3>1. v # src /\ v # dst
      BY <1>1, <1>2, VaultsAreApart
    <3> QED BY <1>5, <3>1
  <2> QED BY <2>1 DEF OthersUntouched
<1>8. \A q \in Pools : Supply(q)' = Supply(q)
  <2>1. Supply(p)' = Supply(p) /\ \A q \in Pools \ {p} : Supply(q)' = Supply(q)
    BY <1>1, <1>3, OneSupply
  <2> QED BY <2>1
<1> HIDE DEF p, src, dst
<1>9. bal'[src] * bal'[dst] >= bal[src] * bal[dst] /\ bal'[dst] < bal[dst]
  BY <1>4, <1>6
<1>10. bal'[Vault0(p)] * bal'[Vault1(p)] >= bal[Vault0(p)] * bal[Vault1(p)]
  <2>1. CASE src = Vault0(p)
    BY <1>2, <1>9, <2>1
  <2>2. CASE src = Vault1(p)
    <3>1. dst = Vault0(p)
      BY <1>2, <2>2
    <3>2. /\ bal'[src] * bal'[dst] = bal'[dst] * bal'[src]
          /\ bal[src] * bal[dst] = bal[dst] * bal[src]
      BY <1>4, <1>6, SMT
    <3> QED BY <1>9, <2>2, <3>1, <3>2
  <2> QED BY <1>2, <2>1, <2>2
<1>11. Pool!Trade(p)
  <2>1. ~Pool!ReservesGrow(p)
    BY <1>1, <1>2, <1>4, <1>6, <1>9 DEF Pool!ReservesGrow
  <2> QED BY <1>1, <1>8, <1>10, <2>1 DEF Pool!Trade, Pool!Product
<1> QED BY <1>1, <1>7, <1>8, <1>11, PoolStep

-----------------------------------------------------------------------------
\* every step is one of SharePool, or moves no reserve and no share
LEMMA NextRefines ==
    ASSUME BothTokensOnly
    PROVE  TypeOK /\ TypeOK' /\ LockInv /\ [Next]_vars => Pool!Next \/ UNCHANGED Pool!vars
<1> SUFFICES ASSUME TypeOK, TypeOK', LockInv, [Next]_vars
             PROVE  Pool!Next \/ UNCHANGED Pool!vars
  OBVIOUS
<1> USE ClientAssumption
<1>1. CASE AnInitPool
  <2>1. ASSUME NEW mint PROVE OpeningBalances(mint) \subseteq U64
    BY U64Assumption DEF OpeningBalances, U64
  <2> QED BY <1>1, <2>1, InitPoolOpens DEF AnInitPool
<1>2. CASE ASwap
  BY <1>2, SwapTrades DEF ASwap
<1>3. CASE ADepositAll
  BY <1>3, DepositAllJoins DEF ADepositAll
<1>4. CASE AWithdrawAll
  <2>1. "side_b" \in repairs
    BY DEF BothTokensOnly, TypeOK
  <2>2. ASSUME NEW acc \in AccountLists.withdraw_all PROVE bal[acc.source_info] \in U64
    BY DEF TypeOK, Balances, WithdrawAllAccounts
  <2> QED BY <1>4, <2>1, <2>2, WithdrawAllLeaves DEF AWithdrawAll
<1>5. CASE ADepositSingle \/ AWithdrawSingle
  BY <1>5 DEF ADepositSingle, AWithdrawSingle, BothTokensOnly
<1>6. CASE AUserTransfer
  BY <1>6, UserTransferGives DEF AUserTransfer
<1>7. CASE UNCHANGED vars
  BY <1>7 DEF vars, Pool!vars, Supply
<1> QED BY <1>1, <1>2, <1>3, <1>4, <1>5, <1>6, <1>7 DEF Next

\* With side B repaired, for any number of pools, users, mints and accounts, all
\* amounts and all integer widths: deposit_all, withdraw_all, and swap without
\* an owner fee implement SharePool, whatever is paid in from outside.
THEOREM Refines ==
    ASSUME BothTokensOnly
    PROVE  Spec => ImplementsSharePool
<1>1. Init => LockInv
  BY DEF Init, LockInv, Live, NoAmm
<1>2. Init => Pool!Init
  <2> SUFFICES ASSUME Init, NEW p \in Pools
               PROVE  bal[Vault0(p)] = 0 /\ bal[Vault1(p)] = 0 /\ Supply(p) = 0
    BY DEF Pool!Init
  <2>1. Vault0(p).kind # "wallet" /\ Vault1(p).kind # "wallet" /\ PoolMint(p) \in PoolMints
    BY DEF Vault0, Vault1, TokenAccount, PoolMints
  <2> QED BY <2>1, VaultsAreApart DEF Init, Supply
<1>3. TypeOK /\ TypeOK' /\ LockInv /\ [Next]_vars => [Pool!Next]_(Pool!vars)
  BY NextRefines
<1> QED BY <1>1, <1>2, <1>3, InitType, NextType, NextLock, PTL
        DEF Spec, ImplementsSharePool, Pool!Spec

-----------------------------------------------------------------------------
(* What SharePool promises by itself holds of the pools.                    *)

PoolProofs == INSTANCE SharePoolProofs WITH
                  reserve_a <- [p \in Pools |-> bal[Vault0(p)]],
                  reserve_b <- [p \in Pools |-> bal[Vault1(p)]],
                  shares    <- [p \in Pools |-> Supply(p)]

\* both modules speak of the same steps
LEMMA SameSteps ==
    Pool!Next \/ UNCHANGED Pool!vars => PoolProofs!Next \/ UNCHANGED PoolProofs!vars
<1>1. UNCHANGED Pool!vars => UNCHANGED PoolProofs!vars
  BY DEF Pool!vars, PoolProofs!vars
<1>2. ASSUME NEW p \in Pools
      PROVE  /\ Pool!Open(p) => PoolProofs!Open(p)
             /\ Pool!Join(p) => PoolProofs!Join(p)
             /\ Pool!Leave(p) => PoolProofs!Leave(p)
             /\ Pool!Trade(p) => PoolProofs!Trade(p)
             /\ Pool!Gift(p) => PoolProofs!Gift(p)
             /\ Pool!Untouched(p) => PoolProofs!Untouched(p)
  BY DEF Pool!Open, PoolProofs!Open, Pool!Join, PoolProofs!Join, Pool!Leave, PoolProofs!Leave,
         Pool!Trade, PoolProofs!Trade, Pool!Gift, PoolProofs!Gift,
         Pool!Untouched, PoolProofs!Untouched, Pool!ReservesGrow, PoolProofs!ReservesGrow,
         Pool!ReservesFall, PoolProofs!ReservesFall, Pool!KeepsWorth, PoolProofs!KeepsWorth,
         Pool!Product, PoolProofs!Product
<1>3. Pool!Next => PoolProofs!Next
  BY <1>2 DEF Pool!Next, PoolProofs!Next
<1> QED BY <1>1, <1>3

\* the invariant of SharePool, read through the refinement
LEMMA BackedIsTwoSided ==
    ASSUME TypeOK
    PROVE  PoolProofs!BackedInv <=> LiquidityTwoSided
<1>1. \A p \in Pools :
        bal[Vault0(p)] \in Nat /\ bal[Vault1(p)] \in Nat /\ Supply(p) \in Nat
  BY ReservesAreNatural, U64Assumption DEF U64
<1>2. PoolProofs!Naturals3
  BY <1>1 DEF PoolProofs!Naturals3
<1> QED BY <1>2 DEF PoolProofs!BackedInv, PoolProofs!SharesAreBacked, LiquidityTwoSided

\* Withdrawals of both tokens included: a pool whose tokens are not all burnt
\* keeps both reserves, in every build that pays side B its own amount.
THEOREM StaysLiquidAsProvidersLeave ==
    ASSUME BothTokensOnly
    PROVE  Spec => []LiquidityTwoSided
<1>1. Init => LockInv /\ LiquidityTwoSided
  <2>1. ASSUME Init, NEW p \in Pools PROVE Supply(p) = 0
    BY <2>1 DEF Init, Supply, PoolMints
  <2> QED BY <2>1 DEF Init, LockInv, Live, NoAmm, LiquidityTwoSided
<1>2. TypeOK /\ TypeOK' /\ LockInv /\ LiquidityTwoSided /\ [Next]_vars => LiquidityTwoSided'
  <2> SUFFICES ASSUME TypeOK, TypeOK', LockInv, LiquidityTwoSided, [Next]_vars
               PROVE  LiquidityTwoSided'
    OBVIOUS
  <2>1. PoolProofs!Next \/ UNCHANGED PoolProofs!vars
    BY NextRefines, SameSteps
  <2>2. PoolProofs!BackedInv
    BY BackedIsTwoSided
  <2>3. PoolProofs!BackedInv'
    BY <2>1, <2>2, PoolProofs!NextBacked
  <2>4. (TypeOK => (PoolProofs!BackedInv <=> LiquidityTwoSided))'
    BY BackedIsTwoSided, PTL
  <2> QED BY <2>3, <2>4
<1> QED BY <1>1, <1>2, InitType, NextType, NextLock, PTL DEF Spec
=============================================================================

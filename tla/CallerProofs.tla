----------------------------- MODULE CallerProofs -----------------------------
(***************************************************************************)
(* What the callers of an instruction pay and receive, and what the pool    *)
(* tokens of everybody else are worth afterwards, for all mints, pools,     *)
(* users, accounts and amounts, single-sided instructions and all fees      *)
(* included.                                                                *)
(***************************************************************************)
EXTENDS RefinementProofs

\* withdraw_all pays side B the amount it computed for B
SideBRepaired == \A build \in Builds : "side_b" \in build

-----------------------------------------------------------------------------
(* What a call of the token program leaves in any one account.              *)

\* the part of n that account v gets when t gets n
At(v, t, n) == IF v = t THEN n ELSE 0

\* a transfer the token program accepts
LEMMA TransferEffect ==
    ASSUME NEW b \in Balances, NEW from \in TokenAccounts, NEW to \in TokenAccounts,
           NEW n, NEW authority, NEW signers,
           CanTransfer(b, from, to, n, authority, signers),
           NEW v \in TokenAccounts
    PROVE  /\ n \in Nat /\ from.mint = to.mint /\ from.owner = authority
           /\ Transfer(b, from, to, n) \in Balances
           /\ b[v] \in Int
           /\ Transfer(b, from, to, n)[v] = b[v] - At(v, from, n) + At(v, to, n)
<1>1. n \in Nat /\ from.mint = to.mint /\ from.owner = authority /\ b[v] \in Int
  BY U64Assumption DEF CanTransfer, U64, Balances
<1>2. Transfer(b, from, to, n) \in Balances
  BY TransferType
<1>3. Transfer(b, from, to, n)[v] = b[v] - At(v, from, n) + At(v, to, n)
  <2>1. CASE from = to
    BY <1>1, <2>1, U64Assumption DEF Transfer, At, Balances, U64
  <2>2. CASE from # to /\ v \in {from, to}
    BY <1>1, <2>2, TransferAmounts DEF At
  <2>3. CASE v \notin {from, to}
    <3>1. Transfer(b, from, to, n)[v] = b[v]
      BY <2>3 DEF Transfer, Balances
    <3> QED BY <1>1, <2>3, <3>1 DEF At
  <2> QED BY <2>1, <2>2, <2>3
<1> QED BY <1>1, <1>2, <1>3

\* a transfer that is made unless there is nothing to pay
LEMMA MaybeTransferEffect ==
    ASSUME NEW b \in Balances, NEW from \in TokenAccounts, NEW to \in TokenAccounts,
           NEW n, NEW authority, NEW signers,
           n # 0 => CanTransfer(b, from, to, n, authority, signers),
           NEW v \in TokenAccounts,
           NEW paid, paid = IF n = 0 THEN b ELSE Transfer(b, from, to, n)
    PROVE  /\ n \in Nat
           /\ n # 0 => from.mint = to.mint /\ from.owner = authority
           /\ paid \in Balances
           /\ b[v] \in Int
           /\ paid[v] = b[v] - At(v, from, n) + At(v, to, n)
<1>1. CASE n = 0
  BY <1>1, U64Assumption DEF At, Balances, U64
<1>2. CASE n # 0
  BY <1>2, TransferEffect
<1> QED BY <1>1, <1>2

\* minting
LEMMA MintToEffect ==
    ASSUME NEW b \in Balances, NEW to \in TokenAccounts, NEW s \in U64,
           NEW n, NEW mint, NEW authority, NEW signers,
           CanMintTo(b, s, to, n, mint, authority, signers),
           NEW v \in TokenAccounts
    PROVE  /\ n \in Nat /\ to.mint = mint
           /\ MintTo(b, to, n) \in Balances /\ s + n \in U64
           /\ b[v] \in Int
           /\ MintTo(b, to, n)[v] = b[v] + At(v, to, n)
<1>1. n \in Nat /\ to.mint = mint /\ b[v] \in Int
  BY U64Assumption DEF CanMintTo, U64, Balances
<1>2. MintTo(b, to, n) \in Balances /\ s + n \in U64
  BY MintToType
<1> QED BY <1>1, <1>2 DEF MintTo, At, Balances

\* burning
LEMMA BurnEffect ==
    ASSUME NEW b \in Balances, NEW from \in TokenAccounts, NEW s \in U64,
           NEW n, NEW mint, NEW authority, NEW signers,
           CanBurn(b, s, from, n, mint, authority, signers),
           NEW v \in TokenAccounts
    PROVE  /\ n \in Nat /\ n <= s /\ from.mint = mint /\ from.owner = authority
           /\ Burn(b, from, n) \in Balances
           /\ b[v] \in Int
           /\ Burn(b, from, n)[v] = b[v] - At(v, from, n)
<1>1. n \in Nat /\ n <= s /\ from.mint = mint /\ from.owner = authority /\ b[v] \in Int
  BY U64Assumption DEF CanBurn, U64, Balances
<1>2. Burn(b, from, n) \in Balances
  BY BurnType
<1> QED BY <1>1, <1>2 DEF Burn, At, Balances

-----------------------------------------------------------------------------
(* What an open pool was opened with.                                       *)

\* An open pool has two different mints, the account init_pool wrote, and, in
\* a production build, the owner and the fees that the constraints ask for.
OpenedInv ==
    \A p \in Pools : Live(p) =>
      /\ p[1] # p[2]
      /\ \E payer \in Users, fees \in FeeSchedules :
           /\ amm[p] = NewAmm(p, payer, fees)
           /\ \A c \in SWAP_CONSTRAINTS : payer = c.owner_key /\ ConstrainFees(fees, c.fees)

\* the induction step: only init_pool writes the account, and never again
LEMMA NextOpened == TypeOK /\ OpenedInv /\ [Next]_vars => OpenedInv'
<1> SUFFICES ASSUME TypeOK, OpenedInv, [Next]_vars PROVE OpenedInv'
  OBVIOUS
<1>1. CASE AnInitPool
  <2>1. PICK q \in Pools, payer \in Users, fees \in FeeSchedules, curve_type \in {0, 1} :
          \E amount0, amount1 : InitPool(q, payer, fees, curve_type, amount0, amount1)
    BY <1>1 DEF AnInitPool
  <2>2. /\ q[1] # q[2] /\ ConstraintsHold(payer, curve_type, fees)
        /\ amm' = [amm EXCEPT ![q] = NewAmm(q, payer, fees)]
    BY <2>1 DEF InitPool
  <2>3. \A c \in SWAP_CONSTRAINTS : payer = c.owner_key /\ ConstrainFees(fees, c.fees)
    BY <2>2 DEF ConstraintsHold
  <2> SUFFICES ASSUME NEW p \in Pools, Live(p)'
               PROVE  /\ p[1] # p[2]
                      /\ \E u \in Users, f \in FeeSchedules :
                           /\ amm'[p] = NewAmm(p, u, f)
                           /\ \A c \in SWAP_CONSTRAINTS :
                                u = c.owner_key /\ ConstrainFees(f, c.fees)
    BY DEF OpenedInv
  <2>4. CASE p = q
    <3>1. amm'[p] = NewAmm(p, payer, fees)
      BY <2>2, <2>4 DEF TypeOK
    <3> QED BY <2>2, <2>3, <2>4, <3>1
  <2>5. CASE p # q
    <3>1. amm'[p] = amm[p]
      BY <2>2, <2>5 DEF TypeOK
    <3> QED BY <3>1 DEF OpenedInv, Live
  <2> QED BY <2>4, <2>5
<1>2. CASE ASwap \/ ADepositAll \/ ADepositSingle \/ AWithdrawAll \/ AWithdrawSingle
             \/ AUserTransfer
  <2>1. UNCHANGED amm
    BY ZenonT(60), <1>2 DEF ASwap, ADepositAll, ADepositSingle, AWithdrawAll, AWithdrawSingle,
                AUserTransfer, Swap, DepositAll, DepositSingle, WithdrawAll, WithdrawSingle,
                UserTransfer
  <2> QED BY <2>1 DEF OpenedInv, Live
<1>3. CASE UNCHANGED vars
  BY <1>3 DEF vars, OpenedInv, Live
<1> QED BY <1>1, <1>2, <1>3 DEF Next

\* no pool is open at the start
LEMMA InitOpened == Init => OpenedInv
BY DEF Init, OpenedInv, Live, NoAmm

\* At least the numerators over the same denominators is at least the fees.
LEMMA OpenedMeetTheConstraints == OpenedInv => PoolsMeetTheConstraints
<1> SUFFICES ASSUME OpenedInv, NEW p \in Pools, NEW c \in SWAP_CONSTRAINTS, Live(p)
             PROVE  /\ amm[p].pool_fee_account.owner = c.owner_key
                    /\ \A n \in U64,
                          charge \in {"trade_fee", "owner_trade_fee", "owner_withdraw_fee"} :
                         \A fee \in CalculateFee(n, amm[p].fees[charge]) :
                           \A least \in CalculateFee(n, c.fees[charge]) : fee >= least
  BY DEF PoolsMeetTheConstraints
<1>1. PICK payer \in Users, fees \in FeeSchedules :
        amm[p] = NewAmm(p, payer, fees) /\ payer = c.owner_key /\ ConstrainFees(fees, c.fees)
  BY DEF OpenedInv
<1>2. amm[p].pool_fee_account.owner = c.owner_key /\ amm[p].fees = fees
  BY <1>1 DEF NewAmm, FeeAccount, TokenAccount
<1>3. fees \in CurveFees /\ c.fees \in CurveFees
  BY ClientAssumption DEF SwapConstraints
<1>4. ASSUME NEW n \in U64,
             NEW charge \in {"trade_fee", "owner_trade_fee", "owner_withdraw_fee"},
             NEW fee \in CalculateFee(n, fees[charge]),
             NEW least \in CalculateFee(n, c.fees[charge])
      PROVE  fee >= least
  <2>1. /\ fees[charge] \in Fraction /\ c.fees[charge] \in Fraction
        /\ AtLeastFraction(fees[charge], c.fees[charge])
    BY <1>1, <1>3 DEF ConstrainFees, CurveFees
  <2>2. n >= n
    BY U64Assumption DEF U64
  <2> QED BY <2>1, <2>2, FeesGrow
<1> QED BY <1>2, <1>4

\* In a production build every pool that ever opens charges at least the fees
\* demanded, for every amount, and pays them to the owner demanded.
THEOREM ProductionPoolsMeetTheConstraints == Spec => []PoolsMeetTheConstraints
BY InitType, NextType, InitOpened, NextOpened, OpenedMeetTheConstraints, PTL DEF Spec

-----------------------------------------------------------------------------
(* The accounts of an instruction on an open pool.                          *)

\* its vaults, its mint and its fee account hold different tokens
LEMMA OpenPoolAccounts ==
    ASSUME OpenedInv, NEW p \in Pools, Live(p)
    PROVE  /\ Vault0(p) \in TokenAccounts /\ Vault1(p) \in TokenAccounts
           /\ Vault0(p) # Vault1(p)
           /\ Vault0(p).owner = Authority(p) /\ Vault1(p).owner = Authority(p)
           /\ Vault0(p).mint = p[1] /\ Vault1(p).mint = p[2]
           /\ p[1] # p[2] /\ PoolMint(p) # p[1] /\ PoolMint(p) # p[2]
           /\ PoolMint(p) \in PoolMints
           /\ Authority(p) \notin Users
           /\ amm[p].pool_fee_account \in TokenAccounts
           /\ amm[p].pool_fee_account.mint = PoolMint(p)
           /\ amm[p].pool_fee_account.owner \in Users
           /\ amm[p].token_a_account = Vault0(p) /\ amm[p].token_b_account = Vault1(p)
           /\ amm[p].pool_mint = PoolMint(p)
           /\ amm[p].fees \in CurveFees
<1>1. PICK u \in Users, fees \in FeeSchedules : amm[p] = NewAmm(p, u, fees)
  BY DEF OpenedInv
<1>2. p[1] # p[2] /\ PoolMint(p) # p[1] /\ PoolMint(p) # p[2]
  BY DerivationAssumption DEF OpenedInv
<1>3. /\ FeeAccount(p, u) \in TokenAccounts
      /\ FeeAccount(p, u).mint = PoolMint(p) /\ FeeAccount(p, u).owner = u
  BY AccountsOfAPool DEF FeeAccount, TokenAccount
<1>4. /\ Vault0(p).owner = Authority(p) /\ Vault1(p).owner = Authority(p)
      /\ Vault0(p).mint = p[1] /\ Vault1(p).mint = p[2]
      /\ PoolMint(p) \in PoolMints
  BY DEF Vault0, Vault1, TokenAccount, PoolMints
<1> QED BY <1>1, <1>2, <1>3, <1>4, VaultsAreApart, UsersAssumption, ClientAssumption DEF NewAmm

-----------------------------------------------------------------------------
(* The limits of a caller.                                                  *)

\* deposit_all takes at most the maximum of each token and gives what was asked
LEMMA DepositAllLimits ==
    ASSUME TypeOK, OpenedInv, NEW acc \in DepositAllAccounts, NEW n \in U64,
           NEW max_a \in U64, NEW max_b \in U64, DepositAll(acc, n, max_a, max_b)
    PROVE  /\ Paid(acc.source_a_info) <= max_a /\ Paid(acc.source_b_info) <= max_b
           /\ Supply(acc.amm) > 0 => Received(acc.destination) = n
<1> DEFINE p == acc.amm
           sa == acc.source_a_info
           sb == acc.source_b_info
           dest == acc.destination
           minted == IF Supply(p) = 0 THEN NewPoolSupply ELSE n
           signers == {acc.owner, SeedSigner(p)}
           paid_a(x) == Transfer(bal, sa, Vault0(p), x)
           paid_b(x, y) == Transfer(paid_a(x), sb, Vault1(p), y)
<1>1. /\ p \in Pools /\ acc.owner \in Users
      /\ sa \in TokenAccounts /\ sb \in TokenAccounts /\ dest \in TokenAccounts
      /\ bal \in Balances
  BY DEF DepositAllAccounts, TypeOK
<1>2. Live(p) /\ dest.owner = acc.owner /\ dest.mint = acc.pool_mint
  BY DEF DepositAll, DepositAllAccountsHold, DepositAllConstraints, Live
<1>3. acc.vault_token_a = Vault0(p) /\ acc.vault_token_b = Vault1(p)
      /\ acc.pool_mint = PoolMint(p)
  BY <1>1, <1>2, OpenPoolAccounts DEF DepositAll, DepositAllAccountsHold, CheckAccounts
<1>4. PICK x \in 1 .. max_a, y \in 1 .. max_b :
        /\ CanTransfer(bal, sa, Vault0(p), x, acc.owner, signers)
        /\ CanTransfer(paid_a(x), sb, Vault1(p), y, acc.owner, signers)
        /\ CanMintTo(paid_b(x, y), Supply(p), dest, minted, PoolMint(p), Authority(p), signers)
        /\ bal' = MintTo(paid_b(x, y), dest, minted)
  BY <1>3 DEF DepositAll, Supply
<1>5. Supply(p) \in U64
  BY <1>1, ReservesAreNatural
<1>6. minted \in Int
  BY <1>4, U64Assumption DEF CanMintTo, U64
<1>7. sa.mint = p[1] /\ sb.mint = p[2] /\ sa.owner = acc.owner /\ sb.owner = acc.owner
  BY <1>1, <1>2, <1>4, OpenPoolAccounts DEF CanTransfer
<1>8. ASSUME NEW v \in TokenAccounts
      PROVE  /\ bal[v] \in Int
             /\ bal'[v] = bal[v] - At(v, sa, x) + At(v, Vault0(p), x)
                            - At(v, sb, y) + At(v, Vault1(p), y) + At(v, dest, minted)
  <2>1. Vault0(p) \in TokenAccounts /\ Vault1(p) \in TokenAccounts
    BY <1>1, <1>2, OpenPoolAccounts
  <2>2. /\ paid_a(x) \in Balances /\ bal[v] \in Int
        /\ paid_a(x)[v] = bal[v] - At(v, sa, x) + At(v, Vault0(p), x)
    BY <1>1, <1>4, <2>1, TransferEffect
  <2>3. /\ paid_b(x, y) \in Balances
        /\ paid_b(x, y)[v] = paid_a(x)[v] - At(v, sb, y) + At(v, Vault1(p), y)
    <3> HIDE DEF paid_a
    <3> QED BY <1>1, <1>4, <2>1, <2>2, TransferEffect
  <2>4. bal'[v] = paid_b(x, y)[v] + At(v, dest, minted)
    <3> HIDE DEF paid_b, minted
    <3> QED BY <1>1, <1>4, <1>5, <2>3, MintToEffect
  <2>5. x \in Int /\ y \in Int
    BY <1>4, U64Assumption DEF CanTransfer, U64
  <2> HIDE DEF paid_a, paid_b, minted, sa, sb, dest, p
  <2> QED BY <1>6, <2>2, <2>3, <2>4, <2>5 DEF At
<1>9. /\ sa # sb /\ sa # dest /\ sb # dest
      /\ \A v \in {sa, sb, dest} : v # Vault0(p) /\ v # Vault1(p)
  BY <1>1, <1>2, <1>3, <1>7, OpenPoolAccounts
<1>10. /\ bal'[sa] = bal[sa] - x /\ bal'[sb] = bal[sb] - y /\ bal'[dest] = bal[dest] + minted
       /\ bal[sa] \in Int /\ bal[sb] \in Int /\ bal[dest] \in Int
  <2> HIDE DEF sa, sb, dest, minted, p
  <2> QED BY <1>1, <1>6, <1>8, <1>9 DEF At
<1>11. max_a \in Int /\ max_b \in Int
  BY U64Assumption DEF U64
<1> HIDE DEF minted
<1>12. Paid(sa) <= max_a /\ Paid(sb) <= max_b /\ Received(dest) = minted
  BY <1>6, <1>10, <1>11 DEF Paid, Received
<1> QED BY <1>12 DEF minted

\* What deposit_single moves: n tokens into a vault, pool tokens minted for them.
DepositSingleMoves(acc, n, minimum, vault, minted) ==
    LET p == acc.amm
    IN  /\ p \in Pools /\ Live(p) /\ acc.owner \in Users
        /\ acc.source \in TokenAccounts /\ acc.destination \in TokenAccounts
        /\ acc.source.owner = acc.owner /\ acc.source.mint = vault.mint
        /\ acc.destination.owner = acc.owner /\ acc.destination.mint = PoolMint(p)
        /\ n \in Nat /\ minted \in U64 /\ minimum <= minted
        /\ \E d \in TradeDirection :
             /\ vault = IF d = "AtoB" THEN Vault0(p) ELSE Vault1(p)
             /\ Supply(p) > 0 =>
                  minted \in CurveDepositSingle(n, bal[Vault0(p)], bal[Vault1(p)], Supply(p), d,
                                                amm[p].fees)
        /\ supply' = [supply EXCEPT ![PoolMint(p)] = Supply(p) + minted]
        /\ \A v \in TokenAccounts :
             /\ bal[v] \in Int
             /\ bal'[v] = bal[v] - At(v, acc.source, n) + At(v, vault, n)
                            + At(v, acc.destination, minted)

LEMMA DepositSingleEffect ==
    ASSUME TypeOK, OpenedInv, NEW acc \in DepositSingleAccounts, NEW n \in U64,
           NEW minimum \in U64, DepositSingle(acc, n, minimum)
    PROVE  \E vault, minted : DepositSingleMoves(acc, n, minimum, vault, minted)
<1> DEFINE p == acc.amm
           src == acc.source
           dest == acc.destination
           side(d) == IF d = "AtoB" THEN acc.swap_token_a ELSE acc.swap_token_b
           signers == {acc.owner, SeedSigner(p)}
           asked(d) == IF supply[acc.pool_mint] > 0
                       THEN CurveDepositSingle(n, bal[acc.swap_token_a], bal[acc.swap_token_b],
                                               supply[acc.pool_mint], d, amm[p].fees)
                       ELSE Some(NewPoolSupply)
<1>1. /\ p \in Pools /\ acc.owner \in Users
      /\ src \in TokenAccounts /\ dest \in TokenAccounts /\ bal \in Balances
  BY DEF DepositSingleAccounts, TypeOK
<1>2. PICK d \in SideOf(acc.source, acc.swap_token_a, acc.swap_token_b) :
        /\ DepositSingleAccountsHold(acc, d)
        /\ \E minted \in asked(d) :
             /\ minimum <= minted
             /\ CanTransfer(bal, src, side(d), n, acc.owner, {acc.owner})
             /\ CanMintTo(Transfer(bal, src, side(d), n), supply[acc.pool_mint], dest, minted,
                          acc.pool_mint, Authority(p), signers)
             /\ bal' = MintTo(Transfer(bal, src, side(d), n), dest, minted)
             /\ supply' = [supply EXCEPT ![acc.pool_mint] = supply[acc.pool_mint] + minted]
  BY DEF DepositSingle
<1>3. Live(p) /\ dest.owner = acc.owner /\ dest.mint = acc.pool_mint
  BY <1>2 DEF DepositSingleAccountsHold, DepositSingleConstraints, Live
<1>4. acc.swap_token_a = Vault0(p) /\ acc.swap_token_b = Vault1(p)
      /\ acc.pool_mint = PoolMint(p)
  BY <1>1, <1>2, <1>3, OpenPoolAccounts DEF DepositSingleAccountsHold, CheckAccounts
<1> DEFINE vault == side(d)
           paid == Transfer(bal, src, vault, n)
<1>5. d \in TradeDirection /\ vault = IF d = "AtoB" THEN Vault0(p) ELSE Vault1(p)
  BY <1>2, <1>4 DEF SideOf, TradeDirection, Some, None
<1>6. PICK minted \in asked(d) :
        /\ minimum <= minted
        /\ CanTransfer(bal, src, vault, n, acc.owner, {acc.owner})
        /\ CanMintTo(paid, Supply(p), dest, minted, PoolMint(p), Authority(p), signers)
        /\ bal' = MintTo(paid, dest, minted)
        /\ supply' = [supply EXCEPT ![PoolMint(p)] = Supply(p) + minted]
  BY <1>2, <1>4 DEF Supply
<1>7. Supply(p) > 0 =>
        minted \in CurveDepositSingle(n, bal[Vault0(p)], bal[Vault1(p)], Supply(p), d,
                                      amm[p].fees)
  BY <1>4, <1>6 DEF Supply
<1> HIDE DEF side, asked
<1>8. vault \in TokenAccounts /\ minted \in U64 /\ Supply(p) \in U64
  BY <1>1, <1>3, <1>5, <1>6, OpenPoolAccounts, ReservesAreNatural DEF CanMintTo
<1> HIDE DEF vault
<1>9. ASSUME NEW v \in TokenAccounts
      PROVE  /\ bal[v] \in Int /\ n \in Nat /\ src.mint = vault.mint /\ src.owner = acc.owner
             /\ bal'[v] = bal[v] - At(v, src, n) + At(v, vault, n) + At(v, dest, minted)
  <2>1. /\ paid \in Balances /\ bal[v] \in Int /\ n \in Nat /\ src.mint = vault.mint
        /\ src.owner = acc.owner
        /\ paid[v] = bal[v] - At(v, src, n) + At(v, vault, n)
    BY <1>1, <1>6, <1>8, TransferEffect
  <2>2. bal'[v] = paid[v] + At(v, dest, minted)
    <3> HIDE DEF paid, dest, p, signers
    <3>1. dest \in TokenAccounts /\ Supply(p) \in U64 /\ paid \in Balances
      BY <1>1, <1>8, <2>1
    <3>2. CanMintTo(paid, Supply(p), dest, minted, PoolMint(p), Authority(p), signers)
      BY <1>6
    <3>3. MintTo(paid, dest, minted)[v] = paid[v] + At(v, dest, minted)
      BY <3>1, <3>2, MintToEffect
    <3> QED BY <1>6, <3>3
  <2> HIDE DEF paid
  <2> QED BY <2>1, <2>2
<1> DEFINE moved(v) == bal[v] - At(v, src, n) + At(v, vault, n) + At(v, dest, minted)
<1>10. \A v \in TokenAccounts : bal[v] \in Int /\ bal'[v] = moved(v)
  BY <1>9
<1>11. n \in Nat /\ src.mint = vault.mint /\ src.owner = acc.owner
  BY <1>1, <1>9
<1> HIDE DEF moved
<1>12. DepositSingleMoves(acc, n, minimum, vault, minted)
  BY <1>1, <1>3, <1>4, <1>5, <1>6, <1>7, <1>8, <1>10, <1>11 DEF DepositSingleMoves, moved
<1> QED BY <1>12

\* deposit_single takes the amount named and gives at least the minimum
LEMMA DepositSingleLimits ==
    ASSUME TypeOK, OpenedInv, NEW acc \in DepositSingleAccounts, NEW n \in U64,
           NEW minimum \in U64, DepositSingle(acc, n, minimum)
    PROVE  Paid(acc.source) = n /\ Received(acc.destination) >= minimum
<1> DEFINE src == acc.source
           dest == acc.destination
<1>1. PICK vault, minted : DepositSingleMoves(acc, n, minimum, vault, minted)
  BY DepositSingleEffect
<1>2. /\ src \in TokenAccounts /\ dest \in TokenAccounts /\ n \in Nat
      /\ minted \in U64 /\ minimum <= minted
      /\ bal[src] \in Int /\ bal[dest] \in Int
      /\ bal'[src] = bal[src] - At(src, src, n) + At(src, vault, n) + At(src, dest, minted)
      /\ bal'[dest] = bal[dest] - At(dest, src, n) + At(dest, vault, n) + At(dest, dest, minted)
  BY <1>1 DEF DepositSingleMoves
<1>3. src # dest /\ src # vault /\ dest # vault
  BY <1>1, OpenPoolAccounts DEF DepositSingleMoves
<1>4. minted \in Int /\ minimum \in Int
  BY <1>2, U64Assumption DEF U64
<1> HIDE DEF src, dest
<1>5. bal'[src] = bal[src] - n /\ bal'[dest] = bal[dest] + minted
  BY <1>2, <1>3, <1>4 DEF At
<1>6. Paid(src) = n /\ Received(dest) >= minimum
  BY <1>2, <1>4, <1>5 DEF Paid, Received
<1> QED BY <1>6 DEF src, dest

\* What swap moves: one token into a vault, the other out of the other vault, and
\* t pool tokens minted for the owner's fee, k.host of them to the host.
SwapMoves(acc, n, minimum, r, t, k) ==
    LET p   == acc.amm
        src == acc.swap_source
        dst == acc.swap_destination
        in  == r.source_amount_swapped
        out == r.destination_amount_swapped
    IN  /\ p \in Pools /\ Live(p) /\ acc.owner \in Users
        /\ acc.vault_source_info \in TokenAccounts
        /\ acc.vault_destination_info \in TokenAccounts
        /\ acc.vault_source_info.owner = acc.owner
        /\ acc.vault_destination_info.owner = acc.owner
        /\ acc.vault_source_info.mint = src.mint
        /\ acc.vault_destination_info.mint = dst.mint
        /\ src \in {Vault0(p), Vault1(p)} /\ dst \in {Vault0(p), Vault1(p)} /\ src # dst
        /\ acc.pool_mint = PoolMint(p) /\ acc.fee_account = amm[p].pool_fee_account
        /\ r \in CurveSwap(n, bal[src], bal[dst], amm[p].fees) /\ minimum <= out
        /\ in \in Nat /\ in <= n /\ out \in Nat
        /\ t \in OwnerFeePoolTokens(acc, r)
        /\ k.host \in Nat /\ k.owner \in Nat /\ k.host + k.owner = t
        /\ k.host # 0 => acc.host_fee_account.mint = PoolMint(p)
        /\ supply' = [supply EXCEPT ![PoolMint(p)] = Supply(p) + t]
        /\ \A v \in TokenAccounts :
             /\ bal[v] \in Int
             /\ bal'[v] = bal[v] - At(v, acc.vault_source_info, in) + At(v, src, in)
                            + At(v, acc.host_fee_account, k.host)
                            + At(v, acc.fee_account, k.owner)
                            - At(v, dst, out) + At(v, acc.vault_destination_info, out)

LEMMA SwapEffect ==
    ASSUME TypeOK, LockInv, OpenedInv, NEW acc \in SwapAccounts, NEW n \in U64,
           NEW minimum \in U64, Swap(acc, n, minimum)
    PROVE  \E r, t, k : SwapMoves(acc, n, minimum, r, t, k)
<1> DEFINE p == acc.amm
           m == acc.pool_mint
           from == acc.vault_source_info
           to == acc.vault_destination_info
           src == acc.swap_source
           dst == acc.swap_destination
           host == acc.host_fee_account
           fee == acc.fee_account
           signers == {acc.owner, SeedSigner(p)}
           paid(r) == Transfer(bal, from, src, r.source_amount_swapped)
           hosted(r, k) == IF k.host = 0 THEN paid(r) ELSE MintTo(paid(r), host, k.host)
           minted(r, k, t) == IF t = 0 THEN hosted(r, k) ELSE MintTo(hosted(r, k), fee, k.owner)
<1>1. /\ p \in Pools /\ acc.owner \in Users
      /\ from \in TokenAccounts /\ to \in TokenAccounts /\ fee \in TokenAccounts
      /\ host # NoHost => host \in TokenAccounts
      /\ bal \in Balances /\ m \in PoolMints /\ supply[m] \in U64
  BY DEF SwapAccounts, TypeOK
<1>2. SwapAccountsHold(acc) /\ Live(p)
  BY DEF Swap, SwapAccountsHold, Live
<1>3. /\ from.owner = acc.owner /\ to.owner = acc.owner
      /\ src.owner = Authority(p) /\ dst.owner = Authority(p)
  BY <1>2, SwapNeeds DEF SwapAccountsHold, SwapOwnersHold
<1>4. /\ src \in {Vault0(p), Vault1(p)} /\ dst \in {Vault0(p), Vault1(p)} /\ src # dst
      /\ m = PoolMint(p) /\ fee = amm[p].pool_fee_account
  BY <1>1, <1>2, OpenPoolAccounts DEF SwapAccountsHold
<1>5. src \in TokenAccounts /\ dst \in TokenAccounts /\ amm[p].fees \in CurveFees
  BY <1>1, <1>2, <1>4, OpenPoolAccounts
<1> DEFINE executed(r, t, k) ==
      /\ k \in FeeMints(acc, t)
      /\ minimum <= r.destination_amount_swapped
      /\ CanTransfer(bal, from, src, r.source_amount_swapped, acc.owner, signers)
      /\ k.host # 0 => CanMintTo(paid(r), supply[m], host, k.host, m, Authority(p), signers)
      /\ t # 0 => CanMintTo(hosted(r, k), supply[m] + k.host, fee, k.owner, m,
                            Authority(p), signers)
      /\ CanTransfer(minted(r, k, t), dst, to, r.destination_amount_swapped,
                     Authority(p), signers)
      /\ bal' = Transfer(minted(r, k, t), dst, to, r.destination_amount_swapped)
      /\ supply' = [supply EXCEPT ![m] = supply[m] + k.host + k.owner]
<1>6. PICK r \in CurveSwap(n, bal[src], bal[dst], amm[p].fees) :
        \E t \in OwnerFeePoolTokens(acc, r) : \E k : executed(r, t, k)
  BY ZenonT(60) DEF Swap
<1>7. PICK t \in OwnerFeePoolTokens(acc, r) : \E k : executed(r, t, k)
  BY <1>6
<1>8. PICK k : executed(r, t, k)
  BY <1>7
<1> DEFINE in == r.source_amount_swapped
           out == r.destination_amount_swapped
<1>9. t \in Nat
  BY WithdrawSingleIsNatural DEF OwnerFeePoolTokens
<1>10. /\ k \in FeeMints(acc, t)
       /\ k.host # 0 => /\ host \in TokenAccounts
                        /\ CanMintTo(paid(r), supply[m], host, k.host, m, Authority(p), signers)
       /\ t # 0 => CanMintTo(hosted(r, k), supply[m] + k.host, fee, k.owner, m,
                             Authority(p), signers)
  <2>1. executed(r, t, k)
    BY <1>8
  <2>2. k.host # 0 => host \in TokenAccounts
    BY <1>1, <2>1 DEF FeeMints, Some
  <2> HIDE DEF paid, hosted, minted
  <2> QED BY <2>1, <2>2
<1>11. k.host \in Nat /\ k.owner \in Nat /\ k.host + k.owner = t
  <2>1. k.host \in Nat
    BY <1>10, U64Assumption DEF CanMintTo, U64
  <2>2. k.owner \in Nat
    <3>1. CASE t = 0
      BY <1>10, <3>1 DEF FeeMints, Some
    <3>2. CASE t # 0
      BY <1>10, <3>2, U64Assumption DEF CanMintTo, U64
    <3> QED BY <3>1, <3>2
  <2>3. (k.host = 0 /\ k.owner = t) \/ k.owner = t - k.host
    BY <1>10 DEF FeeMints, Some
  <2> QED BY <1>9, <2>1, <2>2, <2>3
<1>12. k.host # 0 => host.mint = PoolMint(p)
  BY <1>4, <1>10 DEF CanMintTo
<1> HIDE DEF executed
<1>13. ASSUME NEW v \in TokenAccounts
       PROVE  /\ bal[v] \in Int /\ in \in Nat /\ out \in Nat
              /\ from.mint = src.mint /\ to.mint = dst.mint
              /\ bal'[v] = bal[v] - At(v, from, in) + At(v, src, in) + At(v, host, k.host)
                             + At(v, fee, k.owner) - At(v, dst, out) + At(v, to, out)
  <2>1. /\ in \in Nat /\ from.mint = src.mint /\ paid(r) \in Balances /\ bal[v] \in Int
        /\ paid(r)[v] = bal[v] - At(v, from, in) + At(v, src, in)
    <3>1. CanTransfer(bal, from, src, in, acc.owner, signers)
      BY <1>8 DEF executed
    <3> HIDE DEF from, src, p, signers, in
    <3>2. from \in TokenAccounts /\ src \in TokenAccounts /\ bal \in Balances
      BY <1>1, <1>5
    <3> QED BY <3>1, <3>2, TransferEffect DEF in
  <2>2. /\ hosted(r, k) \in Balances /\ supply[m] + k.host \in U64
        /\ hosted(r, k)[v] = paid(r)[v] + At(v, host, k.host)
    <3> HIDE DEF paid, m, p, signers, host
    <3>1. CASE k.host = 0
      <4>1. hosted(r, k) = paid(r) /\ supply[m] + k.host = supply[m] /\ At(v, host, k.host) = 0
        BY <1>1, <3>1, U64Assumption DEF U64, At
      <4>2. paid(r)[v] \in Int
        BY <2>1, U64Assumption DEF Balances, U64
      <4> QED BY <1>1, <2>1, <4>1, <4>2
    <3>2. CASE k.host # 0
      <4>1. /\ MintTo(paid(r), host, k.host) \in Balances
            /\ supply[m] + k.host \in U64
            /\ MintTo(paid(r), host, k.host)[v] = paid(r)[v] + At(v, host, k.host)
        BY <1>1, <1>10, <2>1, <3>2, MintToEffect
      <4> QED BY <3>2, <4>1
    <3> QED BY <3>1, <3>2
  <2>3. /\ minted(r, k, t) \in Balances
        /\ minted(r, k, t)[v] = hosted(r, k)[v] + At(v, fee, k.owner)
    <3> HIDE DEF hosted, m, p, signers, fee
    <3>1. CASE t = 0
      <4>1. minted(r, k, t) = hosted(r, k) /\ At(v, fee, k.owner) = 0
        BY <1>11, <3>1 DEF At
      <4>2. hosted(r, k)[v] \in Int
        BY <2>2, U64Assumption DEF Balances, U64
      <4> QED BY <2>2, <4>1, <4>2
    <3>2. CASE t # 0
      <4>1. /\ MintTo(hosted(r, k), fee, k.owner) \in Balances
            /\ MintTo(hosted(r, k), fee, k.owner)[v] = hosted(r, k)[v] + At(v, fee, k.owner)
        BY <1>1, <1>10, <2>2, <3>2, MintToEffect
      <4> QED BY <3>2, <4>1
    <3> QED BY <3>1, <3>2
  <2>4. /\ out \in Nat /\ to.mint = dst.mint
        /\ bal'[v] = minted(r, k, t)[v] - At(v, dst, out) + At(v, to, out)
    <3>1. /\ CanTransfer(minted(r, k, t), dst, to, out, Authority(p), signers)
          /\ bal' = Transfer(minted(r, k, t), dst, to, out)
      BY <1>8 DEF executed
    <3>2. dst \in TokenAccounts /\ to \in TokenAccounts
      BY <1>1, <1>5
    <3> HIDE DEF minted, to, dst, p, signers, out
    <3> QED BY <2>3, <3>1, <3>2, TransferEffect DEF out
  <2> HIDE DEF paid, hosted, minted, in, out, from, to, src, dst, host, fee
  <2>5. /\ At(v, from, in) \in Int /\ At(v, src, in) \in Int /\ At(v, host, k.host) \in Int
        /\ At(v, fee, k.owner) \in Int /\ At(v, dst, out) \in Int /\ At(v, to, out) \in Int
    BY <1>11, <2>1, <2>4 DEF At
  <2> QED BY <2>1, <2>2, <2>3, <2>4, <2>5
<1> DEFINE moved(v) == bal[v] - At(v, from, in) + At(v, src, in) + At(v, host, k.host)
                         + At(v, fee, k.owner) - At(v, dst, out) + At(v, to, out)
<1>14. \A v \in TokenAccounts : bal[v] \in Int /\ bal'[v] = moved(v)
  BY <1>13
<1>15. /\ in \in Nat /\ out \in Nat /\ from.mint = src.mint /\ to.mint = dst.mint
  BY <1>1, <1>13
<1>16. in <= n
  <2>1. bal[src] \in Nat /\ bal[dst] \in Nat
    BY <1>1, <1>5, U64Assumption DEF Balances, U64
  <2> QED BY <1>5, <2>1, CurveSwapCharges
<1>17. minimum <= out /\ supply' = [supply EXCEPT ![PoolMint(p)] = Supply(p) + t]
  <2>1. minimum <= out /\ supply' = [supply EXCEPT ![m] = supply[m] + k.host + k.owner]
    BY <1>8 DEF executed
  <2>2. supply[m] = Supply(p) /\ supply[m] + k.host + k.owner = supply[m] + t
    <3>1. supply[m] \in Int
      BY <1>1, U64Assumption DEF U64
    <3> QED BY <1>4, <1>11, <3>1 DEF Supply
  <2> QED BY <1>4, <2>1, <2>2
<1> HIDE DEF moved, paid, hosted, minted
<1>18. SwapMoves(acc, n, minimum, r, t, k)
  BY <1>1, <1>2, <1>3, <1>4, <1>6, <1>7, <1>11, <1>12, <1>14, <1>15, <1>16, <1>17
     DEF SwapMoves, moved
<1> QED BY <1>18

\* swap takes at most the amount named and gives at least the minimum
LEMMA SwapLimits ==
    ASSUME TypeOK, LockInv, OpenedInv, NEW acc \in SwapAccounts, NEW n \in U64,
           NEW minimum \in U64, Swap(acc, n, minimum)
    PROVE  /\ Paid(acc.vault_source_info) <= n
           /\ Received(acc.vault_destination_info) >= minimum
<1> DEFINE p == acc.amm
           from == acc.vault_source_info
           to == acc.vault_destination_info
           src == acc.swap_source
           dst == acc.swap_destination
           host == acc.host_fee_account
           fee == acc.fee_account
<1>1. PICK r, t, k : SwapMoves(acc, n, minimum, r, t, k)
  BY SwapEffect
<1> DEFINE in == r.source_amount_swapped
           out == r.destination_amount_swapped
<1>2. /\ p \in Pools /\ Live(p) /\ acc.owner \in Users
      /\ from \in TokenAccounts /\ to \in TokenAccounts
      /\ from.owner = acc.owner /\ to.owner = acc.owner
      /\ from.mint = src.mint /\ to.mint = dst.mint
      /\ src \in {Vault0(p), Vault1(p)} /\ dst \in {Vault0(p), Vault1(p)} /\ src # dst
      /\ fee = amm[p].pool_fee_account
      /\ k.host # 0 => host.mint = PoolMint(p)
      /\ in \in Nat /\ in <= n /\ out \in Nat /\ minimum <= out
      /\ k.host \in Nat /\ k.owner \in Nat
  BY <1>1 DEF SwapMoves
<1>3. ASSUME NEW v \in TokenAccounts
      PROVE  /\ bal[v] \in Int
             /\ bal'[v] = bal[v] - At(v, from, in) + At(v, src, in) + At(v, host, k.host)
                            + At(v, fee, k.owner) - At(v, dst, out) + At(v, to, out)
  BY <1>1 DEF SwapMoves
<1>4. /\ src.mint # dst.mint /\ src.mint # PoolMint(p) /\ dst.mint # PoolMint(p)
      /\ fee.mint = PoolMint(p)
      /\ src.owner = Authority(p) /\ dst.owner = Authority(p) /\ Authority(p) \notin Users
      /\ fee.owner \in Users
  <2>1. /\ Vault0(p).mint # Vault1(p).mint
        /\ Vault0(p).mint # PoolMint(p) /\ Vault1(p).mint # PoolMint(p)
        /\ Vault0(p).owner = Authority(p) /\ Vault1(p).owner = Authority(p)
        /\ fee.mint = PoolMint(p) /\ fee.owner \in Users /\ Authority(p) \notin Users
    <3> HIDE DEF fee, p
    <3> QED BY <1>2, OpenPoolAccounts
  <2> HIDE DEF src, dst, fee, p
  <2> QED BY <1>2, <2>1
<1>5. /\ from # to /\ from # src /\ from # dst /\ from # fee
      /\ to # src /\ to # dst /\ to # fee
      /\ k.host # 0 => from # host /\ to # host
  <2> HIDE DEF src, dst, from, to, host, fee, p
  <2> QED BY <1>2, <1>4
<1> HIDE DEF in, out, from, to, src, dst, host, fee, p
<1>6. bal'[from] = bal[from] - in /\ bal'[to] = bal[to] + out
  BY <1>2, <1>3, <1>5 DEF At
<1>7. bal[from] \in Int /\ bal[to] \in Int /\ n \in Int /\ minimum \in Int
  BY <1>2, <1>3, U64Assumption DEF U64
<1>8. Paid(from) <= n /\ Received(to) >= minimum
  BY <1>2, <1>6, <1>7 DEF Paid, Received
<1> QED BY <1>8 DEF from, to

\* What withdraw_all moves, f pool tokens of fee and x, y out of the vaults: the
\* accounts it names, the amounts it computes and what is left in any account.
WithdrawAllMoves(acc, n, min_a, min_b, f, x, y) ==
    LET p == acc.amm
    IN  /\ p \in Pools /\ Live(p) /\ acc.owner \in Users
        /\ acc.source_info \in TokenAccounts /\ acc.fee_account \in TokenAccounts
        /\ acc.dest_token_a_info \in TokenAccounts /\ acc.dest_token_b_info \in TokenAccounts
        /\ acc.dest_token_a_info.owner = acc.owner /\ acc.dest_token_b_info.owner = acc.owner
        /\ acc.source_info.owner = acc.owner /\ acc.source_info.mint = PoolMint(p)
        /\ acc.vault_token_a = Vault0(p) /\ acc.vault_token_b = Vault1(p)
        /\ acc.fee_account = amm[p].pool_fee_account
        /\ f \in Nat /\ n - f \in Nat /\ f \in WithdrawFee(acc, acc.source_info, n)
        /\ x \in Nat /\ y \in Nat
        /\ x # 0 => acc.dest_token_a_info.mint = p[1]
        /\ y # 0 => acc.dest_token_b_info.mint = p[2]
        /\ n - f <= Supply(p)
        /\ supply' = [supply EXCEPT ![PoolMint(p)] = Supply(p) - (n - f)]
        /\ \E r \in PoolTokensToTradingTokens(n - f, Supply(p), bal[Vault0(p)],
                                              bal[Vault1(p)], "Floor") :
             /\ x = AtMost(bal[Vault0(p)], r.token_a_amount) /\ min_a <= x
             /\ "side_b" \in repairs =>
                  y = AtMost(bal[Vault1(p)], r.token_b_amount) /\ min_b <= y
        /\ \A v \in TokenAccounts :
             /\ bal[v] \in Int
             /\ bal'[v] = bal[v] - At(v, acc.source_info, f) + At(v, acc.fee_account, f)
                            - At(v, acc.source_info, n - f)
                            - At(v, Vault0(p), x) + At(v, acc.dest_token_a_info, x)
                            - At(v, Vault1(p), y) + At(v, acc.dest_token_b_info, y)

LEMMA WithdrawAllEffect ==
    ASSUME TypeOK, OpenedInv, NEW acc \in WithdrawAllAccounts, NEW n \in U64,
           NEW min_a, NEW min_b, WithdrawAll(acc, n, min_a, min_b)
    PROVE  \E f, x, y : WithdrawAllMoves(acc, n, min_a, min_b, f, x, y)
<1> DEFINE p == acc.amm
           m == acc.pool_mint
           va == acc.vault_token_a
           vb == acc.vault_token_b
           source == acc.source_info
           dest_a == acc.dest_token_a_info
           dest_b == acc.dest_token_b_info
           signers == {acc.owner, SeedSigner(p)}
           charged(f) == IF f = 0 THEN bal ELSE Transfer(bal, source, acc.fee_account, f)
           burned(f) == Burn(charged(f), source, n - f)
           paid_a(f, x) == IF x = 0 THEN burned(f) ELSE Transfer(burned(f), va, dest_a, x)
           paid_b(f, x, b, c) ==
               IF b = 0 THEN paid_a(f, x) ELSE Transfer(paid_a(f, x), vb, dest_b, c)
<1>1. /\ p \in Pools /\ acc.owner \in Users
      /\ source \in TokenAccounts /\ acc.fee_account \in TokenAccounts
      /\ dest_a \in TokenAccounts /\ dest_b \in TokenAccounts
      /\ bal \in Balances
  BY DEF WithdrawAllAccounts, TypeOK
<1>2. /\ Live(p) /\ source.mint = m
      /\ dest_a.owner = acc.owner /\ dest_b.owner = acc.owner
      /\ CheckAccounts(p, va, vb, m, {dest_a}, {dest_b}, {acc.fee_account})
  BY DEF WithdrawAll, WithdrawAllAccountsHold, WithdrawAllConstraints, Live
<1>3. /\ va = Vault0(p) /\ vb = Vault1(p) /\ m = PoolMint(p)
      /\ acc.fee_account = amm[p].pool_fee_account
  BY <1>1, <1>2, OpenPoolAccounts DEF CheckAccounts
<1>4. PICK f, r, x, b, c :
        /\ f \in WithdrawFee(acc, source, n)
        /\ r \in PoolTokensToTradingTokens(n - f, supply[m], bal[va], bal[vb], "Floor")
        /\ x = AtMost(bal[va], r.token_a_amount) /\ b = AtMost(bal[vb], r.token_b_amount)
        /\ c = SideBPayment(x, b)
        /\ f <= n /\ min_a <= x /\ min_b <= b
        /\ f # 0 => CanTransfer(bal, source, acc.fee_account, f, acc.owner, {acc.owner})
        /\ CanBurn(charged(f), supply[m], source, n - f, m, acc.owner, {acc.owner})
        /\ x # 0 => CanTransfer(burned(f), va, dest_a, x, Authority(p), signers)
        /\ b # 0 => CanTransfer(paid_a(f, x), vb, dest_b, c, Authority(p), signers)
        /\ bal' = paid_b(f, x, b, c)
        /\ supply' = [supply EXCEPT ![m] = supply[m] - (n - f)]
  <2>1. PICK f \in WithdrawFee(acc, source, n) :
          \E r \in PoolTokensToTradingTokens(n - f, supply[m], bal[va], bal[vb], "Floor") :
          LET x == AtMost(bal[va], r.token_a_amount)
              b == AtMost(bal[vb], r.token_b_amount)
              c == SideBPayment(x, b)
          IN  /\ f <= n /\ min_a <= x /\ min_b <= b
              /\ f # 0 => CanTransfer(bal, source, acc.fee_account, f, acc.owner, {acc.owner})
              /\ CanBurn(charged(f), supply[m], source, n - f, m, acc.owner, {acc.owner})
              /\ x # 0 => CanTransfer(burned(f), va, dest_a, x, Authority(p), signers)
              /\ b # 0 => CanTransfer(paid_a(f, x), vb, dest_b, c, Authority(p), signers)
              /\ bal' = paid_b(f, x, b, c)
              /\ supply' = [supply EXCEPT ![m] = supply[m] - (n - f)]
    BY ZenonT(60) DEF WithdrawAll
  <2> HIDE DEF charged, burned, paid_a, paid_b
  <2> QED BY <2>1
<1> DEFINE y == IF b = 0 THEN 0 ELSE c
<1>5. supply[m] \in U64 /\ supply[m] = Supply(p) /\ n \in Nat
  BY <1>1, <1>3, ReservesAreNatural, U64Assumption DEF Supply, U64
<1>6. ASSUME NEW v \in TokenAccounts
      PROVE  /\ f \in Nat /\ n - f \in Nat /\ n - f <= supply[m]
             /\ x \in Nat /\ y \in Nat
             /\ x # 0 => va.mint = dest_a.mint
             /\ y # 0 => vb.mint = dest_b.mint
             /\ source.owner = acc.owner
             /\ bal[v] \in Int
             /\ bal'[v] = bal[v] - At(v, source, f) + At(v, acc.fee_account, f)
                            - At(v, source, n - f) - At(v, va, x) + At(v, dest_a, x)
                            - At(v, vb, y) + At(v, dest_b, y)
  <2>1. va \in TokenAccounts /\ vb \in TokenAccounts
    BY <1>1, <1>2, <1>3, OpenPoolAccounts
  <2>2. /\ f \in Nat /\ charged(f) \in Balances /\ bal[v] \in Int
        /\ charged(f)[v] = bal[v] - At(v, source, f) + At(v, acc.fee_account, f)
    <3>1. f # 0 => CanTransfer(bal, source, acc.fee_account, f, acc.owner, {acc.owner})
      BY <1>4
    <3>2. charged(f) = IF f = 0 THEN bal ELSE Transfer(bal, source, acc.fee_account, f)
      OBVIOUS
    <3>3. source \in TokenAccounts /\ acc.fee_account \in TokenAccounts /\ bal \in Balances
      BY <1>1
    <3> HIDE DEF source, charged
    <3>4. CASE f = 0
      BY <3>2, <3>3, <3>4, U64Assumption DEF At, Balances, U64
    <3>5. CASE f # 0
      BY <3>1, <3>2, <3>3, <3>5, TransferEffect
    <3> QED BY <3>4, <3>5
  <2>3. /\ n - f \in Nat /\ n - f <= supply[m] /\ source.owner = acc.owner
        /\ burned(f) \in Balances
        /\ burned(f)[v] = charged(f)[v] - At(v, source, n - f)
    <3>1. CanBurn(charged(f), supply[m], source, n - f, m, acc.owner, {acc.owner})
      BY <1>4
    <3>2. burned(f) = Burn(charged(f), source, n - f)
      OBVIOUS
    <3>3. source \in TokenAccounts /\ supply[m] \in U64
      BY <1>1, <1>5
    <3> HIDE DEF source, charged, burned, m
    <3> QED BY <2>2, <3>1, <3>2, <3>3, BurnEffect
  <2>4. /\ x \in Nat /\ paid_a(f, x) \in Balances
        /\ x # 0 => va.mint = dest_a.mint
        /\ paid_a(f, x)[v] = burned(f)[v] - At(v, va, x) + At(v, dest_a, x)
    <3> HIDE DEF burned, va, dest_a, p, signers
    <3> QED BY SMTT(25), <1>1, <1>4, <2>1, <2>3, MaybeTransferEffect
  <2>5. /\ y \in Nat
        /\ y # 0 => vb.mint = dest_b.mint
        /\ bal'[v] = paid_a(f, x)[v] - At(v, vb, y) + At(v, dest_b, y)
    <3> HIDE DEF paid_a, vb, dest_b, p, signers
    <3>1. CASE b = 0
      BY <1>4, <2>4, <3>1, U64Assumption DEF At, Balances, U64
    <3>2. CASE b # 0
      BY <1>1, <1>4, <2>1, <2>4, <3>2, TransferEffect
    <3> QED BY <3>1, <3>2
  <2> HIDE DEF charged, burned, paid_a, paid_b, source, va, vb, dest_a, dest_b, m, y
  <2>6. /\ At(v, source, f) \in Int /\ At(v, acc.fee_account, f) \in Int
        /\ At(v, source, n - f) \in Int /\ At(v, va, x) \in Int /\ At(v, dest_a, x) \in Int
        /\ At(v, vb, y) \in Int /\ At(v, dest_b, y) \in Int
    BY <2>2, <2>3, <2>4, <2>5 DEF At
  <2> QED BY <2>2, <2>3, <2>4, <2>5, <2>6
<1>7. "side_b" \in repairs => y = b
  BY <1>4 DEF SideBPayment
<1>8. va.mint = p[1] /\ vb.mint = p[2]
  BY <1>1, <1>2, <1>3, OpenPoolAccounts
<1>9. \E s \in PoolTokensToTradingTokens(n - f, Supply(p), bal[Vault0(p)], bal[Vault1(p)],
                                         "Floor") :
        /\ x = AtMost(bal[Vault0(p)], s.token_a_amount) /\ min_a <= x
        /\ "side_b" \in repairs => y = AtMost(bal[Vault1(p)], s.token_b_amount) /\ min_b <= y
  <2> HIDE DEF y, va, vb, m
  <2> QED BY <1>3, <1>4, <1>5, <1>7
<1>10. supply' = [supply EXCEPT ![PoolMint(p)] = Supply(p) - (n - f)]
  BY <1>3, <1>4, <1>5
<1> HIDE DEF y
<1>11. WithdrawAllMoves(acc, n, min_a, min_b, f, x, y)
  <2> DEFINE moved(v) == bal[v] - At(v, source, f) + At(v, acc.fee_account, f)
                           - At(v, source, n - f) - At(v, Vault0(p), x) + At(v, dest_a, x)
                           - At(v, Vault1(p), y) + At(v, dest_b, y)
  <2>1. \A v \in TokenAccounts : bal[v] \in Int /\ bal'[v] = moved(v)
    BY <1>3, <1>6
  <2>2. /\ f \in Nat /\ n - f \in Nat /\ n - f <= Supply(p) /\ x \in Nat /\ y \in Nat
        /\ x # 0 => dest_a.mint = p[1]
        /\ y # 0 => dest_b.mint = p[2]
        /\ source.owner = acc.owner /\ source.mint = PoolMint(p)
    BY <1>1, <1>2, <1>3, <1>5, <1>6, <1>8
  <2> HIDE DEF moved
  <2>3. \A v \in TokenAccounts : bal[v] \in Int /\ bal'[v] = moved(v)
    BY <2>1
  <2>4. f \in WithdrawFee(acc, source, n)
    BY <1>4
  <2> QED BY <1>1, <1>2, <1>3, <1>9, <1>10, <2>2, <2>3, <2>4 DEF WithdrawAllMoves, moved
<1> QED BY <1>11

\* withdraw_all takes the amount named and gives at least the minimum of each token
LEMMA WithdrawAllLimits ==
    ASSUME TypeOK, OpenedInv, "side_b" \in repairs, NEW acc \in WithdrawAllAccounts,
           NEW n \in U64, NEW min_a \in U64, NEW min_b \in U64,
           WithdrawAll(acc, n, min_a, min_b)
    PROVE  /\ Paid(acc.source_info) = n
           /\ min_a > 0 => Received(acc.dest_token_a_info) >= min_a
           /\ min_b > 0 => Received(acc.dest_token_b_info) >= min_b
<1> DEFINE p == acc.amm
           source == acc.source_info
           fee == acc.fee_account
           dest_a == acc.dest_token_a_info
           dest_b == acc.dest_token_b_info
<1>1. PICK f, x, y : WithdrawAllMoves(acc, n, min_a, min_b, f, x, y)
  BY WithdrawAllEffect
<1>2. /\ p \in Pools /\ Live(p) /\ acc.owner \in Users
      /\ source \in TokenAccounts /\ fee \in TokenAccounts
      /\ dest_a \in TokenAccounts /\ dest_b \in TokenAccounts
      /\ dest_a.owner = acc.owner /\ dest_b.owner = acc.owner /\ source.owner = acc.owner
      /\ source.mint = PoolMint(p) /\ fee = amm[p].pool_fee_account
      /\ f \in Nat /\ n - f \in Nat /\ f \in WithdrawFee(acc, source, n)
      /\ x \in Nat /\ y \in Nat /\ min_a <= x /\ min_b <= y
      /\ x # 0 => dest_a.mint = p[1]
      /\ y # 0 => dest_b.mint = p[2]
  BY <1>1 DEF WithdrawAllMoves
<1>3. ASSUME NEW v \in TokenAccounts
      PROVE  /\ bal[v] \in Int
             /\ bal'[v] = bal[v] - At(v, source, f) + At(v, fee, f) - At(v, source, n - f)
                            - At(v, Vault0(p), x) + At(v, dest_a, x)
                            - At(v, Vault1(p), y) + At(v, dest_b, y)
  BY <1>1 DEF WithdrawAllMoves
<1>4. fee = source => f = 0
  BY <1>2 DEF WithdrawFee, Some
<1>5. /\ source # Vault0(p) /\ source # Vault1(p)
      /\ dest_a # Vault0(p) /\ dest_a # Vault1(p)
      /\ dest_b # Vault0(p) /\ dest_b # Vault1(p)
  BY <1>2, OpenPoolAccounts
<1>6. /\ x # 0 => dest_a # source /\ dest_a # fee
      /\ y # 0 => dest_b # source /\ dest_b # fee
      /\ x # 0 /\ y # 0 => dest_a # dest_b
  BY <1>2, OpenPoolAccounts
<1>7. n \in Nat /\ min_a \in Nat /\ min_b \in Nat
  BY U64Assumption DEF U64
<1> HIDE DEF p, source, fee, dest_a, dest_b
<1>8. Paid(source) = n
  BY <1>2, <1>3, <1>4, <1>5, <1>6, <1>7 DEF At, Paid
<1>9. min_a > 0 => Received(dest_a) >= min_a
  BY <1>2, <1>3, <1>5, <1>6, <1>7 DEF At, Received
<1>10. min_b > 0 => Received(dest_b) >= min_b
  BY <1>2, <1>3, <1>5, <1>6, <1>7 DEF At, Received
<1> QED BY <1>8, <1>9, <1>10 DEF source, dest_a, dest_b

\* a pool token's share of a reserve, rounded down, is what a vault pays
LEMMA WithdrawAllPaysTheShares ==
    ASSUME TypeOK, OpenedInv, "side_b" \in repairs, NEW acc \in WithdrawAllAccounts,
           NEW n \in U64, NEW min_a, NEW min_b, WithdrawAll(acc, n, min_a, min_b)
    PROVE  PaysShareOf(acc.vault_token_a, acc.amm) /\ PaysShareOf(acc.vault_token_b, acc.amm)
<1> DEFINE p == acc.amm
           source == acc.source_info
           fee == acc.fee_account
           dest_a == acc.dest_token_a_info
           dest_b == acc.dest_token_b_info
           a == bal[Vault0(p)]
           b == bal[Vault1(p)]
<1>1. PICK f, x, y : WithdrawAllMoves(acc, n, min_a, min_b, f, x, y)
  BY WithdrawAllEffect
<1>2. /\ p \in Pools /\ Live(p) /\ acc.owner \in Users
      /\ dest_a.owner = acc.owner /\ dest_b.owner = acc.owner /\ source.owner = acc.owner
      /\ fee = amm[p].pool_fee_account
      /\ acc.vault_token_a = Vault0(p) /\ acc.vault_token_b = Vault1(p)
      /\ f \in Nat /\ n - f \in Nat /\ n - f <= Supply(p) /\ x \in Nat /\ y \in Nat
      /\ supply' = [supply EXCEPT ![PoolMint(p)] = Supply(p) - (n - f)]
  BY <1>1 DEF WithdrawAllMoves
<1>3. ASSUME NEW v \in TokenAccounts
      PROVE  /\ bal[v] \in Int
             /\ bal'[v] = bal[v] - At(v, source, f) + At(v, fee, f) - At(v, source, n - f)
                            - At(v, Vault0(p), x) + At(v, dest_a, x)
                            - At(v, Vault1(p), y) + At(v, dest_b, y)
  BY <1>1 DEF WithdrawAllMoves
<1>4. PICK r \in PoolTokensToTradingTokens(n - f, Supply(p), a, b, "Floor") :
        x = AtMost(a, r.token_a_amount) /\ y = AtMost(b, r.token_b_amount)
  BY <1>1 DEF WithdrawAllMoves
<1>5. a \in Nat /\ b \in Nat /\ Supply(p) \in Nat /\ n \in Nat
  BY <1>2, ReservesAreNatural, U64Assumption DEF U64
<1> DEFINE s == Supply(p)
           k == n - f
<1>6. /\ r.token_a_amount \in TradingTokens(k, s, a, "Floor")
      /\ r.token_b_amount \in TradingTokens(k, s, b, "Floor")
  BY <1>4 DEF PoolTokensToTradingTokens
<1> HIDE DEF a, b, s, k
<1>7. k \in Nat /\ s \in Nat /\ k <= s
  BY <1>2, <1>5 DEF k, s
<1>8. /\ x = r.token_a_amount /\ x * s <= a * k /\ a * k < (x + 1) * s
      /\ y = r.token_b_amount /\ y * s <= b * k /\ b * k < (y + 1) * s
  <2>1. /\ r.token_a_amount \in Nat /\ r.token_a_amount <= a
        /\ r.token_a_amount * s <= a * k /\ a * k < (r.token_a_amount + 1) * s
    BY <1>5, <1>6, <1>7, FloorIsTheShare
  <2>2. /\ r.token_b_amount \in Nat /\ r.token_b_amount <= b
        /\ r.token_b_amount * s <= b * k /\ b * k < (r.token_b_amount + 1) * s
    BY <1>5, <1>6, <1>7, FloorIsTheShare
  <2>3. x = r.token_a_amount /\ y = r.token_b_amount
    BY <1>4, <1>5, <2>1, <2>2 DEF AtMost
  <2> QED BY <2>1, <2>2, <2>3
<1>9. /\ \A v \in {Vault0(p), Vault1(p)} :
           v # source /\ v # fee /\ v # dest_a /\ v # dest_b /\ v \in TokenAccounts
      /\ Vault0(p) # Vault1(p)
  BY <1>2, OpenPoolAccounts
<1>10. Supply(p)' = Supply(p) - k
  BY <1>2, OneSupply DEF k
<1>11. a - bal'[Vault0(p)] = x /\ b - bal'[Vault1(p)] = y
  <2> HIDE DEF p, source, fee, dest_a, dest_b
  <2> QED BY <1>2, <1>3, <1>9 DEF At, a, b
<1>12. Supply(p) - Supply(p)' = k
  BY <1>5, <1>7, <1>10
<1> QED BY <1>2, <1>8, <1>11, <1>12 DEF PaysShareOf, a, b, s

\* withdraw_all pays the pool's owner the fee on what it takes
LEMMA WithdrawAllPaysTheOwner ==
    ASSUME TypeOK, OpenedInv, NEW acc \in WithdrawAllAccounts, NEW n \in U64,
           NEW min_a, NEW min_b, WithdrawAll(acc, n, min_a, min_b),
           NEW p \in Pools, Supply(p)' < Supply(p)
    PROVE  LET fee_account == amm[p].pool_fee_account
               gained == bal'[fee_account] - bal[fee_account]
           IN  \/ gained < 0
               \/ \A fee \in OwnerWithdrawFee(amm[p].fees, Supply(p) - Supply(p)') :
                    gained >= fee
<1> DEFINE source == acc.source_info
           account == acc.fee_account
           dest_a == acc.dest_token_a_info
           dest_b == acc.dest_token_b_info
<1>1. PICK f, x, y : WithdrawAllMoves(acc, n, min_a, min_b, f, x, y)
  BY WithdrawAllEffect
<1>2. /\ acc.amm \in Pools /\ Live(acc.amm) /\ f \in Nat /\ n - f \in Nat
      /\ n - f <= Supply(acc.amm)
      /\ supply' = [supply EXCEPT ![PoolMint(acc.amm)] = Supply(acc.amm) - (n - f)]
  BY <1>1 DEF WithdrawAllMoves
<1>3. n \in Nat /\ Supply(acc.amm) \in Nat /\ Supply(p) \in Nat
  BY <1>2, ReservesAreNatural, U64Assumption DEF U64
<1>4. p = acc.amm /\ Supply(p)' = Supply(p) - (n - f) /\ Supply(p) - Supply(p)' = n - f
  <2>1. /\ Supply(acc.amm)' = Supply(acc.amm) - (n - f)
        /\ \A q \in Pools \ {acc.amm} : Supply(q)' = Supply(q)
    BY <1>2, OneSupply
  <2>2. p = acc.amm
    BY <1>3, <2>1
  <2> QED BY <1>2, <1>3, <2>1, <2>2
<1>5. n - f > 0
  BY <1>2, <1>3, <1>4
<1>6. /\ account = amm[p].pool_fee_account /\ account \in TokenAccounts
      /\ f \in WithdrawFee(acc, source, n) /\ x \in Nat /\ y \in Nat
      /\ x # 0 => dest_a.mint = p[1]
      /\ y # 0 => dest_b.mint = p[2]
      /\ bal[account] \in Int
      /\ bal'[account] = bal[account] - At(account, source, f) + At(account, account, f)
                           - At(account, source, n - f)
                           - At(account, Vault0(p), x) + At(account, dest_a, x)
                           - At(account, Vault1(p), y) + At(account, dest_b, y)
  BY <1>1, <1>4 DEF WithdrawAllMoves
<1>7. /\ account # Vault0(p) /\ account # Vault1(p)
      /\ x # 0 => account # dest_a
      /\ y # 0 => account # dest_b
      /\ amm[p].fees.owner_withdraw_fee \in Fraction
  BY <1>2, <1>4, <1>6, OpenPoolAccounts DEF CurveFees
<1> DEFINE gained == bal'[account] - bal[account]
<1>8. gained = IF account = source THEN 0 - (n - f) ELSE f
  <2> HIDE DEF account, source, dest_a, dest_b
  <2> QED BY <1>2, <1>3, <1>6, <1>7 DEF At
<1>9. ASSUME account # source, NEW fee \in OwnerWithdrawFee(amm[p].fees, n - f)
      PROVE  f >= fee
  <2>1. f \in CalculateFee(n, amm[p].fees.owner_withdraw_fee)
    BY <1>4, <1>6, <1>9 DEF WithdrawFee, OwnerWithdrawFee
  <2>2. fee \in CalculateFee(n - f, amm[p].fees.owner_withdraw_fee)
    BY <1>9 DEF OwnerWithdrawFee
  <2>3. /\ n \in U64 /\ n - f \in U64 /\ n >= n - f
        /\ AtLeastFraction(amm[p].fees.owner_withdraw_fee, amm[p].fees.owner_withdraw_fee)
    BY <1>2, <1>3, <1>7, U64Assumption DEF AtLeastFraction, Fraction, U64
  <2> QED BY <1>7, <2>1, <2>2, <2>3, FeesGrow
<1> HIDE DEF account
<1>10. account = source => gained < 0
  BY <1>3, <1>5, <1>8, <1>2
<1> QED BY <1>4, <1>6, <1>8, <1>9, <1>10

\* What withdraw_single moves: f pool tokens of fee, k burnt, n out of a vault.
WithdrawSingleMoves(acc, n, maximum, vault, f, k) ==
    LET p == acc.amm
    IN  /\ p \in Pools /\ Live(p) /\ acc.owner \in Users
        /\ acc.source \in TokenAccounts /\ acc.fee_account \in TokenAccounts
        /\ acc.destination \in TokenAccounts
        /\ acc.destination.owner = acc.owner /\ acc.destination.mint = vault.mint
        /\ acc.source.owner = acc.owner /\ acc.source.mint = PoolMint(p)
        /\ vault \in {Vault0(p), Vault1(p)}
        /\ acc.fee_account = amm[p].pool_fee_account
        /\ f \in Nat /\ k \in U64 /\ f \in WithdrawFee(acc, acc.source, k)
        /\ k + f <= maximum
        /\ \E d \in TradeDirection :
             /\ vault = IF d = "AtoB" THEN Vault0(p) ELSE Vault1(p)
             /\ k \in CurveWithdrawSingle(n, bal[Vault0(p)], bal[Vault1(p)], Supply(p), d,
                                         amm[p].fees)
        /\ supply' = [supply EXCEPT ![PoolMint(p)] = Supply(p) - k]
        /\ \A v \in TokenAccounts :
             /\ bal[v] \in Int
             /\ bal'[v] = bal[v] - At(v, acc.source, f) + At(v, acc.fee_account, f)
                            - At(v, acc.source, k)
                            - At(v, vault, n) + At(v, acc.destination, n)

LEMMA WithdrawSingleEffect ==
    ASSUME TypeOK, OpenedInv, NEW acc \in WithdrawSingleAccounts, NEW n \in U64,
           NEW maximum \in U64, WithdrawSingle(acc, n, maximum)
    PROVE  \E vault, f, k : WithdrawSingleMoves(acc, n, maximum, vault, f, k)
<1> DEFINE p == acc.amm
           m == acc.pool_mint
           source == acc.source
           dest == acc.destination
           signers == {acc.owner, SeedSigner(p)}
           side(d) == IF d = "AtoB" THEN acc.swap_token_a ELSE acc.swap_token_b
           charged(f) == IF f = 0 THEN bal ELSE Transfer(bal, source, acc.fee_account, f)
           burned(f, k) == Burn(charged(f), source, k)
<1>1. /\ p \in Pools /\ acc.owner \in Users
      /\ source \in TokenAccounts /\ acc.fee_account \in TokenAccounts
      /\ dest \in TokenAccounts /\ bal \in Balances
  BY DEF WithdrawSingleAccounts, TypeOK
<1>2. PICK d, f, k :
        /\ d \in SideOf(dest, acc.swap_token_a, acc.swap_token_b)
        /\ k \in CurveWithdrawSingle(n, bal[acc.swap_token_a], bal[acc.swap_token_b], supply[m],
                                    d, amm[p].fees)
        /\ WithdrawSingleAccountsHold(acc, d)
        /\ f \in WithdrawFee(acc, source, k) /\ k + f \in 1 .. maximum
        /\ f # 0 => CanTransfer(bal, source, acc.fee_account, f, acc.owner, {acc.owner})
        /\ CanBurn(charged(f), supply[m], source, k, m, acc.owner, {acc.owner})
        /\ CanTransfer(burned(f, k), side(d), dest, n, Authority(p), signers)
        /\ bal' = Transfer(burned(f, k), side(d), dest, n)
        /\ supply' = [supply EXCEPT ![m] = supply[m] - k]
  <2>1. PICK d \in SideOf(dest, acc.swap_token_a, acc.swap_token_b) :
          \E k \in CurveWithdrawSingle(n, bal[acc.swap_token_a], bal[acc.swap_token_b],
                                       supply[m], d, amm[p].fees) :
          \E f \in WithdrawFee(acc, source, k) :
            /\ WithdrawSingleAccountsHold(acc, d)
            /\ k + f \in 1 .. maximum
            /\ f # 0 => CanTransfer(bal, source, acc.fee_account, f, acc.owner, {acc.owner})
            /\ CanBurn(charged(f), supply[m], source, k, m, acc.owner, {acc.owner})
            /\ CanTransfer(burned(f, k), side(d), dest, n, Authority(p), signers)
            /\ bal' = Transfer(burned(f, k), side(d), dest, n)
            /\ supply' = [supply EXCEPT ![m] = supply[m] - k]
    BY DEF WithdrawSingle
  <2> HIDE DEF side, charged, burned
  <2> QED BY <2>1
<1>3. Live(p) /\ source.mint = m /\ dest.owner = acc.owner
  BY <1>2 DEF WithdrawSingleAccountsHold, WithdrawSingleConstraints, Live
<1>4. /\ acc.swap_token_a = Vault0(p) /\ acc.swap_token_b = Vault1(p)
      /\ m = PoolMint(p) /\ acc.fee_account = amm[p].pool_fee_account
  BY <1>1, <1>2, <1>3, OpenPoolAccounts DEF WithdrawSingleAccountsHold, CheckAccounts
<1> DEFINE vault == side(d)
<1>5. vault \in {Vault0(p), Vault1(p)} /\ vault \in TokenAccounts
  BY <1>1, <1>3, <1>4, OpenPoolAccounts
<1>11. d \in TradeDirection /\ vault = IF d = "AtoB" THEN Vault0(p) ELSE Vault1(p)
  BY <1>2, <1>4 DEF SideOf, TradeDirection, Some, None
<1>12. k \in CurveWithdrawSingle(n, bal[Vault0(p)], bal[Vault1(p)], Supply(p), d, amm[p].fees)
  BY <1>2, <1>4 DEF Supply
<1> HIDE DEF vault
<1>6. supply[m] \in U64 /\ supply[m] = Supply(p)
  BY <1>1, <1>4, ReservesAreNatural DEF Supply
<1>7. k \in U64
  BY <1>2 DEF CanBurn
<1>8. ASSUME NEW v \in TokenAccounts
      PROVE  /\ f \in Nat /\ dest.mint = vault.mint /\ source.owner = acc.owner
             /\ bal[v] \in Int
             /\ bal'[v] = bal[v] - At(v, source, f) + At(v, acc.fee_account, f)
                            - At(v, source, k) - At(v, vault, n) + At(v, dest, n)
  <2>1. /\ f \in Nat /\ charged(f) \in Balances /\ bal[v] \in Int
        /\ charged(f)[v] = bal[v] - At(v, source, f) + At(v, acc.fee_account, f)
    <3>1. f # 0 => CanTransfer(bal, source, acc.fee_account, f, acc.owner, {acc.owner})
      BY <1>2
    <3>2. charged(f) = IF f = 0 THEN bal ELSE Transfer(bal, source, acc.fee_account, f)
      OBVIOUS
    <3>3. source \in TokenAccounts /\ acc.fee_account \in TokenAccounts /\ bal \in Balances
      BY <1>1
    <3> HIDE DEF source, charged
    <3>4. CASE f = 0
      BY <3>2, <3>3, <3>4, U64Assumption DEF At, Balances, U64
    <3>5. CASE f # 0
      BY <3>1, <3>2, <3>3, <3>5, TransferEffect
    <3> QED BY <3>4, <3>5
  <2>2. /\ k \in Nat /\ source.owner = acc.owner /\ burned(f, k) \in Balances
        /\ burned(f, k)[v] = charged(f)[v] - At(v, source, k)
    <3>1. CanBurn(charged(f), supply[m], source, k, m, acc.owner, {acc.owner})
      BY <1>2
    <3>2. burned(f, k) = Burn(charged(f), source, k)
      OBVIOUS
    <3>3. source \in TokenAccounts /\ supply[m] \in U64
      BY <1>1, <1>6
    <3> HIDE DEF source, charged, burned, m
    <3> QED BY <2>1, <3>1, <3>2, <3>3, BurnEffect
  <2>3. /\ n \in Nat /\ vault.mint = dest.mint
        /\ bal'[v] = burned(f, k)[v] - At(v, vault, n) + At(v, dest, n)
    <3>1. /\ CanTransfer(burned(f, k), vault, dest, n, Authority(p), signers)
          /\ bal' = Transfer(burned(f, k), vault, dest, n)
      BY <1>2 DEF vault
    <3>2. dest \in TokenAccounts
      BY <1>1
    <3> HIDE DEF burned, dest, p, signers
    <3> QED BY <1>5, <2>2, <3>1, <3>2, TransferEffect
  <2> HIDE DEF charged, burned, source, dest, p
  <2>4. /\ At(v, source, f) \in Int /\ At(v, acc.fee_account, f) \in Int
        /\ At(v, source, k) \in Int /\ At(v, vault, n) \in Int /\ At(v, dest, n) \in Int
    BY <2>1, <2>2, <2>3 DEF At
  <2> QED BY <2>1, <2>2, <2>3, <2>4
<1>9. k + f <= maximum
  BY <1>2
<1>10. WithdrawSingleMoves(acc, n, maximum, vault, f, k)
  <2> DEFINE moved(v) == bal[v] - At(v, source, f) + At(v, acc.fee_account, f)
                           - At(v, source, k) - At(v, vault, n) + At(v, dest, n)
  <2>1. \A v \in TokenAccounts : bal[v] \in Int /\ bal'[v] = moved(v)
    BY <1>8
  <2>2. /\ f \in Nat /\ dest.mint = vault.mint
        /\ source.owner = acc.owner /\ source.mint = PoolMint(p)
    BY <1>1, <1>3, <1>4, <1>8
  <2> HIDE DEF moved
  <2>3. \A v \in TokenAccounts : bal[v] \in Int /\ bal'[v] = moved(v)
    BY <2>1
  <2>4. f \in WithdrawFee(acc, source, k)
    BY <1>2
  <2>5. supply' = [supply EXCEPT ![PoolMint(p)] = Supply(p) - k]
    BY <1>2, <1>4, <1>6
  <2> QED BY <1>1, <1>3, <1>4, <1>5, <1>7, <1>9, <1>11, <1>12, <2>2, <2>3, <2>4, <2>5
          DEF WithdrawSingleMoves, moved
<1> QED BY <1>10

\* withdraw_single takes at most the maximum and gives the amount named
LEMMA WithdrawSingleLimits ==
    ASSUME TypeOK, OpenedInv, NEW acc \in WithdrawSingleAccounts, NEW n \in U64,
           NEW maximum \in U64, WithdrawSingle(acc, n, maximum)
    PROVE  Paid(acc.source) <= maximum /\ Received(acc.destination) = n
<1> DEFINE p == acc.amm
           source == acc.source
           fee == acc.fee_account
           dest == acc.destination
<1>1. PICK vault, f, k : WithdrawSingleMoves(acc, n, maximum, vault, f, k)
  BY WithdrawSingleEffect
<1>2. /\ p \in Pools /\ Live(p) /\ acc.owner \in Users
      /\ source \in TokenAccounts /\ dest \in TokenAccounts
      /\ dest.owner = acc.owner /\ dest.mint = vault.mint
      /\ source.owner = acc.owner /\ source.mint = PoolMint(p)
      /\ vault \in {Vault0(p), Vault1(p)} /\ fee = amm[p].pool_fee_account
      /\ f \in Nat /\ k \in U64 /\ f \in WithdrawFee(acc, source, k) /\ k + f <= maximum
  BY <1>1 DEF WithdrawSingleMoves
<1>3. ASSUME NEW v \in TokenAccounts
      PROVE  /\ bal[v] \in Int
             /\ bal'[v] = bal[v] - At(v, source, f) + At(v, fee, f) - At(v, source, k)
                            - At(v, vault, n) + At(v, dest, n)
  BY <1>1 DEF WithdrawSingleMoves
<1>4. fee = source => f = 0
  BY <1>2 DEF WithdrawFee, Some
<1>5. source # vault /\ dest # vault /\ dest # source /\ dest # fee
  BY <1>2, OpenPoolAccounts
<1>6. n \in Nat /\ maximum \in Nat /\ k \in Nat
  BY <1>2, U64Assumption DEF U64
<1> HIDE DEF source, fee, dest
<1>7. Paid(source) <= maximum
  BY <1>2, <1>3, <1>4, <1>5, <1>6 DEF At, Paid
<1>8. Received(dest) = n
  BY <1>2, <1>3, <1>5, <1>6 DEF At, Received
<1> QED BY <1>7, <1>8 DEF source, dest

\* withdraw_single pays the pool's owner the fee on what it burns
LEMMA WithdrawSinglePaysTheOwner ==
    ASSUME TypeOK, OpenedInv, NEW acc \in WithdrawSingleAccounts, NEW n \in U64,
           NEW maximum \in U64, WithdrawSingle(acc, n, maximum),
           NEW p \in Pools, Supply(p)' < Supply(p)
    PROVE  LET fee_account == amm[p].pool_fee_account
               gained == bal'[fee_account] - bal[fee_account]
           IN  \/ gained < 0
               \/ \A fee \in OwnerWithdrawFee(amm[p].fees, Supply(p) - Supply(p)') :
                    gained >= fee
<1> DEFINE source == acc.source
           account == acc.fee_account
           dest == acc.destination
<1>1. PICK vault, f, k : WithdrawSingleMoves(acc, n, maximum, vault, f, k)
  BY WithdrawSingleEffect
<1>2. /\ acc.amm \in Pools /\ Live(acc.amm) /\ f \in Nat /\ k \in U64
      /\ supply' = [supply EXCEPT ![PoolMint(acc.amm)] = Supply(acc.amm) - k]
  BY <1>1 DEF WithdrawSingleMoves
<1>3. /\ n \in Nat /\ k \in Nat /\ Supply(acc.amm) \in Nat /\ Supply(p) \in Nat
  BY <1>2, ReservesAreNatural, U64Assumption DEF U64
<1>4. p = acc.amm /\ Supply(p)' = Supply(p) - k /\ Supply(p) - Supply(p)' = k
  <2>1. /\ Supply(acc.amm)' = Supply(acc.amm) - k
        /\ \A q \in Pools \ {acc.amm} : Supply(q)' = Supply(q)
    BY <1>2, OneSupply
  <2>2. p = acc.amm
    BY <1>3, <2>1
  <2> QED BY <1>3, <2>1, <2>2
<1>5. k > 0
  BY <1>3, <1>4
<1>6. /\ account = amm[p].pool_fee_account /\ account \in TokenAccounts
      /\ f \in WithdrawFee(acc, source, k)
      /\ vault \in {Vault0(p), Vault1(p)} /\ dest.mint = vault.mint
      /\ bal[account] \in Int
      /\ bal'[account] = bal[account] - At(account, source, f) + At(account, account, f)
                           - At(account, source, k)
                           - At(account, vault, n) + At(account, dest, n)
  BY <1>1, <1>4 DEF WithdrawSingleMoves
<1>7. /\ account # vault /\ account # dest
      /\ amm[p].fees.owner_withdraw_fee \in Fraction
  BY <1>2, <1>4, <1>6, OpenPoolAccounts DEF CurveFees
<1> DEFINE gained == bal'[account] - bal[account]
<1>8. gained = IF account = source THEN 0 - k ELSE f
  <2> HIDE DEF account, source, dest
  <2> QED BY <1>2, <1>3, <1>6, <1>7 DEF At
<1>9. ASSUME account # source, NEW fee \in OwnerWithdrawFee(amm[p].fees, k)
      PROVE  f >= fee
  <2>1. f \in CalculateFee(k, amm[p].fees.owner_withdraw_fee)
    BY <1>4, <1>6, <1>9 DEF WithdrawFee, OwnerWithdrawFee
  <2>2. fee \in CalculateFee(k, amm[p].fees.owner_withdraw_fee)
    BY <1>9 DEF OwnerWithdrawFee
  <2>3. /\ k >= k
        /\ AtLeastFraction(amm[p].fees.owner_withdraw_fee, amm[p].fees.owner_withdraw_fee)
    BY <1>3, <1>7, U64Assumption DEF AtLeastFraction, Fraction, U64
  <2> QED BY <1>2, <1>7, <2>1, <2>2, <2>3, FeesGrow
<1> HIDE DEF account
<1>10. account = source => gained < 0
  BY <1>3, <1>5, <1>8
<1> QED BY <1>4, <1>6, <1>8, <1>9, <1>10

\* minting lowers no supply
LEMMA MintingBurnsNothing ==
    ASSUME TypeOK, NEW m, NEW x \in Nat, supply' = [supply EXCEPT ![m] = supply[m] + x],
           NEW p \in Pools
    PROVE  ~(Supply(p)' < Supply(p))
<1>1. PoolMint(p) \in PoolMints /\ Supply(p) \in Nat
  BY ReservesAreNatural, U64Assumption DEF PoolMints, U64
<1>2. supply'[PoolMint(p)] =
        IF PoolMint(p) = m THEN supply[PoolMint(p)] + x ELSE supply[PoolMint(p)]
  BY <1>1 DEF TypeOK
<1> QED BY <1>1, <1>2 DEF Supply

\* only withdrawals burn pool tokens
LEMMA OnlyWithdrawalsBurn ==
    ASSUME TypeOK,
           AnInitPool \/ ASwap \/ ADepositAll \/ ADepositSingle \/ AUserTransfer
             \/ UNCHANGED vars,
           NEW p \in Pools
    PROVE  ~(Supply(p)' < Supply(p))
<1>1. CASE AnInitPool
  <2>1. PICK q \in Pools : /\ supply[PoolMint(q)] = 0
                           /\ supply' = [supply EXCEPT ![PoolMint(q)] = NewPoolSupply]
    BY ZenonT(60), <1>1 DEF AnInitPool, InitPool
  <2>2. NewPoolSupply \in Nat
    BY InitialAmountAssumption, U64Assumption DEF NewPoolSupply, U64
  <2>3. supply' = [supply EXCEPT ![PoolMint(q)] = supply[PoolMint(q)] + NewPoolSupply]
    BY <2>1, <2>2
  <2> QED BY <2>2, <2>3, MintingBurnsNothing
<1>2. CASE ASwap
  <2>1. PICK acc \in AccountLists.swap, n \in Amounts, minimum \in Limits : Swap(acc, n, minimum)
    BY <1>2 DEF ASwap
  <2>2. PICK t, k, paid, hosted :
          /\ k \in FeeMints(acc, t)
          /\ k.host # 0 => CanMintTo(paid, supply[acc.pool_mint], acc.host_fee_account, k.host,
                                     acc.pool_mint, Authority(acc.amm),
                                     {acc.owner, SeedSigner(acc.amm)})
          /\ t # 0 => CanMintTo(hosted, supply[acc.pool_mint] + k.host, acc.fee_account,
                                k.owner, acc.pool_mint, Authority(acc.amm),
                                {acc.owner, SeedSigner(acc.amm)})
          /\ supply' = [supply EXCEPT ![acc.pool_mint] =
                          supply[acc.pool_mint] + k.host + k.owner]
    BY ZenonT(60), <2>1 DEF Swap
  <2>3. k.host \in Nat /\ k.owner \in Nat
    BY <2>2, U64Assumption DEF CanMintTo, FeeMints, Some, U64
  <2>4. acc.pool_mint \in PoolMints
    BY <2>1, ClientAssumption DEF SwapAccounts
  <2>5. supply[acc.pool_mint] \in Nat
    BY <2>4, U64Assumption DEF TypeOK, U64
  <2>6. /\ k.host + k.owner \in Nat
        /\ supply[acc.pool_mint] + k.host + k.owner = supply[acc.pool_mint] + (k.host + k.owner)
    BY <2>3, <2>5
  <2> QED BY <2>2, <2>6, MintingBurnsNothing
<1>3. CASE ADepositAll
  <2>1. PICK acc, n, max_a, max_b : DepositAll(acc, n, max_a, max_b)
    BY <1>3 DEF ADepositAll
  <2>2. PICK x, paid :
          /\ CanMintTo(paid, supply[acc.pool_mint], acc.destination, x, acc.pool_mint,
                       Authority(acc.amm), {acc.owner, SeedSigner(acc.amm)})
          /\ supply' = [supply EXCEPT ![acc.pool_mint] = supply[acc.pool_mint] + x]
    BY <2>1 DEF DepositAll
  <2>3. x \in Nat
    BY <2>2, U64Assumption DEF CanMintTo, U64
  <2> QED BY <2>2, <2>3, MintingBurnsNothing
<1>4. CASE ADepositSingle
  <2>1. PICK acc, n, minimum : DepositSingle(acc, n, minimum)
    BY <1>4 DEF ADepositSingle
  <2>2. PICK x, paid :
          /\ CanMintTo(paid, supply[acc.pool_mint], acc.destination, x, acc.pool_mint,
                       Authority(acc.amm), {acc.owner, SeedSigner(acc.amm)})
          /\ supply' = [supply EXCEPT ![acc.pool_mint] = supply[acc.pool_mint] + x]
    BY <2>1 DEF DepositSingle
  <2>3. x \in Nat
    BY <2>2, U64Assumption DEF CanMintTo, U64
  <2> QED BY <2>2, <2>3, MintingBurnsNothing
<1>5. CASE AUserTransfer \/ UNCHANGED vars
  <2>1. supply' = supply
    BY <1>5 DEF AUserTransfer, UserTransfer, vars
  <2>2. Supply(p) \in Nat
    BY ReservesAreNatural, U64Assumption DEF U64
  <2> QED BY <2>1, <2>2 DEF Supply
<1> QED BY <1>1, <1>2, <1>3, <1>4, <1>5

-----------------------------------------------------------------------------
(* The theorems.                                                            *)

\* an amount a client names is a u64, and so is what an account holds
LEMMA ArgumentsAreU64 ==
    ASSUME TypeOK
    PROVE  /\ \A acc \in AccountLists.withdraw_all :
                Amounts \cup {bal[acc.source_info]} \subseteq U64
           /\ Amounts \subseteq U64 /\ Limits \subseteq U64
           /\ AccountLists.swap \subseteq SwapAccounts
           /\ AccountLists.deposit_all \subseteq DepositAllAccounts
           /\ AccountLists.deposit_single \subseteq DepositSingleAccounts
           /\ AccountLists.withdraw_all \subseteq WithdrawAllAccounts
           /\ AccountLists.withdraw_single \subseteq WithdrawSingleAccounts
<1>1. \A acc \in WithdrawAllAccounts : bal[acc.source_info] \in U64
  BY DEF WithdrawAllAccounts, TypeOK, Balances
<1> QED BY <1>1, ClientAssumption

\* In every build that pays side B its own amount, whoever calls an instruction
\* pays and receives what its limits allow, and exactly the amount it names where
\* it names one.
THEOREM CallersAreHeldToTheirLimits ==
    ASSUME SideBRepaired
    PROVE  Spec => CallersGetTheirLimits
<1>1. ASSUME TypeOK, LockInv, OpenedInv
      PROVE  SwapKeepsLimits /\ DepositsKeepLimits /\ WithdrawalsKeepLimits
  <2>1. "side_b" \in repairs
    BY <1>1 DEF SideBRepaired, TypeOK
  <2>2. SwapKeepsLimits
    BY <1>1, ArgumentsAreU64, SwapLimits DEF SwapKeepsLimits
  <2>3. DepositsKeepLimits
    BY <1>1, ArgumentsAreU64, DepositAllLimits, DepositSingleLimits DEF DepositsKeepLimits
  <2>4. WithdrawalsKeepLimits
    BY <1>1, <2>1, ArgumentsAreU64, WithdrawAllLimits, WithdrawSingleLimits
       DEF WithdrawalsKeepLimits
  <2> QED BY <2>2, <2>3, <2>4
<1>2. Init => LockInv
  BY DEF Init, LockInv, Live, NoAmm
<1> QED BY <1>1, <1>2, InitType, NextType, NextLock, InitOpened, NextOpened, PTL
        DEF Spec, CallersGetTheirLimits

\* In every build that pays side B its own amount, withdraw_all pays out of each
\* vault the share of the burnt pool tokens, rounded down by less than one token.
THEOREM WithdrawAllPaysItsShares ==
    ASSUME SideBRepaired
    PROVE  Spec => WithdrawAllPaysBothShares
<1>1. ASSUME TypeOK, OpenedInv, NEW acc \in AccountLists.withdraw_all,
             NEW n \in Amounts \cup {bal[acc.source_info]}, WithdrawAll(acc, n, 0, 0)
      PROVE  PaysShareOf(acc.vault_token_a, acc.amm) /\ PaysShareOf(acc.vault_token_b, acc.amm)
  <2>1. "side_b" \in repairs
    BY <1>1 DEF SideBRepaired, TypeOK
  <2>2. acc \in WithdrawAllAccounts /\ n \in U64
    BY <1>1, ArgumentsAreU64
  <2> QED BY <1>1, <2>1, <2>2, WithdrawAllPaysTheShares
<1>2. ASSUME TypeOK, OpenedInv
      PROVE  \A acc \in AccountLists.withdraw_all :
               \A n \in Amounts \cup {bal[acc.source_info]} :
                 Supply(acc.amm)' < Supply(acc.amm) /\ WithdrawAll(acc, n, 0, 0) =>
                   PaysShareOf(acc.vault_token_a, acc.amm) /\ PaysShareOf(acc.vault_token_b, acc.amm)
  BY <1>1, <1>2
<1> QED BY <1>2, InitType, NextType, InitOpened, NextOpened, PTL
        DEF Spec, WithdrawAllPaysBothShares

\* In every build, whoever takes liquidity out of a pool with one of the two
\* withdraw instructions pays the fee of that pool into the account recorded for
\* it, unless that account itself withdraws.
THEOREM EveryWithdrawalPays == Spec => EveryWithdrawalPaysTheOwner
<1> DEFINE OwnerIsPaid(p) ==
             LET fee_account == amm[p].pool_fee_account
                 gained == bal'[fee_account] - bal[fee_account]
             IN  \/ gained < 0
                 \/ \A fee \in OwnerWithdrawFee(amm[p].fees, Supply(p) - Supply(p)') :
                      gained >= fee
<1>1. ASSUME TypeOK, OpenedInv, [Next]_vars, NEW p \in Pools, Live(p), Supply(p)' < Supply(p)
      PROVE  OwnerIsPaid(p)
  <2>1. CASE AWithdrawAll
    <3>1. PICK acc \in AccountLists.withdraw_all, min_a \in Limits, min_b \in Limits :
            \E n \in Amounts \cup {bal[acc.source_info]} : WithdrawAll(acc, n, min_a, min_b)
      BY <2>1 DEF AWithdrawAll
    <3>2. PICK n \in U64 : WithdrawAll(acc, n, min_a, min_b)
      BY <1>1, <3>1, ArgumentsAreU64
    <3> QED BY <1>1, <3>2, ArgumentsAreU64, WithdrawAllPaysTheOwner
  <2>2. CASE AWithdrawSingle
    <3>1. PICK acc \in AccountLists.withdraw_single, n \in Amounts, maximum \in Limits :
            WithdrawSingle(acc, n, maximum)
      BY <2>2 DEF AWithdrawSingle
    <3> QED BY <1>1, <3>1, ArgumentsAreU64, WithdrawSinglePaysTheOwner
  <2>3. CASE AnInitPool \/ ASwap \/ ADepositAll \/ ADepositSingle \/ AUserTransfer
                \/ UNCHANGED vars
    BY <1>1, <2>3, OnlyWithdrawalsBurn
  <2> QED BY <1>1, <2>1, <2>2, <2>3 DEF Next
<1>2. ASSUME TypeOK, OpenedInv, [Next]_vars
      PROVE  \A p \in Pools : Live(p) /\ Supply(p)' < Supply(p) => OwnerIsPaid(p)
  BY <1>1, <1>2
<1> QED BY <1>2, InitType, NextType, InitOpened, NextOpened, PTL
        DEF Spec, EveryWithdrawalPaysTheOwner

-----------------------------------------------------------------------------
(* The worth of a pool token, to the grain of the fixed point.              *)

\* Half of the trade fee on what a provider takes out of one side would stay
\* with the pool although the provider's tokens are not charged for it.
SingleLeaversPayNoTradeFee ==
    \/ AccountLists.withdraw_single = {}
    \/ \A fees \in FeeSchedules : fees.trade_fee.numerator = 0

\* what WorthIsKeptToTheGrain says of one step
PoolsKeepWorth ==
    \A p \in Pools : Supply(p) > 0 => KeepsWorthToTheGrain(p, Supply(p)' - RoundedUp(p))

\* the numbers of a pool, before and after a step
LEMMA PoolNumbers ==
    ASSUME TypeOK, TypeOK', NEW p \in Pools
    PROVE  /\ bal[Vault0(p)] \in Nat /\ bal[Vault1(p)] \in Nat /\ Supply(p) \in Nat
           /\ bal'[Vault0(p)] \in Nat /\ bal'[Vault1(p)] \in Nat /\ Supply(p)' \in Nat
           /\ Product(p) \in Nat /\ Product(p)' \in Nat
           /\ Product(p)' = bal'[Vault0(p)] * bal'[Vault1(p)]
<1>1. bal[Vault0(p)] \in Nat /\ bal[Vault1(p)] \in Nat /\ Supply(p) \in Nat
  BY ReservesAreNatural, U64Assumption DEF U64
<1>2. PoolMint(p) \in PoolMints /\ Vault0(p) \in TokenAccounts /\ Vault1(p) \in TokenAccounts
  BY VaultsAreApart DEF PoolMints
<1>3. bal'[Vault0(p)] \in Nat /\ bal'[Vault1(p)] \in Nat /\ Supply(p)' \in Nat
  BY <1>2, U64Assumption DEF TypeOK, Balances, Supply, U64
<1> QED BY <1>1, <1>3 DEF Product

\* fewer pool tokens are worth less
LEMMA GrainOfFewer ==
    ASSUME NEW P \in Nat, NEW Q \in Nat, NEW S \in Nat, NEW t \in Nat, NEW u \in Nat, u <= t,
           ONE * P * t * t <= ((ONE + 3) * Q + 2 * P) * S * S
    PROVE  ONE * P * u * u <= ((ONE + 3) * Q + 2 * P) * S * S
<1>1. ONE \in Nat
  BY HalfOfOne
<1> DEFINE right == ((ONE + 3) * Q + 2 * P) * S * S
           w == ONE * P
<1>2. u * u <= t * t /\ u * u \in Nat /\ t * t \in Nat /\ w \in Nat
  BY <1>1, ProductsGrow
<1>3. w * (u * u) <= w * (t * t)
  <2> HIDE DEF w
  <2> QED BY <1>2, ProductsGrow
<1>4. /\ w * (u * u) = ONE * P * u * u /\ w * (t * t) = ONE * P * t * t
  BY <1>1
<1>5. w * (u * u) \in Int /\ w * (t * t) \in Int
  <2> HIDE DEF w
  <2> QED BY <1>2
<1>6. right \in Int
  <2>1. (ONE + 3) * Q + 2 * P \in Int
    BY <1>1
  <2> QED BY <2>1
<1> HIDE DEF w, right
<1>7. w * (u * u) <= right
  BY <1>3, <1>4, <1>5, <1>6 DEF right
<1> QED BY <1>4, <1>7 DEF right

\* worth that is kept exactly is kept to the grain
LEMMA ExactIsWithinTheGrain ==
    ASSUME NEW P \in Nat, NEW Q \in Nat, NEW S \in Nat, NEW t \in Nat,
           P * t * t <= Q * S * S
    PROVE  ONE * P * t * t <= ((ONE + 3) * Q + 2 * P) * S * S
<1>1. ONE \in Nat
  BY HalfOfOne
<1> DEFINE a == P * t * t
           b == Q * S * S
           c == P * S * S
<1>2. a \in Nat /\ b \in Nat /\ c \in Nat
  <2>1. P * t \in Nat /\ Q * S \in Nat /\ P * S \in Nat
    OBVIOUS
  <2> QED BY <2>1
<1>3. ONE * a <= ONE * b
  <2> HIDE DEF a, b
  <2>1. a <= b
    BY DEF a, b
  <2> QED BY <1>1, <1>2, <2>1, ProductsGrow
<1>4. /\ ONE * P * t * t = ONE * a
      /\ ((ONE + 3) * Q + 2 * P) * S * S = ONE * b + 3 * b + 2 * c
  BY <1>1
<1>5. ONE * a \in Nat /\ ONE * b \in Nat
  BY <1>1, <1>2
<1> HIDE DEF a, b, c
<1> QED BY <1>2, <1>3, <1>4, <1>5

\* It is enough to bound the pool tokens after the step, rounded up or not.
LEMMA GrainOfAll ==
    ASSUME TypeOK, TypeOK', NEW p \in Pools, Supply(p) > 0,
           KeepsWorthToTheGrain(p, Supply(p)')
    PROVE  KeepsWorthToTheGrain(p, Supply(p)' - RoundedUp(p))
<1> DEFINE u == Supply(p)' - RoundedUp(p)
<1>1. u \in Nat /\ u <= Supply(p)'
  BY PoolNumbers DEF RoundedUp
<1> HIDE DEF u
<1>2. KeepsWorthToTheGrain(p, u)
  BY <1>1, PoolNumbers, GrainOfFewer DEF KeepsWorthToTheGrain
<1> QED BY <1>2 DEF u

\* a pool whose tokens keep their worth exactly
LEMMA GrainOfExact ==
    ASSUME TypeOK, TypeOK', NEW p \in Pools, Supply(p) > 0, NEW t \in Nat,
           Product(p) * t * t <= Product(p)' * Supply(p) * Supply(p)
    PROVE  KeepsWorthToTheGrain(p, t)
BY PoolNumbers, ExactIsWithinTheGrain DEF KeepsWorthToTheGrain

\* a pool that nothing is taken from keeps its worth
LEMMA GrainOfGifts ==
    ASSUME TypeOK, TypeOK', NEW p \in Pools, Supply(p) > 0, Supply(p)' = Supply(p),
           bal'[Vault0(p)] >= bal[Vault0(p)], bal'[Vault1(p)] >= bal[Vault1(p)]
    PROVE  KeepsWorthToTheGrain(p, Supply(p)' - RoundedUp(p))
<1> DEFINE P == Product(p)
           Q == Product(p)'
           S == Supply(p)
<1>1. P \in Nat /\ Q \in Nat /\ S \in Nat
  BY PoolNumbers
<1>2. P <= Q
  BY PoolNumbers, ProductsGrow DEF Product
<1> HIDE DEF P, Q, S
<1>3. P * (S * S) <= Q * (S * S)
  <2>1. S * S \in Nat
    BY <1>1
  <2> QED BY <1>1, <1>2, <2>1, ProductsGrow
<1>4. P * S * S <= Q * S * S
  <2>1. P * (S * S) = P * S * S /\ Q * (S * S) = Q * S * S
    BY <1>1
  <2> QED BY <1>3, <2>1
<1>5. KeepsWorthToTheGrain(p, Supply(p)')
  BY <1>1, <1>4, GrainOfExact DEF P, Q, S
<1> QED BY <1>5, GrainOfAll

\* a step of SharePool keeps every worth exactly
LEMMA PoolStepsKeepWorth ==
    ASSUME TypeOK, TypeOK', Pool!Next \/ UNCHANGED Pool!vars
    PROVE  PoolsKeepWorth
<1> SUFFICES ASSUME NEW p \in Pools, Supply(p) > 0
             PROVE  KeepsWorthToTheGrain(p, Supply(p)' - RoundedUp(p))
  BY DEF PoolsKeepWorth
<1>1. \/ Pool!Open(p) \/ Pool!Join(p) \/ Pool!Leave(p) \/ Pool!Trade(p) \/ Pool!Gift(p)
      \/ Pool!Untouched(p)
  <2>1. CASE UNCHANGED Pool!vars
    BY <2>1 DEF Pool!vars, Pool!Untouched
  <2>2. CASE Pool!Next
    BY <2>2 DEF Pool!Next
  <2> QED BY <2>1, <2>2
<1>2. Supply(p) \in Nat /\ Supply(p)' \in Nat
  BY PoolNumbers
<1>3. CASE Pool!Open(p)
  BY <1>3 DEF Pool!Open
<1>4. CASE Pool!Join(p) \/ Pool!Leave(p)
  <2>1. Product(p) * Supply(p)' * Supply(p)' <= Product(p)' * Supply(p) * Supply(p)
    <3>1. Pool!KeepsWorth(p, Supply(p), Supply(p)')
      BY <1>4 DEF Pool!Join, Pool!Leave
    <3>2. /\ Product(p)' * Supply(p) * Supply(p) >= Product(p) * Supply(p)' * Supply(p)'
      BY <3>1 DEF Pool!KeepsWorth, Pool!Product, Product
    <3> QED BY <3>2
  <2>2. KeepsWorthToTheGrain(p, Supply(p)')
    BY <1>2, <2>1, GrainOfExact
  <2> QED BY <2>2, GrainOfAll
<1>5. CASE Pool!Trade(p)
  <2>1. CASE Supply(p)' = Supply(p)
    <3>1. Product(p)' >= Product(p)
      BY <1>5 DEF Pool!Trade, Pool!Product, Product
    <3> DEFINE P == Product(p)
               Q == Product(p)'
               S == Supply(p)
    <3>2. P \in Nat /\ Q \in Nat /\ S \in Nat /\ P <= Q
      BY <3>1, PoolNumbers
    <3>3. KeepsWorthToTheGrain(p, Supply(p)')
      <4> HIDE DEF P, Q, S
      <4>1. S * S \in Nat
        BY <3>2
      <4>2. P * (S * S) <= Q * (S * S)
        BY <3>2, <4>1, ProductsGrow
      <4>3. P * (S * S) = P * S * S /\ Q * (S * S) = Q * S * S
        BY <3>2
      <4>4. P * S * S <= Q * S * S
        BY <4>2, <4>3
      <4> QED BY <2>1, <3>2, <4>4, GrainOfExact DEF P, Q, S
    <3> QED BY <3>3, GrainOfAll
  <2>2. CASE Supply(p)' # Supply(p)
    <3>1. /\ ~Pool!ReservesGrow(p) /\ Supply(p)' > Supply(p)
          /\ Pool!KeepsWorth(p, Supply(p), Supply(p)' - 1)
      BY <1>5, <2>2 DEF Pool!Trade
    <3>2. RoundedUp(p) = 1
      BY <3>1, PoolNumbers DEF Pool!ReservesGrow, RoundedUp, VaultFalls
    <3> DEFINE u == Supply(p)' - 1
    <3>3. u \in Nat /\ u = Supply(p)' - RoundedUp(p)
      BY <1>2, <3>1, <3>2
    <3>4. Product(p) * u * u <= Product(p)' * Supply(p) * Supply(p)
      <4>1. Product(p)' * Supply(p) * Supply(p) >= Product(p) * u * u
        BY <3>1 DEF Pool!KeepsWorth, Pool!Product, Product
      <4> QED BY <4>1
    <3> HIDE DEF u
    <3>5. KeepsWorthToTheGrain(p, u)
      BY <3>3, <3>4, GrainOfExact
    <3> QED BY <3>3, <3>5
  <2> QED BY <2>1, <2>2
<1>6. CASE Pool!Gift(p)
  BY <1>6, GrainOfGifts DEF Pool!Gift, Pool!ReservesGrow
<1>7. CASE Pool!Untouched(p)
  <2>1. /\ bal'[Vault0(p)] = bal[Vault0(p)] /\ bal'[Vault1(p)] = bal[Vault1(p)]
        /\ Supply(p)' = Supply(p)
    BY <1>7 DEF Pool!Untouched
  <2>2. bal'[Vault0(p)] >= bal[Vault0(p)] /\ bal'[Vault1(p)] >= bal[Vault1(p)]
    BY <2>1, PoolNumbers
  <2> QED BY <2>1, <2>2, GrainOfGifts
<1> QED BY <1>1, <1>3, <1>4, <1>5, <1>6, <1>7

\* A pool one of whose reserves moves, from r to next, while u pool tokens remain.
LEMMA GrainOfOneSide ==
    ASSUME TypeOK, TypeOK', NEW p \in Pools, Supply(p) > 0,
           NEW vault, NEW other, <<vault, other>> \in {<<Vault0(p), Vault1(p)>>, <<Vault1(p), Vault0(p)>>},
           bal'[other] = bal[other], NEW u \in Nat,
           (u * u) * (bal[vault] * ONE)
             <= (Supply(p) * Supply(p)) * (bal'[vault] * ONE + 2 * bal[vault])
    PROVE  KeepsWorthToTheGrain(p, u)
<1> DEFINE r == bal[vault]
           next == bal'[vault]
           o == bal[other]
           S == Supply(p)
<1>1. r \in Nat /\ next \in Nat /\ o \in Nat /\ S \in Nat
  BY PoolNumbers
<1>2. Product(p) = r * o /\ Product(p)' = next * o
  <2>1. CASE vault = Vault0(p) /\ other = Vault1(p)
    BY <2>1, PoolNumbers DEF Product
  <2>2. CASE vault = Vault1(p) /\ other = Vault0(p)
    <3>1. Product(p) = o * r /\ Product(p)' = o * next
      BY <2>2, PoolNumbers DEF Product
    <3>2. o * r = r * o /\ o * next = next * o
      BY <1>1
    <3> QED BY <3>1, <3>2
  <2> QED BY <2>1, <2>2
<1>3. (u * u) * (r * ONE) <= (S * S) * (next * ONE + 2 * r)
  OBVIOUS
<1> HIDE DEF r, next, o, S
<1>4. ONE * (r * o) * u * u <= ((ONE + 3) * (next * o) + 2 * (r * o)) * S * S
  BY <1>1, <1>3, OneSidedGrain
<1> QED BY <1>2, <1>4 DEF KeepsWorthToTheGrain, S

\* the side of a pool a single-sided instruction works on
LEMMA TheSideOfAPool ==
    ASSUME NEW p \in Pools, NEW d,
           NEW vault, vault = IF d = "AtoB" THEN Vault0(p) ELSE Vault1(p)
    PROVE  \E other : <<vault, other>> \in {<<Vault0(p), Vault1(p)>>, <<Vault1(p), Vault0(p)>>}
OBVIOUS

\* deposit_single only adds to one vault
LEMMA DepositSingleVaults ==
    ASSUME TypeOK, TypeOK', OpenedInv, NEW acc \in DepositSingleAccounts, NEW n \in U64,
           NEW minimum \in U64, NEW vault, NEW minted,
           DepositSingleMoves(acc, n, minimum, vault, minted),
           NEW q \in Pools, NEW v \in {Vault0(q), Vault1(q)}
    PROVE  bal[v] \in Nat /\ bal'[v] = bal[v] + At(v, vault, n)
<1> DEFINE src == acc.source
           dest == acc.destination
<1>1. /\ acc.owner \in Users /\ src.owner = acc.owner /\ dest.owner = acc.owner
      /\ n \in Nat /\ minted \in Nat
  BY U64Assumption DEF DepositSingleMoves, U64
<1>2. v \in TokenAccounts /\ v # src /\ v # dest
  BY <1>1, VaultsAreApart
<1>3. /\ bal[v] \in Nat
      /\ bal'[v] = bal[v] - At(v, src, n) + At(v, vault, n) + At(v, dest, minted)
  BY <1>2, PoolNumbers DEF DepositSingleMoves
<1> HIDE DEF src, dest
<1> QED BY <1>1, <1>2, <1>3 DEF At

\* deposit_single
LEMMA DepositSingleKeepsWorth ==
    ASSUME NoWiderThanTheProgram, TypeOK, TypeOK', OpenedInv, NEW acc \in DepositSingleAccounts,
           NEW n \in U64, NEW minimum \in U64, DepositSingle(acc, n, minimum)
    PROVE  PoolsKeepWorth
<1> DEFINE p == acc.amm
           src == acc.source
           dest == acc.destination
<1>1. PICK vault, minted : DepositSingleMoves(acc, n, minimum, vault, minted)
  BY DepositSingleEffect
<1>2. /\ p \in Pools /\ Live(p) /\ acc.owner \in Users
      /\ src.owner = acc.owner /\ dest.owner = acc.owner
      /\ n \in Nat /\ minted \in Nat
      /\ supply' = [supply EXCEPT ![PoolMint(p)] = Supply(p) + minted]
  BY <1>1, U64Assumption DEF DepositSingleMoves, U64
<1>3. PICK d \in TradeDirection :
        /\ vault = IF d = "AtoB" THEN Vault0(p) ELSE Vault1(p)
        /\ Supply(p) > 0 =>
             minted \in CurveDepositSingle(n, bal[Vault0(p)], bal[Vault1(p)], Supply(p), d,
                                           amm[p].fees)
  BY <1>1 DEF DepositSingleMoves
<1>4. /\ Supply(p)' = Supply(p) + minted
      /\ \A q \in Pools \ {p} : Supply(q)' = Supply(q)
  BY <1>2, OneSupply
<1>5. ASSUME NEW q \in Pools, NEW v \in {Vault0(q), Vault1(q)}
      PROVE  bal[v] \in Nat /\ bal'[v] = bal[v] + At(v, vault, n)
  BY <1>1, DepositSingleVaults
<1> SUFFICES ASSUME NEW q \in Pools, Supply(q) > 0
             PROVE  KeepsWorthToTheGrain(q, Supply(q)' - RoundedUp(q))
  BY DEF PoolsKeepWorth
<1>6. CASE q # p
  <2>1. bal'[Vault0(q)] >= bal[Vault0(q)] /\ bal'[Vault1(q)] >= bal[Vault1(q)]
    BY <1>2, <1>5 DEF At
  <2> QED BY <1>4, <1>6, <2>1, GrainOfGifts
<1>7. CASE q = p
  <2>1. vault \in {Vault0(p), Vault1(p)}
    BY <1>3
  <2>2. PICK other : <<vault, other>> \in {<<Vault0(p), Vault1(p)>>, <<Vault1(p), Vault0(p)>>}
    BY <1>2, <1>3, TheSideOfAPool
  <2> DEFINE r == bal[vault]
             S == Supply(p)
             u == S + minted
  <2>3. r \in Nat /\ bal'[vault] = r + n /\ bal'[other] = bal[other]
    <3>1. other \in {Vault0(p), Vault1(p)} /\ other # vault
      BY <1>2, <2>2, VaultsAreApart
    <3> QED BY <1>2, <1>5, <2>1, <3>1 DEF At
  <2>4. r = SwapSourceAmount(bal[Vault0(p)], bal[Vault1(p)], d)
    BY <1>3 DEF SwapSourceAmount
  <2>5. S \in Nat /\ u \in Nat /\ bal[Vault0(p)] \in Nat /\ bal[Vault1(p)] \in Nat
        /\ amm[p].fees \in CurveFees /\ ONE \in Nat
    BY <1>2, PoolNumbers, OpenPoolAccounts, HalfOfOne
  <2>6. (u * u) * (r * ONE) <= (S * S) * ((r + n) * ONE + 2 * r)
    <3>1. CASE r = 0
      <4>1. (u * u) * (r * ONE) = 0
        BY <2>5, <3>1
      <4>2. (r + n) * ONE + 2 * r \in Nat /\ S * S \in Nat
        BY <1>2, <2>3, <2>5
      <4> HIDE DEF r, S, u
      <4> QED BY <4>1, <4>2
    <3>2. CASE r # 0
      <4>1. minted \in CurveDepositSingle(n, bal[Vault0(p)], bal[Vault1(p)], S, d, amm[p].fees)
        BY <1>3, <1>7
      <4> HIDE DEF r, S
      <4> QED BY <2>4, <2>5, <3>2, <4>1, CurveDepositSingleWithin
    <3> QED BY <3>1, <3>2
  <2>7. KeepsWorthToTheGrain(p, u)
    <3>1. (u * u) * (bal[vault] * ONE) <= (S * S) * (bal'[vault] * ONE + 2 * bal[vault])
      <4> HIDE DEF u, S
      <4> QED BY <2>3, <2>6
    <3>2. Supply(p) > 0 /\ p \in Pools /\ bal'[other] = bal[other] /\ u \in Nat
      BY <1>2, <1>7, <2>3, <2>5
    <3> HIDE DEF u, p
    <3> QED BY SMTT(60), <2>2, <3>1, <3>2, GrainOfOneSide
  <2>8. KeepsWorthToTheGrain(p, Supply(p)')
    BY <1>4, <2>7
  <2> QED BY <1>2, <1>7, <2>8, GrainOfAll
<1> QED BY <1>6, <1>7

\* withdraw_single only takes from one vault
LEMMA WithdrawSingleVaults ==
    ASSUME TypeOK, TypeOK', OpenedInv, NEW acc \in WithdrawSingleAccounts, NEW n \in U64,
           NEW maximum \in U64, NEW vault, NEW f, NEW k,
           WithdrawSingleMoves(acc, n, maximum, vault, f, k),
           NEW q \in Pools, NEW v \in {Vault0(q), Vault1(q)}
    PROVE  bal[v] \in Nat /\ bal'[v] = bal[v] - At(v, vault, n)
<1> DEFINE p == acc.amm
           src == acc.source
           dest == acc.destination
           fee == acc.fee_account
<1>1. /\ p \in Pools /\ Live(p) /\ acc.owner \in Users
      /\ src.owner = acc.owner /\ dest.owner = acc.owner /\ fee = amm[p].pool_fee_account
      /\ k \in Nat /\ n \in Nat /\ f \in Nat
  BY U64Assumption DEF WithdrawSingleMoves, U64
<1>2. fee.owner \in Users
  BY <1>1, OpenPoolAccounts
<1>3. v \in TokenAccounts /\ v # src /\ v # dest /\ v # fee
  BY <1>1, <1>2, VaultsAreApart
<1>4. /\ bal[v] \in Nat
      /\ bal'[v] = bal[v] - At(v, src, f) + At(v, fee, f)
                     - At(v, src, k) - At(v, vault, n) + At(v, dest, n)
  BY <1>3, PoolNumbers DEF WithdrawSingleMoves
<1> HIDE DEF src, dest, fee
<1> QED BY <1>1, <1>3, <1>4 DEF At

\* withdraw_single
LEMMA WithdrawSingleKeepsWorth ==
    ASSUME NoWiderThanTheProgram, TypeOK, TypeOK', OpenedInv, NEW acc \in WithdrawSingleAccounts,
           \A fees \in FeeSchedules : fees.trade_fee.numerator = 0,
           NEW n \in U64, NEW maximum \in U64, WithdrawSingle(acc, n, maximum)
    PROVE  PoolsKeepWorth
<1> DEFINE p == acc.amm
           src == acc.source
           dest == acc.destination
           fee == acc.fee_account
<1>1. PICK vault, f, k : WithdrawSingleMoves(acc, n, maximum, vault, f, k)
  BY WithdrawSingleEffect
<1>2. /\ p \in Pools /\ Live(p) /\ acc.owner \in Users
      /\ src.owner = acc.owner /\ dest.owner = acc.owner /\ fee = amm[p].pool_fee_account
      /\ k \in Nat /\ n \in Nat /\ f \in Nat
      /\ supply' = [supply EXCEPT ![PoolMint(p)] = Supply(p) - k]
  BY <1>1, U64Assumption DEF WithdrawSingleMoves, U64
<1>3. PICK d \in TradeDirection :
        /\ vault = IF d = "AtoB" THEN Vault0(p) ELSE Vault1(p)
        /\ k \in CurveWithdrawSingle(n, bal[Vault0(p)], bal[Vault1(p)], Supply(p), d,
                                     amm[p].fees)
  BY <1>1 DEF WithdrawSingleMoves
<1>4. /\ Supply(p)' = Supply(p) - k
      /\ \A q \in Pools \ {p} : Supply(q)' = Supply(q)
  BY <1>2, OneSupply
<1>5. ASSUME NEW q \in Pools, NEW v \in {Vault0(q), Vault1(q)}
      PROVE  bal[v] \in Nat /\ bal'[v] = bal[v] - At(v, vault, n)
  BY <1>1, WithdrawSingleVaults
<1> SUFFICES ASSUME NEW q \in Pools, Supply(q) > 0
             PROVE  KeepsWorthToTheGrain(q, Supply(q)' - RoundedUp(q))
  BY DEF PoolsKeepWorth
<1>6. CASE q # p
  <2>1. bal'[Vault0(q)] >= bal[Vault0(q)] /\ bal'[Vault1(q)] >= bal[Vault1(q)]
    <3>1. Vault0(q) # vault /\ Vault1(q) # vault
      BY <1>2, <1>3, <1>6, VaultsAreApart
    <3> QED BY <1>2, <1>5, <3>1 DEF At
  <2> QED BY <1>4, <1>6, <2>1, GrainOfGifts
<1>7. CASE q = p
  <2>1. vault \in {Vault0(p), Vault1(p)}
    BY <1>3
  <2>2. PICK other : <<vault, other>> \in {<<Vault0(p), Vault1(p)>>, <<Vault1(p), Vault0(p)>>}
    BY <1>2, <1>3, TheSideOfAPool
  <2> DEFINE r == bal[vault]
             S == Supply(p)
             u == S - k
  <2>3. r \in Nat /\ bal'[vault] = r - n /\ bal'[vault] \in Nat /\ bal'[other] = bal[other]
    <3>1. other \in {Vault0(p), Vault1(p)} /\ other # vault
      BY <1>2, <2>2, VaultsAreApart
    <3>2. bal'[vault] \in Nat
      BY <1>2, <2>1, PoolNumbers
    <3> QED BY <1>2, <1>5, <2>1, <3>1, <3>2 DEF At
  <2>4. r = SwapSourceAmount(bal[Vault0(p)], bal[Vault1(p)], d)
    BY <1>3 DEF SwapSourceAmount
  <2>5. S \in Nat /\ u \in Nat /\ k <= S /\ bal[Vault0(p)] \in Nat /\ bal[Vault1(p)] \in Nat
        /\ amm[p].fees \in CurveFees /\ amm[p].fees.trade_fee.numerator = 0 /\ ONE \in Nat
    <3>1. Supply(p)' \in Nat /\ Supply(p) \in Nat
      BY <1>2, PoolNumbers
    <3>2. amm[p].fees.trade_fee.numerator = 0
      <4>1. PICK payer \in Users, fees \in FeeSchedules : amm[p] = NewAmm(p, payer, fees)
        BY <1>2 DEF OpenedInv
      <4> QED BY <4>1 DEF NewAmm
    <3> QED BY <1>2, <1>4, <3>1, <3>2, PoolNumbers, OpenPoolAccounts, HalfOfOne
  <2>6. (u * u) * (r * ONE) <= (S * S) * ((r - n) * ONE + 2 * r)
    <3>1. CASE r = 0
      <4>1. (u * u) * (r * ONE) = 0
        BY <2>5, <3>1
      <4>2. (r - n) * ONE + 2 * r \in Nat /\ S * S \in Nat
        BY <1>2, <2>3, <2>5
      <4> HIDE DEF r, S, u
      <4> QED BY <4>1, <4>2
    <3>2. CASE r # 0
      <4>1. k \in CurveWithdrawSingle(n, bal[Vault0(p)], bal[Vault1(p)], S, d, amm[p].fees)
        BY <1>3
      <4>2. n <= r
        BY <1>2, <2>3
      <4> HIDE DEF r, S
      <4> QED BY <2>4, <2>5, <3>2, <4>1, <4>2, CurveWithdrawSingleWithin
    <3> QED BY <3>1, <3>2
  <2>7. KeepsWorthToTheGrain(p, u)
    <3>1. (u * u) * (bal[vault] * ONE) <= (S * S) * (bal'[vault] * ONE + 2 * bal[vault])
      <4> HIDE DEF u, S
      <4> QED BY <2>3, <2>6
    <3>2. Supply(p) > 0 /\ p \in Pools /\ bal'[other] = bal[other] /\ u \in Nat
      BY <1>2, <1>7, <2>3, <2>5
    <3> HIDE DEF u, p
    <3> QED BY SMTT(60), <2>2, <3>1, <3>2, GrainOfOneSide
  <2>8. KeepsWorthToTheGrain(p, Supply(p)')
    BY <1>4, <2>7
  <2> QED BY <1>2, <1>7, <2>8, GrainOfAll
<1> QED BY <1>6, <1>7

\* Two factors may change places.
LEMMA ProductOfTheVaults ==
    ASSUME TypeOK, TypeOK', NEW p \in Pools, NEW src \in {Vault0(p), Vault1(p)},
           NEW dst \in {Vault0(p), Vault1(p)}, src # dst
    PROVE  Product(p) = bal[src] * bal[dst] /\ Product(p)' = bal'[src] * bal'[dst]
<1>1. /\ bal[Vault0(p)] \in Nat /\ bal[Vault1(p)] \in Nat
      /\ bal'[Vault0(p)] \in Nat /\ bal'[Vault1(p)] \in Nat
      /\ Product(p) = bal[Vault0(p)] * bal[Vault1(p)]
      /\ Product(p)' = bal'[Vault0(p)] * bal'[Vault1(p)]
  BY PoolNumbers DEF Product
<1>2. CASE src = Vault0(p)
  BY <1>1, <1>2
<1>3. CASE src = Vault1(p) /\ dst = Vault0(p)
  <2>1. /\ bal[Vault0(p)] * bal[Vault1(p)] = bal[Vault1(p)] * bal[Vault0(p)]
        /\ bal'[Vault0(p)] * bal'[Vault1(p)] = bal'[Vault1(p)] * bal'[Vault0(p)]
    BY <1>1
  <2> QED BY <1>1, <1>3, <2>1
<1> QED BY <1>2, <1>3

\* swap pays into one vault and out of the other, and mints into no vault but
\* one that would be named as the host's account
LEMMA SwapVaults ==
    ASSUME TypeOK, TypeOK', OpenedInv, NEW acc \in SwapAccounts, NEW n \in U64,
           NEW minimum \in U64, NEW r, NEW t, NEW k, SwapMoves(acc, n, minimum, r, t, k),
           NEW q \in Pools, NEW v \in {Vault0(q), Vault1(q)}
    PROVE  /\ bal[v] \in Nat
           /\ bal'[v] = bal[v] + At(v, acc.swap_source, r.source_amount_swapped)
                          - At(v, acc.swap_destination, r.destination_amount_swapped)
                          + At(v, acc.host_fee_account, k.host)
<1> DEFINE p == acc.amm
           from == acc.vault_source_info
           to == acc.vault_destination_info
           src == acc.swap_source
           dst == acc.swap_destination
           host == acc.host_fee_account
           fee == acc.fee_account
           in == r.source_amount_swapped
           out == r.destination_amount_swapped
<1>1. /\ p \in Pools /\ Live(p) /\ acc.owner \in Users
      /\ from.owner = acc.owner /\ to.owner = acc.owner /\ fee = amm[p].pool_fee_account
      /\ in \in Nat /\ out \in Nat /\ k.host \in Nat /\ k.owner \in Nat
  BY DEF SwapMoves
<1>2. fee.owner \in Users
  <2> HIDE DEF fee, p
  <2> QED BY <1>1, OpenPoolAccounts
<1>3. v \in TokenAccounts /\ v # from /\ v # to /\ v # fee
  BY <1>1, <1>2, VaultsAreApart
<1>4. /\ bal[v] \in Nat
      /\ bal'[v] = bal[v] - At(v, from, in) + At(v, src, in) + At(v, host, k.host)
                     + At(v, fee, k.owner) - At(v, dst, out) + At(v, to, out)
  BY <1>3, PoolNumbers DEF SwapMoves
<1> HIDE DEF from, to, fee, src, dst, host, in, out
<1>5. bal'[v] = bal[v] + At(v, src, in) - At(v, dst, out) + At(v, host, k.host)
  BY <1>1, <1>3, <1>4 DEF At
<1> QED BY <1>4, <1>5 DEF src, dst, host, in, out

\* swap
LEMMA SwapKeepsWorth ==
    ASSUME NoWiderThanTheProgram, TypeOK, TypeOK', LockInv, OpenedInv, NEW acc \in SwapAccounts,
           NEW n \in U64, NEW minimum \in U64, Swap(acc, n, minimum)
    PROVE  PoolsKeepWorth
<1> DEFINE p == acc.amm
           from == acc.vault_source_info
           to == acc.vault_destination_info
           src == acc.swap_source
           dst == acc.swap_destination
           host == acc.host_fee_account
           fee == acc.fee_account
<1>1. PICK r, t, k : SwapMoves(acc, n, minimum, r, t, k)
  BY SwapEffect
<1> DEFINE in == r.source_amount_swapped
           out == r.destination_amount_swapped
<1>2. /\ p \in Pools /\ Live(p) /\ acc.owner \in Users
      /\ from.owner = acc.owner /\ to.owner = acc.owner
      /\ src \in {Vault0(p), Vault1(p)} /\ dst \in {Vault0(p), Vault1(p)} /\ src # dst
      /\ acc.pool_mint = PoolMint(p) /\ fee = amm[p].pool_fee_account
      /\ k.host # 0 => host.mint = PoolMint(p)
  BY <1>1 DEF SwapMoves
<1>3. /\ in \in Nat /\ in <= n /\ out \in Nat
      /\ k.host \in Nat /\ k.owner \in Nat /\ k.host + k.owner = t
      /\ r \in CurveSwap(n, bal[src], bal[dst], amm[p].fees)
      /\ t \in OwnerFeePoolTokens(acc, r)
      /\ supply' = [supply EXCEPT ![PoolMint(p)] = Supply(p) + t]
  BY <1>1 DEF SwapMoves
<1>4. /\ Supply(p)' = Supply(p) + t
      /\ \A q \in Pools \ {p} : Supply(q)' = Supply(q)
  BY <1>2, <1>3, OneSupply
<1>5. ASSUME NEW q \in Pools, NEW v \in {Vault0(q), Vault1(q)}
      PROVE  /\ bal[v] \in Nat
             /\ bal'[v] = bal[v] + At(v, src, in) - At(v, dst, out) + At(v, host, k.host)
  BY <1>1, SwapVaults
<1> HIDE DEF in, out, src, dst, host, fee
<1> SUFFICES ASSUME NEW q \in Pools, Supply(q) > 0
             PROVE  KeepsWorthToTheGrain(q, Supply(q)' - RoundedUp(q))
  BY DEF PoolsKeepWorth
<1>6. CASE q # p
  <2>1. ASSUME NEW v \in {Vault0(q), Vault1(q)} PROVE bal'[v] >= bal[v]
    <3>1. v # src /\ v # dst
      BY <1>2, <1>6, VaultsAreApart
    <3> QED BY <1>3, <1>5, <3>1 DEF At
  <2> QED BY <1>4, <1>6, <2>1, GrainOfGifts
<1>7. CASE q = p
  <2> DEFINE a == bal[src]
             b == bal[dst]
             S == Supply(p)
             X == a + in
             y == b - out
             o == r.owner_fee
             d == SwapDirection(acc)
  <2>1. /\ bal[src] \in Nat /\ bal[dst] \in Nat
        /\ bal'[src] = bal[src] + in /\ bal'[dst] = bal[dst] - out
        /\ amm[p].fees \in CurveFees
    <3>1. k.host # 0 => host # src /\ host # dst
      <4>1. src.mint # PoolMint(p) /\ dst.mint # PoolMint(p)
        BY <1>2, OpenPoolAccounts
      <4> QED BY <1>2, <4>1
    <3>2. amm[p].fees \in CurveFees
      BY <1>2, OpenPoolAccounts
    <3>3. /\ bal[src] \in Nat
          /\ bal'[src] = bal[src] + At(src, src, in) - At(src, dst, out) + At(src, host, k.host)
      BY <1>2, <1>5
    <3>4. /\ bal[dst] \in Nat
          /\ bal'[dst] = bal[dst] + At(dst, src, in) - At(dst, dst, out) + At(dst, host, k.host)
      BY <1>2, <1>5
    <3> QED BY <1>2, <1>3, <3>1, <3>2, <3>3, <3>4 DEF At
  <2>2. /\ out \in 1 .. b - 1 /\ o \in 0 .. in /\ r.new_swap_source_amount = X
        /\ (X - o) * y >= a * b
    BY <1>3, <2>1, OwnerFeeIsExtra DEF in, out
  <2>3. Product(p) = a * b /\ Product(p)' = X * y
    <3>1. Product(p) = bal[src] * bal[dst] /\ Product(p)' = bal'[src] * bal'[dst]
      BY <1>2, ProductOfTheVaults
    <3> QED BY <2>1, <3>1
  <2>4. a \in Nat /\ b \in Nat /\ S \in Nat /\ S > 0 /\ X \in Nat /\ y \in Nat /\ ONE \in Nat
        /\ a * b \in Nat /\ X * y \in Nat
    <3>1. Supply(p) \in Nat /\ Supply(p) > 0
      BY <1>2, <1>7, PoolNumbers
    <3>2. X \in Nat /\ y \in Nat
      BY <1>3, <2>1, <2>2
    <3> HIDE DEF X, y
    <3> QED BY <2>1, <3>1, <3>2, HalfOfOne
  <2>5. CASE t = 0
    <3>1. Supply(p)' = Supply(p)
      BY <1>4, <2>4, <2>5
    <3>2. Product(p) <= Product(p)'
      <4>1. X - o \in Nat /\ X - o <= X
        BY <1>3, <2>1, <2>2
      <4> DEFINE z == X - o
      <4> HIDE DEF X, y, a, b, z
      <4>2. z * y <= X * y
        BY <2>4, <4>1, ProductsGrow DEF z
      <4>3. z * y \in Nat /\ z * y >= a * b
        <5>1. z \in Nat
          BY <4>1 DEF z
        <5> QED BY <2>2, <2>4, <5>1 DEF z
      <4> QED BY <2>3, <2>4, <4>2, <4>3
    <3> DEFINE P == Product(p)
               Q == Product(p)'
    <3>3. P \in Nat /\ Q \in Nat /\ P <= Q
      BY <2>3, <2>4, <3>2
    <3>4. KeepsWorthToTheGrain(p, Supply(p)')
      <4> HIDE DEF P, Q, S
      <4>1. S * S \in Nat
        BY <2>4
      <4>2. P * (S * S) <= Q * (S * S)
        BY <3>3, <4>1, ProductsGrow
      <4>3. P * (S * S) = P * S * S /\ Q * (S * S) = Q * S * S
        BY <2>4, <3>3
      <4>4. P * S * S <= Q * S * S
        BY <4>2, <4>3
      <4> QED BY <1>2, <2>4, <3>1, <4>4, GrainOfExact DEF P, Q, S
    <3> QED BY <1>2, <1>7, <3>4, GrainOfAll
  <2>6. CASE t # 0
    <3> DEFINE u == S + t - 1
               at_a == IF d = "AtoB" THEN r.new_swap_source_amount
                                     ELSE r.new_swap_destination_amount
               at_b == IF d = "AtoB" THEN r.new_swap_destination_amount
                                     ELSE r.new_swap_source_amount
    <3>1. t \in Nat /\ t >= 1 /\ u \in Nat
      <4>1. k.host \in Nat /\ k.owner \in Nat /\ k.host + k.owner = t
        BY <1>3
      <4>2. t \in Nat /\ t >= 1
        BY <2>6, <4>1
      <4>3. S \in Nat
        BY <2>4
      <4> HIDE DEF S
      <4> QED BY <4>2, <4>3
    <3>2. t \in CurveWithdrawSingle(o, at_a, at_b, S, d, amm[p].fees)
      BY <1>2, <1>3 DEF OwnerFeePoolTokens, Supply
    <3>3. o # 0
      BY <2>6, <3>2 DEF CurveWithdrawSingle, Some
    <3>4. o \in U64 /\ X \in Nat \ {0} /\ o <= X
      BY <1>3, <2>1, <2>2, <3>3, U64Assumption DEF U64
    <3>5. X = SwapSourceAmount(at_a, at_b, d)
      BY <2>2 DEF SwapSourceAmount
    <3>6. ONE * (a * b) * u * u <= ((ONE + 3) * (X * y)) * S * S
      <4> HIDE DEF X, y, u, a, b, S, o, d, at_a, at_b
      <4>1. (X - o) * y >= a * b /\ u = S + t - 1
        BY <2>2 DEF u
      <4> DEFINE pr == a * b
      <4>2. pr \in Nat /\ (X - o) * y >= pr
        BY <2>4, <4>1
      <4> HIDE DEF pr
      <4>3. ONE * pr * u * u <= ((ONE + 3) * (X * y)) * S * S
        BY SMTT(60), <2>1, <2>4, <3>1, <3>2, <3>4, <3>5, <4>1, <4>2, OwnerFeeGrain
      <4> QED BY <4>3 DEF pr
    <3>7. KeepsWorthToTheGrain(p, u)
      <4> DEFINE P == a * b
                 Q == X * y
                 left == ONE * P * u * u
                 w == (ONE + 3) * Q
      <4>1. left <= w * S * S
        BY <3>6
      <4>2. w * S * S + 2 * (P * (S * S)) = (w + 2 * P) * S * S
        <5>1. w \in Nat
          <6> HIDE DEF P, Q, a, b, X, y
          <6> QED BY <2>4 DEF P, Q
        <5> HIDE DEF w, P, S
        <5> QED BY <2>4, <5>1 DEF P
      <4>3. P \in Nat /\ P * (S * S) \in Nat /\ w * S * S \in Nat /\ left \in Int
        <5>1. w \in Nat /\ P \in Nat /\ ONE * P \in Nat
          <6> HIDE DEF P, Q, a, b, X, y
          <6> QED BY <2>4 DEF P, Q
        <5> HIDE DEF w, P, S, u
        <5>2. S * S \in Nat /\ w * S \in Nat /\ ONE * P * u \in Nat
          BY <2>4, <3>1, <5>1
        <5> QED BY <2>4, <3>1, <5>1, <5>2
      <4>4. left <= (w + 2 * P) * S * S
        <5> HIDE DEF left, w, P, S
        <5> QED BY <4>1, <4>2, <4>3
      <4> HIDE DEF a, b, X, y, S, u
      <4>5. ONE * Product(p) * u * u <= ((ONE + 3) * Product(p)' + 2 * Product(p)) * Supply(p) * Supply(p)
        BY <2>3, <4>4 DEF S
      <4> QED BY <4>5 DEF KeepsWorthToTheGrain
    <3>8. u = Supply(p)' - RoundedUp(p)
      <4>1. Supply(p)' > Supply(p) /\ VaultFalls(p)
        <5>1. bal'[dst] < bal[dst]
          <6>1. out >= 1
            BY <2>1, <2>2
          <6> QED BY <1>3, <2>1, <6>1
        <5>2. VaultFalls(p)
          BY <1>2, <5>1 DEF VaultFalls
        <5>3. S \in Nat /\ Supply(p)' = S + t
          BY <1>4, <2>4
        <5>4. Supply(p)' > S
          <6> HIDE DEF S
          <6> QED BY <3>1, <5>3
        <5> QED BY <5>2, <5>4
      <4>2. RoundedUp(p) = 1
        BY <4>1 DEF RoundedUp
      <4>3. Supply(p)' = S + t /\ S \in Nat
        BY <1>4, <2>4
      <4>4. u = Supply(p)' - 1
        <5> HIDE DEF S
        <5> QED BY <3>1, <4>3
      <4> HIDE DEF u
      <4> QED BY <4>2, <4>4
    <3> QED BY <1>7, <3>7, <3>8
  <2> QED BY <2>5, <2>6
<1> QED BY <1>6, <1>7

\* the other instructions, and what is paid from outside, are steps of SharePool
LEMMA NextOnBothTokens ==
    ASSUME "side_b" \in repairs, TypeOK, TypeOK', LockInv, [Next]_vars,
           ~(AWithdrawSingle \/ ADepositSingle \/ ASwap)
    PROVE  Pool!Next \/ UNCHANGED Pool!vars
<1>1. CASE AnInitPool
  <2>1. ASSUME NEW mint PROVE OpeningBalances(mint) \subseteq U64
    BY U64Assumption, ClientAssumption DEF OpeningBalances, U64
  <2> QED BY <1>1, <2>1, InitPoolOpens DEF AnInitPool
<1>2. CASE ADepositAll
  BY <1>2, ArgumentsAreU64, DepositAllJoins DEF ADepositAll
<1>3. CASE AWithdrawAll
  BY <1>3, ArgumentsAreU64, WithdrawAllLeaves DEF AWithdrawAll
<1>4. CASE AUserTransfer
  BY <1>4, UserTransferGives DEF AUserTransfer
<1>5. CASE UNCHANGED vars
  BY <1>5 DEF vars, Pool!vars, Supply
<1> QED BY <1>1, <1>2, <1>3, <1>4, <1>5 DEF Next

\* every step, of whatever kind, keeps the worth of every pool's tokens
LEMMA NextKeepsWorth ==
    ASSUME NoWiderThanTheProgram, SingleLeaversPayNoTradeFee, "side_b" \in repairs,
           TypeOK, TypeOK', LockInv, OpenedInv, [Next]_vars
    PROVE  PoolsKeepWorth
<1>1. CASE ASwap
  BY <1>1, ArgumentsAreU64, SwapKeepsWorth DEF ASwap
<1>2. CASE ADepositSingle
  BY <1>2, ArgumentsAreU64, DepositSingleKeepsWorth DEF ADepositSingle
<1>3. CASE AWithdrawSingle
  <2>1. \A fees \in FeeSchedules : fees.trade_fee.numerator = 0
    BY <1>3 DEF AWithdrawSingle, SingleLeaversPayNoTradeFee
  <2> QED BY <1>3, <2>1, ArgumentsAreU64, WithdrawSingleKeepsWorth DEF AWithdrawSingle
<1>4. CASE ~(AWithdrawSingle \/ ADepositSingle \/ ASwap)
  BY <1>4, NextOnBothTokens, PoolStepsKeepWorth
<1> QED BY <1>1, <1>2, <1>3, <1>4

\* In a program no wider than this one, in any build that pays side B its own
\* amount, no instruction on one token or on two costs the remaining pool tokens
\* more than the grain of the fixed point, and, where the owner's fee is minted,
\* less than one pool token: for any reserves, supply, amounts and fees, as long as
\* whoever withdraws one token pays no trade fee.
THEOREM ProvidersKeepTheirWorth ==
    ASSUME NoWiderThanTheProgram, SingleLeaversPayNoTradeFee
    PROVE  Spec => WorthIsKeptToTheGrain
<1>1. Init => LockInv
  BY DEF Init, LockInv, Live, NoAmm
<1>2. TypeOK /\ TypeOK' /\ LockInv /\ OpenedInv /\ [Next]_vars /\ "side_b" \in repairs =>
        PoolsKeepWorth
  BY NextKeepsWorth
<1>3. PoolsKeepWorth => 
        \A p \in Pools : Supply(p) > 0 => KeepsWorthToTheGrain(p, Supply(p)' - RoundedUp(p))
  BY DEF PoolsKeepWorth
<1> QED BY <1>1, <1>2, <1>3, InitType, NextType, NextLock, InitOpened, NextOpened, PTL
        DEF Spec, WorthIsKeptToTheGrain

-----------------------------------------------------------------------------
(* A reserve is lost only in a restart.                                     *)

\* withdraw_single takes a whole reserve only from somebody who holds the pool
LEMMA WithdrawSingleStaysLiquid ==
    ASSUME TypeOK, TypeOK', OpenedInv, LiquidityTwoSided,
           \A fees \in FeeSchedules : fees.trade_fee.numerator = 0,
           NEW acc \in WithdrawSingleAccounts,
           NEW n \in U64, NEW maximum \in U64, WithdrawSingle(acc, n, maximum),
           NEW q \in Pools, Supply(q) > 0, Supply(q)' > 0
    PROVE  bal'[Vault0(q)] > 0 /\ bal'[Vault1(q)] > 0
<1> DEFINE p == acc.amm
<1>1. PICK vault, f, k : WithdrawSingleMoves(acc, n, maximum, vault, f, k)
  BY WithdrawSingleEffect
<1>2. /\ p \in Pools /\ Live(p) /\ k \in Nat /\ n \in Nat
      /\ supply' = [supply EXCEPT ![PoolMint(p)] = Supply(p) - k]
  BY <1>1, U64Assumption DEF WithdrawSingleMoves, U64
<1>3. PICK d \in TradeDirection :
        /\ vault = IF d = "AtoB" THEN Vault0(p) ELSE Vault1(p)
        /\ k \in CurveWithdrawSingle(n, bal[Vault0(p)], bal[Vault1(p)], Supply(p), d,
                                     amm[p].fees)
  BY <1>1 DEF WithdrawSingleMoves
<1>4. bal[Vault0(q)] > 0 /\ bal[Vault1(q)] > 0
  BY DEF LiquidityTwoSided
<1>5. ASSUME NEW v \in {Vault0(q), Vault1(q)}
      PROVE  bal[v] \in Nat /\ bal'[v] \in Nat /\ bal'[v] = bal[v] - At(v, vault, n)
  BY <1>1, <1>5, WithdrawSingleVaults, PoolNumbers
<1> SUFFICES ASSUME NEW v \in {Vault0(q), Vault1(q)}, bal'[v] = 0 PROVE FALSE
  BY <1>5
<1>6. v = vault /\ n = bal[v] /\ n > 0
  BY <1>2, <1>4, <1>5 DEF At
<1>7. q = p
  BY <1>2, <1>3, <1>6, VaultsAreApart
<1>8. Supply(p)' = Supply(p) - k /\ Supply(p) \in Nat
  BY <1>2, OneSupply, PoolNumbers
<1>9. amm[p].fees \in CurveFees /\ amm[p].fees.trade_fee.numerator = 0
  <2>1. PICK payer \in Users, fees \in FeeSchedules : amm[p] = NewAmm(p, payer, fees)
    BY <1>2 DEF OpenedInv
  <2> QED BY <1>2, <2>1, OpenPoolAccounts DEF NewAmm
<1>10. n = SwapSourceAmount(bal[Vault0(p)], bal[Vault1(p)], d)
  BY <1>3, <1>6 DEF SwapSourceAmount
<1>11. PICK s \in LessHalfTradeFee(n, amm[p].fees) :
         k \in WithdrawSingleTokenTypeExactOut(s, n, Supply(p), "Ceiling")
  BY <1>3, <1>6, <1>10 DEF CurveWithdrawSingle
<1>12. s = n
  BY <1>9, LessHalfIsLess
<1>13. k = Supply(p)
  BY <1>2, <1>6, <1>8, <1>11, <1>12, TheWholeReserveBurnsAll
<1> QED BY <1>7, <1>8, <1>13

\* deposit_single only adds to a vault
LEMMA DepositSingleStaysLiquid ==
    ASSUME TypeOK, TypeOK', OpenedInv, LiquidityTwoSided, NEW acc \in DepositSingleAccounts,
           NEW n \in U64, NEW minimum \in U64, DepositSingle(acc, n, minimum),
           NEW q \in Pools, Supply(q) > 0
    PROVE  bal'[Vault0(q)] > 0 /\ bal'[Vault1(q)] > 0
<1>1. PICK vault, minted : DepositSingleMoves(acc, n, minimum, vault, minted)
  BY DepositSingleEffect
<1>2. n \in Nat
  BY U64Assumption DEF U64
<1>3. ASSUME NEW v \in {Vault0(q), Vault1(q)}
      PROVE  bal[v] \in Nat /\ bal'[v] >= bal[v] /\ bal'[v] \in Nat
  <2>1. bal[v] \in Nat /\ bal'[v] = bal[v] + At(v, vault, n)
    BY <1>1, DepositSingleVaults
  <2> QED BY <1>2, <2>1 DEF At
<1> QED BY <1>3 DEF LiquidityTwoSided

\* A trade leaves both reserves of its pool with something, whatever its supply.
LEMMA SwapStaysLiquid ==
    ASSUME TypeOK, TypeOK', LockInv, OpenedInv, NEW acc \in SwapAccounts,
           NEW n \in U64, NEW minimum \in U64, Swap(acc, n, minimum),
           NEW q \in Pools, q # acc.amm => bal[Vault0(q)] > 0 /\ bal[Vault1(q)] > 0
    PROVE  bal'[Vault0(q)] > 0 /\ bal'[Vault1(q)] > 0
<1> DEFINE src == acc.swap_source
           dst == acc.swap_destination
           host == acc.host_fee_account
<1>1. PICK r, t, k : SwapMoves(acc, n, minimum, r, t, k)
  BY SwapEffect
<1> DEFINE in == r.source_amount_swapped
           out == r.destination_amount_swapped
<1>2. /\ acc.amm \in Pools /\ src \in {Vault0(acc.amm), Vault1(acc.amm)}
      /\ dst \in {Vault0(acc.amm), Vault1(acc.amm)} /\ src # dst
      /\ in \in Nat /\ out \in Nat /\ k.host \in Nat
      /\ r \in CurveSwap(n, bal[src], bal[dst], amm[acc.amm].fees)
  BY <1>1 DEF SwapMoves
<1>3. bal[src] \in Nat /\ bal[dst] \in Nat
  BY <1>2, PoolNumbers
<1>4. bal[src] > 0 /\ out \in 1 .. bal[dst] - 1
  BY <1>2, <1>3, CurveSwapLeavesSome, TradesNeedASource
<1> HIDE DEF in, out, src, dst, host
<1>5. ASSUME NEW v \in {Vault0(q), Vault1(q)} PROVE bal'[v] > 0
  <2>1. bal[v] \in Nat /\ bal[v] > 0
    BY <1>2, <1>3, <1>4, PoolNumbers
  <2>2. bal'[v] = bal[v] + At(v, src, in) - At(v, dst, out) + At(v, host, k.host)
    BY <1>1, SwapVaults DEF src, dst, host, in, out
  <2>3. At(v, src, in) \in Nat /\ At(v, host, k.host) \in Nat
    BY <1>2 DEF At
  <2>4. At(v, dst, out) \in Nat /\ At(v, dst, out) < bal[v]
    BY <1>2, <1>3, <1>4, <2>1 DEF At
  <2> QED BY <2>1, <2>2, <2>3, <2>4
<1> QED BY <1>5

\* Only the pool an instruction names can open.
LEMMA SwapMintsForItsPool ==
    ASSUME TypeOK, LockInv, OpenedInv, NEW acc \in SwapAccounts,
           NEW n \in U64, NEW minimum \in U64, Swap(acc, n, minimum),
           NEW q \in Pools, q # acc.amm
    PROVE  Supply(q)' = Supply(q)
<1>1. PICK r, t, k : SwapMoves(acc, n, minimum, r, t, k)
  BY SwapEffect
<1> QED BY <1>1, OneSupply DEF SwapMoves

\* what PoolsOpenTwoSided says of one step
OpensTwoSided ==
    \A p \in Pools :
      Supply(p) = 0 /\ Supply(p)' > 0 => bal'[Vault0(p)] > 0 /\ bal'[Vault1(p)] > 0

\* the induction step of OnlyRestartsAreOneSided
LEMMA NextStaysLiquid ==
    ASSUME "side_b" \in repairs, SingleLeaversPayNoTradeFee, TypeOK, TypeOK', LockInv,
           OpenedInv, LiquidityTwoSided, [Next]_vars, OpensTwoSided \/ UNCHANGED vars
    PROVE  LiquidityTwoSided'
<1>1. CASE AWithdrawSingle \/ ADepositSingle \/ ASwap
  <2> SUFFICES ASSUME NEW q \in Pools, Supply(q)' > 0
               PROVE  bal'[Vault0(q)] > 0 /\ bal'[Vault1(q)] > 0
    BY DEF LiquidityTwoSided
  <2>1. CASE Supply(q) = 0
    <3>1. OpensTwoSided
      <4>1. CASE UNCHANGED vars
        <5>1. Supply(q)' = Supply(q)
          BY <4>1 DEF vars, Supply
        <5> QED BY <2>1, <5>1
      <4> QED BY <4>1
    <3> QED BY <2>1, <3>1 DEF OpensTwoSided
  <2>2. CASE Supply(q) > 0
    <3>1. CASE AWithdrawSingle
      <4>1. \A fees \in FeeSchedules : fees.trade_fee.numerator = 0
        BY <3>1 DEF AWithdrawSingle, SingleLeaversPayNoTradeFee
      <4>2. PICK acc \in AccountLists.withdraw_single, n \in Amounts, maximum \in Limits :
              WithdrawSingle(acc, n, maximum)
        BY <3>1 DEF AWithdrawSingle
      <4> QED BY <2>2, <4>1, <4>2, ArgumentsAreU64, WithdrawSingleStaysLiquid
    <3>2. CASE ADepositSingle
      BY <2>2, <3>2, ArgumentsAreU64, DepositSingleStaysLiquid DEF ADepositSingle
    <3>3. CASE ASwap
      <4>1. bal[Vault0(q)] > 0 /\ bal[Vault1(q)] > 0
        BY <2>2 DEF LiquidityTwoSided
      <4> QED BY <3>3, <4>1, ArgumentsAreU64, SwapStaysLiquid DEF ASwap
    <3> QED BY <1>1, <3>1, <3>2, <3>3
  <2> QED BY <2>1, <2>2, PoolNumbers
<1>2. CASE ~(AWithdrawSingle \/ ADepositSingle \/ ASwap)
  <2>1. PoolProofs!Next \/ UNCHANGED PoolProofs!vars
    BY <1>2, NextOnBothTokens, SameSteps
  <2>2. PoolProofs!BackedInv
    BY BackedIsTwoSided
  <2>3. PoolProofs!BackedInv'
    BY <2>1, <2>2, PoolProofs!NextBacked
  <2>4. (TypeOK => (PoolProofs!BackedInv <=> LiquidityTwoSided))'
    BY BackedIsTwoSided, PTL
  <2> QED BY <2>3, <2>4
<1> QED BY <1>1, <1>2

\* With side B repaired and no trade fee on what is taken out of one side, a pool
\* with pool tokens has both its tokens, whatever mixture of instructions and
\* gifts it has been through, unless it (re)opened without one of them: the
\* restart through deposit_single is the only way to lose a reserve.
THEOREM OnlyRestartsAreOneSided ==
    ASSUME SideBRepaired, SingleLeaversPayNoTradeFee
    PROVE  Spec /\ PoolsOpenTwoSided => []LiquidityTwoSided
<1>1. Init => LockInv /\ LiquidityTwoSided
  <2>1. ASSUME Init, NEW p \in Pools PROVE Supply(p) = 0
    BY <2>1 DEF Init, Supply, PoolMints
  <2> QED BY <2>1 DEF Init, LockInv, Live, NoAmm, LiquidityTwoSided
<1>2. TypeOK => "side_b" \in repairs
  BY DEF SideBRepaired, TypeOK
<1>3. TypeOK /\ TypeOK' /\ LockInv /\ OpenedInv /\ LiquidityTwoSided /\ [Next]_vars
        /\ [OpensTwoSided]_vars => LiquidityTwoSided'
  BY <1>2, NextStaysLiquid
<1>4. PoolsOpenTwoSided <=> [][OpensTwoSided]_vars
  BY PTL DEF PoolsOpenTwoSided, OpensTwoSided
<1> QED BY <1>1, <1>3, <1>4, InitType, NextType, NextLock, InitOpened, NextOpened, PTL DEF Spec

\* No instruction but a single-sided deposit opens a pool without one of its
\* tokens: neither init_pool, nor deposit_all with whatever the vaults hold, nor
\* a swap whose owner's fee would be the first pool tokens.
THEOREM OtherInstructionsOpenTwoSided ==
    ASSUME SideBRepaired, AccountLists.deposit_single = {}
    PROVE  Spec => PoolsOpenTwoSided
<1>1. Init => LockInv
  BY DEF Init, LockInv, Live, NoAmm
<1>2. ASSUME TypeOK, TypeOK', LockInv, OpenedInv, [Next]_vars
      PROVE  OpensTwoSided
  <2> SUFFICES ASSUME NEW q \in Pools, Supply(q) = 0, Supply(q)' > 0
               PROVE  bal'[Vault0(q)] > 0 /\ bal'[Vault1(q)] > 0
    BY DEF OpensTwoSided
  <2>1. CASE AWithdrawSingle
    <3>1. PICK acc \in AccountLists.withdraw_single, n \in Amounts, maximum \in Limits :
            WithdrawSingle(acc, n, maximum)
      BY <2>1 DEF AWithdrawSingle
    <3>2. PICK vault, f, k : WithdrawSingleMoves(acc, n, maximum, vault, f, k)
      BY <1>2, <3>1, ArgumentsAreU64, WithdrawSingleEffect
    <3>3. /\ acc.amm \in Pools /\ k \in Nat
          /\ supply' = [supply EXCEPT ![PoolMint(acc.amm)] = Supply(acc.amm) - k]
      BY <3>2, U64Assumption DEF WithdrawSingleMoves, U64
    <3>4. Supply(q)' <= Supply(q)
      <4>1. /\ Supply(acc.amm)' = Supply(acc.amm) - k
            /\ \A p \in Pools \ {acc.amm} : Supply(p)' = Supply(p)
        BY <1>2, <3>3, OneSupply
      <4> QED BY <1>2, <3>3, <4>1, PoolNumbers
    <3> QED BY <1>2, <3>4, PoolNumbers
  <2>2. CASE ASwap
    <3>1. PICK acc \in AccountLists.swap, n \in Amounts, minimum \in Limits :
            Swap(acc, n, minimum)
      BY <2>2 DEF ASwap
    <3>2. q = acc.amm
      BY <1>2, <3>1, ArgumentsAreU64, SwapMintsForItsPool
    <3> QED BY <1>2, <3>1, <3>2, ArgumentsAreU64, SwapStaysLiquid
  <2>3. CASE ADepositSingle
    BY <2>3 DEF ADepositSingle
  <2>4. CASE ~(AWithdrawSingle \/ ADepositSingle \/ ASwap)
    <3>1. Pool!Next \/ UNCHANGED Pool!vars
      <4>1. "side_b" \in repairs
        BY <1>2 DEF SideBRepaired, TypeOK
      <4> QED BY <1>2, <2>4, <4>1, NextOnBothTokens
    <3>2. \/ Pool!Open(q) \/ Pool!Join(q) \/ Pool!Leave(q) \/ Pool!Trade(q) \/ Pool!Gift(q)
          \/ Pool!Untouched(q)
      <4>1. CASE UNCHANGED Pool!vars
        BY <4>1 DEF Pool!vars, Pool!Untouched
      <4>2. CASE Pool!Next
        BY <4>2 DEF Pool!Next
      <4> QED BY <3>1, <4>1, <4>2
    <3>3. Pool!Open(q)
      BY <1>2, <3>2, PoolNumbers
         DEF Pool!Open, Pool!Join, Pool!Leave, Pool!Trade, Pool!Gift, Pool!Untouched
    <3> QED BY <3>3 DEF Pool!Open
  <2> QED BY <2>1, <2>2, <2>3, <2>4
<1>3. PoolsOpenTwoSided <=> [][OpensTwoSided]_vars
  BY PTL DEF PoolsOpenTwoSided, OpensTwoSided
<1> QED BY <1>1, <1>2, <1>3, InitType, NextType, NextLock, InitOpened, NextOpened, PTL DEF Spec
=============================================================================

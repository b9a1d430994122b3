----------------------------- MODULE AmmProofs ------------------------------
(***************************************************************************)
(* Theorems about Amm for every value of its constants.                     *)
(***************************************************************************)
EXTENDS AmmProperties, TLAPS

-----------------------------------------------------------------------------
(* The token program keeps every balance a u64.                             *)

\* a transfer the token program accepts keeps balances u64
LEMMA TransferType ==
    ASSUME NEW b \in Balances, NEW from \in TokenAccounts, NEW to \in TokenAccounts,
           NEW amount, NEW authority, NEW signers,
           CanTransfer(b, from, to, amount, authority, signers)
    PROVE  Transfer(b, from, to, amount) \in Balances
<1> DEFINE b1 == [b EXCEPT ![from] = @ - amount]
<1>1. U64Max \in Nat /\ amount \in U64 /\ amount <= b[from] /\ b \in [TokenAccounts -> U64]
  BY U64Assumption DEF CanTransfer, Balances
<1>2. b1 \in [TokenAccounts -> U64]
  BY <1>1 DEF U64
<1>3. b1[to] + amount \in U64
  <2>1. CASE from = to
    BY <1>1, <2>1 DEF U64
  <2>2. CASE from # to
    BY <1>1, <2>2 DEF U64, CanTransfer
  <2> QED BY <2>1, <2>2
<1>4. Transfer(b, from, to, amount) = [b1 EXCEPT ![to] = b1[to] + amount]
  BY DEF Transfer
<1> QED BY <1>2, <1>3, <1>4 DEF Balances

\* so does minting, and the supply stays a u64
LEMMA MintToType ==
    ASSUME NEW b \in Balances, NEW to \in TokenAccounts, NEW s \in U64,
           NEW amount, NEW mint, NEW authority, NEW signers,
           CanMintTo(b, s, to, amount, mint, authority, signers)
    PROVE  /\ MintTo(b, to, amount) \in Balances
           /\ amount \in U64
           /\ s + amount \in U64
BY U64Assumption DEF Balances, U64, CanMintTo, MintTo

\* so does burning
LEMMA BurnType ==
    ASSUME NEW b \in Balances, NEW from \in TokenAccounts, NEW s \in U64,
           NEW amount, NEW mint, NEW authority, NEW signers,
           CanBurn(b, s, from, amount, mint, authority, signers)
    PROVE  /\ Burn(b, from, amount) \in Balances
           /\ s - amount \in U64
BY U64Assumption DEF Balances, U64, CanBurn, Burn

\* a pool's accounts are token accounts, and nobody's wallet is a vault
LEMMA AccountsOfAPool ==
    ASSUME NEW p \in Pools, NEW u \in Users
    PROVE  /\ Vault0(p) \in Vaults
           /\ Vault1(p) \in Vaults
           /\ FeeAccount(p, u) \in FeeAccounts
           /\ Wallet(u, PoolMint(p)) \in Wallets
           /\ PoolMint(p) \in PoolMints
           /\ p[1] \in Mints
           /\ p[2] \in Mints
           /\ Wallet(u, PoolMint(p)) # Vault0(p)
           /\ Wallet(u, PoolMint(p)) # Vault1(p)
           /\ Vaults \subseteq TokenAccounts
           /\ FeeAccounts \subseteq TokenAccounts
           /\ Wallets \subseteq TokenAccounts
BY PoolsAssumption DEF Vaults, FeeAccounts, Wallets, PoolMints, TokenAccounts, Vault0, Vault1,
                       FeeAccount, Wallet, TokenAccount

-----------------------------------------------------------------------------
(* Every instruction keeps the types.                                       *)

\* init_pool: the vaults hold u64 amounts and the Amm account is well formed
LEMMA InitPoolType ==
    ASSUME TypeOK,
           NEW p \in Pools, NEW payer \in Users, NEW fees \in FeeSchedules, NEW curve_type,
           NEW amount0 \in U64, NEW amount1 \in U64,
           InitPool(p, payer, fees, curve_type, amount0, amount1)
    PROVE  TypeOK'
<1> DEFINE b0 == [bal EXCEPT ![Vault0(p)] = amount0, ![Vault1(p)] = amount1]
           w  == Wallet(payer, PoolMint(p))
<1>1. /\ Vault0(p) \in Vaults /\ Vault1(p) \in Vaults
      /\ FeeAccount(p, payer) \in FeeAccounts /\ PoolMint(p) \in PoolMints
      /\ w \in TokenAccounts /\ Vaults \subseteq TokenAccounts
      /\ p[1] \in Mints /\ p[2] \in Mints
      /\ w # Vault0(p) /\ w # Vault1(p)
  BY AccountsOfAPool
<1>2. b0 \in Balances /\ b0[w] = bal[w]
  BY <1>1 DEF TypeOK, Balances
<1>3. CanMintTo(b0, supply[PoolMint(p)], w, NewPoolSupply, PoolMint(p), Authority(p),
                {Authority(p)})
  BY <1>2 DEF InitPool, CanMintTo
<1>4. supply[PoolMint(p)] \in U64
  BY <1>1 DEF TypeOK
<1>5. MintTo(b0, w, NewPoolSupply) \in Balances /\ NewPoolSupply \in U64
  BY <1>1, <1>2, <1>3, <1>4, MintToType
<1>6. bal' \in Balances
  BY <1>5 DEF InitPool
<1>7. supply' \in [PoolMints -> U64]
  BY <1>5, <1>1 DEF InitPool, TypeOK
<1>8. NewAmm(p, payer, fees) \in AmmData
  BY <1>1, ClientAssumption DEF NewAmm, AmmData
<1>9. amm' \in [Pools -> AmmData \cup {NoAmm}] /\ repairs' \in Builds
  BY <1>8 DEF InitPool, TypeOK
<1> QED BY <1>6, <1>7, <1>9 DEF TypeOK

\* transfers outside the program
LEMMA UserTransferType ==
    ASSUME TypeOK, NEW u \in Users, NEW from \in TokenAccounts, NEW to \in TokenAccounts,
           NEW amount, UserTransfer(u, from, to, amount)
    PROVE  TypeOK'
BY TransferType DEF UserTransfer, TypeOK

\* deposit_all: two transfers and a mint
LEMMA DepositAllType ==
    ASSUME TypeOK, NEW acc \in DepositAllAccounts, NEW n, NEW max_a, NEW max_b,
           DepositAll(acc, n, max_a, max_b)
    PROVE  TypeOK'
<1> DEFINE m == acc.pool_mint
           minted == IF supply[m] = 0 THEN NewPoolSupply ELSE n
           paid_a(r) == Transfer(bal, acc.source_a_info, acc.vault_token_a, r.token_a_amount)
           paid_b(r) == Transfer(paid_a(r), acc.source_b_info, acc.vault_token_b,
                                 r.token_b_amount)
           signers == {acc.owner, SeedSigner(acc.amm)}
<1>1. /\ acc.source_a_info \in TokenAccounts /\ acc.source_b_info \in TokenAccounts
      /\ acc.vault_token_a \in TokenAccounts /\ acc.vault_token_b \in TokenAccounts
      /\ acc.destination \in TokenAccounts /\ m \in PoolMints
  BY DEF DepositAllAccounts
<1>2. PICK r :
        /\ CanTransfer(bal, acc.source_a_info, acc.vault_token_a, r.token_a_amount,
                       acc.owner, signers)
        /\ CanTransfer(paid_a(r), acc.source_b_info, acc.vault_token_b, r.token_b_amount,
                       acc.owner, signers)
        /\ CanMintTo(paid_b(r), supply[m], acc.destination, minted, m, Authority(acc.amm),
                     signers)
        /\ bal' = MintTo(paid_b(r), acc.destination, minted)
  BY DEF DepositAll
<1>3. supply[m] \in U64 /\ bal \in Balances
  BY <1>1 DEF TypeOK
<1>4. paid_a(r) \in Balances
  BY <1>1, <1>2, <1>3, TransferType
<1>5. paid_b(r) \in Balances
  BY <1>1, <1>2, <1>4, TransferType
<1>6. bal' \in Balances /\ supply[m] + minted \in U64
  <2> HIDE DEF minted, paid_b
  <2> QED BY <1>1, <1>2, <1>3, <1>5, MintToType
<1>7. supply' = [supply EXCEPT ![m] = supply[m] + minted] /\ UNCHANGED <<repairs, amm>>
  BY DEF DepositAll
<1> QED BY <1>1, <1>6, <1>7 DEF TypeOK

\* deposit_single: a transfer and a mint
LEMMA DepositSingleType ==
    ASSUME TypeOK, NEW acc \in DepositSingleAccounts, NEW n, NEW minimum,
           DepositSingle(acc, n, minimum)
    PROVE  TypeOK'
<1> DEFINE m == acc.pool_mint
           signers == {acc.owner, SeedSigner(acc.amm)}
           side(d) == IF d = "AtoB" THEN acc.swap_token_a ELSE acc.swap_token_b
<1>1. /\ acc.source \in TokenAccounts /\ acc.destination \in TokenAccounts
      /\ acc.swap_token_a \in TokenAccounts /\ acc.swap_token_b \in TokenAccounts
      /\ m \in PoolMints /\ supply[m] \in U64 /\ bal \in Balances
  BY DEF DepositSingleAccounts, TypeOK
<1>2. PICK d, minted :
        /\ CanTransfer(bal, acc.source, side(d), n, acc.owner, {acc.owner})
        /\ CanMintTo(Transfer(bal, acc.source, side(d), n), supply[m], acc.destination, minted,
                     m, Authority(acc.amm), signers)
        /\ bal' = MintTo(Transfer(bal, acc.source, side(d), n), acc.destination, minted)
        /\ supply' = [supply EXCEPT ![m] = supply[m] + minted]
  <2>1. PICK d \in SideOf(acc.source, acc.swap_token_a, acc.swap_token_b) :
          \E minted :
            /\ CanTransfer(bal, acc.source, side(d), n, acc.owner, {acc.owner})
            /\ CanMintTo(Transfer(bal, acc.source, side(d), n), supply[m], acc.destination,
                         minted, m, Authority(acc.amm), signers)
            /\ bal' = MintTo(Transfer(bal, acc.source, side(d), n), acc.destination, minted)
            /\ supply' = [supply EXCEPT ![m] = supply[m] + minted]
    BY DEF DepositSingle
  <2> QED BY <2>1
<1>3. side(d) \in TokenAccounts
  BY <1>1
<1> HIDE DEF side
<1>4. Transfer(bal, acc.source, side(d), n) \in Balances
  BY <1>1, <1>2, <1>3, TransferType
<1>5. bal' \in Balances /\ supply[m] + minted \in U64
  BY <1>1, <1>2, <1>4, MintToType
<1>6. UNCHANGED <<repairs, amm>>
  BY DEF DepositSingle
<1> QED BY <1>1, <1>2, <1>5, <1>6 DEF TypeOK

\* swap: a transfer, up to two mints of the owner fee, a transfer
LEMMA SwapType ==
    ASSUME TypeOK, NEW acc \in SwapAccounts, NEW n, NEW minimum, Swap(acc, n, minimum)
    PROVE  TypeOK'
<1> DEFINE m == acc.pool_mint
           signers == {acc.owner, SeedSigner(acc.amm)}
           authority == Authority(acc.amm)
           paid(r) == Transfer(bal, acc.vault_source_info, acc.swap_source,
                               r.source_amount_swapped)
           hosted(r, k) == IF k.host = 0 THEN paid(r)
                           ELSE MintTo(paid(r), acc.host_fee_account, k.host)
           minted(r, k, t) == IF t = 0 THEN hosted(r, k)
                              ELSE MintTo(hosted(r, k), acc.fee_account, k.owner)
<1>1. /\ acc.vault_source_info \in TokenAccounts /\ acc.vault_destination_info \in TokenAccounts
      /\ acc.swap_source \in TokenAccounts /\ acc.swap_destination \in TokenAccounts
      /\ acc.fee_account \in TokenAccounts
      /\ acc.host_fee_account # NoHost => acc.host_fee_account \in TokenAccounts
      /\ m \in PoolMints /\ supply[m] \in U64 /\ bal \in Balances
  BY DEF SwapAccounts, TypeOK
<1>2. PICK r, t, k :
        /\ k \in FeeMints(acc, t)
        /\ CanTransfer(bal, acc.vault_source_info, acc.swap_source, r.source_amount_swapped,
                       acc.owner, signers)
        /\ k.host # 0 => CanMintTo(paid(r), supply[m], acc.host_fee_account, k.host, m,
                                   authority, signers)
        /\ t # 0 => CanMintTo(hosted(r, k), supply[m] + k.host, acc.fee_account, k.owner, m,
                              authority, signers)
        /\ CanTransfer(minted(r, k, t), acc.swap_destination, acc.vault_destination_info,
                       r.destination_amount_swapped, authority, signers)
        /\ bal' = Transfer(minted(r, k, t), acc.swap_destination, acc.vault_destination_info,
                           r.destination_amount_swapped)
        /\ supply' = [supply EXCEPT ![m] = supply[m] + k.host + k.owner]
  BY ZenonT(60) DEF Swap
<1>3. t = 0 => k.host = 0 /\ k.owner = 0
  BY <1>2 DEF FeeMints, Some
<1>4. k.host # 0 => acc.host_fee_account \in TokenAccounts
  BY <1>1, <1>2 DEF FeeMints, Some
<1>5. paid(r) \in Balances
  BY <1>1, <1>2, TransferType
<1>6. hosted(r, k) \in Balances /\ supply[m] + k.host \in U64
  <2>1. CASE k.host = 0
    BY <1>1, <1>5, <2>1, U64Assumption DEF U64
  <2>2. CASE k.host # 0
    <3> HIDE DEF paid
    <3>1. CanMintTo(paid(r), supply[m], acc.host_fee_account, k.host, m, authority, signers)
      BY <1>2, <2>2
    <3>2. MintTo(paid(r), acc.host_fee_account, k.host) \in Balances
          /\ supply[m] + k.host \in U64
      BY <1>1, <1>4, <1>5, <2>2, <3>1, MintToType
    <3> QED BY <2>2, <3>2
  <2> QED BY <2>1, <2>2
<1>7. minted(r, k, t) \in Balances /\ supply[m] + k.host + k.owner \in U64
  <2> HIDE DEF paid, hosted
  <2>1. CASE t = 0
    BY <1>3, <1>6, <2>1, U64Assumption DEF U64
  <2>2. CASE t # 0
    BY <1>1, <1>2, <1>6, <2>2, MintToType
  <2> QED BY <2>1, <2>2
<1>8. bal' \in Balances
  <2> HIDE DEF minted
  <2> QED BY <1>1, <1>2, <1>7, TransferType
<1>9. UNCHANGED <<repairs, amm>>
  BY DEF Swap
<1> QED BY <1>1, <1>2, <1>7, <1>8, <1>9 DEF TypeOK

\* withdraw_all: the fee, a burn, up to two transfers
LEMMA WithdrawAllType ==
    ASSUME TypeOK, NEW acc \in WithdrawAllAccounts, NEW n, NEW min_a, NEW min_b,
           WithdrawAll(acc, n, min_a, min_b)
    PROVE  TypeOK'
<1> DEFINE m == acc.pool_mint
           signers == {acc.owner, SeedSigner(acc.amm)}
           authority == Authority(acc.amm)
           charged(f) == IF f = 0 THEN bal
                         ELSE Transfer(bal, acc.source_info, acc.fee_account, f)
           burned(f) == Burn(charged(f), acc.source_info, n - f)
           paid_a(f, a) == IF a = 0 THEN burned(f)
                           ELSE Transfer(burned(f), acc.vault_token_a, acc.dest_token_a_info, a)
           paid_b(f, a, b, c) ==
               IF b = 0 THEN paid_a(f, a)
               ELSE Transfer(paid_a(f, a), acc.vault_token_b, acc.dest_token_b_info, c)
<1>1. /\ acc.source_info \in TokenAccounts /\ acc.fee_account \in TokenAccounts
      /\ acc.vault_token_a \in TokenAccounts /\ acc.vault_token_b \in TokenAccounts
      /\ acc.dest_token_a_info \in TokenAccounts /\ acc.dest_token_b_info \in TokenAccounts
      /\ m \in PoolMints /\ supply[m] \in U64 /\ bal \in Balances
  BY DEF WithdrawAllAccounts, TypeOK
<1>2. PICK f, a, b, c :
        /\ f # 0 => CanTransfer(bal, acc.source_info, acc.fee_account, f, acc.owner,
                                {acc.owner})
        /\ CanBurn(charged(f), supply[m], acc.source_info, n - f, m, acc.owner, {acc.owner})
        /\ a # 0 => CanTransfer(burned(f), acc.vault_token_a, acc.dest_token_a_info, a,
                                authority, signers)
        /\ b # 0 => CanTransfer(paid_a(f, a), acc.vault_token_b, acc.dest_token_b_info, c,
                                authority, signers)
        /\ bal' = paid_b(f, a, b, c)
        /\ supply' = [supply EXCEPT ![m] = supply[m] - (n - f)]
  <2>1. PICK f \in WithdrawFee(acc, acc.source_info, n) :
          \E r \in PoolTokensToTradingTokens(n - f, supply[m], bal[acc.vault_token_a],
                                             bal[acc.vault_token_b], "Floor") :
          LET a == AtMost(bal[acc.vault_token_a], r.token_a_amount)
              b == AtMost(bal[acc.vault_token_b], r.token_b_amount)
              c == SideBPayment(a, b)
          IN  /\ f # 0 => CanTransfer(bal, acc.source_info, acc.fee_account, f, acc.owner,
                                      {acc.owner})
              /\ CanBurn(charged(f), supply[m], acc.source_info, n - f, m, acc.owner,
                         {acc.owner})
              /\ a # 0 => CanTransfer(burned(f), acc.vault_token_a, acc.dest_token_a_info, a,
                                      authority, signers)
              /\ b # 0 => CanTransfer(paid_a(f, a), acc.vault_token_b, acc.dest_token_b_info, c,
                                      authority, signers)
              /\ bal' = paid_b(f, a, b, c)
              /\ supply' = [supply EXCEPT ![m] = supply[m] - (n - f)]
    BY DEF WithdrawAll
  <2> HIDE DEF charged, burned, paid_a, paid_b
  <2> QED BY <2>1
<1>3. charged(f) \in Balances
  BY <1>1, <1>2, TransferType
<1>4. burned(f) \in Balances /\ supply[m] - (n - f) \in U64
  <2> HIDE DEF charged
  <2> QED BY <1>1, <1>2, <1>3, BurnType
<1>5. paid_a(f, a) \in Balances
  <2> HIDE DEF burned
  <2> QED BY <1>1, <1>2, <1>4, TransferType
<1>6. bal' \in Balances
  <2> HIDE DEF paid_a
  <2> QED BY <1>1, <1>2, <1>5, TransferType
<1>7. UNCHANGED <<repairs, amm>>
  BY DEF WithdrawAll
<1> QED BY <1>1, <1>2, <1>4, <1>6, <1>7 DEF TypeOK

\* withdraw_single: the fee, a burn, a transfer
LEMMA WithdrawSingleType ==
    ASSUME TypeOK, NEW acc \in WithdrawSingleAccounts, NEW n, NEW maximum,
           WithdrawSingle(acc, n, maximum)
    PROVE  TypeOK'
<1> DEFINE m == acc.pool_mint
           signers == {acc.owner, SeedSigner(acc.amm)}
           side(d) == IF d = "AtoB" THEN acc.swap_token_a ELSE acc.swap_token_b
           charged(f) == IF f = 0 THEN bal
                         ELSE Transfer(bal, acc.source, acc.fee_account, f)
           burned(f, k) == Burn(charged(f), acc.source, k)
<1>1. /\ acc.source \in TokenAccounts /\ acc.fee_account \in TokenAccounts
      /\ acc.swap_token_a \in TokenAccounts /\ acc.swap_token_b \in TokenAccounts
      /\ acc.destination \in TokenAccounts
      /\ m \in PoolMints /\ supply[m] \in U64 /\ bal \in Balances
  BY DEF WithdrawSingleAccounts, TypeOK
<1>2. PICK d, f, k :
        /\ f # 0 => CanTransfer(bal, acc.source, acc.fee_account, f, acc.owner, {acc.owner})
        /\ CanBurn(charged(f), supply[m], acc.source, k, m, acc.owner, {acc.owner})
        /\ CanTransfer(burned(f, k), side(d), acc.destination, n, Authority(acc.amm), signers)
        /\ bal' = Transfer(burned(f, k), side(d), acc.destination, n)
        /\ supply' = [supply EXCEPT ![m] = supply[m] - k]
  <2>1. PICK d \in SideOf(acc.destination, acc.swap_token_a, acc.swap_token_b) :
          \E k : \E f \in WithdrawFee(acc, acc.source, k) :
            /\ f # 0 => CanTransfer(bal, acc.source, acc.fee_account, f, acc.owner,
                                    {acc.owner})
            /\ CanBurn(charged(f), supply[m], acc.source, k, m, acc.owner, {acc.owner})
            /\ CanTransfer(burned(f, k), side(d), acc.destination, n, Authority(acc.amm),
                           signers)
            /\ bal' = Transfer(burned(f, k), side(d), acc.destination, n)
            /\ supply' = [supply EXCEPT ![m] = supply[m] - k]
    BY DEF WithdrawSingle
  <2> HIDE DEF side, charged, burned
  <2> QED BY <2>1
<1>3. charged(f) \in Balances
  BY <1>1, <1>2, TransferType
<1>4. burned(f, k) \in Balances /\ supply[m] - k \in U64
  <2> HIDE DEF charged
  <2> QED BY <1>1, <1>2, <1>3, BurnType
<1>5. bal' \in Balances
  <2> HIDE DEF burned
  <2> QED BY <1>1, <1>2, <1>4, TransferType
<1>6. UNCHANGED <<repairs, amm>>
  BY DEF WithdrawSingle
<1> QED BY <1>1, <1>2, <1>4, <1>5, <1>6 DEF TypeOK

-----------------------------------------------------------------------------
LEMMA InitType == Init => TypeOK
<1> SUFFICES ASSUME Init PROVE TypeOK
  OBVIOUS
<1>1. bal \in Balances
  <2> SUFFICES ASSUME NEW t \in TokenAccounts
               PROVE  (IF t.kind = "wallet" /\ t.mint \in Mints
                       THEN Endowment[<<t.owner, t.mint>>] ELSE 0) \in U64
    BY DEF Init, Balances
  <2>1. t.kind = "wallet" => t.owner \in Users
    BY DEF TokenAccounts, Vaults, FeeAccounts, Wallets, Vault0, Vault1, FeeAccount, Wallet,
           TokenAccount
  <2> QED BY <2>1, ClientAssumption, U64Assumption DEF U64
<1>2. supply \in [PoolMints -> U64]
  BY U64Assumption DEF Init, U64
<1> QED BY <1>1, <1>2 DEF Init, TypeOK

\* the induction step of TypeCorrect
LEMMA NextType == TypeOK /\ [Next]_vars => TypeOK'
<1> SUFFICES ASSUME TypeOK, [Next]_vars PROVE TypeOK'
  OBVIOUS
<1> USE ClientAssumption
<1>1. CASE AnInitPool
  <2>1. ASSUME NEW mint PROVE OpeningBalances(mint) \subseteq U64
    BY U64Assumption DEF OpeningBalances, U64
  <2> QED BY <1>1, <2>1, InitPoolType DEF AnInitPool
<1>2. CASE ASwap
  BY <1>2, SwapType DEF ASwap
<1>3. CASE ADepositAll
  BY <1>3, DepositAllType DEF ADepositAll
<1>4. CASE ADepositSingle
  BY <1>4, DepositSingleType DEF ADepositSingle
<1>5. CASE AWithdrawAll
  BY <1>5, WithdrawAllType DEF AWithdrawAll
<1>6. CASE AWithdrawSingle
  BY <1>6, WithdrawSingleType DEF AWithdrawSingle
<1>7. CASE AUserTransfer
  BY <1>7, UserTransferType DEF AUserTransfer
<1>8. CASE UNCHANGED vars
  BY <1>8 DEF vars, TypeOK
<1> QED BY <1>1, <1>2, <1>3, <1>4, <1>5, <1>6, <1>7, <1>8 DEF Next

\* No sequence of instructions and transfers takes a balance or a supply out
\* of the u64 range, or leaves an Amm account half filled.
THEOREM TypeCorrect == Spec => []TypeOK
BY InitType, NextType, PTL DEF Spec

-----------------------------------------------------------------------------
(* No instruction succeeds in the code as it stands.                        *)

\* A pool is open only in a build with funded vaults, its Amm account is the
\* one init_pool wrote, and until the program can sign for the vaults, nothing
\* has left them: both still hold tokens.
LockInv ==
    \A p \in Pools : Live(p) =>
      /\ "funded_vaults" \in repairs
      /\ \E payer \in Users, fees \in FeeSchedules : amm[p] = NewAmm(p, payer, fees)
      /\ "signer_seeds" \notin repairs => bal[Vault0(p)] > 0 /\ bal[Vault1(p)] > 0

\* an open pool's account names its own vaults
LEMMA VaultsOfALivePool ==
    ASSUME LockInv, NEW p \in Pools, Live(p)
    PROVE  /\ amm[p].token_a_account = Vault0(p)
           /\ amm[p].token_b_account = Vault1(p)
           /\ amm[p].token_a_mint = p[1]
<1>1. PICK payer \in Users, fees \in FeeSchedules : amm[p] = NewAmm(p, payer, fees)
  BY DEF LockInv
<1> QED BY <1>1 DEF NewAmm

\* two different mints cannot both be the native one, so a vault is empty
LEMMA InitPoolNeedsFundedVaults == AnInitPool => "funded_vaults" \in repairs
<1> SUFFICES ASSUME NEW p \in Pools, NEW payer, NEW fees, NEW curve_type,
                    NEW amount0 \in OpeningBalances(p[1]), NEW amount1 \in OpeningBalances(p[2]),
                    InitPool(p, payer, fees, curve_type, amount0, amount1),
                    "funded_vaults" \notin repairs
             PROVE  FALSE
  BY DEF AnInitPool
<1>1. p[1] # p[2] /\ amount0 # 0 /\ amount1 # 0
  BY DEF InitPool, ValidateSupply
<1> QED BY <1>1 DEF OpeningBalances

\* with_signer signs for the vaults' owner only in a build with its seeds
LEMMA OnlyRepairedSeedsSign ==
    ASSUME NEW p \in Pools, NEW u \in Users, Authority(p) \in {u, SeedSigner(p)}
    PROVE  "signer_seeds" \in repairs
BY UsersAssumption DEF SeedSigner, Authority, Pda

\* check_accounts passes only in a build that derives one authority
LEMMA OnlyOneAuthorityPasses ==
    ASSUME NEW p, NEW a, NEW b, NEW m, NEW ua, NEW ub, NEW f,
           CheckAccounts(p, a, b, m, ua, ub, f)
    PROVE  "authority_seeds" \in repairs
BY DEF CheckAccounts, AuthorityId, Authority, Pda

\* the address check of the deposits and withdrawals
LEMMA OnlyMintSeedsPass ==
    ASSUME LockInv, NEW p \in Pools, Live(p), AmmSeedsHold(p)
    PROVE  "funded_vaults" \in repairs /\ "amm_seeds" \in repairs
<1>1. SUFFICES ASSUME "amm_seeds" \notin repairs PROVE FALSE
  BY DEF LockInv
<1>2. p = <<p[1], Vault1(p)>>
  BY <1>1, VaultsOfALivePool DEF AmmSeedsHold, AmmKey, Pda
<1>3. p[2] \in Mints /\ Vault1(p) \in TokenAccounts
  BY PoolsAssumption DEF TokenAccounts, Vaults
<1>4. p[2] = Vault1(p)
  BY <1>2
<1> QED BY <1>3, <1>4, MintsAssumption

\* swap looks at the authority, the signer and the roles
LEMMA SwapNeeds ==
    ASSUME LockInv, NEW acc \in SwapAccounts, NEW n, NEW minimum, Swap(acc, n, minimum)
    PROVE  {"funded_vaults", "authority_seeds", "signer_seeds", "swap_roles"} \subseteq repairs
<1> DEFINE p == acc.amm
<1>1. p \in Pools /\ acc.owner \in Users
  BY DEF SwapAccounts
<1>2. Live(p) /\ SwapAccountsHold(acc)
  BY DEF Swap, SwapAccountsHold, Live
<1>3. "funded_vaults" \in repairs
  BY <1>1, <1>2 DEF LockInv
<1>4. "authority_seeds" \in repairs
  BY <1>2 DEF SwapAccountsHold, AuthorityId, Authority, Pda
<1>5. Authority(p) \in {acc.owner, SeedSigner(p)}
  BY DEF Swap, CanTransfer
<1>6. acc.swap_source \in {Vault0(p), Vault1(p)}
  BY <1>1, <1>2, VaultsOfALivePool DEF SwapAccountsHold
<1>7. acc.swap_source.owner = Authority(p)
  BY <1>6 DEF Vault0, Vault1, TokenAccount
<1>8. "swap_roles" \in repairs
  BY <1>1, <1>2, <1>7, UsersAssumption DEF SwapAccountsHold, SwapOwnersHold
<1> QED BY <1>1, <1>3, <1>4, <1>5, <1>8, OnlyRepairedSeedsSign

\* what the four deposits and withdrawals need
LiquidityRepairs == {"funded_vaults", "authority_seeds", "signer_seeds", "amm_seeds"}

\* deposit_all mints, so the program must sign
LEMMA DepositAllNeeds ==
    ASSUME LockInv, NEW acc \in DepositAllAccounts, NEW n, NEW max_a, NEW max_b,
           DepositAll(acc, n, max_a, max_b)
    PROVE  LiquidityRepairs \subseteq repairs
<1> DEFINE p == acc.amm
<1>1. p \in Pools /\ acc.owner \in Users
  BY DEF DepositAllAccounts
<1>2. Live(p) /\ AmmSeedsHold(p) /\ "authority_seeds" \in repairs
  BY OnlyOneAuthorityPasses DEF DepositAll, DepositAllAccountsHold, DepositAllConstraints, Live
<1>3. Authority(p) \in {acc.owner, SeedSigner(p)}
  BY DEF DepositAll, CanMintTo
<1> QED BY <1>1, <1>2, <1>3, OnlyMintSeedsPass, OnlyRepairedSeedsSign DEF LiquidityRepairs

\* deposit_single mints, so the program must sign
LEMMA DepositSingleNeeds ==
    ASSUME LockInv, NEW acc \in DepositSingleAccounts, NEW n, NEW minimum,
           DepositSingle(acc, n, minimum)
    PROVE  LiquidityRepairs \subseteq repairs
<1> DEFINE p == acc.amm
<1>1. p \in Pools /\ acc.owner \in Users
  BY DEF DepositSingleAccounts
<1>2. Live(p) /\ AmmSeedsHold(p) /\ "authority_seeds" \in repairs
  BY OnlyOneAuthorityPasses DEF DepositSingle, DepositSingleAccountsHold, DepositSingleConstraints, Live
<1>3. Authority(p) \in {acc.owner, SeedSigner(p)}
  BY DEF DepositSingle, CanMintTo
<1> QED BY <1>1, <1>2, <1>3, OnlyMintSeedsPass, OnlyRepairedSeedsSign DEF LiquidityRepairs

\* withdraw_all pays side A from a vault that is not empty until the program signs
LEMMA WithdrawAllNeeds ==
    ASSUME LockInv, NEW acc \in WithdrawAllAccounts, NEW n, NEW min_a, NEW min_b,
           WithdrawAll(acc, n, min_a, min_b)
    PROVE  LiquidityRepairs \subseteq repairs
<1> DEFINE p == acc.amm
<1>1. p \in Pools /\ acc.owner \in Users
  BY DEF WithdrawAllAccounts
<1>2. Live(p) /\ AmmSeedsHold(p) /\ "authority_seeds" \in repairs
  BY OnlyOneAuthorityPasses DEF WithdrawAll, WithdrawAllAccountsHold, WithdrawAllConstraints, Live
<1>3. acc.vault_token_a = Vault0(p)
  BY <1>1, <1>2, VaultsOfALivePool DEF WithdrawAll, WithdrawAllAccountsHold, WithdrawAllConstraints, CheckAccounts
<1>4. bal[Vault0(p)] = 0 \/ Authority(p) \in {acc.owner, SeedSigner(p)}
  BY <1>3 DEF WithdrawAll, CanTransfer
<1>5. "signer_seeds" \in repairs
  BY <1>1, <1>2, <1>4, OnlyRepairedSeedsSign DEF LockInv
<1> QED BY <1>1, <1>2, <1>5, OnlyMintSeedsPass DEF LiquidityRepairs

\* withdraw_single always makes a transfer from the vault
LEMMA WithdrawSingleNeeds ==
    ASSUME LockInv, NEW acc \in WithdrawSingleAccounts, NEW n, NEW maximum,
           WithdrawSingle(acc, n, maximum)
    PROVE  LiquidityRepairs \subseteq repairs
<1> DEFINE p == acc.amm
<1>1. p \in Pools /\ acc.owner \in Users
  BY DEF WithdrawSingleAccounts
<1>2. Live(p) /\ AmmSeedsHold(p) /\ "authority_seeds" \in repairs
  BY OnlyOneAuthorityPasses DEF WithdrawSingle, WithdrawSingleAccountsHold, WithdrawSingleConstraints, Live
<1>3. Authority(p) \in {acc.owner, SeedSigner(p)}
  BY DEF WithdrawSingle, CanTransfer
<1> QED BY <1>1, <1>2, <1>3, OnlyMintSeedsPass, OnlyRepairedSeedsSign DEF LiquidityRepairs

\* the five instructions on an open pool together
LEMMA InstructionsNeed ==
    LockInv =>
      /\ ASwap => {"funded_vaults", "authority_seeds", "signer_seeds", "swap_roles"} \subseteq repairs
      /\ ADepositAll \/ ADepositSingle \/ AWithdrawAll \/ AWithdrawSingle
           => LiquidityRepairs \subseteq repairs
<1> SUFFICES ASSUME LockInv
             PROVE  /\ ASwap => {"funded_vaults", "authority_seeds", "signer_seeds",
                                 "swap_roles"} \subseteq repairs
                    /\ ADepositAll \/ ADepositSingle \/ AWithdrawAll \/ AWithdrawSingle
                         => LiquidityRepairs \subseteq repairs
  OBVIOUS
<1> USE ClientAssumption
<1>1. ASwap => {"funded_vaults", "authority_seeds", "signer_seeds", "swap_roles"}
                 \subseteq repairs
  BY SwapNeeds DEF ASwap
<1>2. ADepositAll => LiquidityRepairs \subseteq repairs
  BY DepositAllNeeds DEF ADepositAll
<1>3. ADepositSingle => LiquidityRepairs \subseteq repairs
  BY DepositSingleNeeds DEF ADepositSingle
<1>4. AWithdrawAll => LiquidityRepairs \subseteq repairs
  BY WithdrawAllNeeds DEF AWithdrawAll
<1>5. AWithdrawSingle => LiquidityRepairs \subseteq repairs
  BY WithdrawSingleNeeds DEF AWithdrawSingle
<1> QED BY <1>1, <1>2, <1>3, <1>4, <1>5

\* vaults are derived from the pool's address
LEMMA PoolsHaveTheirOwnVaults ==
    ASSUME NEW p \in Pools, NEW q \in Pools, p # q
    PROVE  {Vault0(p), Vault1(p)} \cap {Vault0(q), Vault1(q)} = {}
BY DEF Vault0, Vault1, TokenAccount, Authority, AmmKey, Pda

\* init_pool opens one pool with non-empty vaults and leaves the others alone
LEMMA InitPoolKeepsLock ==
    ASSUME TypeOK, LockInv, NEW q \in Pools, NEW payer \in Users, NEW fees \in FeeSchedules,
           NEW curve_type, NEW amount0 \in U64, NEW amount1 \in U64,
           InitPool(q, payer, fees, curve_type, amount0, amount1),
           "funded_vaults" \in repairs
    PROVE  LockInv'
<1> SUFFICES ASSUME NEW p \in Pools, Live(p)'
             PROVE  /\ \E u \in Users, f \in FeeSchedules : amm'[p] = NewAmm(p, u, f)
                    /\ "signer_seeds" \notin repairs =>
                         bal'[Vault0(p)] > 0 /\ bal'[Vault1(p)] > 0
  BY DEF LockInv, InitPool, Live
<1> DEFINE b0 == [bal EXCEPT ![Vault0(q)] = amount0, ![Vault1(q)] = amount1]
           w  == Wallet(payer, PoolMint(q))
<1>1. /\ Vault0(p) \in TokenAccounts /\ Vault1(p) \in TokenAccounts
      /\ Vault0(q) \in TokenAccounts /\ Vault1(q) \in TokenAccounts
      /\ w \in TokenAccounts
      /\ w # Vault0(p) /\ w # Vault1(p)
  BY AccountsOfAPool DEF Wallet, Vault0, Vault1, TokenAccount
<1>2. b0 \in Balances /\ bal' = MintTo(b0, w, NewPoolSupply)
  BY <1>1 DEF TypeOK, Balances, InitPool
<1>3. bal'[Vault0(p)] = b0[Vault0(p)] /\ bal'[Vault1(p)] = b0[Vault1(p)]
  BY <1>1, <1>2 DEF MintTo, Balances
<1>4. CASE p = q
  <2>1. amm'[p] = NewAmm(p, payer, fees)
    BY <1>4 DEF InitPool, TypeOK
  <2>2. Vault0(p) # Vault1(p)
    BY DEF Vault0, Vault1, TokenAccount
  <2>3. b0[Vault0(p)] = amount0 /\ b0[Vault1(p)] = amount1
    BY <1>1, <1>4, <2>2 DEF TypeOK, Balances
  <2>4. amount0 > 0 /\ amount1 > 0
    BY DEF InitPool, ValidateSupply, U64
  <2> QED BY <1>3, <2>1, <2>3, <2>4
<1>5. CASE p # q
  <2>1. amm'[p] = amm[p]
    BY <1>5 DEF InitPool, TypeOK
  <2>2. b0[Vault0(p)] = bal[Vault0(p)] /\ b0[Vault1(p)] = bal[Vault1(p)]
    BY <1>1, <1>5, PoolsHaveTheirOwnVaults DEF TypeOK, Balances
  <2> QED BY <1>3, <2>1, <2>2 DEF LockInv, Live
<1> QED BY <1>4, <1>5

\* a user cannot take from a vault
LEMMA UserTransferKeepsLock ==
    ASSUME TypeOK, LockInv, NEW u \in Users, NEW from \in TokenAccounts,
           NEW to \in TokenAccounts, NEW amount, UserTransfer(u, from, to, amount)
    PROVE  LockInv'
<1>1. ASSUME NEW p \in Pools, NEW v \in {Vault0(p), Vault1(p)}
      PROVE  bal[v] > 0 => bal'[v] > 0
  <2>1. v \in TokenAccounts /\ v.owner = Authority(p)
    BY <1>1 DEF TokenAccounts, Vaults, Vault0, Vault1, TokenAccount
  <2>2. v # from
    BY <2>1, UsersAssumption DEF UserTransfer, CanTransfer
  <2> QED BY <2>1, <2>2, U64Assumption
          DEF UserTransfer, CanTransfer, Transfer, TypeOK, Balances, U64
<1>2. UNCHANGED <<repairs, amm>>
  BY DEF UserTransfer
<1> QED BY <1>1, <1>2 DEF LockInv, Live

\* the induction step of Locked
LEMMA NextLock == TypeOK /\ LockInv /\ [Next]_vars => LockInv'
<1> SUFFICES ASSUME TypeOK, LockInv, [Next]_vars PROVE LockInv'
  OBVIOUS
<1>1. CASE AnInitPool
  <2>1. "funded_vaults" \in repairs
    BY <1>1, InitPoolNeedsFundedVaults
  <2>2. ASSUME NEW mint PROVE OpeningBalances(mint) \subseteq U64
    BY ClientAssumption, U64Assumption DEF OpeningBalances, U64
  <2> QED BY <1>1, <2>1, <2>2, InitPoolKeepsLock DEF AnInitPool
<1>2. CASE ASwap \/ ADepositAll \/ ADepositSingle \/ AWithdrawAll \/ AWithdrawSingle
  <2>1. "signer_seeds" \in repairs
    BY <1>2, InstructionsNeed DEF LiquidityRepairs
  <2>2. UNCHANGED <<repairs, amm>>
    BY ZenonT(60), <1>2 DEF ASwap, ADepositAll, ADepositSingle, AWithdrawAll, AWithdrawSingle, Swap,
                DepositAll, DepositSingle, WithdrawAll, WithdrawSingle
  <2> QED BY <2>1, <2>2 DEF LockInv, Live
<1>3. CASE AUserTransfer
  BY <1>3, UserTransferKeepsLock DEF AUserTransfer
<1>4. CASE UNCHANGED vars
  BY <1>4 DEF vars, LockInv, Live
<1> QED BY <1>1, <1>2, <1>3, <1>4 DEF Next

\* In every build, with any mints, users, fees and arguments: init_pool works
\* only with funded vaults, swap and the deposits and withdrawals only with the
\* repairs named.
THEOREM Locked == Spec => LockedUnlessRepaired
<1> DEFINE Step == /\ AnInitPool => "funded_vaults" \in repairs
                   /\ ASwap => {"funded_vaults", "authority_seeds", "signer_seeds",
                                "swap_roles"} \subseteq repairs
                   /\ ADepositAll \/ ADepositSingle \/ AWithdrawAll \/ AWithdrawSingle =>
                        LiquidityRepairs \subseteq repairs
<1>1. Init => LockInv
  BY DEF Init, LockInv, Live, NoAmm
<1>2. LockInv => Step
  BY InitPoolNeedsFundedVaults, InstructionsNeed
<1>3. Spec => []LockInv
  BY <1>1, InitType, NextType, NextLock, PTL DEF Spec
<1>4. Spec => [][Step]_vars
  BY <1>2, <1>3, PTL DEF Spec
<1> QED BY <1>4 DEF LockedUnlessRepaired, LiquidityRepairs
=============================================================================

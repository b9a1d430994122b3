---------------------------- MODULE TokenLedger -----------------------------
(***************************************************************************)
(* The accounts the program touches and the SPL Token operations it calls.  *)
(*                                                                          *)
(* An address is a term.  A program-derived address is the pair of its seed *)
(* label and the key it is derived from, so two derivations agree exactly   *)
(* when their seeds do.  A pool is named by its pair of mints, which are    *)
(* the seeds of its Amm account.  A token account is a record that carries  *)
(* the mint and the owner SPL Token stores in it.                           *)
(***************************************************************************)
EXTENDS Numeric

CONSTANTS Mints,       \* mints of trading tokens
          NativeMint,  \* the mint whose accounts count their lamports
          Users,       \* keys that sign transactions
          Pools        \* pairs of mints for which somebody calls init_pool

ASSUME PoolsAssumption == Pools \subseteq Mints \X Mints

Pda(seed, key) == <<seed, key>>

AmmKey(p)    == Pda("amm", p)
Authority(p) == Pda("authority", AmmKey(p))
PoolMint(p)  == Pda("pool_mint", AmmKey(p))
\* the mint authority init_pool gives a pool's mint
MintAuthority(mint) == Pda("authority", mint[2])

TokenAccount(kind, owner, mint) == [kind |-> kind, owner |-> owner, mint |-> mint]

Vault0(p)     == TokenAccount("vault0", Authority(p), p[1])
Vault1(p)     == TokenAccount("vault1", Authority(p), p[2])
FeeAccount(p, payer) == TokenAccount("fee", payer, PoolMint(p))
\* the token account a user holds a trading or a pool token in
Wallet(u, m)  == TokenAccount("wallet", u, m)

Vaults      == { Vault0(p) : p \in Pools } \cup { Vault1(p) : p \in Pools }
PoolMints   == { PoolMint(p) : p \in Pools }
FeeAccounts == { FeeAccount(p, u) : p \in Pools, u \in Users }
Wallets     == { Wallet(u, m) : u \in Users, m \in Mints \cup PoolMints }

\* a derived address has no private key: it never signs a transaction
ASSUME UsersAssumption == \A p \in Pools : Authority(p) \notin Users

TokenAccounts == Vaults \cup FeeAccounts \cup Wallets

\* an address holds a mint or a token account, never both
ASSUME MintsAssumption == Mints \cap TokenAccounts = {}

\* a pool's mint is created when the mints it is derived from already exist
ASSUME DerivationAssumption == \A p \in Pools : PoolMint(p) \notin {p[1], p[2]}

Balances == [TokenAccounts -> U64]

-----------------------------------------------------------------------------
(* spl_token transfer, mint_to and burn.  The amount is the u64 the handler  *)
(* gets from u64::try_from, which panics on anything wider; authority is    *)
(* the key a call names as the owner and signers are the keys that signed   *)
(* the call.                                                                *)

CanTransfer(b, from, to, amount, authority, signers) ==
    /\ amount \in U64
    /\ from.mint = to.mint
    /\ from.owner = authority
    /\ authority \in signers
    /\ amount <= b[from]
    /\ from # to => b[to] + amount <= U64Max

Transfer(b, from, to, amount) ==
    [[b EXCEPT ![from] = @ - amount] EXCEPT ![to] = @ + amount]

CanMintTo(b, supply, to, amount, mint, authority, signers) ==
    /\ amount \in U64
    /\ to.mint = mint
    /\ authority = MintAuthority(mint)
    /\ authority \in signers
    /\ supply + amount <= U64Max
    /\ b[to] + amount <= U64Max

MintTo(b, to, amount) == [b EXCEPT ![to] = @ + amount]

CanBurn(b, supply, from, amount, mint, authority, signers) ==
    /\ amount \in U64
    /\ from.mint = mint
    /\ from.owner = authority
    /\ authority \in signers
    /\ amount <= b[from]
    /\ amount <= supply

Burn(b, from, amount) == [b EXCEPT ![from] = @ - amount]
=============================================================================

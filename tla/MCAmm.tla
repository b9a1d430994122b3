------------------------------- MODULE MCAmm --------------------------------
(***************************************************************************)
(* Instances of Amm for TLC.  A client's accounts are those a client of the *)
(* pool p would pass for the user u.                                        *)
(***************************************************************************)
EXTENDS AmmProperties

CONSTANTS X, Y, N  \* mints; N is a native mint outside the pool

OnePool == {<<X, Y>>}

-----------------------------------------------------------------------------
(* Accounts of clients                                                      *)

\* The trade of u that pays mint in to pool p.
SwapList(p, u, in, host) ==
    LET forward == in = p[1]
        out     == IF forward THEN p[2] ELSE p[1]
    IN  [ amm |-> p, owner |-> u,
          vault_source_info |-> Wallet(u, in), vault_destination_info |-> Wallet(u, out),
          swap_source      |-> IF forward THEN Vault0(p) ELSE Vault1(p),
          swap_destination |-> IF forward THEN Vault1(p) ELSE Vault0(p),
          pool_mint |-> PoolMint(p), writable |-> TRUE,
          fee_account |-> FeeAccount(p, u), host_fee_account |-> host ]

DepositAllList(p, u) ==
    [ amm |-> p, owner |-> u,
      source_a_info |-> Wallet(u, p[1]), source_b_info |-> Wallet(u, p[2]),
      vault_token_a |-> Vault0(p), vault_token_b |-> Vault1(p),
      pool_mint |-> PoolMint(p), destination |-> Wallet(u, PoolMint(p)) ]

DepositSingleList(p, u, in) ==
    [ amm |-> p, owner |-> u, source |-> Wallet(u, in),
      swap_token_a |-> Vault0(p), swap_token_b |-> Vault1(p),
      pool_mint |-> PoolMint(p), destination |-> Wallet(u, PoolMint(p)) ]

WithdrawAllList(p, u, from) ==
    [ amm |-> p, owner |-> u, source_info |-> from,
      vault_token_a |-> Vault0(p), vault_token_b |-> Vault1(p), pool_mint |-> PoolMint(p),
      dest_token_a_info |-> Wallet(u, p[1]), dest_token_b_info |-> Wallet(u, p[2]),
      fee_account |-> FeeAccount(p, u) ]

WithdrawSingleList(p, u, from, out) ==
    [ amm |-> p, owner |-> u, source |-> from,
      swap_token_a |-> Vault0(p), swap_token_b |-> Vault1(p), pool_mint |-> PoolMint(p),
      destination |-> Wallet(u, out), fee_account |-> FeeAccount(p, u) ]

NoLists == [ swap |-> {}, deposit_all |-> {}, deposit_single |-> {},
             withdraw_all |-> {}, withdraw_single |-> {} ]

\* the payer of a pool's accounts, so its fee account, is the user who trades
OpenPools == Pools \X Users

Swaps == { SwapList(pu[1], pu[2], m, NoHost) : pu \in OpenPools, m \in {X, Y} }
HostedSwaps ==
    { SwapList(pu[1], pu[2], m, Wallet(pu[2], PoolMint(pu[1]))) : pu \in OpenPools, m \in {X, Y} }
DepositAlls == { DepositAllList(pu[1], pu[2]) : pu \in OpenPools }
DepositSingles == { DepositSingleList(pu[1], pu[2], m) : pu \in OpenPools, m \in {X, Y} }
WithdrawAlls ==
    { WithdrawAllList(pu[1], pu[2], Wallet(pu[2], PoolMint(pu[1]))) : pu \in OpenPools }
WithdrawSingles ==
    { WithdrawSingleList(pu[1], pu[2], Wallet(pu[2], PoolMint(pu[1])), m) :
        pu \in OpenPools, m \in {X, Y} }

\* lists with one account in the place of another: vault 0 for both vaults, and
\* the provider's own pool tokens for the fee account
TwiceVault0Deposit(acc) ==
    [acc EXCEPT !.vault_token_b = acc.vault_token_a, !.source_b_info = acc.source_a_info]
TwiceVault0Withdrawal(acc) ==
    [acc EXCEPT !.vault_token_b = acc.vault_token_a, !.dest_token_b_info = acc.dest_token_a_info]
TwiceVault0Deposits    == { TwiceVault0Deposit(acc) : acc \in DepositAlls }
TwiceVault0Withdrawals == { TwiceVault0Withdrawal(acc) : acc \in WithdrawAlls }
OwnFeeAccountWithdrawals ==
    { [acc EXCEPT !.fee_account = acc.source_info] : acc \in WithdrawAlls }

TradingLists == [NoLists EXCEPT !.swap = Swaps \cup HostedSwaps,
                                !.deposit_all = DepositAlls \cup TwiceVault0Deposits,
                                !.deposit_single = DepositSingles]

\* both readings of which of swap's accounts are the pool's, for every client
RoleSwappedSwaps ==
    { [acc EXCEPT !.vault_source_info = acc.swap_source,
                  !.vault_destination_info = acc.swap_destination,
                  !.swap_source = acc.vault_source_info,
                  !.swap_destination = acc.vault_destination_info] : acc \in Swaps }

EveryList == [ swap |-> Swaps \cup RoleSwappedSwaps,
               deposit_all |-> DepositAlls, deposit_single |-> DepositSingles,
               withdraw_all |-> WithdrawAlls, withdraw_single |-> WithdrawSingles ]

FeeAccountWithdrawAlls ==
    { WithdrawAllList(pu[1], pu[2], FeeAccount(pu[1], pu[2])) : pu \in OpenPools }
FeeAccountWithdrawSingles ==
    { WithdrawSingleList(pu[1], pu[2], FeeAccount(pu[1], pu[2]), m) :
        pu \in OpenPools, m \in {X, Y} }

LeaveBothLists == [NoLists EXCEPT !.deposit_all = DepositAlls,
                                  !.withdraw_all = WithdrawAlls \cup FeeAccountWithdrawAlls]
LeaveOneLists  == [NoLists EXCEPT !.deposit_all = DepositAlls,
                                  !.withdraw_single = WithdrawSingles
                                                        \cup FeeAccountWithdrawSingles]
LeaveLists     == [LeaveBothLists EXCEPT !.withdraw_single = LeaveOneLists.withdraw_single,
                                         !.withdraw_all = @ \cup TwiceVault0Withdrawals
                                                            \cup OwnFeeAccountWithdrawals]
RestartLists   == [LeaveBothLists EXCEPT !.deposit_single = DepositSingles]

-----------------------------------------------------------------------------
(* Builds, fees, balances                                                   *)

Repaired  == {Repairs}
AnyBuild  == SUBSET Repairs
ButSideB  == {Repairs \ {"side_b"}}
AsWritten == {{}}
VaultsFunded == {{"funded_vaults"}}

NoFraction == [numerator |-> 0, denominator |-> 0]
Part(n, d) == [numerator |-> n, denominator |-> d]
Schedule(trade, owner_trade, owner_withdraw, host) ==
    [ trade_fee |-> trade, owner_trade_fee |-> owner_trade,
      owner_withdraw_fee |-> owner_withdraw, host_fee |-> host ]

FreeSchedule == Schedule(NoFraction, NoFraction, NoFraction, NoFraction)
PaidSchedule == Schedule(Part(1, 4), Part(1, 3), Part(1, 3), Part(1, 2))

Free == {FreeSchedule}

\* the owner is paid for trades and nobody else is
OwnerSchedule == Schedule(NoFraction, Part(1, 3), NoFraction, Part(1, 2))
TradingSchedules == {FreeSchedule, PaidSchedule, OwnerSchedule}

\* a fee on withdrawals and none on trades
WithdrawSchedule == Schedule(NoFraction, NoFraction, Part(1, 3), NoFraction)
OwnerPaid == {Schedule(NoFraction, Part(1, 3), Part(1, 3), Part(1, 2))}
NoTradeFee == {FreeSchedule, WithdrawSchedule}
WithTradeFee == {Schedule(Part(1, 2), NoFraction, NoFraction, NoFraction)}

Six == [um \in Users \X Mints |-> 6]
Four == [um \in Users \X Mints |-> 4]
=============================================================================

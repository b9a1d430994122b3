---------------------------- MODULE MCTransaction ---------------------------
(***************************************************************************)
(* Instances of Transaction for TLC: two pools over the same two mints in   *)
(* opposite order, opened by one user and used by another, who may confuse  *)
(* their accounts.                                                          *)
(***************************************************************************)
EXTENDS Transaction, MCAmm

CONSTANTS opener, client

TwoPools == {<<X, Y>>, <<Y, X>>}

Other(p) == <<p[2], p[1]>>

\* the pools' fee accounts belong to the opener, whoever uses the pools
PaysOpener(acc) == [acc EXCEPT !.fee_account = FeeAccount(acc.amm, opener)]

ClientSwap(p)           == PaysOpener(SwapList(p, client, p[1], Wallet(opener, PoolMint(p))))
ClientDepositAll(p)     == DepositAllList(p, client)
ClientDepositSingle(p)  == DepositSingleList(p, client, p[2])
ClientWithdrawAll(p)    == PaysOpener(WithdrawAllList(p, client, Wallet(client, PoolMint(p))))
ClientWithdrawSingle(p) == PaysOpener(WithdrawSingleList(p, client, Wallet(client, PoolMint(p)), p[1]))
OpenerWithdrawAll(p)    == WithdrawAllList(p, opener, Wallet(opener, PoolMint(p)))
CollectFees(p)          == WithdrawAllList(p, opener, FeeAccount(p, opener))

\* the accounts of a pool with one field taken from those of the other pool
Confused(acc, other) ==
    { [acc EXCEPT ![f] = other[f]] : f \in DOMAIN acc \ {"owner", "writable"} }

\* What clients who keep the pools apart pass.  Everybody may leave the one
\* pool; deposit_single, which would reopen it on one side, is for the other.
OwnLists ==
    [ swap            |-> { ClientSwap(p) : p \in Pools },
      deposit_all     |-> { ClientDepositAll(p) : p \in Pools },
      deposit_single  |-> { ClientDepositSingle(<<X, Y>>) },
      withdraw_all    |-> { ClientWithdrawAll(p) : p \in Pools }
                            \cup { CollectFees(p) : p \in Pools }
                            \cup { OpenerWithdrawAll(<<Y, X>>) },
      withdraw_single |-> { ClientWithdrawSingle(p) : p \in Pools } ]

ConfusedLists ==
    [ swap            |-> UNION { Confused(ClientSwap(p), ClientSwap(Other(p))) : p \in Pools }
                            \cup { [ClientSwap(p) EXCEPT !.writable = FALSE] : p \in Pools },
      deposit_all     |-> UNION { Confused(ClientDepositAll(p), ClientDepositAll(Other(p))) :
                                  p \in Pools }
                            \cup { TwiceVault0Deposit(ClientDepositAll(p)) : p \in Pools },
      deposit_single  |-> Confused(ClientDepositSingle(<<X, Y>>), ClientDepositSingle(<<Y, X>>)),
      withdraw_all    |-> UNION { Confused(ClientWithdrawAll(p), ClientWithdrawAll(Other(p))) :
                                  p \in Pools }
                            \cup { TwiceVault0Withdrawal(ClientWithdrawAll(p)) : p \in Pools },
      withdraw_single |-> UNION { Confused(ClientWithdrawSingle(p),
                                           ClientWithdrawSingle(Other(p))) : p \in Pools } ]

TwoPoolLists == [f \in DOMAIN OwnLists |-> OwnLists[f] \cup ConfusedLists[f]]

\* Whoever passes the accounts that init_pool created and recorded is never
\* refused because of an account.
OwnAccountsAreAccepted ==
    tx.phase = "failed" /\ Live(tx.ins.acc.amm) /\ tx.ins.name \in DOMAIN OwnLists =>
      (tx.ins.acc \in OwnLists[tx.ins.name] =>
         tx.at.error \notin { "Constraint", "InvalidProgramAddress", "IncorrectSwapAccount",
                              "IncorrectPoolMint", "InvalidInput", "IncorrectFeeAccount" })

-----------------------------------------------------------------------------
(* Production constraints and fees.                                         *)

LeastFees == Schedule(NoFraction, Part(1, 4), Part(1, 4), Part(1, 2))
Constraints == {[owner_key |-> opener, valid_curve_types |-> CurveTypes, fees |-> LeastFees]}

\* one schedule above the least and one that only looks like it
AboveLeast == Schedule(NoFraction, Part(2, 4), Part(1, 4), Part(1, 2))
BelowLeast == Schedule(NoFraction, Part(2, 9), Part(1, 4), Part(1, 2))
ProductionSchedules == {AboveLeast, BelowLeast}

\* enough of X, too little of Y: some instructions fail after their first call
Uneven == [um \in Users \X Mints |-> IF um[2] = X THEN 6 ELSE 4]
=============================================================================

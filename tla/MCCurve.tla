------------------------------ MODULE MCCurve -------------------------------
(***************************************************************************)
(* The grid of CurveGrid for TLC.                                           *)
(***************************************************************************)
EXTENDS CurveGrid

Part(n, d) == [numerator |-> n, denominator |-> d]

GridSchedules ==
    { [ trade_fee |-> t, owner_trade_fee |-> o,
        owner_withdraw_fee |-> Part(0, 0), host_fee |-> Part(0, 0) ] :
        t \in {Part(0, 0), Part(1, 4), Part(2, 3)}, o \in {Part(0, 1), Part(1, 3), Part(1, 2)} }
=============================================================================

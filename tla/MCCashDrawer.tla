---------------------------- MODULE MCCashDrawer ----------------------------
(* CashDrawer with the constants its configurations share.                 *)
EXTENDS CashDrawer, CashReports, TLC

\* One cashier and one approver.
MCUsers == {"cashier", "manager"}
MCApprovers == {"manager"}

\* No property or action tells one register from another.
RegisterSymmetry == Permutations(Registers)
=============================================================================

---------------------------- MODULE MCCashLocks ----------------------------
(* CashLocks with two connections over two registers.                     *)
EXTENDS CashLocks

MCRegisters == {"till", "safe"}

\* The till may be closed and opened again; or no register is.
MCSessions == [r \in MCRegisters |-> IF r = "till" THEN 2 ELSE 1]

\* Cash is taken out of the till by hand.
MCPosts == [kind : {"withdraw"}, register : {"till"}]
=============================================================================

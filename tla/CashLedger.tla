----------------------------- MODULE CashLedger -----------------------------
(***************************************************************************)
(* What the cash module promises of its sessions, without its tables: a    *)
(* session opens with a balance, only an OPEN session's balance changes,   *)
(* one session at a time unless cash moves between two of them, and then   *)
(* it is conserved and covered; sealing a session records the balance of   *)
(* that moment, which no later step can make untrue.                       *)
(***************************************************************************)
EXTENDS Integers

CONSTANTS Sessions, NULL

VARIABLES phase,    \* "NONE", "OPEN" or "CLOSED"
          balance,  \* cash the session should hold
          sealed    \* balance recorded at the seal

ledgerVars == <<phase, balance, sealed>>

LedgerInit ==
    /\ phase = [s \in Sessions |-> "NONE"]
    /\ balance = [s \in Sessions |-> 0]
    /\ sealed = [s \in Sessions |-> NULL]

\* The balance of s alone changes, to a value of any kind.
Rebalanced(s) == balance' = [balance EXCEPT ![s] = balance'[s]]

Open(s) ==
    /\ phase[s] = "NONE"
    /\ phase' = [phase EXCEPT ![s] = "OPEN"]
    /\ Rebalanced(s) /\ balance'[s] >= 0
    /\ UNCHANGED sealed

Post(s) ==
    /\ phase[s] = "OPEN"
    /\ Rebalanced(s)
    /\ UNCHANGED <<phase, sealed>>

Move(s, d) ==
    LET amount == balance[s] - balance'[s]
    IN /\ s # d /\ phase[s] = "OPEN" /\ phase[d] = "OPEN"
       /\ amount > 0 /\ balance'[s] >= 0
       /\ balance' = [balance EXCEPT ![s] = @ - amount, ![d] = @ + amount]
       /\ UNCHANGED <<phase, sealed>>

Seal(s) ==
    /\ phase[s] = "OPEN"
    /\ phase' = [phase EXCEPT ![s] = "CLOSED"]
    /\ sealed' = [sealed EXCEPT ![s] = balance[s]]
    /\ UNCHANGED balance

LedgerNext ==
    \/ \E s \in Sessions : Open(s) \/ Post(s) \/ Seal(s)
    \/ \E s, d \in Sessions : Move(s, d)

LedgerSpec == LedgerInit /\ [][LedgerNext]_ledgerVars
=============================================================================

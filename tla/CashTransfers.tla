---------------------------- MODULE CashTransfers ---------------------------
(***************************************************************************)
(* CashTransfersService.  create, approve and complete hold the OPEN source *)
(* session; reject and cancel lock the transfer row alone and work on a    *)
(* closed session too.  complete also locks the destination's session,     *)
(* second: CashLocks models that order, here the whole of it is one step.  *)
(***************************************************************************)
EXTENDS CashDesk

\* create: the destination register must be ACTIVE now, it is not asked again.
CreateTransfer(s, u, destination, amount) ==
    /\ IsOpen(s)
    /\ destination # session[s].register
    /\ destination # Vault => register[destination] = "ACTIVE"
    /\ \E t \in NextId(Unused(transfer)) :
         transfer' = [transfer EXCEPT ![t] =
            [NoTransfer EXCEPT !.status = "PENDING", !.source = s,
                               !.destination = destination, !.amount = amount,
                               !.requestedBy = u]]
    /\ UNCHANGED <<register, session, onShift, movement, sale, closing, count,
                   forcing>>

\* Mutation: a COMPLETED transfer is still executable.
InProgress_Undead(t) == transfer[t].status \notin DeadTransfer \cup {"NONE"}

InProgress(t) == transfer[t].status \in OpenTransfer

ApproveTransfer(t, u) ==
    /\ u \in Approvers
    /\ InProgress(t)
    /\ IsOpen(transfer[t].source)
    /\ transfer' = [transfer EXCEPT ![t].status = "APPROVED",
                                    ![t].approvedBy = u]
    /\ UNCHANGED <<register, session, onShift, movement, sale, closing, count,
                   forcing>>

\* complete accepts a PENDING transfer from an approver, who thereby signs it.
MayComplete(t, u) == transfer[t].status = "PENDING" => u \in Approvers

SignedBy(t, u) ==
    IF transfer[t].status = "PENDING" THEN u ELSE transfer[t].approvedBy

\* Mutation: the cash there is does not bound the transfer.
Covered_Unchecked(t) == TRUE

\* "A register cannot hand over more cash than it has."
Covered(t) == transfer[t].amount <= ExpectedCash(transfer[t].source)

CompletedRow(t, u, d, out, in) ==
    [transfer[t] EXCEPT !.status = "COMPLETED", !.approvedBy = SignedBy(t, u),
                        !.destSession = d, !.sourceMovement = out,
                        !.destMovement = in]

TransferPosting(t, s, type) ==
    Posting(s, type, transfer[t].amount, Reference("CASH_TRANSFER", t))

\* complete towards the vault: the cash leaves the registers.
CompleteToVault(t, u) ==
    /\ InProgress(t) /\ IsOpen(transfer[t].source)
    /\ MayComplete(t, u)
    /\ transfer[t].destination = Vault
    /\ Covered(t)
    /\ \E m \in NextId(Unused(movement)) :
         /\ movement' = [movement EXCEPT
                           ![m] = TransferPosting(t, transfer[t].source, "CASH_OUT")]
         /\ transfer' = [transfer EXCEPT ![t] = CompletedRow(t, u, NULL, m, NULL)]
    /\ UNCHANGED <<register, session, onShift, sale, closing, count, forcing>>

\* complete towards a register: its OPEN session of that moment gets the cash.
CompleteToRegister(t, u) ==
    /\ InProgress(t) /\ IsOpen(transfer[t].source)
    /\ MayComplete(t, u)
    /\ transfer[t].destination \in Registers
    /\ Covered(t)
    /\ \E d \in Sessions \ {transfer[t].source} :
         /\ IsOpen(d)
         /\ session[d].register = transfer[t].destination
         /\ \E m \in NextId(Unused(movement)) :
            \E n \in NextId(Unused(movement) \ {m}) :
              /\ movement' = [movement EXCEPT
                    ![m] = TransferPosting(t, transfer[t].source, "CASH_OUT"),
                    ![n] = TransferPosting(t, d, "CASH_IN")]
              /\ transfer' = [transfer EXCEPT ![t] = CompletedRow(t, u, d, m, n)]
    /\ UNCHANGED <<register, session, onShift, sale, closing, count, forcing>>

RejectTransfer(t, u) ==
    /\ u \in Approvers
    /\ InProgress(t)
    /\ transfer' = [transfer EXCEPT ![t].status = "REJECTED"]
    /\ UNCHANGED <<register, session, onShift, movement, sale, closing, count,
                   forcing>>

CancelTransfer(t, u) ==
    /\ u = transfer[t].requestedBy \/ u \in Approvers
    /\ InProgress(t)
    /\ transfer' = [transfer EXCEPT ![t].status = "CANCELLED"]
    /\ UNCHANGED <<register, session, onShift, movement, sale, closing, count,
                   forcing>>

TransferStep ==
    \/ \E s \in Sessions, u \in Users, d \in Registers \cup {Vault}, a \in Amounts :
            CreateTransfer(s, u, d, a)
    \/ \E t \in Transfers, u \in Users : ApproveTransfer(t, u)
    \/ \E t \in Transfers, u \in Users : CompleteToVault(t, u)
    \/ \E t \in Transfers, u \in Users : CompleteToRegister(t, u)
    \/ \E t \in Transfers, u \in Users : RejectTransfer(t, u)
    \/ \E t \in Transfers, u \in Users : CancelTransfer(t, u)
=============================================================================

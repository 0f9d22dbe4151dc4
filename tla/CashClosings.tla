---------------------------- MODULE CashClosings ----------------------------
(***************************************************************************)
(* CashClosingsService (the formal closing: start, count, complete, reject) *)
(* and CashCountsService (its count by denomination).  All but             *)
(* rejectClosing hold the OPEN session row; rejectClosing locks only the   *)
(* PENDING closing and works on a closed session too.                      *)
(***************************************************************************)
EXTENDS CashDesk

\* Mutation: the snapshot of startClosing is never refreshed.
Snapshot_Cached(c, s, counted) ==
    [closing[c] EXCEPT
        !.expected = IF @ = NULL THEN ExpectedCash(s) ELSE @,
        !.total = IF @ = NULL THEN ExpectedCash(s) + NonCash(s) ELSE @,
        !.counted = counted]

\* buildSnapshot: expected cash, and that plus what was charged without cash.
\* Taken again whenever the counted amount is set.
Snapshot(c, s, counted) ==
    [closing[c] EXCEPT !.expected = ExpectedCash(s),
                       !.total = ExpectedCash(s) + NonCash(s),
                       !.counted = counted]

StartClosing(s) ==
    /\ IsOpen(s)
    /\ PendingClosings(s) = {}
    /\ \E c \in NextId(Unused(closing)) :
         closing' = [closing EXCEPT ![c] =
            [Snapshot(c, s, NULL) EXCEPT !.status = "PENDING", !.session = s]]
    /\ UNCHANGED <<register, session, onShift, movement, sale, transfer,
                   count, forcing>>

\* The PENDING closing of an OPEN session, both locked.
InClosing(c) == closing[c].status = "PENDING" /\ IsOpen(closing[c].session)

\* Mutation: a manual amount overwrites the sealed count.
RegisterCount_Overwrite(c, counted) ==
    /\ InClosing(c)
    /\ closing' = [closing EXCEPT ![c] = Snapshot(c, closing[c].session, counted)]
    /\ UNCHANGED <<register, session, onShift, movement, sale, transfer,
                   count, forcing>>

\* registerCount: a sealed count by denomination is not overwritten.
RegisterCount(c, counted) ==
    /\ InClosing(c)
    /\ CountsOf(c, "COMPLETED") = {}
    /\ closing' = [closing EXCEPT ![c] = Snapshot(c, closing[c].session, counted)]
    /\ UNCHANGED <<register, session, onShift, movement, sale, transfer,
                   count, forcing>>

\* completeClosing: with a sealed count its total is the counted amount and the
\* request may only repeat it; else the request's amount, else the stored one.
CountedAmount(c, requested) ==
    IF CountsOf(c, "COMPLETED") # {}
    THEN {count[k].total : k \in CountsOf(c, "COMPLETED")}
           \cap (IF requested = NULL THEN Int ELSE {requested})
    ELSE {IF requested = NULL THEN closing[c].counted ELSE requested} \ {NULL}

\* The writes of completeClosing.
CloseWith(c, requested) ==
    /\ \E counted \in CountedAmount(c, requested) :
         /\ closing' = [closing EXCEPT ![c] =
              [Snapshot(c, closing[c].session, counted) EXCEPT !.status = "COMPLETED"]]
         /\ session' = Sealed(closing[c].session, counted)
    /\ onShift' = [onShift EXCEPT ![closing[c].session] = {}]
    /\ UNCHANGED <<register, movement, sale, transfer, count, forcing>>

CompleteClosing(c, requested) ==
    /\ InClosing(c)
    /\ OpenTransfersOf(closing[c].session) = {}
    /\ CountsOf(c, "DRAFT") = {}
    /\ CloseWith(c, requested)

RejectClosing(c, u) ==
    /\ u \in Approvers
    /\ closing[c].status = "PENDING"
    /\ closing' = [closing EXCEPT ![c].status = "REJECTED"]
    /\ UNCHANGED <<register, session, onShift, movement, sale, transfer,
                   count, forcing>>

-----------------------------------------------------------------------------
(* CashCountsService.                                                      *)

\* start: none while the closing has a DRAFT or a COMPLETED count.
StartCount(c) ==
    /\ InClosing(c)
    /\ CountsOf(c, "COMPLETED") = {}
    /\ CountsOf(c, "DRAFT") = {}
    /\ \E k \in NextId(Unused(count)) :
         count' = [count EXCEPT ![k] =
                     [NoCount EXCEPT !.status = "DRAFT", !.closing = c]]
    /\ UNCHANGED <<register, session, onShift, movement, sale, transfer,
                   closing, forcing>>

\* The DRAFT count of the PENDING closing of an OPEN session.
InDraft(k) == count[k].status = "DRAFT" /\ InClosing(count[k].closing)

ItemsTotal(items) == SumFunction([d \in Denominations |-> d * items[d]])

\* upsertItems: lines gives each denomination it names its new quantity (0
\* deletes the item) and the total is taken again from the items.
UpsertItems(k, lines) ==
    LET items == [d \in Denominations |->
                    IF d \in DOMAIN lines THEN lines[d] ELSE count[k].items[d]]
    IN /\ InDraft(k)
       /\ count' = [count EXCEPT ![k].items = items,
                                 ![k].total = ItemsTotal(items)]
       /\ UNCHANGED <<register, session, onShift, movement, sale, transfer,
                      closing, forcing>>

\* complete: seals the count and projects its total onto the closing.
CompleteCount(k) ==
    /\ InDraft(k)
    /\ count[k].items # NoItems
    /\ count' = [count EXCEPT ![k].status = "COMPLETED",
                              ![k].total = ItemsTotal(count[k].items)]
    /\ LET c == count[k].closing
       IN closing' = [closing EXCEPT ![c] =
                        Snapshot(c, closing[c].session, ItemsTotal(count[k].items))]
    /\ UNCHANGED <<register, session, onShift, movement, sale, transfer, forcing>>

CancelCount(k) ==
    /\ InDraft(k)
    /\ count' = [count EXCEPT ![k].status = "CANCELLED"]
    /\ UNCHANGED <<register, session, onShift, movement, sale, transfer,
                   closing, forcing>>

ItemLines == UNION {[D -> 0..MaxQuantity] : D \in (SUBSET Denominations) \ {{}}}

ClosingStep ==
    \/ \E s \in Sessions : StartClosing(s)
    \/ \E c \in Closings, b \in Counts : RegisterCount(c, b)
    \/ \E c \in Closings, b \in Counts \cup {NULL} : CompleteClosing(c, b)
    \/ \E c \in Closings, u \in Users : RejectClosing(c, u)
    \/ \E c \in Closings : StartCount(c)
    \/ \E k \in CashCounts, lines \in ItemLines : UpsertItems(k, lines)
    \/ \E k \in CashCounts : CompleteCount(k)
    \/ \E k \in CashCounts : CancelCount(k)
=============================================================================

----------------------------- MODULE CommerceOrders -----------------------------
(***************************************************************************)
(* Web channels of a tenant and their paid orders, confirmed as notes of   *)
(* sale, beside the notes sold over the counter of the same stores.  A     *)
(* confirmation is one transaction that takes, in this order, the channel  *)
(* (shared), the keys of its order and payment, its stock rows and the     *)
(* folio counter of the store; a note at the counter takes the folio       *)
(* counter first and the stock rows afterwards.  PostgreSQL aborts one of  *)
(* two that wait for each other.                                           *)
(*                                                                         *)
(* The rows of a cart are locked at once, and a request's hash is its      *)
(* content.                                                                *)
(***************************************************************************)
EXTENDS OfferCatalogue

CONSTANTS
    Channels, Requests, ExternalOrders,
    Payments,       \* provider and reference
    WebOrders,      \* bound: the contents a shop confirms: items, amount, isTest
    CounterCarts,   \* bound: the items of a note
    InitialStock,   \* also the bound on what is owed
    NegativeStores, \* Store.allowNegativeStock
    Prices          \* bound: the list prices set

\* Units of store products.
IsCart(items) ==
    DOMAIN items \subseteq StoreProducts /\ \A i \in DOMAIN items : items[i] \in Nat \ {0}

ASSUME CommerceAssumption ==
    /\ InitialStock \in Nat
    /\ \A content \in WebOrders : IsCart(content.items)
    /\ \A items \in CounterCarts : IsCart(items)

VARIABLES
    channel,  \* CommerceChannel rows: store, active, salesEnabled, acceptTestPayments
    order,    \* CommerceOrder of a channel and an externalOrderID, or NULL
    stock,    \* StoreProduct.stock
    call      \* what each request is doing

commerceVars == <<channel, order, stock, call>>

NoChannel == [storeID |-> NULL, active |-> FALSE, salesEnabled |-> FALSE,
              acceptTestPayments |-> FALSE]
Idle == [pc |-> "idle", store |-> NULL, items |-> <<>>]

OrderKeys == Channels \X ExternalOrders

CommerceInit ==
    /\ channel = [c \in Channels |-> NoChannel]
    /\ order = [k \in OrderKeys |-> NULL]
    /\ stock = [i \in StoreProducts |-> InitialStock]
    /\ call = [q \in Requests |-> Idle]

To(q, pc) == call' = [call EXCEPT ![q].pc = pc]
End(q)    == call' = [call EXCEPT ![q] = Idle]

-----------------------------------------------------------------------------
(* MasterCommerceService. *)

CreateChannel(c, dto) ==
    /\ channel[c] = NoChannel
    /\ channel' = [channel EXCEPT ![c] = Merged(dto, [NoChannel EXCEPT !.active = TRUE])]
    /\ UNCHANGED <<order, stock, call, offerVars>>

\* The confirmations that hold the channel, its order and its payment.
Confirming == {q \in Requests : call[q].pc \in {"rows", "folio"}}
HoldsChannel(q, c) == q \in Confirming /\ call[q].channel = c

\* A variant: confirmations read the channel without a lock.
UpdateChannel_NoWait(c, change) ==
    /\ channel[c] # NoChannel
    /\ channel' = [channel EXCEPT ![c] = Merged(change, @)]
    /\ UNCHANGED <<order, stock, call, offerVars>>

\* Takes the row: waits for the confirmations that share it.
UpdateChannel(c, change) ==
    /\ channel[c] # NoChannel
    /\ ~\E q \in Requests : HoldsChannel(q, c)
    /\ channel' = [channel EXCEPT ![c] = Merged(change, @)]
    /\ UNCHANGED <<order, stock, call, offerVars>>

-----------------------------------------------------------------------------
(* CommerceSalesService.confirm. *)

\* The guard resolved the token: the channel's store is the request's.
Arrive(q, c, x, pay, content) ==
    /\ call[q] = Idle /\ channel[c].active
    /\ call' = [call EXCEPT ![q] =
          [pc |-> "arrived", store |-> channel[c].storeID, items |-> content.items,
           channel |-> c, order |-> x, payment |-> pay, content |-> content]]
    /\ UNCHANGED <<channel, order, stock, offerVars>>

Enabled(r) ==
    LET ch == channel[r.channel] IN
    /\ ch.active /\ ch.storeID = r.store /\ ch.salesEnabled
    /\ r.content.isTest => ch.acceptTestPayments

KeysFree(q) ==
    \A p \in Confirming \ {q} :
        /\ <<call[p].channel, call[p].order>> # <<call[q].channel, call[q].order>>
        /\ call[p].payment # call[q].payment

\* A variant: the payment is looked up among the orders of the channel.
PaymentUsed_InChannel(r) ==
    \E k \in OrderKeys : k[1] = r.channel /\ order[k] # NULL /\ order[k].payment = r.payment

PaymentUsed(r) == \E k \in OrderKeys : order[k] # NULL /\ order[k].payment = r.payment

\* The channel and the keys taken: a known order is answered with its sale, or
\* refused when its content differs; a used payment is refused.
Confirm(q) ==
    LET r == call[q] IN
    /\ r.pc = "arrived" /\ KeysFree(q)
    /\ IF Enabled(r) /\ order[<<r.channel, r.order>>] = NULL /\ ~PaymentUsed(r)
       THEN To(q, "rows") ELSE End(q)
    /\ UNCHANGED <<channel, order, stock, offerVars>>

HoldsRows(p) == call[p].pc = "folio"
RowsFree(q) == \A p \in Requests \ {q} :
                 HoldsRows(p) => DOMAIN call[p].items \cap DOMAIN call[q].items = {}

InStore(items, store) == \A i \in DOMAIN items : Item[i].store = store
Covers(items) == \A i \in DOMAIN items : stock[i] >= items[i]

\* pricingDate: the start of the day of payment, two instants to the day.
DayOf(date) == 2 * (date \div 2)

ErpTotal(r, date) ==
    LET cart == CalculateCart(date, r.store, r.items, NULL)
    IN  IF cart.ok THEN TotalOf(cart.lines) ELSE NULL

\* Stock and total are compared with the rows locked.
LockRows(q) ==
    LET r == call[q] IN
    /\ r.pc = "rows" /\ RowsFree(q)
    /\ IF InStore(r.items, r.store) /\ Covers(r.items)
          /\ ErpTotal(r, DayOf(r.content.paidAt)) = r.content.amount
       THEN To(q, "folio") ELSE End(q)
    /\ UNCHANGED <<channel, order, stock, offerVars>>

\* Notes at the counter hold the folio counter of the store.
HoldsFolio(p) == call[p].pc = "counter"
FolioFree(store) == ~\E p \in Requests : HoldsFolio(p) /\ call[p].store = store

Less(items) ==
    [i \in StoreProducts |-> IF i \in DOMAIN items THEN stock[i] - items[i] ELSE stock[i]]

\* createCommerceSale and the order, committed.
Sell(q) ==
    LET r == call[q] IN
    /\ r.pc = "folio" /\ FolioFree(r.store)
    /\ stock' = Less(r.items)
    /\ order' = [order EXCEPT ![<<r.channel, r.order>>] =
                   [store |-> r.store, items |-> r.items, payment |-> r.payment,
                    amount |-> r.content.amount]]
    /\ End(q)
    /\ UNCHANGED <<channel, offerVars>>

-----------------------------------------------------------------------------
(* persistNotaVenta over the counter. *)

StartNote(q, store, items) ==
    /\ call[q] = Idle /\ InStore(items, store) /\ FolioFree(store)
    /\ call' = [call EXCEPT ![q] = [pc |-> "counter", store |-> store, items |-> items]]
    /\ UNCHANGED <<channel, order, stock, offerVars>>

\* A variant: the rows are not waited for.
FinishNote_NoWait(q) ==
    LET r == call[q] IN
    /\ r.pc = "counter"
    /\ stock' = IF r.store \in NegativeStores \/ Covers(r.items) THEN Less(r.items) ELSE stock
    /\ \A i \in StoreProducts : stock'[i] >= -InitialStock
    /\ End(q)
    /\ UNCHANGED <<channel, order, offerVars>>

\* reserveStock: a note that lacks stock is rolled back, unless its store sells
\* what it does not have.
FinishNote(q) ==
    LET r == call[q] IN
    /\ r.pc = "counter" /\ RowsFree(q)
    /\ stock' = IF r.store \in NegativeStores \/ Covers(r.items) THEN Less(r.items) ELSE stock
    /\ \A i \in StoreProducts : stock'[i] >= -InitialStock
    /\ End(q)
    /\ UNCHANGED <<channel, order, offerVars>>

\* Two that wait for each other: a confirmation for the folio, a note for rows.
WaitForEachOther(q, p) ==
    /\ HoldsRows(q) /\ HoldsFolio(p) /\ call[q].store = call[p].store
    /\ DOMAIN call[q].items \cap DOMAIN call[p].items # {}

\* PostgreSQL's deadlock detector ends one of them.
AbortVictim(q) ==
    /\ \E p \in Requests : WaitForEachOther(q, p) \/ WaitForEachOther(p, q)
    /\ End(q)
    /\ UNCHANGED <<channel, order, stock, offerVars>>
================================================================================

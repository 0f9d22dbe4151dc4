----------------------------- MODULE ShopProofs -----------------------------
(***************************************************************************)
(* Theorems about ShopFlow for every number of channels, requests, orders  *)
(* and payments, any cart, stock, offers and prices.  For web orders what  *)
(* a cart costs is never expanded: only whether it matches the amount paid *)
(* matters.  For the catalogue the offers are followed one after another,  *)
(* and for documents from the lines of the cart to the sums they state.    *)
(***************************************************************************)
EXTENDS ShopFlow, RowSums

shopVars == <<offerVars, commerceVars>>

-----------------------------------------------------------------------------
(* Web orders. *)

ConfirmationFields ==
    {"pc", "store", "items", "channel", "order", "payment", "content"}

\* What a request in flight has read.
CallFits(r) ==
    /\ r.pc \in {"idle", "arrived", "rows", "folio", "counter"}
    /\ r.pc \in {"arrived", "rows", "folio"} =>
         /\ DOMAIN r = ConfirmationFields
         /\ r.channel \in Channels /\ r.order \in ExternalOrders
    /\ r.pc # "idle" => IsCart(r.items)

RowsTyped ==
    /\ DOMAIN channel = Channels /\ DOMAIN order = OrderKeys /\ DOMAIN call = Requests
    /\ stock \in [StoreProducts -> Int]

\* A confirmation that has its locks: its channel still sells for its store,
\* and neither its order nor its payment is known.
Held(r) == Enabled(r) /\ order[<<r.channel, r.order>>] = NULL /\ ~PaymentUsed(r)

\* Two confirmations that have their locks are of different orders, paid by
\* different payments.
Apart(r, s) == <<r.channel, r.order>> # <<s.channel, s.order>> /\ r.payment # s.payment

KeysHeld ==
    /\ \A q \in Confirming : Held(call[q])
    /\ \A p, q \in Confirming : p # q => Apart(call[p], call[q])

\* The stock compared is still there for whoever holds its rows.
RowsHeld ==
    /\ \A q \in Requests : HoldsRows(q) => Covers(call[q].items)
    /\ \A p, q \in Requests :
         (p # q /\ HoldsRows(p) /\ HoldsRows(q)) =>
            DOMAIN call[p].items \cap DOMAIN call[q].items = {}

CommerceInv ==
    /\ RowsTyped
    /\ \A q \in Requests : CallFits(call[q])
    /\ KeysHeld /\ RowsHeld
    /\ PaymentsBuyOnce

\* The start: nobody is confirming and nothing is sold.
LEMMA CommerceStarts == CommerceInit => CommerceInv
<1> SUFFICES ASSUME CommerceInit PROVE CommerceInv
  OBVIOUS
<1>1. \A q \in Requests : call[q] = Idle /\ call[q].pc = "idle"
  BY DEF CommerceInit, Idle
<1>2. \A k \in OrderKeys : order[k] = NULL
  BY DEF CommerceInit
<1>3. RowsTyped
  BY CommerceAssumption DEF CommerceInit, RowsTyped
<1>4. \A q \in Requests : CallFits(call[q])
  BY <1>1 DEF CallFits
<1>5. KeysHeld /\ RowsHeld
  BY <1>1 DEF KeysHeld, RowsHeld, Confirming, HoldsRows
<1>6. PaymentsBuyOnce
  BY <1>2 DEF PaymentsBuyOnce
<1> QED BY <1>3, <1>4, <1>5, <1>6 DEF CommerceInv

\* What the invariant says of channels, orders and stock does not change with
\* the rest of the state.
LEMMA CommerceStays ==
    ASSUME CommerceInv, UNCHANGED commerceVars
    PROVE  CommerceInv'
  BY DEF CommerceInv, commerceVars, RowsTyped, CallFits, KeysHeld, RowsHeld, Confirming,
         Held, Enabled, PaymentUsed, Apart, HoldsRows, Covers, PaymentsBuyOnce

\* A request that moves while order, channel and stock stay as they are: what
\* is left to show is its own part.
LEMMA OneMoves ==
    ASSUME CommerceInv, UNCHANGED <<channel, order, stock>>,
           NEW q \in Requests, DOMAIN call' = Requests,
           \A p \in Requests \ {q} : call'[p] = call[p],
           CallFits(call'[q]),
           call'[q].pc \in {"rows", "folio"} =>
             /\ Held(call'[q])
             /\ \A p \in Confirming \ {q} : Apart(call'[q], call[p]),
           call'[q].pc = "folio" =>
             /\ Covers(call'[q].items)
             /\ \A p \in Requests \ {q} :
                  HoldsRows(p) => DOMAIN call[p].items \cap DOMAIN call'[q].items = {}
    PROVE  CommerceInv'
<1>1. RowsTyped'
  BY DEF CommerceInv, RowsTyped
<1>2. \A p \in Requests : CallFits(call'[p])
  BY DEF CommerceInv
<1>3. ASSUME NEW p \in Confirming' PROVE Held(call[p])'
  <2>1. p \in Requests /\ call'[p].pc \in {"rows", "folio"}
    BY DEF Confirming
  <2>2. Held(call'[p])
    BY <2>1 DEF CommerceInv, KeysHeld, Confirming
  <2> QED BY <2>2 DEF Held, Enabled, PaymentUsed
<1>4. ASSUME NEW p \in Confirming', NEW s \in Confirming', p # s
      PROVE  Apart(call[p], call[s])'
  <2>1. /\ p \in Requests /\ call'[p].pc \in {"rows", "folio"}
        /\ s \in Requests /\ call'[s].pc \in {"rows", "folio"}
    BY DEF Confirming
  <2>2. p # q => p \in Confirming
    BY <2>1 DEF Confirming
  <2>3. s # q => s \in Confirming
    BY <2>1 DEF Confirming
  <2>4. p # q /\ s # q => Apart(call[p], call[s])
    BY <2>2, <2>3, <1>4 DEF CommerceInv, KeysHeld
  <2>5. p = q => Apart(call'[q], call[s])
    BY <2>1, <2>3, <1>4
  <2>6. s = q => Apart(call'[q], call[p])
    BY <2>1, <2>2, <1>4
  <2> QED BY <2>1, <2>4, <2>5, <2>6, <1>4 DEF Apart
<1>5. RowsHeld'
  <2>1. ASSUME NEW p \in Requests, HoldsRows(p)' PROVE Covers(call[p].items)'
    BY <2>1 DEF CommerceInv, RowsHeld, HoldsRows, Covers
  <2>2. ASSUME NEW p \in Requests, NEW s \in Requests, p # s, HoldsRows(p)', HoldsRows(s)'
        PROVE  DOMAIN call'[p].items \cap DOMAIN call'[s].items = {}
    BY <2>2 DEF CommerceInv, RowsHeld, HoldsRows
  <2> QED BY <2>1, <2>2 DEF RowsHeld
<1>6. PaymentsBuyOnce'
  BY DEF CommerceInv, PaymentsBuyOnce
<1> QED BY <1>1, <1>2, <1>3, <1>4, <1>5, <1>6 DEF CommerceInv, KeysHeld, CallFits

\* To moves one request, which keeps what it had read.
LEMMA Moved ==
    ASSUME CommerceInv, NEW q \in Requests, NEW pc, To(q, pc),
           call[q].pc \in {"arrived", "rows", "folio"}
    PROVE  /\ DOMAIN call' = Requests
           /\ \A p \in Requests \ {q} : call'[p] = call[p]
           /\ call'[q].pc = pc
           /\ DOMAIN call'[q] = ConfirmationFields
           /\ \A f \in ConfirmationFields \ {"pc"} : call'[q][f] = call[q][f]
           /\ call'[q].channel = call[q].channel /\ call'[q].order = call[q].order
           /\ call'[q].store = call[q].store /\ call'[q].items = call[q].items
           /\ call'[q].payment = call[q].payment /\ call'[q].content = call[q].content
<1>1. DOMAIN call = Requests /\ DOMAIN call[q] = ConfirmationFields
  BY DEF CommerceInv, RowsTyped, CallFits
<1>2. call' = [call EXCEPT ![q] = [call[q] EXCEPT !.pc = pc]]
  BY DEF To
<1>3. call'[q] = [call[q] EXCEPT !.pc = pc]
  BY <1>1, <1>2
<1>4. DOMAIN call' = Requests /\ \A p \in Requests \ {q} : call'[p] = call[p]
  BY <1>1, <1>2
<1>5. /\ call'[q].pc = pc /\ DOMAIN call'[q] = ConfirmationFields
      /\ \A f \in ConfirmationFields \ {"pc"} : call'[q][f] = call[q][f]
  BY <1>1, <1>3 DEF ConfirmationFields
<1>6. {"channel", "order", "store", "items", "payment", "content"} = ConfirmationFields \ {"pc"}
  BY DEF ConfirmationFields
<1>7. /\ call'[q].channel = call[q].channel /\ call'[q].order = call[q].order
      /\ call'[q].store = call[q].store /\ call'[q].items = call[q].items
      /\ call'[q].payment = call[q].payment /\ call'[q].content = call[q].content
  BY <1>5, <1>6
<1> QED BY <1>4, <1>5, <1>7

\* End leaves one request idle and the others as they were.
LEMMA Ended ==
    ASSUME CommerceInv, NEW q \in Requests, End(q)
    PROVE  /\ DOMAIN call' = Requests
           /\ \A p \in Requests \ {q} : call'[p] = call[p]
           /\ call'[q].pc = "idle" /\ CallFits(call'[q])
<1>1. DOMAIN call' = Requests /\ call'[q] = Idle /\ \A p \in Requests \ {q} : call'[p] = call[p]
  BY DEF End, CommerceInv, RowsTyped
<1>2. Idle.pc = "idle"
  BY DEF Idle
<1> QED BY <1>1, <1>2 DEF CallFits

\* A request that only ends leaves everybody else's locks as they were.
LEMMA EndKeeps ==
    ASSUME CommerceInv, NEW q \in Requests, End(q), UNCHANGED <<channel, order, stock>>
    PROVE  CommerceInv'
  BY Ended, OneMoves, Zenon

\* Arrive and StartNote: a request that holds nothing yet.
LEMMA Arrives ==
    ASSUME CommerceInv, NEW q \in Requests, NEW c \in Channels, NEW x \in ExternalOrders,
           NEW pay, NEW content \in WebOrders, Arrive(q, c, x, pay, content)
    PROVE  CommerceInv'
<1> DEFINE r == [pc |-> "arrived", store |-> channel[c].storeID, items |-> content.items,
                 channel |-> c, order |-> x, payment |-> pay, content |-> content]
<1>1. call' = [call EXCEPT ![q] = r] /\ UNCHANGED <<channel, order, stock>>
  BY DEF Arrive
<1>2. DOMAIN call = Requests
  BY DEF CommerceInv, RowsTyped
<1>3. DOMAIN call' = Requests /\ call'[q] = r /\ \A p \in Requests \ {q} : call'[p] = call[p]
  BY <1>1, <1>2
<1>4. CallFits(r) /\ r.pc = "arrived"
  BY CommerceAssumption DEF CallFits, ConfirmationFields
<1> HIDE DEF r
<1> QED BY <1>1, <1>3, <1>4, OneMoves

\* A note waits for its rows with nothing but the folio.
LEMMA NoteStarts ==
    ASSUME CommerceInv, NEW q \in Requests, NEW store, NEW items \in CounterCarts,
           StartNote(q, store, items)
    PROVE  CommerceInv'
<1> DEFINE r == [pc |-> "counter", store |-> store, items |-> items]
<1>1. call' = [call EXCEPT ![q] = r] /\ UNCHANGED <<channel, order, stock>>
  BY DEF StartNote
<1>2. DOMAIN call = Requests
  BY DEF CommerceInv, RowsTyped
<1>3. DOMAIN call' = Requests /\ call'[q] = r /\ \A p \in Requests \ {q} : call'[p] = call[p]
  BY <1>1, <1>2
<1>4. CallFits(r) /\ r.pc = "counter"
  BY CommerceAssumption DEF CallFits
<1> HIDE DEF r
<1> QED BY <1>1, <1>3, <1>4, OneMoves

\* Confirm: the keys are taken only when nobody has them.
LEMMA Confirms ==
    ASSUME CommerceInv, NEW q \in Requests, Confirm(q)
    PROVE  CommerceInv'
<1>1. call[q].pc = "arrived" /\ KeysFree(q) /\ UNCHANGED <<channel, order, stock>>
  BY DEF Confirm
<1>2. CASE End(q)
  BY <1>1, <1>2, EndKeeps
<1>3. CASE /\ To(q, "rows") /\ Enabled(call[q]) /\ ~PaymentUsed(call[q])
           /\ order[<<call[q].channel, call[q].order>>] = NULL
  <2>1. /\ DOMAIN call' = Requests
        /\ \A p \in Requests \ {q} : call'[p] = call[p]
        /\ call'[q].pc = "rows" /\ DOMAIN call'[q] = ConfirmationFields
        /\ call'[q].channel = call[q].channel /\ call'[q].order = call[q].order
        /\ call'[q].store = call[q].store /\ call'[q].items = call[q].items
        /\ call'[q].payment = call[q].payment /\ call'[q].content = call[q].content
    BY <1>1, <1>3, Moved
  <2>2. CallFits(call'[q])
    BY <1>1, <2>1 DEF CommerceInv, CallFits
  <2>3. Held(call'[q])
    BY <1>3, <2>1 DEF Held, Enabled, PaymentUsed
  <2>4. \A p \in Confirming \ {q} : Apart(call'[q], call[p])
    BY <1>1, <2>1 DEF KeysFree, Apart
  <2> QED BY <1>1, <2>1, <2>2, <2>3, <2>4, OneMoves
<1> QED BY <1>1, <1>2, <1>3 DEF Confirm

\* LockRows: the stock is compared with nobody else on its rows.
LEMMA LocksRows ==
    ASSUME CommerceInv, NEW q \in Requests, LockRows(q)
    PROVE  CommerceInv'
<1>1. call[q].pc = "rows" /\ RowsFree(q) /\ UNCHANGED <<channel, order, stock>>
  BY DEF LockRows
<1>2. CASE End(q)
  BY <1>1, <1>2, EndKeeps
<1>3. CASE To(q, "folio") /\ Covers(call[q].items)
  <2>1. /\ DOMAIN call' = Requests
        /\ \A p \in Requests \ {q} : call'[p] = call[p]
        /\ call'[q].pc = "folio" /\ DOMAIN call'[q] = ConfirmationFields
        /\ call'[q].channel = call[q].channel /\ call'[q].order = call[q].order
        /\ call'[q].store = call[q].store /\ call'[q].items = call[q].items
        /\ call'[q].payment = call[q].payment /\ call'[q].content = call[q].content
    BY <1>1, <1>3, Moved
  <2>2. CallFits(call'[q])
    BY <1>1, <2>1 DEF CommerceInv, CallFits
  <2>3. q \in Confirming
    BY <1>1 DEF Confirming
  <2>4. Held(call'[q])
    <3>1. Held(call[q])
      BY <2>3 DEF CommerceInv, KeysHeld
    <3> QED BY <3>1, <2>1 DEF Held, Enabled, PaymentUsed
  <2>5. \A p \in Confirming \ {q} : Apart(call'[q], call[p])
    BY <2>1, <2>3 DEF CommerceInv, KeysHeld, Apart
  <2>6. /\ Covers(call'[q].items)
        /\ \A p \in Requests \ {q} :
             HoldsRows(p) => DOMAIN call[p].items \cap DOMAIN call'[q].items = {}
    BY <1>1, <1>3, <2>1 DEF RowsFree
  <2> QED BY <1>1, <2>1, <2>2, <2>4, <2>5, <2>6, OneMoves
<1> QED BY <1>1, <1>2, <1>3 DEF LockRows
\* Only who waits for the confirmations of a channel changes it.
LEMMA ChannelMoves ==
    ASSUME CommerceInv, NEW c \in Channels, NEW row,
           channel' = [channel EXCEPT ![c] = row], UNCHANGED <<order, stock, call>>,
           \A q \in Confirming : call[q].channel # c
    PROVE  CommerceInv'
<1>1. DOMAIN channel' = Channels /\ \A d \in Channels \ {c} : channel'[d] = channel[d]
  BY DEF CommerceInv, RowsTyped
<1>2. RowsTyped'
  BY <1>1 DEF CommerceInv, RowsTyped
<1>3. Confirming' = Confirming
  BY DEF Confirming
<1>4. ASSUME NEW q \in Confirming PROVE Held(call[q])'
  <2>1. Held(call[q]) /\ call[q].channel # c /\ call[q].channel \in Channels
    BY DEF CommerceInv, KeysHeld, CallFits, Confirming
  <2>2. channel'[call[q].channel] = channel[call[q].channel]
    BY <1>1, <2>1
  <2> QED BY <2>1, <2>2 DEF Held, Enabled, PaymentUsed
<1>5. KeysHeld'
  BY <1>3, <1>4 DEF CommerceInv, KeysHeld, Apart
<1>6. RowsHeld' /\ PaymentsBuyOnce'
  BY DEF CommerceInv, RowsHeld, HoldsRows, Covers, PaymentsBuyOnce
<1> QED BY <1>2, <1>5, <1>6 DEF CommerceInv, CallFits

\* A new channel was nobody's: a confirmation holds an active one.
LEMMA ChannelMade ==
    ASSUME CommerceInv, NEW c \in Channels, NEW dto, CreateChannel(c, dto)
    PROVE  CommerceInv'
<1>1. channel[c] = NoChannel /\ NoChannel.active = FALSE
  BY DEF CreateChannel, NoChannel
<1>2. ASSUME NEW q \in Confirming PROVE call[q].channel # c
  BY <1>1 DEF CommerceInv, KeysHeld, Held, Enabled
<1>3. \E row : channel' = [channel EXCEPT ![c] = row]
  BY DEF CreateChannel
<1> QED BY <1>2, <1>3, ChannelMoves DEF CreateChannel

\* A change waits for the confirmations that share the row.
LEMMA ChannelChanged ==
    ASSUME CommerceInv, NEW c \in Channels, NEW change, UpdateChannel(c, change)
    PROVE  CommerceInv'
<1>1. ASSUME NEW q \in Confirming PROVE call[q].channel # c
  BY DEF UpdateChannel, HoldsChannel, Confirming
<1>2. \E row : channel' = [channel EXCEPT ![c] = row]
  BY DEF UpdateChannel
<1> QED BY <1>1, <1>2, ChannelMoves DEF UpdateChannel

-----------------------------------------------------------------------------
(* What is sold. *)

\* Whoever has other rows locked still finds what it compared.
LEMMA LessOfOthers ==
    ASSUME stock \in [StoreProducts -> Int], NEW items, IsCart(items),
           stock' \in {stock, Less(items)}
    PROVE  /\ stock' \in [StoreProducts -> Int]
           /\ \A others :
                (IsCart(others) /\ Covers(others) /\ DOMAIN others \cap DOMAIN items = {})
                  => Covers(others)'
<1>1. CASE stock' = stock
  BY <1>1 DEF Covers
<1>2. CASE stock' = Less(items)
  <2>1. \A i \in StoreProducts :
           stock'[i] = IF i \in DOMAIN items THEN stock[i] - items[i] ELSE stock[i]
    BY <1>2 DEF Less
  <2>2. \A i \in DOMAIN items : items[i] \in Nat
    BY DEF IsCart
  <2>3. \A i \in StoreProducts : stock'[i] \in Int
    BY <2>1, <2>2
  <2>4. stock' \in [StoreProducts -> Int]
    BY <1>2, <2>1, <2>3 DEF Less
  <2>5. ASSUME NEW others, IsCart(others), Covers(others),
               DOMAIN others \cap DOMAIN items = {}
        PROVE  Covers(others)'
    <3>1. \A i \in DOMAIN others : i \in StoreProducts /\ i \notin DOMAIN items
      BY <2>5 DEF IsCart
    <3> QED BY <3>1, <2>1, <2>5 DEF Covers
  <2> QED BY <2>4, <2>5
<1> QED BY <1>1, <1>2

\* A request that ends and takes what it holds from the stock.
LEMMA RowsStayHeld ==
    ASSUME CommerceInv, NEW q \in Requests, End(q), RowsFree(q),
           IsCart(call[q].items), stock' \in {stock, Less(call[q].items)}
    PROVE  stock' \in [StoreProducts -> Int] /\ RowsHeld'
<1>1. stock \in [StoreProducts -> Int]
  BY DEF CommerceInv, RowsTyped
<1>2. \A p \in Requests \ {q} : call'[p] = call[p]
  BY Ended
<1>3. \A p \in Requests : HoldsRows(p)' => p # q /\ HoldsRows(p)
  BY <1>2, Ended DEF HoldsRows
<1>4. ASSUME NEW p \in Requests, HoldsRows(p)' PROVE Covers(call[p].items)'
  <2>1. HoldsRows(p) /\ p # q /\ call'[p] = call[p]
    BY <1>2, <1>3, <1>4
  <2>2. IsCart(call[p].items) /\ Covers(call[p].items)
    BY <2>1 DEF CommerceInv, RowsHeld, CallFits, HoldsRows
  <2>3. DOMAIN call[p].items \cap DOMAIN call[q].items = {}
    BY <2>1 DEF RowsFree
  <2>4. PICK others : others = call[p].items
    OBVIOUS
  <2>5. Covers(others)'
    BY <1>1, <2>2, <2>3, <2>4, LessOfOthers
  <2> QED BY <2>1, <2>4, <2>5 DEF Covers
<1>5. ASSUME NEW p \in Requests, NEW s \in Requests, p # s, HoldsRows(p)', HoldsRows(s)'
      PROVE  DOMAIN call'[p].items \cap DOMAIN call'[s].items = {}
  BY <1>2, <1>3, <1>5 DEF CommerceInv, RowsHeld
<1>6. stock' \in [StoreProducts -> Int]
  BY <1>1, LessOfOthers
<1> QED BY <1>4, <1>5, <1>6 DEF RowsHeld

\* Notes over the counter.
LEMMA NoteFinishes ==
    ASSUME CommerceInv, NEW q \in Requests, FinishNote(q)
    PROVE  CommerceInv'
<1>1. /\ call[q].pc = "counter" /\ RowsFree(q) /\ End(q) /\ UNCHANGED <<channel, order>>
      /\ stock' \in {stock, Less(call[q].items)}
  BY DEF FinishNote
<1>2. IsCart(call[q].items)
  BY <1>1 DEF CommerceInv, CallFits
<1>3. stock' \in [StoreProducts -> Int] /\ RowsHeld'
  BY <1>1, <1>2, RowsStayHeld
<1>4. /\ DOMAIN call' = Requests /\ CallFits(call'[q]) /\ call'[q].pc = "idle"
      /\ \A p \in Requests \ {q} : call'[p] = call[p]
  BY <1>1, Ended
<1>5. RowsTyped' /\ \A p \in Requests : CallFits(call'[p])
  BY <1>1, <1>3, <1>4 DEF CommerceInv, RowsTyped
<1>6. \A p \in Confirming' : p \in Confirming /\ call'[p] = call[p]
  BY <1>4 DEF Confirming
<1>7. KeysHeld'
  BY <1>1, <1>6 DEF CommerceInv, KeysHeld, Apart, Held, Enabled, PaymentUsed
<1>8. PaymentsBuyOnce'
  BY <1>1 DEF CommerceInv, PaymentsBuyOnce
<1> QED BY <1>3, <1>5, <1>7, <1>8 DEF CommerceInv, CallFits

\* What a sale writes, and what it knew when it did.
LEMMA SellWrites ==
    ASSUME CommerceInv, NEW q \in Requests, Sell(q)
    PROVE  LET r == call[q]
               k == <<r.channel, r.order>>
           IN  /\ k \in OrderKeys /\ Held(r) /\ IsCart(r.items) /\ Covers(r.items)
               /\ DOMAIN order' = OrderKeys
               /\ \A j \in OrderKeys \ {k} : order'[j] = order[j]
               /\ order'[k].store = r.store /\ order'[k].items = r.items
               /\ order'[k].payment = r.payment
               /\ RowsFree(q)
<1> DEFINE r == call[q]
           k == <<r.channel, r.order>>
           row == [store |-> r.store, items |-> r.items, payment |-> r.payment,
                   amount |-> r.content.amount]
<1>1. r.pc = "folio" /\ order' = [order EXCEPT ![k] = row]
  BY DEF Sell
<1>2. k \in OrderKeys /\ IsCart(r.items)
  BY <1>1 DEF CommerceInv, CallFits, OrderKeys
<1>3. DOMAIN order = OrderKeys
  BY DEF CommerceInv, RowsTyped
<1>4. /\ DOMAIN order' = OrderKeys /\ order'[k] = row
      /\ \A j \in OrderKeys \ {k} : order'[j] = order[j]
  <2> HIDE DEF row, r, k
  <2> QED BY <1>1, <1>2, <1>3
<1>5. row.store = r.store /\ row.items = r.items /\ row.payment = r.payment
  OBVIOUS
<1>6. q \in Confirming /\ HoldsRows(q)
  BY <1>1 DEF Confirming, HoldsRows
<1>7. Held(r) /\ Covers(r.items)
  BY <1>6 DEF CommerceInv, KeysHeld, RowsHeld
<1>8. RowsFree(q)
  BY <1>6 DEF CommerceInv, RowsHeld, RowsFree
<1> HIDE DEF row
<1> QED BY <1>2, <1>4, <1>5, <1>7, <1>8
\* A sale: its order and payment are known from then on, and nobody else was
\* confirming either.
LEMMA Sells ==
    ASSUME CommerceInv, NEW q \in Requests, Sell(q)
    PROVE  CommerceInv'
<1> DEFINE r == call[q]
           k == <<r.channel, r.order>>
<1>1. /\ r.pc = "folio" /\ End(q) /\ UNCHANGED channel /\ stock' = Less(r.items)
      /\ q \in Confirming
  BY DEF Sell, Confirming
<1>2. /\ k \in OrderKeys /\ Held(r) /\ IsCart(r.items) /\ RowsFree(q)
      /\ DOMAIN order' = OrderKeys
      /\ \A j \in OrderKeys \ {k} : order'[j] = order[j]
      /\ order'[k].payment = r.payment
  BY SellWrites
<1>3. stock' \in [StoreProducts -> Int] /\ RowsHeld'
  BY <1>1, <1>2, RowsStayHeld
<1>4. /\ DOMAIN call' = Requests /\ CallFits(call'[q]) /\ call'[q].pc = "idle"
      /\ \A p \in Requests \ {q} : call'[p] = call[p]
  BY <1>1, Ended
<1>5. RowsTyped' /\ \A p \in Requests : CallFits(call'[p])
  BY <1>1, <1>2, <1>3, <1>4 DEF CommerceInv, RowsTyped
<1>6. \A p \in Confirming' : p \in Confirming /\ p # q /\ call'[p] = call[p]
  BY <1>4 DEF Confirming
<1>7. ASSUME NEW p \in Confirming' PROVE Held(call[p])'
  <2>1. Held(call[p]) /\ Apart(call[p], r) /\ call'[p] = call[p]
    BY <1>1, <1>6 DEF CommerceInv, KeysHeld
  <2>2. <<call[p].channel, call[p].order>> \in OrderKeys \ {k}
    BY <1>6, <2>1 DEF CommerceInv, CallFits, OrderKeys, Confirming, Apart
  <2>3. order'[<<call[p].channel, call[p].order>>] = NULL
    BY <1>2, <2>1, <2>2 DEF Held
  <2>4. \A j \in OrderKeys : ~(order'[j] # NULL /\ order'[j].payment = call[p].payment)
    BY <1>2, <2>1 DEF Held, PaymentUsed, Apart
  <2> QED BY <1>1, <2>1, <2>3, <2>4 DEF Held, Enabled, PaymentUsed
<1>8. KeysHeld'
  BY <1>6, <1>7 DEF CommerceInv, KeysHeld, Apart
<1>9. PaymentsBuyOnce'
  <2>1. \A j \in OrderKeys : order[j] # NULL => order[j].payment # r.payment
    BY <1>2 DEF Held, PaymentUsed
  <2> QED BY <1>2, <2>1 DEF CommerceInv, PaymentsBuyOnce
<1> QED BY <1>3, <1>5, <1>8, <1>9 DEF CommerceInv, CallFits

\* Every step keeps the invariant.
LEMMA CommerceKept == CommerceInv /\ [ShopNext]_shopVars => CommerceInv'
<1> SUFFICES ASSUME CommerceInv, [ShopNext]_shopVars PROVE CommerceInv'
  OBVIOUS
<1>1. CASE UNCHANGED commerceVars
  BY <1>1, CommerceStays
<1>2. CASE CommerceStep
  <2>1. CASE \E c \in Channels, dto \in NewChannels : CreateChannel(c, dto)
    BY <2>1, ChannelMade
  <2>2. CASE \E c \in Channels, change \in ChannelChanges : UpdateChannel(c, change)
    BY <2>2, ChannelChanged
  <2>3. CASE \E q \in Requests, c \in Channels, x \in ExternalOrders, pay \in Payments,
               content \in WebOrders : Arrive(q, c, x, pay, content)
    BY <2>3, Arrives
  <2>4. CASE \E q \in Requests : Confirm(q)
    BY <2>4, Confirms
  <2>5. CASE \E q \in Requests : LockRows(q)
    BY <2>5, LocksRows
  <2>6. CASE \E q \in Requests : Sell(q)
    BY <2>6, Sells
  <2>7. CASE \E q \in Requests : FinishNote(q)
    BY <2>7, NoteFinishes
  <2>8. CASE \E q \in Requests : AbortVictim(q)
    BY <2>8, EndKeeps DEF AbortVictim
  <2>9. CASE \E q \in Requests, s \in Stores, items \in CounterCarts : StartNote(q, s, items)
    BY <2>9, NoteStarts
  <2> QED BY <1>2, <2>1, <2>2, <2>3, <2>4, <2>5, <2>6, <2>7, <2>8, <2>9 DEF CommerceStep
<1> QED BY <1>1, <1>2 DEF ShopNext, CatalogueStep, shopVars

\* What each confirmation has locked stays so until it commits, in every state.
THEOREM CommerceHolds == ShopSpec => []CommerceInv
<1>1. ShopInit => CommerceInv
  BY CommerceStarts DEF ShopInit
<1> QED BY <1>1, CommerceKept, PTL DEF ShopSpec, shopVars

\* A payment pays one order of the tenant, however often and by however many
\* requests its confirmation is repeated (commerce-sales.service.ts).
THEOREM PaymentsBuyOnceHolds == ShopSpec => []PaymentsBuyOnce
<1>1. CommerceInv => PaymentsBuyOnce
  BY DEF CommerceInv
<1> QED BY <1>1, CommerceHolds, PTL

\* Only a sale writes an order, and only its own.
LEMMA OrdersAreSold ==
    ASSUME CommerceInv, [ShopNext]_shopVars, NEW k \in OrderKeys, order[k] # order'[k]
    PROVE  \E q \in Requests : Sell(q) /\ k = <<call[q].channel, call[q].order>>
<1>1. \E q \in Requests : Sell(q)
  <2>1. order' # order
    OBVIOUS
  <2> QED
    BY <2>1 DEF ShopNext, CatalogueStep, CommerceStep, commerceVars, shopVars,
         CreateChannel, UpdateChannel, Arrive, Confirm, LockRows, FinishNote, AbortVictim,
         StartNote
<1> QED BY <1>1, SellWrites

\* Whatever the counter of the same store sells meanwhile, a web order takes
\* what there is and no more.
THEOREM WebOrdersNeverOversellHolds == ShopSpec => WebOrdersNeverOversell
<1>1. ASSUME CommerceInv, [ShopNext]_shopVars, NEW k \in OrderKeys, order[k] # order'[k],
             NEW i \in DOMAIN order'[k].items
      PROVE  stock'[i] >= 0
  <2>1. PICK q \in Requests : Sell(q) /\ k = <<call[q].channel, call[q].order>>
    BY <1>1, OrdersAreSold
  <2>2. /\ IsCart(call[q].items) /\ Covers(call[q].items)
        /\ order'[k].items = call[q].items
    BY <1>1, <2>1, SellWrites
  <2>3. i \in StoreProducts /\ i \in DOMAIN call[q].items /\ call[q].items[i] \in Nat
    BY <2>2 DEF IsCart
  <2>4. stock[i] \in Int /\ stock[i] >= call[q].items[i]
    BY <1>1, <2>2, <2>3 DEF Covers, CommerceInv, RowsTyped
  <2>5. stock'[i] = stock[i] - call[q].items[i]
    BY <2>1, <2>3 DEF Sell, Less
  <2> QED BY <2>3, <2>4, <2>5
<1>2. CommerceInv /\ [ShopNext]_shopVars =>
        [\A k \in OrderKeys : order[k] # order'[k] =>
            \A i \in DOMAIN order'[k].items : stock'[i] >= 0]_order
  BY <1>1
<1> QED BY <1>2, CommerceHolds, PTL DEF ShopSpec, shopVars, WebOrdersNeverOversell

\* A channel that was switched off or moved to another store while an order
\* waited for its locks registers no more orders.
THEOREM ChannelsHoldWhileSellingHolds == ShopSpec => ChannelsHoldWhileSelling
<1>1. ASSUME CommerceInv, [ShopNext]_shopVars, NEW k \in OrderKeys, order[k] # order'[k]
      PROVE  /\ channel[k[1]].active /\ channel[k[1]].salesEnabled
             /\ channel[k[1]].storeID = order'[k].store
  <2>1. PICK q \in Requests : Sell(q) /\ k = <<call[q].channel, call[q].order>>
    BY <1>1, OrdersAreSold
  <2>2. Enabled(call[q]) /\ order'[k].store = call[q].store /\ k[1] = call[q].channel
    BY <1>1, <2>1, SellWrites DEF Held
  <2> QED BY <2>2 DEF Enabled
<1>2. CommerceInv /\ [ShopNext]_shopVars =>
        [\A k \in OrderKeys : order[k] # order'[k] =>
            channel[k[1]].active /\ channel[k[1]].salesEnabled
              /\ channel[k[1]].storeID = order'[k].store]_order
  BY <1>1
<1> QED BY <1>2, CommerceHolds, PTL DEF ShopSpec, shopVars, ChannelsHoldWhileSelling
-----------------------------------------------------------------------------
(* Offers. *)

OfferFields == DOMAIN OfferDefaults \cup {"discountType", "value"}

\* An offer as it is stored: all its fields, of their types, and valid.
Stored(offer) ==
    /\ OfferFields \subseteq DOMAIN offer /\ FieldsFit(offer)
    /\ ValidOfferConfiguration(offer) /\ ValidDateRange(offer)

OffersInv ==
    /\ \E S : offers \in Seq(S)
    /\ \A o \in DOMAIN offers : Stored(offers[o])

\* Merging a DTO: its fields win, the others stay.
LEMMA MergeFields ==
    ASSUME NEW dto, NEW row
    PROVE  /\ DOMAIN Merged(dto, row) = DOMAIN dto \cup DOMAIN row
           /\ \A f \in DOMAIN dto : Merged(dto, row)[f] = dto[f]
           /\ \A f \in DOMAIN row \ DOMAIN dto : Merged(dto, row)[f] = row[f]
  BY DEF Merged

\* A field the DTO does not carry, and one it does.
LEMMA FieldKept ==
    ASSUME NEW dto, NEW row, NEW f, f \in DOMAIN row, f \notin DOMAIN dto
    PROVE  Merged(dto, row)[f] = row[f]
  BY DEF Merged

LEMMA FieldSent ==
    ASSUME NEW dto, NEW row, NEW f, f \in DOMAIN dto
    PROVE  Merged(dto, row)[f] = dto[f]
  BY DEF Merged

\* Its fields have their types if those of the DTO and of the row have.
LEMMA MergeFits ==
    ASSUME NEW dto, NEW row, FieldsFit(dto), FieldsFit(row)
    PROVE  FieldsFit(Merged(dto, row))
<1> DEFINE both == Merged(dto, row)
<1>1. ASSUME NEW f \in DOMAIN both
      PROVE  \E r \in {dto, row} : f \in DOMAIN r /\ both[f] = r[f]
  <2>1. CASE f \in DOMAIN dto
    BY <2>1, FieldSent
  <2>2. CASE f \notin DOMAIN dto
    <3>1. f \in DOMAIN row
      BY <2>2, MergeFields
    <3> QED BY <2>2, <3>1, FieldKept
  <2> QED BY <2>1, <2>2
<1> HIDE DEF both
<1>2. FieldsFit(both)
  <2> SUFFICES ASSUME NEW f \in DOMAIN both
               PROVE  /\ f = "discountType" => both[f] \in DiscountTypes
                      /\ f \in {"value", "priority", "startDate"} => both[f] \in Int
                      /\ f = "allowBelowMargin" => both[f] \in BOOLEAN
                      /\ f \in {"buyQuantity", "payQuantity"} => both[f] \in Nat \cup {NULL}
                      /\ f = "bundleItems" =>
                           IsFiniteSet(DOMAIN both[f]) /\ \A i \in DOMAIN both[f] : both[f][i] \in Int
    BY DEF FieldsFit
  <2>1. PICK r \in {dto, row} : f \in DOMAIN r /\ both[f] = r[f]
    BY <1>1
  <2>2. FieldsFit(r)
    BY <2>1
  <2> QED BY <2>1, <2>2 DEF FieldsFit
<1> QED BY <1>2 DEF both

LEMMA DefaultsFit == FieldsFit(OfferDefaults)
<1> DEFINE row == OfferDefaults
<1>1. /\ row.allowBelowMargin = FALSE /\ row.startDate = 0 /\ row.priority = 0
      /\ row.buyQuantity = NULL /\ row.payQuantity = NULL
      /\ row.bundleItems = <<>> /\ "discountType" \notin DOMAIN row
      /\ "value" \notin DOMAIN row
  BY DEF OfferDefaults
<1>2. IsFiniteSet({}) /\ DOMAIN <<>> = {}
  BY FS_EmptySet
<1> HIDE DEF row
<1>3. FieldsFit(row)
  <2> SUFFICES ASSUME NEW f \in DOMAIN row
               PROVE  /\ f = "discountType" => row[f] \in DiscountTypes
                      /\ f \in {"value", "priority", "startDate"} => row[f] \in Int
                      /\ f = "allowBelowMargin" => row[f] \in BOOLEAN
                      /\ f \in {"buyQuantity", "payQuantity"} => row[f] \in Nat \cup {NULL}
                      /\ f = "bundleItems" =>
                           IsFiniteSet(DOMAIN row[f]) /\ \A i \in DOMAIN row[f] : row[f][i] \in Int
    BY DEF FieldsFit
  <2>1. f # "discountType" /\ f # "value"
    BY <1>1
  <2>2. f = "bundleItems" =>
           IsFiniteSet(DOMAIN row[f]) /\ \A i \in DOMAIN row[f] : row[f][i] \in Int
    BY <1>1, <1>2
  <2>3. f = "allowBelowMargin" => row[f] \in BOOLEAN
    BY <1>1
  <2>4. /\ f \in {"value", "priority", "startDate"} => row[f] \in Int
        /\ f \in {"buyQuantity", "payQuantity"} => row[f] \in Nat \cup {NULL}
    BY <1>1, <2>1
  <2> QED BY <2>1, <2>2, <2>3, <2>4
<1> QED BY <1>3 DEF row

\* The row validated is the row stored but for its products, which the DTO has
\* to send again: a stored offer that needs products has those it was sent.
LEMMA ValidatedIsStored ==
    ASSUME NEW dto, NEW offer, OfferFields \subseteq DOMAIN offer,
           \A f \in DOMAIN dto : f \in DOMAIN offer /\ offer[f] = dto[f],
           ValidOfferConfiguration(Merged(dto, [offer EXCEPT !.productIDs = {}]))
    PROVE  ValidOfferConfiguration(offer)
<1> DEFINE bare == [offer EXCEPT !.productIDs = {}]
           config == Merged(dto, bare)
<1>1. /\ DOMAIN bare = DOMAIN offer /\ bare["productIDs"] = {}
      /\ \A f \in DOMAIN offer \ {"productIDs"} : bare[f] = offer[f]
  BY DEF OfferFields, OfferDefaults
<1>2. ValidOfferConfiguration(config)
  OBVIOUS
<1>3. /\ \A f \in DOMAIN dto : config[f] = dto[f]
      /\ \A f \in DOMAIN bare \ DOMAIN dto : config[f] = bare[f]
  <2> HIDE DEF bare
  <2> QED BY MergeFields
<1> HIDE DEF bare, config
<1>4. \A f \in OfferFields \ {"productIDs"} : config[f] = offer[f]
  BY <1>1, <1>3
<1>5. config["productIDs"] # {} => offer["productIDs"] # {}
  <2>1. "productIDs" \in DOMAIN bare
    BY <1>1 DEF OfferFields, OfferDefaults
  <2> QED BY <1>1, <1>3, <2>1
<1>8. {"discountType", "buyQuantity", "payQuantity", "bundleItems", "storeID", "targetScope",
       "storeProductID", "categoryID", "brand", "model"} \subseteq OfferFields \ {"productIDs"}
  BY DEF OfferFields, OfferDefaults
<1>6. /\ config.discountType = offer.discountType /\ config.buyQuantity = offer.buyQuantity
      /\ config.payQuantity = offer.payQuantity /\ config.bundleItems = offer.bundleItems
      /\ config.storeID = offer.storeID /\ config.targetScope = offer.targetScope
      /\ config.storeProductID = offer.storeProductID
      /\ config.categoryID = offer.categoryID
      /\ config.brand = offer.brand /\ config.model = offer.model
  BY <1>4, <1>8
<1>7. config.productIDs # {} => offer.productIDs # {}
  BY <1>5
<1> QED BY <1>2, <1>6, <1>7, Zenon DEF ValidOfferConfiguration

\* A created offer has every field.
LEMMA CreatedStored ==
    ASSUME OffersInv, NEW dto \in NewOffers, CreateSpecialOffer(dto)
    PROVE  OffersInv'
<1>1. PICK offer : offer = Merged(dto, OfferDefaults)
  OBVIOUS
<1>2. /\ ValidOfferConfiguration(offer) /\ ValidDateRange(offer)
      /\ offers' = Append(offers, offer)
  BY <1>1 DEF CreateSpecialOffer
<1>3. Stored(offer)
  <2>1. DOMAIN offer = DOMAIN dto \cup DOMAIN OfferDefaults
    BY <1>1, MergeFields, Zenon
  <2>2. {"discountType", "value"} \subseteq DOMAIN dto /\ FieldsFit(dto)
    BY CatalogueAssumption
  <2>3. OfferFields \subseteq DOMAIN offer
    BY <2>1, <2>2 DEF OfferFields
  <2>4. FieldsFit(offer)
    BY <1>1, <2>2, MergeFits, DefaultsFit
  <2> QED BY <1>2, <2>3, <2>4 DEF Stored
<1>4. PICK S : offers \in Seq(S)
  BY DEF OffersInv
<1>5. PICK T : T = S \cup {offer}
  OBVIOUS
<1>6. offers \in Seq(T) /\ offer \in T
  BY <1>4, <1>5
<1>7. /\ offers' \in Seq(T) /\ DOMAIN offers' = 1..(Len(offers) + 1)
      /\ offers'[Len(offers) + 1] = offer
      /\ \A o \in 1..Len(offers) : offers'[o] = offers[o]
  BY <1>2, <1>6
<1>8. DOMAIN offers = 1..Len(offers) /\ Len(offers) \in Nat
  BY <1>6
<1>9. \A o \in DOMAIN offers' : Stored(offers'[o])
  BY <1>3, <1>7, <1>8 DEF OffersInv
<1> QED BY <1>7, <1>9 DEF OffersInv, Stored

\* An updated one keeps them, and is valid as it is stored.
LEMMA UpdatedStored ==
    ASSUME OffersInv, NEW o \in DOMAIN offers, NEW dto \in OfferChanges,
           UpdateSpecialOffer(o, dto)
    PROVE  OffersInv'
<1>1. PICK offer : offer = TargetOf(dto, offers[o])
  OBVIOUS
<1>2. /\ ValidOfferConfiguration(Merged(dto, [offer EXCEPT !.productIDs = {}]))
      /\ ValidDateRange(offer)
      /\ offers' = [offers EXCEPT ![o] = offer]
  BY <1>1 DEF UpdateSpecialOffer
<1>4. OfferFields \subseteq DOMAIN offers[o]
  BY DEF OffersInv, Stored
<1>3. PICK row : /\ offer = Merged(dto, row)
                 /\ DOMAIN row = DOMAIN offers[o]
                 /\ FieldsFit(row)
  <2>1. PICK target :
          offer = Merged(dto, [offers[o] EXCEPT !.storeProductID = target])
    BY <1>1 DEF TargetOf
  <2> DEFINE row == [offers[o] EXCEPT !.storeProductID = target]
  <2>2. /\ DOMAIN row = DOMAIN offers[o]
        /\ \A f \in DOMAIN row \ {"storeProductID"} : row[f] = offers[o][f]
    OBVIOUS
  <2>3. FieldsFit(offers[o])
    BY DEF OffersInv, Stored
  <2> HIDE DEF row
  <2>4. FieldsFit(row)
    BY <2>2, <2>3 DEF FieldsFit
  <2> QED BY <2>1, <2>2, <2>4 DEF row
<1>5. /\ OfferFields \subseteq DOMAIN offer
      /\ \A f \in DOMAIN dto : f \in DOMAIN offer /\ offer[f] = dto[f]
  <2>1. /\ DOMAIN offer = DOMAIN dto \cup DOMAIN row
        /\ \A f \in DOMAIN dto : offer[f] = dto[f]
    BY <1>3, MergeFields, Zenon
  <2> QED BY <1>3, <1>4, <2>1
<1>6. Stored(offer)
  <2>1. FieldsFit(dto)
    BY CatalogueAssumption
  <2>2. FieldsFit(offer)
    BY <1>3, <2>1, MergeFits
  <2> QED BY <1>2, <1>5, <2>2, ValidatedIsStored DEF Stored
<1>7. PICK S : offers \in Seq(S)
  BY DEF OffersInv
<1>8. PICK T : T = S \cup {offer}
  OBVIOUS
<1>9. offers' \in Seq(T) /\ DOMAIN offers' = DOMAIN offers
  BY <1>2, <1>7, <1>8
<1>10. \A p \in DOMAIN offers' : Stored(offers'[p])
  BY <1>2, <1>6, <1>9 DEF OffersInv
<1> QED BY <1>9, <1>10 DEF OffersInv, Stored

\* Every offer is stored whole, however many partial updates it goes through.
LEMMA OffersHold == ShopSpec => []OffersInv
<1>1. ShopInit => OffersInv
  <2>1. ShopInit => offers = <<>>
    BY DEF ShopInit, CatalogueInit
  <2>2. <<>> \in Seq({}) /\ DOMAIN <<>> = {}
    OBVIOUS
  <2> QED BY <2>1, <2>2 DEF OffersInv
<1>2. OffersInv /\ [ShopNext]_shopVars => OffersInv'
  <2> SUFFICES ASSUME OffersInv, [ShopNext]_shopVars PROVE OffersInv'
    OBVIOUS
  <2>1. CASE UNCHANGED offers
    BY <2>1 DEF OffersInv, Stored
  <2>2. CASE \E dto \in NewOffers : CreateSpecialOffer(dto)
    BY <2>2, CreatedStored
  <2>3. CASE \E o \in DOMAIN offers, dto \in OfferChanges : UpdateSpecialOffer(o, dto)
    BY <2>3, UpdatedStored
  <2> QED
    BY <2>1, <2>2, <2>3 DEF ShopNext, CatalogueStep, CommerceStep, offerVars, shopVars,
       CreateCategory, UpdateCategory, RemoveCategory, BulkUpsert, UpdatePrice, Tick,
       CreateChannel, UpdateChannel, Arrive, Confirm, LockRows, Sell, FinishNote,
       AbortVictim, StartNote
<1> QED BY <1>1, <1>2, PTL DEF ShopSpec, shopVars

\* However many partial updates of type, scope and dates an offer goes through,
\* what is stored is an offer creation would have accepted (offer.service.ts).
THEOREM StoredOffersHold == ShopSpec => []StoredOffersStayValid
<1>1. OffersInv => StoredOffersStayValid
  BY DEF OffersInv, Stored, StoredOffersStayValid
<1> QED BY <1>1, OffersHold, PTL

-----------------------------------------------------------------------------
(* The offers in order. *)

\* The offers listed can be put in order: two of them are one before the other.
Comparable(os) ==
    /\ IsFiniteSet(os)
    /\ \A o \in os : o \in Int /\ offers[o].priority \in Int /\ offers[o].startDate \in Int

LEMMA OffersComparable == ASSUME OffersInv PROVE Comparable(DOMAIN offers)
<1>1. DOMAIN offers = 1..Len(offers) /\ Len(offers) \in Nat
  BY DEF OffersInv
<1>2. IsFiniteSet(DOMAIN offers)
  BY <1>1, FS_Interval
<1>3. ASSUME NEW o \in DOMAIN offers
      PROVE  offers[o].priority \in Int /\ offers[o].startDate \in Int
  <2>1. {"priority", "startDate"} \subseteq DOMAIN offers[o] /\ FieldsFit(offers[o])
    BY DEF OffersInv, Stored, OfferFields, OfferDefaults
  <2> QED BY <2>1 DEF FieldsFit
<1> QED BY <1>1, <1>2, <1>3 DEF Comparable

\* Those that go before an offer.
Earlier(os, o) == {p \in os : Before(p, o)}

LEMMA BeforeOrders ==
    ASSUME NEW os, Comparable(os)
    PROVE  /\ \A o \in os : ~Before(o, o)
           /\ \A o, p \in os : o # p => Before(o, p) \/ Before(p, o)
           /\ \A o, p, q \in os : Before(o, p) /\ Before(p, q) => Before(o, q)
  BY DEF Comparable, Before

\* InOrder lists a set of offers: each in its place, which is how many go before.
LEMMA InOrderLists ==
    ASSUME NEW os, Comparable(os)
    PROVE  LET n == Cardinality(os)
               xs == InOrder(os)
           IN  /\ n \in Nat /\ xs \in [1..n -> os]
               /\ \A k \in 1..n : Cardinality(Earlier(os, xs[k])) = k - 1
               /\ \A o \in os : \E k \in 1..n : xs[k] = o
               /\ \A j, k \in 1..n : j < k => Before(xs[j], xs[k])
<1> DEFINE n == Cardinality(os)
           xs == InOrder(os)
           before == [o \in os |-> Earlier(os, o)]
<1>1. /\ before \in [os -> SUBSET os]
      /\ \A o \in os : o \notin before[o]
      /\ \A o, p \in os : o # p => o \in before[p] \/ p \in before[o]
      /\ \A o, p \in os : o \in before[p] => before[o] \subseteq before[p]
      /\ IsFiniteSet(os)
  BY BeforeOrders DEF Earlier, Comparable
<1>2. /\ n \in Nat
      /\ \A k \in 1..n : \E o \in os : Cardinality(before[o]) = k - 1
      /\ \A o \in os : Cardinality(before[o]) + 1 \in 1..n
      /\ \A o, p \in os : o \in before[p] <=> Cardinality(before[o]) < Cardinality(before[p])
  <2> HIDE DEF before
  <2> QED BY <1>1, RanksAreTaken
<1>3. ASSUME NEW k \in 1..n
      PROVE  xs[k] \in os /\ Cardinality(Earlier(os, xs[k])) = k - 1
  <2>1. xs[k] = CHOOSE o \in os : Cardinality(Earlier(os, o)) = k - 1
    BY DEF InOrder, Ranked, Earlier
  <2>2. \E o \in os : Cardinality(Earlier(os, o)) = k - 1
    BY <1>2
  <2> QED BY <2>1, <2>2
<1>4. xs \in [1..n -> os]
  BY <1>3 DEF InOrder, Ranked
<1>5. \A o \in os : before[o] = Earlier(os, o)
  OBVIOUS
<1> HIDE DEF n, xs, before
<1>6. ASSUME NEW o \in os PROVE \E k \in 1..n : xs[k] = o
  <2>1. PICK k \in 1..n : k = Cardinality(before[o]) + 1
    BY <1>2
  <2>2. xs[k] \in os /\ Cardinality(before[xs[k]]) = k - 1
    BY <1>3, <1>5
  <2>3. Cardinality(before[o]) + 1 \in 1..n /\ Cardinality(before[o]) \in Int
    <3>1. before[o] \subseteq os /\ IsFiniteSet(before[o])
      BY <1>1, FS_Subset DEF before
    <3> QED BY <1>2, <3>1, FS_CardinalityType
  <2>5. Cardinality(before[o]) = k - 1
    BY <2>1, <2>3
  <2>4. o \notin before[xs[k]] /\ xs[k] \notin before[o]
    BY <1>2, <2>2, <2>3, <2>5
  <2> QED BY <1>1, <2>2, <2>4
<1>7. ASSUME NEW j \in 1..n, NEW k \in 1..n, j < k PROVE Before(xs[j], xs[k])
  <2>1. /\ xs[j] \in os /\ xs[k] \in os
        /\ Cardinality(before[xs[j]]) = j - 1 /\ Cardinality(before[xs[k]]) = k - 1
    BY <1>3, <1>5
  <2>2. xs[j] \in before[xs[k]]
    BY <1>2, <1>7, <2>1
  <2> QED BY <1>5, <2>1, <2>2 DEF Earlier
<1> QED BY <1>2, <1>3, <1>4, <1>6, <1>7 DEF n, xs

-----------------------------------------------------------------------------
(* The offers applied one after another. *)

\* What an offer makes of a cart: ids has the store products it is for.
CartStep(cart, o, ids) ==
    IF cart.exclusive \/ ids = {} THEN cart
    ELSE [lines |-> ApplyOffer(cart.lines, ids, offers[o]), exclusive |-> offers[o].exclusive]

\* A cart after the offers at the positions s of os, the last one last.
CartRun(D, lines, os, ids, g) ==
    g = [s \in SUBSET D |->
            IF s = {} THEN [lines |-> lines, exclusive |-> FALSE]
            ELSE CartStep(g[s \ {Last(s)}], os[Last(s)], ids[os[Last(s)]])]

\* Two such runs agree wherever both are defined.
LEMMA CartRunUnique ==
    ASSUME NEW n \in Nat, NEW lines, NEW os, NEW ids,
           NEW D, NEW E, D \subseteq 1..n, E \subseteq D, NEW g, NEW h,
           CartRun(D, lines, os, ids, g), CartRun(E, lines, os, ids, h)
    PROVE  \A s \in SUBSET E : g[s] = h[s]
<1> DEFINE Good == {s \in SUBSET E : g[s] = h[s]}
<1>1. ASSUME NEW s \in SUBSET E, \A t \in SUBSET s : t # s => t \in Good
      PROVE  s \in Good
  <2>1. /\ g[s] = IF s = {} THEN [lines |-> lines, exclusive |-> FALSE]
                  ELSE CartStep(g[s \ {Last(s)}], os[Last(s)], ids[os[Last(s)]])
        /\ h[s] = IF s = {} THEN [lines |-> lines, exclusive |-> FALSE]
                  ELSE CartStep(h[s \ {Last(s)}], os[Last(s)], ids[os[Last(s)]])
    BY DEF CartRun
  <2>2. CASE s = {}
    BY <2>1, <2>2
  <2>3. CASE s # {}
    <3>1. Last(s) \in s
      BY <2>3, LastIn
    <3>2. g[s \ {Last(s)}] = h[s \ {Last(s)}]
      BY <1>1, <3>1
    <3> QED BY <2>1, <2>3, <3>2
  <2> QED BY <2>2, <2>3
<1>2. IsFiniteSet(E)
  <2>1. IsFiniteSet(1..n)
    BY FS_Interval
  <2> QED BY <2>1, FS_Subset
<1> HIDE DEF Good
<1>3. \A s \in SUBSET E : s \in Good
  BY <1>1, <1>2, SubsetInduction
<1> QED BY <1>3 DEF Good

\* And there is one.
LEMMA CartRunExists ==
    ASSUME NEW n \in Nat, NEW lines, NEW os, NEW ids
    PROVE  \E g : CartRun(1..n, lines, os, ids, g)
<1> DEFINE Good == {s \in SUBSET (1..n) : \E g : CartRun(s, lines, os, ids, g)}
           At(t) == (CHOOSE g : CartRun(t, lines, os, ids, g))[t]
           Next(t, rest) == IF t = {} THEN [lines |-> lines, exclusive |-> FALSE]
                            ELSE CartStep(rest, os[Last(t)], ids[os[Last(t)]])
<1>1. ASSUME NEW s \in SUBSET (1..n), \A t \in SUBSET s : t # s => t \in Good
      PROVE  s \in Good
  <2> DEFINE Rest(t) == t \ {Last(t)}
             h == [t \in SUBSET s |-> IF t # s THEN At(t) ELSE Next(s, At(Rest(s)))]
  <2>1. \A t \in SUBSET s : t # {} => Rest(t) \in SUBSET t /\ Rest(t) # t
    BY LastIn
  <2>2. ASSUME NEW t \in SUBSET s, t # s PROVE At(t) = Next(t, At(Rest(t)))
    <3> DEFINE g == CHOOSE f : CartRun(t, lines, os, ids, f)
    <3>1. CartRun(t, lines, os, ids, g)
      <4>1. \E f : CartRun(t, lines, os, ids, f)
        BY <1>1, <2>2
      <4> QED BY <4>1, Zenon
    <3>2. At(t) = Next(t, g[Rest(t)])
      BY <3>1 DEF CartRun
    <3>3. CASE t = {}
      BY <3>2, <3>3
    <3>4. CASE t # {}
      <4> DEFINE u == Rest(t)
                 k == CHOOSE f : CartRun(u, lines, os, ids, f)
      <4>1. u \in SUBSET t /\ u # t /\ u # s /\ u \in SUBSET s
        BY <2>1, <2>2, <3>4
      <4>2. CartRun(u, lines, os, ids, k)
        <5>1. \E f : CartRun(u, lines, os, ids, f)
          BY <1>1, <4>1
        <5> HIDE DEF u
        <5> QED BY <5>1, Zenon
      <4>3. t \subseteq 1..n /\ u \subseteq t
        BY <4>1
      <4> HIDE DEF g, k, u
      <4>4. g[u] = k[u]
        BY <3>1, <4>2, <4>3, CartRunUnique
      <4>5. At(Rest(t)) = k[u]
        BY DEF u, k
      <4> HIDE DEF At
      <4> QED BY <3>2, <4>4, <4>5 DEF u
    <3> QED BY <3>3, <3>4
  <2> HIDE DEF At
  <2>3. ASSUME NEW t \in SUBSET s PROVE h[t] = Next(t, h[Rest(t)])
    <3>1. CASE t = {} /\ t # s
      BY <2>2, <3>1
    <3>2. CASE t = {} /\ t = s
      BY <3>2
    <3>3. CASE t # {}
      <4>1. Rest(t) \in SUBSET s /\ Rest(t) # s
        <5>1. Rest(t) \in SUBSET t /\ Rest(t) # t
          BY <2>1, <3>3
        <5> HIDE DEF Rest
        <5> QED BY <5>1
      <4>2. h[Rest(t)] = At(Rest(t))
        BY <4>1
      <4>3. CASE t = s
        BY <4>2, <4>3
      <4>4. CASE t # s
        BY <2>2, <4>2, <4>4
      <4> QED BY <4>3, <4>4
    <3> QED BY <3>1, <3>2, <3>3
  <2>4. h = [t \in SUBSET s |-> h[t]]
    OBVIOUS
  <2> HIDE DEF h
  <2>5. h = [t \in SUBSET s |-> Next(t, h[Rest(t)])]
    BY <2>3, <2>4
  <2>6. CartRun(s, lines, os, ids, h)
    BY <2>5 DEF CartRun
  <2> QED BY <2>6
<1> HIDE DEF Good
<1>2. IsFiniteSet(1..n)
  BY FS_Interval
<1>3. \A s \in SUBSET (1..n) : s \in Good
  BY <1>1, <1>2, SubsetInduction
<1>4. 1..n \in SUBSET (1..n)
  OBVIOUS
<1> QED BY <1>3, <1>4 DEF Good

\* A run along the positions 1, 2, ...
RunOf(lines, os, ids) == CHOOSE g : CartRun(DOMAIN os, lines, os, ids, g)

LEMMA RunSteps ==
    ASSUME NEW n \in Nat, NEW lines, NEW os, DOMAIN os = 1..n, NEW ids
    PROVE  LET c == RunOf(lines, os, ids)
           IN  /\ c[1..0] = [lines |-> lines, exclusive |-> FALSE]
               /\ \A k \in 0..(n-1) :
                    c[1..(k+1)] = CartStep(c[1..k], os[k+1], ids[os[k+1]])
<1> DEFINE c == RunOf(lines, os, ids)
<1>1. CartRun(1..n, lines, os, ids, c)
  <2>1. \E g : CartRun(1..n, lines, os, ids, g)
    BY CartRunExists
  <2> QED BY <2>1, Zenon DEF RunOf
<1> HIDE DEF c
<1>2. 1..0 = {} /\ {} \in SUBSET (1..n)
  OBVIOUS
<1>3. c[1..0] = [lines |-> lines, exclusive |-> FALSE]
  BY <1>1, <1>2 DEF CartRun
<1>4. ASSUME NEW k \in 0..(n-1)
      PROVE  c[1..(k+1)] = CartStep(c[1..k], os[k+1], ids[os[k+1]])
  <2>1. 1..(k+1) \in SUBSET (1..n) /\ 1..(k+1) # {} /\ (1..(k+1)) \ {k+1} = 1..k
    OBVIOUS
  <2>2. Last(1..(k+1)) = k + 1
    BY LastOfPrefix
  <2> QED BY <1>1, <2>1, <2>2 DEF CartRun
<1> QED BY <1>3, <1>4 DEF c

\* The offers os over the store products here, as a cart and as the list ask.
CartOver(lines, os, here) ==
    WithOffers(lines, os, LAMBDA o : ApplicableStoreProducts(offers[o], here))
ListOver(lines, os, here) == WithOffers(lines, os, LAMBDA o : here)

\* Both are such a run, wherever the store products of its offers come from.
LEMMA CartIsRun ==
    ASSUME NEW n \in Nat, NEW lines, NEW os, os \in [1..n -> DOMAIN offers], NEW here,
           NEW ids, \A o \in DOMAIN offers : ids[o] = ApplicableStoreProducts(offers[o], here)
    PROVE  CartOver(lines, os, here) = RunOf(lines, os, ids)[1..n]
<1> DEFINE Runs(g) == g = [s \in SUBSET DOMAIN os |->
              IF s = {} THEN [lines |-> lines, exclusive |-> FALSE]
              ELSE CartStep(g[s \ {Last(s)}], os[Last(s)],
                            ApplicableStoreProducts(offers[os[Last(s)]], here))]
<1>1. CartOver(lines, os, here) = (CHOOSE g : Runs(g))[DOMAIN os]
  BY DEF CartOver, WithOffers, Seqs!FoldLeft, Seqs!MapThenFoldSet, Seqs!Max, Last, CartStep
<1>2. \A s \in SUBSET DOMAIN os : s # {} => os[Last(s)] \in DOMAIN offers
  BY LastIn
<1>3. ASSUME NEW g PROVE Runs(g) <=> CartRun(DOMAIN os, lines, os, ids, g)
  BY <1>2 DEF CartRun
<1>4. (CHOOSE g : Runs(g)) = RunOf(lines, os, ids)
  BY <1>3 DEF RunOf
<1> QED BY <1>1, <1>4

LEMMA ListIsRun ==
    ASSUME NEW n \in Nat, NEW lines, NEW os, os \in [1..n -> DOMAIN offers], NEW here,
           NEW ids, \A k \in 1..n : ids[os[k]] = here
    PROVE  ListOver(lines, os, here) = RunOf(lines, os, ids)[1..n]
<1> DEFINE Runs(g) == g = [s \in SUBSET DOMAIN os |->
              IF s = {} THEN [lines |-> lines, exclusive |-> FALSE]
              ELSE CartStep(g[s \ {Last(s)}], os[Last(s)], here)]
<1>1. ListOver(lines, os, here) = (CHOOSE g : Runs(g))[DOMAIN os]
  BY DEF ListOver, WithOffers, Seqs!FoldLeft, Seqs!MapThenFoldSet, Seqs!Max, Last, CartStep
<1>2. \A s \in SUBSET DOMAIN os : s # {} => Last(s) \in 1..n
  BY LastIn
<1>3. ASSUME NEW g PROVE Runs(g) <=> CartRun(DOMAIN os, lines, os, ids, g)
  BY <1>2 DEF CartRun
<1>4. (CHOOSE g : Runs(g)) = RunOf(lines, os, ids)
  BY <1>3 DEF RunOf
<1> QED BY <1>1, <1>4

-----------------------------------------------------------------------------
\* Offers for none of the cart make no difference, listed or not.
LEMMA OffersSkipped ==
    ASSUME NEW os, Comparable(os), NEW ids, NEW lines
    PROVE  LET some == {o \in os : ids[o] # {}}
           IN  RunOf(lines, InOrder(os), ids)[1..Cardinality(os)]
                 = RunOf(lines, InOrder(some), ids)[1..Cardinality(some)]
<1> DEFINE some == {o \in os : ids[o] # {}}
           n == Cardinality(os)
           m == Cardinality(some)
           xs == InOrder(os)
           ys == InOrder(some)
           c == RunOf(lines, xs, ids)
           d == RunOf(lines, ys, ids)
           Met(k) == {o \in some : \E j \in 1..k : xs[j] = o}
           Good == {k \in 0..n : /\ Cardinality(Met(k)) \in 0..m
                                 /\ c[1..k] = d[1..Cardinality(Met(k))]}
<1>1. /\ n \in Nat /\ xs \in [1..n -> os]
      /\ \A k \in 1..n : Cardinality(Earlier(os, xs[k])) = k - 1
      /\ \A o \in os : \E k \in 1..n : xs[k] = o
      /\ \A j, k \in 1..n : j < k => Before(xs[j], xs[k])
  BY InOrderLists
<1>2. Comparable(some) /\ IsFiniteSet(some) /\ some \subseteq os
  BY FS_Subset DEF Comparable
<1>3. /\ m \in Nat /\ ys \in [1..m -> some]
      /\ \A k \in 1..m : Cardinality(Earlier(some, ys[k])) = k - 1
      /\ \A o \in some : \E k \in 1..m : ys[k] = o
  <2> HIDE DEF some
  <2> QED BY <1>2, InOrderLists
<1>4. /\ c[1..0] = [lines |-> lines, exclusive |-> FALSE]
      /\ \A k \in 0..(n-1) : c[1..(k+1)] = CartStep(c[1..k], xs[k+1], ids[xs[k+1]])
  <2>1. DOMAIN xs = 1..n
    BY <1>1
  <2> HIDE DEF xs, n
  <2> QED BY <1>1, <2>1, RunSteps
<1>5. /\ d[1..0] = [lines |-> lines, exclusive |-> FALSE]
      /\ \A k \in 0..(m-1) : d[1..(k+1)] = CartStep(d[1..k], ys[k+1], ids[ys[k+1]])
  <2>1. DOMAIN ys = 1..m
    BY <1>3
  <2> HIDE DEF ys, m
  <2> QED BY <1>3, <2>1, RunSteps
<1>6. \A o \in os : ~Before(o, o)
  BY BeforeOrders
<1>7. \A o, p, q \in os : Before(o, p) /\ Before(p, q) => Before(o, q)
  BY BeforeOrders
<1>8. \A o \in some : o \in os /\ ids[o] # {}
  OBVIOUS
<1>9. \A o \in os \ some : ids[o] = {}
  OBVIOUS
<1> HIDE DEF n, m, xs, ys, c, d, some
<1>10. 0 \in Good
  <2>1. Met(0) = {}
    BY <1>1
  <2>2. Cardinality(Met(0)) = 0
    BY <2>1, FS_EmptySet
  <2>3. c[1..0] = d[1..Cardinality(Met(0))]
    BY <1>4, <1>5, <2>2
  <2>4. 0 \in 0..n /\ Cardinality(Met(0)) \in 0..m
    BY <1>1, <1>3, <2>2
  <2> HIDE DEF Met
  <2> QED BY <2>3, <2>4
<1>11. ASSUME NEW k \in 0..(n-1), k \in Good PROVE k + 1 \in Good
  <2> DEFINE o == xs[k+1]
  <2>1. o \in os /\ k + 1 \in 1..n /\ k + 1 \in 0..n
    BY <1>1
  <2>2. Cardinality(Met(k)) \in 0..m /\ c[1..k] = d[1..Cardinality(Met(k))]
    BY <1>11
  <2>3. c[1..(k+1)] = CartStep(c[1..k], o, ids[o])
    BY <1>4
  <2>4. Met(k+1) = IF o \in some THEN Met(k) \cup {o} ELSE Met(k)
    <3>1. \A j \in 1..(k+1) : j \in 1..k \/ j = k + 1
      OBVIOUS
    <3>2. k + 1 \in 1..(k+1) /\ \A j \in 1..k : j \in 1..(k+1)
      OBVIOUS
    <3> QED BY <3>1, <3>2
  <2> HIDE DEF Met
  <2>5. CASE o \notin some
    <3>1. ids[o] = {} /\ Met(k+1) = Met(k)
      BY <1>9, <2>1, <2>4, <2>5
    <3>2. c[1..(k+1)] = c[1..k]
      BY <2>3, <3>1 DEF CartStep
    <3> QED BY <2>1, <2>2, <3>1, <3>2
  <2>6. CASE o \in some
    <3>1. PICK l \in 1..m : ys[l] = o
      BY <1>3, <2>6
    <3>2. Met(k) = Earlier(some, o)
      <4>1. ASSUME NEW p \in some, p \in Met(k) PROVE Before(p, o)
        <5>1. PICK j \in 1..k : xs[j] = p
          BY <4>1 DEF Met
        <5>2. j \in 1..n /\ j < k + 1
          BY <1>1
        <5> QED BY <1>1, <2>1, <5>1, <5>2
      <4>2. ASSUME NEW p \in some, Before(p, o) PROVE p \in Met(k)
        <5>1. PICK j \in 1..n : xs[j] = p
          BY <1>1, <1>8
        <5>2. j # k + 1
          BY <1>6, <2>1, <4>2, <5>1
        <5>3. ~(k + 1 < j)
          <6> SUFFICES ASSUME k + 1 < j PROVE FALSE
            OBVIOUS
          <6>1. Before(o, p)
            BY <1>1, <2>1, <5>1
          <6> QED BY <1>6, <1>7, <1>8, <2>1, <4>2, <6>1
        <5>4. j \in 1..k
          BY <5>2, <5>3
        <5> QED BY <5>1, <5>4 DEF Met
      <4>3. Met(k) \subseteq some
        BY DEF Met
      <4> QED BY <4>1, <4>2, <4>3 DEF Earlier
    <3>3. Cardinality(Met(k)) = l - 1
      BY <1>3, <3>1, <3>2
    <3>4. Met(k) \subseteq some /\ o \notin Met(k)
      BY <1>6, <2>1, <3>2 DEF Earlier
    <3>5. Cardinality(Met(k+1)) = l
      <4>1. IsFiniteSet(Met(k))
        BY <1>2, <3>4, FS_Subset
      <4>2. Met(k+1) = Met(k) \cup {o}
        BY <2>4, <2>6
      <4>3. Cardinality(Met(k) \cup {o}) = Cardinality(Met(k)) + 1
        BY <3>4, <4>1, FS_AddElement
      <4> QED BY <3>3, <4>2, <4>3
    <3>6. d[1..((l-1)+1)] = CartStep(d[1..(l-1)], ys[(l-1)+1], ids[ys[(l-1)+1]])
      <4>1. l - 1 \in 0..(m-1)
        BY <1>3
      <4> QED BY <1>5, <4>1
    <3>7. (l - 1) + 1 = l
      OBVIOUS
    <3>8. d[1..l] = CartStep(d[1..(l-1)], o, ids[o])
      BY <3>1, <3>6, <3>7
    <3> QED BY <1>3, <2>1, <2>2, <2>3, <3>3, <3>5, <3>8
  <2> QED BY <2>5, <2>6
<1>12. n \in Good
  <2>1. \A k \in 0..(n-1) : k \in Good => k + 1 \in Good
    BY <1>11
  <2> HIDE DEF Good
  <2>2. \A k \in 0..n : k \in Good
    BY <1>1, <1>10, <2>1, PrefixInduction
  <2> QED BY <1>1, <2>2
<1>13. Met(n) = some
  BY <1>1, <1>8
<1>14. c[1..n] = d[1..m]
  BY <1>12, <1>13 DEF m
<1> QED BY <1>14 DEF c, d, n, m, xs, ys, some

-----------------------------------------------------------------------------
\* A category offer that a store's list reads is that store's, or names the very
\* product, but for strays.
LEMMA SameScopes ==
    ASSUME NEW i \in StoreProducts, NULL \notin StoreProducts,
           StraysInto(Item[i].store) = {}, NEW o,
           NEW date
    PROVE  LET store == Item[i].store
               here  == {j \in StoreProducts : Item[j].store = store}
           IN  SharedScope(o, LiveOffers(date, store, here))
                 = SharedScope(o, LiveOffers(date, store, {i}))
<1> DEFINE store == Item[i].store
           here  == {j \in StoreProducts : Item[j].store = store}
           Same(os) == {p \in os : offers[p].targetScope = "CATEGORY"
                              /\ offers[p].categoryID = offers[o].categoryID}
<1>1. ASSUME NEW p \in DOMAIN offers, offers[p].targetScope = "CATEGORY"
      PROVE  (offers[p].storeID = store \/ offers[p].storeProductID \in here)
               <=> (offers[p].storeID = store \/ offers[p].storeProductID \in {i})
  BY <1>1 DEF StraysInto
<1>2. Same(LiveOffers(date, store, here)) = Same(LiveOffers(date, store, {i}))
  BY <1>1 DEF LiveOffers
<1> HIDE DEF here, store
<1>3. ASSUME NEW os
      PROVE  SharedScope(o, os) = IF offers[o].targetScope # "CATEGORY" THEN {}
                                  ELSE OwnScope(offers[InOrder(Same(os))[1]])
  BY DEF SharedScope
<1> HIDE DEF Same
<1>4. SharedScope(o, LiveOffers(date, store, here)) = SharedScope(o, LiveOffers(date, store, {i}))
  BY <1>2, <1>3
<1> QED BY <1>4 DEF here, store

\* The offers that reach a cart of one are those of its list.
LEMMA SameOffers ==
    ASSUME NEW i \in StoreProducts, NULL \notin StoreProducts,
           StraysInto(Item[i].store) = {}, NEW date
    PROVE  LET store == Item[i].store
               here  == {j \in StoreProducts : Item[j].store = store}
               os    == LiveOffers(date, store, {i})
               all   == LiveOffers(date, store, here)
               cart  == {o \in os :
                          IF offers[o].discountType = "BUNDLE"
                          THEN offers[o].storeID = store /\ {i} \cap DOMAIN offers[o].bundleItems # {}
                          ELSE \E j \in {i} : MatchesOffer(j, offers[o], SharedScope(o, os))}
           IN  {o \in all :
                  IF offers[o].discountType = "BUNDLE"
                  THEN offers[o].storeID = store /\ i \in DOMAIN offers[o].bundleItems
                  ELSE /\ offers[o].storeID = store \/ offers[o].storeProductID = i
                       /\ MatchesOffer(i, offers[o], SharedScope(o, all))
                       /\ MatchesOffer(i, offers[o], OwnScope(offers[o]))}
                 = {o \in cart : ApplicableStoreProducts(offers[o], {i}) # {}}
<1> DEFINE store == Item[i].store
           here  == {j \in StoreProducts : Item[j].store = store}
           os    == LiveOffers(date, store, {i})
           all   == LiveOffers(date, store, here)
           InCart(o) == IF offers[o].discountType = "BUNDLE"
                THEN offers[o].storeID = store /\ {i} \cap DOMAIN offers[o].bundleItems # {}
                ELSE \E j \in {i} : MatchesOffer(j, offers[o], SharedScope(o, os))
           InList(o) == IF offers[o].discountType = "BUNDLE"
                THEN offers[o].storeID = store /\ i \in DOMAIN offers[o].bundleItems
                ELSE /\ offers[o].storeID = store \/ offers[o].storeProductID = i
                     /\ MatchesOffer(i, offers[o], SharedScope(o, all))
                     /\ MatchesOffer(i, offers[o], OwnScope(offers[o]))
<1>1. \A o : SharedScope(o, all) = SharedScope(o, os)
  BY SameScopes
<1>2. /\ i \in here
      /\ \A o : o \in all <=> /\ o \in DOMAIN offers /\ IsLive(offers[o], date)
                              /\ offers[o].storeID = store \/ offers[o].storeProductID \in here
      /\ \A o : o \in os <=> /\ o \in DOMAIN offers /\ IsLive(offers[o], date)
                             /\ offers[o].storeID = store \/ offers[o].storeProductID = i
  BY DEF LiveOffers
<1> HIDE DEF store, here, os, all
<1>3. ASSUME NEW o, offers[o].discountType = "BUNDLE"
      PROVE  (o \in all /\ InList(o))
               <=> (o \in os /\ InCart(o) /\ ApplicableStoreProducts(offers[o], {i}) # {})
  <2>1. ApplicableStoreProducts(offers[o], {i}) = {i} \cap DOMAIN offers[o].bundleItems
    BY <1>3 DEF ApplicableStoreProducts
  <2> QED BY <1>2, <1>3, <2>1
<1>4. ASSUME NEW o, offers[o].discountType # "BUNDLE"
      PROVE  (o \in all /\ InList(o))
               <=> (o \in os /\ InCart(o) /\ ApplicableStoreProducts(offers[o], {i}) # {})
  <2>1. (ApplicableStoreProducts(offers[o], {i}) # {})
           <=> MatchesOffer(i, offers[o], OwnScope(offers[o]))
    BY <1>4 DEF ApplicableStoreProducts
  <2>2. InCart(o) <=> MatchesOffer(i, offers[o], SharedScope(o, os))
    BY <1>4
  <2>3. InList(o) <=> /\ offers[o].storeID = store \/ offers[o].storeProductID = i
                      /\ MatchesOffer(i, offers[o], SharedScope(o, os))
                      /\ MatchesOffer(i, offers[o], OwnScope(offers[o]))
    BY <1>1, <1>4
  <2> HIDE DEF InCart, InList
  <2> QED BY <1>2, <2>1, <2>2, <2>3
<1> HIDE DEF InCart, InList
<1>5. {o \in all : InList(o)}
        = {o \in {p \in os : InCart(p)} : ApplicableStoreProducts(offers[o], {i}) # {}}
  BY <1>3, <1>4
<1> QED BY <1>5 DEF InCart, InList, store, here, os, all

-----------------------------------------------------------------------------
(* The catalogue. *)

LEMMA CartOfOne ==
    ASSUME OffersInv, NEW i \in StoreProducts, StraysInto(Item[i].store) = {}
    PROVE  ListedPrice(now, StoreProducts, i)
             = CalculateCart(now, Item[i].store, [j \in {i} |-> 1], NULL)
<1> DEFINE store == Item[i].store
           here  == {j \in StoreProducts : Item[j].store = store}
           os    == LiveOffers(now, store, {i})
           all   == LiveOffers(now, store, here)
           cart  == {o \in os :
                      IF offers[o].discountType = "BUNDLE"
                      THEN offers[o].storeID = store /\ {i} \cap DOMAIN offers[o].bundleItems # {}
                      ELSE \E j \in {i} : MatchesOffer(j, offers[o], SharedScope(o, os))}
           list  == {o \in all :
                      IF offers[o].discountType = "BUNDLE"
                      THEN offers[o].storeID = store /\ i \in DOMAIN offers[o].bundleItems
                      ELSE /\ offers[o].storeID = store \/ offers[o].storeProductID = i
                           /\ MatchesOffer(i, offers[o], SharedScope(o, all))
                           /\ MatchesOffer(i, offers[o], OwnScope(offers[o]))}
           ids   == [o \in DOMAIN offers |-> ApplicableStoreProducts(offers[o], {i})]
           lines == [j \in {i} |-> PricedLine(i, 1)]
           n     == Cardinality(cart)
           m     == Cardinality(list)
<1>1. /\ ApplicableOffers(now, store, {i}) = InOrder(cart)
      /\ ApplicableOffersForItem(now, store, here, i) = InOrder(list)
  BY DEF ApplicableOffers, ApplicableOffersForItem
<1>2. list = {o \in cart : ApplicableStoreProducts(offers[o], {i}) # {}}
  BY SameOffers, CatalogueAssumption
<1>3. cart \subseteq DOMAIN offers
  BY DEF LiveOffers
<1>4. Comparable(DOMAIN offers)
  BY OffersComparable
<1>5. lines = [j \in {i} |-> PricedLine(j, [k \in {i} |-> 1][j])]
  OBVIOUS
<1> HIDE DEF os, all, cart, list, lines
<1>6. list = {o \in cart : ids[o] # {}}
  BY <1>2, <1>3
<1>7. Comparable(cart) /\ Comparable(list) /\ list \subseteq DOMAIN offers
  <2>1. IsFiniteSet(cart) /\ IsFiniteSet(list)
    BY <1>3, <1>4, <1>6, FS_Subset DEF Comparable
  <2> QED BY <1>3, <1>4, <1>6, <2>1 DEF Comparable
<1>8. /\ n \in Nat /\ InOrder(cart) \in [1..n -> DOMAIN offers]
      /\ m \in Nat /\ InOrder(list) \in [1..m -> list]
  <2>1. n \in Nat /\ InOrder(cart) \in [1..n -> cart]
    BY <1>7, InOrderLists
  <2>2. m \in Nat /\ InOrder(list) \in [1..m -> list]
    BY <1>7, InOrderLists
  <2> QED BY <1>3, <2>1, <2>2
<1> HIDE DEF n, m
<1>9. CartOver(lines, InOrder(cart), {i}) = RunOf(lines, InOrder(cart), ids)[1..n]
  <2>1. \A o \in DOMAIN offers : ids[o] = ApplicableStoreProducts(offers[o], {i})
    OBVIOUS
  <2> HIDE DEF ids
  <2> DEFINE one == {i}
  <2>2. \A o \in DOMAIN offers : ids[o] = ApplicableStoreProducts(offers[o], one)
    BY <2>1
  <2> HIDE DEF one
  <2>3. CartOver(lines, InOrder(cart), one) = RunOf(lines, InOrder(cart), ids)[1..n]
    BY <1>8, <2>2, CartIsRun
  <2> QED BY <2>3 DEF one
<1>10. ListOver(lines, InOrder(list), {i}) = RunOf(lines, InOrder(list), ids)[1..m]
  <2>1. \A o \in list : ids[o] = {i}
    <3>1. \A o \in DOMAIN offers : ids[o] \subseteq {i}
      BY DEF ApplicableStoreProducts
    <3> QED BY <1>6, <1>7, <3>1
  <2>2. \A k \in 1..m : ids[InOrder(list)[k]] = {i}
    BY <1>8, <2>1
  <2>3. InOrder(list) \in [1..m -> DOMAIN offers]
    BY <1>7, <1>8
  <2> HIDE DEF ids
  <2> DEFINE one == {i}
  <2>4. \A k \in 1..m : ids[InOrder(list)[k]] = one
    BY <2>2
  <2> HIDE DEF one
  <2>5. ListOver(lines, InOrder(list), one) = RunOf(lines, InOrder(list), ids)[1..m]
    BY <1>8, <2>3, <2>4, ListIsRun
  <2> QED BY <2>5 DEF one
<1>11. RunOf(lines, InOrder(cart), ids)[1..n] = RunOf(lines, InOrder(list), ids)[1..m]
  <2> HIDE DEF ids
  <2> QED BY <1>6, <1>7, OffersSkipped DEF n, m
<1>12. CartOver(lines, InOrder(cart), {i}).lines
         = ListOver(lines, InOrder(list), {i}).lines
  BY <1>9, <1>10, <1>11
<1>13. ListedPrice(now, StoreProducts, i)
         = Margined(ListOver(lines, InOrder(list), {i}).lines)
  BY <1>1 DEF ListedPrice, ListOver, lines
<1>14. CalculateCart(now, store, [j \in {i} |-> 1], NULL)
         = Margined(CartOver(lines, InOrder(cart), {i}).lines)
  BY <1>1, <1>5 DEF CalculateCart, CartOver, WithManualDiscount
<1> QED BY <1>12, <1>13, <1>14

\* The product list asks no more and no less for an item than a cart of one,
\* though it reads the offers of a whole store at once (offer.service.ts).
THEOREM CatalogueIsCartOfOneHolds == ShopSpec => []CatalogueIsCartOfOne
<1>1. OffersInv => CatalogueIsCartOfOne
  BY CartOfOne DEF CatalogueIsCartOfOne
<1> QED BY <1>1, OffersHold, PTL

-----------------------------------------------------------------------------
(* Lines of a cart: their amounts are numbers whatever offers are applied.    *)

LineSet ==
    [quantity : Nat \ {0}, baseUnitPrice : Int, unitCost : Int, basePrice : Int,
     currentTotal : Int, marginExempt : BOOLEAN]

\* The lines of a cart of so many units of each.
LinesOf(units) ==
    {lines \in [DOMAIN units -> LineSet] : \A i \in DOMAIN units : lines[i].quantity = units[i]}

\* A quotient rounded is at most half a unit away from the quotient.
LEMMA MoneyBounds ==
    ASSUME NEW n \in Int, NEW d \in Nat \ {0}
    PROVE  /\ ToMoney(n, d) \in Int
           /\ 2 * (d * ToMoney(n, d)) <= 2 * n + d
           /\ 2 * n - d < 2 * (d * ToMoney(n, d))
<1> DEFINE a == 2 * n + d
           b == 2 * d
           q == a \div b
<1>1. a \in Int /\ b \in Nat \ {0}
  OBVIOUS
<1> HIDE DEF a, b
<1>2. q \in Int /\ b * q <= a /\ a < b * q + b
  <2>1. q \in Int /\ a = b * q + (a % b) /\ 0 <= a % b /\ a % b < b
    BY <1>1
  <2> QED BY <1>1, <2>1
<1> HIDE DEF q
<1>3. b * q = 2 * (d * q)
  BY <1>2 DEF b
<1>4. d * q \in Int
  BY <1>2
<1>5. ToMoney(n, d) = q
  BY DEF ToMoney, q, a, b
<1> QED BY <1>2, <1>3, <1>4, <1>5 DEF a, b

\* A multiple of the divisor is divided exactly.
LEMMA MoneyExact ==
    ASSUME NEW x \in Int, NEW d \in Nat \ {0}
    PROVE  ToMoney(d * x, d) = x
<1> DEFINE y == ToMoney(d * x, d)
           z == y - x
<1>1. d * x \in Int
  OBVIOUS
<1>2. y \in Int /\ 2 * (d * y) <= 2 * (d * x) + d /\ 2 * (d * x) - d < 2 * (d * y)
  BY <1>1, MoneyBounds
<1> HIDE DEF y
<1>3. z \in Int /\ d * z = d * y - d * x /\ y = x + z
  BY <1>2
<1>4. d * y \in Int /\ d * z \in Int
  BY <1>2, <1>3
<1> HIDE DEF z
<1>5. 2 * (d * z) <= d /\ -d < 2 * (d * z)
  BY <1>1, <1>2, <1>3, <1>4
<1>6. z >= 1 => d * z >= d
  BY <1>3
<1>7. z <= -1 => d * z <= -d
  BY <1>3
<1>8. z = 0
  BY <1>3, <1>4, <1>5, <1>6, <1>7
<1> QED BY <1>2, <1>3, <1>8 DEF y

LEMMA NotNegativeIs ==
    ASSUME NEW n \in Int
    PROVE  NotNegative(n) = (IF n > 0 THEN n ELSE 0) /\ NotNegative(n) \in Nat
<1>1. NotNegative(n) = CHOOSE x \in {0, n} : \A y \in {0, n} : x >= y
  BY DEF NotNegative, Sets!Max
<1> DEFINE m == IF n > 0 THEN n ELSE 0
<1>2. m \in {0, n} /\ \A y \in {0, n} : m >= y
  OBVIOUS
<1>3. \A x \in {0, n} : (\A y \in {0, n} : x >= y) => x = m
  OBVIOUS
<1> HIDE DEF m
<1>4. NotNegative(n) = m
  BY <1>1, <1>2, <1>3
<1> QED BY <1>4 DEF m

LEMMA MinOf ==
    ASSUME NEW S, IsFiniteSet(S), S # {}, S \subseteq Int
    PROVE  Sets!Min(S) \in S /\ \A y \in S : Sets!Min(S) =< y
  BY LeastIn DEF Sets!Min

LEMMA MinOfTwo ==
    ASSUME NEW a \in Int, NEW b \in Int
    PROVE  Sets!Min({a, b}) = (IF a <= b THEN a ELSE b)
<1> DEFINE S == {a, b}
<1>1. IsFiniteSet(S)
  <2>1. IsFiniteSet({a} \cup {b})
    BY FS_Singleton, FS_AddElement
  <2>2. S = {a} \cup {b}
    OBVIOUS
  <2> QED BY <2>1, <2>2
<1>2. S # {} /\ S \subseteq Int
  OBVIOUS
<1> HIDE DEF S
<1>3. Sets!Min(S) \in S /\ \A y \in S : Sets!Min(S) =< y
  BY <1>1, <1>2, MinOf
<1> DEFINE m == Sets!Min(S)
<1>4. m \in {a, b} /\ m <= a /\ m <= b
  BY <1>3 DEF S
<1> HIDE DEF m
<1>5. m = (IF a <= b THEN a ELSE b)
  BY <1>4
<1> QED BY <1>5 DEF m, S

\* An offer that is valid, by its type.
OfferFits(offer) ==
    /\ offer.discountType \in DiscountTypes /\ offer.value \in Int
    /\ offer.allowBelowMargin \in BOOLEAN
    /\ offer.discountType = "BUY_X_GET_Y" =>
         /\ offer.buyQuantity \in Nat \ {0} /\ offer.payQuantity \in Nat
         /\ offer.buyQuantity > offer.payQuantity
    /\ offer.discountType = "BUNDLE" =>
         /\ IsFiniteSet(DOMAIN offer.bundleItems) /\ Cardinality(DOMAIN offer.bundleItems) >= 2
         /\ \A i \in DOMAIN offer.bundleItems : offer.bundleItems[i] \in Nat \ {0}

LEMMA DiscountedFits ==
    ASSUME NEW line \in LineSet, NEW offer, OfferFits(offer), NEW next \in Int
    PROVE  /\ Discounted(line, offer, next) \in LineSet
           /\ Discounted(line, offer, next).quantity = line.quantity
<1>1. line.marginExempt \in BOOLEAN /\ offer.allowBelowMargin \in BOOLEAN
  BY DEF OfferFits, LineSet
<1>2. (line.marginExempt \/ offer.allowBelowMargin) \in BOOLEAN
  OBVIOUS
<1>3. PICK exempt \in BOOLEAN : exempt = (line.marginExempt \/ offer.allowBelowMargin)
  BY <1>2, Zenon
<1>4. Discounted(line, offer, next)
        = [line EXCEPT !.currentTotal = next, !.marginExempt = exempt]
  BY <1>3, Zenon DEF Discounted
<1> QED BY <1>4 DEF LineSet

LEMMA StandardFits ==
    ASSUME NEW line \in LineSet, NEW offer, OfferFits(offer),
           offer.discountType \notin {"BUY_X_GET_Y", "BUNDLE"}
    PROVE  /\ ApplyStandardOffer(line, offer) \in LineSet
           /\ ApplyStandardOffer(line, offer).quantity = line.quantity
<1> DEFINE units == IF offer.scope = "UNIT" THEN line.quantity ELSE 1
           part == line.currentTotal * (100 - offer.value)
           next == CASE offer.discountType = "PERCENTAGE" -> ToMoney(part, 100)
                     [] offer.discountType = "FIXED_AMOUNT" ->
                          line.currentTotal - offer.value * units
                     [] offer.discountType = "FIXED_PRICE" -> offer.value * units
<1>1. units \in Int /\ line.currentTotal \in Int /\ offer.value \in Int
  BY DEF LineSet, OfferFits
<1>2. offer.discountType \in {"PERCENTAGE", "FIXED_AMOUNT", "FIXED_PRICE"}
  BY DEF OfferFits, DiscountTypes
<1> HIDE DEF units
<1>3. part \in Int /\ offer.value * units \in Int
  BY <1>1
<1> HIDE DEF part
<1>4. next \in Int
  <2>1. ToMoney(part, 100) \in Int
    BY <1>3, MoneyBounds
  <2> QED BY <1>1, <1>2, <1>3, <2>1
<1>5. ApplyStandardOffer(line, offer) = Discounted(line, offer, NotNegative(next))
  BY DEF ApplyStandardOffer, units, part
<1> HIDE DEF next
<1>6. NotNegative(next) \in Int
  BY <1>4, NotNegativeIs
<1> QED BY <1>5, <1>6, DiscountedFits

\* Quotients compared by multiplying across.
LEMMA AcrossMonotone ==
    ASSUME NEW a \in Int, NEW b \in Int, NEW q \in Nat \ {0}
    PROVE  /\ a <= b <=> a * q <= b * q
           /\ a < b <=> a * q < b * q
<1>1. CASE a < b
  <2>1. (b - a) * q > 0
    BY <1>1
  <2>2. (b - a) * q = b * q - a * q /\ a * q \in Int /\ b * q \in Int
    OBVIOUS
  <2> QED BY <1>1, <2>1, <2>2
<1>2. CASE a = b
  BY <1>2
<1>3. CASE b < a
  <2>1. (a - b) * q > 0
    BY <1>3
  <2>2. (a - b) * q = a * q - b * q /\ a * q \in Int /\ b * q \in Int
    OBVIOUS
  <2> QED BY <1>3, <2>1, <2>2
<1> QED BY <1>1, <1>2, <1>3

LEMMA AcrossTransitive ==
    ASSUME NEW a \in Int, NEW b \in Int, NEW c \in Int,
           NEW p \in Nat \ {0}, NEW q \in Nat \ {0}, NEW r \in Nat \ {0},
           a * q <= b * p, b * r <= c * q
    PROVE  /\ a * r <= c * p
           /\ a * r = c * p => a * q = b * p /\ b * r = c * q
<1>1. a * q \in Int /\ b * p \in Int /\ b * r \in Int /\ c * q \in Int
      /\ a * r \in Int /\ c * p \in Int
  OBVIOUS
<1>2. (a * q) * r <= (b * p) * r /\ (b * r) * p <= (c * q) * p
  BY <1>1, AcrossMonotone
<1>3. (a * q) * r = (a * r) * q /\ (b * p) * r = (b * r) * p /\ (c * q) * p = (c * p) * q
  OBVIOUS
<1>4. (a * r) * q <= (b * r) * p /\ (b * r) * p <= (c * p) * q
  BY <1>2, <1>3
<1>5. (a * r) * q \in Int /\ (b * r) * p \in Int /\ (c * p) * q \in Int
  BY <1>1
<1>6. a * r <= c * p
  BY <1>1, <1>4, <1>5, AcrossMonotone
<1>7. ASSUME a * r = c * p PROVE a * q = b * p /\ b * r = c * q
  <2>1. (a * q) * r = (b * p) * r /\ (b * r) * p = (c * q) * p
    BY <1>3, <1>4, <1>5, <1>7
  <2> QED BY <1>1, <2>1, AcrossMonotone
<1> QED BY <1>6, <1>7

\* The lines an offer may free, by what a unit of them costs.
LEMMA CandidatesInOrder ==
    ASSUME NEW here \in SUBSET Int, NEW lines \in [here -> LineSet],
           NEW ids \in SUBSET here, IsFiniteSet(ids)
    PROVE  LET S == {i \in ids : lines[i].currentTotal > 0}
               n == Cardinality(S)
               xs == FreeCandidates(lines, ids)
           IN  /\ n \in Nat /\ xs \in Bijection(1..n, S)
               /\ \A j, k \in 1..n : j < k => Cheaper(lines, xs[j], xs[k])
<1> DEFINE S == {i \in ids : lines[i].currentTotal > 0}
           before == [i \in S |-> {j \in S : Cheaper(lines, j, i)}]
           n == Cardinality(S)
           xs == FreeCandidates(lines, ids)
<1>1. IsFiniteSet(S) /\ \A i \in S : /\ i \in Int
                                     /\ lines[i].currentTotal \in Int
                                     /\ lines[i].quantity \in Nat \ {0}
  <2>1. IsFiniteSet(S)
    BY FS_Subset
  <2> QED BY <2>1 DEF LineSet
<1> HIDE DEF S
<1> DEFINE Left(i, j) == lines[i].currentTotal * lines[j].quantity
<1>2. \A i, j \in S : Left(i, j) \in Int
  BY <1>1
<1>3. \A i, j \in S : Cheaper(lines, i, j)
        <=> i # j /\ (Left(i, j) < Left(j, i) \/ (Left(i, j) = Left(j, i) /\ i < j))
  <2> SUFFICES ASSUME NEW i \in S, NEW j \in S
               PROVE  Cheaper(lines, i, j)
                 <=> i # j /\ (Left(i, j) < Left(j, i) \/ (Left(i, j) = Left(j, i) /\ i < j))
    OBVIOUS
  <2>1. Cheaper(lines, i, j)
          <=> i # j /\ ~(Left(i, j) > Left(j, i) \/ (Left(i, j) = Left(j, i) /\ i > j))
    BY DEF Cheaper, Dearer
  <2>2. i \in Int /\ j \in Int /\ Left(i, j) \in Int /\ Left(j, i) \in Int
    BY <1>1, <1>2
  <2> HIDE DEF Left
  <2> QED BY <2>1, <2>2
<1>4. ASSUME NEW i \in S, NEW j \in S, NEW k \in S,
             Left(i, j) <= Left(j, i), Left(j, k) <= Left(k, j)
      PROVE  /\ Left(i, k) <= Left(k, i)
             /\ Left(i, k) = Left(k, i) => Left(i, j) = Left(j, i) /\ Left(j, k) = Left(k, j)
  <2> DEFINE a == lines[i].currentTotal
             b == lines[j].currentTotal
             c == lines[k].currentTotal
             p == lines[i].quantity
             q == lines[j].quantity
             r == lines[k].quantity
  <2>1. /\ a \in Int /\ b \in Int /\ c \in Int
        /\ p \in Nat \ {0} /\ q \in Nat \ {0} /\ r \in Nat \ {0}
    BY <1>1
  <2>2. a * q <= b * p /\ b * r <= c * q
    BY <1>4
  <2>3. /\ Left(i, j) = a * q /\ Left(j, i) = b * p /\ Left(j, k) = b * r
        /\ Left(k, j) = c * q /\ Left(i, k) = a * r /\ Left(k, i) = c * p
    OBVIOUS
  <2> HIDE DEF a, b, c, p, q, r, Left
  <2>4. a * r <= c * p /\ (a * r = c * p => a * q = b * p /\ b * r = c * q)
    BY <2>1, <2>2, AcrossTransitive
  <2> QED BY <2>3, <2>4
<1> HIDE DEF Left
<1>5. ASSUME NEW i \in S, NEW j \in S, NEW k \in S, Cheaper(lines, i, j), Cheaper(lines, j, k)
      PROVE  Cheaper(lines, i, k)
  <2>1. i \in Int /\ j \in Int /\ k \in Int /\ Left(i, j) \in Int /\ Left(j, i) \in Int
        /\ Left(j, k) \in Int /\ Left(k, j) \in Int /\ Left(i, k) \in Int /\ Left(k, i) \in Int
    BY <1>1, <1>2
  <2>2. Left(i, j) <= Left(j, i) /\ Left(j, k) <= Left(k, j)
    BY <1>3, <1>5, <2>1
  <2>3. /\ Left(i, k) <= Left(k, i)
        /\ Left(i, k) = Left(k, i) => Left(i, j) = Left(j, i) /\ Left(j, k) = Left(k, j)
    BY <1>4, <2>2
  <2>4. CASE Left(i, k) < Left(k, i)
    <3>1. i # k
      BY <2>1, <2>4
    <3> QED BY <1>3, <2>4, <3>1
  <2>5. CASE Left(i, k) = Left(k, i)
    <3>1. i < j /\ j < k
      BY <1>3, <1>5, <2>1, <2>3, <2>5
    <3> QED BY <1>3, <2>1, <2>5, <3>1
  <2> QED BY <2>1, <2>3, <2>4, <2>5
<1>6. /\ before \in [S -> SUBSET S]
      /\ \A i \in S : i \notin before[i]
      /\ \A i, j \in S : i # j => i \in before[j] \/ j \in before[i]
      /\ \A i, j \in S : i \in before[j] => before[i] \subseteq before[j]
  <2>1. \A i \in S : ~Cheaper(lines, i, i)
    BY DEF Cheaper
  <2>2. ASSUME NEW i \in S, NEW j \in S, i # j PROVE Cheaper(lines, i, j) \/ Cheaper(lines, j, i)
    <3>1. i \in Int /\ j \in Int /\ Left(i, j) \in Int /\ Left(j, i) \in Int
      BY <1>1, <1>2
    <3> QED BY <1>3, <2>2, <3>1
  <2> QED BY <1>5, <2>1, <2>2
<1>7. /\ n \in Nat
      /\ \A k \in 1..n : \E i \in S : Cardinality(before[i]) = k - 1
      /\ \A i \in S : Cardinality(before[i]) + 1 \in 1..n
      /\ \A i, j \in S : i \in before[j] <=> Cardinality(before[i]) < Cardinality(before[j])
  <2> HIDE DEF before
  <2> QED BY <1>1, <1>6, RanksAreTaken
<1>8. xs = [k \in 1..n |->
              CHOOSE i \in S : Cardinality({j \in S : Cheaper(lines, j, i)}) = k - 1]
  BY DEF FreeCandidates, Ranked, S
<1>9. ASSUME NEW k \in 1..n PROVE xs[k] \in S /\ Cardinality(before[xs[k]]) = k - 1
  <2>1. \E i \in S : Cardinality({j \in S : Cheaper(lines, j, i)}) = k - 1
    BY <1>7
  <2>2. xs[k] = CHOOSE i \in S : Cardinality({j \in S : Cheaper(lines, j, i)}) = k - 1
    BY <1>8
  <2>3. xs[k] \in S /\ Cardinality({j \in S : Cheaper(lines, j, xs[k])}) = k - 1
    BY <2>1, <2>2
  <2> QED BY <2>3
<1>10. \A i, j \in S : i \in before[j] <=> Cheaper(lines, i, j)
  OBVIOUS
<1>11. DOMAIN xs = 1..n
  BY <1>8
<1>12. \A i \in S : Cardinality(before[i]) \in Int
  <2> SUFFICES ASSUME NEW i \in S PROVE Cardinality(before[i]) \in Int
    OBVIOUS
  <2>1. IsFiniteSet(before[i])
    BY <1>1, <1>6, FS_Subset
  <2> QED BY <2>1, FS_CardinalityType
<1> HIDE DEF xs, n, before
<1>13. xs \in [1..n -> S]
  BY <1>8, <1>9
<1>14. ASSUME NEW j \in 1..n, NEW k \in 1..n, j < k PROVE Cheaper(lines, xs[j], xs[k])
  <2>1. /\ xs[j] \in S /\ Cardinality(before[xs[j]]) = j - 1
        /\ xs[k] \in S /\ Cardinality(before[xs[k]]) = k - 1
    BY <1>9
  <2>2. xs[j] \in before[xs[k]]
    BY <1>7, <1>14, <2>1
  <2> QED BY <1>10, <2>1, <2>2
<1>15. ASSUME NEW j \in 1..n, NEW k \in 1..n, xs[j] = xs[k] PROVE j = k
  <2>1. Cardinality(before[xs[j]]) = j - 1 /\ Cardinality(before[xs[k]]) = k - 1
    BY <1>9
  <2> QED BY <1>15, <2>1
<1>16. ASSUME NEW i \in S PROVE \E k \in 1..n : xs[k] = i
  <2> DEFINE k == Cardinality(before[i]) + 1
  <2>1. k \in 1..n /\ Cardinality(before[i]) = k - 1
    BY <1>7, <1>12
  <2> HIDE DEF k
  <2>2. xs[k] \in S /\ Cardinality(before[xs[k]]) = k - 1
    BY <1>9, <2>1
  <2>3. i \notin before[xs[k]] /\ xs[k] \notin before[i]
    BY <1>7, <2>1, <2>2
  <2> QED BY <1>6, <2>1, <2>2, <2>3
<1>17. xs \in Bijection(1..n, S)
  BY <1>13, <1>15, <1>16 DEF Bijection, Injection, Surjection, IsInjective
<1> QED BY <1>7, <1>14, <1>17 DEF xs, n, S

\* What is given of a line, while there is something to give.
GrantUnits(given, i, offer) ==
    LET line == given.lines[i]
        free == Sets!Min({line.quantity, given.remaining})
        next == NotNegative(line.currentTotal
                              - ToMoney(free * line.currentTotal, line.quantity))
    IN  IF given.remaining <= 0 \/ next = line.currentTotal THEN given
        ELSE [lines |-> [given.lines EXCEPT ![i] = Discounted(line, offer, next)],
              remaining |-> given.remaining - free]

Given(units) == [lines : LinesOf(units), remaining : Int]

LEMMA GrantFits ==
    ASSUME NEW units, NEW given \in Given(units), NEW i \in DOMAIN units,
           NEW offer, OfferFits(offer)
    PROVE  GrantUnits(given, i, offer) \in Given(units)
<1> DEFINE line == given.lines[i]
           left == given.remaining
           free == Sets!Min({line.quantity, left})
           next == NotNegative(line.currentTotal
                                 - ToMoney(free * line.currentTotal, line.quantity))
<1>1. /\ line \in LineSet /\ left \in Int /\ given.lines \in LinesOf(units)
      /\ line.quantity \in Nat \ {0} /\ line.currentTotal \in Int
  BY DEF Given, LinesOf, LineSet
<1> HIDE DEF line, left
<1>2. free \in Int
  <2> DEFINE S == {line.quantity, left}
  <2>1. S # {} /\ S \subseteq Int
    BY <1>1
  <2>2. IsFiniteSet(S)
    <3>1. IsFiniteSet({left})
      BY FS_Singleton
    <3>2. IsFiniteSet({left} \cup {line.quantity})
      BY <3>1, FS_AddElement
    <3>3. S = {left} \cup {line.quantity}
      OBVIOUS
    <3> HIDE DEF S
    <3> QED BY <3>2, <3>3
  <2> HIDE DEF S
  <2>3. Sets!Min(S) \in S
    BY <2>1, <2>2, MinOf
  <2> QED BY <2>1, <2>3 DEF S
<1> HIDE DEF free
<1>3. free * line.currentTotal \in Int
  BY <1>1, <1>2
<1>4. ToMoney(free * line.currentTotal, line.quantity) \in Int
  BY <1>1, <1>3, MoneyBounds
<1>5. next \in Int
  <2>1. line.currentTotal - ToMoney(free * line.currentTotal, line.quantity) \in Int
    BY <1>1, <1>4
  <2> QED BY <2>1, NotNegativeIs
<1> HIDE DEF next
<1>6. /\ Discounted(line, offer, next) \in LineSet
      /\ Discounted(line, offer, next).quantity = line.quantity
  BY <1>1, <1>5, DiscountedFits
<1>7. GrantUnits(given, i, offer)
        = IF left <= 0 \/ next = line.currentTotal THEN given
          ELSE [lines |-> [given.lines EXCEPT ![i] = Discounted(line, offer, next)],
                remaining |-> left - free]
  BY DEF GrantUnits, line, left, free, next
<1>8. [given.lines EXCEPT ![i] = Discounted(line, offer, next)] \in LinesOf(units)
  <2>1. line = given.lines[i]
    BY DEF line
  <2> QED BY <1>1, <1>6, <2>1 DEF LinesOf
<1>9. left - free \in Int
  BY <1>1, <1>2
<1> QED BY <1>7, <1>8, <1>9 DEF Given

\* What is given of a line of which nothing was given yet.
LEMMA GrantTakes ==
    ASSUME NEW units, NEW given \in Given(units), NEW i \in DOMAIN units,
           NEW offer, OfferFits(offer), NEW p \in Nat \ {0},
           given.lines[i].currentTotal = given.lines[i].quantity * p,
           given.remaining > 0
    PROVE  LET q    == given.lines[i].quantity
               next == GrantUnits(given, i, offer)
           IN  \E free \in 1..q :
                 /\ next.remaining = given.remaining - free
                 /\ next.remaining >= 0 /\ (next.remaining > 0 => free = q)
                 /\ next.lines[i].currentTotal = (q - free) * p
                 /\ \A j \in DOMAIN units : j # i => next.lines[j] = given.lines[j]
<1> DEFINE line == given.lines[i]
           left == given.remaining
           q == line.quantity
           ct == line.currentTotal
           free == Sets!Min({q, left})
           off == ToMoney(free * ct, q)
           next == NotNegative(ct - off)
<1>1. /\ line \in LineSet /\ left \in Int /\ q \in Nat \ {0} /\ ct = q * p
      /\ given.lines \in [DOMAIN units -> LineSet]
  BY DEF Given, LinesOf, LineSet
<1>2. GrantUnits(given, i, offer)
        = IF left <= 0 \/ next = ct THEN given
          ELSE [lines |-> [given.lines EXCEPT ![i] = Discounted(line, offer, next)],
                remaining |-> left - free]
  BY DEF GrantUnits
<1>3. left > 0
  OBVIOUS
<1> HIDE DEF line, left, q, ct
<1>4. free \in 1..q /\ free <= left /\ (free < left => free = q)
  <2>1. free = IF q <= left THEN q ELSE left
    BY <1>1, MinOfTwo
  <2> HIDE DEF free
  <2> QED BY <1>1, <1>3, <2>1
<1> HIDE DEF free
<1>5. off = free * p
  <2> DEFINE x == free * p
  <2>1. x \in Int
    BY <1>1, <1>4
  <2>2. free * ct = q * x
    BY <1>1, <1>4
  <2> HIDE DEF x, free
  <2>3. ToMoney(q * x, q) = x
    BY <1>1, <2>1, MoneyExact
  <2> QED BY <2>2, <2>3 DEF x
<1> HIDE DEF off
<1>6. next = (q - free) * p /\ next < ct
  <2> DEFINE rest == (q - free) * p
  <2>1. ct - off = rest /\ free * p > 0 /\ rest \in Int
    BY <1>1, <1>4, <1>5
  <2>2. rest >= 0
    <3>1. q - free \in Nat
      BY <1>1, <1>4
    <3> DEFINE a == q - free
    <3> HIDE DEF a
    <3>2. a \in Nat => a * p >= 0
      OBVIOUS
    <3> QED BY <3>1, <3>2 DEF a
  <2>3. rest < ct
    <3>1. ct \in Int /\ free * p \in Int /\ rest = ct - free * p
      BY <1>1, <1>4
    <3> HIDE DEF rest
    <3> QED BY <2>1, <3>1
  <2> HIDE DEF rest
  <2>4. NotNegative(rest) = rest
    BY <2>1, <2>2, NotNegativeIs
  <2> QED BY <2>1, <2>3, <2>4 DEF rest
<1> HIDE DEF next
<1>7. next # ct
  <2>1. ct \in Int /\ next \in Int
    BY <1>1, <1>4, <1>6
  <2> QED BY <1>6, <2>1
<1>8. GrantUnits(given, i, offer)
        = [lines |-> [given.lines EXCEPT ![i] = Discounted(line, offer, next)],
           remaining |-> left - free]
  BY <1>1, <1>2, <1>3, <1>7
<1>9. Discounted(line, offer, next).currentTotal = next
  BY <1>1 DEF Discounted, LineSet
<1> DEFINE after == GrantUnits(given, i, offer)
<1>10. /\ after.remaining = left - free
       /\ after.lines[i].currentTotal = (q - free) * p
       /\ \A j \in DOMAIN units : j # i => after.lines[j] = given.lines[j]
  BY <1>1, <1>6, <1>8, <1>9
<1> HIDE DEF after
<1>11. after.remaining >= 0 /\ (after.remaining > 0 => free = q)
  BY <1>1, <1>4, <1>10
<1> QED BY <1>4, <1>10, <1>11 DEF line, left, q, after

\* The lines along the candidates, one after another.
GrantRun(lines, count, offer, xs, g) ==
    g = [s \in SUBSET DOMAIN xs |->
            IF s = {} THEN [lines |-> lines, remaining |-> count]
            ELSE GrantUnits(g[s \ {Last(s)}], xs[Last(s)], offer)]

LEMMA GrantAlong ==
    ASSUME NEW units, NEW lines \in LinesOf(units), NEW ids \in SUBSET DOMAIN units,
           NEW count \in Int, NEW offer, OfferFits(offer),
           NEW n \in Nat, FreeCandidates(lines, ids) \in [1..n -> ids]
    PROVE  \E c \in [0..n -> Given(units)] :
              /\ c[0] = [lines |-> lines, remaining |-> count]
              /\ \A k \in 0..(n-1) :
                   c[k+1] = GrantUnits(c[k], FreeCandidates(lines, ids)[k+1], offer)
              /\ c[n].lines = GrantFreeUnits(lines, ids, count, offer)
<1> DEFINE xs == FreeCandidates(lines, ids)
           V == Given(units)
           base == [lines |-> lines, remaining |-> count]
           c == CHOOSE g : GrantRun(lines, count, offer, xs, g)
<1>1. xs \in [1..n -> ids]
  OBVIOUS
<1>2. GrantFreeUnits(lines, ids, count, offer) = c[DOMAIN xs].lines
  BY DEF GrantFreeUnits, Seqs!FoldLeft, Seqs!MapThenFoldSet, Seqs!Max, Last,
     GrantRun, GrantUnits
<1> HIDE DEF xs
<1> DEFINE D == 1..n
           pick == [s \in SUBSET D |-> Last(s)]
           step == [p \in D \X V |-> GrantUnits(p[2], xs[p[1]], offer)]
<1>3. DOMAIN xs = D /\ \A k \in D : xs[k] \in DOMAIN units
  BY <1>1
<1>4. IsFiniteSet(D) /\ \A s \in SUBSET D : s # {} => pick[s] \in s /\ pick[s] = Last(s)
  <2>1. IsFiniteSet(D)
    BY FS_Interval
  <2>2. \A s \in SUBSET D : s # {} => Last(s) \in s
    BY LastIn
  <2> QED BY <2>1, <2>2
<1> HIDE DEF D
<1>5. step \in [D \X V -> V]
  <2>1. ASSUME NEW p \in D \X V PROVE GrantUnits(p[2], xs[p[1]], offer) \in V
    <3>1. p[2] \in V /\ xs[p[1]] \in DOMAIN units
      BY <1>3
    <3> QED BY <3>1, GrantFits
  <2> QED BY <2>1
<1>6. base \in V
  BY DEF Given
<1> HIDE DEF V
<1>7. PICK h \in [SUBSET D -> V] : Recursion(D, pick, base, step, h)
  <2>1. \A s \in SUBSET D : s # {} => pick[s] \in s
    BY <1>4
  <2> HIDE DEF pick, step, base
  <2> QED BY <1>4, <1>5, <1>6, <2>1, SubsetRecursion
<1>8. GrantRun(lines, count, offer, xs, h)
  <2>1. ASSUME NEW s \in SUBSET D, s # {}
        PROVE  h[s] = GrantUnits(h[s \ {Last(s)}], xs[Last(s)], offer)
    <3>1. Last(s) \in D /\ s \ {Last(s)} \in SUBSET D /\ h[s \ {Last(s)}] \in V
      BY <1>4, <1>7, <2>1
    <3>2. h[s] = step[<<Last(s), h[s \ {Last(s)}]>>]
      BY <1>4, <1>7, <2>1 DEF Recursion
    <3> QED BY <3>1, <3>2
  <2>2. h[{}] = base
    BY <1>7 DEF Recursion
  <2> QED BY <1>3, <1>7, <2>1, <2>2 DEF GrantRun
<1>9. GrantRun(lines, count, offer, xs, c)
  BY <1>8, Zenon
<1> HIDE DEF c, base
<1> DEFINE Good == {s \in SUBSET D : c[s] \in V}
<1>10. ASSUME NEW s \in SUBSET D, \A t \in SUBSET s : t # s => t \in Good
       PROVE  s \in Good
  <2>1. c[s] = IF s = {} THEN base ELSE GrantUnits(c[s \ {Last(s)}], xs[Last(s)], offer)
    BY <1>3, <1>9 DEF GrantRun, base
  <2>2. CASE s = {}
    BY <1>6, <2>1, <2>2
  <2>3. CASE s # {}
    <3>1. Last(s) \in s
      BY <1>4, <2>3
    <3>2. c[s \ {Last(s)}] \in V /\ xs[Last(s)] \in DOMAIN units
      BY <1>3, <1>10, <3>1
    <3>3. GrantUnits(c[s \ {Last(s)}], xs[Last(s)], offer) \in V
      BY <3>2, GrantFits DEF V
    <3> QED BY <2>1, <2>3, <3>3
  <2> QED BY <2>2, <2>3
<1> HIDE DEF Good
<1>11. \A s \in SUBSET D : c[s] \in V
  <2>1. \A s \in SUBSET D : s \in Good
    BY <1>4, <1>10, SubsetInduction
  <2> QED BY <2>1 DEF Good
<1> DEFINE e == [k \in 0..n |-> c[1..k]]
<1>12. e \in [0..n -> V]
  BY <1>11 DEF D
<1>13. e[0] = base
  <2>1. c[{}] = base
    BY <1>3, <1>9 DEF GrantRun, base
  <2>2. 1..0 = {}
    OBVIOUS
  <2> QED BY <2>1, <2>2
<1>14. ASSUME NEW k \in 0..(n-1) PROVE e[k+1] = GrantUnits(e[k], xs[k+1], offer)
  <2> DEFINE s == 1..(k+1)
  <2>1. s \in SUBSET D /\ s # {} /\ Last(s) = k + 1
    <3>1. k + 1 \in Nat /\ k + 1 > 0
      OBVIOUS
    <3> QED BY <3>1, LastOfPrefix DEF D
  <2>2. s \ {k + 1} = 1..k
    OBVIOUS
  <2>3. e[k] = c[1..k] /\ e[k+1] = c[s]
    OBVIOUS
  <2> HIDE DEF s, e
  <2>4. c[s] = GrantUnits(c[s \ {Last(s)}], xs[Last(s)], offer)
    BY <1>3, <1>9, <2>1 DEF GrantRun
  <2> QED BY <2>1, <2>2, <2>3, <2>4
<1>15. e[n].lines = GrantFreeUnits(lines, ids, count, offer)
  <2>1. e[n] = c[DOMAIN xs]
    BY <1>3 DEF D
  <2> QED BY <1>2, <2>1
<1> HIDE DEF e
<1> QED BY <1>12, <1>13, <1>14, <1>15 DEF V, base, xs

\* Whoever the candidates are, lines stay lines.
LEMMA FreeUnitsFit ==
    ASSUME NEW units, DOMAIN units \subseteq Int, NEW lines \in LinesOf(units),
           NEW ids \in SUBSET DOMAIN units, IsFiniteSet(ids),
           NEW count \in Int, NEW offer, OfferFits(offer)
    PROVE  GrantFreeUnits(lines, ids, count, offer) \in LinesOf(units)
<1> DEFINE here == DOMAIN units
           S == {i \in ids : lines[i].currentTotal > 0}
           n == Cardinality(S)
<1>1. here \in SUBSET Int /\ lines \in [here -> LineSet] /\ ids \in SUBSET here
  BY DEF LinesOf
<1>2. n \in Nat /\ FreeCandidates(lines, ids) \in [1..n -> ids]
  <2>1. n \in Nat /\ FreeCandidates(lines, ids) \in Bijection(1..n, S)
    <3> HIDE DEF here
    <3> QED BY <1>1, CandidatesInOrder
  <2> QED BY <2>1 DEF Bijection, Injection
<1> HIDE DEF n
<1>3. \E c \in [0..n -> Given(units)] :
              /\ c[0] = [lines |-> lines, remaining |-> count]
              /\ \A k \in 0..(n-1) :
                   c[k+1] = GrantUnits(c[k], FreeCandidates(lines, ids)[k+1], offer)
              /\ c[n].lines = GrantFreeUnits(lines, ids, count, offer)
  BY <1>2, GrantAlong
<1>4. PICK c \in [0..n -> Given(units)] :
             c[n].lines = GrantFreeUnits(lines, ids, count, offer)
  BY <1>3
<1>5. c[n] \in Given(units)
  BY <1>2
<1> QED BY <1>4, <1>5 DEF Given

LEMMA SumOfIs == ASSUME NEW f PROVE SumOf(f) = SumFunctionOnSet(f, DOMAIN f)
  BY DEF SumOf, Funs!FoldFunctionOnSet, Funs!MapThenFoldSet, SumFunctionOnSet,
     FoldFunctionOnSet, MapThenFoldSet

\* The units an offer gives away: so many of each line, all of those that are
\* cheaper than one it gives, and all there are before any is left to give.
GrantedAs(lines, after, S, count, f, left) ==
    /\ \A i \in S : /\ f[i] <= lines[i].quantity
                    /\ after[i].currentTotal = (lines[i].quantity - f[i]) * lines[i].baseUnitPrice
    /\ \A i \in DOMAIN lines \ S : after[i].currentTotal = lines[i].currentTotal
    /\ SumFunctionOnSet(f, S) + left = count
    /\ left > 0 => \A i \in S : f[i] = lines[i].quantity
    /\ \A i, j \in S : (Cheaper(lines, i, j) /\ f[j] > 0) => f[i] = lines[i].quantity

LEMMA UnitsGranted ==
    ASSUME NEW units, IsFiniteSet(DOMAIN units), DOMAIN units \subseteq Int,
           NEW lines \in LinesOf(units), NEW ids \in SUBSET DOMAIN units,
           NEW count \in Nat, NEW offer, OfferFits(offer),
           \A i \in DOMAIN units :
              lines[i].currentTotal = lines[i].quantity * lines[i].baseUnitPrice
    PROVE  LET S == {i \in ids : lines[i].currentTotal > 0}
               after == GrantFreeUnits(lines, ids, count, offer)
           IN  \E f \in [S -> Nat], left \in Nat : GrantedAs(lines, after, S, count, f, left)
<1> DEFINE here == DOMAIN units
           S == {i \in ids : lines[i].currentTotal > 0}
           n == Cardinality(S)
           xs == FreeCandidates(lines, ids)
           q == [i \in S |-> lines[i].quantity]
           p == [i \in S |-> lines[i].baseUnitPrice]
<1>1. /\ lines \in [here -> LineSet] /\ S \subseteq here /\ S \subseteq ids /\ S \subseteq Int
      /\ IsFiniteSet(ids) /\ IsFiniteSet(S)
  BY FS_Subset DEF LinesOf
<1>2. n \in Nat /\ xs \in Bijection(1..n, S)
      /\ \A j, k \in 1..n : j < k => Cheaper(lines, xs[j], xs[k])
  <2>1. here \in SUBSET Int /\ lines \in [here -> LineSet] /\ ids \in SUBSET here
    BY <1>1
  <2> HIDE DEF here
  <2> QED BY <1>1, <2>1, CandidatesInOrder
<1>3. \A i \in S : /\ q[i] \in Nat \ {0} /\ q[i] = lines[i].quantity /\ q[i] = units[i]
                   /\ p[i] \in Nat \ {0} /\ p[i] = lines[i].baseUnitPrice
                   /\ lines[i].currentTotal = q[i] * p[i]
  <2> SUFFICES ASSUME NEW i \in S
               PROVE  /\ q[i] \in Nat \ {0} /\ q[i] = lines[i].quantity /\ q[i] = units[i]
                      /\ p[i] \in Nat \ {0} /\ p[i] = lines[i].baseUnitPrice
                      /\ lines[i].currentTotal = q[i] * p[i]
    OBVIOUS
  <2>1. /\ q[i] = lines[i].quantity /\ p[i] = lines[i].baseUnitPrice
        /\ lines[i].currentTotal = q[i] * p[i] /\ lines[i].currentTotal > 0
    BY <1>1
  <2>2. q[i] \in Nat \ {0} /\ p[i] \in Int /\ q[i] = units[i]
    BY <1>1 DEF LinesOf, LineSet
  <2> DEFINE a == q[i]
             b == p[i]
  <2>3. a \in Nat \ {0} /\ b \in Int /\ a * b > 0
    BY <2>1, <2>2
  <2> HIDE DEF a, b
  <2>4. b <= 0 => a * b <= 0
    BY <2>3
  <2>5. a * b \in Int
    BY <2>3
  <2>6. b > 0
    BY <2>3, <2>4, <2>5
  <2> QED BY <2>1, <2>2, <2>3, <2>6 DEF b
<1>4. xs \in [1..n -> S] /\ xs \in [1..n -> ids]
  BY <1>1, <1>2 DEF Bijection, Injection
<1>5. \A j, k \in 1..n : xs[j] = xs[k] => j = k
  BY <1>2 DEF Bijection, Injection, IsInjective
<1>6. \A i \in S : \E k \in 1..n : xs[k] = i
  BY <1>2 DEF Bijection, Surjection
<1>7. \E c \in [0..n -> Given(units)] :
              /\ c[0] = [lines |-> lines, remaining |-> count]
              /\ \A k \in 0..(n-1) : c[k+1] = GrantUnits(c[k], xs[k+1], offer)
              /\ c[n].lines = GrantFreeUnits(lines, ids, count, offer)
  <2>1. n \in Nat /\ count \in Int /\ FreeCandidates(lines, ids) \in [1..n -> ids]
    BY <1>2, <1>4
  <2> HIDE DEF S, n, q, p
  <2> QED BY <2>1, GrantAlong
<1> HIDE DEF S, n, xs, q, p
<1>8. PICK c \in [0..n -> Given(units)] :
              /\ c[0] = [lines |-> lines, remaining |-> count]
              /\ \A k \in 0..(n-1) : c[k+1] = GrantUnits(c[k], xs[k+1], offer)
              /\ c[n].lines = GrantFreeUnits(lines, ids, count, offer)
  BY <1>7
<1> DEFINE Lines(k, f) ==
             /\ \A i \in S : f[i] <= q[i] /\ c[k].lines[i].currentTotal = (q[i] - f[i]) * p[i]
             /\ \A i \in here \ S : c[k].lines[i].currentTotal = lines[i].currentTotal
           Order(k, f) ==
             /\ \A j \in 1..n : j > k => f[xs[j]] = 0
             /\ c[k].remaining > 0 => \A j \in 1..n : j <= k => f[xs[j]] = q[xs[j]]
             /\ \A j, l \in 1..n : (j < l /\ f[xs[l]] > 0) => f[xs[j]] = q[xs[j]]
           Count(k, f) == c[k].remaining \in Nat /\ SumFunctionOnSet(f, S) + c[k].remaining = count
           Good == {k \in 0..n : \E f \in [S -> Nat] : Lines(k, f) /\ Order(k, f) /\ Count(k, f)}
<1>9. 0 \in Good
  <2> DEFINE f == [i \in S |-> 0]
  <2>1. f \in [S -> Nat] /\ \A i \in S : f[i] = 0
    OBVIOUS
  <2> HIDE DEF f
  <2>2. Lines(0, f)
    BY <1>3, <1>8, <2>1
  <2>3. Order(0, f)
    BY <1>4, <2>1
  <2>4. SumFunctionOnSet(f, S) = 0
    BY <1>1, <2>1, SumZero
  <2>5. Count(0, f)
    BY <1>8, <2>4
  <2> HIDE DEF Lines, Order, Count
  <2> QED BY <1>2, <2>1, <2>2, <2>3, <2>5
<1>10. ASSUME NEW k \in 0..(n-1), k \in Good PROVE k + 1 \in Good
  <2>1. PICK f \in [S -> Nat] : Lines(k, f) /\ Order(k, f) /\ Count(k, f)
    BY <1>10
  <2> DEFINE i == xs[k+1]
  <2>2. /\ k + 1 \in 1..n /\ k \in 0..n /\ k + 1 \in 0..n
        /\ i \in S /\ f[i] = 0 /\ c[k] \in Given(units) /\ c[k+1] = GrantUnits(c[k], i, offer)
    BY <1>2, <1>4, <1>8, <2>1
  <2>3. CASE ~(c[k].remaining > 0)
    <3>1. c[k].remaining = 0
      BY <2>1, <2>3
    <3>2. c[k+1] = c[k]
      BY <2>2, <3>1 DEF GrantUnits
    <3>3. Lines(k+1, f) /\ Count(k+1, f)
      BY <2>1, <3>2
    <3>4. Order(k+1, f)
      BY <2>1, <3>1, <3>2
    <3> HIDE DEF Lines, Order, Count
    <3> QED BY <2>2, <3>3, <3>4
  <2>4. CASE c[k].remaining > 0
    <3>1. c[k].lines[i].quantity = q[i] /\ c[k].lines[i].currentTotal = q[i] * p[i]
      <4>1. c[k].lines[i].quantity = units[i]
        BY <1>1, <2>2 DEF Given, LinesOf
      <4>2. c[k].lines[i].currentTotal = (q[i] - 0) * p[i] /\ q[i] - 0 = q[i]
        BY <1>3, <2>1, <2>2
      <4> QED BY <1>3, <2>2, <4>1, <4>2
    <3>2. /\ i \in DOMAIN units /\ p[i] \in Nat \ {0}
          /\ c[k].lines[i].currentTotal = c[k].lines[i].quantity * p[i]
      BY <1>1, <1>3, <2>2, <3>1
    <3>3. PICK free \in 1..c[k].lines[i].quantity :
                 /\ c[k+1].remaining = c[k].remaining - free
                 /\ c[k+1].remaining >= 0
                 /\ c[k+1].remaining > 0 => free = c[k].lines[i].quantity
                 /\ c[k+1].lines[i].currentTotal = (c[k].lines[i].quantity - free) * p[i]
                 /\ \A j \in DOMAIN units : j # i => c[k+1].lines[j] = c[k].lines[j]
      <4> HIDE DEF i
      <4> QED BY <2>2, <2>4, <3>2, GrantTakes
    <3>4. /\ free \in 1..q[i] /\ (c[k+1].remaining > 0 => free = q[i])
          /\ c[k+1].lines[i].currentTotal = (q[i] - free) * p[i]
      BY <3>1, <3>3
    <3> DEFINE g == [f EXCEPT ![i] = free]
    <3>5. g \in [S -> Nat] /\ g[i] = free /\ \A j \in S : j # i => g[j] = f[j]
      BY <1>3, <2>2, <3>4
    <3> HIDE DEF g
    <3>6. Lines(k+1, g)
      <4>1. \A j \in S : j \in DOMAIN units
        BY <1>1
      <4>2. ASSUME NEW j \in S
            PROVE  g[j] <= q[j] /\ c[k+1].lines[j].currentTotal = (q[j] - g[j]) * p[j]
        <5>1. CASE j = i
          BY <3>4, <3>5, <5>1
        <5>2. CASE j # i
          BY <2>1, <3>3, <3>5, <4>1, <5>2
        <5> QED BY <5>1, <5>2
      <4>3. ASSUME NEW j \in here \ S
            PROVE  c[k+1].lines[j].currentTotal = lines[j].currentTotal
        <5>1. j # i
          BY <2>2
        <5> QED BY <2>1, <3>3, <5>1
      <4> QED BY <4>2, <4>3
    <3>7. Count(k+1, g)
      <4>1. SumFunctionOnSet(g, S) = SumFunctionOnSet(f, S) - f[i] + g[i]
        <5>1. \A y \in S : f[y] \in Int /\ g[y] \in Int /\ (y # i => g[y] = f[y])
          BY <3>5
        <5> QED BY <1>1, <2>2, <5>1, SumChange
      <4>2. SumFunctionOnSet(f, S) \in Nat
        BY <1>1, SumNat
      <4>3. c[k].remaining \in Nat /\ SumFunctionOnSet(f, S) + c[k].remaining = count
        BY <2>1
      <4>4. /\ c[k+1].remaining = c[k].remaining - free /\ c[k+1].remaining >= 0
            /\ free \in Int /\ f[i] = 0 /\ g[i] = free
        BY <1>3, <2>2, <3>3, <3>4, <3>5
      <4> DEFINE a == c[k].remaining
                 b == c[k+1].remaining
                 u == SumFunctionOnSet(f, S)
                 w == SumFunctionOnSet(g, S)
      <4>5. /\ w = u - 0 + free /\ u \in Nat /\ a \in Nat /\ u + a = count
            /\ b = a - free /\ b >= 0 /\ free \in Int
        BY <4>1, <4>2, <4>3, <4>4
      <4> HIDE DEF a, b, u, w
      <4>6. b \in Nat /\ w + b = count
        BY <4>5
      <4> QED BY <4>6 DEF b, w
    <3>8. Order(k+1, g)
      <4>1. \A j \in 1..n : xs[j] \in S /\ (xs[j] = i => j = k + 1)
        BY <1>4, <1>5, <2>2
      <4>2. \A j \in 1..n : j # k + 1 => g[xs[j]] = f[xs[j]]
        BY <3>5, <4>1
      <4>3. \A j \in 1..n : j > k + 1 => g[xs[j]] = 0
        <5> SUFFICES ASSUME NEW j \in 1..n, j > k + 1 PROVE g[xs[j]] = 0
          OBVIOUS
        <5>1. j > k /\ j # k + 1
          OBVIOUS
        <5> QED BY <2>1, <4>2, <5>1
      <4>4. \A j \in 1..n : j <= k => f[xs[j]] = q[xs[j]]
        BY <2>1, <2>4
      <4>5. \A j \in 1..n : j <= k => g[xs[j]] = q[xs[j]]
        <5> SUFFICES ASSUME NEW j \in 1..n, j <= k PROVE g[xs[j]] = q[xs[j]]
          OBVIOUS
        <5>1. j # k + 1
          OBVIOUS
        <5> QED BY <4>2, <4>4, <5>1
      <4>6. ASSUME c[k+1].remaining > 0, NEW j \in 1..n, j <= k + 1 PROVE g[xs[j]] = q[xs[j]]
        <5>1. CASE j = k + 1
          BY <3>4, <3>5, <4>6, <5>1
        <5>2. CASE j # k + 1
          <6>1. j <= k
            BY <4>6, <5>2
          <6> QED BY <4>5, <6>1
        <5> QED BY <5>1, <5>2
      <4>7. ASSUME NEW j \in 1..n, NEW l \in 1..n, j < l, g[xs[l]] > 0 PROVE g[xs[j]] = q[xs[j]]
        <5>1. l <= k + 1
          BY <4>3, <4>7
        <5>2. j <= k
          BY <4>7, <5>1
        <5> QED BY <4>5, <5>2
      <4> QED BY <4>3, <4>6, <4>7
    <3> HIDE DEF Lines, Order, Count
    <3> QED BY <2>2, <3>5, <3>6, <3>7, <3>8
  <2> QED BY <2>3, <2>4
<1> HIDE DEF Good
<1>11. n \in Good
  <2>1. \A k \in 0..(n-1) : k \in Good => k + 1 \in Good
    BY <1>10
  <2>2. \A k \in 0..n : k \in Good
    BY <1>2, <1>9, <2>1, PrefixInduction
  <2> QED BY <1>2, <2>2
<1>12. PICK f \in [S -> Nat] : Lines(n, f) /\ Order(n, f) /\ Count(n, f)
  BY <1>11 DEF Good
<1> DEFINE after == GrantFreeUnits(lines, ids, count, offer)
           left == c[n].remaining
<1>13. /\ left \in Nat /\ SumFunctionOnSet(f, S) + left = count
       /\ \A i \in here \ S : after[i].currentTotal = lines[i].currentTotal
  BY <1>8, <1>12
<1>14. ASSUME NEW i \in S
       PROVE  /\ f[i] <= lines[i].quantity
              /\ after[i].currentTotal = (lines[i].quantity - f[i]) * lines[i].baseUnitPrice
  BY <1>3, <1>8, <1>12
<1>15. ASSUME left > 0, NEW i \in S PROVE f[i] = lines[i].quantity
  <2>1. PICK k \in 1..n : xs[k] = i
    BY <1>6
  <2> QED BY <1>3, <1>12, <1>15, <2>1
<1>16. ASSUME NEW i \in S, NEW j \in S, Cheaper(lines, i, j), f[j] > 0
       PROVE  f[i] = lines[i].quantity
  <2>1. PICK k \in 1..n, l \in 1..n : xs[k] = i /\ xs[l] = j
    BY <1>6
  <2>2. ~Cheaper(lines, j, i) /\ i # j
    <3> DEFINE a == lines[i].currentTotal * lines[j].quantity
               b == lines[j].currentTotal * lines[i].quantity
    <3>1. i \in Int /\ j \in Int /\ a \in Int /\ b \in Int
      BY <1>1 DEF LineSet
    <3>2. /\ Cheaper(lines, i, j) <=> i # j /\ ~(a > b \/ (a = b /\ i > j))
          /\ Cheaper(lines, j, i) <=> i # j /\ ~(b > a \/ (b = a /\ j > i))
      BY DEF Cheaper, Dearer
    <3> HIDE DEF a, b
    <3> QED BY <1>16, <3>1, <3>2
  <2>3. k < l
    BY <1>2, <2>1, <2>2
  <2> QED BY <1>3, <1>12, <1>16, <2>1, <2>3
<1> HIDE DEF after, left, Lines, Order, Count
<1>17. GrantedAs(lines, after, S, count, f, left)
  <2>1. DOMAIN lines = here
    BY <1>1
  <2> QED BY <1>13, <1>14, <1>15, <1>16, <2>1 DEF GrantedAs
<1> QED BY <1>13, <1>17 DEF after, S

\* Rows that take the cheapest there is, up to a price, are worth no more than
\* others that take as many.
\* f takes of each row up to q, at a price p, and all of one before any of a dearer;
\* g takes as much; a and b are what they are worth.
TakesCheapest(S, f, g, p, q, a, b) ==
    /\ f \in [S -> Nat] /\ g \in [S -> Nat] /\ p \in [S -> Nat \ {0}] /\ q \in [S -> Nat]
    /\ \A i \in S : f[i] <= q[i] /\ g[i] <= q[i]
    /\ \A i, j \in S : (p[i] < p[j] /\ f[j] > 0) => f[i] = q[i]
    /\ SumFunctionOnSet(f, S) = SumFunctionOnSet(g, S)
    /\ \A i \in S : a[i] = f[i] * p[i] /\ b[i] = g[i] * p[i]

LEMMA CheapestAreBest ==
    ASSUME NEW S, IsFiniteSet(S), NEW f, NEW g, NEW p, NEW q, NEW a, NEW b,
           TakesCheapest(S, f, g, p, q, a, b)
    PROVE  SumFunctionOnSet(a, S) <= SumFunctionOnSet(b, S)
<1> USE DEF TakesCheapest
<1>1. \E top \in Nat : \A i \in S : /\ p[i] < top => f[i] = q[i]
                                    /\ p[i] > top => f[i] = 0
  <2> DEFINE F == {i \in S : f[i] > 0}
             low == [i \in F |-> 0 - p[i]]
             T == {low[i] : i \in F}
  <2>1. CASE F = {}
    <3>1. \A i \in S : p[i] > 0 /\ f[i] = 0
      BY <2>1
    <3> QED BY <3>1
  <2>2. CASE F # {}
    <3>1. IsFiniteSet(T)
      <4>1. low \in Surjection(F, T)
        BY DEF Surjection
      <4>2. IsFiniteSet(F)
        BY FS_Subset
      <4> HIDE DEF F, T, low
      <4> QED BY <4>1, <4>2, FS_Surjection
    <3>2. T # {} /\ T \subseteq Int
      <4>1. \A i \in F : low[i] \in Int
        <5> SUFFICES ASSUME NEW i \in F PROVE low[i] \in Int
          OBVIOUS
        <5>1. i \in S
          OBVIOUS
        <5>2. p[i] \in Nat \ {0} /\ low[i] = 0 - p[i]
          BY <5>1
        <5> QED BY <5>2
      <4> HIDE DEF F, low
      <4> QED BY <2>2, <4>1
    <3>3. Sets!Min(T) \in T /\ \A y \in T : Sets!Min(T) =< y
      <4> HIDE DEF T
      <4> QED BY <3>1, <3>2, MinOf
    <3>4. PICK l \in F : Sets!Min(T) = 0 - p[l]
      BY <3>3
    <3>5. \A i \in F : 0 - p[l] <= 0 - p[i]
      BY <3>3, <3>4
    <3>6. l \in S /\ f[l] > 0 /\ p[l] \in Nat
      BY <3>4
    <3>7. \A i \in S : /\ p[i] < p[l] => f[i] = q[i]
                       /\ p[i] > p[l] => f[i] = 0
      BY <3>5, <3>6
    <3> QED BY <3>6, <3>7
  <2> QED BY <2>1, <2>2
<1>2. PICK top \in Nat : \A i \in S : /\ p[i] < top => f[i] = q[i]
                                      /\ p[i] > top => f[i] = 0
  BY <1>1
<1> DEFINE c == [i \in S |-> top * f[i]]
           d == [i \in S |-> top * g[i]]
           left == [i \in S |-> a[i] + d[i]]
           right == [i \in S |-> b[i] + c[i]]
<1>3. \A i \in S : c[i] = top * f[i] /\ d[i] = top * g[i]
                     /\ left[i] = a[i] + d[i] /\ right[i] = b[i] + c[i]
  OBVIOUS
<1> HIDE DEF c, d, left, right
<1>4. ASSUME NEW i \in S
      PROVE  /\ a[i] \in Int /\ b[i] \in Int /\ c[i] \in Int /\ d[i] \in Int
             /\ left[i] \in Int /\ right[i] \in Int /\ left[i] <= right[i]
  <2> DEFINE x == f[i]
             y == g[i]
             z == p[i]
  <2>1. /\ x \in Nat /\ y \in Nat /\ z \in Nat
        /\ (z < top => x >= y) /\ (z > top => x <= y)
    BY <1>2
  <2>2. a[i] = x * z /\ b[i] = y * z /\ c[i] = top * x /\ d[i] = top * y
    BY <1>3
  <2> HIDE DEF x, y, z
  <2>3. x * z + top * y <= y * z + top * x
    <3>1. CASE z = top
      <4>1. x * z \in Int /\ y * z \in Int /\ top * y = y * z /\ top * x = x * z
        BY <2>1, <3>1
      <4> QED BY <4>1
    <3>2. CASE z < top
      <4> DEFINE u == x - y
                 v == top - z
      <4>1. u \in Nat /\ v \in Nat /\ x = y + u /\ top = z + v
        BY <2>1, <3>2
      <4> HIDE DEF u, v
      <4>2. u * v \in Nat
        BY <4>1
      <4>3. (y + u) * z + (z + v) * y + u * v = y * z + (z + v) * (y + u)
        BY <2>1, <4>1
      <4>4. x * z \in Int /\ y * z \in Int /\ top * y \in Int /\ top * x \in Int
        BY <2>1
      <4>5. x * z + top * y + u * v = y * z + top * x
        BY <4>1, <4>3
      <4> QED BY <4>2, <4>4, <4>5
    <3>3. CASE z > top
      <4> DEFINE u == y - x
                 v == z - top
      <4>1. u \in Nat /\ v \in Nat /\ y = x + u /\ z = top + v
        BY <2>1, <3>3
      <4> HIDE DEF u, v
      <4>2. u * v \in Nat
        BY <4>1
      <4>3. x * (top + v) + top * (x + u) + u * v = (x + u) * (top + v) + top * x
        BY <2>1, <4>1
      <4>4. x * z \in Int /\ y * z \in Int /\ top * y \in Int /\ top * x \in Int
        BY <2>1
      <4>5. x * z + top * y + u * v = y * z + top * x
        BY <4>1, <4>3
      <4> QED BY <4>2, <4>4, <4>5
    <3> QED BY <2>1, <3>1, <3>2, <3>3
  <2>4. x * z \in Int /\ y * z \in Int /\ top * y \in Int /\ top * x \in Int
    BY <2>1
  <2> QED BY <1>3, <2>2, <2>3, <2>4
<1> DEFINE A == SumFunctionOnSet(a, S)
           B == SumFunctionOnSet(b, S)
           C == SumFunctionOnSet(c, S)
           D == SumFunctionOnSet(d, S)
<1>5. A \in Int /\ B \in Int /\ C \in Int /\ D \in Int
  <2>1. A \in Int
    BY <1>4, SumInt
  <2>2. B \in Int
    BY <1>4, SumInt
  <2>3. C \in Int
    BY <1>4, SumInt
  <2>4. D \in Int
    BY <1>4, SumInt
  <2> QED BY <2>1, <2>2, <2>3, <2>4
<1>6. SumFunctionOnSet(left, S) = A + D
  BY <1>3, <1>4, SumPlus
<1>7. SumFunctionOnSet(right, S) = B + C
  BY <1>3, <1>4, SumPlus
<1>8. SumFunctionOnSet(left, S) <= SumFunctionOnSet(right, S)
  BY <1>4, SumAtMost
<1>9. C = D
  <2>1. C = top * SumFunctionOnSet(f, S)
    BY <1>3, SumScaled
  <2>2. D = top * SumFunctionOnSet(g, S)
    BY <1>3, SumScaled
  <2> QED BY <2>1, <2>2
<1> HIDE DEF A, B, C, D
<1>10. A <= B
  BY <1>5, <1>6, <1>7, <1>8, <1>9
<1> QED BY <1>10 DEF A, B

\* What an offer by the unit gives away of the lines of a cart nothing was taken
\* off: as many units as it gives, if there are, and none dearer than one it leaves.
LEMMA CheapestGranted ==
    ASSUME NEW units, IsFiniteSet(DOMAIN units), DOMAIN units \subseteq Int,
           NEW lines \in LinesOf(units), NEW ids \in SUBSET DOMAIN units,
           NEW given \in Nat, NEW offer, OfferFits(offer),
           \A i \in DOMAIN units :
              lines[i].currentTotal = lines[i].quantity * lines[i].baseUnitPrice
    PROVE  LET sold == {i \in ids : lines[i].baseUnitPrice > 0}
               n    == Sets!Min({given, UnitsIn(lines, sold)})
               off  == TotalOf(lines) - TotalOf(GrantFreeUnits(lines, ids, given, offer))
               best == {Worth(lines, f) : f \in Choices(lines, sold, n)}
           IN  off \in best /\ \A w \in best : off <= w
<1> DEFINE here == DOMAIN units
           S == {i \in ids : lines[i].baseUnitPrice > 0}
           after == GrantFreeUnits(lines, ids, given, offer)
           q == [i \in S |-> lines[i].quantity]
           p == [i \in S |-> lines[i].baseUnitPrice]
           n == Sets!Min({given, UnitsIn(lines, S)})
           off == TotalOf(lines) - TotalOf(after)
<1>1. /\ lines \in [here -> LineSet] /\ S \subseteq here /\ S \subseteq ids
      /\ IsFiniteSet(ids) /\ IsFiniteSet(S) /\ IsFiniteSet(here)
  BY FS_Subset DEF LinesOf
<1>2. \A i \in here : /\ lines[i].quantity \in Nat \ {0} /\ lines[i].baseUnitPrice \in Int
                      /\ lines[i].currentTotal \in Int
  BY <1>1 DEF LineSet
<1>3. S = {i \in ids : lines[i].currentTotal > 0}
  <2>1. ASSUME NEW i \in ids
        PROVE  lines[i].baseUnitPrice > 0 <=> lines[i].currentTotal > 0
    <3> DEFINE a == lines[i].quantity
               b == lines[i].baseUnitPrice
    <3>1. a \in Nat \ {0} /\ b \in Int /\ lines[i].currentTotal = a * b
      BY <1>1, <1>2
    <3> HIDE DEF a, b
    <3>2. (b > 0 => a * b > 0) /\ (b <= 0 => a * b <= 0) /\ a * b \in Int
      BY <3>1
    <3>3. b > 0 <=> a * b > 0
      BY <3>1, <3>2
    <3> QED BY <3>1, <3>3 DEF b
  <2> QED BY <2>1
<1>4. /\ p \in [S -> Nat \ {0}] /\ q \in [S -> Nat]
      /\ \A i \in S : q[i] = lines[i].quantity /\ p[i] = lines[i].baseUnitPrice
  BY <1>1, <1>2
<1>5. \E f \in [S -> Nat], left \in Nat : GrantedAs(lines, after, S, given, f, left)
  <2> DEFINE T == {i \in ids : lines[i].currentTotal > 0}
  <2>1. \E f \in [T -> Nat], left \in Nat : GrantedAs(lines, after, T, given, f, left)
    BY UnitsGranted
  <2>2. T = S
    BY <1>3
  <2> HIDE DEF S, T, p, q, n, off, after
  <2> QED BY <2>1, <2>2
<1> HIDE DEF S, p, q
<1>6. PICK f \in [S -> Nat], left \in Nat : GrantedAs(lines, after, S, given, f, left)
  BY <1>5
<1>7. /\ \A i \in S :
           /\ f[i] <= lines[i].quantity
           /\ after[i].currentTotal = (lines[i].quantity - f[i]) * lines[i].baseUnitPrice
      /\ \A i \in here \ S : after[i].currentTotal = lines[i].currentTotal
      /\ SumFunctionOnSet(f, S) + left = given
      /\ left > 0 => \A i \in S : f[i] = lines[i].quantity
      /\ \A i, j \in S : (Cheaper(lines, i, j) /\ f[j] > 0) => f[i] = lines[i].quantity
  <2>1. DOMAIN lines = here
    BY <1>1
  <2> QED BY <1>6, <2>1 DEF GrantedAs
<1>8. after \in LinesOf(units)
  <2>1. given \in Int
    OBVIOUS
  <2> QED BY <1>1, <2>1, FreeUnitsFit
<1> HIDE DEF after
<1> DEFINE F == SumFunctionOnSet(f, S)
           Q == SumFunctionOnSet(q, S)
<1>9. UnitsIn(lines, S) = Q
  <2> DEFINE r == [i \in S |-> lines[i].quantity]
  <2>1. UnitsIn(lines, S) = SumOf(r) /\ DOMAIN r = S /\ r = q
    BY <1>4 DEF UnitsIn
  <2> HIDE DEF r
  <2> QED BY <2>1, SumOfIs
<1>10. n = F
  <2>1. F \in Nat /\ Q \in Nat
    <3>1. F \in Nat
      BY <1>1, SumNat
    <3>2. Q \in Nat
      BY <1>1, <1>4, SumNat
    <3> QED BY <3>1, <3>2
  <2>2. F <= Q
    BY <1>1, <1>4, <1>7, SumAtMost
  <2>3. left > 0 => F = Q
    <3> SUFFICES ASSUME left > 0 PROVE F = Q
      OBVIOUS
    <3>1. \A i \in S : f[i] = q[i]
      BY <1>4, <1>7
    <3> QED BY <1>1, <3>1, SumSame
  <2>4. n = IF given <= Q THEN given ELSE Q
    <3> HIDE DEF Q
    <3>1. Sets!Min({given, Q}) = IF given <= Q THEN given ELSE Q
      BY <2>1, MinOfTwo
    <3> QED BY <1>9, <3>1
  <2>5. F + left = given
    BY <1>7
  <2> HIDE DEF n, F, Q
  <2> QED BY <2>1, <2>2, <2>3, <2>4, <2>5
<1> DEFINE worth == [i \in S |-> f[i] * lines[i].baseUnitPrice]
<1>11. \A i \in S : worth[i] = f[i] * p[i] /\ worth[i] \in Nat
  <2> SUFFICES ASSUME NEW i \in S PROVE worth[i] = f[i] * p[i] /\ worth[i] \in Nat
    OBVIOUS
  <2>1. worth[i] = f[i] * p[i] /\ f[i] \in Nat /\ p[i] \in Nat
    BY <1>4
  <2>2. f[i] * p[i] \in Nat
    BY <2>1
  <2> QED BY <2>1, <2>2
<1>12. f \in Choices(lines, S, n) /\ Worth(lines, f) = SumFunctionOnSet(worth, S)
  <2>1. SumOf(f) = F
    BY SumOfIs
  <2>2. Worth(lines, f) = SumOf(worth) /\ DOMAIN worth = S
    BY DEF Worth
  <2>3. Worth(lines, f) = SumFunctionOnSet(worth, S)
    <3> HIDE DEF worth
    <3> QED BY <2>2, SumOfIs
  <2>4. \A i \in S : f[i] \in 0..n
    <3> SUFFICES ASSUME NEW i \in S PROVE f[i] \in 0..n
      OBVIOUS
    <3>1. f[i] <= F
      BY <1>1, SumPart
    <3>2. F \in Nat
      BY <1>1, SumNat
    <3>3. f[i] \in Nat /\ n = F
      BY <1>10
    <3> HIDE DEF n, F
    <3> QED BY <3>1, <3>2, <3>3
  <2> HIDE DEF n, F, worth
  <2>5. f \in [S -> 0..n]
    BY <2>4
  <2> QED BY <1>7, <1>10, <2>1, <2>3, <2>5 DEF Choices
<1>13. off = SumFunctionOnSet(worth, S)
  <2> DEFINE t == [i \in here |-> lines[i].currentTotal]
             u == [i \in here |-> after[i].currentTotal]
             w == [i \in here |-> IF i \in S THEN worth[i] ELSE 0]
             R == here \ S
  <2>1. TotalOf(lines) = SumFunctionOnSet(t, here)
    <3>1. TotalOf(lines) = SumOf(t) /\ DOMAIN t = here
      BY <1>1 DEF TotalOf
    <3> HIDE DEF t
    <3> QED BY <3>1, SumOfIs
  <2>2. TotalOf(after) = SumFunctionOnSet(u, here)
    <3>1. DOMAIN after = here
      BY <1>8 DEF LinesOf
    <3>2. TotalOf(after) = SumOf(u) /\ DOMAIN u = here
      BY <3>1 DEF TotalOf
    <3> HIDE DEF u
    <3> QED BY <3>2, SumOfIs
  <2>3. /\ \A i \in here : t[i] = lines[i].currentTotal /\ u[i] = after[i].currentTotal
        /\ \A i \in S : w[i] = worth[i]
        /\ \A i \in R : w[i] = 0
    BY <1>1
  <2> HIDE DEF t, u, w
  <2>4. \A i \in here : w[i] \in Nat
    BY <1>11, <2>3
  <2>5. ASSUME NEW i \in here PROVE u[i] \in Int /\ w[i] \in Int /\ t[i] = u[i] + w[i]
    <3>1. t[i] \in Int /\ u[i] \in Int /\ w[i] \in Int
      BY <1>2, <1>8, <2>3, <2>4 DEF LinesOf, LineSet
    <3>2. CASE i \in R
      <4>1. u[i] = t[i] /\ w[i] = 0
        BY <1>7, <2>3, <3>2
      <4> QED BY <3>1, <4>1
    <3>3. CASE i \in S
      <4> DEFINE a == q[i]
                 b == f[i]
                 c == p[i]
      <4>1. t[i] = a * c /\ u[i] = (a - b) * c /\ w[i] = b * c
        BY <1>4, <1>7, <1>11, <2>3, <3>3
      <4>2. a \in Nat /\ b \in Nat /\ c \in Nat
        BY <1>4, <3>3
      <4> HIDE DEF a, b, c
      <4>3. a * c = (a - b) * c + b * c
        BY <4>2
      <4> QED BY <3>1, <4>1, <4>3
    <3> QED BY <3>2, <3>3
  <2>6. SumFunctionOnSet(t, here) = SumFunctionOnSet(u, here) + SumFunctionOnSet(w, here)
    <3> HIDE DEF here, R, S, worth
    <3> QED BY <1>1, <2>5, SumPlus
  <2>7. SumFunctionOnSet(w, here) = SumFunctionOnSet(worth, S)
    <3>1. IsFiniteSet(R) /\ S \cap R = {} /\ S \cup R = here
      BY <1>1, FS_Subset
    <3>2. SumFunctionOnSet(w, S \cup R) = SumFunctionOnSet(w, S) + SumFunctionOnSet(w, R)
      <4>1. \A i \in S \cup R : w[i] \in Int
        BY <2>4, <3>1
      <4> HIDE DEF R
      <4> QED BY <1>1, <3>1, <4>1, SumUnion
    <3>3. SumFunctionOnSet(w, R) = 0
      <4> HIDE DEF R
      <4> QED BY <2>3, <3>1, SumZero
    <3>4. SumFunctionOnSet(w, S) = SumFunctionOnSet(worth, S)
      <4> HIDE DEF worth
      <4> QED BY <1>1, <2>3, SumSame
    <3>5. SumFunctionOnSet(worth, S) \in Nat
      <4> HIDE DEF worth
      <4> QED BY <1>1, <1>11, SumNat
    <3> HIDE DEF R, worth
    <3> QED BY <3>1, <3>2, <3>3, <3>4, <3>5
  <2>8. SumFunctionOnSet(u, here) \in Int /\ SumFunctionOnSet(w, here) \in Int
    <3>1. SumFunctionOnSet(u, here) \in Int
      BY <1>1, <2>5, SumInt
    <3>2. SumFunctionOnSet(w, here) \in Int
      BY <1>1, <2>5, SumInt
    <3> QED BY <3>1, <3>2
  <2> HIDE DEF worth
  <2> QED BY <2>1, <2>2, <2>6, <2>7, <2>8
<1>14. ASSUME NEW g \in Choices(lines, S, n) PROVE off <= Worth(lines, g)
  <2> DEFINE other == [i \in S |-> g[i] * lines[i].baseUnitPrice]
  <2>1. g \in [S -> 0..n] /\ SumOf(g) = n /\ \A i \in S : g[i] <= lines[i].quantity
    BY DEF Choices
  <2>2. \A i \in S : g[i] \in Nat
    <3> HIDE DEF n
    <3> QED BY <2>1
  <2>3. g \in [S -> Nat]
    BY <2>1, <2>2
  <2>4. SumFunctionOnSet(f, S) = SumFunctionOnSet(g, S)
    BY <1>10, <2>1, <2>3, SumOfIs
  <2>5. Worth(lines, g) = SumFunctionOnSet(other, S)
    <3>1. Worth(lines, g) = SumOf(other) /\ DOMAIN other = S
      BY <2>3 DEF Worth
    <3> HIDE DEF other
    <3> QED BY <3>1, SumOfIs
  <2>6. \A i \in S : f[i] <= q[i] /\ g[i] <= q[i]
    BY <1>4, <1>7, <2>1
  <2>7. ASSUME NEW i \in S, NEW j \in S, p[i] < p[j], f[j] > 0 PROVE f[i] = q[i]
    <3>1. Cheaper(lines, i, j)
      <4> DEFINE a == q[i]
                 b == q[j]
                 c == p[i]
                 d == p[j]
      <4>1. /\ a \in Nat \ {0} /\ b \in Nat \ {0} /\ c \in Nat /\ d \in Nat /\ c < d
            /\ lines[i].currentTotal = a * c /\ lines[i].quantity = a
            /\ lines[j].currentTotal = b * d /\ lines[j].quantity = b
        BY <1>1, <1>2, <1>4, <2>7
      <4>2. Dearer(lines, i, j)
              <=> (a * c) * b > (b * d) * a \/ ((a * c) * b = (b * d) * a /\ i > j)
        BY <4>1 DEF Dearer
      <4>3. i # j
        BY <4>1
      <4> HIDE DEF a, b, c, d
      <4> DEFINE m == a * b
      <4>4. m \in Nat \ {0} /\ (a * c) * b = c * m /\ (b * d) * a = d * m
        <5>1. a * b > 0 /\ a * b \in Int
          BY <4>1
        <5>2. (a * c) * b = c * (a * b)
          BY <4>1
        <5>3. (b * d) * a = d * (a * b)
          BY <4>1
        <5> QED BY <5>1, <5>2, <5>3
      <4> HIDE DEF m
      <4>5. c * m < d * m /\ c * m \in Int /\ d * m \in Int
        BY <4>1, <4>4, AcrossMonotone
      <4>6. ~Dearer(lines, i, j)
        BY <4>2, <4>4, <4>5
      <4> QED BY <4>3, <4>6 DEF Cheaper
    <3> QED BY <1>4, <1>7, <2>7, <3>1
  <2>8. \A i \in S : other[i] = g[i] * p[i]
    BY <1>4
  <2>9. \A i \in S : worth[i] = f[i] * p[i]
    BY <1>11
  <2> HIDE DEF worth, other, off, n, here
  <2>10. \A i, j \in S : (p[i] < p[j] /\ f[j] > 0) => f[i] = q[i]
    BY <2>7
  <2>11. /\ IsFiniteSet(S) /\ f \in [S -> Nat]
         /\ p \in [S -> Nat \ {0}] /\ q \in [S -> Nat]
    BY <1>1, <1>4
  <2>12. SumFunctionOnSet(worth, S) <= SumFunctionOnSet(other, S)
    <3>1. TakesCheapest(S, f, g, p, q, worth, other)
      BY <2>3, <2>4, <2>6, <2>8, <2>9, <2>10, <2>11 DEF TakesCheapest
    <3> QED BY <2>11, <3>1, CheapestAreBest
  <2> QED BY <1>13, <2>5, <2>12
<1> DEFINE best == {Worth(lines, g) : g \in Choices(lines, S, n)}
<1>15. off \in best /\ \A w \in best : off <= w
  <2> HIDE DEF off, n, worth
  <2> QED BY <1>12, <1>13, <1>14
<1> QED BY <1>15 DEF S, after

\* How many units an offer by the unit gives for nothing.
LEMMA FreeUnitsCounted ==
    ASSUME NEW units, IsFiniteSet(DOMAIN units), NEW lines \in LinesOf(units),
           NEW ids \in SUBSET DOMAIN units, NEW offer, OfferFits(offer)
    PROVE  /\ offer.discountType = "BUY_X_GET_Y" => FreeUnits(lines, ids, offer) \in Nat
           /\ offer.discountType = "BUNDLE" => BundleSets(lines, ids, offer) \in Nat
<1>1. \A i \in DOMAIN units : lines[i].quantity \in Nat
  BY DEF LinesOf, LineSet
<1>2. ASSUME offer.discountType = "BUY_X_GET_Y" PROVE FreeUnits(lines, ids, offer) \in Nat
  <2> DEFINE f == [i \in ids |-> lines[i].quantity]
             total == UnitsIn(lines, ids)
             x == offer.buyQuantity
             y == offer.payQuantity
  <2>1. total = SumFunctionOnSet(f, ids)
    <3>1. total = SumOf(f) /\ DOMAIN f = ids
      BY DEF UnitsIn
    <3> HIDE DEF f, total
    <3> QED BY <3>1, SumOfIs
  <2>2. IsFiniteSet(ids) /\ \A i \in ids : f[i] \in Nat
    BY <1>1, FS_Subset
  <2> HIDE DEF f
  <2>3. total \in Nat
    BY <2>1, <2>2, SumNat
  <2>4. x \in Nat \ {0} /\ y \in Nat /\ x > y
    BY <1>2 DEF OfferFits
  <2>5. FreeUnits(lines, ids, offer) = (total \div x) * (x - y)
    BY DEF FreeUnits
  <2> HIDE DEF total, x, y
  <2>6. total \div x \in Nat /\ x - y \in Nat
    BY <2>3, <2>4
  <2> DEFINE a == total \div x
             b == x - y
  <2> HIDE DEF a, b
  <2>7. a \in Nat /\ b \in Nat => a * b \in Nat
    OBVIOUS
  <2> QED BY <2>5, <2>6, <2>7 DEF a, b
<1>3. ASSUME offer.discountType = "BUNDLE" PROVE BundleSets(lines, ids, offer) \in Nat
  <2> DEFINE B == DOMAIN offer.bundleItems
             g == [i \in B |-> (IF i \in ids THEN lines[i].quantity ELSE 0)
                                  \div offer.bundleItems[i]]
             T == {g[i] : i \in B}
  <2>1. IsFiniteSet(B) /\ Cardinality(B) >= 2 /\ \A i \in B : offer.bundleItems[i] \in Nat \ {0}
    BY <1>3 DEF OfferFits
  <2>2. ASSUME NEW i \in B PROVE g[i] \in Nat
    <3> DEFINE q == IF i \in ids THEN lines[i].quantity ELSE 0
    <3>1. q \in Nat
      BY <1>1
    <3> HIDE DEF q
    <3>2. q \div offer.bundleItems[i] \in Nat
      BY <2>1, <3>1
    <3> QED BY <3>2 DEF q
  <2>3. BundleSets(lines, ids, offer) = Sets!Min(T)
    <3>1. T = {(IF i \in ids THEN lines[i].quantity ELSE 0) \div offer.bundleItems[i]
                 : i \in DOMAIN offer.bundleItems}
      OBVIOUS
    <3> HIDE DEF T
    <3> QED BY <3>1 DEF BundleSets
  <2>4. B # {}
    BY <2>1, FS_EmptySet
  <2>5. g \in Surjection(B, T)
    BY DEF Surjection
  <2> HIDE DEF g, B
  <2>6. IsFiniteSet(T)
    <3> HIDE DEF T
    <3> QED BY <2>1, <2>5, FS_Surjection
  <2>7. T # {} /\ T \subseteq Nat
    BY <2>2, <2>4
  <2> HIDE DEF T
  <2>8. T \subseteq Int
    BY <2>7
  <2>9. Sets!Min(T) \in T
    BY <2>6, <2>7, <2>8, MinOf
  <2> QED BY <2>3, <2>7, <2>9
<1> QED BY <1>2, <1>3

\* Every offer leaves lines for the same units.
LEMMA OfferApplied ==
    ASSUME NEW units, IsFiniteSet(DOMAIN units), DOMAIN units \subseteq Int,
           NEW lines \in LinesOf(units), NEW ids \in SUBSET DOMAIN units,
           NEW offer, OfferFits(offer)
    PROVE  ApplyOffer(lines, ids, offer) \in LinesOf(units)
<1>1. IsFiniteSet(ids)
  BY FS_Subset
<1>2. CASE offer.discountType = "BUY_X_GET_Y"
  <2>1. FreeUnits(lines, ids, offer) \in Int
    BY <1>2, FreeUnitsCounted
  <2>2. GrantFreeUnits(lines, ids, FreeUnits(lines, ids, offer), offer) \in LinesOf(units)
    BY <1>1, <2>1, FreeUnitsFit
  <2> QED BY <1>2, <2>2 DEF ApplyOffer, ApplyBuyXGetY
<1>3. CASE offer.discountType = "BUNDLE"
  <2>1. BundleSets(lines, ids, offer) \in Int
    BY <1>3, FreeUnitsCounted
  <2>2. GrantFreeUnits(lines, ids, BundleSets(lines, ids, offer), offer) \in LinesOf(units)
    BY <1>1, <2>1, FreeUnitsFit
  <2>3. ApplyOffer(lines, ids, offer) = ApplyBundle(lines, ids, offer)
    BY <1>3 DEF ApplyOffer
  <2> QED BY <2>2, <2>3 DEF ApplyBundle
<1>4. CASE offer.discountType \notin {"BUY_X_GET_Y", "BUNDLE"}
  <2> DEFINE next == [i \in DOMAIN lines |->
                        IF i \in ids THEN ApplyStandardOffer(lines[i], offer) ELSE lines[i]]
  <2>1. ApplyOffer(lines, ids, offer) = next
    BY <1>4 DEF ApplyOffer
  <2>2. DOMAIN lines = DOMAIN units
    BY DEF LinesOf
  <2>3. ASSUME NEW i \in DOMAIN units PROVE next[i] \in LineSet /\ next[i].quantity = units[i]
    <3>1. lines[i] \in LineSet /\ lines[i].quantity = units[i]
      BY DEF LinesOf
    <3>2. CASE i \in ids
      <4>1. next[i] = ApplyStandardOffer(lines[i], offer)
        BY <2>2, <3>2
      <4> QED BY <1>4, <3>1, <4>1, StandardFits
    <3>3. CASE i \notin ids
      BY <2>2, <3>1, <3>3
    <3> QED BY <3>2, <3>3
  <2>4. next = [i \in DOMAIN units |-> next[i]]
    BY <2>2
  <2> HIDE DEF next
  <2> QED BY <2>1, <2>3, <2>4 DEF LinesOf
<1> QED BY <1>2, <1>3, <1>4

\* What is stored of an offer is what its type needs.
LEMMA StoredFits == ASSUME NEW offer, Stored(offer) PROVE OfferFits(offer)
<1>1. /\ {"discountType", "value", "allowBelowMargin", "buyQuantity", "payQuantity",
          "bundleItems"} \subseteq DOMAIN offer
      /\ FieldsFit(offer) /\ ValidOfferConfiguration(offer)
  BY DEF Stored, OfferFields, OfferDefaults
<1>2. /\ offer.discountType \in DiscountTypes /\ offer.value \in Int
      /\ offer.allowBelowMargin \in BOOLEAN
      /\ offer.buyQuantity \in Nat \cup {NULL} /\ offer.payQuantity \in Nat \cup {NULL}
      /\ IsFiniteSet(DOMAIN offer.bundleItems)
      /\ \A i \in DOMAIN offer.bundleItems : offer.bundleItems[i] \in Int
  BY <1>1 DEF FieldsFit
<1>3. ASSUME offer.discountType = "BUY_X_GET_Y"
      PROVE  /\ offer.buyQuantity \in Nat \ {0} /\ offer.payQuantity \in Nat
             /\ offer.buyQuantity > offer.payQuantity
  <2>1. /\ NULL \notin {offer.buyQuantity, offer.payQuantity}
        /\ offer.buyQuantity > offer.payQuantity /\ offer.payQuantity >= 1
    BY <1>1, <1>3 DEF ValidOfferConfiguration
  <2> QED BY <1>2, <2>1
<1>4. ASSUME offer.discountType = "BUNDLE"
      PROVE  /\ \A i \in DOMAIN offer.bundleItems : offer.bundleItems[i] \in Nat \ {0}
             /\ Cardinality(DOMAIN offer.bundleItems) >= 2
  <2>1. /\ \A i \in DOMAIN offer.bundleItems : offer.bundleItems[i] >= 1
        /\ Cardinality(DOMAIN offer.bundleItems) >= 2
    BY <1>1, <1>4 DEF ValidOfferConfiguration
  <2> QED BY <1>2, <2>1
<1> QED BY <1>2, <1>3, <1>4 DEF OfferFits

\* A cart keeps its units along all the offers.
LEMMA RunKeepsLines ==
    ASSUME OffersInv, NEW units, IsFiniteSet(DOMAIN units), DOMAIN units \subseteq Int,
           NEW lines \in LinesOf(units), NEW n \in Nat, NEW os \in [1..n -> DOMAIN offers],
           NEW ids, \A o \in DOMAIN offers : ids[o] \subseteq DOMAIN units
    PROVE  RunOf(lines, os, ids)[1..n].lines \in LinesOf(units)
<1> DEFINE c == RunOf(lines, os, ids)
           Good == {k \in 0..n : c[1..k].lines \in LinesOf(units)}
<1>1. /\ c[1..0] = [lines |-> lines, exclusive |-> FALSE]
      /\ \A k \in 0..(n-1) : c[1..(k+1)] = CartStep(c[1..k], os[k+1], ids[os[k+1]])
  <2>1. DOMAIN os = 1..n
    OBVIOUS
  <2> QED BY <2>1, RunSteps
<1> HIDE DEF c
<1>2. 0 \in Good
  BY <1>1
<1>3. ASSUME NEW k \in 0..(n-1), k \in Good PROVE k + 1 \in Good
  <2> DEFINE o == os[k+1]
             cart == c[1..k]
  <2>1. o \in DOMAIN offers /\ cart.lines \in LinesOf(units)
    BY <1>3
  <2>2. c[1..(k+1)] = CartStep(cart, o, ids[o])
    BY <1>1, <1>3
  <2> HIDE DEF o, cart
  <2>3. OfferFits(offers[o]) /\ ids[o] \subseteq DOMAIN units
    BY <2>1, StoredFits DEF OffersInv
  <2>4. ApplyOffer(cart.lines, ids[o], offers[o]) \in LinesOf(units)
    BY <2>1, <2>3, OfferApplied
  <2>5. CartStep(cart, o, ids[o]).lines \in LinesOf(units)
    BY <2>1, <2>4 DEF CartStep
  <2> QED BY <1>3, <2>2, <2>5
<1> HIDE DEF Good
<1>4. n \in Good
  <2>1. \A k \in 0..(n-1) : k \in Good => k + 1 \in Good
    BY <1>3
  <2>2. \A k \in 0..n : k \in Good
    BY <1>2, <2>1, PrefixInduction
  <2> QED BY <2>2
<1> QED BY <1>4 DEF Good, c

\* The prices of the rows are numbers.
PriceInv == price \in [StoreProducts -> [list : Int, cost : Int]]

LEMMA PricesHold == ShopSpec => []PriceInv
<1>1. ShopInit => PriceInv
  BY ShopAssumption DEF ShopInit, CatalogueInit, PriceInv
<1>2. PriceInv /\ [ShopNext]_shopVars => PriceInv'
  <2> SUFFICES ASSUME PriceInv, [ShopNext]_shopVars PROVE PriceInv'
    OBVIOUS
  <2>1. CASE UNCHANGED price
    BY <2>1 DEF PriceInv
  <2>2. CASE \E i \in StoreProducts, amount \in Prices : UpdatePrice(i, amount)
    <3>1. PICK i \in StoreProducts, amount \in Prices : UpdatePrice(i, amount)
      BY <2>2
    <3>2. amount \in Int /\ price' = [price EXCEPT ![i].list = amount]
      BY <3>1, ShopAssumption DEF UpdatePrice
    <3> QED BY <3>2 DEF PriceInv
  <2> QED
    BY <2>1, <2>2 DEF ShopNext, CatalogueStep, CommerceStep, offerVars, shopVars,
       CreateSpecialOffer, UpdateSpecialOffer,
       CreateCategory, UpdateCategory, RemoveCategory, BulkUpsert, UpdatePrice, Tick,
       CreateChannel, UpdateChannel, Arrive, Confirm, LockRows, Sell, FinishNote,
       AbortVictim, StartNote
<1> QED BY <1>1, <1>2, PTL DEF ShopSpec, shopVars

\* The row of a store product, or that of the central store, as a line.
LEMMA LinePriced ==
    ASSUME PriceInv, NEW i \in StoreProducts, NEW q \in Nat \ {0}
    PROVE  /\ PricedLine(i, q) \in LineSet /\ PricedLine(i, q).quantity = q
           /\ PricedLine(i, q).currentTotal = q * PricedLine(i, q).baseUnitPrice
<1> DEFINE central == {j \in StoreProducts : Item[j].store = CentralStore
                                               /\ Item[j].variation = Item[i].variation}
           row == CHOOSE j \in central : TRUE
           list == IF price[i]["list"] > 0 \/ central = {} THEN price[i]["list"]
                   ELSE price[row]["list"]
           cost == IF price[i]["cost"] > 0 \/ central = {} THEN price[i]["cost"]
                   ELSE price[row]["cost"]
<1>1. central # {} => row \in StoreProducts
  OBVIOUS
<1>2. PricedLine(i, q) = Line(q, list, cost)
  BY DEF PricedLine
<1> HIDE DEF central, row
<1>3. list \in Int /\ cost \in Int
  BY <1>1 DEF PriceInv
<1> HIDE DEF list, cost
<1>4. list * q \in Int /\ list * q = q * list
  BY <1>3
<1> QED BY <1>2, <1>3, <1>4 DEF Line, LineSet

\* What an offer by the unit takes off a cart is what the cheapest units of it
\* with a price are worth, as many as it gives: whatever prices and offers there
\* are, and whatever ties.
THEOREM CheapestUnitsAlwaysFree == ShopSpec => []CheapestUnitsAreFree
<1>1. OffersInv /\ PriceInv => CheapestUnitsAreFree
  <2> SUFFICES ASSUME OffersInv, PriceInv, NEW o \in DOMAIN offers, NEW units \in Carts,
                      offers[o].discountType \in {"BUY_X_GET_Y", "BUNDLE"}
               PROVE
        LET offer == offers[o]
            lines == [i \in DOMAIN units |-> PricedLine(i, units[i])]
            ids   == ApplicableStoreProducts(offer, DOMAIN units)
            given == IF offer.discountType = "BUNDLE" THEN BundleSets(lines, ids, offer)
                                                      ELSE FreeUnits(lines, ids, offer)
            sold  == {i \in ids : lines[i].baseUnitPrice > 0}
            n     == Sets!Min({given, UnitsIn(lines, sold)})
            off   == TotalOf(lines) - TotalOf(ApplyOffer(lines, ids, offer))
            best  == {Worth(lines, f) : f \in Choices(lines, sold, n)}
        IN  off \in best /\ \A w \in best : off <= w
    BY DEF CheapestUnitsAreFree
  <2> DEFINE offer == offers[o]
             here  == DOMAIN units
             lines == [i \in here |-> PricedLine(i, units[i])]
             ids   == ApplicableStoreProducts(offer, here)
             given == IF offer.discountType = "BUNDLE" THEN BundleSets(lines, ids, offer)
                                                       ELSE FreeUnits(lines, ids, offer)
  <2>1. /\ IsFiniteSet(here) /\ here \subseteq StoreProducts /\ here \subseteq Int
        /\ \A i \in here : units[i] \in Nat \ {0}
    BY ShopAssumption, CatalogueAssumption DEF IsCart
  <2>2. \A i \in here : /\ lines[i] \in LineSet /\ lines[i].quantity = units[i]
                        /\ lines[i].currentTotal = lines[i].quantity * lines[i].baseUnitPrice
    <3> SUFFICES ASSUME NEW i \in here
                 PROVE  /\ lines[i] \in LineSet /\ lines[i].quantity = units[i]
                        /\ lines[i].currentTotal = lines[i].quantity * lines[i].baseUnitPrice
      OBVIOUS
    <3>1. lines[i] = PricedLine(i, units[i]) /\ i \in StoreProducts /\ units[i] \in Nat \ {0}
      BY <2>1
    <3> HIDE DEF lines
    <3> QED BY <3>1, LinePriced
  <2>3. lines \in LinesOf(units)
    BY <2>2 DEF LinesOf
  <2>4. ids \in SUBSET here
    BY DEF ApplicableStoreProducts
  <2>5. OfferFits(offer) /\ offer.discountType \in {"BUY_X_GET_Y", "BUNDLE"}
    BY StoredFits DEF OffersInv
  <2> HIDE DEF lines, ids, offer
  <2>6. given \in Nat
    BY <2>1, <2>3, <2>4, <2>5, FreeUnitsCounted
  <2>7. ApplyOffer(lines, ids, offer) = GrantFreeUnits(lines, ids, given, offer)
    <3>1. CASE offer.discountType = "BUY_X_GET_Y"
      BY <3>1 DEF ApplyOffer, ApplyBuyXGetY
    <3>2. CASE offer.discountType = "BUNDLE"
      <4>1. ~(Cardinality(DOMAIN offer.bundleItems) < 2)
        <5>1. Cardinality(DOMAIN offer.bundleItems) \in Nat
                /\ Cardinality(DOMAIN offer.bundleItems) >= 2
          BY <2>5, <3>2, FS_CardinalityType DEF OfferFits
        <5> QED BY <5>1
      <4> QED BY <3>2, <4>1 DEF ApplyOffer, ApplyBundle
    <3> QED BY <2>5, <3>1, <3>2
  <2> DEFINE sold  == {i \in ids : lines[i].baseUnitPrice > 0}
             n     == Sets!Min({given, UnitsIn(lines, sold)})
             off   == TotalOf(lines) - TotalOf(GrantFreeUnits(lines, ids, given, offer))
             best  == {Worth(lines, f) : f \in Choices(lines, sold, n)}
  <2>8. off \in best /\ \A w \in best : off <= w
    <3>1. \A i \in DOMAIN units :
             lines[i].currentTotal = lines[i].quantity * lines[i].baseUnitPrice
      BY <2>2
    <3> HIDE DEF given
    <3> QED BY <2>1, <2>3, <2>4, <2>5, <2>6, <3>1, CheapestGranted
  <2> QED BY <2>7, <2>8 DEF given, lines, ids, offer
<1> QED BY <1>1, OffersHold, PricesHold, PTL

\* A cart that is not rejected has its lines, of the units asked for.
LEMMA CartLines ==
    ASSUME OffersInv, PriceInv, NEW units, IsCart(units), IsFiniteSet(DOMAIN units),
           NEW store, CalculateCart(now, store, units, NULL) # Rejected
    PROVE  CalculateCart(now, store, units, NULL).lines \in LinesOf(units)
<1> DEFINE here == DOMAIN units
           lines == [i \in here |-> PricedLine(i, units[i])]
           os == LiveOffers(now, store, here)
           some == {o \in os :
                      IF offers[o].discountType = "BUNDLE"
                      THEN offers[o].storeID = store /\ here \cap DOMAIN offers[o].bundleItems # {}
                      ELSE \E j \in here : MatchesOffer(j, offers[o], SharedScope(o, os))}
           ids == [o \in DOMAIN offers |-> ApplicableStoreProducts(offers[o], here)]
           n == Cardinality(some)
           xs == InOrder(some)
           cart == CartOver(lines, xs, here)
<1>1. CalculateCart(now, store, units, NULL)
        = IF \E i \in here : Item[i].store # store THEN Rejected ELSE Margined(cart.lines)
  BY DEF CalculateCart, CartOver, WithManualDiscount, ApplicableOffers
<1>2. some \subseteq DOMAIN offers
  BY DEF LiveOffers
<1> HIDE DEF some
<1>3. Comparable(some)
  <2>1. Comparable(DOMAIN offers)
    BY OffersComparable
  <2>2. IsFiniteSet(some)
    BY <1>2, <2>1, FS_Subset DEF Comparable
  <2> QED BY <1>2, <2>1, <2>2 DEF Comparable
<1>4. n \in Nat /\ xs \in [1..n -> DOMAIN offers]
  <2>1. n \in Nat /\ xs \in [1..n -> some]
    BY <1>3, InOrderLists
  <2> QED BY <1>2, <2>1
<1>5. here \subseteq StoreProducts /\ here \subseteq Int /\ \A i \in here : units[i] \in Nat \ {0}
  BY CatalogueAssumption DEF IsCart
<1>6. lines \in LinesOf(units)
  <2>1. \A i \in here : PricedLine(i, units[i]) \in LineSet
                          /\ PricedLine(i, units[i]).quantity = units[i]
    BY <1>5, LinePriced
  <2> QED BY <2>1 DEF LinesOf
<1>7. /\ \A o \in DOMAIN offers : ids[o] = ApplicableStoreProducts(offers[o], here)
      /\ \A o \in DOMAIN offers : ids[o] \subseteq here
  BY DEF ApplicableStoreProducts
<1> HIDE DEF ids, xs, n, lines
<1>8. cart = RunOf(lines, xs, ids)[1..n]
  <2> HIDE DEF here
  <2> QED BY <1>4, <1>7, CartIsRun
<1>9. RunOf(lines, xs, ids)[1..n].lines \in LinesOf(units)
  BY <1>4, <1>5, <1>6, <1>7, RunKeepsLines
<1>10. cart.lines \in LinesOf(units)
  BY <1>8, <1>9
<1> HIDE DEF cart
<1>11. Margined(cart.lines) = Rejected \/ Margined(cart.lines).lines = cart.lines
  BY DEF Margined
<1> QED BY <1>1, <1>10, <1>11

-----------------------------------------------------------------------------
(* The amounts of documents.                                                  *)

\* Amounts rounded one by one differ from their sum by half a unit each.
LEMMA RoundedSum ==
    ASSUME NEW S, IsFiniteSet(S), NEW f, NEW g, NEW c \in Nat \ {0},
           \A x \in S : /\ f[x] \in Int /\ g[x] \in Int
                        /\ 2 * (c * g[x]) <= 2 * f[x] + c
                        /\ 2 * f[x] - c <= 2 * (c * g[x])
    PROVE  LET F == SumFunctionOnSet(f, S)
               G == SumFunctionOnSet(g, S)
           IN  /\ F \in Int /\ G \in Int /\ Cardinality(S) \in Nat
               /\ 2 * (c * G) <= 2 * F + c * Cardinality(S)
               /\ 2 * F - c * Cardinality(S) <= 2 * (c * G)
<1> DEFINE F(s) == SumFunctionOnSet(f, s)
           G(s) == SumFunctionOnSet(g, s)
           Good == {s \in SUBSET S : /\ 2 * (c * G(s)) <= 2 * F(s) + c * Cardinality(s)
                                     /\ 2 * F(s) - c * Cardinality(s) <= 2 * (c * G(s))}
<1>1. ASSUME NEW s \in SUBSET S
      PROVE  IsFiniteSet(s) /\ F(s) \in Int /\ G(s) \in Int /\ Cardinality(s) \in Nat
  <2>1. IsFiniteSet(s)
    BY FS_Subset
  <2>2. F(s) \in Int
    BY <2>1, SumInt
  <2>3. G(s) \in Int
    BY <2>1, SumInt
  <2> QED BY <2>1, <2>2, <2>3, FS_CardinalityType
<1>2. ASSUME NEW s \in SUBSET S, \A t \in SUBSET s : t # s => t \in Good
      PROVE  s \in Good
  <2>1. CASE s = {}
    <3>1. F(s) = 0 /\ G(s) = 0 /\ Cardinality(s) = 0
      BY <2>1, SumEmpty, FS_EmptySet
    <3> HIDE DEF F, G
    <3> QED BY <3>1
  <2>2. CASE s # {}
    <3>1. PICK z \in s : TRUE
      BY <2>2
    <3> DEFINE t == s \ {z}
    <3>2. t \in Good /\ t \in SUBSET S /\ z \in S
      BY <1>2, <3>1
    <3>3. F(s) = f[z] + F(t) /\ G(s) = g[z] + G(t)
      BY <1>1, <3>1, SumRemove
    <3>4. Cardinality(t) = Cardinality(s) - 1
      BY <1>1, <3>1, FS_RemoveElement
    <3>5. F(s) \in Int /\ G(s) \in Int /\ Cardinality(s) \in Nat
      BY <1>1
    <3>6. F(t) \in Int /\ G(t) \in Int /\ Cardinality(t) \in Nat
      BY <1>1, <3>2
    <3>7. /\ f[z] \in Int /\ g[z] \in Int
          /\ 2 * (c * g[z]) <= 2 * f[z] + c
          /\ 2 * f[z] - c <= 2 * (c * g[z])
      BY <3>2
    <3>8. /\ 2 * (c * G(t)) <= 2 * F(t) + c * Cardinality(t)
          /\ 2 * F(t) - c * Cardinality(t) <= 2 * (c * G(t))
      BY <3>2
    <3> HIDE DEF F, G, t
    <3>9. c * G(s) = c * g[z] + c * G(t) /\ c * Cardinality(s) = c * Cardinality(t) + c
      <4>1. c * (g[z] + G(t)) = c * g[z] + c * G(t)
        BY <3>6, <3>7
      <4>2. Cardinality(s) = Cardinality(t) + 1
        BY <3>4, <3>5, <3>6
      <4>3. c * (Cardinality(t) + 1) = c * Cardinality(t) + c
        BY <3>6
      <4> QED BY <3>3, <4>1, <4>2, <4>3
    <3>10. /\ c * G(s) \in Int /\ c * G(t) \in Int /\ c * g[z] \in Int
           /\ c * Cardinality(t) \in Int /\ c * Cardinality(s) \in Int
      BY <3>5, <3>6, <3>7
    <3>11. /\ 2 * (c * G(s)) <= 2 * F(s) + c * Cardinality(s)
           /\ 2 * F(s) - c * Cardinality(s) <= 2 * (c * G(s))
      BY <3>3, <3>5, <3>6, <3>7, <3>8, <3>9, <3>10
    <3> QED BY <3>11
  <2> QED BY <2>1, <2>2
<1>3. S \in Good
  <2> HIDE DEF Good
  <2> QED BY <1>2, SubsetInduction
<1>4. S \in SUBSET S
  OBVIOUS
<1> QED BY <1>1, <1>3, <1>4

\* The net amount and the tax of a total, to within a peso.
LEMMA HeaderSplits ==
    ASSUME NEW total \in Int
    PROVE  LET split == SplitIvaIncluded(total)
           IN  /\ split.total = total /\ split.net \in Int /\ split.tax \in Int
               /\ split.net + split.tax = total
               /\ Distance(100 * split.tax, 19 * split.net) <= 100
               /\ 238 * split.net <= 200 * total + 119
               /\ 200 * total - 119 <= 238 * split.net
<1> DEFINE net == Net(100 * total)
<1>1. net \in Int /\ 238 * net <= 200 * total + 119 /\ 200 * total - 119 <= 238 * net
  <2>1. 100 * total \in Int
    OBVIOUS
  <2> DEFINE x == 100 * total
  <2> HIDE DEF x
  <2>2. /\ ToMoney(x, 119) \in Int
        /\ 2 * (119 * ToMoney(x, 119)) <= 2 * x + 119
        /\ 2 * x - 119 < 2 * (119 * ToMoney(x, 119))
    <3>1. x \in Int /\ 119 \in Nat \ {0}
      BY <2>1 DEF x
    <3> QED BY <3>1, MoneyBounds
  <2>3. net = ToMoney(x, 119)
    BY DEF Net, x
  <2> HIDE DEF net
  <2> QED BY <2>2, <2>3 DEF x
<1>2. SplitIvaIncluded(total) = [net |-> net, tax |-> total - net, total |-> total]
  BY DEF SplitIvaIncluded
<1> HIDE DEF net
<1>3. Distance(100 * (total - net), 19 * net) <= 100
  BY <1>1 DEF Distance
<1> QED BY <1>1, <1>2, <1>3

\* The header of a document and the sum of its lines, with and without the tax.
LEMMA LinesFollowHeader ==
    ASSUME NEW S, IsFiniteSet(S), NEW t, \A x \in S : t[x] \in Int
    PROVE  LET total == Pesos(SumFunctionOnSet(t, S))
               gross == SumFunctionOnSet([x \in S |-> Pesos(t[x])], S)
               net   == SumFunctionOnSet([x \in S |-> Net(t[x])], S)
           IN  /\ SumFunctionOnSet(t, S) \in Int /\ total \in Int
               /\ gross \in Int /\ net \in Int /\ Cardinality(S) \in Nat
               /\ 200 * total <= 2 * SumFunctionOnSet(t, S) + 100
               /\ 2 * SumFunctionOnSet(t, S) - 100 < 200 * total
               /\ 2 * Distance(gross, total) <= Cardinality(S) + 2
               /\ 2 * Distance(net, SplitIvaIncluded(total).net) <= Cardinality(S) + 2
<1> DEFINE T == SumFunctionOnSet(t, S)
           total == Pesos(T)
           p == [x \in S |-> Pesos(t[x])]
           m == [x \in S |-> Net(t[x])]
           gross == SumFunctionOnSet(p, S)
           net == SumFunctionOnSet(m, S)
           n == Cardinality(S)
<1>1. 100 \in Nat \ {0} /\ 119 \in Nat \ {0}
  OBVIOUS
<1>2. \A x \in S : /\ t[x] \in Int /\ p[x] \in Int
                   /\ 2 * (100 * p[x]) <= 2 * t[x] + 100
                   /\ 2 * t[x] - 100 <= 2 * (100 * p[x])
  <2> SUFFICES ASSUME NEW x \in S
               PROVE  /\ t[x] \in Int /\ p[x] \in Int
                      /\ 2 * (100 * p[x]) <= 2 * t[x] + 100
                      /\ 2 * t[x] - 100 <= 2 * (100 * p[x])
    OBVIOUS
  <2>1. p[x] = ToMoney(t[x], 100) /\ t[x] \in Int
    BY DEF Pesos
  <2> HIDE DEF p
  <2>2. /\ ToMoney(t[x], 100) \in Int
        /\ 2 * (100 * ToMoney(t[x], 100)) <= 2 * t[x] + 100
        /\ 2 * t[x] - 100 < 2 * (100 * ToMoney(t[x], 100))
    BY <1>1, <2>1, MoneyBounds
  <2> QED BY <2>1, <2>2
<1>3. \A x \in S : /\ t[x] \in Int /\ m[x] \in Int
                   /\ 2 * (119 * m[x]) <= 2 * t[x] + 119
                   /\ 2 * t[x] - 119 <= 2 * (119 * m[x])
  <2> SUFFICES ASSUME NEW x \in S
               PROVE  /\ t[x] \in Int /\ m[x] \in Int
                      /\ 2 * (119 * m[x]) <= 2 * t[x] + 119
                      /\ 2 * t[x] - 119 <= 2 * (119 * m[x])
    OBVIOUS
  <2>1. m[x] = ToMoney(t[x], 119) /\ t[x] \in Int
    BY DEF Net
  <2> HIDE DEF m
  <2>2. /\ ToMoney(t[x], 119) \in Int
        /\ 2 * (119 * ToMoney(t[x], 119)) <= 2 * t[x] + 119
        /\ 2 * t[x] - 119 < 2 * (119 * ToMoney(t[x], 119))
    BY <1>1, <2>1, MoneyBounds
  <2> QED BY <2>1, <2>2
<1> HIDE DEF p, m
<1>4. /\ T \in Int /\ gross \in Int /\ n \in Nat
      /\ 2 * (100 * gross) <= 2 * T + 100 * n
      /\ 2 * T - 100 * n <= 2 * (100 * gross)
  BY <1>1, <1>2, RoundedSum
<1>5. /\ net \in Int
      /\ 2 * (119 * net) <= 2 * T + 119 * n
      /\ 2 * T - 119 * n <= 2 * (119 * net)
  BY <1>1, <1>3, RoundedSum
<1> HIDE DEF T, gross, net, n
<1>6. /\ total \in Int /\ 2 * (100 * total) <= 2 * T + 100
      /\ 2 * T - 100 < 2 * (100 * total)
  BY <1>1, <1>4, MoneyBounds DEF Pesos
<1> HIDE DEF total
<1> DEFINE head == SplitIvaIncluded(total).net
<1>7. head \in Int /\ 238 * head <= 200 * total + 119 /\ 200 * total - 119 <= 238 * head
  BY <1>6, HeaderSplits
<1> HIDE DEF head
<1>8. 2 * Distance(gross, total) <= n + 2
  BY <1>4, <1>6 DEF Distance
<1>9. 2 * Distance(net, head) <= n + 2
  BY <1>4, <1>5, <1>6, <1>7 DEF Distance
<1>10. 200 * total <= 2 * T + 100 /\ 2 * T - 100 < 200 * total
  BY <1>4, <1>6
<1> QED BY <1>4, <1>5, <1>6, <1>8, <1>9, <1>10 DEF T, total, p, m, gross, net, n, head

\* The columns of a document are sums over its lines.
LEMMA PayloadSums ==
    ASSUME NEW dte, NEW costs
    PROVE  LET payload == MapToDocumentPayload(dte, costs)
               S == DOMAIN dte.detail
           IN  /\ payload.net = dte.totals.net /\ payload.tax = dte.totals.tax
               /\ payload.total = dte.totals.total
               /\ payload.subtotal
                    = SumFunctionOnSet([i \in S |-> dte.detail[i].MontoItem], S)
               /\ payload.cogsTotal
                    = SumFunctionOnSet([i \in S |-> costs[i] * dte.detail[i].QtyItem], S)
<1> DEFINE S == DOMAIN dte.detail
           items == NormalizedItems(dte)
           amounts == [i \in S |-> dte.detail[i].MontoItem]
           worths == [i \in S |-> costs[i] * dte.detail[i].QtyItem]
<1>1. /\ DOMAIN items = S
      /\ \A i \in S : items[i]["amount"] = dte.detail[i].MontoItem
                        /\ items[i].quantity = dte.detail[i].QtyItem
  BY DEF NormalizedItems
<1>2. MapToDocumentPayload(dte, costs)
        = [subtotal |-> AllOf(items, "amount"), cogsTotal |-> SnapshotItemCosts(items, costs),
           net |-> dte.totals.net, tax |-> dte.totals.tax, total |-> dte.totals.total]
  BY DEF MapToDocumentPayload
<1> HIDE DEF items
<1>3. AllOf(items, "amount") = SumFunctionOnSet(amounts, S)
  <2>1. [i \in DOMAIN items |-> items[i]["amount"]] = amounts
    BY <1>1
  <2>2. DOMAIN amounts = S
    OBVIOUS
  <2>3. AllOf(items, "amount") = SumOf(amounts)
    BY <2>1 DEF AllOf
  <2> HIDE DEF amounts, S
  <2> QED BY <2>2, <2>3, SumOfIs
<1>4. SnapshotItemCosts(items, costs) = SumFunctionOnSet(worths, S)
  <2>1. [i \in DOMAIN items |-> costs[i] * items[i].quantity] = worths
    BY <1>1
  <2>2. DOMAIN worths = S
    OBVIOUS
  <2>3. SnapshotItemCosts(items, costs) = SumOf(worths)
    BY <2>1 DEF SnapshotItemCosts
  <2> HIDE DEF worths, S
  <2> QED BY <2>2, <2>3, SumOfIs
<1> QED BY <1>2, <1>3, <1>4

\* A document that charges the amounts t, each rounded on its line.
LEMMA ChargedAddsUp ==
    ASSUME NEW S, IsFiniteSet(S), NEW t, \A x \in S : t[x] \in Int,
           NEW dte, DOMAIN dte.detail = S,
           dte.totals = SplitIvaIncluded(Pesos(SumFunctionOnSet(t, S))), NEW costs
    PROVE  LET payload == MapToDocumentPayload(dte, costs)
               n == Cardinality(S)
           IN  /\ payload.total = Pesos(SumFunctionOnSet(t, S))
               /\ (\A x \in S : dte.detail[x].MontoItem = Pesos(t[x]))
                    => AddsUp(payload, payload.total, n)
               /\ (\A x \in S : dte.detail[x].MontoItem = Net(t[x]))
                    => AddsUp(payload, payload.net, n)
<1> DEFINE payload == MapToDocumentPayload(dte, costs)
           n == Cardinality(S)
           total == Pesos(SumFunctionOnSet(t, S))
           gross == SumFunctionOnSet([x \in S |-> Pesos(t[x])], S)
           net == SumFunctionOnSet([x \in S |-> Net(t[x])], S)
           split == SplitIvaIncluded(total)
           charged == SumFunctionOnSet([i \in S |-> dte.detail[i].MontoItem], S)
<1>1. /\ payload.net = split.net /\ payload.tax = split.tax /\ payload.total = split.total
      /\ payload.subtotal = charged
  BY PayloadSums
<1>2. /\ total \in Int
      /\ 2 * Distance(gross, total) <= n + 2 /\ 2 * Distance(net, split.net) <= n + 2
  BY LinesFollowHeader
<1> HIDE DEF payload, total, n
<1>3. /\ split.total = total /\ split.net + split.tax = total
      /\ Distance(100 * split.tax, 19 * split.net) <= 100
  BY <1>2, HeaderSplits
<1>4. (\A x \in S : dte.detail[x].MontoItem = Pesos(t[x])) => charged = gross
  <2> SUFFICES ASSUME \A x \in S : dte.detail[x].MontoItem = Pesos(t[x]) PROVE charged = gross
    OBVIOUS
  <2>1. [i \in S |-> dte.detail[i].MontoItem] = [x \in S |-> Pesos(t[x])]
    OBVIOUS
  <2> QED BY <2>1
<1>5. (\A x \in S : dte.detail[x].MontoItem = Net(t[x])) => charged = net
  <2> SUFFICES ASSUME \A x \in S : dte.detail[x].MontoItem = Net(t[x]) PROVE charged = net
    OBVIOUS
  <2>1. [i \in S |-> dte.detail[i].MontoItem] = [x \in S |-> Net(t[x])]
    OBVIOUS
  <2> QED BY <2>1
<1> HIDE DEF split, charged, gross, net
<1>6. ASSUME charged = gross PROVE AddsUp(payload, payload.total, n)
  BY <1>1, <1>2, <1>3, <1>6 DEF AddsUp
<1>7. ASSUME charged = net PROVE AddsUp(payload, payload.net, n)
  BY <1>1, <1>2, <1>3, <1>7 DEF AddsUp
<1> QED BY <1>1, <1>3, <1>4, <1>5, <1>6, <1>7 DEF payload, total, n

\* What a sale is made of, and the sale made of it.
ItemsFit(items) ==
    /\ IsFiniteSet(DOMAIN items)
    /\ \A i \in DOMAIN items :
         /\ items[i].quantity \in Nat \ {0} /\ items[i].unitCost \in Int
         /\ items[i].unitPrice \in Int /\ items[i].lineTotal \in Int

SaleFits(sale) ==
    /\ ItemsFit(sale.items) /\ sale.cogsTotal = Cost(sale.items)
    /\ sale.totals = SplitIvaIncluded(Pesos(AllOf(sale.items, "lineTotal")))

LEMMA SalePrepared ==
    ASSUME NEW units, IsFiniteSet(DOMAIN units), NEW lines \in LinesOf(units)
    PROVE  LET sale == BuildPreparedSale(lines)
           IN  /\ SaleFits(sale) /\ DOMAIN sale.items = DOMAIN units
               /\ \A i \in DOMAIN units :
                    /\ sale.items[i].quantity = units[i]
                    /\ sale.items[i].lineTotal = lines[i].currentTotal
                    /\ sale.items[i].unitPrice = ToMoney(lines[i].currentTotal, units[i])
<1> DEFINE items == PreparedItems(lines)
           sale == BuildPreparedSale(lines)
<1>1. DOMAIN lines = DOMAIN units /\ \A i \in DOMAIN units :
        /\ lines[i].quantity \in Nat \ {0} /\ lines[i].quantity = units[i]
        /\ lines[i].unitCost \in Int /\ lines[i].currentTotal \in Int
  BY DEF LinesOf, LineSet
<1>2. DOMAIN items = DOMAIN units /\ \A i \in DOMAIN units :
        /\ items[i].quantity = units[i] /\ items[i].unitCost = lines[i].unitCost
        /\ items[i].unitPrice = ToMoney(lines[i].currentTotal, units[i])
        /\ items[i].lineTotal = lines[i].currentTotal
  BY <1>1 DEF PreparedItems, PreparedItem
<1>3. \A i \in DOMAIN units : ToMoney(lines[i].currentTotal, units[i]) \in Int
  BY <1>1, MoneyBounds
<1> HIDE DEF items
<1>4. ItemsFit(items)
  BY <1>1, <1>2, <1>3 DEF ItemsFit
<1>5. sale.items = items /\ sale.cogsTotal = Cost(items)
      /\ sale.totals = SplitIvaIncluded(Pesos(AllOf(items, "lineTotal")))
  BY DEF BuildPreparedSale, items
<1> QED BY <1>2, <1>4, <1>5 DEF SaleFits

LEMMA AllOfIs ==
    ASSUME NEW items, NEW field
    PROVE  AllOf(items, field)
             = SumFunctionOnSet([i \in DOMAIN items |-> items[i][field]], DOMAIN items)
<1> DEFINE f == [i \in DOMAIN items |-> items[i][field]]
<1>1. AllOf(items, field) = SumOf(f) /\ DOMAIN f = DOMAIN items
  BY DEF AllOf
<1> HIDE DEF f
<1>2. AllOf(items, field) = SumFunctionOnSet(f, DOMAIN items)
  BY <1>1, SumOfIs
<1> QED BY <1>2 DEF f

LEMMA CostIs ==
    ASSUME NEW items
    PROVE  Cost(items) = SumFunctionOnSet([i \in DOMAIN items |->
                            items[i].unitCost * items[i].quantity], DOMAIN items)
<1> DEFINE f == [i \in DOMAIN items |-> items[i].unitCost * items[i].quantity]
<1>1. Cost(items) = SumOf(f) /\ DOMAIN f = DOMAIN items
  BY DEF Cost
<1> HIDE DEF f
<1>2. Cost(items) = SumFunctionOnSet(f, DOMAIN items)
  BY <1>1, SumOfIs
<1> QED BY <1>2 DEF f

\* The boleta and the factura of a sale.
LEMMA SaleDocuments ==
    ASSUME NEW sale, SaleFits(sale), NEW kind \in {33, 39}
    PROVE  LET payload == MapToDocumentPayload(MapSaleToDte(sale, kind), CostsOf(sale))
               n == Cardinality(DOMAIN sale.items)
           IN  /\ payload.total = sale.totals.total /\ payload.cogsTotal = sale.cogsTotal
               /\ kind = 39 => AddsUp(payload, payload.total, n)
               /\ kind = 33 => AddsUp(payload, payload.net, n)
<1> DEFINE items == sale.items
           S == DOMAIN items
           t == [i \in S |-> items[i]["lineTotal"]]
           T == SumFunctionOnSet(t, S)
           dte == MapSaleToDte(sale, kind)
           payload == MapToDocumentPayload(dte, CostsOf(sale))
           n == Cardinality(S)
<1>1. IsFiniteSet(S) /\ \A i \in S : t[i] \in Int /\ t[i] = items[i].lineTotal
  BY DEF SaleFits, ItemsFit
<1>2. sale.totals = SplitIvaIncluded(Pesos(T))
  BY AllOfIs DEF SaleFits
<1>3. sale.totals.total = Pesos(T)
  BY <1>2 DEF SplitIvaIncluded
<1>4. /\ DOMAIN dte.detail = S
      /\ \A i \in S : /\ dte.detail[i].QtyItem = items[i].quantity
                      /\ kind = 39 => dte.detail[i].MontoItem = Pesos(t[i])
                      /\ kind = 33 => dte.detail[i].MontoItem = Net(t[i])
      /\ dte.totals = SplitIvaIncluded(Pesos(T))
  BY <1>1, <1>3 DEF MapSaleToDte, Detail
<1> HIDE DEF t, dte
<1>5. /\ payload.total = Pesos(T)
      /\ (\A x \in S : dte.detail[x].MontoItem = Pesos(t[x])) => AddsUp(payload, payload.total, n)
      /\ (\A x \in S : dte.detail[x].MontoItem = Net(t[x])) => AddsUp(payload, payload.net, n)
  <2> HIDE DEF S
  <2> QED BY <1>1, <1>4, ChargedAddsUp
<1>6. payload.cogsTotal = sale.cogsTotal
  <2> DEFINE costs == CostsOf(sale)
  <2>1. \A i \in S : costs[i] = items[i].unitCost
    BY DEF CostsOf
  <2> HIDE DEF costs
  <2>2. payload.cogsTotal = SumFunctionOnSet([i \in S |-> costs[i] * dte.detail[i].QtyItem], S)
    <3>1. DOMAIN dte.detail = S /\ payload = MapToDocumentPayload(dte, costs)
      BY <1>4 DEF costs
    <3> HIDE DEF S, payload
    <3> QED BY <3>1, PayloadSums
  <2>3. [i \in S |-> costs[i] * dte.detail[i].QtyItem]
          = [i \in S |-> items[i].unitCost * items[i].quantity]
    BY <1>4, <2>1
  <2>4. sale.cogsTotal = SumFunctionOnSet([i \in S |-> items[i].unitCost * items[i].quantity], S)
    BY CostIs DEF SaleFits
  <2> QED BY <2>2, <2>3, <2>4
<1> QED BY <1>3, <1>4, <1>5, <1>6 DEF dte

\* The carts documents are made of are priced, so they are sales.
LEMMA DocumentSale ==
    ASSUME OffersInv, PriceInv, NEW units \in DocumentCarts
    PROVE  /\ SaleFits(SaleOf(units)) /\ DOMAIN SaleOf(units).items = DOMAIN units
           /\ \A i \in DOMAIN units :
                /\ units[i] \in Nat \ {0}
                /\ SaleOf(units).items[i].quantity = units[i]
                /\ \E total \in Int :
                     /\ SaleOf(units).items[i].lineTotal = total
                     /\ SaleOf(units).items[i].unitPrice = ToMoney(total, units[i])
<1> DEFINE store == Item[CHOOSE i \in DOMAIN units : TRUE].store
           lines == Priced(units).lines
<1>1. units \in Carts /\ Priced(units) # Rejected
  BY DEF DocumentCarts
<1>2. IsCart(units) /\ IsFiniteSet(DOMAIN units)
  BY <1>1, ShopAssumption
<1>3. Priced(units) = CalculateCart(now, store, units, NULL)
  BY DEF Priced
<1> HIDE DEF store
<1>4. lines \in LinesOf(units)
  <2>1. CalculateCart(now, store, units, NULL).lines \in LinesOf(units)
    BY <1>1, <1>2, <1>3, CartLines
  <2> QED BY <1>3, <2>1
<1> HIDE DEF lines
<1>5. SaleOf(units) = BuildPreparedSale(lines)
  BY DEF SaleOf, lines
<1>6. \A i \in DOMAIN units : lines[i].currentTotal \in Int /\ units[i] \in Nat \ {0}
  BY <1>2, <1>4 DEF LinesOf, LineSet, IsCart
<1> DEFINE sale == BuildPreparedSale(lines)
<1>7. /\ SaleFits(sale) /\ DOMAIN sale.items = DOMAIN units
      /\ \A i \in DOMAIN units :
           /\ sale.items[i].quantity = units[i]
           /\ sale.items[i].lineTotal = lines[i].currentTotal
           /\ sale.items[i].unitPrice = ToMoney(lines[i].currentTotal, units[i])
  BY <1>2, <1>4, SalePrepared
<1> HIDE DEF sale
<1> QED BY <1>5, <1>6, <1>7 DEF sale

\* A guide is exact line by line.
LEMMA GuideAddsUp ==
    ASSUME NEW sale, SaleFits(sale)
    PROVE  LET guide == MapDispatchGuideToDte(sale.items, TRUE)
               payload == MapToDocumentPayload(guide, CostsOf(sale))
           IN  /\ \A i \in DOMAIN guide.detail :
                    guide.detail[i].MontoItem = guide.detail[i].QtyItem * guide.detail[i].PrcItem
               /\ payload.subtotal = payload.net
               /\ AddsUp(payload, payload.net, Cardinality(DOMAIN sale.items))
<1> DEFINE items == sale.items
           S == DOMAIN items
           guide == MapDispatchGuideToDte(items, TRUE)
           payload == MapToDocumentPayload(guide, CostsOf(sale))
           detail == [i \in S |-> ComputeLineNetAmounts(items[i].quantity, items[i].lineTotal)]
           amounts == [i \in S |-> detail[i].MontoItem]
           net == SumFunctionOnSet(amounts, S)
           tax == Pesos(19 * net)
           n == Cardinality(S)
<1>1. ASSUME NEW i \in S
      PROVE  /\ detail[i].MontoItem \in Int
             /\ detail[i].MontoItem = detail[i].QtyItem * detail[i].PrcItem
  <2> DEFINE q == items[i].quantity
             x == items[i].lineTotal
             p == ToMoney(Net(x), q)
  <2>1. q \in Nat \ {0} /\ x \in Int
    BY DEF SaleFits, ItemsFit
  <2>2. Net(x) \in Int
    <3>1. 119 \in Nat \ {0}
      OBVIOUS
    <3> HIDE DEF x
    <3> QED BY <2>1, <3>1, MoneyBounds DEF Net
  <2>3. p \in Int
    <3> HIDE DEF x, q
    <3> QED BY <2>1, <2>2, MoneyBounds
  <2>4. detail[i] = [QtyItem |-> q, PrcItem |-> p, MontoItem |-> p * q]
    BY DEF ComputeLineNetAmounts, Detail
  <2> HIDE DEF detail, q, p
  <2>5. p * q \in Int /\ p * q = q * p
    BY <2>1, <2>3
  <2> QED BY <2>4, <2>5
<1>2. guide.detail = detail /\ guide.totals = ComputeGuideTotals(detail)
  BY DEF MapDispatchGuideToDte
<1>3. IsFiniteSet(S) /\ n \in Nat
  BY FS_CardinalityType DEF SaleFits, ItemsFit
<1>4. DOMAIN detail = S /\ \A i \in S : amounts[i] = detail[i].MontoItem /\ amounts[i] \in Int
  BY <1>1
<1> HIDE DEF detail, guide
<1>5. net = AllOf(detail, "MontoItem")
  <2>1. [i \in DOMAIN detail |-> detail[i]["MontoItem"]] = amounts
    BY <1>4
  <2> QED BY <1>4, <2>1, AllOfIs
<1>6. guide.totals = [net |-> net, tax |-> tax, total |-> net + tax]
  BY <1>2, <1>5 DEF ComputeGuideTotals
<1>7. net \in Int
  <2> HIDE DEF amounts
  <2> QED BY <1>3, <1>4, SumInt
<1>8. payload.subtotal = net /\ payload.net = net /\ payload.tax = tax /\ payload.total = net + tax
  <2> DEFINE costs == CostsOf(sale)
  <2>1. DOMAIN guide.detail = S /\ amounts = [i \in S |-> guide.detail[i].MontoItem]
    BY <1>2, <1>4
  <2> HIDE DEF amounts, costs, S, net
  <2>2. /\ payload.net = guide.totals.net /\ payload.tax = guide.totals.tax
        /\ payload.total = guide.totals.total
        /\ payload.subtotal = SumFunctionOnSet([i \in S |-> guide.detail[i].MontoItem], S)
    BY <2>1, PayloadSums DEF costs
  <2> HIDE DEF payload
  <2>3. payload.net = net /\ payload.tax = tax /\ payload.total = net + tax
    BY <1>6, <2>2
  <2>4. payload.subtotal = net
    BY <2>1, <2>2 DEF net
  <2> QED BY <2>3, <2>4
<1> HIDE DEF net, amounts, n, payload
<1>9. tax \in Int /\ 200 * tax <= 38 * net + 100 /\ 38 * net - 100 <= 200 * tax
  <2> DEFINE x == 19 * net
  <2>1. x \in Int /\ 100 \in Nat \ {0}
    BY <1>7
  <2> HIDE DEF x
  <2>2. /\ ToMoney(x, 100) \in Int
        /\ 2 * (100 * ToMoney(x, 100)) <= 2 * x + 100
        /\ 2 * x - 100 < 2 * (100 * ToMoney(x, 100))
    BY <2>1, MoneyBounds
  <2>3. tax = ToMoney(x, 100)
    BY DEF Pesos, x
  <2> HIDE DEF tax
  <2> QED BY <1>7, <2>2, <2>3 DEF x
<1> HIDE DEF tax
<1>10. AddsUp(payload, payload.net, n)
  BY <1>3, <1>7, <1>8, <1>9 DEF AddsUp, Distance
<1> QED BY <1>1, <1>2, <1>4, <1>8, <1>10 DEF guide, payload, n

\* Once or twice the same amount.
LEMMA SumTimes ==
    ASSUME NEW m \in {1, 2}, NEW v \in Int, NEW f, \A g \in 1..m : f[g] = v
    PROVE  SumFunctionOnSet(f, 1..m) = m * v
<1>1. IsFiniteSet({}) /\ IsFiniteSet({1})
  BY FS_EmptySet, FS_Singleton
<1>2. SumFunctionOnSet(f, {1}) = v
  <2>1. SumFunctionOnSet(f, {} \cup {1}) = f[1] + SumFunctionOnSet(f, {})
    <3>1. 1 \notin {} /\ \A y \in {} \cup {1} : f[y] \in Int
      OBVIOUS
    <3> QED BY <1>1, <3>1, SumAdd
  <2>2. {} \cup {1} = {1} /\ f[1] = v
    OBVIOUS
  <2> QED BY <2>1, <2>2, SumEmpty
<1>3. CASE m = 1
  <2>1. 1..m = {1}
    BY <1>3
  <2> QED BY <1>2, <1>3, <2>1
<1>4. CASE m = 2
  <2>1. 1..m = {1} \cup {2} /\ f[2] = v /\ f[1] = v
    BY <1>4
  <2>2. SumFunctionOnSet(f, {1} \cup {2}) = f[2] + SumFunctionOnSet(f, {1})
    <3>1. 2 \notin {1} /\ \A y \in {1} \cup {2} : f[y] \in Int
      BY <2>1
    <3> QED BY <1>1, <3>1, SumAdd
  <2> QED BY <1>2, <1>4, <2>1, <2>2
<1> QED BY <1>3, <1>4

\* What the lines of an invoice of guides over the items are named by.
Keys(items) == {<<i, items[i].unitPrice>> : i \in DOMAIN items}

\* Guides over the same items, consolidated: a line for each, with their units
\* and amounts together.
LEMMA ConsolidatedIs ==
    ASSUME NEW items, ItemsFit(items), NEW m \in {1, 2}, NEW guides,
           DOMAIN guides = 1..m, \A g \in 1..m : guides[g] = items
    PROVE  /\ DOMAIN Consolidated(guides) = Keys(items)
           /\ \A k \in Keys(items) :
                /\ Consolidated(guides)[k].quantity = m * items[k[1]].quantity
                /\ Consolidated(guides)[k].lineTotal = m * items[k[1]].lineTotal
<1> DEFINE S == DOMAIN items
           K == Keys(items)
           keys == UNION {{<<i, guides[g][i].unitPrice>> : i \in DOMAIN guides[g]}
                            : g \in DOMAIN guides}
           from(k) == {g \in DOMAIN guides :
                         k[1] \in DOMAIN guides[g] /\ <<k[1], guides[g][k[1]].unitPrice>> = k}
           Total(k, field) == SumOf([g \in from(k) |-> guides[g][k[1]][field]])
<1>1. Consolidated(guides)
        = [k \in keys |-> [unitPrice |-> k[2], quantity |-> Total(k, "quantity"),
                           lineTotal |-> Total(k, "lineTotal")]]
  BY DEF Consolidated
<1>2. keys = K
  <2>1. 1 \in DOMAIN guides
    OBVIOUS
  <2>2. \A g \in DOMAIN guides :
          {<<i, guides[g][i].unitPrice>> : i \in DOMAIN guides[g]} = K
    BY DEF Keys
  <2> QED BY <2>1, <2>2
<1>3. ASSUME NEW k \in K, NEW field \in {"quantity", "lineTotal"}
      PROVE  Total(k, field) = m * items[k[1]][field]
  <2>1. PICK i \in S : k = <<i, items[i].unitPrice>>
    BY DEF Keys
  <2>2. k[1] = i
    BY <2>1
  <2>3. from(k) = 1..m
    BY <2>1, <2>2
  <2> DEFINE f == [g \in from(k) |-> guides[g][k[1]][field]]
             v == items[i][field]
  <2>4. DOMAIN f = 1..m /\ \A g \in 1..m : f[g] = v
    BY <2>2, <2>3
  <2>5. v \in Int
    BY DEF ItemsFit
  <2>6. Total(k, field) = SumOf(f)
    OBVIOUS
  <2> HIDE DEF f, v, Total
  <2>7. SumOf(f) = SumFunctionOnSet(f, 1..m)
    BY <2>4, SumOfIs
  <2>8. SumFunctionOnSet(f, 1..m) = m * v
    BY <2>4, <2>5, SumTimes
  <2> QED BY <2>2, <2>6, <2>7, <2>8 DEF v
<1> HIDE DEF keys, Total
<1>4. \A k \in K : /\ Total(k, "quantity") = m * items[k[1]].quantity
                   /\ Total(k, "lineTotal") = m * items[k[1]].lineTotal
  BY <1>3
<1> QED BY <1>1, <1>2, <1>4

\* The invoice of one guide over the items of a sale, or of two.
LEMMA InvoiceAddsUp ==
    ASSUME NEW sale, SaleFits(sale), NEW m \in {1, 2}, NEW guides,
           DOMAIN guides = 1..m, \A g \in 1..m : guides[g] = sale.items
    PROVE  LET dte     == InvoiceOfGuides(guides)
               costs   == [k \in DOMAIN dte.detail |-> sale.items[k[1]].unitCost]
               invoice == MapToDocumentPayload(dte, costs)
           IN  /\ AddsUp(invoice, invoice.net, Cardinality(DOMAIN sale.items))
               /\ invoice.cogsTotal = m * sale.cogsTotal
               /\ Distance(invoice.total, m * sale.totals.total) < m
<1> DEFINE items == sale.items
           S == DOMAIN items
           K == {<<i, items[i].unitPrice>> : i \in S}
           both == Consolidated(guides)
           dte == InvoiceOfGuides(guides)
           costs == [k \in DOMAIN dte.detail |-> items[k[1]].unitCost]
           invoice == MapToDocumentPayload(dte, costs)
           key == [i \in S |-> <<i, items[i].unitPrice>>]
           t == [i \in S |-> items[i]["lineTotal"]]
           T == SumFunctionOnSet(t, S)
           u == [k \in K |-> m * items[k[1]].lineTotal]
           U == SumFunctionOnSet(u, K)
<1>1. /\ IsFiniteSet(S) /\ DOMAIN t = S
      /\ \A i \in S : /\ t[i] \in Int /\ t[i] = items[i].lineTotal
                      /\ items[i].quantity \in Int /\ items[i].unitCost \in Int
  BY DEF SaleFits, ItemsFit
<1>2. /\ DOMAIN both = K
      /\ \A k \in K : /\ both[k].quantity = m * items[k[1]].quantity
                      /\ both[k].lineTotal = m * items[k[1]].lineTotal
  <2>1. ItemsFit(items) /\ DOMAIN guides = 1..m /\ \A g \in 1..m : guides[g] = items
    BY DEF SaleFits
  <2>2. K = Keys(items)
    BY DEF Keys
  <2> HIDE DEF items, K, costs, dte, invoice, key, t, T, u, U
  <2> QED BY <2>1, <2>2, ConsolidatedIs DEF both
<1>3. /\ {key[i] : i \in S} = K
      /\ \A i, j \in S : key[i] = key[j] => i = j
      /\ \A i \in S : key[i] \in K /\ key[i][1] = i
  OBVIOUS
<1>4. IsFiniteSet(K) /\ Cardinality(K) = Cardinality(S)
  <2>1. key \in Surjection(S, K) /\ key \in Injection(S, K)
    <3>1. key \in [S -> K]
      OBVIOUS
    <3> HIDE DEF key, K
    <3> QED BY <1>3, <3>1 DEF Surjection, Injection, IsInjective
  <2> HIDE DEF key, K
  <2> QED BY <1>1, <2>1, FS_Surjection
<1>5. \A k \in K : k[1] \in S /\ u[k] = m * t[k[1]] /\ u[k] \in Int
  <2> SUFFICES ASSUME NEW k \in K PROVE k[1] \in S /\ u[k] = m * t[k[1]] /\ u[k] \in Int
    OBVIOUS
  <2>1. k[1] \in S
    BY <1>3
  <2>2. t[k[1]] \in Int /\ t[k[1]] = items[k[1]].lineTotal
    BY <1>1, <2>1
  <2>3. u[k] = m * t[k[1]]
    BY <2>2
  <2>4. ASSUME NEW x \in Int PROVE m * x \in Int
    OBVIOUS
  <2> QED BY <2>1, <2>2, <2>3, <2>4
<1>6. /\ DOMAIN dte.detail = K
      /\ \A k \in K : /\ dte.detail[k].QtyItem = m * items[k[1]].quantity
                      /\ dte.detail[k].MontoItem = Net(u[k])
      /\ dte.totals = SplitIvaIncluded(Pesos(AllOf(both, "lineTotal")))
  <2>1. DOMAIN both = K /\ \A k \in K : both[k].quantity = m * items[k[1]].quantity
                                          /\ both[k].lineTotal = u[k]
    BY <1>2
  <2> HIDE DEF both, K, u
  <2> QED BY <2>1 DEF InvoiceOfGuides, Detail, both
<1>7. AllOf(both, "lineTotal") = U
  <2>1. DOMAIN both = K /\ [k \in K |-> both[k]["lineTotal"]] = u
    BY <1>2
  <2> HIDE DEF both, K, u
  <2> QED BY <2>1, AllOfIs
<1> HIDE DEF both, dte
<1>8. U = m * T /\ T \in Int
  <2> DEFINE h == [i \in S |-> u[key[i]]]
  <2>1. \A i \in S : u[key[i]] \in Int /\ h[i] = m * t[i]
    BY <1>3, <1>5
  <2>2. SumFunctionOnSet(u, {key[i] : i \in S}) = SumFunctionOnSet(h, S)
    <3> HIDE DEF u, key, S
    <3> QED BY <1>1, <1>3, <2>1, SumImage
  <2> HIDE DEF h, u, key, K, t
  <2>3. SumFunctionOnSet(h, S) = m * T
    BY <1>1, <2>1, SumScaled
  <2>4. T \in Int
    BY <1>1, SumInt
  <2> QED BY <1>3, <2>2, <2>3, <2>4
<1>9. AddsUp(invoice, invoice.net, Cardinality(S)) /\ invoice.total = Pesos(U)
  <2> DEFINE k == Cardinality(K)
  <2>1. /\ IsFiniteSet(K) /\ \A x \in K : u[x] \in Int
        /\ DOMAIN dte.detail = K /\ \A x \in K : dte.detail[x].MontoItem = Net(u[x])
        /\ dte.totals = SplitIvaIncluded(Pesos(U))
    BY <1>4, <1>5, <1>6, <1>7
  <2> HIDE DEF u, K, costs
  <2>2. AddsUp(invoice, invoice.net, k) /\ invoice.total = Pesos(U)
    BY <2>1, ChargedAddsUp
  <2>3. k = Cardinality(S)
    BY <1>4
  <2> HIDE DEF invoice, k, S, U
  <2> QED BY <2>2, <2>3
<1>10. invoice.cogsTotal = m * sale.cogsTotal
  <2> DEFINE worth == [i \in S |-> items[i].unitCost * items[i].quantity]
             sold == [k \in K |-> costs[k] * dte.detail[k].QtyItem]
             h == [i \in S |-> sold[key[i]]]
  <2>1. invoice.cogsTotal = SumFunctionOnSet(sold, K)
    BY <1>6, PayloadSums
  <2>2. ASSUME NEW i \in S
        PROVE  sold[key[i]] = m * worth[i] /\ worth[i] \in Int /\ h[i] = m * worth[i]
    <3>1. costs[key[i]] = items[i].unitCost
      BY <1>3, <1>6
    <3>2. dte.detail[key[i]].QtyItem = m * items[i].quantity
      BY <1>3, <1>6
    <3>3. sold[key[i]] = items[i].unitCost * (m * items[i].quantity)
      BY <1>3, <3>1, <3>2
    <3>4. items[i].unitCost \in Int /\ items[i].quantity \in Int
      BY <1>1
    <3> DEFINE x == items[i].unitCost
               y == items[i].quantity
    <3>5. x * (m * y) = m * (x * y) /\ x * y \in Int
      <4>1. x \in Int /\ y \in Int
        BY <3>4
      <4> HIDE DEF x, y
      <4> QED BY <4>1
    <3>6. h[i] = sold[key[i]]
      OBVIOUS
    <3> HIDE DEF sold, h, key
    <3> QED BY <3>3, <3>5, <3>6
  <2>3. \A i \in S : sold[key[i]] \in Int
    <3> SUFFICES ASSUME NEW i \in S PROVE sold[key[i]] \in Int
      OBVIOUS
    <3>1. sold[key[i]] = m * worth[i] /\ worth[i] \in Int
      BY <2>2
    <3> HIDE DEF sold, worth, key
    <3> QED BY <3>1
  <2>4. SumFunctionOnSet(sold, {key[i] : i \in S}) = SumFunctionOnSet(h, S)
    <3> HIDE DEF sold, key, S
    <3> QED BY <1>1, <1>3, <2>3, SumImage
  <2>5. \A i \in S : worth[i] \in Int /\ h[i] = m * worth[i]
    BY <2>2
  <2>6. sale.cogsTotal = SumFunctionOnSet(worth, S)
    BY CostIs DEF SaleFits
  <2> HIDE DEF worth, sold, h, key, K
  <2>7. SumFunctionOnSet(h, S) = m * SumFunctionOnSet(worth, S)
    BY <1>1, <2>5, SumScaled
  <2> QED BY <1>3, <2>1, <2>4, <2>6, <2>7
<1>11. sale.totals.total = Pesos(T)
  <2>1. AllOf(items, "lineTotal") = T
    BY AllOfIs
  <2> QED BY <2>1 DEF SaleFits, SplitIvaIncluded
<1> HIDE DEF T, U, invoice
<1>12. Distance(Pesos(U), m * Pesos(T)) < m
  <2>1. 100 \in Nat \ {0}
    OBVIOUS
  <2>2. /\ Pesos(T) \in Int /\ 2 * (100 * Pesos(T)) <= 2 * T + 100
        /\ 2 * T - 100 < 2 * (100 * Pesos(T))
    BY <1>8, <2>1, MoneyBounds DEF Pesos
  <2>3. U \in Int
    BY <1>8
  <2>4. /\ Pesos(U) \in Int /\ 2 * (100 * Pesos(U)) <= 2 * U + 100
        /\ 2 * U - 100 < 2 * (100 * Pesos(U))
    BY <2>1, <2>3, MoneyBounds DEF Pesos
  <2>5. CASE m = 1
    <3>1. U = T
      BY <1>8, <2>5
    <3> QED BY <2>2, <2>5, <3>1 DEF Distance
  <2>6. CASE m = 2
    BY <1>8, <2>2, <2>4, <2>6 DEF Distance
  <2> QED BY <2>5, <2>6
<1> QED BY <1>9, <1>10, <1>11, <1>12 DEF invoice, dte, costs

\* Whatever offers priced a cart, its sale, its boleta, its factura, its guide and
\* the invoice of one or two such guides agree to the peso the rounding allows.
THEOREM DocumentsAlwaysAddUp == ShopSpec => []DocumentsAddUp
<1>1. OffersInv /\ PriceInv => DocumentsAddUp
  <2> SUFFICES ASSUME OffersInv, PriceInv, NEW units \in DocumentCarts
               PROVE
        LET sale    == SaleOf(units)
            n       == Cardinality(DOMAIN units)
            boleta  == MapToDocumentPayload(MapSaleToDte(sale, 39), CostsOf(sale))
            factura == MapToDocumentPayload(MapSaleToDte(sale, 33), CostsOf(sale))
            guide   == MapDispatchGuideToDte(sale.items, TRUE)
        IN  /\ AddsUp(boleta, boleta.total, n) /\ AddsUp(factura, factura.net, n)
            /\ {boleta.total, factura.total} = {sale.totals.total}
            /\ \A guides \in {<<sale.items>>, <<sale.items, sale.items>>} :
                  LET dte     == InvoiceOfGuides(guides)
                      costs   == [k \in DOMAIN dte.detail |-> sale.items[k[1]].unitCost]
                      invoice == MapToDocumentPayload(dte, costs)
                  IN  /\ AddsUp(invoice, invoice.net, n)
                      /\ invoice.cogsTotal = Len(guides) * sale.cogsTotal
                      /\ Distance(invoice.total, Len(guides) * sale.totals.total) < Len(guides)
            /\ {boleta.cogsTotal, factura.cogsTotal} = {sale.cogsTotal}
            /\ \A i \in DOMAIN guide.detail :
                  guide.detail[i].MontoItem = guide.detail[i].QtyItem * guide.detail[i].PrcItem
            /\ LET payload == MapToDocumentPayload(guide, CostsOf(sale))
               IN  payload.subtotal = payload.net /\ AddsUp(payload, payload.net, n)
    BY DEF DocumentsAddUp
  <2> DEFINE sale == SaleOf(units)
             n == Cardinality(DOMAIN units)
  <2>1. SaleFits(sale) /\ DOMAIN sale.items = DOMAIN units
    BY DocumentSale
  <2> HIDE DEF sale
  <2>2. ASSUME NEW kind \in {33, 39}
        PROVE  LET payload == MapToDocumentPayload(MapSaleToDte(sale, kind), CostsOf(sale))
               IN  /\ payload.total = sale.totals.total /\ payload.cogsTotal = sale.cogsTotal
                   /\ kind = 39 => AddsUp(payload, payload.total, n)
                   /\ kind = 33 => AddsUp(payload, payload.net, n)
    BY <2>1, SaleDocuments
  <2>3. LET guide == MapDispatchGuideToDte(sale.items, TRUE)
            payload == MapToDocumentPayload(guide, CostsOf(sale))
        IN  /\ \A i \in DOMAIN guide.detail :
                 guide.detail[i].MontoItem = guide.detail[i].QtyItem * guide.detail[i].PrcItem
            /\ payload.subtotal = payload.net
            /\ AddsUp(payload, payload.net, n)
    BY <2>1, GuideAddsUp
  <2>4. ASSUME NEW guides \in {<<sale.items>>, <<sale.items, sale.items>>}
        PROVE  LET dte     == InvoiceOfGuides(guides)
                   costs   == [k \in DOMAIN dte.detail |-> sale.items[k[1]].unitCost]
                   invoice == MapToDocumentPayload(dte, costs)
               IN  /\ AddsUp(invoice, invoice.net, n)
                   /\ invoice.cogsTotal = Len(guides) * sale.cogsTotal
                   /\ Distance(invoice.total, Len(guides) * sale.totals.total) < Len(guides)
    <3> DEFINE m == Len(guides)
    <3>1. m \in {1, 2} /\ DOMAIN guides = 1..m /\ \A g \in 1..m : guides[g] = sale.items
      OBVIOUS
    <3> HIDE DEF m
    <3>2. LET dte     == InvoiceOfGuides(guides)
              costs   == [k \in DOMAIN dte.detail |-> sale.items[k[1]].unitCost]
              invoice == MapToDocumentPayload(dte, costs)
          IN  /\ AddsUp(invoice, invoice.net, Cardinality(DOMAIN sale.items))
              /\ invoice.cogsTotal = m * sale.cogsTotal
              /\ Distance(invoice.total, m * sale.totals.total) < m
      BY <2>1, <3>1, InvoiceAddsUp
    <3> QED BY <2>1, <3>2 DEF m
  <2> HIDE DEF n
  <2>5. 33 \in {33, 39} /\ 39 \in {33, 39}
    OBVIOUS
  <2> DEFINE boleta == MapToDocumentPayload(MapSaleToDte(sale, 39), CostsOf(sale))
             factura == MapToDocumentPayload(MapSaleToDte(sale, 33), CostsOf(sale))
  <2>6. /\ boleta.total = sale.totals.total /\ boleta.cogsTotal = sale.cogsTotal
        /\ AddsUp(boleta, boleta.total, n)
    BY <2>2, <2>5
  <2>7. /\ factura.total = sale.totals.total /\ factura.cogsTotal = sale.cogsTotal
        /\ AddsUp(factura, factura.net, n)
    BY <2>2, <2>5
  <2> QED BY <2>3, <2>4, <2>6, <2>7 DEF sale, n
<1> QED BY <1>1, OffersHold, PricesHold, PTL

-----------------------------------------------------------------------------
(* What comes back of a sale. *)

\* Rounding keeps the order.
LEMMA MoneyMonotone ==
    ASSUME NEW a \in Int, NEW b \in Int, a <= b, NEW d \in Nat \ {0}
    PROVE  ToMoney(a, d) <= ToMoney(b, d)
<1> DEFINE x == ToMoney(a, d)
           y == ToMoney(b, d)
<1>1. /\ x \in Int /\ y \in Int
      /\ 2 * (d * x) <= 2 * a + d /\ 2 * b - d < 2 * (d * y)
  BY MoneyBounds
<1> HIDE DEF x, y
<1> DEFINE z == x - y
<1>2. z \in Int /\ x = y + z
  BY <1>1
<1> HIDE DEF z
<1>3. d * x = d * y + d * z /\ d * y \in Int /\ d * z \in Int
  BY <1>1, <1>2
<1>4. z >= 1 => d * z >= d
  BY <1>2
<1>5. z <= 0
  BY <1>1, <1>2, <1>3, <1>4
<1> QED BY <1>1, <1>2, <1>5 DEF x, y

LEMMA PesosBounds ==
    ASSUME NEW x \in Int
    PROVE  Pesos(x) \in Int /\ 200 * Pesos(x) <= 2 * x + 100 /\ 2 * x - 100 <= 200 * Pesos(x)
<1> DEFINE y == ToMoney(x, 100)
<1>1. 100 \in Nat \ {0}
  OBVIOUS
<1>2. y \in Int /\ 2 * (100 * y) <= 2 * x + 100 /\ 2 * x - 100 < 2 * (100 * y)
  BY <1>1, MoneyBounds
<1> HIDE DEF y
<1>3. y \in Int /\ 200 * y <= 2 * x + 100 /\ 2 * x - 100 <= 200 * y
  BY <1>2
<1> QED BY <1>3 DEF y, Pesos

LEMMA PesosExact == ASSUME NEW x \in Int PROVE Pesos(100 * x) = x
<1>1. 100 \in Nat \ {0}
  OBVIOUS
<1> QED BY <1>1, MoneyExact DEF Pesos

\* What a return is made of, and its credit note, which adds up.
LEMMA CreditAddsUp ==
    ASSUME NEW sale, NEW back, IsFiniteSet(DOMAIN back), NEW l, NEW costs,
           \A i \in DOMAIN back :
              l[i] = Pesos(sale.items[i].unitPrice * back[i]) /\ l[i] \in Int
    PROVE  LET ret    == PreparedReturn(sale, back)
               credit == MapToDocumentPayload(MapReturnToNce(ret), costs)
           IN  /\ ret.totals.total = SumFunctionOnSet(l, DOMAIN back)
               /\ credit.total = ret.totals.total
               /\ AddsUp(credit, credit.net, Cardinality(DOMAIN back))
<1> DEFINE S == DOMAIN back
           items == BuildPreparedItems(sale, back)
           ret == PreparedReturn(sale, back)
           dte == MapReturnToNce(ret)
           credit == MapToDocumentPayload(dte, costs)
           L == SumFunctionOnSet(l, S)
           t == [i \in S |-> 100 * l[i]]
           T == SumFunctionOnSet(t, S)
           n == Cardinality(S)
<1>1. DOMAIN items = S /\ \A i \in S : items[i]["lineTotal"] = l[i]
  BY DEF BuildPreparedItems
<1> HIDE DEF items
<1>2. AllOf(items, "lineTotal") = L
  <2> DEFINE k == [i \in S |-> items[i]["lineTotal"]]
  <2>1. AllOf(items, "lineTotal") = SumFunctionOnSet(k, S)
    BY <1>1, AllOfIs
  <2>2. \A i \in S : k[i] = l[i]
    BY <1>1
  <2> HIDE DEF k
  <2>3. SumFunctionOnSet(k, S) = L
    BY <2>2, SumSame
  <2> QED BY <2>1, <2>3
<1> HIDE DEF L
<1>3. /\ ret.items = items /\ ret.returnType = "PARCIAL"
      /\ ret.totals = SplitIvaIncluded(L) /\ ret.totals.total = L
  BY <1>2 DEF PreparedReturn, SplitIvaIncluded, items
<1> HIDE DEF ret
<1>4. /\ DOMAIN dte.detail = S
      /\ \A i \in S : dte.detail[i].MontoItem = Net(100 * l[i])
      /\ dte.totals = SplitIvaIncluded(L)
  BY <1>1, <1>3 DEF MapReturnToNce, Detail
<1> HIDE DEF dte
<1>5. \A i \in S : t[i] = 100 * l[i] /\ t[i] \in Int /\ l[i] \in Int
  OBVIOUS
<1> HIDE DEF t
<1>6. T = 100 * L /\ L \in Int
  <2>1. T = 100 * L
    <3>1. 100 \in Int /\ IsFiniteSet(S) /\ \A i \in S : l[i] \in Int /\ t[i] = 100 * l[i]
      BY <1>5
    <3> HIDE DEF S
    <3>2. SumFunctionOnSet(t, S) = 100 * SumFunctionOnSet(l, S)
      BY <3>1, SumScaled
    <3> QED BY <3>2 DEF L, T
  <2>2. L \in Int
    BY <1>5, SumInt DEF L
  <2> QED BY <2>1, <2>2
<1> HIDE DEF T
<1>7. Pesos(T) = L
  BY <1>6, PesosExact
<1>8. \A i \in S : dte.detail[i].MontoItem = Net(t[i])
  BY <1>4, <1>5
<1>9. dte.totals = SplitIvaIncluded(Pesos(SumFunctionOnSet(t, S)))
  BY <1>4, <1>7 DEF T
<1>10. credit.total = Pesos(SumFunctionOnSet(t, S)) /\ AddsUp(credit, credit.net, n)
  <2> HIDE DEF S
  <2>1. IsFiniteSet(S)
    BY DEF S
  <2> QED BY <1>4, <1>5, <1>8, <1>9, <2>1, ChargedAddsUp
<1>11. credit.total = L
  BY <1>7, <1>10 DEF T
<1> QED BY <1>3, <1>10, <1>11 DEF ret, dte, L

\* The credit note of a discount, exactly.
LEMMA RebateAddsUp ==
    ASSUME NEW total \in Int
    PROVE  LET rebate == MapToDocumentPayload(MapReturnToNce(PreparedDiscount(100 * total)), <<0>>)
           IN  rebate.subtotal = rebate.net /\ AddsUp(rebate, rebate.net, 1)
<1> DEFINE ret == PreparedDiscount(100 * total)
           dte == MapReturnToNce(ret)
           rebate == MapToDocumentPayload(dte, <<0>>)
           split == SplitIvaIncluded(total)
           d == Net(100 * total)
<1>1. /\ ret.returnType = "DESCUENTO" /\ ret.discountAmount = total /\ ret.totals.total = total
  BY PesosExact DEF PreparedDiscount, SplitIvaIncluded
<1> HIDE DEF ret
<1>2. dte.detail = <<Detail(1, d, d)>> /\ dte.totals = split
  BY <1>1 DEF MapReturnToNce
<1>3. split.net = d /\ split.total = total
  BY DEF SplitIvaIncluded
<1>4. /\ split.net \in Int /\ split.tax \in Int /\ split.net + split.tax = total
      /\ Distance(100 * split.tax, 19 * split.net) <= 100
  BY HeaderSplits
<1> HIDE DEF dte, split, d
<1>5. /\ rebate.net = split.net /\ rebate.tax = split.tax /\ rebate.total = split.total
      /\ rebate.subtotal = d
  <2> DEFINE S == DOMAIN dte.detail
             f == [i \in S |-> dte.detail[i].MontoItem]
  <2>1. /\ rebate.net = dte.totals.net /\ rebate.tax = dte.totals.tax
        /\ rebate.total = dte.totals.total /\ rebate.subtotal = SumFunctionOnSet(f, S)
    BY PayloadSums
  <2>2. S = {1} /\ f[1] = d
    BY <1>2 DEF Detail
  <2> HIDE DEF f, S, rebate
  <2>3. SumFunctionOnSet(f, {1}) = d
    <3>1. IsFiniteSet({1}) /\ {1} \ {1} = {} /\ d \in Int
      BY <1>3, <1>4, FS_Singleton
    <3>2. SumFunctionOnSet(f, {1}) = f[1] + SumFunctionOnSet(f, {1} \ {1})
      BY <2>2, <3>1, SumRemove
    <3> QED BY <2>2, <3>1, <3>2, SumEmpty
  <2> QED BY <1>2, <2>1, <2>2, <2>3
<1> HIDE DEF rebate
<1>6. 2 * Distance(rebate.subtotal, rebate.net) <= 1 + 2
  BY <1>3, <1>4, <1>5 DEF Distance
<1> QED BY <1>3, <1>4, <1>5, <1>6 DEF AddsUp, rebate, dte, ret

\* Units q sold for the amounts c: their prices u, what the lines credit together,
\* what a unit of each does, and what its units do one by one.
Credited(S, c, q, u, l, v, w) ==
    \A i \in S : /\ c[i] \in Int /\ q[i] \in Nat \ {0}
                 /\ u[i] = ToMoney(c[i], q[i])
                 /\ l[i] = Pesos(u[i] * q[i])
                 /\ v[i] = Pesos(u[i]) /\ w[i] = q[i] * v[i]

LEMMA ReturnsFollow ==
    ASSUME NEW S, IsFiniteSet(S), NEW c, NEW q, NEW u, NEW l, NEW v, NEW w,
           Credited(S, c, q, u, l, v, w)
    PROVE  LET L     == SumFunctionOnSet(l, S)
               total == Pesos(SumFunctionOnSet(c, S))
               units == SumFunctionOnSet(q, S)
               apart == SumFunctionOnSet(w, S)
               n     == Cardinality(S)
           IN  /\ \A i \in S : l[i] \in Int
               /\ 200 * Distance(L, total) <= 100 * (n + 1) + units
               /\ 200 * Distance(apart, total) <= 100 * (units + 1) + units
               /\ (\A i \in S : c[i] >= 0) => \A i \in S : v[i] <= L
<1> USE DEF Credited
<1> DEFINE x == [i \in S |-> u[i] * q[i]]
           f == [i \in S |-> 2 * x[i]]
           g == [i \in S |-> 2 * c[i]]
           a == [i \in S |-> 200 * w[i]]
           h == [i \in S |-> 100 * q[i]]
<1>1. \A i \in S : /\ x[i] = u[i] * q[i] /\ f[i] = 2 * x[i] /\ g[i] = 2 * c[i]
                   /\ a[i] = 200 * w[i] /\ h[i] = 100 * q[i]
  OBVIOUS
<1> HIDE DEF x, f, g, a, h
<1>2. \A i \in S : /\ c[i] \in Int /\ q[i] \in Nat \ {0} /\ u[i] \in Int /\ x[i] \in Int
                   /\ f[i] \in Int /\ g[i] \in Int /\ h[i] \in Int
                   /\ f[i] <= g[i] + q[i] /\ g[i] <= f[i] + q[i]
  <2> SUFFICES ASSUME NEW i \in S
               PROVE  /\ c[i] \in Int /\ q[i] \in Nat \ {0} /\ u[i] \in Int /\ x[i] \in Int
                      /\ f[i] \in Int /\ g[i] \in Int /\ h[i] \in Int
                      /\ f[i] <= g[i] + q[i] /\ g[i] <= f[i] + q[i]
    OBVIOUS
  <2> DEFINE b == c[i]
             d == q[i]
             m == u[i]
  <2>1. b \in Int /\ d \in Nat \ {0} /\ m = ToMoney(b, d)
    OBVIOUS
  <2>2. x[i] = m * d /\ f[i] = 2 * x[i] /\ g[i] = 2 * b /\ h[i] = 100 * d
    BY <1>1
  <2> HIDE DEF b, d, m
  <2>3. m \in Int /\ 2 * (d * m) <= 2 * b + d /\ 2 * b - d < 2 * (d * m)
    BY <2>1, MoneyBounds
  <2>4. m * d \in Int /\ d * m = m * d
    BY <2>1, <2>3
  <2>5. /\ b \in Int /\ d \in Nat \ {0} /\ m \in Int /\ x[i] \in Int
        /\ f[i] \in Int /\ g[i] \in Int /\ h[i] \in Int
        /\ f[i] <= g[i] + d /\ g[i] <= f[i] + d
    BY <2>1, <2>2, <2>3, <2>4
  <2> QED BY <2>5 DEF b, d, m
<1>3. \A i \in S : l[i] \in Int /\ 2 * (100 * l[i]) <= 2 * x[i] + 100
                                 /\ 2 * x[i] - 100 <= 2 * (100 * l[i])
  <2> SUFFICES ASSUME NEW i \in S
               PROVE  l[i] \in Int /\ 2 * (100 * l[i]) <= 2 * x[i] + 100
                                    /\ 2 * x[i] - 100 <= 2 * (100 * l[i])
    OBVIOUS
  <2>1. l[i] = Pesos(x[i]) /\ x[i] \in Int
    BY <1>1, <1>2
  <2>2. l[i] \in Int /\ 200 * l[i] <= 2 * x[i] + 100 /\ 2 * x[i] - 100 <= 200 * l[i]
    BY <2>1, PesosBounds
  <2> QED BY <2>1, <2>2
<1>4. \A i \in S : /\ v[i] \in Int /\ w[i] \in Int /\ a[i] \in Int
                   /\ a[i] <= f[i] + h[i] /\ f[i] <= a[i] + h[i]
  <2> SUFFICES ASSUME NEW i \in S
               PROVE  /\ v[i] \in Int /\ w[i] \in Int /\ a[i] \in Int
                      /\ a[i] <= f[i] + h[i] /\ f[i] <= a[i] + h[i]
    OBVIOUS
  <2> DEFINE d == q[i]
             m == u[i]
             y == v[i]
  <2>1. /\ d \in Nat \ {0} /\ m \in Int /\ y = Pesos(m) /\ w[i] = d * y
        /\ a[i] = 200 * w[i] /\ f[i] = 2 * (m * d) /\ h[i] = 100 * d
    BY <1>1, <1>2
  <2> HIDE DEF d, m, y
  <2>2. y \in Int /\ 200 * y <= 2 * m + 100 /\ 2 * m - 100 <= 200 * y
    BY <2>1, PesosBounds
  <2> DEFINE hi == 2 * m + 100 - 200 * y
             lo == 200 * y - (2 * m - 100)
  <2>3. hi \in Nat /\ lo \in Nat /\ 200 * y = 2 * m + 100 - hi /\ 200 * y = 2 * m - 100 + lo
    BY <2>1, <2>2
  <2> HIDE DEF hi, lo
  <2>4. d * hi \in Nat /\ d * lo \in Nat /\ d * y \in Int /\ m * d \in Int
    BY <2>1, <2>2, <2>3
  <2>5. 200 * (d * y) = d * (200 * y)
    BY <2>1, <2>2
  <2>6. d * (2 * m + 100 - hi) = 2 * (m * d) + 100 * d - d * hi
    BY <2>1, <2>3
  <2>7. d * (2 * m - 100 + lo) = 2 * (m * d) - 100 * d + d * lo
    BY <2>1, <2>3
  <2>8. /\ 200 * (d * y) = 2 * (m * d) + 100 * d - d * hi
        /\ 200 * (d * y) = 2 * (m * d) - 100 * d + d * lo
    BY <2>3, <2>5, <2>6, <2>7
  <2>9. y \in Int /\ w[i] \in Int /\ a[i] \in Int /\ a[i] <= f[i] + h[i] /\ f[i] <= a[i] + h[i]
    BY <2>1, <2>2, <2>4, <2>8
  <2> QED BY <2>9 DEF y
<1> DEFINE C == SumFunctionOnSet(c, S)
           X == SumFunctionOnSet(x, S)
           L == SumFunctionOnSet(l, S)
           U == SumFunctionOnSet(q, S)
           W == SumFunctionOnSet(w, S)
           total == Pesos(C)
           n == Cardinality(S)
<1>5. C \in Int /\ total \in Int /\ 200 * total <= 2 * C + 100 /\ 2 * C - 100 <= 200 * total
  <2>1. C \in Int
    BY <1>2, SumInt
  <2> QED BY <2>1, PesosBounds
<1>6. /\ X \in Int /\ L \in Int /\ n \in Nat
      /\ 2 * (100 * L) <= 2 * X + 100 * n /\ 2 * X - 100 * n <= 2 * (100 * L)
  <2>1. 100 \in Nat \ {0}
    OBVIOUS
  <2> QED BY <1>2, <1>3, <2>1, RoundedSum
<1>7. /\ SumFunctionOnSet(f, S) = 2 * X /\ SumFunctionOnSet(g, S) = 2 * C
      /\ SumFunctionOnSet(a, S) = 200 * W /\ SumFunctionOnSet(h, S) = 100 * U
  <2>1. SumFunctionOnSet(f, S) = 2 * X
    BY <1>1, <1>2, SumScaled
  <2>2. SumFunctionOnSet(g, S) = 2 * C
    BY <1>1, <1>2, SumScaled
  <2>3. SumFunctionOnSet(a, S) = 200 * W
    BY <1>1, <1>4, SumScaled
  <2>4. SumFunctionOnSet(h, S) = 100 * U
    <3>1. 100 \in Int /\ \A i \in S : q[i] \in Int /\ h[i] = 100 * q[i]
      BY <1>1, <1>2
    <3> QED BY <3>1, SumScaled
  <2> QED BY <2>1, <2>2, <2>3, <2>4
<1>8. U \in Int /\ W \in Int
  <2>1. U \in Int
    BY <1>2, SumInt
  <2>2. W \in Int
    BY <1>4, SumInt
  <2> QED BY <2>1, <2>2
<1>9. 2 * X <= 2 * C + U /\ 2 * C <= 2 * X + U
  <2>1. /\ SumFunctionOnSet(f, S) <= SumFunctionOnSet(g, S) + U
        /\ SumFunctionOnSet(g, S) <= SumFunctionOnSet(f, S) + U
    BY <1>2, SumWithin
  <2> QED BY <1>7, <2>1
<1>10. 200 * W <= 2 * X + 100 * U /\ 2 * X <= 200 * W + 100 * U
  <2>1. /\ SumFunctionOnSet(a, S) <= SumFunctionOnSet(f, S) + SumFunctionOnSet(h, S)
        /\ SumFunctionOnSet(f, S) <= SumFunctionOnSet(a, S) + SumFunctionOnSet(h, S)
    BY <1>2, <1>4, SumWithin
  <2> QED BY <1>7, <2>1
<1>11. ASSUME \A i \in S : c[i] >= 0, NEW i \in S PROVE v[i] <= L
  <2>1. ASSUME NEW j \in S PROVE l[j] \in Nat /\ v[j] <= l[j]
    <3> DEFINE b == c[j]
               d == q[j]
               m == u[j]
    <3>1. /\ b \in Nat /\ d \in Nat \ {0} /\ m = ToMoney(b, d) /\ m \in Int
          /\ l[j] = Pesos(m * d) /\ v[j] = Pesos(m) /\ l[j] \in Int
      BY <1>2, <1>3, <1>11
    <3> HIDE DEF b, d, m
    <3>2. ToMoney(0, d) = 0 /\ Pesos(0) = 0
      <4>1. ToMoney(d * 0, d) = 0 /\ Pesos(100 * 0) = 0
        BY <3>1, MoneyExact, PesosExact
      <4>2. d * 0 = 0 /\ 100 * 0 = 0
        BY <3>1
      <4> QED BY <4>1, <4>2
    <3>3. 0 <= m
      <4>1. 0 \in Int /\ b \in Int /\ 0 <= b
        BY <3>1
      <4> QED BY <3>1, <3>2, <4>1, MoneyMonotone
    <3>4. m * d \in Int /\ m <= m * d /\ 0 <= m * d
      <4>1. m \in Nat /\ d - 1 \in Nat
        BY <3>1, <3>3
      <4> DEFINE e == d - 1
      <4>2. e \in Nat /\ d = e + 1
        BY <3>1, <4>1
      <4> HIDE DEF e
      <4>3. m * e \in Nat /\ m * (e + 1) = m * e + m
        BY <4>1, <4>2
      <4> QED BY <4>1, <4>2, <4>3
    <3> DEFINE z == m * d
    <3>5. z \in Int /\ m <= z /\ 0 <= z /\ l[j] = Pesos(z)
      BY <3>1, <3>4
    <3> HIDE DEF z
    <3>6. 100 \in Nat \ {0} /\ 0 \in Int
      OBVIOUS
    <3>7. Pesos(m) <= Pesos(z)
      BY <3>1, <3>5, <3>6, MoneyMonotone DEF Pesos
    <3>8. Pesos(0) <= Pesos(z)
      BY <3>5, <3>6, MoneyMonotone DEF Pesos
    <3> QED BY <3>1, <3>2, <3>5, <3>7, <3>8
  <2>2. l[i] <= L
    BY <2>1, SumPart
  <2>3. v[i] <= l[i] /\ v[i] \in Int /\ l[i] \in Int
    BY <1>3, <1>4, <2>1
  <2> HIDE DEF L
  <2> QED BY <1>6, <2>2, <2>3
<1> HIDE DEF C, X, L, U, W, total, n
<1>12. 200 * Distance(L, total) <= 100 * (n + 1) + U
  BY <1>5, <1>6, <1>8, <1>9 DEF Distance
<1>13. 200 * Distance(W, total) <= 100 * (U + 1) + U
  BY <1>5, <1>6, <1>8, <1>9, <1>10 DEF Distance
<1> QED BY <1>3, <1>11, <1>12, <1>13 DEF C, L, U, W, total, n

\* Whatever offers priced a cart, what comes back of its sale is credited as it was
\* charged, and its credit notes add up.
THEOREM CreditsAlwaysFollow == ShopSpec => []CreditsFollowTheSale
<1>1. OffersInv /\ PriceInv => CreditsFollowTheSale
  <2> SUFFICES ASSUME OffersInv, PriceInv, NEW units \in DocumentCarts
               PROVE
        LET sale   == SaleOf(units)
            whole  == PreparedReturn(sale, units)
            Unit(i) == PreparedReturn(sale, [j \in {i} |-> 1])
            sold   == AllOf(sale.items, "quantity")
            apart  == SumOf([i \in DOMAIN units |-> units[i] * Unit(i).totals.total])
            n      == Cardinality(DOMAIN units)
            credit == MapToDocumentPayload(MapReturnToNce(whole), CostsOf(sale))
            rebate == MapToDocumentPayload(
                        MapReturnToNce(PreparedDiscount(100 * sale.totals.total)), <<0>>)
        IN  /\ AddsUp(credit, credit.net, n) /\ credit.total = whole.totals.total
            /\ rebate.subtotal = rebate.net /\ AddsUp(rebate, rebate.net, 1)
            /\ 200 * Distance(credit.total, sale.totals.total) <= 100 * (n + 1) + sold
            /\ 200 * Distance(apart, sale.totals.total) <= 100 * (sold + 1) + sold
            /\ (\A i \in DOMAIN units : sale.items[i].lineTotal >= 0) =>
                 \A i \in DOMAIN units : Unit(i).totals.total <= credit.total
    BY DEF CreditsFollowTheSale
  <2> DEFINE S == DOMAIN units
             sale == SaleOf(units)
             items == sale.items
             n == Cardinality(S)
             c == [i \in S |-> items[i]["lineTotal"]]
             q == [i \in S |-> items[i]["quantity"]]
             u == [i \in S |-> items[i].unitPrice]
             l == [i \in S |-> Pesos(u[i] * q[i])]
             v == [i \in S |-> Pesos(u[i])]
             w == [i \in S |-> q[i] * v[i]]
             C == SumFunctionOnSet(c, S)
             total == Pesos(C)
             Unit(i) == PreparedReturn(sale, [j \in {i} |-> 1])
             costs == CostsOf(sale)
             whole == PreparedReturn(sale, units)
             credit == MapToDocumentPayload(MapReturnToNce(whole), costs)
  <2>1. /\ SaleFits(sale) /\ DOMAIN items = S
        /\ \A i \in S :
             /\ units[i] \in Nat \ {0} /\ items[i].quantity = units[i]
             /\ \E t \in Int : items[i].lineTotal = t /\ items[i].unitPrice = ToMoney(t, units[i])
    BY DocumentSale
  <2>2. IsFiniteSet(S)
    BY <2>1 DEF SaleFits, ItemsFit
  <2> HIDE DEF sale, costs
  <2>3. \A i \in S : /\ c[i] = items[i].lineTotal /\ c[i] \in Int
                     /\ q[i] = units[i] /\ q[i] \in Nat \ {0}
                     /\ u[i] = items[i].unitPrice /\ u[i] = ToMoney(c[i], q[i])
                     /\ l[i] = Pesos(u[i] * q[i]) /\ v[i] = Pesos(u[i]) /\ w[i] = q[i] * v[i]
    BY <2>1
  <2>4. sale.totals = SplitIvaIncluded(total) /\ sale.totals.total = total
    <3>1. AllOf(items, "lineTotal") = C
      BY <2>1, AllOfIs
    <3> QED BY <2>1, <3>1 DEF SaleFits, SplitIvaIncluded
  <2>5. AllOf(items, "quantity") = SumFunctionOnSet(q, S)
    BY <2>1, AllOfIs
  <2> HIDE DEF c, q, u, l, v, w, n
  <2>6. /\ \A i \in S : l[i] \in Int
        /\ 200 * Distance(SumFunctionOnSet(l, S), total)
             <= 100 * (n + 1) + SumFunctionOnSet(q, S)
        /\ 200 * Distance(SumFunctionOnSet(w, S), total)
             <= 100 * (SumFunctionOnSet(q, S) + 1) + SumFunctionOnSet(q, S)
        /\ (\A i \in S : c[i] >= 0) => \A i \in S : v[i] <= SumFunctionOnSet(l, S)
    <3> HIDE DEF S
    <3>1. Credited(S, c, q, u, l, v, w)
      BY <2>3 DEF Credited
    <3> QED BY <2>2, <3>1, ReturnsFollow DEF n
  <2>7. ASSUME NEW i \in S PROVE Unit(i).totals.total = v[i]
    <3> DEFINE back == [j \in {i} |-> 1]
               k == [j \in {i} |-> v[i]]
    <3>1. /\ DOMAIN back = {i} /\ IsFiniteSet({i})
          /\ \A j \in {i} : back[j] = 1 /\ k[j] = v[i]
      BY FS_Singleton
    <3>2. u[i] \in Int /\ v[i] = Pesos(u[i]) /\ v[i] \in Int
      <4>1. c[i] \in Int /\ q[i] \in Nat \ {0} /\ u[i] = ToMoney(c[i], q[i])
              /\ v[i] = Pesos(u[i])
        BY <2>3
      <4>2. u[i] \in Int
        BY <4>1, MoneyBounds
      <4> QED BY <4>1, <4>2, PesosBounds
    <3> HIDE DEF back, k
    <3>3. \A j \in DOMAIN back :
             k[j] = Pesos(sale.items[j].unitPrice * back[j]) /\ k[j] \in Int
      <4>1. u[i] * 1 = u[i] /\ sale.items[i].unitPrice = u[i]
        BY <2>3, <3>2
      <4> QED BY <3>1, <3>2, <4>1
    <3>4. PreparedReturn(sale, back).totals.total = SumFunctionOnSet(k, {i})
      <4>1. PreparedReturn(sale, back).totals.total = SumFunctionOnSet(k, DOMAIN back)
        BY <3>1, <3>3, CreditAddsUp
      <4> QED BY <3>1, <4>1
    <3>5. SumFunctionOnSet(k, {i}) = v[i]
      <4>1. i \in {i} /\ {i} \ {i} = {} /\ \A j \in {i} : k[j] \in Int
        BY <3>1, <3>2
      <4>2. SumFunctionOnSet(k, {i}) = k[i] + SumFunctionOnSet(k, {i} \ {i})
        BY <3>1, <4>1, SumRemove
      <4> QED BY <3>1, <3>2, <4>1, <4>2, SumEmpty
    <3> QED BY <3>4, <3>5 DEF back
  <2>8. /\ whole.totals.total = SumFunctionOnSet(l, S)
        /\ credit.total = whole.totals.total /\ AddsUp(credit, credit.net, n)
    <3>1. \A i \in DOMAIN units :
             l[i] = Pesos(sale.items[i].unitPrice * units[i]) /\ l[i] \in Int
      BY <2>3, <2>6
    <3> QED BY <2>2, <3>1, CreditAddsUp DEF n
  <2> DEFINE rebate == MapToDocumentPayload(MapReturnToNce(PreparedDiscount(100 * total)), <<0>>)
  <2>9. rebate.subtotal = rebate.net /\ AddsUp(rebate, rebate.net, 1)
    <3>1. C \in Int
      <4> HIDE DEF S
      <4> QED BY <2>2, <2>3, SumInt
    <3>2. total \in Int
      <4> HIDE DEF C
      <4> QED BY <3>1, PesosBounds
    <3> HIDE DEF total
    <3> QED BY <3>2, RebateAddsUp
  <2> DEFINE each == [i \in S |-> units[i] * Unit(i).totals.total]
  <2>10. SumOf(each) = SumFunctionOnSet(w, S)
    <3>1. \A i \in S : each[i] = w[i]
      <4> SUFFICES ASSUME NEW i \in S PROVE each[i] = w[i]
        OBVIOUS
      <4>1. each[i] = units[i] * Unit(i).totals.total
        OBVIOUS
      <4>2. Unit(i).totals.total = v[i]
        BY <2>7
      <4>3. units[i] = q[i] /\ w[i] = q[i] * v[i]
        BY <2>3
      <4> HIDE DEF each, Unit
      <4> QED BY <4>1, <4>2, <4>3
    <3>2. DOMAIN each = S
      OBVIOUS
    <3> HIDE DEF each
    <3>3. SumFunctionOnSet(each, S) = SumFunctionOnSet(w, S)
      BY <2>2, <3>1, SumSame
    <3> QED BY <3>2, <3>3, SumOfIs
  <2>11. (\A i \in S : items[i].lineTotal >= 0) => \A i \in S : Unit(i).totals.total <= credit.total
    <3>1. ASSUME \A i \in S : items[i].lineTotal >= 0, NEW i \in S
          PROVE  Unit(i).totals.total <= credit.total
      <4>1. v[i] <= SumFunctionOnSet(l, S)
        BY <2>3, <2>6, <3>1
      <4>2. Unit(i).totals.total = v[i]
        BY <2>7
      <4> HIDE DEF Unit, credit, whole
      <4> QED BY <2>8, <4>1, <4>2
    <3> HIDE DEF Unit, credit, whole
    <3> QED BY <3>1
  <2> HIDE DEF credit, whole, total, rebate, each, Unit
  <2>12. /\ 200 * Distance(credit.total, sale.totals.total)
              <= 100 * (n + 1) + AllOf(items, "quantity")
         /\ 200 * Distance(SumOf(each), sale.totals.total)
              <= 100 * (AllOf(items, "quantity") + 1) + AllOf(items, "quantity")
    BY <2>4, <2>5, <2>6, <2>8, <2>10
  <2>13. rebate = MapToDocumentPayload(
                     MapReturnToNce(PreparedDiscount(100 * sale.totals.total)), <<0>>)
    BY <2>4 DEF rebate
  <2>14. credit.total = whole.totals.total /\ AddsUp(credit, credit.net, n)
    BY <2>8
  <2> HIDE DEF items
  <2> QED BY <2>9, <2>11, <2>12, <2>13, <2>14
        DEF credit, whole, rebate, each, Unit, n, sale, costs, items
<1> QED BY <1>1, OffersHold, PricesHold, PTL
=============================================================================

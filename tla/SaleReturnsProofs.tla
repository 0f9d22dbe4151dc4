-------------------------- MODULE SaleReturnsProofs --------------------------
(***************************************************************************)
(* What holds of the returns of a sale for any number of returns, requests *)
(* and restarts, any quantity and price: proved from what one step does to *)
(* one return (ReturnEffect).                                              *)
(***************************************************************************)
EXTENDS SaleReturns, TLAPS

\* A DESCUENTO returns no units.
RowFits(row) == row.returnType = "DESCUENTO" => row.quantity = 0

\* A row as POST /returns writes it.
Fresh(row) == row \in ReturnRow /\ row.status = "PENDIENTE" /\ RowFits(row)

\* Where a request is agrees with the rows: it has a return to work on, and
\* was told EMITIDO only of a booked document.
CallFits(c) ==
    /\ c.pc = "save" => c.ret \in Returns /\ Fresh(c.row)
    /\ c.pc \notin {"idle", "save"} => c.ret \in Returns /\ ret[c.ret] \in ReturnRow
    /\ c.pc = "complete" => ~RequiresNce
    /\ (c.pc = "settle" /\ c.answer = "EMITIDO") => <<"DTE_DOCUMENT", c.ret>> \in ledger

DocumentFits(r) ==
    /\ document[r] # "NONE" => ret[r] \in ReturnRow
    /\ document[r] = "EMITIDO" => <<"DTE_DOCUMENT", r>> \in ledger
    /\ ret[r] \in ReturnRow => RowFits(ret[r])

ReturnInv ==
    /\ ReturnTypeOK
    /\ \A q \in Requests : CallFits(call[q])
    /\ \A r \in Returns : DocumentFits(r)

\* The same return, in another status.
SameReturn(row, old) ==
    /\ row.quantity = old.quantity /\ row.condition = old.condition
    /\ row.returnType = old.returnType

Active(row) == row.status \in {"PENDIENTE", "APROBADA"}

Kept(r)    == ret'[r] = ret[r] /\ moved'[r] = moved[r]
Created(r) == ret[r] = NULL /\ Fresh(ret'[r]) /\ moved'[r] = moved[r]

Turned(r) ==
    /\ ret[r] \in ReturnRow /\ Active(ret[r])
    /\ ret'[r] \in ReturnRow /\ ret'[r].status # "COMPLETADA"
    /\ SameReturn(ret'[r], ret[r])
    /\ moved'[r] = moved[r]

Finished(r) ==
    /\ ret[r] \in ReturnRow /\ Active(ret[r])
    /\ ret'[r] \in ReturnRow /\ ret'[r].status = "COMPLETADA"
    /\ SameReturn(ret'[r], ret[r])
    /\ moved'[r] = IF ret[r].returnType = "DESCUENTO" THEN moved[r]
                   ELSE [moved[r] EXCEPT ![ret[r].condition] = @ + ret[r].quantity]
    /\ <<(IF RequiresNce THEN "DTE_DOCUMENT" ELSE "RETURN"), r>> \in ledger'

\* What a step does to the returns.
ReturnEffect ==
    /\ ret' \in [Returns -> ReturnRow \cup {NULL}]
    /\ moved' \in [Returns -> [Conditions -> Int]]
    /\ sale' \in [saleType : {sale.saleType},
                  status : {"EMITIDA", "ANULADA", "CORREGIDA", "DEVUELTA"}]
    /\ ledger \subseteq ledger' /\ ledger' \subseteq {"DTE_DOCUMENT", "RETURN"} \X Returns
    /\ \A r \in Returns : Kept(r) \/ Created(r) \/ Turned(r) \/ Finished(r)

\* What a step does to the documents.
DocumentEffect ==
    /\ document' \in [DocumentKeys -> DocumentStatus]
    /\ \A r \in Returns :
          \/ document'[r] = document[r]
          \/ ret[r] \in ReturnRow /\ document'[r] # "EMITIDO"
          \/ ret[r] \in ReturnRow /\ <<"DTE_DOCUMENT", r>> \in ledger'

\* CallFits of a request's next place, over the next rows.
FitsNext(c) ==
    /\ c.pc = "save" => c.ret \in Returns /\ Fresh(c.row)
    /\ c.pc \notin {"idle", "save"} => c.ret \in Returns /\ ret[c.ret] \in ReturnRow
    /\ c.pc = "complete" => ~RequiresNce
    /\ (c.pc = "settle" /\ c.answer = "EMITIDO") => <<"DTE_DOCUMENT", c.ret>> \in ledger'

CallEffect ==
    /\ call' \in [Requests -> CallRow]
    /\ \A q \in Requests : FitsNext(call'[q])

-----------------------------------------------------------------------------
\* Nothing of the returns changes.
LEMMA NothingReturned ==
    ASSUME ReturnTypeOK, UNCHANGED <<sale, ret, moved, ledger>>
    PROVE  ReturnEffect
  BY DEF ReturnEffect, ReturnTypeOK, Kept

\* A row in another status than COMPLETADA, all of it else the same.
LEMMA RowTurned ==
    ASSUME NEW r \in Returns, ReturnTypeOK, ret[r] \in ReturnRow, Active(ret[r]),
           NEW row \in ReturnRow, row.status # "COMPLETADA", SameReturn(row, ret[r]),
           ret' = [ret EXCEPT ![r] = row], UNCHANGED <<sale, moved, ledger>>
    PROVE  ReturnEffect
<1>1. ret' \in [Returns -> ReturnRow \cup {NULL}]
  BY DEF ReturnTypeOK
<1>2. \A x \in Returns : Kept(x) \/ Turned(x)
  <2> TAKE x \in Returns
  <2>1. CASE x = r
    BY <2>1 DEF Turned, ReturnTypeOK
  <2>2. CASE x # r
    BY <2>2 DEF Kept, ReturnTypeOK
  <2> QED BY <2>1, <2>2
<1> QED BY <1>1, <1>2 DEF ReturnEffect, ReturnTypeOK

\* completeReturnInManager, when the ledger has or gets its document.
LEMMA Completes ==
    ASSUME NEW r \in Returns, ReturnTypeOK, ret[r] \in ReturnRow, NEW booked,
           booked \subseteq {<<"DTE_DOCUMENT", r>>},
           RequiresNce => <<"DTE_DOCUMENT", r>> \in ledger \cup booked,
           CompleteReturnInManager(r, booked)
    PROVE  ReturnEffect
<1> DEFINE row == Completed(ret[r])
<1>0. Active(ret[r]) /\ ret' = [ret EXCEPT ![r] = row]
  BY DEF CompleteReturnInManager, Completable, Active
<1>1. row \in ReturnRow /\ row.status = "COMPLETADA" /\ SameReturn(row, ret[r])
  BY DEF ReturnRow, Completed, SameReturn
<1> HIDE DEF row
<1>2. ret' \in [Returns -> ReturnRow \cup {NULL}]
  BY <1>0, <1>1 DEF ReturnTypeOK
<1>3. moved' \in [Returns -> [Conditions -> Int]]
  <2>1. ret[r].quantity \in Int /\ ret[r].condition \in Conditions
    BY DEF ReturnRow
  <2> QED BY <2>1 DEF CompleteReturnInManager, Returned, ReturnTypeOK
<1>4. sale' \in [saleType : {sale.saleType},
                 status : {"EMITIDA", "ANULADA", "CORREGIDA", "DEVUELTA"}]
  <2>1. SaleStatusAfter(ret[r].returnType) \in {"ANULADA", "CORREGIDA", "DEVUELTA"}
    BY DEF SaleStatusAfter, ReturnRow, ReturnTypes
  <2> QED BY <2>1 DEF CompleteReturnInManager, ReturnTypeOK
<1>5. /\ ledger \subseteq ledger'
      /\ ledger' \subseteq {"DTE_DOCUMENT", "RETURN"} \X Returns
      /\ <<(IF RequiresNce THEN "DTE_DOCUMENT" ELSE "RETURN"), r>> \in ledger'
  <2>1. {<<"DTE_DOCUMENT", r>>, <<"RETURN", r>>} \subseteq {"DTE_DOCUMENT", "RETURN"} \X Returns
    OBVIOUS
  <2>2. CASE RequiresNce
    BY <2>1, <2>2 DEF CompleteReturnInManager, ReturnTypeOK
  <2>3. CASE ~RequiresNce
    BY <2>1, <2>3 DEF CompleteReturnInManager, ReturnTypeOK
  <2> QED BY <2>2, <2>3
<1>6. \A x \in Returns : Kept(x) \/ Finished(x)
  <2> TAKE x \in Returns
  <2>1. CASE x = r
    <3>1. moved'[r] = IF ret[r].returnType = "DESCUENTO" THEN moved[r]
                      ELSE [moved[r] EXCEPT ![ret[r].condition] = @ + ret[r].quantity]
      BY DEF CompleteReturnInManager, Returned, ReturnTypeOK
    <3>2. ret'[r] = row
      BY <1>0 DEF ReturnTypeOK
    <3> QED BY <2>1, <3>1, <3>2, <1>0, <1>1, <1>5 DEF Finished
  <2>2. CASE x # r
    <3>1. moved'[x] = moved[x]
      BY <2>2 DEF CompleteReturnInManager, Returned, ReturnTypeOK
    <3>2. ret'[x] = ret[x]
      BY <1>0, <2>2 DEF ReturnTypeOK
    <3> QED BY <3>1, <3>2 DEF Kept
  <2> QED BY <2>1, <2>2
<1> QED BY <1>2, <1>3, <1>4, <1>5, <1>6 DEF ReturnEffect

-----------------------------------------------------------------------------
\* One request moves to c and the others stay.
LEMMA CallMoves ==
    ASSUME ReturnInv, ledger \subseteq ledger', NEW q \in Requests, NEW c \in CallRow,
           call' = [call EXCEPT ![q] = c], FitsNext(c)
    PROVE  CallEffect
<1>1. call' \in [Requests -> CallRow]
  BY DEF ReturnInv, ReturnTypeOK
<1>2. \A p \in Requests : FitsNext(call'[p])
  <2> TAKE p \in Requests
  <2>1. CASE p = q
    <3>1. call'[p] = c
      BY <2>1 DEF ReturnInv, ReturnTypeOK
    <3> QED BY <3>1
  <2>2. CASE p # q
    <3>1. call'[p] = call[p] /\ CallFits(call[p])
      BY <2>2 DEF ReturnInv, ReturnTypeOK
    <3> HIDE DEF ReturnInv
    <3>2. \A x : CallFits(x) => FitsNext(x)
      BY DEF CallFits, FitsNext
    <3> QED BY <3>1, <3>2
  <2> QED BY <2>1, <2>2
<1> QED BY <1>1, <1>2 DEF CallEffect

\* No request moves.
LEMMA CallsStay ==
    ASSUME ReturnInv, ledger \subseteq ledger', UNCHANGED call
    PROVE  CallEffect
  BY DEF CallEffect, ReturnInv, ReturnTypeOK, CallFits, FitsNext

\* The invariant is kept by steps with these three effects.
LEMMA EffectsKeep ==
    ASSUME ReturnInv, ReturnEffect, DocumentEffect, CallEffect
    PROVE  ReturnInv'
<1>0. DocumentKeys = Returns
  BY ReturnsAssumption
<1>1. ReturnTypeOK'
  BY DEF ReturnInv, ReturnTypeOK, ReturnEffect, DocumentEffect, CallEffect
<1>2. \A r \in Returns : ret[r] \in ReturnRow => ret'[r] \in ReturnRow
  BY DEF ReturnEffect, Kept, Created, Turned, Finished, Fresh
<1>3. RequiresNce' = RequiresNce
  BY DEF ReturnEffect, RequiresNce
<1>4. \A q \in Requests : CallFits(call[q])'
  BY <1>2, <1>3 DEF CallEffect, CallFits, FitsNext
<1>5. ASSUME NEW r \in Returns PROVE DocumentFits(r)'
  <2>1. (document'[r] # "NONE" => ret'[r] \in ReturnRow)
        /\ (document'[r] = "EMITIDO" => <<"DTE_DOCUMENT", r>> \in ledger')
    BY <1>2 DEF DocumentEffect, ReturnEffect, ReturnInv, DocumentFits
  <2>2. ret'[r] \in ReturnRow => RowFits(ret'[r])
    BY DEF ReturnEffect, ReturnInv, DocumentFits, Kept, Created, Turned, Finished, Fresh,
           RowFits, SameReturn
  <2> QED BY <2>1, <2>2 DEF DocumentFits
<1> QED BY <1>1, <1>4, <1>5 DEF ReturnInv

-----------------------------------------------------------------------------
(* What each action does.                                                  *)

Effects == ReturnEffect /\ DocumentEffect /\ CallEffect

\* A request moves, and nothing of the rows or documents does.
LEMMA OnlyCalls ==
    ASSUME ReturnInv, UNCHANGED <<document, sale, ret, moved, ledger>>
    PROVE  ReturnEffect /\ DocumentEffect
<1>1. ReturnEffect
  BY NothingReturned DEF ReturnInv
<1> QED BY <1>1 DEF DocumentEffect, ReturnInv, ReturnTypeOK

\* The place a request is in, and the idle one, fit the next rows.
LEMMA IdleFits == Idle \in CallRow /\ FitsNext(Idle)
  BY DEF Idle, CallRow, DocumentStatus, FitsNext

LEMMA ReadSaleEffects ==
    ASSUME ReturnInv, NEW q \in Requests, NEW r \in Returns, ReadSale(q, r)
    PROVE  Effects
<1>1. ReturnEffect /\ DocumentEffect /\ ledger \subseteq ledger'
  BY OnlyCalls DEF ReadSale
<1>2. PICK row \in ValidReturns :
        call' = [call EXCEPT ![q] = [Idle EXCEPT !.pc = "save", !.ret = r, !.row = row]]
  BY DEF ReadSale
<1>3. Fresh(row)
  <2>1. Price \in Nat /\ Discounts \subseteq Nat /\ 0 \in Nat
    BY ReturnsAssumption
  <2>2. ASSUME NEW n \in Nat, NEW c \in Conditions, NEW type \in {"TOTAL", "PARCIAL"},
               row = Prepared(type, n, c, n * Price)
        PROVE  Fresh(row)
    BY <2>1, <2>2 DEF Prepared, Fresh, ReturnRow, RowFits, ReturnTypes
  <2>3. ASSUME NEW a \in Discounts, NEW c \in Conditions,
               row = Prepared("DESCUENTO", 0, c, a)
        PROVE  Fresh(row)
    BY <2>1, <2>3 DEF Prepared, Fresh, ReturnRow, RowFits, ReturnTypes
  <2>4. \/ \E n \in {CalculateAvailableQuantity} \cap 1..Sold, c \in Conditions :
              row = Prepared("TOTAL", n, c, n * Price)
        \/ \E n \in 1..CalculateAvailableQuantity, c \in Conditions :
              row = Prepared("PARCIAL", n, c, n * Price)
        \/ \E a \in {d \in Discounts : d <= CalculateMonetaryCap}, c \in Conditions :
              row = Prepared("DESCUENTO", 0, c, a)
    BY DEF ValidReturns
  <2>5. 1..Sold \subseteq Nat /\ 1..CalculateAvailableQuantity \subseteq Nat
    OBVIOUS
  <2> QED BY <2>2, <2>3, <2>4, <2>5
<1> DEFINE c == [Idle EXCEPT !.pc = "save", !.ret = r, !.row = row]
<1>4. c \in CallRow /\ FitsNext(c)
  BY <1>3 DEF Idle, CallRow, DocumentStatus, FitsNext, Fresh
<1> HIDE DEF c
<1> QED BY <1>1, <1>2, <1>4, CallMoves DEF Effects, c

LEMMA SaveReturnEffects ==
    ASSUME ReturnInv, NEW q \in Requests, SaveReturn(q)
    PROVE  Effects
<1> DEFINE r == call[q].ret
<1>1. r \in Returns /\ Fresh(call[q].row)
  BY DEF SaveReturn, ReturnInv, CallFits
<1>2. ReturnEffect
  <2>1. CASE ret[r] = NULL
    <3>1. ret' = [ret EXCEPT ![r] = call[q].row]
      BY <2>1 DEF SaveReturn
    <3>2. \A x \in Returns : Kept(x) \/ Created(x)
      BY <1>1, <2>1, <3>1 DEF SaveReturn, Kept, Created, ReturnInv, ReturnTypeOK
    <3> QED BY <1>1, <3>1, <3>2 DEF SaveReturn, ReturnEffect, ReturnInv, ReturnTypeOK, Fresh
  <2>2. CASE ret[r] # NULL
    BY <2>2, NothingReturned DEF SaveReturn, ReturnInv
  <2> QED BY <2>1, <2>2
<1>3. DocumentEffect
  BY DEF SaveReturn, DocumentEffect, ReturnInv, ReturnTypeOK
<1>4. CallEffect
  BY CallMoves, IdleFits DEF SaveReturn
<1> QED BY <1>2, <1>3, <1>4 DEF Effects

LEMMA ApproveEffects ==
    ASSUME ReturnInv, NEW q \in Requests, NEW r \in Returns, Approve(q, r)
    PROVE  Effects
<1>1. ReturnEffect /\ DocumentEffect /\ ledger \subseteq ledger'
  BY OnlyCalls DEF Approve
<1> DEFINE c == [Idle EXCEPT !.ret = r, !.approves = TRUE,
                   !.pc = IF RequiresNce THEN "lookup" ELSE "complete"]
<1>2. c \in CallRow /\ FitsNext(c)
  BY DEF Approve, ReturnInv, ReturnTypeOK, Idle, CallRow, DocumentStatus, FitsNext
<1>3. call' = [call EXCEPT ![q] = c]
  BY DEF Approve
<1> HIDE DEF c
<1> QED BY <1>1, <1>2, <1>3, CallMoves DEF Effects

LEMMA ReconcileEffects ==
    ASSUME ReturnInv, NEW q \in Requests, NEW r \in Returns, Reconcile(q, r)
    PROVE  Effects
<1>1. ReturnEffect /\ DocumentEffect /\ ledger \subseteq ledger'
  BY OnlyCalls DEF Reconcile
<1> DEFINE c == [Idle EXCEPT !.ret = r, !.pc = "reconcile"]
<1>2. c \in CallRow /\ FitsNext(c)
  BY DEF Reconcile, ReturnInv, ReturnTypeOK, Idle, CallRow, DocumentStatus, FitsNext
<1>3. call' = [call EXCEPT ![q] = c]
  BY DEF Reconcile
<1> HIDE DEF c
<1> QED BY <1>1, <1>2, <1>3, CallMoves DEF Effects

LEMMA CompleteNoteEffects ==
    ASSUME ReturnInv, NEW q \in Requests, CompleteNote(q)
    PROVE  Effects
<1> DEFINE r == call[q].ret
<1>1. r \in Returns /\ ret[r] \in ReturnRow /\ ~RequiresNce
  BY DEF CompleteNote, ReturnInv, CallFits
<1>2. ReturnEffect
  <2>1. CASE ret[r].status = "PENDIENTE"
    BY <1>1, <2>1, Completes DEF CompleteNote, ReturnInv
  <2>2. CASE ret[r].status # "PENDIENTE"
    BY <2>2, NothingReturned DEF CompleteNote, ReturnInv
  <2> QED BY <2>1, <2>2
<1>3. DocumentEffect
  BY DEF CompleteNote, DocumentEffect, ReturnInv, ReturnTypeOK
<1>4. CallEffect
  <2>1. ledger \subseteq ledger'
    BY <1>2 DEF ReturnEffect
  <2> QED BY <2>1, CallMoves, IdleFits DEF CompleteNote, Ends
<1> QED BY <1>2, <1>3, <1>4 DEF Effects

\* A request that has a return goes on with it, told status or not.
LEMMA RequestMoves ==
    ASSUME ReturnInv, NEW q \in Requests, ledger \subseteq ledger',
           ReturnEffect, call[q].pc \notin {"idle", "save"},
           NEW pc \in {"open", "sent", "settle"}, NEW status \in DocumentStatus,
           NEW saw \in BOOLEAN,
           pc = "settle" /\ status = "EMITIDO" => <<"DTE_DOCUMENT", call[q].ret>> \in ledger',
           call' = [call EXCEPT ![q] = [call[q] EXCEPT !.pc = pc, !.answer = status,
                                                       !.sawError = saw]]
    PROVE  CallEffect
<1> DEFINE c == [call[q] EXCEPT !.pc = pc, !.answer = status, !.sawError = saw]
<1>1. call[q] \in CallRow /\ call[q].ret \in Returns /\ ret[call[q].ret] \in ReturnRow
  BY DEF ReturnInv, ReturnTypeOK, CallFits
<1>2. c \in CallRow /\ c.pc = pc /\ c.ret = call[q].ret /\ c.answer = status
  BY <1>1 DEF CallRow
<1> HIDE DEF c
<1>3. FitsNext(c)
  BY <1>1, <1>2 DEF FitsNext
<1> QED BY <1>2, <1>3, CallMoves DEF c

LEMMA LookupCreditEffects ==
    ASSUME ReturnInv, NEW q \in Requests, LookupCredit(q)
    PROVE  Effects
<1> DEFINE r == call[q].ret
<1>1. ReturnEffect /\ DocumentEffect /\ ledger \subseteq ledger'
  BY OnlyCalls DEF LookupCredit
<1>2. call[q] \in CallRow /\ r \in Returns /\ document[r] \in DocumentStatus
  BY ReturnsAssumption DEF LookupCredit, ReturnInv, ReturnTypeOK, CallFits
<1>3. ASSUME NEW saw \in BOOLEAN, saw <=> document[r] = "ERROR", document[r] \in {"NONE", "ERROR"}
      PROVE  Effects
  <2>1. call' = [call EXCEPT ![q].pc = "open", ![q].sawError = (document[r] = "ERROR")]
    BY <1>3 DEF LookupCredit
  <2>2. (document[r] = "ERROR") = saw
    BY <1>3, Zenon
  <2>3. call' = [call EXCEPT ![q].pc = "open", ![q].sawError = saw]
    BY <2>1, <2>2, Zenon
  <2>4. call' = [call EXCEPT ![q] = [call[q] EXCEPT !.pc = "open", !.answer = call[q].answer,
                                        !.sawError = saw]]
    BY <1>2, <2>3 DEF CallRow, ReturnInv, ReturnTypeOK
  <2>5. call[q].answer \in DocumentStatus
    BY <1>2 DEF CallRow
  <2> QED BY <1>1, <2>4, <2>5, RequestMoves DEF LookupCredit, Effects
<1>4. CASE document[r] \notin {"NONE", "ERROR"}
  <2>1. call' = [call EXCEPT ![q] = [call[q] EXCEPT !.pc = "settle", !.answer = document[r],
                                        !.sawError = call[q].sawError]]
    BY <1>2, <1>4 DEF LookupCredit, Answered, CallRow, ReturnInv, ReturnTypeOK
  <2>2. document[r] = "EMITIDO" => <<"DTE_DOCUMENT", r>> \in ledger'
    BY <1>1, <1>2 DEF ReturnInv, DocumentFits
  <2>3. call[q].sawError \in BOOLEAN
    BY <1>2 DEF CallRow
  <2> QED BY <1>1, <1>2, <2>1, <2>2, <2>3, RequestMoves DEF LookupCredit, Effects
<1> QED
  <2>1. document[r] = "ERROR" \/ ~(document[r] = "ERROR")
    OBVIOUS
  <2> QED BY <2>1, <1>3, <1>4

LEMMA OpenCreditEffects ==
    ASSUME ReturnInv, NEW q \in Requests, OpenCredit(q)
    PROVE  Effects
<1> DEFINE r == call[q].ret
<1>0. call[q] \in CallRow /\ r \in Returns /\ ret[r] \in ReturnRow /\ r \in DocumentKeys
      /\ document[r] \in DocumentStatus
  BY ReturnsAssumption DEF OpenCredit, ReturnInv, ReturnTypeOK, CallFits
<1>1. ReturnEffect /\ ledger \subseteq ledger'
  BY NothingReturned DEF OpenCredit, ReturnInv
<1>2. CASE Openable(r, call[q].sawError)
  <2>1. document' = [document EXCEPT ![r] = "PENDIENTE"]
    BY <1>2 DEF OpenCredit, Open
  <2>2. DocumentEffect
    BY <1>0, <2>1, ReturnsAssumption DEF DocumentEffect, ReturnInv, ReturnTypeOK, DocumentStatus
  <2>3. call' = [call EXCEPT ![q] = [call[q] EXCEPT !.pc = "sent", !.answer = call[q].answer,
                                        !.sawError = FALSE]]
    BY <1>0, <1>2 DEF OpenCredit, CallRow, ReturnInv, ReturnTypeOK
  <2>4. call[q].answer \in DocumentStatus
    BY <1>0 DEF CallRow
  <2> QED BY <1>1, <2>2, <2>3, <2>4, RequestMoves DEF OpenCredit, Effects
<1>3. CASE ~Openable(r, call[q].sawError)
  <2>1. DocumentEffect
    BY <1>3 DEF OpenCredit, DocumentEffect, ReturnInv, ReturnTypeOK
  <2>2. call' = [call EXCEPT ![q] = [call[q] EXCEPT !.pc = "settle", !.answer = document[r],
                                        !.sawError = call[q].sawError]]
    BY <1>0, <1>3 DEF OpenCredit, Answered, CallRow, ReturnInv, ReturnTypeOK
  <2>3. document[r] = "EMITIDO" => <<"DTE_DOCUMENT", r>> \in ledger'
    BY <1>0, <1>1 DEF ReturnInv, DocumentFits
  <2>4. call[q].sawError \in BOOLEAN
    BY <1>0 DEF CallRow
  <2> QED BY <1>0, <1>1, <2>1, <2>2, <2>3, <2>4, RequestMoves DEF OpenCredit, Effects
<1> QED BY <1>2, <1>3

\* The document of a return is closed, with the listener.
LEMMA FinalizeEffects ==
    ASSUME ReturnInv, NEW r \in Returns, NEW status \in {"EMITIDO", "ERROR"},
           FinalizeCredit(r, status)
    PROVE  /\ ReturnEffect /\ DocumentEffect
           /\ status = "EMITIDO" => <<"DTE_DOCUMENT", r>> \in ledger'
<1>0. r \in DocumentKeys
  BY ReturnsAssumption
<1>1. document[r] = "PENDIENTE" /\ document' = [document EXCEPT ![r] = status]
  BY DEF FinalizeCredit, Close
<1>2. ret[r] \in ReturnRow
  BY <1>1 DEF ReturnInv, DocumentFits
<1>3. /\ ReturnEffect
      /\ status = "EMITIDO" => <<"DTE_DOCUMENT", r>> \in ledger'
  <2>1. CASE status = "EMITIDO" /\ ret[r].linked /\ Completable(r)
    <3>1. CompleteReturnInManager(r, {<<"DTE_DOCUMENT", r>>})
      BY <2>1 DEF FinalizeCredit
    <3>2. ReturnEffect
      BY <1>2, <3>1, Completes DEF ReturnInv
    <3> QED BY <3>1, <3>2 DEF CompleteReturnInManager
  <2>2. CASE status = "ERROR" /\ ret[r].linked /\ ret[r].status = "APROBADA"
    <3> DEFINE row == [ret[r] EXCEPT !.status = "PENDIENTE"]
    <3>1. ret' = [ret EXCEPT ![r] = row] /\ UNCHANGED <<moved, ledger, sale>>
      BY <2>2 DEF FinalizeCredit
    <3>2. row \in ReturnRow /\ row.status # "COMPLETADA" /\ SameReturn(row, ret[r])
      BY <1>2 DEF ReturnRow, SameReturn
    <3>3. Active(ret[r])
      BY <2>2 DEF Active
    <3> HIDE DEF row
    <3> QED BY <2>2, <1>2, <3>1, <3>2, <3>3, RowTurned DEF ReturnInv
  <2>3. CASE ~(status = "EMITIDO" /\ ret[r].linked /\ Completable(r))
             /\ ~(status = "ERROR" /\ ret[r].linked /\ ret[r].status = "APROBADA")
    <3>1. ledger' = (IF status = "EMITIDO" THEN ledger \cup {<<"DTE_DOCUMENT", r>>} ELSE ledger)
          /\ UNCHANGED <<ret, moved, sale>>
      BY <2>3 DEF FinalizeCredit
    <3>2. <<"DTE_DOCUMENT", r>> \in {"DTE_DOCUMENT", "RETURN"} \X Returns
      OBVIOUS
    <3>3. ledger \subseteq ledger' /\ ledger' \subseteq {"DTE_DOCUMENT", "RETURN"} \X Returns
      BY <3>1, <3>2 DEF ReturnInv, ReturnTypeOK
    <3>4. ReturnEffect
      BY <3>1, <3>3 DEF ReturnEffect, ReturnInv, ReturnTypeOK, Kept
    <3> QED BY <3>1, <3>4
  <2> QED BY <2>1, <2>2, <2>3
<1>4. DocumentEffect
  <2>1. document' \in [DocumentKeys -> DocumentStatus]
    BY <1>1 DEF ReturnInv, ReturnTypeOK, DocumentStatus
  <2>2. ASSUME NEW x \in Returns, x # r PROVE document'[x] = document[x]
    BY <1>1, <2>2, ReturnsAssumption DEF ReturnInv, ReturnTypeOK
  <2>3. document'[r] = status
    BY <1>0, <1>1 DEF ReturnInv, ReturnTypeOK
  <2> QED BY <1>2, <1>3, <2>1, <2>2, <2>3 DEF DocumentEffect
<1> QED BY <1>3, <1>4

\* The answer of Openfactura to a request that has a return.
LEMMA AnswerEffects ==
    ASSUME ReturnInv, NEW q \in Requests, call[q].pc \in {"sent", "reconcile"}, CreditAnswer(q)
    PROVE  Effects
<1> DEFINE r == call[q].ret
<1>0. call[q] \in CallRow /\ r \in Returns /\ ret[r] \in ReturnRow
      /\ document[r] \in DocumentStatus /\ call[q].sawError \in BOOLEAN
  BY ReturnsAssumption DEF ReturnInv, ReturnTypeOK, CallFits, CallRow
<1>1. ASSUME NEW status \in DocumentStatus, Answered(q, status), ReturnEffect, DocumentEffect,
             status = "EMITIDO" => <<"DTE_DOCUMENT", r>> \in ledger'
      PROVE  Effects
  <2>1. call' = [call EXCEPT ![q] = [call[q] EXCEPT !.pc = "settle", !.answer = status,
                                        !.sawError = call[q].sawError]]
    BY <1>0, <1>1 DEF Answered, CallRow, ReturnInv, ReturnTypeOK
  <2>2. ledger \subseteq ledger'
    BY <1>1 DEF ReturnEffect
  <2> QED BY <1>0, <1>1, <2>1, <2>2, RequestMoves DEF Effects
<1>2. CASE document[r] # "PENDIENTE"
  <2>1. Answered(q, document[r]) /\ UNCHANGED <<document, sale, ret, moved, ledger>>
    BY <1>2 DEF CreditAnswer
  <2>2. ReturnEffect /\ DocumentEffect
    BY <2>1, OnlyCalls
  <2>3. document[r] = "EMITIDO" => <<"DTE_DOCUMENT", r>> \in ledger'
    BY <1>0, <2>1 DEF ReturnInv, DocumentFits
  <2> QED BY <1>0, <1>1, <2>1, <2>2, <2>3
<1>3. CASE FinalizeCredit(r, "EMITIDO") /\ Answered(q, "EMITIDO")
  BY <1>0, <1>1, <1>3, FinalizeEffects DEF DocumentStatus
<1>4. CASE FinalizeCredit(r, "ERROR") /\ Ends(q)
  <2>1. ReturnEffect /\ DocumentEffect
    BY <1>0, <1>4, FinalizeEffects
  <2>2. ledger \subseteq ledger'
    BY <2>1 DEF ReturnEffect
  <2> QED BY <1>4, <2>1, <2>2, CallMoves, IdleFits DEF Ends, Effects
<1>5. CASE Answered(q, "PENDIENTE") /\ UNCHANGED <<document, sale, ret, moved, ledger>>
  <2>1. ReturnEffect /\ DocumentEffect
    BY <1>5, OnlyCalls
  <2> QED BY <1>1, <1>5, <2>1 DEF DocumentStatus
<1> QED BY <1>2, <1>3, <1>4, <1>5 DEF CreditAnswer

LEMMA SettleReturnEffects ==
    ASSUME ReturnInv, NEW q \in Requests, SettleReturn(q)
    PROVE  Effects
<1> DEFINE r == call[q].ret
<1>0. /\ r \in Returns /\ ret[r] \in ReturnRow
      /\ call[q].answer = "EMITIDO" => <<"DTE_DOCUMENT", r>> \in ledger
  BY DEF SettleReturn, ReturnInv, CallFits
<1>1. ReturnEffect
  <2>1. CASE call[q].answer = "EMITIDO" /\ Completable(r)
    <3>1. CompleteReturnInManager(r, {})
      BY <2>1 DEF SettleReturn
    <3> QED BY <1>0, <2>1, <3>1, Completes DEF ReturnInv
  <2>2. CASE call[q].answer # "EMITIDO" /\ ret[r].status = "PENDIENTE" /\ call[q].approves
    <3> DEFINE row == [ret[r] EXCEPT !.status = "APROBADA", !.linked = TRUE]
    <3>1. ret' = [ret EXCEPT ![r] = row] /\ UNCHANGED <<moved, ledger, sale>>
      BY <2>2, <1>0 DEF SettleReturn, ReturnInv, ReturnTypeOK
    <3>2. row \in ReturnRow /\ row.status # "COMPLETADA" /\ SameReturn(row, ret[r])
      BY <1>0 DEF ReturnRow, SameReturn
    <3>3. Active(ret[r])
      BY <2>2 DEF Active
    <3> HIDE DEF row
    <3> QED BY <1>0, <3>1, <3>2, <3>3, RowTurned DEF ReturnInv
  <2>3. CASE ~(call[q].answer = "EMITIDO" /\ Completable(r))
             /\ ~(call[q].answer # "EMITIDO" /\ ret[r].status = "PENDIENTE" /\ call[q].approves)
    BY <2>3, NothingReturned DEF SettleReturn, ReturnInv
  <2> QED BY <2>1, <2>2, <2>3
<1>2. DocumentEffect
  BY DEF SettleReturn, DocumentEffect, ReturnInv, ReturnTypeOK
<1>3. CallEffect
  <2>1. ledger \subseteq ledger'
    BY <1>1 DEF ReturnEffect
  <2> QED BY <2>1, CallMoves, IdleFits DEF SettleReturn, Ends
<1> QED BY <1>1, <1>2, <1>3 DEF Effects

LEMMA EndPendingEffects ==
    ASSUME ReturnInv, NEW r \in Returns, NEW status \in {"RECHAZADA", "CANCELADA"},
           EndPending(r, status)
    PROVE  Effects
<1> DEFINE row == [ret[r] EXCEPT !.status = status]
<1>1. ret[r] \in ReturnRow /\ ret' = [ret EXCEPT ![r] = row] /\ Active(ret[r])
  BY DEF EndPending, ReturnInv, ReturnTypeOK, Active
<1>2. row \in ReturnRow /\ row.status # "COMPLETADA" /\ SameReturn(row, ret[r])
  BY <1>1 DEF ReturnRow, SameReturn
<1> HIDE DEF row
<1>3. ReturnEffect
  BY <1>1, <1>2, RowTurned DEF EndPending, ReturnInv
<1>4. DocumentEffect /\ CallEffect
  BY CallsStay DEF EndPending, DocumentEffect, ReturnInv, ReturnTypeOK
<1> QED BY <1>3, <1>4 DEF Effects

LEMMA PollCreditEffects ==
    ASSUME ReturnInv, NEW r \in Returns, PollCredit(r)
    PROVE  Effects
<1>1. ReturnEffect /\ DocumentEffect
  BY FinalizeEffects DEF PollCredit
<1>2. ledger \subseteq ledger' /\ UNCHANGED call
  BY <1>1 DEF ReturnEffect, PollCredit
<1> QED BY <1>1, <1>2, CallsStay DEF Effects

LEMMA RestartEffects ==
    ASSUME ReturnInv, Restart
    PROVE  Effects
<1>1. ReturnEffect /\ DocumentEffect
  BY OnlyCalls DEF Restart
<1>2. CallEffect
  BY IdleFits DEF Restart, CallEffect
<1> QED BY <1>1, <1>2 DEF Effects

\* Every step has these effects.
LEMMA StepEffects ==
    ASSUME ReturnInv, [ReturnNext]_returnVars
    PROVE  Effects
<1>1. ASSUME NEW q \in Requests, NEW r \in Returns,
             ReadSale(q, r) \/ Approve(q, r) \/ Reconcile(q, r)
      PROVE  Effects
  BY <1>1, ReadSaleEffects, ApproveEffects, ReconcileEffects
<1>2. ASSUME NEW q \in Requests,
             \/ SaveReturn(q) \/ CompleteNote(q) \/ LookupCredit(q) \/ OpenCredit(q)
             \/ SendCredit(q) \/ ReconcileCredit(q) \/ SettleReturn(q)
      PROVE  Effects
  <2>1. CASE SendCredit(q) \/ ReconcileCredit(q)
    BY <2>1, AnswerEffects DEF SendCredit, ReconcileCredit
  <2> QED BY <1>2, <2>1, SaveReturnEffects, CompleteNoteEffects, LookupCreditEffects,
             OpenCreditEffects, SettleReturnEffects
<1>3. ASSUME NEW r \in Returns,
             EndPending(r, "RECHAZADA") \/ EndPending(r, "CANCELADA") \/ PollCredit(r)
      PROVE  Effects
  BY <1>3, EndPendingEffects, PollCreditEffects
<1>4. CASE Restart
  BY <1>4, RestartEffects
<1>5. CASE UNCHANGED returnVars
  <2>1. UNCHANGED <<document, sale, ret, moved, ledger>> /\ UNCHANGED call
    BY <1>5 DEF returnVars
  <2> QED BY <2>1, OnlyCalls, CallsStay DEF Effects
<1> QED BY <1>1, <1>2, <1>3, <1>4, <1>5 DEF ReturnNext

-----------------------------------------------------------------------------
LEMMA ReturnInitInv == ReturnInit => ReturnInv
<1> SUFFICES ASSUME ReturnInit PROVE ReturnInv
  OBVIOUS
<1>0. DocumentKeys = Returns
  BY ReturnsAssumption
<1>1. ReturnTypeOK
  BY <1>0, IdleFits DEF ReturnInit, DteInit, ReturnTypeOK, DocumentStatus
<1>2. \A q \in Requests : CallFits(call[q])
  BY DEF ReturnInit, CallFits, Idle
<1>3. \A r \in Returns : DocumentFits(r)
  BY <1>0, NullAssumption DEF ReturnInit, DteInit, DocumentFits
<1> QED BY <1>1, <1>2, <1>3 DEF ReturnInv

LEMMA ReturnNextInv == ReturnInv /\ [ReturnNext]_returnVars => ReturnInv'
  BY StepEffects, EffectsKeep DEF Effects

\* Returns, documents, movements and requests keep the shapes of their rows.
THEOREM ReturnsTypeCorrect == ReturnSpec => []ReturnTypeOK
<1>1. ReturnInv => ReturnTypeOK
  BY DEF ReturnInv
<1> QED BY ReturnInitInv, ReturnNextInv, <1>1, PTL DEF ReturnSpec

\* However requests, the poller and the listener of the credit note meet over
\* a return, its units are put back once, in the condition they came in, and
\* never for a return that is not COMPLETADA.
THEOREM ReturnsMoveOnceHolds == ReturnSpec => []ReturnsMoveOnce
<1>1. ReturnInit => ReturnsMoveOnce
  BY DEF ReturnInit, ReturnsMoveOnce
<1>2. ReturnInv /\ ReturnsMoveOnce /\ [ReturnNext]_returnVars => ReturnsMoveOnce'
  <2> SUFFICES ASSUME ReturnInv, ReturnsMoveOnce, [ReturnNext]_returnVars,
                      NEW r \in Returns, NEW c \in Conditions
               PROVE  moved'[r][c] = IF ret'[r] # NULL /\ ret'[r].status = "COMPLETADA"
                                          /\ ret'[r].condition = c
                                     THEN ret'[r].quantity ELSE 0
    BY DEF ReturnsMoveOnce
  <2>1. Kept(r) \/ Created(r) \/ Turned(r) \/ Finished(r)
    BY StepEffects DEF Effects, ReturnEffect
  <2>2. moved[r][c] = IF ret[r] # NULL /\ ret[r].status = "COMPLETADA" /\ ret[r].condition = c
                      THEN ret[r].quantity ELSE 0
    BY DEF ReturnsMoveOnce
  <2>3. CASE Kept(r)
    BY <2>2, <2>3 DEF Kept
  <2>4. CASE Created(r)
    BY <2>2, <2>4 DEF Created, Fresh
  <2>5. CASE Turned(r)
    BY <2>2, <2>5 DEF Turned, Active
  <2>6. CASE Finished(r)
    <3>1. ret'[r] # NULL /\ ret[r].quantity \in Nat /\ moved[r] \in [Conditions -> Int]
          /\ ret[r].condition \in Conditions /\ moved[r][c] = 0
      BY <2>2, <2>6, NullAssumption DEF Finished, Active, ReturnRow, ReturnInv, ReturnTypeOK
    <3>2. RowFits(ret[r])
      BY <2>6 DEF Finished, ReturnInv, DocumentFits
    <3>3. CASE ret[r].returnType = "DESCUENTO"
      BY <2>6, <3>1, <3>2, <3>3 DEF Finished, SameReturn, RowFits
    <3>4. CASE ret[r].returnType # "DESCUENTO"
      BY <2>6, <3>1, <3>4 DEF Finished, SameReturn
    <3> QED BY <3>3, <3>4
  <2> QED BY <2>1, <2>3, <2>4, <2>5, <2>6
<1> QED BY ReturnInitInv, ReturnNextInv, <1>1, <1>2, PTL DEF ReturnSpec

\* A COMPLETADA return has its income taken back in the ledger: an approval
\* that was told EMITIDO, whenever it comes, was told of a booked document.
THEOREM CompletedIsCreditedHolds == ReturnSpec => []CompletedIsCredited
<1>1. ReturnInit => CompletedIsCredited
  BY DEF ReturnInit, CompletedIsCredited
<1>2. ReturnInv /\ CompletedIsCredited /\ [ReturnNext]_returnVars => CompletedIsCredited'
  <2> SUFFICES ASSUME ReturnInv, CompletedIsCredited, [ReturnNext]_returnVars, NEW r \in Returns,
                      ret'[r] # NULL, ret'[r].status = "COMPLETADA"
               PROVE  <<(IF RequiresNce' THEN "DTE_DOCUMENT" ELSE "RETURN"), r>> \in ledger'
    BY DEF CompletedIsCredited
  <2>1. /\ Kept(r) \/ Created(r) \/ Turned(r) \/ Finished(r)
        /\ ledger \subseteq ledger' /\ sale'.saleType = sale.saleType
    BY StepEffects DEF Effects, ReturnEffect
  <2>2. RequiresNce' = RequiresNce
    BY <2>1 DEF RequiresNce
  <2>3. ~Created(r) /\ ~Turned(r)
    BY DEF Created, Fresh, Turned
  <2>4. CASE Kept(r)
    BY <2>1, <2>2, <2>4 DEF Kept, CompletedIsCredited
  <2>5. CASE Finished(r)
    BY <2>2, <2>5 DEF Finished
  <2> QED BY <2>1, <2>3, <2>4, <2>5
<1> QED BY ReturnInitInv, ReturnNextInv, <1>1, <1>2, PTL DEF ReturnSpec

\* No late answer, second approval or poller changes how a return ended.
THEOREM EndedReturnsStayHolds == ReturnSpec => EndedReturnsStay
<1>1. ReturnInv /\ [ReturnNext]_returnVars =>
        [\A r \in Returns :
           ret[r] # NULL /\ ret[r].status \in {"COMPLETADA", "RECHAZADA", "CANCELADA"} =>
             ret'[r].status = ret[r].status]_returnVars
  BY StepEffects DEF Effects, ReturnEffect, Kept, Created, Turned, Finished, Active
<1> QED BY ReturnInitInv, ReturnNextInv, <1>1, PTL DEF ReturnSpec, EndedReturnsStay
=============================================================================

------------------------- MODULE DispatchGuidesProofs -------------------------
(***************************************************************************)
(* What holds of dispatch guides for any number of guides, bills, requests *)
(* and restarts, and whatever the stock: proved from what one step does to *)
(* one guide and its document (GuideEffect).                               *)
(***************************************************************************)
EXTENDS DispatchGuides, RowSums

Annulling == {"ANULACION_PENDIENTE", "ANULADA"}

\* Where a request is agrees with the guide it works on: it has its row, takes
\* its stock unless it is a companion, and confirms what Openfactura annulled.
CallFits(c) ==
    /\ c.pc # "idle" => c.key \in DocumentKeys
    /\ c.pc # "idle" /\ c.key \in Guides => guide[c.key] \in GuideRow
    /\ c.pc \in {"lookup", "open"} /\ c.key \in Guides =>
          guide[c.key].companion \/ c.reserve = TRUE
    /\ c.pc = "link" => c.key \in Guides
    /\ c.pc \in {"annul", "confirm"} => c.key \in Guides /\ guide[c.key].status \in Annulling
    /\ c.pc = "confirm" => c.key \in annulled
    /\ c.pc = "reference" => c.key \in Invoices
    /\ c.pc = "persist" => c.key \in GuideSales

RowFits(g) ==
    /\ document[g] # "NONE" => guide[g] \in GuideRow
    /\ IsIn(g, "ANULADA") => g \in annulled
    /\ g \in annulled => guide[g] \in GuideRow /\ guide[g].status \in Annulling

\* The stock of a guide whose document was not written over: it is out as
\* GuideTakesItsStock says, a document under way will give it back, and only
\* a guide whose document is issued is past PENDIENTE.
StockFits(g) ==
    /\ guide[g] \in GuideRow /\ guide[g].status # "PENDIENTE" => document[g] = "EMITIDO"
    /\ document[g] = "PENDIENTE" => guide[g].companion \/ reserves[g] = TRUE
    /\ \/ guide[g] # NULL /\ guide[g].companion
       \/ out[g] = IF document[g] \in {"PENDIENTE", "EMITIDO"} /\ ~IsIn(g, "ANULADA")
                   THEN Dispatched ELSE 0

GuideInv ==
    /\ GuideTypeOK
    /\ \A q \in Requests : CallFits(call[q])
    /\ \A g \in Guides : RowFits(g)
    /\ \A g \in Guides \ overwritten : StockFits(g)

-----------------------------------------------------------------------------
(* What a step does to one guide, its document and its stock.              *)

SameDocument(g) == document'[g] = document[g] /\ reserves'[g] = reserves[g] /\ out'[g] = out[g]

Kept(g) == guide'[g] = guide[g] /\ SameDocument(g)

Created(g) ==
    /\ guide[g] = NULL /\ guide'[g] \in GuideRow /\ guide'[g].status = "PENDIENTE"
    /\ SameDocument(g)

Turned(g) ==
    /\ guide[g] \in GuideRow /\ guide'[g] \in GuideRow
    /\ guide'[g].companion = guide[g].companion
    /\ \/ guide'[g].status = guide[g].status
       \/ guide[g].status = "EMITIDA" /\ guide'[g].status = "ANULACION_PENDIENTE"
    /\ SameDocument(g)

Opened(g) ==
    /\ guide[g] \in GuideRow /\ guide'[g] = guide[g]
    /\ document'[g] = "PENDIENTE"
    /\ document[g] \in {"PENDIENTE", "EMITIDO"} => g \in overwritten'
    /\ \/ guide[g].companion
       \/ reserves'[g] = TRUE /\ out'[g] = out[g] + Dispatched

Issued(g) ==
    /\ document[g] = "PENDIENTE" /\ document'[g] = "EMITIDO"
    /\ guide[g] \in GuideRow /\ guide'[g] \in GuideRow
    /\ guide'[g].companion = guide[g].companion
    /\ \/ guide'[g].status = guide[g].status
       \/ guide[g].status = "PENDIENTE" /\ guide'[g].status = "EMITIDA"
    /\ reserves'[g] = reserves[g] /\ out'[g] = out[g]

Failed(g) ==
    /\ document[g] = "PENDIENTE" /\ document'[g] = "ERROR"
    /\ guide'[g] = guide[g] /\ reserves'[g] = reserves[g]
    /\ reserves[g] = TRUE => out'[g] = out[g] - Dispatched

Annulled(g) ==
    /\ g \in annulled /\ guide[g] \in GuideRow /\ guide[g].status = "ANULACION_PENDIENTE"
    /\ guide'[g] \in GuideRow /\ guide'[g].companion = guide[g].companion
    /\ guide'[g].status = "ANULADA"
    /\ document'[g] = document[g] /\ reserves'[g] = reserves[g]
    /\ out'[g] = out[g] - Dispatched

GuideEffect ==
    /\ document' \in [DocumentKeys -> DocumentStatus]
    /\ guide' \in [Guides -> GuideRow \cup {NULL}]
    /\ reserves' \in [DocumentKeys -> BOOLEAN]
    /\ out' \in [Guides -> Int]
    /\ annulled \subseteq annulled' /\ annulled' \subseteq Guides
    /\ \A g \in annulled' \ annulled : guide[g] \in GuideRow /\ guide[g].status \in Annulling
    /\ overwritten \subseteq overwritten'
    /\ \A g \in Guides : \/ Kept(g) \/ Created(g) \/ Turned(g) \/ Opened(g)
                         \/ Issued(g) \/ Failed(g) \/ Annulled(g)

\* CallFits of a request's next place, over the next rows.
FitsNext(c) ==
    /\ c.pc # "idle" => c.key \in DocumentKeys
    /\ c.pc # "idle" /\ c.key \in Guides => guide'[c.key] \in GuideRow
    /\ c.pc \in {"lookup", "open"} /\ c.key \in Guides =>
          guide'[c.key].companion \/ c.reserve = TRUE
    /\ c.pc = "link" => c.key \in Guides
    /\ c.pc \in {"annul", "confirm"} => c.key \in Guides /\ guide'[c.key].status \in Annulling
    /\ c.pc = "confirm" => c.key \in annulled'
    /\ c.pc = "reference" => c.key \in Invoices
    /\ c.pc = "persist" => c.key \in GuideSales

CallEffect ==
    /\ call' \in [Requests -> CallRow]
    /\ \A q \in Requests : FitsNext(call'[q])

Effects == GuideEffect /\ CallEffect

-----------------------------------------------------------------------------
\* A row goes on, with what requests know of it.
LEMMA RowsGoOn ==
    ASSUME GuideEffect, NEW g \in Guides, guide[g] \in GuideRow
    PROVE  /\ guide'[g] \in GuideRow
           /\ guide'[g].companion = guide[g].companion
           /\ guide[g].status \in Annulling => guide'[g].status \in Annulling
  BY GuideNullAssumption
     DEF GuideEffect, Kept, Created, Turned, Opened, Issued, Failed, Annulled, Annulling

\* What fits now fits next.
LEMMA FitsOn ==
    ASSUME GuideEffect, NEW c, CallFits(c)
    PROVE  FitsNext(c)
<1>1. annulled \subseteq annulled'
  BY DEF GuideEffect
<1> QED BY <1>1, RowsGoOn DEF CallFits, FitsNext

\* One request moves to c and the others stay.
LEMMA CallMoves ==
    ASSUME GuideInv, GuideEffect, NEW q \in Requests, NEW c \in CallRow, FitsNext(c),
           call' = [call EXCEPT ![q] = c]
    PROVE  CallEffect
<1>1. call' \in [Requests -> CallRow]
  BY DEF GuideInv, GuideTypeOK
<1>2. ASSUME NEW p \in Requests PROVE FitsNext(call'[p])
  <2>1. CASE p = q
    <3>1. call'[p] = c
      BY <2>1 DEF GuideInv, GuideTypeOK
    <3> QED BY <3>1
  <2>2. CASE p # q
    <3>1. call'[p] = call[p] /\ CallFits(call[p])
      BY <2>2 DEF GuideInv, GuideTypeOK
    <3> QED BY <3>1, FitsOn
  <2> QED BY <2>1, <2>2
<1> QED BY <1>1, <1>2 DEF CallEffect

\* No request moves.
LEMMA CallsStay ==
    ASSUME GuideInv, GuideEffect, UNCHANGED call
    PROVE  CallEffect
  BY FitsOn DEF CallEffect, GuideInv, GuideTypeOK

LEMMA IdleFits == Idle \in CallRow /\ FitsNext(Idle)
  BY DEF Idle, CallRow, FitsNext

\* A request ends.
LEMMA CallEnds ==
    ASSUME GuideInv, GuideEffect, NEW q \in Requests, Ends(q)
    PROVE  CallEffect
  BY CallMoves, IdleFits DEF Ends

\* A request goes on to another place, where it needs nothing more.
LEMMA CallGoes ==
    ASSUME GuideInv, GuideEffect, NEW q \in Requests, call[q].pc # "idle",
           NEW pc \in {"sent", "link", "reference", "persist"}, Goes(q, pc),
           pc = "link" => call[q].key \in Guides,
           pc = "reference" => call[q].key \in Invoices,
           pc = "persist" => call[q].key \in GuideSales
    PROVE  CallEffect
<1> DEFINE c == [call[q] EXCEPT !.pc = pc]
<1>1. call[q] \in CallRow /\ CallFits(call[q])
  BY DEF GuideInv, GuideTypeOK
<1>2. c \in CallRow /\ c.pc = pc /\ c.key = call[q].key
  BY <1>1 DEF CallRow
<1>3. call' = [call EXCEPT ![q] = c]
  BY DEF Goes
<1> HIDE DEF c
<1>4. FitsNext(c)
  BY <1>1, <1>2, RowsGoOn DEF CallFits, FitsNext
<1> QED BY <1>2, <1>3, <1>4, CallMoves

LEMMA AfterDocumentMoves ==
    ASSUME GuideInv, GuideEffect, NEW q \in Requests, call[q].pc # "idle", AfterDocument(q)
    PROVE  CallEffect
<1>1. CASE call[q].key \in Invoices
  BY <1>1, CallGoes DEF AfterDocument
<1>2. CASE call[q].key \in GuideSales
  <2>1. call[q].key \notin Invoices
    BY <1>2, GuideAssumption
  <2> QED BY <1>2, <2>1, CallGoes DEF AfterDocument
<1>3. CASE call[q].key \notin Invoices /\ call[q].key \notin GuideSales
  BY <1>3, CallEnds DEF AfterDocument
<1> QED BY <1>1, <1>2, <1>3

LEMMA AfterErrorMoves ==
    ASSUME GuideInv, GuideEffect, NEW q \in Requests, call[q].pc # "idle", AfterError(q)
    PROVE  CallEffect
  BY CallGoes, CallEnds DEF AfterError

\* Nothing of the guides or their documents changes.
LEMMA NothingMoves ==
    ASSUME GuideInv, UNCHANGED <<document, guide, reserves, out, annulled, overwritten>>
    PROVE  GuideEffect
  BY DEF GuideInv, GuideTypeOK, GuideEffect, Kept, SameDocument

\* Only the row of one guide changes.
LEMMA RowTurns ==
    ASSUME GuideInv, NEW g \in Guides, NEW row \in GuideRow,
           guide' = [guide EXCEPT ![g] = row],
           UNCHANGED <<document, reserves, out, annulled, overwritten>>,
           \/ guide[g] = NULL /\ row.status = "PENDIENTE"
           \/ /\ guide[g] \in GuideRow /\ row.companion = guide[g].companion
              /\ \/ row.status = guide[g].status
                 \/ guide[g].status = "EMITIDA" /\ row.status = "ANULACION_PENDIENTE"
    PROVE  GuideEffect
<1>1. guide' \in [Guides -> GuideRow \cup {NULL}]
  BY DEF GuideInv, GuideTypeOK
<1>2. ASSUME NEW x \in Guides PROVE Kept(x) \/ Created(x) \/ Turned(x)
  <2>1. CASE x = g
    <3>1. guide'[x] = row
      BY <2>1 DEF GuideInv, GuideTypeOK
    <3> QED BY <2>1, <3>1 DEF Created, Turned, SameDocument
  <2>2. CASE x # g
    BY <2>2 DEF Kept, SameDocument, GuideInv, GuideTypeOK
  <2> QED BY <2>1, <2>2
<1> QED BY <1>1, <1>2 DEF GuideEffect, GuideInv, GuideTypeOK

\* A document is closed, with the listener and what goes back.
LEMMA FinalizeEffect ==
    ASSUME GuideInv, NEW k \in DocumentKeys, NEW status \in {"EMITIDO", "ERROR"},
           FinalizeDocument(k, status), UNCHANGED annulled
    PROVE  GuideEffect
<1>1. document[k] = "PENDIENTE" /\ document' = [document EXCEPT ![k] = status]
  BY DEF FinalizeDocument, Close
<1>2. document' \in [DocumentKeys -> DocumentStatus]
  BY <1>1 DEF GuideInv, GuideTypeOK, DocumentStatus
<1>3. UNCHANGED <<reserves, overwritten>>
  BY DEF FinalizeDocument
<1>4. CASE status = "EMITIDO" /\ k \in Guides /\ IsIn(k, "PENDIENTE")
  <2> DEFINE row == [guide[k] EXCEPT !.status = "EMITIDA", !.linked = TRUE]
  <2>1. guide[k] \in GuideRow
    BY <1>1, <1>4 DEF GuideInv, RowFits
  <2>2. row \in GuideRow /\ row.status = "EMITIDA" /\ row.companion = guide[k].companion
    BY <2>1 DEF GuideRow
  <2>3. guide' = [guide EXCEPT ![k] = row] /\ out' = out
    BY <1>4 DEF FinalizeDocument, Finalized, GuideInv, GuideTypeOK
  <2> HIDE DEF row
  <2>4. guide' \in [Guides -> GuideRow \cup {NULL}]
    BY <2>2, <2>3 DEF GuideInv, GuideTypeOK
  <2>5. ASSUME NEW g \in Guides PROVE Kept(g) \/ Issued(g)
    <3>1. CASE g = k
      <4>1. guide'[g] = row /\ document'[g] = "EMITIDO" /\ guide[g].status = "PENDIENTE"
        BY <1>1, <1>4, <2>3, <3>1 DEF GuideInv, GuideTypeOK, IsIn
      <4> QED BY <1>1, <1>3, <2>1, <2>2, <2>3, <3>1, <4>1 DEF Issued
    <3>2. CASE g # k
      BY <1>1, <1>3, <2>3, <3>2, GuideAssumption DEF Kept, SameDocument, GuideInv, GuideTypeOK
    <3> QED BY <3>1, <3>2
  <2> QED BY <1>2, <1>3, <2>3, <2>4, <2>5 DEF GuideEffect, GuideInv, GuideTypeOK
<1>5. CASE ~(status = "EMITIDO" /\ k \in Guides /\ IsIn(k, "PENDIENTE"))
  <2>1. guide' = guide
    BY <1>5 DEF FinalizeDocument, Finalized
  <2>2. out' \in [Guides -> Int]
    BY GuideAssumption DEF FinalizeDocument, GuideInv, GuideTypeOK
  <2>3. ASSUME NEW g \in Guides PROVE Kept(g) \/ Issued(g) \/ Failed(g)
    <3>1. CASE g = k /\ status = "EMITIDO"
      <4>1. document'[g] = "EMITIDO" /\ out' = out
        BY <1>1, <3>1 DEF FinalizeDocument, GuideInv, GuideTypeOK
      <4>2. guide[g] \in GuideRow
        BY <1>1, <3>1 DEF GuideInv, RowFits
      <4> QED BY <1>1, <1>3, <2>1, <3>1, <4>1, <4>2 DEF Issued
    <3>2. CASE g = k /\ status = "ERROR"
      <4>1. document'[g] = "ERROR"
        BY <1>1, <3>2 DEF GuideInv, GuideTypeOK
      <4>2. reserves[g] = TRUE => out'[g] = out[g] - Dispatched
        BY <3>2 DEF FinalizeDocument, GuideInv, GuideTypeOK
      <4> QED BY <1>1, <1>3, <2>1, <3>2, <4>1, <4>2 DEF Failed
    <3>3. CASE g # k
      <4>1. document'[g] = document[g]
        BY <1>1, <3>3, GuideAssumption DEF GuideInv, GuideTypeOK
      <4>2. out'[g] = out[g]
        BY <3>3 DEF FinalizeDocument, GuideInv, GuideTypeOK
      <4> QED BY <1>3, <2>1, <4>1, <4>2 DEF Kept, SameDocument
    <3> QED BY <3>1, <3>2, <3>3
  <2> QED BY <1>2, <1>3, <2>1, <2>2, <2>3 DEF GuideEffect, GuideInv, GuideTypeOK
<1> QED BY <1>4, <1>5

-----------------------------------------------------------------------------
(* What each action does.                                                  *)

LEMMA LookupDocumentEffects ==
    ASSUME GuideInv, NEW q \in Requests, LookupDocument(q)
    PROVE  Effects
<1> DEFINE k == call[q].key
<1>1. GuideEffect
  BY NothingMoves DEF LookupDocument, documentVars
<1>2. call[q] \in CallRow /\ CallFits(call[q]) /\ call[q].pc = "lookup"
  BY DEF LookupDocument, GuideInv, GuideTypeOK
<1>3. ASSUME NEW saw \in BOOLEAN, saw <=> document[k] = "ERROR", document[k] \in {"NONE", "ERROR"}
      PROVE  CallEffect
  <2> DEFINE c == [call[q] EXCEPT !.pc = "open", !.sawError = saw]
  <2>1. call' = [call EXCEPT ![q].pc = "open", ![q].sawError = (document[k] = "ERROR")]
    BY <1>3 DEF LookupDocument
  <2>2. (document[k] = "ERROR") = saw
    BY <1>3, Zenon
  <2>3. call' = [call EXCEPT ![q].pc = "open", ![q].sawError = saw]
    BY <2>1, <2>2, Zenon
  <2>4. call' = [call EXCEPT ![q] = c]
    BY <2>3 DEF GuideInv, GuideTypeOK
  <2>5. c \in CallRow /\ c.pc = "open" /\ c.key = k /\ c.reserve = call[q].reserve
    BY <1>2 DEF CallRow
  <2> HIDE DEF c
  <2>6. FitsNext(c)
    BY <1>1, <1>2, <2>5, RowsGoOn DEF CallFits, FitsNext
  <2> QED BY <1>1, <2>4, <2>5, <2>6, CallMoves
<1>4. CASE document[k] \notin {"NONE", "ERROR"}
  <2>1. AfterDocument(q)
    BY <1>4 DEF LookupDocument
  <2> QED BY <1>1, <1>2, <2>1, AfterDocumentMoves DEF Effects
<1> QED
  <2>1. document[k] = "ERROR" \/ ~(document[k] = "ERROR")
    OBVIOUS
  <2> QED BY <1>1, <1>3, <1>4, <2>1 DEF Effects

LEMMA OpenDocumentEffects ==
    ASSUME GuideInv, NEW q \in Requests, OpenDocument(q)
    PROVE  Effects
<1> DEFINE k == call[q].key
           c == [call[q] EXCEPT !.pc = "sent", !.sawError = FALSE]
<1>1. call[q] \in CallRow /\ CallFits(call[q]) /\ call[q].pc = "open" /\ k \in DocumentKeys
  BY DEF OpenDocument, GuideInv, GuideTypeOK, CallFits
<1>2. UNCHANGED <<guide, annulled>>
  BY DEF OpenDocument
<1>3. CASE ~Openable(k, call[q].sawError)
  <2>1. AfterDocument(q) /\ UNCHANGED documentVars /\ UNCHANGED out
    BY <1>3 DEF OpenDocument
  <2>2. GuideEffect
    BY <1>2, <2>1, NothingMoves DEF documentVars
  <2> QED BY <1>1, <2>1, <2>2, AfterDocumentMoves DEF Effects
<1>4. CASE Openable(k, call[q].sawError) /\ call[q].reserve /\ ~InStock
  <2>1. AfterError(q) /\ UNCHANGED documentVars /\ UNCHANGED out
    BY <1>4 DEF OpenDocument
  <2>2. GuideEffect
    BY <1>2, <2>1, NothingMoves DEF documentVars
  <2> QED BY <1>1, <2>1, <2>2, AfterErrorMoves DEF Effects
<1>5. CASE Openable(k, call[q].sawError) /\ ~(call[q].reserve /\ ~InStock)
  <2>1. /\ document' = [document EXCEPT ![k] = "PENDIENTE"]
        /\ call' = [call EXCEPT ![q].pc = "sent", ![q].sawError = FALSE]
        /\ reserves' = [reserves EXCEPT ![k] = call[q].reserve]
        /\ out' = IF call[q].reserve THEN [out EXCEPT ![k] = @ + Dispatched] ELSE out
        /\ overwritten' = IF document[k] \in {"PENDIENTE", "EMITIDO"}
                          THEN overwritten \cup {k} ELSE overwritten
    BY <1>5 DEF OpenDocument, Open
  <2>2. document' \in [DocumentKeys -> DocumentStatus]
    BY <1>1, <2>1 DEF GuideInv, GuideTypeOK, DocumentStatus
  <2>3. reserves' \in [DocumentKeys -> BOOLEAN] /\ reserves'[k] = call[q].reserve
    <3>1. ASSUME NEW r \in BOOLEAN, reserves' = [reserves EXCEPT ![k] = r]
          PROVE  reserves' \in [DocumentKeys -> BOOLEAN] /\ reserves'[k] = r
      BY <1>1, <3>1, Zenon DEF GuideInv, GuideTypeOK
    <3>2. call[q].reserve \in BOOLEAN
      BY <1>1 DEF CallRow
    <3> QED BY <2>1, <3>1, <3>2, Zenon
  <2>4. ASSUME NEW x \in DocumentKeys, x # k PROVE reserves'[x] = reserves[x]
    BY <1>1, <2>1, <2>4, Zenon DEF GuideInv, GuideTypeOK
  <2>5. out' \in [Guides -> Int]
    <3>1. CASE k \in Guides
      <4>1. out[k] + Dispatched \in Int
        BY <3>1, GuideAssumption DEF GuideInv, GuideTypeOK
      <4> QED BY <2>1, <4>1 DEF GuideInv, GuideTypeOK
    <3>2. CASE k \notin Guides
      <4>1. out' = out
        BY <2>1, <3>2 DEF GuideInv, GuideTypeOK
      <4> QED BY <4>1 DEF GuideInv, GuideTypeOK
    <3> QED BY <3>1, <3>2
  <2>6. ASSUME NEW g \in Guides PROVE Kept(g) \/ Opened(g)
    <3>0. g \in DocumentKeys
      BY GuideAssumption
    <3>1. CASE g = k
      <4>1. guide[g] \in GuideRow /\ (guide[g].companion \/ call[q].reserve = TRUE)
        BY <1>1, <3>1 DEF CallFits
      <4>2. document'[g] = "PENDIENTE"
        BY <2>1, <3>0, <3>1 DEF GuideInv, GuideTypeOK
      <4>3. call[q].reserve = TRUE => out'[g] = out[g] + Dispatched
        BY <2>1, <3>1 DEF GuideInv, GuideTypeOK
      <4>4. document[g] \in {"PENDIENTE", "EMITIDO"} => g \in overwritten'
        BY <2>1, <3>1
      <4> QED BY <1>2, <2>3, <3>1, <4>1, <4>2, <4>3, <4>4 DEF Opened
    <3>2. CASE g # k
      <4>1. document'[g] = document[g] /\ out'[g] = out[g]
        BY <2>1, <3>0, <3>2 DEF GuideInv, GuideTypeOK
      <4> QED BY <1>2, <2>4, <3>0, <3>2, <4>1 DEF Kept, SameDocument
    <3> QED BY <3>1, <3>2
  <2>7. GuideEffect
    <3>1. guide' \in [Guides -> GuideRow \cup {NULL}] /\ annulled' \subseteq Guides
      BY <1>2 DEF GuideInv, GuideTypeOK
    <3>2. overwritten \subseteq overwritten'
      BY <2>1
    <3> QED BY <1>2, <2>2, <2>3, <2>5, <2>6, <3>1, <3>2 DEF GuideEffect
  <2>8. call' = [call EXCEPT ![q] = c]
    BY <2>1 DEF GuideInv, GuideTypeOK
  <2>9. c \in CallRow /\ c.pc = "sent" /\ c.key = k
    BY <1>1 DEF CallRow
  <2> HIDE DEF c
  <2>10. FitsNext(c)
    BY <1>1, <2>7, <2>9, RowsGoOn DEF CallFits, FitsNext
  <2> QED BY <2>7, <2>8, <2>9, <2>10, CallMoves DEF Effects
<1> QED BY <1>3, <1>4, <1>5

LEMMA SendDocumentEffects ==
    ASSUME GuideInv, NEW q \in Requests, SendDocument(q)
    PROVE  Effects
<1> DEFINE k == call[q].key
<1>1. call[q].pc # "idle" /\ k \in DocumentKeys /\ UNCHANGED annulled
  BY DEF SendDocument, GuideInv, CallFits
<1>2. CASE AfterDocument(q) /\ UNCHANGED documentVars /\ UNCHANGED <<guide, out>>
  <2>1. GuideEffect
    BY <1>1, <1>2, NothingMoves DEF documentVars
  <2> QED BY <1>1, <1>2, <2>1, AfterDocumentMoves DEF Effects
<1>3. CASE FinalizeDocument(k, "EMITIDO") /\ AfterDocument(q)
  BY <1>1, <1>3, FinalizeEffect, AfterDocumentMoves DEF Effects
<1>4. CASE FinalizeDocument(k, "ERROR") /\ AfterError(q)
  BY <1>1, <1>4, FinalizeEffect, AfterErrorMoves DEF Effects
<1> QED BY <1>2, <1>3, <1>4 DEF SendDocument

LEMMA PollDocumentEffects ==
    ASSUME GuideInv, NEW k \in DocumentKeys, PollDocument(k)
    PROVE  Effects
<1>1. GuideEffect
  BY FinalizeEffect DEF PollDocument
<1> QED BY <1>1, CallsStay DEF PollDocument, Effects

LEMMA CreateGuideEffects ==
    ASSUME GuideInv, NEW q \in Requests, NEW g \in Guides, CreateGuide(q, g)
    PROVE  Effects
<1>1. PICK companion \in Companions :
        /\ guide' = [guide EXCEPT ![g] =
              [status |-> "PENDIENTE", linked |-> FALSE, companion |-> companion]]
        /\ call' = [call EXCEPT ![q] =
              [Idle EXCEPT !.pc = "lookup", !.key = g, !.reserve = ~companion]]
  BY DEF CreateGuide
<1> DEFINE row == [status |-> "PENDIENTE", linked |-> FALSE, companion |-> companion]
           c == [Idle EXCEPT !.pc = "lookup", !.key = g, !.reserve = ~companion]
<1>2. companion \in BOOLEAN /\ g \in DocumentKeys
  BY GuideAssumption
<1>3. row \in GuideRow /\ row.status = "PENDIENTE" /\ row.companion = companion
  BY <1>2 DEF GuideRow
<1>4. c \in CallRow /\ c.pc = "lookup" /\ c.key = g /\ c.reserve = ~companion
  BY <1>2 DEF CallRow, Idle
<1>5. guide' = [guide EXCEPT ![g] = row] /\ call' = [call EXCEPT ![q] = c]
  BY <1>1
<1> HIDE DEF row, c
<1>6. GuideEffect
  BY <1>3, <1>5, RowTurns DEF CreateGuide, documentVars
<1>7. guide'[g] = row
  BY <1>5 DEF GuideInv, GuideTypeOK
<1>8. FitsNext(c)
  <2>1. companion \/ c.reserve = TRUE
    BY <1>2, <1>4
  <2> QED BY <1>2, <1>3, <1>4, <1>7, <2>1 DEF FitsNext
<1> QED BY <1>4, <1>5, <1>6, <1>8, CallMoves DEF Effects

LEMMA LinkGuideEffects ==
    ASSUME GuideInv, NEW q \in Requests, LinkGuide(q)
    PROVE  Effects
<1> DEFINE g == call[q].key
           row == [guide[g] EXCEPT !.linked = TRUE]
<1>1. g \in Guides /\ guide[g] \in GuideRow
  BY DEF LinkGuide, GuideInv, CallFits
<1>2. row \in GuideRow /\ row.status = guide[g].status /\ row.companion = guide[g].companion
  BY <1>1 DEF GuideRow
<1>3. GuideEffect
  <2>1. CASE document[g] = "NONE"
    BY <2>1, NothingMoves DEF LinkGuide, documentVars
  <2>2. CASE document[g] # "NONE"
    <3>1. guide' = [guide EXCEPT ![g] = row]
      BY <2>2 DEF LinkGuide, GuideInv, GuideTypeOK
    <3> HIDE DEF row
    <3> QED BY <1>1, <1>2, <3>1, RowTurns DEF LinkGuide, documentVars
  <2> QED BY <2>1, <2>2
<1> QED BY <1>3, CallEnds DEF LinkGuide, Effects

LEMMA ReconcileGuideEffects ==
    ASSUME GuideInv, NEW q \in Requests, NEW g \in Guides, ReconcileGuide(q, g)
    PROVE  Effects
<1>1. GuideEffect
  BY NothingMoves DEF ReconcileGuide, documentVars
<1>2. guide[g] \in GuideRow /\ g \in DocumentKeys
  BY GuideAssumption DEF ReconcileGuide, IsIn, GuideInv, GuideTypeOK
<1>3. guide' = guide
  BY DEF ReconcileGuide
<1>4. ASSUME NEW pc \in {"sent", "lookup"},
             call' = [call EXCEPT ![q] = [Idle EXCEPT !.key = g, !.reserve = TRUE, !.pc = pc]]
      PROVE  CallEffect
  <2> DEFINE c == [Idle EXCEPT !.key = g, !.reserve = TRUE, !.pc = pc]
  <2>1. c \in CallRow /\ c.pc = pc /\ c.key = g /\ c.reserve = TRUE
    BY <1>2 DEF CallRow, Idle
  <2> HIDE DEF c
  <2>2. FitsNext(c)
    BY <1>2, <1>3, <2>1 DEF FitsNext
  <2> QED BY <1>1, <1>4, <2>1, <2>2, CallMoves DEF c
<1>5. CASE /\ IsIn(g, "ANULACION_PENDIENTE")
           /\ call' = [call EXCEPT ![q] = [Idle EXCEPT !.key = g, !.pc = "annul"]]
  <2> DEFINE c == [Idle EXCEPT !.key = g, !.pc = "annul"]
  <2>1. c \in CallRow /\ c.pc = "annul" /\ c.key = g
    BY <1>2 DEF CallRow, Idle
  <2> HIDE DEF c
  <2>2. FitsNext(c)
    BY <1>2, <1>3, <1>5, <2>1 DEF FitsNext, IsIn, Annulling
  <2> QED BY <1>1, <1>5, <2>1, <2>2, CallMoves DEF c, Effects
<1> QED BY <1>1, <1>4, <1>5 DEF ReconcileGuide, Effects

LEMMA AnnulGuideEffects ==
    ASSUME GuideInv, NEW q \in Requests, NEW g \in Guides, AnnulGuide(q, g)
    PROVE  Effects
<1> DEFINE row == [guide[g] EXCEPT !.status = "ANULACION_PENDIENTE"]
           c == [Idle EXCEPT !.key = g, !.pc = "annul"]
<1>1. guide[g] \in GuideRow /\ guide[g].status = "EMITIDA" /\ g \in DocumentKeys
  BY GuideAssumption DEF AnnulGuide, IsIn, GuideInv, GuideTypeOK
<1>2. row \in GuideRow /\ row.status = "ANULACION_PENDIENTE" /\ row.companion = guide[g].companion
  BY <1>1 DEF GuideRow
<1>3. c \in CallRow /\ c.pc = "annul" /\ c.key = g
  BY <1>1 DEF CallRow, Idle
<1>4. guide' = [guide EXCEPT ![g] = row] /\ call' = [call EXCEPT ![q] = c]
  BY DEF AnnulGuide, GuideInv, GuideTypeOK
<1> HIDE DEF row, c
<1>5. GuideEffect
  BY <1>1, <1>2, <1>4, RowTurns DEF AnnulGuide, documentVars
<1>6. guide'[g] = row
  BY <1>4 DEF GuideInv, GuideTypeOK
<1>7. FitsNext(c)
  BY <1>1, <1>2, <1>3, <1>6 DEF FitsNext, Annulling
<1> QED BY <1>3, <1>4, <1>5, <1>7, CallMoves DEF Effects

LEMMA AskAnnulmentEffects ==
    ASSUME GuideInv, NEW q \in Requests, AskAnnulment(q)
    PROVE  Effects
<1> DEFINE g == call[q].key
           c == [call[q] EXCEPT !.pc = "confirm"]
<1>1. /\ call[q] \in CallRow /\ CallFits(call[q]) /\ g \in DocumentKeys
      /\ g \in Guides /\ guide[g] \in GuideRow /\ guide[g].status \in Annulling
  BY DEF AskAnnulment, GuideInv, GuideTypeOK, CallFits
<1>2. GuideEffect
  <2>1. annulled \subseteq annulled' /\ annulled' \subseteq annulled \cup {g}
    BY DEF AskAnnulment
  <2>2. UNCHANGED <<document, guide, reserves, out, overwritten>>
    BY DEF AskAnnulment, documentVars
  <2> QED BY <1>1, <2>1, <2>2 DEF GuideEffect, GuideInv, GuideTypeOK, Kept, SameDocument
<1>3. CASE annulled' = annulled \cup {g} /\ Goes(q, "confirm")
  <2>1. call' = [call EXCEPT ![q] = c]
    BY <1>3 DEF Goes, GuideInv, GuideTypeOK
  <2>2. c \in CallRow /\ c.pc = "confirm" /\ c.key = g
    BY <1>1 DEF CallRow
  <2> HIDE DEF c
  <2>3. FitsNext(c)
    BY <1>1, <1>2, <1>3, <2>2, RowsGoOn DEF FitsNext
  <2> QED BY <1>2, <2>1, <2>2, <2>3, CallMoves DEF Effects
<1>4. CASE Ends(q)
  BY <1>2, <1>4, CallEnds DEF Effects
<1> QED BY <1>3, <1>4 DEF AskAnnulment

LEMMA ConfirmAnulacionEffects ==
    ASSUME GuideInv, NEW q \in Requests, ConfirmAnulacion(q)
    PROVE  Effects
<1> DEFINE g == call[q].key
           row == [guide[g] EXCEPT !.status = "ANULADA"]
<1>1. g \in Guides /\ guide[g] \in GuideRow /\ g \in annulled
  BY DEF ConfirmAnulacion, GuideInv, CallFits
<1>2. UNCHANGED <<document, reserves, overwritten, annulled>>
  BY DEF ConfirmAnulacion, documentVars
<1>3. GuideEffect
  <2>1. CASE IsIn(g, "ANULACION_PENDIENTE") /\ ~Cited(g)
    <3>1. row \in GuideRow /\ row.status = "ANULADA" /\ row.companion = guide[g].companion
      BY <1>1 DEF GuideRow
    <3>2. guide' = [guide EXCEPT ![g] = row] /\ out' = [out EXCEPT ![g] = out[g] - Dispatched]
      BY <2>1 DEF ConfirmAnulacion, GuideInv, GuideTypeOK
    <3> HIDE DEF row
    <3>3. guide' \in [Guides -> GuideRow \cup {NULL}]
      BY <3>1, <3>2 DEF GuideInv, GuideTypeOK
    <3>4. out' \in [Guides -> Int]
      <4>1. out[g] - Dispatched \in Int
        BY <1>1, GuideAssumption DEF GuideInv, GuideTypeOK
      <4> QED BY <3>2, <4>1 DEF GuideInv, GuideTypeOK
    <3>5. ASSUME NEW x \in Guides PROVE Kept(x) \/ Annulled(x)
      <4>1. CASE x = g
        <5>1. guide'[x] = row /\ out'[x] = out[x] - Dispatched
          BY <3>2, <4>1 DEF GuideInv, GuideTypeOK
        <5> QED BY <1>1, <1>2, <2>1, <3>1, <4>1, <5>1 DEF Annulled, IsIn
      <4>2. CASE x # g
        BY <1>2, <3>2, <4>2 DEF Kept, SameDocument, GuideInv, GuideTypeOK
      <4> QED BY <4>1, <4>2
    <3> QED BY <1>2, <3>3, <3>4, <3>5 DEF GuideEffect, GuideInv, GuideTypeOK
  <2>2. CASE ~(IsIn(g, "ANULACION_PENDIENTE") /\ ~Cited(g))
    BY <1>2, <2>2, NothingMoves DEF ConfirmAnulacion
  <2> QED BY <2>1, <2>2
<1> QED BY <1>3, CallEnds DEF ConfirmAnulacion, Effects

LEMMA StartBillEffects ==
    ASSUME GuideInv, NEW q \in Requests, NEW b \in Bills, NEW G \in SUBSET Guides,
           NEW units \in Nat, StartBill(q, b, G, units)
    PROVE  Effects
<1>1. GuideEffect
  BY NothingMoves DEF StartBill, documentVars
<1> DEFINE c == [Idle EXCEPT !.pc = "lookup", !.key = b, !.guides = G, !.units = units]
<1>2. b \in DocumentKeys /\ b \notin Guides
  BY GuideAssumption DEF Bills
<1>3. c \in CallRow /\ c.pc = "lookup" /\ c.key = b
  BY <1>2 DEF CallRow, Idle
<1>4. call' = [call EXCEPT ![q] = c]
  BY DEF StartBill
<1> HIDE DEF c
<1>5. FitsNext(c)
  BY <1>2, <1>3 DEF FitsNext
<1> QED BY <1>1, <1>3, <1>4, <1>5, CallMoves DEF Effects

\* What only moves a bill leaves the guides as they are.
LEMMA BillEffects ==
    ASSUME GuideInv, NEW q \in Requests, SaveReferences(q) \/ PersistGuideSale(q)
    PROVE  Effects
<1>1. UNCHANGED documentVars /\ UNCHANGED <<guide, out, annulled>> /\ Ends(q)
  BY DEF SaveReferences, PersistGuideSale
<1>2. GuideEffect
  BY <1>1, NothingMoves DEF documentVars
<1> QED BY <1>1, <1>2, CallEnds DEF Effects

LEMMA RestartEffects ==
    ASSUME GuideInv, Restart
    PROVE  Effects
<1>1. GuideEffect
  BY NothingMoves DEF Restart, documentVars
<1>2. CallEffect
  BY IdleFits DEF Restart, CallEffect
<1> QED BY <1>1, <1>2 DEF Effects

\* Every step has these effects.
LEMMA StepEffects ==
    ASSUME GuideInv, [GuideNext]_guideVars
    PROVE  Effects
<1>1. ASSUME NEW q \in Requests, NEW g \in Guides,
             CreateGuide(q, g) \/ ReconcileGuide(q, g) \/ AnnulGuide(q, g)
      PROVE  Effects
  BY <1>1, CreateGuideEffects, ReconcileGuideEffects, AnnulGuideEffects
<1>2. ASSUME NEW q \in Requests, NEW b \in Invoices, NEW G \in SUBSET Guides,
             InvoiceGuides(q, b, G)
      PROVE  Effects
  <2>1. b \in Bills
    BY DEF Bills
  <2>2. G # {} => MapGuidesToInvoice(G) \in Nat
    BY FS_CardinalityType, FS_Subset, GuideAssumption DEF MapGuidesToInvoice
  <2> QED BY <1>2, <2>1, <2>2, StartBillEffects DEF InvoiceGuides, StartBill
<1>3. ASSUME NEW q \in Requests, NEW b \in GuideSales, NEW G \in SUBSET Guides,
             NEW n \in 1..Dispatched, SellGuides(q, b, G, n)
      PROVE  Effects
  <2>1. b \in Bills /\ n \in Nat
    BY GuideAssumption DEF Bills
  <2> QED BY <1>3, <2>1, StartBillEffects DEF SellGuides
<1>4. ASSUME NEW q \in Requests,
             \/ LookupDocument(q) \/ OpenDocument(q) \/ SendDocument(q) \/ LinkGuide(q)
             \/ AskAnnulment(q) \/ ConfirmAnulacion(q) \/ SaveReferences(q) \/ PersistGuideSale(q)
      PROVE  Effects
  BY <1>4, LookupDocumentEffects, OpenDocumentEffects, SendDocumentEffects, LinkGuideEffects,
     AskAnnulmentEffects, ConfirmAnulacionEffects, BillEffects
<1>5. ASSUME NEW k \in DocumentKeys, PollDocument(k) PROVE Effects
  BY <1>5, PollDocumentEffects
<1>6. CASE Restart
  BY <1>6, RestartEffects
<1>7. CASE UNCHANGED guideVars
  <2>1. UNCHANGED <<document, guide, reserves, out, annulled, overwritten>> /\ UNCHANGED call
    BY <1>7 DEF guideVars
  <2> QED BY <2>1, NothingMoves, CallsStay DEF Effects
<1> QED BY <1>1, <1>2, <1>3, <1>4, <1>5, <1>6, <1>7 DEF GuideNext

-----------------------------------------------------------------------------
LEMMA GuideInitInv == GuideInit => GuideInv
<1> SUFFICES ASSUME GuideInit PROVE GuideInv
  OBVIOUS
<1>1. GuideTypeOK
  BY IdleFits DEF GuideInit, DteInit, GuideTypeOK, DocumentStatus
<1>2. \A q \in Requests : CallFits(call[q])
  BY DEF GuideInit, Idle, CallFits
<1>3. ASSUME NEW g \in Guides PROVE RowFits(g) /\ StockFits(g)
  <2>1. document[g] = "NONE" /\ guide[g] = NULL /\ out[g] = 0 /\ annulled = {}
    BY GuideAssumption DEF GuideInit, DteInit
  <2> QED BY <2>1, GuideNullAssumption DEF RowFits, StockFits, IsIn
<1> QED BY <1>1, <1>2, <1>3 DEF GuideInv

\* A step that opens a document that is PENDIENTE or EMITIDO sets its guide
\* apart; any other leaves its stock as it should be.
LEMMA StockGoesOn ==
    ASSUME GuideInv, GuideEffect, NEW g \in Guides, g \notin overwritten'
    PROVE  StockFits(g)'
<1>1. g \notin overwritten /\ StockFits(g) /\ RowFits(g) /\ g \in DocumentKeys
  BY GuideAssumption DEF GuideEffect, GuideInv
<1>2. out[g] \in Int /\ Dispatched \in Int
  BY GuideAssumption DEF GuideInv, GuideTypeOK
<1>3. guide[g] \in GuideRow \/ guide[g] = NULL
  BY DEF GuideInv, GuideTypeOK
<1>4. CASE Kept(g)
  BY <1>1, <1>4 DEF Kept, SameDocument, StockFits, IsIn
<1>5. CASE Created(g)
  BY <1>1, <1>5, GuideNullAssumption DEF Created, SameDocument, StockFits, RowFits, IsIn
<1>6. CASE Turned(g)
  BY <1>1, <1>6, GuideNullAssumption DEF Turned, SameDocument, StockFits, IsIn
<1>7. CASE Opened(g)
  <2>1. document[g] \notin {"PENDIENTE", "EMITIDO"}
    BY <1>7 DEF Opened
  <2>2. guide[g].status = "PENDIENTE" /\ ~IsIn(g, "ANULADA")
    BY <1>1, <1>7, <2>1 DEF Opened, StockFits, IsIn
  <2> QED BY <1>1, <1>2, <1>7, <2>1, <2>2, GuideNullAssumption DEF Opened, StockFits, IsIn
<1>8. CASE Issued(g)
  BY <1>1, <1>8, GuideNullAssumption DEF Issued, StockFits, IsIn
<1>9. CASE Failed(g)
  <2>1. guide[g] \in GuideRow /\ guide[g].status = "PENDIENTE"
    BY <1>1, <1>9 DEF Failed, RowFits, StockFits
  <2> QED BY <1>1, <1>2, <1>9, <2>1, GuideNullAssumption DEF Failed, StockFits, IsIn
<1>10. CASE Annulled(g)
  BY <1>1, <1>2, <1>10, GuideNullAssumption DEF Annulled, StockFits, IsIn
<1> QED BY <1>4, <1>5, <1>6, <1>7, <1>8, <1>9, <1>10 DEF GuideEffect

LEMMA RowGoesOn ==
    ASSUME GuideInv, GuideEffect, NEW g \in Guides
    PROVE  RowFits(g)'
<1>1. RowFits(g) /\ (guide[g] \in GuideRow \/ guide[g] = NULL)
  BY DEF GuideInv, GuideTypeOK
<1>2. document'[g] # "NONE" => guide'[g] \in GuideRow
  BY <1>1, GuideNullAssumption DEF GuideEffect, RowFits, Kept, Created, Turned, Opened,
     Issued, Failed, Annulled, SameDocument
<1>3. IsIn(g, "ANULADA")' => g \in annulled'
  BY <1>1, GuideNullAssumption DEF GuideEffect, RowFits, Kept, Created, Turned, Opened,
     Issued, Failed, Annulled, SameDocument, IsIn
<1>4. g \in annulled' => guide'[g] \in GuideRow /\ guide'[g].status \in Annulling
  <2>1. g \in annulled' => guide[g] \in GuideRow /\ guide[g].status \in Annulling
    BY <1>1 DEF GuideEffect, RowFits
  <2> QED BY <2>1, RowsGoOn
<1> QED BY <1>2, <1>3, <1>4 DEF RowFits

LEMMA GuideStepInv == GuideInv /\ [GuideNext]_guideVars => GuideInv'
<1> SUFFICES ASSUME GuideInv, [GuideNext]_guideVars PROVE GuideInv'
  OBVIOUS
<1>1. GuideEffect /\ CallEffect
  BY StepEffects DEF Effects
<1>2. GuideTypeOK'
  BY <1>1 DEF GuideTypeOK, GuideEffect, CallEffect
<1>3. \A q \in Requests : CallFits(call[q])'
  BY <1>1 DEF CallEffect, CallFits, FitsNext
<1> QED BY <1>1, <1>2, <1>3, RowGoesOn, StockGoesOn DEF GuideInv

\* GuideInv holds of every behaviour of the guides.
THEOREM GuideInvariant == GuideSpec => []GuideInv
  BY GuideInitInv, GuideStepInv, PTL DEF GuideSpec

\* The rows, requests and documents of guides have their shapes.
THEOREM GuideTypeCorrect == GuideSpec => []GuideTypeOK
<1>1. GuideInv => GuideTypeOK
  BY DEF GuideInv
<1> QED BY <1>1, GuideInvariant, PTL

\* Whatever fails, races or is asked again, the stock of a guide is out once,
\* and exactly while its document is under way or issued and it is not ANULADA.
THEOREM GuideTakesItsStockHolds == GuideSpec => []GuideTakesItsStock
<1>1. GuideInv => GuideTakesItsStock
  BY DEF GuideInv, StockFits, GuideTakesItsStock
<1> QED BY <1>1, GuideInvariant, PTL

\* A guide is ANULADA only if Openfactura annulled it, and what it annulled is
\* ANULADA or on its way to be.
THEOREM AnnulmentsAreConfirmedHolds == GuideSpec => []AnnulmentsAreConfirmed
<1>1. GuideInv => AnnulmentsAreConfirmed
  BY DEF GuideInv, RowFits, AnnulmentsAreConfirmed, Annulling
<1> QED BY <1>1, GuideInvariant, PTL

-----------------------------------------------------------------------------
(* What the bills take of a guide.                                         *)

BillsInv ==
    /\ consumed \in [Guides -> [Bills -> Nat]]
    /\ SalesWithinGuides

\* One bill takes some units of some guides: an invoice, or a sale that finds
\* them there.
Billed ==
    \E b \in Bills, G \in SUBSET Guides :
        \E plan \in [G -> Nat] :
            /\ Reference(G, b, plan)
            /\ b \in GuideSales => \A g \in G : plan[g] <= Remaining(g)

\* Only SaveReferences and PersistGuideSale consume, each for one bill.
LEMMA BillSteps ==
    ASSUME GuideInv, [GuideNext]_guideVars
    PROVE  UNCHANGED consumed \/ Billed
<1>1. ASSUME NEW q \in Requests, SaveReferences(q) PROVE Billed
  <2>1. call[q] \in CallRow /\ call[q].key \in Invoices
    BY <1>1 DEF GuideInv, GuideTypeOK, CallFits, SaveReferences
  <2>2. PICK G \in SUBSET Guides : G = call[q].guides
    BY <2>1 DEF CallRow
  <2>3. [g \in G |-> Dispatched] \in [G -> Nat]
    BY GuideAssumption
  <2>4. Reference(G, call[q].key, [g \in G |-> Dispatched])
    BY <1>1, <2>2 DEF SaveReferences
  <2>5. call[q].key \in Bills /\ call[q].key \notin GuideSales
    BY <2>1, GuideAssumption DEF Bills
  <2> QED BY <2>3, <2>4, <2>5 DEF Billed
<1>2. ASSUME NEW q \in Requests, PersistGuideSale(q) PROVE UNCHANGED consumed \/ Billed
  <2>1. CASE call[q].key \notin sold /\ Billable(call[q].guides, call[q].units)
    <3>1. call[q] \in CallRow /\ call[q].key \in GuideSales
      BY <1>2 DEF GuideInv, GuideTypeOK, CallFits, PersistGuideSale
    <3>2. PICK G \in SUBSET Guides : G = call[q].guides
      BY <3>1 DEF CallRow
    <3>3. PICK plan \in Plans(G, call[q].units) : Reference(G, call[q].key, plan)
      BY <1>2, <2>1, <3>2 DEF PersistGuideSale
    <3>4. plan \in [G -> Nat] /\ \A g \in G : plan[g] <= Remaining(g)
      <4>1. call[q].units \in Nat
        BY <3>1 DEF CallRow
      <4>2. 0..call[q].units \subseteq Nat
        BY <4>1
      <4> QED BY <3>3, <4>2 DEF Plans
    <3>5. call[q].key \in Bills
      BY <3>1 DEF Bills
    <3> QED BY <3>3, <3>4, <3>5 DEF Billed
  <2>2. CASE ~(call[q].key \notin sold /\ Billable(call[q].guides, call[q].units))
    BY <1>2, <2>2 DEF PersistGuideSale, billVars
  <2> QED BY <2>1, <2>2
<1>3. CASE UNCHANGED guideVars
  BY <1>3 DEF guideVars
<1>4. CASE GuideNext
  <2>1. \/ UNCHANGED billVars
        \/ \E q \in Requests : SaveReferences(q) \/ PersistGuideSale(q)
    BY <1>4 DEF GuideNext, CreateGuide, ReconcileGuide, AnnulGuide, InvoiceGuides, SellGuides,
       StartBill, LookupDocument, OpenDocument, SendDocument, LinkGuide, AskAnnulment,
       ConfirmAnulacion, PollDocument, Restart
  <2> QED BY <1>1, <1>2, <2>1 DEF billVars
<1> QED BY <1>3, <1>4

\* Units taken of a guide, by its sales and by whatever bills it.
LEMMA SumsOfBills ==
    ASSUME NEW taken \in [Bills -> Nat]
    PROVE  /\ SumFunctionOnSet(taken, GuideSales) \in Nat
           /\ SumFunction(taken) \in Nat
           /\ SumFunctionOnSet(taken, GuideSales) <= SumFunction(taken)
<1>1. /\ IsFiniteSet(GuideSales) /\ IsFiniteSet(Invoices) /\ IsFiniteSet(Bills)
      /\ GuideSales \cap Invoices = {} /\ GuideSales \cup Invoices = Bills
  BY GuideAssumption, FS_Subset DEF Bills
<1>2. /\ \A b \in Bills : taken[b] \in Nat
      /\ DOMAIN taken = Bills
  OBVIOUS
<1>3. /\ SumFunctionOnSet(taken, GuideSales) \in Nat
      /\ SumFunctionOnSet(taken, Invoices) \in Nat
  BY <1>1, <1>2, SumNat
<1>4. \A b \in GuideSales \cup Invoices : taken[b] \in Int
  BY <1>1, <1>2
<1>5. SumFunctionOnSet(taken, GuideSales \cup Invoices) =
        SumFunctionOnSet(taken, GuideSales) + SumFunctionOnSet(taken, Invoices)
  BY <1>1, <1>4, SumUnion
<1>6. SumFunction(taken) = SumFunctionOnSet(taken, Bills)
  BY <1>2, SumWhole
<1>7. SumFunction(taken) =
        SumFunctionOnSet(taken, GuideSales) + SumFunctionOnSet(taken, Invoices)
  BY <1>1, <1>5, <1>6
<1> QED BY <1>3, <1>7

\* A sale takes no more than it finds in its guides, whatever was consumed meanwhile.
LEMMA BillsKept ==
    ASSUME BillsInv, Billed
    PROVE  BillsInv'
<1>1. PICK b \in Bills, G \in SUBSET Guides :
        \E plan \in [G -> Nat] :
            /\ Reference(G, b, plan)
            /\ b \in GuideSales => \A g \in G : plan[g] <= Remaining(g)
  BY DEF Billed
<1>2. PICK plan \in [G -> Nat] :
            /\ Reference(G, b, plan)
            /\ b \in GuideSales => \A g \in G : plan[g] <= Remaining(g)
  BY <1>1
<1>3. ASSUME NEW g \in Guides
      PROVE  /\ consumed'[g] \in [Bills -> Nat]
             /\ SumFunctionOnSet(consumed'[g], GuideSales) <= Dispatched
  <2> DEFINE was == consumed[g]
  <2>1. was \in [Bills -> Nat] /\ SumFunctionOnSet(was, GuideSales) <= Dispatched
    BY DEF BillsInv, SalesWithinGuides
  <2>2. CASE g \notin G
    <3>1. consumed'[g] = was
      BY <1>2, <2>2 DEF Reference
    <3> QED BY <2>1, <3>1
  <2>3. CASE g \in G
    <3> DEFINE now == [was EXCEPT ![b] = @ + plan[g]]
    <3>1. consumed'[g] = now
      BY <1>2, <2>3 DEF Reference
    <3>2. plan[g] \in Nat
      BY <2>3
    <3>3. /\ \A x \in Bills : was[x] \in Nat
          /\ now \in [Bills -> Nat] /\ now[b] = was[b] + plan[g]
          /\ \A x \in Bills : x # b => now[x] = was[x]
      BY <2>1, <3>2
    <3> HIDE DEF now
    <3>4. IsFiniteSet(GuideSales) /\ GuideSales \subseteq Bills
      BY GuideAssumption, FS_Subset DEF Bills
    <3>5. CASE b \notin GuideSales
      <4>1. \A x \in GuideSales : now[x] = was[x]
        BY <3>3, <3>4, <3>5
      <4>2. SumFunctionOnSet(now, GuideSales) = SumFunctionOnSet(was, GuideSales)
        BY <3>4, <4>1, SumSame
      <4> QED BY <2>1, <3>1, <3>3, <4>2
    <3>6. CASE b \in GuideSales
      <4>1. plan[g] <= Remaining(g)
        BY <1>2, <2>3, <3>6
      <4>2. \A x \in GuideSales :
                was[x] \in Int /\ now[x] \in Int /\ (x # b => now[x] = was[x])
        BY <3>3, <3>4
      <4>3. SumFunctionOnSet(now, GuideSales) =
              SumFunctionOnSet(was, GuideSales) - was[b] + now[b]
        BY <3>4, <3>6, <4>2, SumChange
      <4>4. Remaining(g) = IF Dispatched > SumFunction(was)
                           THEN Dispatched - SumFunction(was) ELSE 0
        BY DEF Remaining, ConsumedOf
      <4>5. /\ SumFunctionOnSet(was, GuideSales) \in Nat /\ SumFunction(was) \in Nat
            /\ SumFunctionOnSet(was, GuideSales) <= SumFunction(was)
        BY <2>1, SumsOfBills
      <4>6. was[b] \in Nat /\ now[b] = was[b] + plan[g] /\ Dispatched \in Nat
        BY <3>3, GuideAssumption
      <4> HIDE DEF was
      <4>7. SumFunctionOnSet(now, GuideSales) <= Dispatched
        BY <2>1, <3>2, <4>1, <4>3, <4>4, <4>5, <4>6
      <4> QED BY <3>1, <3>3, <4>7
    <3> QED BY <3>5, <3>6
  <2> QED BY <2>2, <2>3
<1>4. consumed' = [g \in Guides |-> consumed'[g]]
  BY <1>2 DEF Reference
<1>5. consumed' \in [Guides -> [Bills -> Nat]]
  BY <1>3, <1>4
<1> QED BY <1>3, <1>5 DEF BillsInv, SalesWithinGuides

\* Nothing is consumed at the start.
LEMMA BillsStart == GuideInit => BillsInv
<1> SUFFICES ASSUME GuideInit PROVE BillsInv
  OBVIOUS
<1>1. consumed = [g \in Guides |-> [b \in Bills |-> 0]]
  BY DEF GuideInit
<1>2. ASSUME NEW g \in Guides PROVE SumFunctionOnSet(consumed[g], GuideSales) <= Dispatched
  <2>1. IsFiniteSet(GuideSales) /\ \A b \in GuideSales : consumed[g][b] = 0
    BY <1>1, GuideAssumption, FS_Subset DEF Bills
  <2>2. SumFunctionOnSet(consumed[g], GuideSales) = 0
    BY <2>1, SumZero
  <2> QED BY <2>2, GuideAssumption
<1> QED BY <1>1, <1>2 DEF BillsInv, SalesWithinGuides

\* However many sales bill a guide at a time, and invoices besides, the sales
\* together take no more of it than it dispatched: each plans over what the
\* references leave once it has the guides (persistElectronicSale).
THEOREM SalesWithinGuidesHolds == GuideSpec => []SalesWithinGuides
<1>1. GuideInv /\ BillsInv /\ [GuideNext]_guideVars => BillsInv'
  <2> SUFFICES ASSUME GuideInv, BillsInv, [GuideNext]_guideVars PROVE BillsInv'
    OBVIOUS
  <2>1. CASE UNCHANGED consumed
    BY <2>1 DEF BillsInv, SalesWithinGuides
  <2> QED BY <2>1, BillSteps, BillsKept
<1>2. BillsInv => SalesWithinGuides
  BY DEF BillsInv
<1> QED BY <1>1, <1>2, BillsStart, GuideInvariant, PTL DEF GuideSpec
===============================================================================

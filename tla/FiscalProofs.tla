----------------------------- MODULE FiscalProofs -----------------------------
(***************************************************************************)
(* Theorems about FiscalFlow for every set of keys and requests, every     *)
(* quantity and any number of requests lost half-way.  Stock is never      *)
(* expanded: what is proved does not depend on how much there is.          *)
(***************************************************************************)
EXTENDS FiscalFlow, TLAPS

-----------------------------------------------------------------------------
(* Type correctness.                                                       *)

CallType(c) == c \in CallRow /\ (c.pc # "idle" => c.key \in Keys)

LEMMA IdleType == CallType(Idle)
  BY DEF CallType, Idle, CallRow

\* A request that is given a row is left with one.
LEMMA CallWritten ==
    ASSUME call \in [Calls -> CallRow],
           \A p \in Calls : call[p].pc # "idle" => call[p].key \in Keys,
           NEW q \in Calls, NEW c, CallType(c),
           call' = [call EXCEPT ![q] = c]
    PROVE  /\ call' \in [Calls -> CallRow]
           /\ \A p \in Calls : call'[p].pc # "idle" => call'[p].key \in Keys
  BY DEF CallType

LEMMA ArrivedType ==
    ASSUME NEW flow \in {"none", "document", "sale", "convert", "confirm", "reconcile"},
           NEW pc \in {"lookup", "getting", "confirm", "persist", "finish"},
           NEW k \in Keys, NEW n \in Quantities \cup {0}
    PROVE  CallType(Arrived(flow, pc, k, n))
  BY DEF CallType, Arrived, Idle, CallRow

LEMMA AnsweredType ==
    ASSUME NEW c \in CallRow, c.key \in Keys, NEW status
    PROVE  CallType(Answered(c, status))
<1>1. c.items \in Quantities \cup {0}
      /\ c.flow \in {"none", "document", "sale", "convert", "confirm", "reconcile"}
  BY DEF CallRow
<1> QED
  BY <1>1, IdleType, ArrivedType DEF Answered

\* Only the requests change in this step.
CallsOnly == UNCHANGED <<doc, sale, taken, ledger, drawer, fiscal, failures>>

LEMMA CallsOnlyType ==
    ASSUME TypeOK, CallsOnly, NEW q \in Calls, NEW c, CallType(c),
           call' = [call EXCEPT ![q] = c]
    PROVE  TypeOK'
  BY CallWritten DEF TypeOK, CallsOnly

\* The steps that only move a request on.
LEMMA LookupType ==
    ASSUME TypeOK, NEW q \in Calls,
           Lookup(q) \/ ReuseConcurrent(q) \/ PrepareFails(q) \/ FinalizeAlready(q)
             \/ Confirm(q) \/ PersistNothing(q)
    PROVE  TypeOK'
<1>1. call[q] \in CallRow /\ (call[q].pc # "idle" => call[q].key \in Keys)
  BY DEF TypeOK
<1>2. CallsOnly
  BY DEF CallsOnly, Lookup, ReuseConcurrent, PrepareFails, FinalizeAlready,
         Confirm, PersistNothing
<1>3. ASSUME NEW status, Reply(q, status), call[q].pc # "idle" PROVE TypeOK'
  BY <1>1, <1>2, <1>3, AnsweredType, CallsOnlyType DEF Reply
<1>4. ASSUME Fail(q) PROVE TypeOK'
  BY <1>2, <1>4, IdleType, CallsOnlyType DEF Fail
<1>5. CASE Lookup(q)
  <2> DEFINE row == doc[call[q].key]
             c == [call[q] EXCEPT !.pc = "save",
                     !.seen = IF row.status = "NONE" THEN "none" ELSE row.token]
  <2>1. CASE Retryable(row.status)
    <3>1. call[q].key \in Keys /\ row \in DocRow
      BY <1>1, <1>5 DEF Lookup, TypeOK
    <3>2. c \in CallRow /\ c.key \in Keys
      BY <1>1, <3>1 DEF CallRow, DocRow
    <3>3. call' = [call EXCEPT ![q] = c]
      BY <1>5, <2>1 DEF Lookup
    <3> QED
      BY <1>2, <3>2, <3>3, CallsOnlyType DEF CallType
  <2>2. CASE ~Retryable(row.status)
    BY <1>3, <1>5, <2>2 DEF Lookup
  <2> QED
    BY <2>1, <2>2
<1>6. CASE ReuseConcurrent(q)
  BY <1>3, <1>6 DEF ReuseConcurrent
<1>7. CASE PrepareFails(q)
  BY <1>4, <1>7 DEF PrepareFails
<1>8. CASE FinalizeAlready(q)
  BY <1>3, <1>8 DEF FinalizeAlready
<1>9. CASE Confirm(q)
  <2> DEFINE row == doc[call[q].key]
             c == [call[q] EXCEPT !.pc = "getting"]
  <2>1. CASE row.status # "PENDIENTE"
    BY <1>3, <1>9, <2>1 DEF Confirm
  <2>2. CASE row.status = "PENDIENTE" /\ row.token = "local"
    BY <1>4, <1>9, <2>2 DEF Confirm
  <2>3. CASE row.status = "PENDIENTE" /\ row.token # "local"
    <3>1. c \in CallRow /\ c.key \in Keys
      BY <1>1, <1>9 DEF CallRow, Confirm
    <3>2. call' = [call EXCEPT ![q] = c]
      BY <1>9, <2>3 DEF Confirm
    <3> QED
      BY <1>2, <3>1, <3>2, CallsOnlyType DEF CallType
  <2> QED
    BY <2>1, <2>2, <2>3
<1>10. CASE PersistNothing(q)
  BY <1>4, <1>10 DEF PersistNothing, Fail
<1> QED
  BY <1>5, <1>6, <1>7, <1>8, <1>9, <1>10

LEMMA ArriveType ==
    ASSUME TypeOK,
           \/ \E q \in Requests, k \in Documents, n \in Quantities : StartDocument(q, k, n)
           \/ \E q \in Requests, k \in ElectronicSales, n \in Quantities :
                StartSale(q, k, n)
           \/ \E q \in Requests, k \in Notes : StartConversion(q, k)
           \/ \E q \in Requests, k \in Reconciled : StartReconcile(q, k)
           \/ Poll
    PROVE  TypeOK'
<1>1. CallsOnly
  BY DEF CallsOnly, StartDocument, StartSale, StartConversion, StartReconcile, Poll
<1>2. Documents \subseteq Keys /\ ElectronicSales \subseteq Keys /\ Notes \subseteq Keys
  BY DEF Keys
<1>3. Requests \subseteq Calls /\ Poller \in Calls
  BY DEF Calls
<1>4. \A k \in Keys : sale[k].items \in Quantities \cup {0}
  BY DEF TypeOK, SaleRow
<1>5. ASSUME NEW q \in Requests, NEW k \in Documents, NEW n \in Quantities,
             StartDocument(q, k, n)
      PROVE  TypeOK'
  <2>1. CallType(Arrived("document", "lookup", k, n))
    BY <1>2, ArrivedType
  <2> QED
    BY <1>1, <1>3, <1>5, <2>1, CallsOnlyType DEF StartDocument
<1>6. ASSUME NEW q \in Requests, NEW k \in ElectronicSales, NEW n \in Quantities,
             StartSale(q, k, n)
      PROVE  TypeOK'
  <2>1. CallType(Arrived("sale", "lookup", k, n))
    BY <1>2, ArrivedType
  <2> QED
    BY <1>1, <1>3, <1>6, <2>1, CallsOnlyType DEF StartSale
<1>7. ASSUME NEW q \in Requests, NEW k \in Notes, StartConversion(q, k)
      PROVE  TypeOK'
  <2>1. CallType(Arrived("convert", "lookup", k, sale[k].items))
    BY <1>2, <1>4, ArrivedType
  <2> QED
    BY <1>1, <1>3, <1>7, <2>1, CallsOnlyType DEF StartConversion
<1>8. ASSUME NEW q \in Calls, NEW k \in Keys, StartReconcile(q, k) PROVE TypeOK'
  <2>1. CallType(Arrived("reconcile", "getting", k, 0))
    BY ArrivedType
  <2> QED
    BY <1>1, <1>8, <2>1, CallsOnlyType DEF StartReconcile
<1>9. Reconciled \subseteq Keys
  BY KeyAssumption DEF Keys
<1> QED
  BY <1>3, <1>5, <1>6, <1>7, <1>8, <1>9 DEF Poll

\* The steps that write rows.
LEMMA WriteType ==
    ASSUME TypeOK, NEW q \in Calls,
           \/ Prepare(q) \/ FinalizeAccepted(q) \/ FinalizeError(q)
           \/ PersistSale(q) \/ FinishConversion(q)
    PROVE  TypeOK'
<1> DEFINE k == call[q].key
<1>1. call[q] \in CallRow /\ (call[q].pc # "idle" => call[q].key \in Keys)
  BY DEF TypeOK
<1>2. k \in Keys /\ call[q].items \in Quantities \cup {0} /\ call[q].items \in Int
  BY <1>1, QuantityAssumption
  DEF CallRow, Prepare, FinalizeAccepted, FinalizeError, PersistSale, FinishConversion
<1>3. doc[k] \in DocRow /\ sale[k] \in SaleRow /\ taken[k] \in Int
  BY <1>2 DEF TypeOK
<1>4. CASE Prepare(q)
  <2> DEFINE c == [call[q] EXCEPT !.pc = IF call[q].seen = "remote" THEN "getting"
                                         ELSE "post",
                                  !.seen = "none"]
  <2>1. CallType(c)
    BY <1>1, <1>2 DEF CallType, CallRow
  <2>2. call' = [call EXCEPT ![q] = c]
    BY <1>4 DEF Prepare
  <2>3. doc' \in [Keys -> DocRow]
    BY <1>2, <1>4 DEF Prepare, TypeOK, DocRow
  <2>4. taken' \in [Keys -> Int]
    BY <1>2, <1>3, <1>4 DEF Prepare, TypeOK
  <2> QED
    BY <1>4, <2>1, <2>2, <2>3, <2>4, CallWritten DEF Prepare, TypeOK
<1>5. ASSUME NEW status, Reply(q, status)
      PROVE  /\ call' \in [Calls -> CallRow]
             /\ \A p \in Calls : call'[p].pc # "idle" => call'[p].key \in Keys
  <2>1. CallType(Answered(call[q], status))
    BY <1>1, <1>2, AnsweredType
  <2> QED
    BY <1>5, <2>1, CallWritten DEF Reply, TypeOK
<1>6. ASSUME call' = [call EXCEPT ![q] = Idle]
      PROVE  /\ call' \in [Calls -> CallRow]
             /\ \A p \in Calls : call'[p].pc # "idle" => call'[p].key \in Keys
  BY <1>6, IdleType, CallWritten DEF TypeOK
<1>7. CASE FinalizeAccepted(q)
  <2> DEFINE status == StatusOf(call[q].answer)
  <2>1. status \in {"EMITIDO", "PENDIENTE", "ERROR"}
    BY DEF StatusOf
  <2>2. doc' \in [Keys -> DocRow]
    BY <1>2, <1>3, <1>7, <2>1 DEF FinalizeAccepted, TypeOK, DocRow
  <2>3. <<"DTE_DOCUMENT", k>> \in Sources
    BY <1>2 DEF Sources
  <2>4. ledger' \subseteq Sources
    BY <1>7, <2>3 DEF FinalizeAccepted, Booked, TypeOK
  <2> QED
    BY <1>5, <1>7, <2>2, <2>4 DEF FinalizeAccepted, TypeOK
<1>8. CASE FinalizeError(q)
  <2>1. doc' \in [Keys -> DocRow]
    BY <1>2, <1>3, <1>8 DEF FinalizeError, TypeOK, DocRow
  <2> HIDE DEF k
  <2>2. doc[k].items \in Quantities \cup {0}
    BY <1>3 DEF DocRow
  <2> USE DEF k
  <2>3. doc[k].items \in Int
    BY <2>2, QuantityAssumption
  <2>4. taken' \in [Keys -> Int]
    BY <1>2, <1>3, <1>8, <2>3 DEF FinalizeError, Reverted, TypeOK
  <2> QED
    BY <1>6, <1>8, <2>1, <2>4 DEF FinalizeError, Fail, TypeOK
<1>9. CASE PersistSale(q)
  <2>1. sale' \in [Keys -> SaleRow]
    BY <1>2, <1>9 DEF PersistSale, TypeOK, SaleRow
  <2> QED
    BY <1>6, <1>9, <2>1 DEF PersistSale, TypeOK
<1>10. CASE FinishConversion(q)
  <2>1. sale' \in [Keys -> SaleRow]
    BY <1>2, <1>3, <1>10 DEF FinishConversion, TypeOK, SaleRow
  <2> QED
    BY <1>6, <1>10, <2>1 DEF FinishConversion, TypeOK
<1> QED
  BY <1>4, <1>7, <1>8, <1>9, <1>10

LEMMA HttpType ==
    ASSUME TypeOK, NEW q \in Calls,
           Post(q) \/ AnswerPost(q) \/ AnswerGet(q) \/ NoAnswer(q)
    PROVE  TypeOK'
<1>1. call[q] \in CallRow /\ call[q].key \in Keys
  BY DEF TypeOK, Post, AnswerPost, AnswerGet, NoAnswer
<1>2. fiscal[call[q].key] \in FiscalStates
  BY <1>1 DEF TypeOK
<1>3. ASSUME NEW answer \in Answers, AnswerArrives(q, answer) PROVE TypeOK'
  <2> DEFINE c == [call[q] EXCEPT !.pc = "finalize", !.answer = answer]
  <2>1. CallType(c)
    BY <1>1 DEF CallType, CallRow
  <2>2. call' = [call EXCEPT ![q] = c]
    BY <1>3 DEF AnswerArrives
  <2> QED
    BY <1>3, <2>1, <2>2, CallsOnlyType DEF CallsOnly, AnswerArrives
<1>4. CASE Post(q)
  <2> DEFINE c == [call[q] EXCEPT !.pc = "posting"]
  <2>1. CallType(c)
    BY <1>1 DEF CallType, CallRow
  <2>2. call' = [call EXCEPT ![q] = c]
    BY <1>4 DEF Post
  <2>3. fiscal' \in [Keys -> FiscalStates]
    BY <1>1, <1>4 DEF Post, TypeOK, FiscalStates
  <2> QED
    BY <1>4, <2>1, <2>2, <2>3, CallWritten DEF Post, TypeOK
<1>5. CASE AnswerPost(q)
  BY <1>3, <1>5 DEF AnswerPost, Decided, Answers
<1>6. CASE AnswerGet(q)
  BY <1>3, <1>6 DEF AnswerGet, Decided, Answers
<1>7. CASE NoAnswer(q)
  BY <1>3, <1>7 DEF NoAnswer, Answers
<1> QED
  BY <1>4, <1>5, <1>6, <1>7

LEMMA OutsideType ==
    ASSUME TypeOK,
           \/ \E k \in Notes, n \in Quantities : CreateNote(k, n)
           \/ Openfactura \/ TurnDrawer \/ Crash
           \/ \E q \in Calls : Abort(q)
    PROVE  TypeOK'
<1>1. ASSUME NEW k \in Notes, NEW n \in Quantities, CreateNote(k, n) PROVE TypeOK'
  <2>1. k \in Keys /\ n \in Int
    BY QuantityAssumption DEF Keys
  <2>2. sale' \in [Keys -> SaleRow]
    BY <1>1, <2>1 DEF CreateNote, TypeOK, SaleRow
  <2>3. taken' \in [Keys -> Int]
    BY <1>1, <2>1 DEF CreateNote, TypeOK
  <2>4. ledger' \subseteq Sources
    BY <1>1, <2>1 DEF CreateNote, TypeOK, Sources
  <2> QED
    BY <1>1, <2>2, <2>3, <2>4 DEF CreateNote, TypeOK
<1>2. ASSUME NEW k \in Keys, Receive(k) \/ Decide(k) PROVE TypeOK'
  <2>1. fiscal' \in [Keys -> FiscalStates]
    BY <1>2 DEF Receive, Decide, TypeOK, FiscalStates
  <2> QED
    BY <1>2, <2>1 DEF Receive, Decide, TypeOK
<1>3. CASE TurnDrawer
  BY <1>3 DEF TurnDrawer, TypeOK
<1>4. ASSUME NEW Q, Lose(Q) PROVE TypeOK'
  <2>1. \A q \in Calls : call'[q] \in {Idle, call[q]}
    BY <1>4 DEF Lose
  <2>2. call' \in [Calls -> CallRow]
    BY <1>4, IdleType DEF Lose, TypeOK, CallType
  <2>3. \A q \in Calls : call'[q].pc # "idle" => call'[q].key \in Keys
    BY <2>1 DEF TypeOK, Idle
  <2>4. failures' \in 0..MaxFailures
    BY <1>4, CallAssumption DEF Lose, TypeOK
  <2> QED
    BY <1>4, <2>2, <2>3, <2>4 DEF Lose, TypeOK
<1> QED
  BY <1>1, <1>2, <1>3, <1>4 DEF Openfactura, Crash, Abort

LEMMA FiscalInitTypes == Init => TypeOK
<1> SUFFICES ASSUME Init PROVE TypeOK
  OBVIOUS
<1>1. NoDoc \in DocRow /\ NoSale \in SaleRow
  BY DEF NoDoc, DocRow, NoSale, SaleRow
<1>2. Idle \in CallRow /\ Idle.pc = "idle"
  BY IdleType DEF CallType, Idle
<1> QED
  BY <1>1, <1>2, CallAssumption DEF Init, TypeOK, FiscalStates

LEMMA FiscalNextTypes == TypeOK /\ [Next]_fiscalVars => TypeOK'
<1> SUFFICES ASSUME TypeOK, [Next]_fiscalVars PROVE TypeOK'
  OBVIOUS
<1>1. CASE Next
  BY <1>1, LookupType, ArriveType, WriteType, HttpType, OutsideType
  DEF Next, Arrive, DteStep, SaleStep
<1>2. CASE UNCHANGED fiscalVars
  BY <1>2 DEF fiscalVars, TypeOK
<1> QED
  BY <1>1, <1>2

\* Documents, sales, ledger and requests keep their shapes, however many keys
\* and requests there are.
THEOREM FiscalTypeCorrect == Spec => []TypeOK
  BY FiscalInitTypes, FiscalNextTypes, PTL DEF Spec

-----------------------------------------------------------------------------
(* The safety properties.  They are not inductive alone: they lean on what *)
(* each request still has to do, which Fits states, and on an unsold key   *)
(* having sold nothing.                                                    *)

\* What a request brings to its next step: a sale is of a sale's key and a
\* conversion of a note's; it finishes only once the document is booked in L;
\* and it was told "issued" only of what F has issued.
Fits(c, L, F) ==
    /\ c.flow = "sale" => c.key \in ElectronicSales
    /\ c.flow \in {"convert", "confirm"} => c.key \in Notes
    /\ c.pc = "persist" => c.flow = "sale"
    /\ c.pc = "finish" => c.key \in Notes /\ <<"DTE_DOCUMENT", c.key>> \in L
    /\ c.answer = "issued" => c.key \in Keys /\ F[c.key] = "issued"

CallsFit == \A q \in Calls : Fits(call[q], ledger, fiscal)

UnsoldIsEmpty == \A k \in Keys : sale[k].status = "NONE" => sale[k].items = 0

FiscalInv ==
    /\ TypeOK
    /\ CallsFit
    /\ UnsoldIsEmpty
    /\ HeldStock
    /\ LedgerIsFiscal
    /\ NoteIncomeBooked

\* From a state to the next documents booked stay booked, and issued ones issued.
Grows ==
    \A k \in Keys :
        /\ <<"DTE_DOCUMENT", k>> \in ledger => <<"DTE_DOCUMENT", k>> \in ledger'
        /\ fiscal[k] = "issued" => fiscal'[k] = "issued"

-----------------------------------------------------------------------------
(* Requests.                                                               *)

LEMMA IdleFits == ASSUME NEW L, NEW F PROVE Fits(Idle, L, F)
  BY DEF Fits, Idle

LEMMA ArrivedFits ==
    ASSUME NEW flow, NEW pc, NEW k, NEW n, NEW L, NEW F,
           flow = "sale" => k \in ElectronicSales,
           flow \in {"convert", "confirm"} => k \in Notes,
           pc = "persist" => flow = "sale",
           pc = "finish" => k \in Notes /\ <<"DTE_DOCUMENT", k>> \in L
    PROVE  Fits(Arrived(flow, pc, k, n), L, F)
  BY DEF Fits, Arrived, Idle

LEMMA AnsweredFits ==
    ASSUME NEW c, NEW status, NEW L, NEW F, Fits(c, L, F),
           status = "EMITIDO" => <<"DTE_DOCUMENT", c.key>> \in L
    PROVE  Fits(Answered(c, status), L, F)
<1>1. /\ c.flow = "sale" => c.key \in ElectronicSales
      /\ c.flow \in {"convert", "confirm"} => c.key \in Notes
  BY DEF Fits
<1> QED
  BY <1>1, IdleFits, ArrivedFits DEF Answered

\* A request that moves on within its flow, with no news of its answer.
LEMMA MovedFits ==
    ASSUME NEW c \in CallRow, NEW d \in CallRow, NEW L, NEW F, Fits(c, L, F),
           d.flow = c.flow, d.key = c.key, d.answer = c.answer,
           d.pc \notin {"persist", "finish"}
    PROVE  Fits(d, L, F)
  BY DEF Fits

\* The other requests fit whatever one of them does.
LEMMA OthersFit ==
    ASSUME TypeOK, CallsFit, Grows
    PROVE  \A q \in Calls : Fits(call[q], ledger', fiscal')
<1> SUFFICES ASSUME NEW q \in Calls PROVE Fits(call[q], ledger', fiscal')
  OBVIOUS
<1>1. Fits(call[q], ledger, fiscal)
  BY DEF CallsFit
<1>2. call[q].key \in Notes => call[q].key \in Keys
  BY DEF Keys
<1> QED
  BY <1>1, <1>2 DEF Fits, Grows

LEMMA CallsFitKept ==
    ASSUME TypeOK, CallsFit, Grows, NEW q \in Calls, NEW c,
           Fits(c, ledger', fiscal'), call' = [call EXCEPT ![q] = c]
    PROVE  CallsFit'
<1>1. \A p \in Calls : call'[p] = c \/ call'[p] = call[p]
  BY DEF TypeOK
<1> QED
  BY <1>1, OthersFit DEF CallsFit

\* Nothing is ever un-booked or un-issued.
LEMMA NextGrows == ASSUME TypeOK, Next PROVE Grows
<1>1. ASSUME UNCHANGED <<ledger, fiscal>> PROVE Grows
  BY <1>1 DEF Grows
<1>2. ASSUME NEW q \in Calls, FinalizeAccepted(q) PROVE Grows
  BY <1>2 DEF Grows, FinalizeAccepted, Booked
<1>3. ASSUME NEW q \in Calls, FinishConversion(q) PROVE Grows
  BY <1>3 DEF Grows, FinishConversion
<1>4. ASSUME NEW k \in Notes, NEW n \in Quantities, CreateNote(k, n) PROVE Grows
  BY <1>4 DEF Grows, CreateNote
<1>5. ASSUME NEW q \in Calls, Post(q) PROVE Grows
  BY <1>5 DEF Grows, Post, TypeOK
<1>6. ASSUME NEW k \in Keys, Receive(k) \/ Decide(k) PROVE Grows
  BY <1>6 DEF Grows, Receive, Decide, TypeOK
<1>7. CASE Arrive
  BY <1>1, <1>4, <1>7 DEF Arrive, StartDocument, StartSale, StartConversion, StartReconcile
<1>8. CASE Poll
  BY <1>1, <1>8 DEF Poll, StartReconcile
<1>9. ASSUME NEW q \in Calls, DteStep(q) PROVE Grows
  BY <1>1, <1>2, <1>5, <1>9
  DEF DteStep, Lookup, ReuseConcurrent, Prepare, PrepareFails, AnswerPost, AnswerGet,
      NoAnswer, AnswerArrives, FinalizeAlready, FinalizeError, Confirm
<1>10. ASSUME NEW q \in Calls, SaleStep(q) PROVE Grows
  BY <1>1, <1>3, <1>10 DEF SaleStep, PersistSale, PersistNothing
<1>11. CASE TurnDrawer \/ Crash \/ \E q \in Calls : Abort(q)
  BY <1>1, <1>11 DEF TurnDrawer, Crash, Abort, Lose
<1> QED
  BY <1>6, <1>7, <1>8, <1>9, <1>10, <1>11 DEF Next, Openfactura

LEMMA NextFits == ASSUME FiscalInv, Next PROVE CallsFit'
<1>1. TypeOK /\ CallsFit /\ LedgerIsFiscal /\ Grows
  BY NextGrows DEF FiscalInv
<1>2. ASSUME UNCHANGED call PROVE CallsFit'
  BY <1>1, <1>2, OthersFit DEF CallsFit
<1>3. ASSUME NEW Q, Lose(Q) PROVE CallsFit'
  <2>1. \A q \in Calls : call'[q] = Idle \/ call'[q] = call[q]
    BY <1>3 DEF Lose
  <2> QED
    BY <1>1, <2>1, IdleFits, OthersFit DEF CallsFit
<1>4. CASE Arrive
  <2>1. Requests \subseteq Calls
    BY DEF Calls
  <2>2. ASSUME NEW q \in Requests, NEW k \in Documents, NEW n \in Quantities,
               StartDocument(q, k, n)
        PROVE  CallsFit'
    <3>1. Fits(Arrived("document", "lookup", k, n), ledger', fiscal')
      BY ArrivedFits
    <3> QED
      BY <1>1, <2>1, <2>2, <3>1, CallsFitKept DEF StartDocument
  <2>3. ASSUME NEW q \in Requests, NEW k \in ElectronicSales, NEW n \in Quantities,
               StartSale(q, k, n)
        PROVE  CallsFit'
    <3>1. Fits(Arrived("sale", "lookup", k, n), ledger', fiscal')
      BY ArrivedFits
    <3> QED
      BY <1>1, <2>1, <2>3, <3>1, CallsFitKept DEF StartSale
  <2>4. ASSUME NEW q \in Requests, NEW k \in Notes, StartConversion(q, k)
        PROVE  CallsFit'
    <3>1. Fits(Arrived("convert", "lookup", k, sale[k].items), ledger', fiscal')
      BY ArrivedFits
    <3> QED
      BY <1>1, <2>1, <2>4, <3>1, CallsFitKept DEF StartConversion
  <2>5. ASSUME NEW k \in Notes, NEW n \in Quantities, CreateNote(k, n)
        PROVE  CallsFit'
    BY <1>2, <2>5 DEF CreateNote
  <2>6. ASSUME NEW q \in Requests, NEW k \in Reconciled, StartReconcile(q, k)
        PROVE  CallsFit'
    <3>1. Fits(Arrived("reconcile", "getting", k, 0), ledger', fiscal')
      BY ArrivedFits
    <3> QED
      BY <1>1, <2>1, <2>6, <3>1, CallsFitKept DEF StartReconcile
  <2> QED
    BY <1>4, <2>2, <2>3, <2>4, <2>5, <2>6 DEF Arrive
<1>5. CASE Poll
  <2>1. PICK k \in Keys : StartReconcile(Poller, k)
    BY <1>5 DEF Poll
  <2>2. Fits(Arrived("reconcile", "getting", k, 0), ledger', fiscal')
    BY ArrivedFits
  <2> QED
    BY <1>1, <2>1, <2>2, CallsFitKept DEF StartReconcile, Calls
<1>6. ASSUME NEW q \in Calls, DteStep(q) PROVE CallsFit'
  <2>1. Fits(call[q], ledger', fiscal') /\ call[q] \in CallRow
    BY <1>1, OthersFit DEF TypeOK
  <2>2. ASSUME Fail(q) PROVE CallsFit'
    BY <1>1, <2>2, IdleFits, CallsFitKept DEF Fail
  <2>3. ASSUME NEW status, Reply(q, status),
               status = "EMITIDO" => <<"DTE_DOCUMENT", call[q].key>> \in ledger'
        PROVE  CallsFit'
    <3>1. Fits(Answered(call[q], status), ledger', fiscal')
      BY <2>1, <2>3, AnsweredFits
    <3> QED
      BY <1>1, <2>3, <3>1, CallsFitKept DEF Reply
  <2>4. ASSUME UNCHANGED ledger, Reply(q, doc[call[q].key].status),
               call[q].pc # "idle"
        PROVE  CallsFit'
    <3>1. call[q].key \in Keys
      BY <1>1, <2>4 DEF TypeOK
    <3> QED
      BY <1>1, <2>3, <2>4, <3>1 DEF LedgerIsFiscal
  <2>5. ASSUME NEW d \in CallRow, d.flow = call[q].flow, d.key = call[q].key,
               d.answer = call[q].answer, d.pc \notin {"persist", "finish"},
               call' = [call EXCEPT ![q] = d]
        PROVE  CallsFit'
    <3>1. Fits(d, ledger', fiscal')
      BY <2>1, <2>5, MovedFits
    <3> QED
      BY <1>1, <2>5, <3>1, CallsFitKept
  <2>6. ASSUME NEW answer \in Answers, AnswerArrives(q, answer), call[q].key \in Keys,
               answer = "issued" => fiscal[call[q].key] = "issued"
        PROVE  CallsFit'
    <3> DEFINE d == [call[q] EXCEPT !.pc = "finalize", !.answer = answer]
    <3>1. Fits(d, ledger', fiscal')
      BY <2>1, <2>6 DEF Fits, AnswerArrives, CallRow
    <3>2. call' = [call EXCEPT ![q] = d]
      BY <2>6 DEF AnswerArrives
    <3> HIDE DEF d
    <3> QED
      BY <1>1, <3>1, <3>2, CallsFitKept
  <2>7. CASE Lookup(q)
    <3> DEFINE row == doc[call[q].key]
               d == [call[q] EXCEPT !.pc = "save",
                       !.seen = IF row.status = "NONE" THEN "none" ELSE row.token]
    <3>1. CASE Retryable(row.status)
      <4>1. call[q].key \in Keys /\ row \in DocRow
        BY <1>1, <2>7 DEF Lookup, TypeOK
      <4>2. d \in CallRow
        BY <2>1, <4>1 DEF CallRow, DocRow
      <4>3. call' = [call EXCEPT ![q] = d]
        BY <2>7, <3>1 DEF Lookup
      <4>4. d.flow = call[q].flow /\ d.key = call[q].key /\ d.answer = call[q].answer
            /\ d.pc = "save"
        BY <2>1 DEF CallRow
      <4> HIDE DEF d
      <4> QED
        BY <2>5, <4>2, <4>3, <4>4
    <3>2. CASE ~Retryable(row.status)
      BY <2>4, <2>7, <3>2 DEF Lookup
    <3> QED
      BY <3>1, <3>2
  <2>8. CASE ReuseConcurrent(q)
    BY <2>4, <2>8 DEF ReuseConcurrent
  <2>9. CASE Prepare(q)
    <3> DEFINE d == [call[q] EXCEPT !.pc = IF call[q].seen = "remote" THEN "getting"
                                           ELSE "post",
                                    !.seen = "none"]
    <3>1. /\ d \in CallRow /\ d.pc \in {"getting", "post"}
          /\ d.flow = call[q].flow /\ d.key = call[q].key /\ d.answer = call[q].answer
      BY <2>1 DEF CallRow
    <3>2. call' = [call EXCEPT ![q] = d]
      BY <2>9 DEF Prepare
    <3> HIDE DEF d
    <3> QED
      BY <2>5, <3>1, <3>2
  <2>10. CASE PrepareFails(q)
    BY <2>2, <2>10 DEF PrepareFails
  <2>11. CASE Post(q)
    <3> DEFINE d == [call[q] EXCEPT !.pc = "posting"]
    <3>1. /\ d \in CallRow /\ d.pc = "posting"
          /\ d.flow = call[q].flow /\ d.key = call[q].key /\ d.answer = call[q].answer
      BY <2>1 DEF CallRow
    <3>2. call' = [call EXCEPT ![q] = d]
      BY <2>11 DEF Post
    <3> HIDE DEF d
    <3> QED
      BY <2>5, <3>1, <3>2
  <2>12. CASE AnswerPost(q)
    BY <1>1, <2>6, <2>12 DEF AnswerPost, Decided, Answers, TypeOK
  <2>13. CASE AnswerGet(q)
    BY <1>1, <2>6, <2>13 DEF AnswerGet, Decided, Answers, TypeOK
  <2>14. CASE NoAnswer(q)
    BY <1>1, <2>6, <2>14 DEF NoAnswer, Answers, TypeOK
  <2>15. CASE FinalizeAlready(q)
    BY <2>4, <2>15 DEF FinalizeAlready
  <2>16. CASE FinalizeAccepted(q)
    <3>1. StatusOf(call[q].answer) = "EMITIDO"
            => <<"DTE_DOCUMENT", call[q].key>> \in ledger'
      BY <2>16 DEF FinalizeAccepted, Booked
    <3> QED
      BY <2>3, <2>16, <3>1 DEF FinalizeAccepted
  <2>17. CASE FinalizeError(q)
    BY <2>2, <2>17 DEF FinalizeError
  <2>18. CASE Confirm(q)
    <3> DEFINE row == doc[call[q].key]
               d == [call[q] EXCEPT !.pc = "getting"]
    <3>1. CASE row.status # "PENDIENTE"
      BY <2>4, <2>18, <3>1 DEF Confirm
    <3>2. CASE row.status = "PENDIENTE" /\ row.token = "local"
      BY <2>2, <2>18, <3>2 DEF Confirm
    <3>3. CASE row.status = "PENDIENTE" /\ row.token # "local"
      <4>1. /\ d \in CallRow /\ d.pc = "getting"
            /\ d.flow = call[q].flow /\ d.key = call[q].key /\ d.answer = call[q].answer
        BY <2>1 DEF CallRow
      <4>2. call' = [call EXCEPT ![q] = d]
        BY <2>18, <3>3 DEF Confirm
      <4> HIDE DEF d
      <4> QED
        BY <2>5, <4>1, <4>2
    <3> QED
      BY <3>1, <3>2, <3>3
  <2> QED
    BY <1>6, <2>7, <2>8, <2>9, <2>10, <2>11, <2>12, <2>13, <2>14, <2>15, <2>16, <2>17,
       <2>18 DEF DteStep
<1>7. ASSUME NEW q \in Calls, SaleStep(q) PROVE CallsFit'
  BY <1>1, <1>7, IdleFits, CallsFitKept
  DEF SaleStep, PersistSale, PersistNothing, FinishConversion
<1>8. CASE Openfactura \/ TurnDrawer
  BY <1>2, <1>8 DEF Openfactura, Receive, Decide, TurnDrawer
<1> QED
  BY <1>3, <1>4, <1>5, <1>6, <1>7, <1>8 DEF Next, Crash, Abort

-----------------------------------------------------------------------------
(* Rows.                                                                   *)

\* The steps that write documents, sales, stock or the ledger.
RowStep ==
    \/ \E k \in Notes, n \in Quantities : CreateNote(k, n)
    \/ \E q \in Calls : Prepare(q) \/ FinalizeAccepted(q) \/ FinalizeError(q)
                          \/ PersistSale(q) \/ FinishConversion(q)

LEMMA WritersOnly ==
    ASSUME Next PROVE RowStep \/ UNCHANGED <<doc, sale, taken, ledger>>
<1> USE DEF RowStep
<1>1. CASE Arrive \/ Poll
  BY <1>1 DEF Arrive, Poll, StartDocument, StartSale, StartConversion, StartReconcile
<1>2. ASSUME NEW q \in Calls, DteStep(q)
      PROVE  RowStep \/ UNCHANGED <<doc, sale, taken, ledger>>
  BY <1>2 DEF DteStep, Lookup, ReuseConcurrent, PrepareFails, Post, AnswerPost,
              AnswerGet, NoAnswer, AnswerArrives, FinalizeAlready, Confirm
<1>3. ASSUME NEW q \in Calls, SaleStep(q)
      PROVE  RowStep \/ UNCHANGED <<doc, sale, taken, ledger>>
  BY <1>3 DEF SaleStep, PersistNothing
<1>4. CASE Openfactura \/ TurnDrawer \/ Crash \/ \E q \in Calls : Abort(q)
  BY <1>4 DEF Openfactura, Receive, Decide, TurnDrawer, Crash, Abort, Lose
<1> QED
  BY <1>1, <1>2, <1>3, <1>4 DEF Next

\* What a request that writes works on.
LEMMA WritersKey ==
    ASSUME FiscalInv, NEW q \in Calls,
           \/ Prepare(q) \/ FinalizeAccepted(q) \/ FinalizeError(q)
           \/ PersistSale(q) \/ FinishConversion(q)
    PROVE  /\ call[q].key \in Keys
           /\ call[q].items \in Nat
           /\ doc[call[q].key] \in DocRow /\ doc[call[q].key].items \in Nat
           /\ sale[call[q].key] \in SaleRow
           /\ PersistSale(q) => call[q].key \in ElectronicSales
           /\ FinishConversion(q) =>
                call[q].key \in Notes /\ <<"DTE_DOCUMENT", call[q].key>> \in ledger
<1>1. call[q] \in CallRow /\ (call[q].pc # "idle" => call[q].key \in Keys)
      /\ Fits(call[q], ledger, fiscal)
  BY DEF FiscalInv, TypeOK, CallsFit
<1>2. call[q].key \in Keys
  BY <1>1 DEF Prepare, FinalizeAccepted, FinalizeError, PersistSale, FinishConversion
<1>3. doc[call[q].key] \in DocRow /\ sale[call[q].key] \in SaleRow
  BY <1>2 DEF FiscalInv, TypeOK
<1>4. call[q].items \in Quantities \cup {0}
      /\ doc[call[q].key].items \in Quantities \cup {0}
  BY <1>1, <1>3 DEF CallRow, DocRow
<1>5. call[q].items \in Nat /\ doc[call[q].key].items \in Nat
  BY <1>4, QuantityAssumption
<1>6. PersistSale(q) => call[q].key \in ElectronicSales
  BY <1>1 DEF Fits, PersistSale
<1>7. FinishConversion(q) =>
        call[q].key \in Notes /\ <<"DTE_DOCUMENT", call[q].key>> \in ledger
  BY <1>1 DEF Fits, FinishConversion
<1> QED
  BY <1>2, <1>3, <1>5, <1>6, <1>7

LEMMA NextUnsold == ASSUME FiscalInv, Next PROVE UnsoldIsEmpty'
<1>1. TypeOK /\ UnsoldIsEmpty
  BY DEF FiscalInv
<1>2. ASSUME UNCHANGED sale PROVE UnsoldIsEmpty'
  BY <1>1, <1>2 DEF UnsoldIsEmpty
<1>3. ASSUME NEW k \in Notes, NEW n \in Quantities, CreateNote(k, n)
      PROVE  UnsoldIsEmpty'
  BY <1>1, <1>3 DEF CreateNote, UnsoldIsEmpty, TypeOK
<1>4. ASSUME NEW q \in Calls, PersistSale(q) PROVE UnsoldIsEmpty'
  BY <1>1, <1>4 DEF PersistSale, UnsoldIsEmpty, TypeOK
<1>5. ASSUME NEW q \in Calls, FinishConversion(q) PROVE UnsoldIsEmpty'
  <2>1. sale[call[q].key] \in SaleRow
    BY <1>5, WritersKey
  <2> QED
    BY <1>1, <1>5, <2>1 DEF FinishConversion, UnsoldIsEmpty, TypeOK, SaleRow
<1> QED
  BY <1>2, <1>3, <1>4, <1>5, WritersOnly
  DEF RowStep, Prepare, FinalizeAccepted, FinalizeError

LEMMA NextHeld == ASSUME FiscalInv, Next PROVE HeldStock'
<1>1. TypeOK /\ UnsoldIsEmpty /\ HeldStock
  BY DEF FiscalInv
<1>2. ASSUME UNCHANGED <<doc, sale, taken>> PROVE HeldStock'
  BY <1>1, <1>2 DEF HeldStock
<1>3. ASSUME NEW k \in Notes, NEW n \in Quantities, CreateNote(k, n)
      PROVE  HeldStock'
  <2>1. k \in Keys /\ n \in Nat
    BY QuantityAssumption DEF Keys
  <2>2. taken[k] = 0
    BY <1>1, <1>3, <2>1 DEF CreateNote, UnsoldIsEmpty, HeldStock
  <2> QED
    BY <1>1, <1>3, <2>1, <2>2 DEF CreateNote, HeldStock, TypeOK, Reserves
<1>4. ASSUME NEW q \in Calls, Prepare(q) PROVE HeldStock'
  <2> DEFINE k == call[q].key
             n == call[q].items
  <2>1. k \in Keys /\ n \in Nat /\ taken[k] \in Int /\ taken[k] >= 0
    BY <1>1, <1>4, WritersKey DEF TypeOK, HeldStock
  <2>2. doc'[k].items = n /\ \A j \in Keys \ {k} : doc'[j] = doc[j]
    BY <1>1, <1>4, <2>1 DEF Prepare, TypeOK
  <2>3. taken'[k] = (IF Reserves(k) THEN taken[k] + n ELSE taken[k])
        /\ \A j \in Keys \ {k} : taken'[j] = taken[j]
    BY <1>1, <1>4, <2>1 DEF Prepare, TypeOK
  <2>4. UNCHANGED sale
    BY <1>4 DEF Prepare
  <2> HIDE DEF k, n
  <2> QED
    BY <1>1, <2>1, <2>2, <2>3, <2>4 DEF HeldStock, Reserves
<1>5. ASSUME NEW q \in Calls, FinalizeAccepted(q) PROVE HeldStock'
  <2>1. call[q].key \in Keys
    BY <1>1, <1>5, WritersKey
  <2>2. doc[call[q].key] \in DocRow
    BY <1>1, <1>5, WritersKey
  <2> QED
    BY <1>1, <1>5, <2>1, <2>2 DEF FinalizeAccepted, HeldStock, TypeOK, DocRow
<1>6. ASSUME NEW q \in Calls, FinalizeError(q) PROVE HeldStock'
  <2> DEFINE k == call[q].key
             n == doc[k].items
  <2>1. k \in Keys /\ n \in Nat /\ taken[k] \in Int /\ doc[k] \in DocRow
    BY <1>1, <1>6, WritersKey DEF TypeOK
  <2>2. doc[k].status = "PENDIENTE"
    BY <1>6 DEF FinalizeError
  <2>3. doc'[k].status = "ERROR" /\ \A j \in Keys \ {k} : doc'[j] = doc[j]
    BY <1>1, <1>6, <2>1 DEF FinalizeError, TypeOK, DocRow
  <2>4. taken'[k] = (IF Reserves(k) THEN taken[k] - n ELSE taken[k])
        /\ \A j \in Keys \ {k} : taken'[j] = taken[j]
    BY <1>1, <1>6, <2>1 DEF FinalizeError, Reverted, TypeOK
  <2>5. UNCHANGED sale
    BY <1>6 DEF FinalizeError
  <2>6. Reserves(k) => taken[k] >= n
    BY <1>1, <2>1, <2>2 DEF HeldStock
  <2> HIDE DEF k, n
  <2> QED
    BY <1>1, <2>1, <2>3, <2>4, <2>5, <2>6 DEF HeldStock, Reserves
<1>7. ASSUME NEW q \in Calls, PersistSale(q) PROVE HeldStock'
  <2>1. call[q].key \in Keys /\ call[q].key \notin Notes
    BY <1>1, <1>7, WritersKey, KeyAssumption DEF Keys
  <2> QED
    BY <1>1, <1>7, <2>1 DEF PersistSale, HeldStock, TypeOK
<1>8. ASSUME NEW q \in Calls, FinishConversion(q) PROVE HeldStock'
  <2>1. call[q].key \in Keys /\ sale[call[q].key] \in SaleRow
    BY <1>8, WritersKey
  <2> QED
    BY <1>1, <1>8, <2>1 DEF FinishConversion, HeldStock, TypeOK, SaleRow
<1> QED
  BY <1>2, <1>3, <1>4, <1>5, <1>6, <1>7, <1>8, WritersOnly DEF RowStep

LEMMA NextLedger == ASSUME FiscalInv, Next PROVE LedgerIsFiscal'
<1>1. TypeOK /\ LedgerIsFiscal /\ Grows
  BY NextGrows DEF FiscalInv
<1>2. ASSUME UNCHANGED <<doc, ledger>> PROVE LedgerIsFiscal'
  BY <1>1, <1>2 DEF LedgerIsFiscal, Grows
<1>3. ASSUME NEW k \in Notes, NEW n \in Quantities, CreateNote(k, n)
      PROVE  LedgerIsFiscal'
  BY <1>1, <1>3 DEF CreateNote, LedgerIsFiscal
<1>4. ASSUME NEW q \in Calls, Prepare(q) \/ FinalizeError(q) PROVE LedgerIsFiscal'
  <2> DEFINE k == call[q].key
  <2>1. k \in Keys /\ doc[k] \in DocRow
    BY <1>1, <1>4, WritersKey
  <2>2. doc'[k].status # "EMITIDO" /\ \A j \in Keys \ {k} : doc'[j] = doc[j]
    <3>1. CASE Prepare(q)
      BY <1>1, <2>1, <3>1 DEF Prepare, TypeOK
    <3>2. CASE FinalizeError(q)
      BY <1>1, <2>1, <3>2 DEF FinalizeError, TypeOK, DocRow
    <3> QED
      BY <1>4, <3>1, <3>2
  <2>3. UNCHANGED <<ledger, fiscal>>
    BY <1>4 DEF Prepare, FinalizeError
  <2> HIDE DEF k
  <2> QED
    BY <1>1, <2>1, <2>2, <2>3 DEF LedgerIsFiscal
<1>5. ASSUME NEW q \in Calls, FinalizeAccepted(q) PROVE LedgerIsFiscal'
  <2> DEFINE k == call[q].key
             status == StatusOf(call[q].answer)
  <2>1. k \in Keys /\ doc[k] \in DocRow
    BY <1>1, <1>5, WritersKey
  <2>2. doc'[k].status = status /\ \A j \in Keys \ {k} : doc'[j] = doc[j]
    BY <1>1, <1>5, <2>1 DEF FinalizeAccepted, TypeOK, DocRow
  <2>3. UNCHANGED fiscal
    BY <1>5 DEF FinalizeAccepted
  <2>4. ledger' = IF status = "EMITIDO" THEN ledger \cup {<<"DTE_DOCUMENT", k>>}
                  ELSE ledger
    BY <1>5 DEF FinalizeAccepted, Booked
  <2>5. status = "EMITIDO" => call[q].answer = "issued"
    BY DEF StatusOf
  <2>6. status = "EMITIDO" => fiscal[k] = "issued"
    BY <1>5, <2>5 DEF FiscalInv, CallsFit, Fits
  <2> HIDE DEF k, status
  <2> QED
    BY <1>1, <2>1, <2>2, <2>3, <2>4, <2>6 DEF LedgerIsFiscal
<1>6. ASSUME NEW q \in Calls, PersistSale(q) PROVE LedgerIsFiscal'
  BY <1>2, <1>6 DEF PersistSale
<1>7. ASSUME NEW q \in Calls, FinishConversion(q) PROVE LedgerIsFiscal'
  BY <1>1, <1>7 DEF FinishConversion, LedgerIsFiscal
<1> QED
  BY <1>2, <1>3, <1>4, <1>5, <1>6, <1>7, WritersOnly DEF RowStep

LEMMA NextBooked == ASSUME FiscalInv, Next PROVE NoteIncomeBooked'
<1>1. TypeOK /\ NoteIncomeBooked
  BY DEF FiscalInv
<1>2. ASSUME UNCHANGED <<sale, ledger>> PROVE NoteIncomeBooked'
  BY <1>1, <1>2 DEF NoteIncomeBooked
<1>3. ASSUME NEW k \in Notes, NEW n \in Quantities, CreateNote(k, n)
      PROVE  NoteIncomeBooked'
  <2>1. k \in Keys
    BY DEF Keys
  <2>2. sale'[k].status = "EMITIDA" /\ \A j \in Notes \ {k} : sale'[j] = sale[j]
    BY <1>1, <1>3, <2>1 DEF CreateNote, TypeOK, Keys
  <2>3. ledger' = ledger \cup {<<"SALE_NOTE", k>>}
    BY <1>3 DEF CreateNote
  <2> QED
    BY <1>1, <2>2, <2>3 DEF NoteIncomeBooked
<1>4. ASSUME NEW q \in Calls, FinalizeAccepted(q) PROVE NoteIncomeBooked'
  BY <1>1, <1>4 DEF FinalizeAccepted, Booked, NoteIncomeBooked
<1>5. ASSUME NEW q \in Calls, Prepare(q) \/ FinalizeError(q) PROVE NoteIncomeBooked'
  BY <1>2, <1>5 DEF Prepare, FinalizeError
<1>6. ASSUME NEW q \in Calls, PersistSale(q) PROVE NoteIncomeBooked'
  <2>1. call[q].key \notin Notes
    BY <1>6, WritersKey, KeyAssumption
  <2> QED
    BY <1>1, <1>6, <2>1 DEF PersistSale, NoteIncomeBooked, TypeOK, Keys
<1>7. ASSUME NEW q \in Calls, FinishConversion(q) PROVE NoteIncomeBooked'
  <2> DEFINE k == call[q].key
  <2>1. k \in Notes /\ k \in Keys /\ sale[k] \in SaleRow
        /\ <<"DTE_DOCUMENT", k>> \in ledger
    BY <1>7, WritersKey
  <2>2. sale'[k].status = "CONVERTIDA" /\ \A j \in Notes \ {k} : sale'[j] = sale[j]
    BY <1>1, <1>7, <2>1 DEF FinishConversion, TypeOK, SaleRow, Keys
  <2>3. ledger' = ledger \ {<<"SALE_NOTE", k>>}
    BY <1>7 DEF FinishConversion
  <2> HIDE DEF k
  <2> QED
    BY <1>1, <2>1, <2>2, <2>3 DEF NoteIncomeBooked
<1> QED
  BY <1>2, <1>3, <1>4, <1>5, <1>6, <1>7, WritersOnly DEF RowStep

-----------------------------------------------------------------------------
(* The invariant, and what follows from it.                                *)

LEMMA InitInv == Init => FiscalInv
<1> SUFFICES ASSUME Init PROVE FiscalInv
  OBVIOUS
<1>1. TypeOK
  BY FiscalInitTypes
<1>2. CallsFit
  BY IdleFits DEF Init, CallsFit
<1>3. UnsoldIsEmpty /\ HeldStock /\ LedgerIsFiscal /\ NoteIncomeBooked
  BY DEF Init, UnsoldIsEmpty, HeldStock, LedgerIsFiscal, NoteIncomeBooked, NoSale,
         NoDoc, Keys
<1> QED
  BY <1>1, <1>2, <1>3 DEF FiscalInv

LEMMA NextInv == FiscalInv /\ [Next]_fiscalVars => FiscalInv'
<1> SUFFICES ASSUME FiscalInv, [Next]_fiscalVars PROVE FiscalInv'
  OBVIOUS
<1>1. CASE Next
  <2>1. TypeOK'
    BY FiscalNextTypes DEF FiscalInv
  <2> QED
    BY <1>1, <2>1, NextFits, NextUnsold, NextHeld, NextLedger, NextBooked DEF FiscalInv
<1>2. CASE UNCHANGED fiscalVars
  BY <1>2 DEF fiscalVars, FiscalInv, TypeOK, CallsFit, UnsoldIsEmpty, HeldStock,
              LedgerIsFiscal, NoteIncomeBooked
<1> QED
  BY <1>1, <1>2

LEMMA FiscalInvHolds == Spec => []FiscalInv
  BY InitInv, NextInv, PTL DEF Spec

\* Whatever requests, retries, lost answers and restarts there are, the stock
\* of every document on its way or issued is out, and no key ever gave back
\* more than it took (reserveStockAndSnapshotCosts, revertReservedStock).
THEOREM HeldStockHolds == Spec => []HeldStock
  BY FiscalInvHolds, PTL DEF FiscalInv

\* The financial ledger books what Openfactura has issued and every document
\* that is EMITIDO (recordDte).
THEOREM LedgerIsFiscalHolds == Spec => []LedgerIsFiscal
  BY FiscalInvHolds, PTL DEF FiscalInv

\* The income of a note is in the ledger at every moment, as the note's or as
\* its document's (recordSaleNote, removeSaleNote).
THEOREM NoteIncomeHolds == Spec => []NoteIncomeBooked
  BY FiscalInvHolds, PTL DEF FiscalInv

\* What was sold stays what it was, whoever repeats or converts it
\* (persistNotaVenta, persistElectronicSale, finishConversion).
KeptRow(k) ==
    /\ sale[k].status # "NONE" => sale'[k].items = sale[k].items
    /\ sale[k].status = "CONVERTIDA" => sale'[k] = sale[k]

LEMMA NextKeeps == ASSUME FiscalInv, Next, NEW k \in Keys PROVE KeptRow(k)
<1>1. TypeOK /\ sale[k] \in SaleRow
  BY DEF FiscalInv, TypeOK
<1>2. ASSUME UNCHANGED sale PROVE KeptRow(k)
  BY <1>2 DEF KeptRow
<1>3. ASSUME NEW j \in Notes, NEW n \in Quantities, CreateNote(j, n) PROVE KeptRow(k)
  BY <1>1, <1>3 DEF CreateNote, KeptRow, TypeOK
<1>4. ASSUME NEW q \in Calls, PersistSale(q) PROVE KeptRow(k)
  BY <1>1, <1>4 DEF PersistSale, KeptRow, TypeOK
<1>5. ASSUME NEW q \in Calls, FinishConversion(q) PROVE KeptRow(k)
  <2>1. CASE call[q].key = k
    <3>1. sale'[k] = [sale[k] EXCEPT !.status = "CONVERTIDA"]
      BY <1>1, <1>5, <2>1 DEF FinishConversion, TypeOK
    <3> QED
      BY <1>1, <3>1 DEF KeptRow, SaleRow
  <2>2. CASE call[q].key # k
    BY <1>1, <1>5, <2>2 DEF FinishConversion, KeptRow, TypeOK
  <2> QED
    BY <2>1, <2>2
<1> QED
  BY <1>2, <1>3, <1>4, <1>5, WritersOnly
  DEF RowStep, Prepare, FinalizeAccepted, FinalizeError

\* A sale is made once and converted once, for every number of requests.
THEOREM SalesAreKeptHolds == Spec => SalesAreKept
<1>1. FiscalInv /\ [Next]_fiscalVars =>
        [\A k \in Keys :
           /\ sale[k].status # "NONE" => sale'[k].items = sale[k].items
           /\ sale[k].status = "CONVERTIDA" => sale'[k] = sale[k]]_fiscalVars
  BY NextKeeps DEF KeptRow
<1> QED
  BY <1>1, FiscalInvHolds, PTL DEF Spec, SalesAreKept

-----------------------------------------------------------------------------
(* What other services rely on: DteContract.                               *)

SawError(c) == c.pc = "save" /\ c.seen # "none"

DocStatus == [k \in Keys |-> doc[k].status]

\* What a step does to the documents and to those who saw one in ERROR.
ContractStep ==
    \/ SeenInError' \subseteq SeenInError /\ DocStatus' = DocStatus
    \/ \E k \in Keys :
          /\ doc[k].status = "ERROR"
          /\ SeenInError' = SeenInError \cup {k} /\ DocStatus' = DocStatus
    \/ \E k \in Keys :
          /\ doc[k].status \in {"NONE", "ERROR"} \/ k \in SeenInError
          /\ DocStatus' = [DocStatus EXCEPT ![k] = "PENDIENTE"]
          /\ SeenInError' \in {SeenInError, SeenInError \ {k}}
    \/ \E k \in Keys, status \in {"EMITIDO", "ERROR"} :
          /\ doc[k].status = "PENDIENTE"
          /\ DocStatus' = [DocStatus EXCEPT ![k] = status]
          /\ SeenInError' = SeenInError

LEMMA SeenWritten ==
    ASSUME TypeOK, NEW q \in Calls, NEW c, call' = [call EXCEPT ![q] = c]
    PROVE  /\ SeenInError \subseteq SeenInError' \cup {call[q].key}
           /\ SeenInError' \subseteq SeenInError \cup {c.key}
           /\ ~SawError(c) => SeenInError' \subseteq SeenInError
           /\ ~SawError(call[q]) => SeenInError \subseteq SeenInError'
           /\ SawError(c) => c.key \in SeenInError'
<1>1. call'[q] = c /\ \A p \in Calls : p # q => call'[p] = call[p]
  BY DEF TypeOK
<1>2. SeenInError = {call[p].key : p \in {o \in Calls : SawError(call[o])}}
  BY DEF SeenInError, SawError
<1>3. SeenInError' = {call'[p].key : p \in {o \in Calls : SawError(call'[o])}}
  BY DEF SeenInError, SawError
<1> QED BY <1>1, <1>2, <1>3

LEMMA SeenKept ==
    ASSUME TypeOK, NEW q \in Calls, NEW c, call' = [call EXCEPT ![q] = c],
           ~SawError(c)
    PROVE  /\ SeenInError' \subseteq SeenInError
           /\ ~SawError(call[q]) => SeenInError' = SeenInError
           /\ SeenInError' \in {SeenInError, SeenInError \ {call[q].key}}
<1>1. /\ SeenInError \subseteq SeenInError' \cup {call[q].key}
      /\ SeenInError' \subseteq SeenInError
      /\ ~SawError(call[q]) => SeenInError \subseteq SeenInError'
  BY SeenWritten
<1>2. CASE call[q].key \in SeenInError'
  BY <1>1, <1>2
<1>3. CASE call[q].key \notin SeenInError'
  BY <1>1, <1>3
<1> QED BY <1>1, <1>2, <1>3

LEMMA DocStatusKept == UNCHANGED doc => DocStatus' = DocStatus
  BY DEF DocStatus

LEMMA DocStatusWritten ==
    ASSUME TypeOK, NEW k \in Keys, NEW row, doc' = [doc EXCEPT ![k] = row]
    PROVE  DocStatus' = [DocStatus EXCEPT ![k] = row.status]
<1>1. doc'[k] = row /\ \A j \in Keys : j # k => doc'[j] = doc[j]
  BY DEF TypeOK
<1>2. DocStatus' = [j \in Keys |-> doc'[j].status]
  BY DEF DocStatus
<1>3. [DocStatus EXCEPT ![k] = row.status]
        = [j \in Keys |-> IF j = k THEN row.status ELSE doc[j].status]
  BY DEF DocStatus
<1> QED BY <1>1, <1>2, <1>3

LEMMA AnsweredSees ==
    ASSUME NEW c, NEW status
    PROVE  ~SawError(Answered(c, status))
<1>1. ~SawError(Idle)
  BY DEF SawError, Idle
<1>2. \A flow, k, n : \A pc \in {"confirm", "persist", "finish"} :
          ~SawError(Arrived(flow, pc, k, n))
  BY DEF SawError, Arrived, Idle
<1> QED BY <1>1, <1>2 DEF Answered

\* A request that is answered, fails or arrives has seen nothing in ERROR.
LEMMA RequestsMove ==
    ASSUME TypeOK, NEW q \in Calls,
           \/ \E status : Reply(q, status)
           \/ Fail(q)
           \/ \E flow, k, n : \E pc \in {"lookup", "getting"} :
                 call' = [call EXCEPT ![q] = Arrived(flow, pc, k, n)]
           \/ /\ call[q].pc # "save"
              /\ \E c \in CallRow : call' = [call EXCEPT ![q] = c] /\ c.pc # "save"
    PROVE  /\ SeenInError' \subseteq SeenInError
           /\ ~SawError(call[q]) => SeenInError' = SeenInError
           /\ SeenInError' \in {SeenInError, SeenInError \ {call[q].key}}
<1>1. ASSUME NEW status, Reply(q, status)
      PROVE  \E c : ~SawError(c) /\ call' = [call EXCEPT ![q] = c]
  BY <1>1, AnsweredSees DEF Reply
<1>2. CASE Fail(q)
  <2>1. ~SawError(Idle)
    BY DEF SawError, Idle
  <2> QED BY <1>2, <2>1, SeenKept DEF Fail
<1>3. ASSUME NEW flow, NEW k, NEW n, NEW pc \in {"lookup", "getting"},
             call' = [call EXCEPT ![q] = Arrived(flow, pc, k, n)]
      PROVE  \E c : ~SawError(c) /\ call' = [call EXCEPT ![q] = c]
  <2>1. ~SawError(Arrived(flow, pc, k, n))
    BY DEF SawError, Arrived, Idle
  <2> QED BY <1>3, <2>1
<1>4. ASSUME NEW c, c.pc # "save" PROVE ~SawError(c)
  BY <1>4 DEF SawError
<1> QED BY <1>1, <1>2, <1>3, <1>4, SeenKept

\* The steps of DteService that leave the rows of the documents.
LEMMA LookupSeen ==
    ASSUME TypeOK, NEW q \in Calls,
           Lookup(q) \/ ReuseConcurrent(q) \/ PrepareFails(q) \/ FinalizeAlready(q)
             \/ Confirm(q) \/ PersistNothing(q) \/ PersistSale(q) \/ FinishConversion(q)
             \/ Post(q) \/ AnswerPost(q) \/ AnswerGet(q) \/ NoAnswer(q)
    PROVE  ContractStep
<1>0. UNCHANGED doc
  BY DEF Lookup, ReuseConcurrent, PrepareFails, FinalizeAlready, Confirm, PersistNothing,
         PersistSale, FinishConversion, Post, AnswerPost, AnswerGet, NoAnswer, AnswerArrives
<1>1. DocStatus' = DocStatus
  BY <1>0, DocStatusKept
<1>2. call[q] \in CallRow /\ (call[q].pc # "idle" => call[q].key \in Keys)
  BY DEF TypeOK
<1>3. ASSUME NEW status, Reply(q, status) PROVE ContractStep
  BY <1>1, <1>3, RequestsMove DEF ContractStep
<1>4. CASE Fail(q)
  BY <1>1, <1>4, RequestsMove DEF ContractStep
<1>5. CASE call' = [call EXCEPT ![q] = Idle]
  BY <1>4, <1>5 DEF Fail
<1>6. ASSUME NEW c, call' = [call EXCEPT ![q] = c], c.pc # "save" PROVE ContractStep
  <2>1. ~SawError(c)
    BY <1>6 DEF SawError
  <2> QED BY <1>1, <1>6, <2>1, SeenKept DEF ContractStep
<1>7. CASE Lookup(q) /\ Retryable(doc[call[q].key].status)
  <2> DEFINE k == call[q].key
             row == doc[k]
             c == [call[q] EXCEPT !.pc = "save",
                      !.seen = IF row.status = "NONE" THEN "none" ELSE row.token]
  <2>1. k \in Keys /\ row.token # "none" /\ row.status \in {"NONE", "ERROR"}
    BY <1>2, <1>7 DEF Lookup, TypeOK, DocRow, Retryable
  <2>2. call' = [call EXCEPT ![q] = c]
    BY <1>7 DEF Lookup, TypeOK
  <2>3. c.pc = "save" /\ c.key = k /\ c.seen = IF row.status = "NONE" THEN "none" ELSE row.token
    BY <1>2 DEF CallRow
  <2>4. ~SawError(call[q])
    BY <1>7 DEF Lookup, SawError
  <2> HIDE DEF c
  <2>5. CASE row.status = "NONE"
    <3>1. ~SawError(c)
      BY <2>3, <2>5 DEF SawError
    <3> QED BY <1>1, <2>2, <3>1, SeenKept DEF ContractStep
  <2>6. CASE row.status = "ERROR"
    <3>1. SawError(c)
      BY <2>1, <2>3, <2>6 DEF SawError
    <3>2. c.key = k
      BY <2>3
    <3>3. /\ SeenInError' \subseteq SeenInError \cup {c.key}
          /\ SeenInError \subseteq SeenInError'
          /\ c.key \in SeenInError'
      BY <2>2, <2>4, <3>1, SeenWritten
    <3>4. SeenInError' = SeenInError \cup {k}
      BY <3>2, <3>3
    <3> QED BY <1>1, <2>1, <2>6, <3>4 DEF ContractStep
  <2> QED BY <2>1, <2>5, <2>6
<1>8. CASE Lookup(q) /\ ~Retryable(doc[call[q].key].status)
  BY <1>3, <1>8 DEF Lookup
<1>9. CASE ReuseConcurrent(q) \/ FinalizeAlready(q)
  BY <1>3, <1>9 DEF ReuseConcurrent, FinalizeAlready
<1>10. CASE PrepareFails(q)
  BY <1>4, <1>10 DEF PrepareFails
<1>11. CASE PersistNothing(q) \/ PersistSale(q) \/ FinishConversion(q)
  BY <1>5, <1>11 DEF PersistNothing, PersistSale, FinishConversion
<1>12. ASSUME NEW pc, pc # "save", call' = [call EXCEPT ![q].pc = pc] PROVE ContractStep
  <2>1. call' = [call EXCEPT ![q] = [call[q] EXCEPT !.pc = pc]]
    BY <1>12 DEF TypeOK
  <2>2. [call[q] EXCEPT !.pc = pc].pc = pc
    BY <1>2 DEF CallRow
  <2> QED BY <1>6, <1>12, <2>1, <2>2
<1>13. CASE Confirm(q)
  BY <1>3, <1>4, <1>12, <1>13 DEF Confirm
<1>14. CASE Post(q)
  BY <1>12, <1>14 DEF Post
<1>15. ASSUME NEW answer, AnswerArrives(q, answer) PROVE ContractStep
  <2> DEFINE c == [call[q] EXCEPT !.pc = "finalize", !.answer = answer]
  <2>1. call' = [call EXCEPT ![q] = c]
    BY <1>15 DEF AnswerArrives, TypeOK
  <2>2. c.pc = "finalize"
    BY <1>2 DEF CallRow
  <2> HIDE DEF c
  <2> QED BY <1>6, <2>1, <2>2
<1>16. CASE AnswerPost(q) \/ AnswerGet(q) \/ NoAnswer(q)
  BY <1>15, <1>16 DEF AnswerPost, AnswerGet, NoAnswer
<1> QED BY <1>7, <1>8, <1>9, <1>10, <1>11, <1>13, <1>14, <1>16

\* A document is opened by who found it so, or had seen it in ERROR.
LEMMA PrepareOpens ==
    ASSUME TypeOK, NEW q \in Calls, Prepare(q)
    PROVE  ContractStep
<1> DEFINE k == call[q].key
           remote == call[q].seen = "remote"
           row == [status |-> "PENDIENTE", items |-> call[q].items,
                   token |-> IF remote THEN "remote" ELSE "local"]
           pc == IF remote THEN "getting" ELSE "post"
           c == [call[q] EXCEPT !.pc = pc, !.seen = "none"]
<1>1. call[q] \in CallRow /\ k \in Keys /\ call[q].pc = "save"
  BY DEF Prepare, TypeOK
<1>2. DocStatus' = [DocStatus EXCEPT ![k] = "PENDIENTE"]
  <2>1. doc' = [doc EXCEPT ![k] = row] /\ row.status = "PENDIENTE"
    BY DEF Prepare
  <2>2. \A r : doc' = [doc EXCEPT ![k] = r] => DocStatus' = [DocStatus EXCEPT ![k] = r.status]
    BY <1>1, DocStatusWritten
  <2> QED BY <2>1, <2>2
<1>3. doc[k].status \in {"NONE", "ERROR"} \/ k \in SeenInError
  <2>1. CASE call[q].seen = "none"
    BY <2>1 DEF Prepare, Retryable
  <2>2. CASE call[q].seen # "none"
    BY <1>1, <2>2 DEF SeenInError
  <2> QED BY <2>1, <2>2
<1>4. call' = [call EXCEPT ![q] = c]
  BY DEF Prepare, TypeOK
<1>5. c.pc # "save"
  BY <1>1 DEF CallRow
<1>6. ~SawError(c)
  BY <1>5 DEF SawError
<1> HIDE DEF c
<1>7. SeenInError' \in {SeenInError, SeenInError \ {k}}
  BY <1>4, <1>6, SeenKept
<1> QED BY <1>1, <1>2, <1>3, <1>7 DEF ContractStep

LEMMA FinalizeCloses ==
    ASSUME TypeOK, NEW q \in Calls, FinalizeAccepted(q) \/ FinalizeError(q)
    PROVE  ContractStep
<1> DEFINE k == call[q].key
<1>1. k \in Keys /\ doc[k] \in DocRow /\ doc[k].status = "PENDIENTE" /\ ~SawError(call[q])
  BY DEF FinalizeAccepted, FinalizeError, TypeOK, SawError
<1>2. SeenInError' = SeenInError
  BY <1>1, RequestsMove DEF FinalizeAccepted, FinalizeError
<1>3. ASSUME NEW status, NEW token,
             doc' = [doc EXCEPT ![k].status = status, ![k].token = token]
      PROVE  DocStatus' = [DocStatus EXCEPT ![k] = status]
  <2> DEFINE row == [doc[k] EXCEPT !.status = status, !.token = token]
  <2>1. doc' = [doc EXCEPT ![k] = row]
    BY <1>3 DEF TypeOK
  <2>2. row.status = status
    BY <1>1 DEF DocRow
  <2> HIDE DEF row
  <2> QED BY <1>1, <2>1, <2>2, DocStatusWritten
<1>4. CASE FinalizeAccepted(q)
  <2> DEFINE status == StatusOf(call[q].answer)
  <2>1. status \in {"EMITIDO", "PENDIENTE"} /\ DocStatus' = [DocStatus EXCEPT ![k] = status]
    BY <1>3, <1>4 DEF FinalizeAccepted, StatusOf
  <2>2. DocStatus[k] = "PENDIENTE" /\ DocStatus = [j \in Keys |-> DocStatus[j]]
    BY <1>1 DEF DocStatus
  <2>3. CASE status = "PENDIENTE"
    <3>1. DocStatus' = DocStatus
      BY <2>1, <2>2, <2>3
    <3> QED BY <1>2, <3>1 DEF ContractStep
  <2>4. CASE status = "EMITIDO"
    BY <1>1, <1>2, <2>1, <2>4 DEF ContractStep
  <2> QED BY <2>1, <2>3, <2>4
<1>5. CASE FinalizeError(q)
  <2>1. DocStatus' = [DocStatus EXCEPT ![k] = "ERROR"]
    BY <1>3, <1>5 DEF FinalizeError
  <2> QED BY <1>1, <1>2, <2>1 DEF ContractStep
<1> QED BY <1>4, <1>5

LEMMA ArriveSeen ==
    ASSUME TypeOK, Arrive \/ Poll
    PROVE  ContractStep
<1>0. UNCHANGED doc
  BY DEF Arrive, Poll, StartDocument, StartSale, StartConversion, CreateNote, StartReconcile
<1>1. DocStatus' = DocStatus
  BY <1>0, DocStatusKept
<1>2. Requests \subseteq Calls /\ Poller \in Calls
  BY DEF Calls
<1>3. ASSUME NEW q \in Calls, NEW flow, NEW k, NEW n, NEW pc \in {"lookup", "getting"},
             call' = [call EXCEPT ![q] = Arrived(flow, pc, k, n)]
      PROVE  ContractStep
  <2>1. SeenInError' \subseteq SeenInError
    BY <1>3, RequestsMove
  <2> QED BY <1>1, <2>1 DEF ContractStep
<1>4. ASSUME NEW q \in Calls, NEW k, NEW n, StartDocument(q, k, n) \/ StartSale(q, k, n)
      PROVE  ContractStep
  BY <1>3, <1>4 DEF StartDocument, StartSale
<1>5. ASSUME NEW q \in Calls, NEW k, StartConversion(q, k) PROVE ContractStep
  BY <1>3, <1>5 DEF StartConversion
<1>6. ASSUME NEW q \in Calls, NEW k, StartReconcile(q, k) PROVE ContractStep
  BY <1>3, <1>6 DEF StartReconcile
<1>7. ASSUME UNCHANGED call PROVE ContractStep
  BY <1>1, <1>7 DEF ContractStep, SeenInError
<1>8. ASSUME NEW k, NEW n, CreateNote(k, n) PROVE ContractStep
  BY <1>7, <1>8 DEF CreateNote
<1> QED BY <1>2, <1>4, <1>5, <1>6, <1>8 DEF Arrive, Poll

LEMMA NextContract ==
    ASSUME TypeOK, [Next]_fiscalVars
    PROVE  ContractStep
<1>1. ASSUME UNCHANGED <<doc, call>> PROVE ContractStep
  BY <1>1, DocStatusKept DEF ContractStep, SeenInError
<1>2. CASE Openfactura \/ TurnDrawer \/ UNCHANGED fiscalVars
  BY <1>1, <1>2 DEF Openfactura, Receive, Decide, TurnDrawer, fiscalVars
<1>3. ASSUME NEW Q, Lose(Q) PROVE ContractStep
  <2>1. \A q \in Calls : call'[q] = Idle \/ call'[q] = call[q]
    BY <1>3 DEF Lose
  <2>2. SeenInError' \subseteq SeenInError
    BY <2>1 DEF SeenInError, Idle
  <2> QED BY <1>3, <2>2, DocStatusKept DEF Lose, ContractStep
<1>4. CASE Crash \/ \E q \in Calls : Abort(q)
  BY <1>3, <1>4 DEF Crash, Abort
<1>5. ASSUME NEW q \in Calls, DteStep(q) \/ SaleStep(q) PROVE ContractStep
  BY <1>5, LookupSeen, PrepareOpens, FinalizeCloses DEF DteStep, SaleStep
<1> QED BY <1>2, <1>4, <1>5, ArriveSeen DEF Next

LEMMA ContractStepKeeps ==
    ASSUME ContractStep
    PROVE  [Contract!ContractNext]_Contract!contractVars
<1>1. [k \in Keys |-> doc[k].status] = DocStatus
  BY DEF DocStatus
<1>2. CASE SeenInError' \subseteq SeenInError /\ DocStatus' = DocStatus
  BY <1>2 DEF Contract!ContractNext, Contract!GiveUp, DocStatus
<1>3. ASSUME NEW k \in Keys, doc[k].status = "ERROR",
             SeenInError' = SeenInError \cup {k}, DocStatus' = DocStatus
      PROVE  Contract!SeeError(k)
  BY <1>3 DEF Contract!SeeError, DocStatus
<1>4. ASSUME NEW k \in Keys, doc[k].status \in {"NONE", "ERROR"} \/ k \in SeenInError,
             DocStatus' = [DocStatus EXCEPT ![k] = "PENDIENTE"],
             SeenInError' \in {SeenInError, SeenInError \ {k}}
      PROVE  Contract!Reopen(k)
  BY <1>4 DEF Contract!Reopen, Contract!Open, Contract!Openable, DocStatus
<1>5. ASSUME NEW k \in Keys, NEW status, doc[k].status = "PENDIENTE",
             DocStatus' = [DocStatus EXCEPT ![k] = status], SeenInError' = SeenInError
      PROVE  Contract!Finish(k, status)
  BY <1>5 DEF Contract!Finish, Contract!Close, DocStatus
<1> QED BY <1>2, <1>3, <1>4, <1>5 DEF ContractStep, Contract!ContractNext

\* DteService keeps its contract with the services that ask it for documents:
\* whatever requests, answers, retries, restarts and the poller do, each step
\* is one of DteContract or leaves what it speaks of.
THEOREM ContractKept == Spec => ImplementsContract
<1>1. Init => Contract!DteInit /\ SeenInError = {}
  BY DEF Init, Contract!DteInit, SeenInError, NoDoc, Idle
<1>2. TypeOK /\ [Next]_fiscalVars => [Contract!ContractNext]_Contract!contractVars
  BY NextContract, ContractStepKeeps
<1> QED
  BY <1>1, <1>2, FiscalTypeCorrect, PTL DEF Spec, ImplementsContract, Contract!ContractSpec
===============================================================================

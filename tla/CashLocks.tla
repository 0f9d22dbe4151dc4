------------------------------ MODULE CashLocks ------------------------------
(***************************************************************************)
(* The same services one SQL statement at a time: which row a transaction  *)
(* asks FOR UPDATE, what it waits for, what it reads under its locks and   *)
(* when it commits.  CashDrawer takes each transaction as one step; here   *)
(* that is what has to come out (LocksImplementLedger).                       *)
(*                                                                         *)
(* PostgreSQL runs at READ COMMITTED: SELECT ... FOR UPDATE finds its row  *)
(* among the committed ones, waits for the lock, and then evaluates its    *)
(* WHERE again on the row as it is by then.  Writes are seen at the commit, *)
(* which also releases the locks.  Rollback writes nothing.                *)
(***************************************************************************)
EXTENDS Integers, FiniteSets

CONSTANTS
    Registers,
    Connections,   \* those that serve a request each, so many at the same time
    MaxSessions,   \* bound: sessions of each register,
    MaxTransfers,  \*   transfers out of each register,
    MaxPosts,      \*   and manual movements there may be
    Posts,         \* the manual movements in use, [kind, register]
    None

ASSUME LocksAssumption ==
    /\ MaxSessions \in [Registers -> Nat]
    /\ MaxTransfers \in Nat /\ MaxPosts \in Nat
    /\ Posts \subseteq [kind : {"deposit", "withdraw"}, register : Registers]

Sessions  == UNION {{r} \X (1..MaxSessions[r]) : r \in Registers}
Transfers == Registers \X (1..MaxTransfers)

ASSUME NoneIsNoRow == None \notin Registers \cup Sessions

\* The rows that are locked.
RegisterRow(r) == <<"register", r>>
SessionRow(s)  == <<"session", s>>
TransferRow(t) == <<"transfer", t>>
Rows == {RegisterRow(r) : r \in Registers} \cup {SessionRow(s) : s \in Sessions}
          \cup {TransferRow(t) : t \in Transfers}

\* What a request asks for.  A transfer to the vault, which locks no second
\* session, is left to CashDrawer.
Ops == [kind : {"open", "close"}, register : Registers] \cup Posts
  \cup [kind : {"force"}, session : Sessions]
  \cup [kind : {"request"}, register : Registers, destination : Registers]
  \cup [kind : {"complete", "cancel"}, transfer : Transfers]

NoOp == [kind |-> "none"]

VARIABLES
    session,   \* committed: status, expected cash and balance at the seal
    transfer,  \* committed: status, source session and destination register
    posts,     \* manual movements asked for, kept by MaxPosts
    op,        \* what each request asks for
    pc,        \* where its transaction is
    awaits,    \* the row it has found and waits to lock
    held,      \* the rows it has locked
    seen       \* the expected cash it has read to seal it

rows == <<session, transfer>>
lockVars == <<session, transfer, posts, op, pc, awaits, held, seen>>

IsOpen(s) == session[s].status = "OPEN"
OpenSessionsOf(r) == {s \in Sessions : s[1] = r /\ IsOpen(s)}
\* Mutation: only a missing transfer is refused.
InProgress_Undead(t) == transfer[t].status # "NONE"

InProgress(t) == transfer[t].status = "PENDING"
InProgressFrom(s) == {t \in Transfers : InProgress(t) /\ transfer[t].source = s}
Lowest(ids) == {i \in ids : \A j \in ids : i[2] <= j[2]}
UnusedSessions(r) == {s \in Sessions : s[1] = r /\ session[s].status = "NONE"}
UnusedTransfers(r) == {t \in Transfers : t[1] = r /\ transfer[t].status = "NONE"}

Init ==
    /\ session = [s \in Sessions |-> [status |-> "NONE", cash |-> 0, sealed |-> None]]
    /\ transfer = [t \in Transfers |->
                     [status |-> "NONE", source |-> None, destination |-> None]]
    /\ posts = 0
    /\ op = [q \in Connections |-> NoOp]
    /\ pc = [q \in Connections |-> "idle"]
    /\ awaits = [q \in Connections |-> None]
    /\ held = [q \in Connections |-> {}]
    /\ seen = [q \in Connections |-> None]

-----------------------------------------------------------------------------
(* Transactions.                                                           *)

\* The request is answered and its locks are released, with or without writes.
End(q) ==
    /\ op' = [op EXCEPT ![q] = NoOp]
    /\ pc' = [pc EXCEPT ![q] = "idle"]
    /\ awaits' = [awaits EXCEPT ![q] = None]
    /\ held' = [held EXCEPT ![q] = {}]
    /\ seen' = [seen EXCEPT ![q] = None]
    /\ UNCHANGED posts

\* Mutation: a refused request leaves its transaction, and its locks, open.
Rollback_Leaks(q) ==
    /\ op' = [op EXCEPT ![q] = NoOp]
    /\ pc' = [pc EXCEPT ![q] = "idle"]
    /\ awaits' = [awaits EXCEPT ![q] = None]
    /\ UNCHANGED <<session, transfer, posts, held, seen>>

Rollback(q) == End(q) /\ UNCHANGED rows

\* The row the first SELECT ... FOR UPDATE of a request finds among the
\* committed ones: the OPEN session of its register, the OPEN session a forced
\* close names, the source session of the transfer to complete while OPEN, ...
FirstRow(o) ==
    CASE o.kind = "open" -> {RegisterRow(o.register)}
      [] o.kind = "cancel" ->
           {TransferRow(t) : t \in {u \in {o.transfer} : transfer[u].status # "NONE"}}
      [] o.kind = "force" -> {SessionRow(s) : s \in {u \in {o.session} : IsOpen(u)}}
      [] o.kind = "complete" ->
           {SessionRow(s) : s \in {u \in Sessions : u = transfer[o.transfer].source
                                                      /\ IsOpen(u)}}
      [] OTHER -> {SessionRow(s) : s \in OpenSessionsOf(o.register)}

\* A request arrives and finds its first row; one that finds none is answered
\* at once (404) and leaves no trace.
Ask(q, o) ==
    /\ pc[q] = "idle"
    /\ o.kind = "request" => o.destination # o.register
    /\ o \in Posts => posts < MaxPosts
    /\ posts' = IF o \in Posts THEN posts + 1 ELSE posts
    /\ op' = [op EXCEPT ![q] = o]
    /\ \E row \in FirstRow(o) : awaits' = [awaits EXCEPT ![q] = row]
    /\ pc' = [pc EXCEPT ![q] = "wait"]
    /\ UNCHANGED <<session, transfer, held, seen>>

Free(row) == \A p \in Connections : row \notin held[p]

\* The WHERE again on the row just locked.  forceCloseSession locks by id.
StillThere(q) ==
    \A s \in Sessions :
        awaits[q] = SessionRow(s) /\ op[q].kind # "force" => IsOpen(s)

\* complete goes on to the transfer row and, once that is known to be in
\* progress, to the session of its destination register.
SeeksMore(q) ==
    /\ op[q].kind = "complete"
    /\ \/ held[q] = {}
       \/ /\ awaits[q] = TransferRow(op[q].transfer)
          /\ InProgress(op[q].transfer)

\* The row it goes on to.
NextRow(q) ==
    LET t == op[q].transfer IN
    IF TransferRow(t) \notin held[q] THEN {TransferRow(t)}
    ELSE {SessionRow(d) : d \in OpenSessionsOf(transfer[t].destination)} \ held[q]

Grant(q) ==
    /\ pc[q] = "wait"
    /\ Free(awaits[q])
    /\ StillThere(q)
    /\ held' = [held EXCEPT ![q] = @ \cup {awaits[q]}]
    /\ awaits' = [awaits EXCEPT ![q] = None]
    /\ pc' = [pc EXCEPT ![q] = IF SeeksMore(q) THEN "seek" ELSE "check"]
    /\ UNCHANGED <<session, transfer, posts, op, seen>>

Seek(q) ==
    /\ pc[q] = "seek"
    /\ \E row \in NextRow(q) : awaits' = [awaits EXCEPT ![q] = row]
    /\ pc' = [pc EXCEPT ![q] = "wait"]
    /\ UNCHANGED <<session, transfer, posts, op, held, seen>>

\* The destination has no OPEN session, or it is the source: 400.
SeekNothing(q) ==
    /\ pc[q] = "seek"
    /\ NextRow(q) = {}
    /\ Rollback(q)

\* The row is no longer what was looked for.
GrantNothing(q) ==
    /\ pc[q] = "wait"
    /\ Free(awaits[q])
    /\ ~StillThere(q)
    /\ Rollback(q)

-----------------------------------------------------------------------------
(* What each service checks under its locks, and what it writes.           *)

LockedSessions(q) == {s \in Sessions : SessionRow(s) \in held[q]}
Source(q) == CHOOSE s \in LockedSessions(q) :
                op[q].kind = "complete" => s = transfer[op[q].transfer].source

Cash(q) == session[Source(q)].cash

\* Mutation: the cash there is does not bound the transfer.
Covered_Unchecked(q) == TRUE

Covered(q) == Cash(q) >= 1

Allowed(q) ==
    CASE op[q].kind = "open" ->
           /\ OpenSessionsOf(op[q].register) = {}
           /\ UnusedSessions(op[q].register) # {}
      [] op[q].kind \in {"close", "force"} -> InProgressFrom(Source(q)) = {}
      [] op[q].kind = "request" -> UnusedTransfers(op[q].register) # {}
      [] op[q].kind = "complete" -> InProgress(op[q].transfer) /\ Covered(q)
      [] op[q].kind = "cancel" -> InProgress(op[q].transfer)
      [] OTHER -> TRUE

Check(q) ==
    /\ pc[q] = "check"
    /\ Allowed(q)
    /\ seen' = [seen EXCEPT ![q] =
                  IF op[q].kind \in {"close", "force"} THEN Cash(q) ELSE None]
    /\ pc' = [pc EXCEPT ![q] = "commit"]
    /\ UNCHANGED <<session, transfer, posts, op, awaits, held>>

Refuse(q) ==
    /\ pc[q] = "check"
    /\ ~Allowed(q)
    /\ Rollback(q)

\* openSession
CommitOpen(q) ==
    /\ pc[q] = "commit" /\ op[q].kind = "open"
    /\ \E s \in Lowest(UnusedSessions(op[q].register)) :
         session' = [session EXCEPT ![s] =
                       [status |-> "OPEN", cash |-> 1, sealed |-> None]]
    /\ UNCHANGED transfer
    /\ End(q)

\* createManualMovement and the charge of a sale
CommitPost(q) ==
    /\ pc[q] = "commit" /\ op[q] \in Posts
    /\ session' = [session EXCEPT ![Source(q)].cash =
                     IF op[q].kind = "deposit" THEN @ + 1 ELSE @ - 1]
    /\ UNCHANGED transfer
    /\ End(q)

\* closeSession and forceCloseSession: what was read is what is sealed
CommitSeal(q) ==
    /\ pc[q] = "commit" /\ op[q].kind \in {"close", "force"}
    /\ session' = [session EXCEPT ![Source(q)].status = "CLOSED",
                                  ![Source(q)].sealed = seen[q]]
    /\ UNCHANGED transfer
    /\ End(q)

\* CashTransfersService.create
CommitRequest(q) ==
    /\ pc[q] = "commit" /\ op[q].kind = "request"
    /\ \E t \in Lowest(UnusedTransfers(op[q].register)) :
         transfer' = [transfer EXCEPT ![t] =
                        [status |-> "PENDING", source |-> Source(q),
                         destination |-> op[q].destination]]
    /\ UNCHANGED session
    /\ End(q)

\* CashTransfersService.complete
CommitComplete(q) ==
    /\ pc[q] = "commit" /\ op[q].kind = "complete"
    /\ transfer' = [transfer EXCEPT ![op[q].transfer].status = "COMPLETED"]
    /\ session' = [s \in Sessions |->
         IF s = Source(q) THEN [session[s] EXCEPT !.cash = @ - 1]
         ELSE IF s \in LockedSessions(q) THEN [session[s] EXCEPT !.cash = @ + 1]
         ELSE session[s]]
    /\ End(q)

\* CashTransfersService.reject and cancel
CommitCancel(q) ==
    /\ pc[q] = "commit" /\ op[q].kind = "cancel"
    /\ transfer' = [transfer EXCEPT ![op[q].transfer].status = "CANCELLED"]
    /\ UNCHANGED session
    /\ End(q)

Commit(q) == CommitOpen(q) \/ CommitPost(q) \/ CommitSeal(q) \/ CommitRequest(q)
               \/ CommitComplete(q) \/ CommitCancel(q)

-----------------------------------------------------------------------------
(* PostgreSQL ends a wait.                                                 *)

Waits(q) == pc[q] = "wait" /\ ~Free(awaits[q])

\* lock_timeout of the connection pool
LockTimeout(q) == Waits(q) /\ Rollback(q)

WaitsFor(p, q) == pc[p] = "wait" /\ awaits[p] \in held[q]

\* Requests that wait for one another.
Deadlocked(q) ==
    \E S \in SUBSET Connections :
        q \in S /\ \A p \in S : \E r \in S \ {p} : WaitsFor(p, r)

\* The server breaks a cycle of waits by making one of its members fail.
DeadlockAbort(q) == Deadlocked(q) /\ Rollback(q)

Work(q) == Seek(q) \/ SeekNothing(q) \/ GrantNothing(q) \/ Check(q) \/ Refuse(q)
             \/ Commit(q)

Next ==
    \E q \in Connections :
        \/ \E o \in Ops : Ask(q, o)
        \/ Work(q)
        \/ Grant(q)
        \/ LockTimeout(q)
        \/ DeadlockAbort(q)

Spec == Init /\ [][Next]_lockVars

\* A transaction goes on unless it waits, a lock that keeps coming free is
\* granted some time (PostgreSQL queues the waiters of a row), and the server
\* looks for deadlocks.  Nothing makes a request arrive or a wait time out.
Fairness ==
    \A q \in Connections :
        /\ WF_lockVars(Work(q))
        /\ SF_lockVars(Grant(q))
        /\ WF_lockVars(DeadlockAbort(q))

FairSpec == Spec /\ Fairness

-----------------------------------------------------------------------------
(* Properties.                                                             *)

\* complete, cancel and another complete of one transfer never both commit.
OneOutcomePerTransfer ==
    [][\A t \in Transfers :
         transfer[t].status \in {"COMPLETED", "CANCELLED"}
            => transfer'[t] = transfer[t]]_lockVars

Ledger == INSTANCE CashLedger WITH
    NULL    <- None,
    phase   <- [s \in Sessions |-> session[s].status],
    balance <- [s \in Sessions |-> session[s].cash],
    sealed  <- [s \in Sessions |-> session[s].sealed]

\* What commits, in the order it commits, is a behaviour of CashLedger: the
\* locks make the statements of a transaction one step.
LocksImplementLedger == Ledger!LedgerSpec

\* Every request is answered: no wait lasts for ever, crossing transfers between
\* two registers included.
EveryRequestEnds == \A q \in Connections : pc[q] # "idle" ~> pc[q] = "idle"
=============================================================================

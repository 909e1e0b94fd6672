----------------------------- MODULE Transactions -----------------------------
(***************************************************************************)
(* <cftransaction> on one worker: the stack of transaction frames          *)
(* (g_txStack), the pooled connections the frames borrow, and the requests  *)
(* that come one after another.  A frame begins its transaction with its    *)
(* first statement, on the connection the worker has for that datasource.  *)
(* The body of a block can end normally, throw, or be left by a jump, which *)
(* is the same to the stack as not ending.  Meanwhile the database can drop *)
(* a connection, and a new configuration closes all of them.               *)
(*                                                                         *)
(* The database is external: a connection is in autocommit, or has a        *)
(* transaction with the writes and savepoints made in it, in order.         *)
(***************************************************************************)
EXTENDS Naturals, Sequences

CONSTANTS Names,         \* datasource names as the templates spell them
          Upper,         \* the pool's key of each
          Conns,         \* connection objects
          Writes,        \* statements that change something, each made once
          Savepoints,    \* names of savepoints
          None,
          Backend,       \* "sqlite" or "mysql"
          MaxDepth,      \* bound on the frames and on the open blocks
          MaxSaves,      \* bound on the savepoints of a frame
          MaxBlocks,     \* bound on the blocks begun
          MaxRequests    \* bound on the requests

Dsns == {Upper[n] : n \in Names}
Ids == 1 .. MaxBlocks     \* blocks; the frame a block pushes has its id

ASSUME NoneAssumption == None \notin Names \cup Conns \cup Nat
ASSUME EntryAssumption == Writes \cap Savepoints = {}
ASSUME BackendAssumption == Backend \in {"sqlite", "mysql"}
ASSUME BoundAssumption == \A n \in {MaxDepth, MaxSaves, MaxBlocks, MaxRequests} : n \in Nat

VARIABLES phase,     \* what the request is doing
          stmt,      \* the statement about to be executed
          stack,     \* g_txStack
          blocks,    \* the open <cftransaction> bodies, innermost last
          pool,      \* s_threadConnections
          conn,      \* the connection objects
          durable,   \* the writes that are committed
          queried, retried,   \* g_requestQueriedDsns, g_requestRetriedDsns
          count,     \* requests and blocks begun
          by,        \* the frame on whose connection a write ran, 0 for none
          committed, \* the frames cf_transaction_commit has popped
          hist       \* what else became of frames, blocks and writes

vars == <<phase, stmt, stack, blocks, pool, conn, durable, queried, retried,
          count, by, committed, hist>>

Frame == [id : Ids, dsn : Names \cup {None}, conn : Conns \cup {None},
          saves : Seq(Savepoints)]

\* "lost": the database has dropped it, "deleted": the object is no more.
Connection == [state : {"unused", "open", "lost", "deleted"}, active : BOOLEAN,
               work : Seq(Writes \cup Savepoints)]

In(state) == [state |-> state, active |-> FALSE, work |-> <<>>]
Autocommit == In("open")

Statement == [name : Names, conn : Conns, owned : BOOLEAN, query : BOOLEAN]

History == [mixed   : SUBSET Ids,    \* frames that have had a connection in common
            thrown  : SUBSET Ids,    \* blocks whose body threw
            settled : SUBSET Ids,    \* blocks that have committed explicitly
            undone  : SUBSET Writes] \* rolled back to a savepoint

Pooled == {c \in Conns : \E d \in Dsns : pool[d] = c}

TypeOK ==
    /\ phase \in {"idle", "page", "execute", "raising", "undefined"}
    /\ stmt \in Statement \cup {None}
    /\ stack \in Seq(Frame) /\ blocks \in Seq(Ids)
    /\ pool \in [Dsns -> Conns \cup {None}]
    /\ conn \in [Conns -> Connection]
    /\ \A c \in Pooled : conn[c].state \in {"open", "lost"}
    /\ durable \subseteq Writes
    /\ queried \subseteq Dsns /\ retried \subseteq Dsns
    /\ count \in [requests : 0 .. MaxRequests, blocks : 0 .. MaxBlocks]
    /\ by \in [Writes -> (0 .. MaxBlocks) \cup {None}]
    /\ committed \subseteq Ids
    /\ hist \in History

Init ==
    /\ phase = "idle" /\ stmt = None
    /\ stack = <<>> /\ blocks = <<>>
    /\ pool = [d \in Dsns |-> None]
    /\ conn = [c \in Conns |-> In("unused")]
    /\ durable = {} /\ queried = {} /\ retried = {}
    /\ count = [requests |-> 0, blocks |-> 0]
    /\ by = [w \in Writes |-> None]
    /\ committed = {}
    /\ hist = [mixed |-> {}, thrown |-> {}, settled |-> {}, undone |-> {}]

Top == stack[Len(stack)]
Pop(seq) == SubSeq(seq, 1, Len(seq) - 1)
SetTop(frame) == [stack EXCEPT ![Len(stack)] = frame]

\* The frames that hold a connection, and the innermost of them, if any does.
Holders(c) == {i \in DOMAIN stack : stack[i].conn = c}
Holder(c) == IF Holders(c) = {} THEN {0}
             ELSE {stack[i].id : i \in {i \in Holders(c) : \A j \in Holders(c) : j <= i}}

pageVars == <<pool, queried, retried, count, by>>

-------------------------------------------------------------------------------
(* The database: BEGIN, COMMIT and ROLLBACK on a connection.               *)

Written(c) == {conn[c].work[i] : i \in DOMAIN conn[c].work} \cap Writes

BeginFails(c) == conn[c].state # "open" \/ (Backend = "sqlite" /\ conn[c].active)

\* SQLite rejects a COMMIT and a ROLLBACK where there is no transaction.
EndFails(c) == conn[c].state # "open" \/ (Backend = "sqlite" /\ ~conn[c].active)

\* An exception of the driver, or the use of an object that has been deleted.
Failed(c) == IF c # None /\ conn[c].state = "deleted" THEN "undefined" ELSE "raising"

\* The connections cs after a ROLLBACK, or after a COMMIT, whose result is ignored.
EndedIn(cs) == [c \in Conns |-> IF c \in cs /\ conn[c].state = "open" THEN Autocommit
                                ELSE conn[c]]

DeletedIn(conns, cs) == [c \in Conns |-> IF c \in cs THEN In("deleted") ELSE conns[c]]

LoseConnection ==
    /\ phase \in {"page", "execute"}
    /\ \E c \in Pooled : conn[c].state = "open" /\ conn' = [conn EXCEPT ![c] = In("lost")]
    /\ UNCHANGED <<phase, stmt, stack, blocks, durable, committed, hist, pageVars>>

-------------------------------------------------------------------------------
(* Requests.                                                               *)

\* process_request: if the configuration file has changed, the connections are closed;
\* then scope_begin rolls back the frames that are left, if "clears".
Begin(clears) ==
    /\ phase = "idle" /\ count.requests < MaxRequests
    /\ count' = [count EXCEPT !.requests = @ + 1]
    /\ \E changed \in BOOLEAN :
          LET conns == IF changed THEN DeletedIn(conn, Pooled) ELSE conn
              left == {c \in Conns : Holders(c) # {}}
              gone == \E c \in left : conns[c].state = "deleted"
          IN /\ phase' = IF gone THEN "undefined" ELSE "page"
             /\ conn' = IF changed THEN conns ELSE EndedIn(left)
             /\ pool' = IF changed THEN [d \in Dsns |-> None] ELSE pool
    /\ stack' = IF clears THEN <<>> ELSE stack
    /\ queried' = {} /\ retried' = {}
    /\ UNCHANGED <<stmt, blocks, durable, by, committed, hist>>

\* The mutated form: scope_begin leaves the frames alone.
BeginUncleared == Begin(FALSE)

BeginRequest == Begin(TRUE)

\* The page ends, also with an exception nothing has caught or a <cfabort>, which
\* no block catches.  requestCleanupConnections rolls back the pooled connections.
Finish(rolledBack) ==
    /\ phase = "page" \/ (phase = "raising" /\ blocks = <<>>)
    /\ phase' = "idle"
    /\ blocks' = <<>>
    /\ conn' = EndedIn(rolledBack)
    /\ UNCHANGED <<stmt, stack, durable, committed, hist, pageVars>>

\* The mutated form: no clean-up.
FinishUncleaned == Finish({})

FinishRequest == Finish(Pooled)

\* The mutated form: the objects are deleted and the pool keeps its entries.
InvalidateForgetful ==
    /\ phase = "page" /\ Pooled # {}
    /\ conn' = DeletedIn(conn, Pooled)
    /\ UNCHANGED <<phase, stmt, stack, blocks, durable, committed, hist, pageVars>>

\* A page that saves the configuration (invalidateCompiledCaches).
InvalidateCaches ==
    /\ phase = "page"
    /\ Pooled # {}
    /\ conn' = DeletedIn(conn, Pooled)
    /\ pool' = [d \in Dsns |-> None]
    /\ UNCHANGED <<phase, stmt, stack, blocks, durable, queried, retried, count,
                   by, committed, hist>>

-------------------------------------------------------------------------------
(* Blocks and frames.                                                      *)

OpenBlock ==
    /\ phase = "page"
    /\ Len(blocks) < MaxDepth /\ Len(stack) < MaxDepth /\ count.blocks < MaxBlocks
    /\ LET b == count.blocks + 1
       IN /\ count' = [count EXCEPT !.blocks = b]
          /\ blocks' = Append(blocks, b)
          /\ stack' = Append(stack, [id |-> b, dsn |-> None, conn |-> None, saves |-> <<>>])
    /\ UNCHANGED <<phase, stmt, pool, conn, durable, queried, retried, by, committed, hist>>

\* cf_transaction_commit and cf_transaction_rollback, with the phase the page is in
\* after them.  A COMMIT that fails leaves the frame on the stack.
EndFrame(commits, after) ==
    LET c == IF stack = <<>> THEN None ELSE Top.conn
        fails == c # None /\ EndFails(c)
    IN /\ phase' = IF fails THEN Failed(c) ELSE after
       /\ IF fails \/ stack = <<>>
          THEN UNCHANGED <<stack, conn, durable, committed>>
          ELSE /\ stack' = Pop(stack)
               /\ conn' = EndedIn({c})
               /\ durable' = IF commits /\ c # None THEN durable \cup Written(c) ELSE durable
               /\ committed' = IF commits THEN committed \cup {Top.id} ELSE committed

CommitFrame(after) == EndFrame(TRUE, after)

\* The mutated form: the frame is popped, its transaction left as it is.
DropFrame(after) ==
    /\ phase' = after
    /\ stack' = IF stack = <<>> THEN stack ELSE Pop(stack)
    /\ UNCHANGED <<conn, durable, committed>>

RollbackFrame(after) == EndFrame(FALSE, after)

\* </cftransaction>: whichever frame is on top.
CloseBlock ==
    /\ phase = "page" /\ blocks # <<>>
    /\ blocks' = Pop(blocks)
    /\ CommitFrame("page")
    /\ UNCHANGED <<stmt, hist, pageVars>>

\* The catch-all of the block; the exception goes on.
UnwindBlock ==
    /\ phase = "raising" /\ blocks # <<>>
    /\ blocks' = Pop(blocks)
    /\ hist' = [hist EXCEPT !.thrown = @ \cup {blocks[Len(blocks)]}]
    /\ RollbackFrame("raising")
    /\ UNCHANGED <<stmt, pageVars>>

\* <cfbreak>, <cfcontinue>, a return, or a <cfexit> of an included page: the block is
\* left without a call of the runtime.
LeaveBlock ==
    /\ phase = "page" /\ blocks # <<>>
    /\ blocks' = Pop(blocks)
    /\ UNCHANGED <<phase, stmt, stack, conn, durable, committed, hist, pageVars>>

\* A <cftry> of the page.
Catch ==
    /\ phase = "raising"
    /\ phase' = "page"
    /\ UNCHANGED <<stmt, stack, blocks, conn, durable, committed, hist, pageVars>>

\* <cftransaction action="commit"/> and "rollback" where there may be no frame, and
\* the functions, which throw then.
EndNow(commits) ==
    /\ phase = "page"
    /\ hist' = IF commits /\ blocks # <<>>
               THEN [hist EXCEPT !.settled = @ \cup {blocks[Len(blocks)]}] ELSE hist
    /\ \E function \in BOOLEAN :
          LET after == IF function /\ stack = <<>> THEN "raising" ELSE "page"
          IN IF commits THEN CommitFrame(after) ELSE RollbackFrame(after)
    /\ UNCHANGED <<stmt, blocks, pageVars>>

CommitNow == EndNow(TRUE)
RollbackNow == EndNow(FALSE)

\* TransactionSetSavePoint: the frame has the name even if the database has not.
SetSavepoint ==
    /\ phase = "page" /\ stack # <<>>
    /\ Len(Top.saves) < MaxSaves
    /\ \E p \in Savepoints :
          LET c == Top.conn
              fails == c # None /\ conn[c].state \in {"lost", "deleted"}
              opens == c # None /\ conn[c].state = "open"
                       /\ (conn[c].active \/ Backend = "sqlite")
          IN /\ phase' = IF fails THEN Failed(c) ELSE "page"
             /\ stack' = IF fails THEN stack
                         ELSE SetTop([Top EXCEPT !.saves = Append(@, p)])
             /\ conn' = IF opens
                        THEN [conn EXCEPT ![c] = [state |-> "open", active |-> TRUE,
                                               work |-> Append(conn[c].work, p)]]
                        ELSE conn
    /\ UNCHANGED <<stmt, blocks, durable, committed, hist, pageVars>>

\* A frame's savepoints up to the first p, a connection's transaction up to the last.
MarksIn(seq, p) == {i \in DOMAIN seq : seq[i] = p}
ToFirst(saves, p) == {SubSeq(saves, 1, i) : i \in {i \in MarksIn(saves, p) :
                                                   \A j \in MarksIn(saves, p) : i <= j}}
ToLast(work, p) == {SubSeq(work, 1, i) : i \in {i \in MarksIn(work, p) :
                                               \A j \in MarksIn(work, p) : j <= i}}

\* TransactionRollback with a name; one the frame does not know throws.
RollbackTo ==
    /\ phase = "page" /\ stack # <<>>
    /\ \E p \in Savepoints :
          LET c == Top.conn
              fails == \/ MarksIn(Top.saves, p) = {}
                       \/ c # None /\ (conn[c].state # "open" \/ MarksIn(conn[c].work, p) = {})
          IN \/ fails /\ phase' = Failed(c) /\ UNCHANGED <<stack, conn, hist>>
             \/ /\ ~fails /\ UNCHANGED phase
                /\ \E left \in ToFirst(Top.saves, p) :
                      stack' = SetTop([Top EXCEPT !.saves = left])
                /\ \/ c = None /\ UNCHANGED <<conn, hist>>
                   \/ c # None /\ \E left \in ToLast(conn[c].work, p) :
                         /\ conn' = [conn EXCEPT ![c].work = left]
                         /\ hist' = [hist EXCEPT !.undone =
                                       @ \cup (Written(c) \ {left[i] : i \in DOMAIN left})]
    /\ UNCHANGED <<stmt, blocks, durable, committed, pageVars>>

-------------------------------------------------------------------------------
(* <cfquery> and <cfstoredproc>.                                           *)

\* transaction_get_active: an unbound frame on top is bound to the name.
Bound(name) == IF stack # <<>> /\ Top.dsn = None
               THEN SetTop([Top EXCEPT !.dsn = name]) ELSE stack
Joins(name) == stack # <<>> /\ Top.dsn \in {None, name}

\* The statement will run on c, in the frame on top if "joined".  A frame that has
\* no connection yet takes c, and then begins there.
Run(name, query, c, joined) ==
    LET takes == joined /\ Top.conn = None
        opened == IF conn[c].state = "unused" THEN [conn EXCEPT ![c] = Autocommit] ELSE conn
        fails == takes /\ conn[c].state # "unused" /\ BeginFails(c)
        begins == takes /\ ~fails
        sharing == {stack[i].id : i \in Holders(c)}
    IN /\ stack' = IF takes THEN SetTop([Top EXCEPT !.dsn = name, !.conn = c]) ELSE Bound(name)
       /\ hist' = IF takes /\ sharing # {}
                  THEN [hist EXCEPT !.mixed = @ \cup sharing \cup {Top.id}] ELSE hist
       /\ conn' = IF begins
                  THEN [opened EXCEPT ![c] = [Autocommit EXCEPT !.active = TRUE]] ELSE opened
       /\ durable' = IF begins THEN durable \cup Written(c) ELSE durable
       /\ phase' = IF fails THEN "raising" ELSE "execute"
       /\ stmt' = IF fails THEN None
                  ELSE [name |-> name, conn |-> c, owned |-> joined, query |-> query]

\* On the connection of the frame, else on the one the worker has, else on a new one.
Connect(name, query) ==
    /\ phase = "page"
    /\ LET d == Upper[name]
           joined == Joins(name)
       IN IF joined /\ Top.conn # None
          THEN Run(name, query, Top.conn, TRUE) /\ UNCHANGED pool
          ELSE \E c \in IF pool[d] # None THEN {pool[d]}
                        ELSE {x \in Conns : conn[x].state = "unused"} :
                  /\ Run(name, query, c, joined)
                  /\ pool' = [pool EXCEPT ![d] = c]
    /\ UNCHANGED <<blocks, queried, retried, count, by, committed>>

ConnectFails(name) ==
    /\ phase = "page"
    /\ pool[Upper[name]] = None
    /\ ~(Joins(name) /\ Top.conn # None)
    /\ phase' = "raising"
    /\ stack' = Bound(name)
    /\ UNCHANGED <<stmt, blocks, conn, durable, committed, hist, pageVars>>

Seen == IF stmt.query THEN queried \cup {Upper[stmt.name]} ELSE queried

Execute ==
    /\ phase = "execute"
    /\ conn[stmt.conn].state = "open"
    /\ \E w \in {x \in Writes : by[x] = None} \cup {None}, holder \in Holder(stmt.conn) :
          LET c == stmt.conn IN
          /\ by' = IF w = None THEN by ELSE [by EXCEPT ![w] = holder]
          /\ conn' = IF w # None /\ conn[c].active
                     THEN [conn EXCEPT ![c].work = Append(@, w)] ELSE conn
          /\ durable' = IF w # None /\ ~conn[c].active THEN durable \cup {w} ELSE durable
    /\ queried' = Seen
    /\ phase' = "page" /\ stmt' = None
    /\ UNCHANGED <<stack, blocks, pool, retried, count, committed, hist>>

MayRetry ==
    /\ stmt.query /\ ~stmt.owned
    /\ Upper[stmt.name] \notin queried \cup retried

\* The statement is wrong, or the connection is gone and the statement not retried.
ExecuteFails ==
    /\ phase = "execute"
    /\ conn[stmt.conn].state = "lost" => ~MayRetry
    /\ phase' = Failed(stmt.conn) /\ stmt' = None
    /\ queried' = Seen
    /\ UNCHANGED <<stack, blocks, pool, conn, durable, retried, count, by,
                   committed, hist>>

\* reopenConnection: the old object goes, whoever else holds it.
Reconnect ==
    /\ phase = "execute"
    /\ conn[stmt.conn].state = "lost" /\ MayRetry
    /\ LET d == Upper[stmt.name]
           old == DeletedIn(conn, {pool[d]})
       IN /\ retried' = retried \cup {d}
          /\ \/ \E c \in Conns :
                   /\ conn[c].state = "unused"
                   /\ conn' = [old EXCEPT ![c] = Autocommit]
                   /\ pool' = [pool EXCEPT ![d] = c]
                   /\ stmt' = [stmt EXCEPT !.conn = c]
                   /\ UNCHANGED phase
             \/ /\ conn' = old
                /\ pool' = [pool EXCEPT ![d] = None]
                /\ phase' = "raising" /\ stmt' = None
    /\ UNCHANGED <<stack, blocks, durable, queried, count, by, committed, hist>>

Next ==
    \/ BeginRequest \/ FinishRequest \/ InvalidateCaches
    \/ OpenBlock \/ CloseBlock \/ UnwindBlock \/ LeaveBlock \/ Catch
    \/ CommitNow \/ RollbackNow \/ SetSavepoint \/ RollbackTo
    \/ \E name \in Names, query \in BOOLEAN : Connect(name, query)
    \/ \E name \in Names : ConnectFails(name)
    \/ Execute \/ ExecuteFails \/ Reconnect
    \/ LoseConnection

Spec == Init /\ [][Next]_vars

-------------------------------------------------------------------------------
(* Properties.                                                             *)

\* A transaction that shared its connection with no other frame is all or nothing:
\* its writes are durable if its frame was committed, and only then.
FrameAtomic ==
    \A w \in Writes :
        by[w] \in Ids \ hist.mixed =>
            /\ w \in durable => by[w] \in committed
            /\ by[w] \in committed => w \in durable \cup hist.undone

\* A statement that succeeds outside of all transactions is never lost, whatever the
\* frames before it were left with.
OutsideIsDurable == \A w \in Writes : by[w] = 0 => w \in durable

\* No request begins with a connection on which an earlier one has work pending.
NothingPending == phase = "idle" => \A c \in Pooled : ~conn[c].active

\* The body of a block throws, the block having committed nothing itself: then
\* nothing that ran in its frame is durable.
ThrownIsUndone ==
    \A w \in durable : by[w] \in hist.thrown => by[w] \in hist.settled
===============================================================================
